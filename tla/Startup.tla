------------------------------- MODULE Startup -------------------------------
(***************************************************************************)
(* The start of the process in src/main.rs: the settings of src/config.rs  *)
(* from the environment and a .env file, the client of src/mojang.rs with  *)
(* its proxy list, the tasks, and the port.  Each step may end it.         *)
(*                                                                         *)
(* A text stands for a value or a part of a line; what it parses to is     *)
(* given by the constants PortOf, HostOf, EncodingOf and Webhooks.         *)
(***************************************************************************)
EXTENDS Naturals, SequencesExt, Functions

CONSTANTS Process,      \* what the process may be given: texts of Variables
          Dotenv,       \* what a .env file may set
          Files,        \* what PROXY_LIST_FILE may name
          PortOf,       \* the u16 that a text parses to, if it does
          HostOf,       \* the host that Url::parse makes of a text, if it does
          EncodingOf,   \* what a part of a login is percent-encoded to
          Webhooks,     \* texts that Url::parse accepts
          DefaultPort   \* DEFAULT_SERVER_PORT

Variables == {"SERVER_PORT", "PORT", "PROXY_LIST_FILE", "DISCORD_WEBHOOK"}

Unset == "unset"
Garbled == "garbled"   \* not Unicode
Blank == ""
PortNumbers == 0..65535  \* u16

ASSUME SettingAssumption ==
    /\ Process \cup Dotenv \subseteq [Variables -> STRING]
    /\ \A settings \in Dotenv, v \in Variables : settings[v] # Garbled
    /\ {Unset, Garbled, Blank} \cap (DOMAIN PortOf \cup DOMAIN HostOf \cup Webhooks) = {}
    /\ DefaultPort \in PortNumbers \ {0} /\ Range(PortOf) \subseteq PortNumbers
\* Lines are trimmed and split at their first three colons; a blank one is <<>>.
ASSUME FileAssumption ==
    \A found \in Files :
      /\ found.kind \in {"text", "missing", "unreadable"}
      /\ found.lines \in Seq(Seq(STRING))
      /\ \A i \in DOMAIN found.lines :
           LET line == found.lines[i]
           IN /\ Len(line) <= 4
              /\ Range(SubSeq(line, 3, Len(line))) \subseteq DOMAIN EncodingOf \cup {Blank}

VARIABLES
  process, dotenv, file,  \* what the process finds
  stage,                  \* how far main has come
  port,                   \* Config::server_port
  proxies,                \* what the client chooses from, nothing: it is direct
  running,                \* the tasks that were spawned
  cause                   \* history: what a start failed for

startVars == <<process, dotenv, file, stage, port, proxies, running, cause>>

StartInit ==
  /\ process \in Process
  /\ dotenv \in Dotenv
  /\ file \in Files
  /\ stage = "starting"
  /\ port = 0
  /\ proxies = <<>>
  /\ running = {}
  /\ cause = "nothing"

-----------------------------------------------------------------------------
(* The settings.                                                           *)

\* A .env file sets only what env::var cannot read.
Environment ==
  [v \in Variables |-> IF process[v] \in {Unset, Garbled} /\ dotenv[v] # Unset
                       THEN dotenv[v] ELSE process[v]]

\* env::var(..).ok()
Readable(v) == Environment[v] \notin {Unset, Garbled}

\* Seeded fault: the platform's port comes first.
PortTextOfPlatform ==
  IF Readable("PORT") THEN Environment["PORT"]
  ELSE IF Readable("SERVER_PORT") THEN Environment["SERVER_PORT"] ELSE Unset

\* The first that is set counts, and then it must parse.
PortText ==
  IF Readable("SERVER_PORT") THEN Environment["SERVER_PORT"]
  ELSE IF Readable("PORT") THEN Environment["PORT"] ELSE Unset

-----------------------------------------------------------------------------
(* The proxy list.                                                         *)

\* parse_proxy_url accepts the parts of a line.
IsProxy(line) ==
  /\ Len(line) \in {2, 4}
  /\ line[1] \in DOMAIN HostOf
  /\ line[2] \in DOMAIN PortOf
  /\ Len(line) = 4 => line[3] # Blank

\* The URL it makes of them; set_password with a blank one removes it.
ProxyOf(line) ==
  LET login == SelectSeq(SubSeq(line, 3, Len(line)), LAMBDA part : part # Blank)
  IN [host |-> HostOf[line[1]], port |-> PortOf[line[2]],
      login |-> [i \in DOMAIN login |-> EncodingOf[login[i]]]]

\* Seeded fault: lines are told apart as they are written.
LoadProxyListAsWritten(lines) ==
  LET entries == FoldLeft(LAMBDA seen, line :
        IF IsProxy(line) /\ ~Contains(seen, line) THEN Append(seen, line) ELSE seen,
        <<>>, lines)
  IN [i \in DOMAIN entries |-> ProxyOf(entries[i])]

\* Blank and invalid lines are passed over, and URLs that were seen before.
Enter(seen, line) ==
  IF IsProxy(line) /\ ~Contains(seen, ProxyOf(line))
  THEN Append(seen, ProxyOf(line)) ELSE seen

LoadProxyList(lines) == FoldLeft(Enter, <<>>, lines)

-----------------------------------------------------------------------------
(* The steps of main.                                                      *)

\* main returns the error, and the runtime ends with its tasks.
FailWith(error) ==
  /\ stage' = "failed"
  /\ cause' = error
  /\ running' = {}

LoadConfig ==
  /\ stage = "starting"
  /\ \/ /\ PortText \notin DOMAIN PortOf \cup {Unset}
        /\ FailWith("port")
        /\ UNCHANGED port
     \/ /\ PortText \in DOMAIN PortOf \cup {Unset}
        /\ Readable("DISCORD_WEBHOOK") /\ Environment["DISCORD_WEBHOOK"] \notin Webhooks
        /\ FailWith("webhook")
        /\ UNCHANGED port
     \/ /\ PortText \in DOMAIN PortOf \cup {Unset}
        /\ Readable("DISCORD_WEBHOOK") => Environment["DISCORD_WEBHOOK"] \in Webhooks
        /\ port' = IF PortText = Unset THEN DefaultPort ELSE PortOf[PortText]
        /\ stage' = "configured"
        /\ UNCHANGED <<running, cause>>
  /\ UNCHANGED <<process, dotenv, file, proxies>>

\* MojangHttpClient::new; the path may be any text, also one that is garbled,
\* and reqwest may refuse to build a client.
NewClient ==
  /\ stage = "configured"
  /\ \/ /\ Environment["PROXY_LIST_FILE"] # Unset /\ file.kind = "unreadable"
        /\ FailWith("proxy list")
        /\ UNCHANGED proxies
     \/ /\ Environment["PROXY_LIST_FILE"] = Unset \/ file.kind # "unreadable"
        /\ FailWith("client")
        /\ UNCHANGED proxies
     \/ /\ Environment["PROXY_LIST_FILE"] = Unset \/ file.kind # "unreadable"
        /\ proxies' = IF Environment["PROXY_LIST_FILE"] # Unset /\ file.kind = "text"
                      THEN LoadProxyList(file.lines) ELSE <<>>
        /\ stage' = "connected"
        /\ UNCHANGED <<running, cause>>
  /\ UNCHANGED <<process, dotenv, file, port>>

\* BatchProcessor::start and DiscordReporter::start
StartTasks ==
  /\ stage = "connected"
  /\ running' = {"processor"} \cup (IF Readable("DISCORD_WEBHOOK") THEN {"reporter"} ELSE {})
  /\ stage' = "binding"
  /\ UNCHANGED <<process, dotenv, file, port, proxies, cause>>

\* The port may be taken.
Bind ==
  /\ stage = "binding"
  /\ \/ FailWith("address")
     \/ stage' = "serving" /\ UNCHANGED <<running, cause>>
  /\ UNCHANGED <<process, dotenv, file, port, proxies>>

StartNext == LoadConfig \/ NewClient \/ StartTasks \/ Bind

StartSpec == StartInit /\ [][StartNext]_startVars

-----------------------------------------------------------------------------
\* The formats of a proxy line (src/README.md:34).
Documented(line) ==
  \E host \in DOMAIN HostOf, number \in DOMAIN PortOf :
    \/ line = <<host, number>>
    \/ \E i \in DOMAIN file.lines :
         /\ Len(file.lines[i]) = 4 /\ file.lines[i][3] # Blank
         /\ line = <<host, number, file.lines[i][3], file.lines[i][4]>>

\* However the lines are spelled, repeated or broken, the client chooses among
\* exactly the proxies of the lines in one of the documented formats, and each
\* has one share in the choice: none is there twice, and one bad line costs no
\* other its place.
ProxiesAreTheFile ==
  stage = "serving" /\ file.kind = "text" /\ Environment["PROXY_LIST_FILE"] # Unset =>
    /\ Range(proxies) = {ProxyOf(line) : line \in {l \in Range(file.lines) : Documented(l)}}
    /\ \A i, j \in DOMAIN proxies : proxies[i] = proxies[j] => i = j

\* The settings that are parsed are Unicode.  One that is not the code passes over
\* (Readable), while the documentation of Config::from_env (src/src/config.rs:53)
\* promises an error for it: what is right then is open.
Legible == \A v \in Variables \ {"PROXY_LIST_FILE"} : process[v] # Garbled

\* What is set for a variable: the process's own settings over those of the file.
Setting(v) == IF process[v] # Unset THEN process[v] ELSE dotenv[v]

\* What is set for the port, SERVER_PORT before PORT.
PortSettings ==
  LET names == <<"SERVER_PORT", "PORT">>
  IN [i \in {j \in DOMAIN names : Setting(names[j]) # Unset} |-> Setting(names[i])]

\* The table of src/README.md:28: SERVER_PORT over PORT over the default,
\* reports only with a webhook, direct connections without a proxy file.  A start
\* that fails for a setting does so for one in use: what an override hides need
\* not be valid, nor a proxy file that nothing names.  Settings that are not
\* Legible are left out.
ServesAsConfigured ==
  LET first == PortSettings[Min(DOMAIN PortSettings)]
      usable == PortSettings = <<>> \/ first \in DOMAIN PortOf
      listed == Environment["PROXY_LIST_FILE"] # Unset
  IN Legible =>
     /\ stage = "serving" =>
          /\ usable
          /\ port = IF PortSettings = <<>> THEN DefaultPort ELSE PortOf[first]
          /\ "reporter" \in running <=> Setting("DISCORD_WEBHOOK") # Unset
          /\ proxies # <<>> => listed /\ file.kind = "text"
     /\ stage = "failed" =>
          /\ cause = "port" <=> ~usable
          /\ cause = "webhook" => Setting("DISCORD_WEBHOOK") \notin Webhooks \cup {Unset}
          /\ cause = "proxy list" => listed /\ file.kind = "unreadable"
          /\ running = {}
=============================================================================
