------------------------------ MODULE MCStartup ------------------------------
(* A small instance of Startup: ports in both environments, a webhook, and *)
(* proxy files of up to three lines.                                       *)
EXTENDS Startup, TLC

Settings(server, platform, webhook, list) ==
  {"SERVER_PORT" :> s @@ "PORT" :> p @@ "DISCORD_WEBHOOK" :> w @@ "PROXY_LIST_FILE" :> f :
     s \in server, p \in platform, w \in webhook, f \in list}

Given ==
  Settings({Unset, Garbled, "80"}, {Unset, "8080", "no"}, {Unset, Garbled, "no", "url"},
           {Unset, "path"})
Written == Settings({Unset, "8080", ""}, {Unset}, {Unset, "url"}, {Unset})

Ports == "80" :> 80 @@ "080" :> 80 @@ "8080" :> 8080
Hosts == "a" :> "a" @@ "A" :> "a" @@ "b" :> "b"

Encodings == "@" :> "%40" @@ "%40" :> "%40" @@ "p" :> "p"

Lines ==
  {<<>>, <<"a", "80">>, <<"A", "080">>, <<"b", "80">>, <<"a", "no">>, <<"", "80">>,
   <<"a", "80", "@">>, <<"a", "80", "@", "p">>, <<"a", "80", "%40", "p">>,
   <<"a", "80", "@", "">>, <<"a", "80", "", "p">>}
Lists ==
  [kind : {"missing", "unreadable"}, lines : {<<>>}]
    \cup [kind : {"text"}, lines : SeqOf(Lines, 3)]
=============================================================================
