---------------------------- MODULE Process_proofs ----------------------------
(***************************************************************************)
(* Proofs about the process, for every environment, proxy list, number of  *)
(* clients and configuration: how it starts (Startup), whom it admits      *)
(* while it serves (RateLimiter) and how it stops (Lifecycle).  The three  *)
(* share nothing but the process; each has an invariant of its own.        *)
(*                                                                         *)
(* Startup: Configured says after each step of main what it has made of    *)
(* the settings; the proxy list is a fold over the lines of its file.      *)
(*                                                                         *)
(* RateLimiter: TypeOK comes first.  Fresh bounds the ages of what the     *)
(* limiter keeps; Windows relates the windows in the log to the current    *)
(* ones and to the clock; Groups counts the admitted requests of each      *)
(* window; Ordered says that the windows of a client follow each other in  *)
(* the log.                                                                *)
(*                                                                         *)
(* Lifecycle: Served says who may still ask the processor in which phase   *)
(* of the shutdown, and who may still wait for it.                         *)
(***************************************************************************)
EXTENDS Startup, RateLimiter, Lifecycle, FiniteSetTheorems, TLAPS

-----------------------------------------------------------------------------
(* How the process starts.                                                 *)

\* What the process finds is fixed, and of the kinds it may be.
Found == process \in Process /\ dotenv \in Dotenv /\ file \in Files

\* The environment after dotenv has in it what is set, and what is not Unicode
\* is left aside.
LEMMA ReadableIsSet ==
  ASSUME Found, NEW v \in Variables, process[v] # Garbled
  PROVE  /\ Readable(v) <=> Setting(v) # Unset
         /\ Readable(v) => Environment[v] = Setting(v)
<1>1. dotenv[v] # Garbled
  BY SettingAssumption DEF Found
<1>2. Unset # Garbled
  BY DEF Unset, Garbled
<1> QED
  BY <1>1, <1>2 DEF Readable, Environment, Setting

LEMMA MinOfPorts == Min({1}) = 1 /\ Min({2}) = 2 /\ Min({1, 2}) = 1
BY DEF Min

\* The port is read from the first variable that is set.
LEMMA PortTextIsFirst ==
  ASSUME Found, Legible
  PROVE  /\ PortText = Unset <=> PortSettings = <<>>
         /\ PortText # Unset => PortText = PortSettings[Min(DOMAIN PortSettings)]
<1>1. /\ "SERVER_PORT" \in Variables /\ process["SERVER_PORT"] # Garbled
      /\ "PORT" \in Variables /\ process["PORT"] # Garbled
  BY DEF Legible, Variables
<1> DEFINE S == Setting("SERVER_PORT")
<1> DEFINE T == Setting("PORT")
<1>2. PortText = IF S # Unset THEN S ELSE T
  BY <1>1, ReadableIsSet DEF PortText
<1>3. PortSettings = [i \in {j \in {1, 2} : <<S, T>>[j] # Unset} |-> <<S, T>>[i]]
  BY DEF PortSettings
<1> HIDE DEF S, T
<1>4. DOMAIN PortSettings = {j \in {1, 2} : <<S, T>>[j] # Unset}
  BY <1>3
<1>5. DOMAIN PortSettings = {} <=> PortSettings = <<>>
  BY <1>3
<1>6. CASE S # Unset
  <2>1. 1 \in DOMAIN PortSettings /\ PortSettings[1] = S
    BY <1>3, <1>4, <1>6
  <2>2. DOMAIN PortSettings \in {{1}, {1, 2}}
    BY <1>4, <2>1
  <2>3. Min(DOMAIN PortSettings) = 1
    BY <2>2, MinOfPorts
  <2> QED
    BY <1>2, <1>5, <1>6, <2>1, <2>3
<1>7. CASE S = Unset /\ T # Unset
  <2>1. DOMAIN PortSettings = {2} /\ PortSettings[2] = T
    BY <1>3, <1>4, <1>7
  <2>2. Min(DOMAIN PortSettings) = 2
    BY <2>1, MinOfPorts
  <2> QED
    BY <1>2, <1>5, <1>7, <2>1, <2>2
<1>8. CASE S = Unset /\ T = Unset
  <2>1. DOMAIN PortSettings = {}
    BY <1>4, <1>8
  <2> QED
    BY <1>2, <1>5, <1>8, <2>1
<1> QED
  BY <1>6, <1>7, <1>8

\* What main has done so far is what the settings say.
Configured ==
  LET webhook == Readable("DISCORD_WEBHOOK")
  IN /\ Found
     /\ stage \in {"starting", "configured", "connected", "binding", "serving", "failed"}
     /\ stage # "failed" => cause = "nothing"
     /\ stage \in {"starting", "configured"} => proxies = <<>>
     /\ stage \in {"starting", "configured", "connected"} => running = {}
     /\ stage \in {"configured", "connected", "binding", "serving"} =>
          /\ PortText \in DOMAIN PortOf \cup {Unset}
          /\ port = IF PortText = Unset THEN DefaultPort ELSE PortOf[PortText]
     /\ stage \in {"connected", "binding", "serving"} =>
          proxies = IF Environment["PROXY_LIST_FILE"] # Unset /\ file.kind = "text"
                    THEN LoadProxyList(file.lines) ELSE <<>>
     /\ stage \in {"binding", "serving"} => ("reporter" \in running <=> webhook)
     /\ stage = "failed" =>
          /\ cause \in {"port", "webhook", "proxy list", "client", "address"}
          /\ cause = "port" <=> PortText \notin DOMAIN PortOf \cup {Unset}
          /\ cause = "webhook" => webhook /\ Environment["DISCORD_WEBHOOK"] \notin Webhooks
          /\ cause = "proxy list" =>
               Environment["PROXY_LIST_FILE"] # Unset /\ file.kind = "unreadable"
          /\ running = {}

LEMMA InitConfigured == StartInit => Configured
BY DEF StartInit, Configured, Found

LEMMA NextConfigured ==
  ASSUME Configured, [StartNext]_startVars
  PROVE  Configured'
<1>1. ASSUME UNCHANGED <<process, dotenv, file>>
      PROVE  /\ Found' = Found
             /\ PortText' = PortText
             /\ \A v : Readable(v)' = Readable(v)
             /\ Environment' = Environment
  BY <1>1 DEF Found, PortText, Readable, Environment
<1>2. CASE LoadConfig
  <2>1. CASE PortText \notin DOMAIN PortOf \cup {Unset} /\ FailWith("port")
    BY <1>1, <1>2, <2>1 DEF LoadConfig, FailWith, Configured
  <2> QED
    BY <1>1, <1>2 DEF LoadConfig, FailWith, Configured
<1>3. CASE NewClient
  BY <1>1, <1>3 DEF NewClient, FailWith, Configured
<1>4. CASE StartTasks
  BY <1>1, <1>4 DEF StartTasks, Configured
<1>5. CASE Bind
  BY <1>1, <1>5 DEF Bind, FailWith, Configured
<1>6. CASE UNCHANGED startVars
  BY <1>1, <1>6 DEF startVars, Configured
<1> QED
  BY <1>2, <1>3, <1>4, <1>5, <1>6 DEF StartNext

LEMMA ConfiguredCorrect == StartSpec => []Configured
BY InitConfigured, NextConfigured, PTL DEF StartSpec

\* Whatever is set where, as long as what is parsed is Unicode, a process that
\* serves does so as src/README.md:28 says, and one that does not start has an
\* invalid setting that is in use, an unreadable proxy file that is named, a
\* client that could not be built, or no port to bind to.
THEOREM ServesAsConfiguredHolds == StartSpec => []ServesAsConfigured
<1>1. Configured => ServesAsConfigured
  <2> SUFFICES ASSUME Configured, Legible
               PROVE  ServesAsConfigured
    BY DEF ServesAsConfigured
  <2> DEFINE listed == Environment["PROXY_LIST_FILE"] # Unset
  <2> DEFINE first == PortSettings[Min(DOMAIN PortSettings)]
  <2> DEFINE usable == PortSettings = <<>> \/ first \in DOMAIN PortOf
  <2>1. /\ PortText = Unset <=> PortSettings = <<>>
        /\ PortText # Unset => PortText = first
    BY PortTextIsFirst DEF Configured
  <2>2. Unset \notin DOMAIN PortOf
    BY SettingAssumption
  <2>3. usable <=> PortText \in DOMAIN PortOf \cup {Unset}
    BY <2>1, <2>2
  <2>4. /\ Readable("DISCORD_WEBHOOK") <=> Setting("DISCORD_WEBHOOK") # Unset
        /\ Readable("DISCORD_WEBHOOK") => Environment["DISCORD_WEBHOOK"] = Setting("DISCORD_WEBHOOK")
    BY ReadableIsSet DEF Configured, Legible, Variables
  <2>5. stage = "serving" =>
          /\ usable
          /\ port = IF PortSettings = <<>> THEN DefaultPort ELSE PortOf[first]
          /\ "reporter" \in running <=> Setting("DISCORD_WEBHOOK") # Unset
          /\ proxies # <<>> => listed /\ file.kind = "text"
    BY <2>1, <2>3, <2>4 DEF Configured
  <2>6. stage = "failed" =>
          /\ cause = "port" <=> ~usable
          /\ cause = "webhook" => Setting("DISCORD_WEBHOOK") \notin Webhooks \cup {Unset}
          /\ cause = "proxy list" => listed /\ file.kind = "unreadable"
          /\ running = {}
    BY <2>3, <2>4 DEF Configured
  <2> QED
    BY <2>5, <2>6 DEF ServesAsConfigured
<1> QED
  BY <1>1, ConfiguredCorrect, PTL

-----------------------------------------------------------------------------
(* What the client makes of its proxy list.                                *)

\* Some facts about numbers and folds, which need nothing of the client.
P == INSTANCE MojangClient_proofs WITH
       Calls <- {}, KindOf <- <<>>, BodyOf <- <<>>, Skins <- {}, Limit <- 0, Chunks <- {},
       call <- <<>>, response <- <<>>, result <- <<>>,
       requests <- 0, sent <- 0, received <- 0, errors <- 0

ProxiesOf(lines) == {ProxyOf(line) : line \in Range(lines)}

LEMMA EnterType ==
  ASSUME NEW V, NEW seen \in Seq(V), NEW line, ProxyOf(line) \in V
  PROVE  Enter(seen, line) \in Seq(V)
BY DEF Enter

\* The lines are entered in their order.
LEMMA LoadProxyListSteps ==
  ASSUME NEW L, NEW lines \in Seq(L)
  PROVE  \E seen \in [0..Len(lines) -> Seq(ProxiesOf(lines))] :
           /\ seen[0] = <<>>
           /\ \A i \in 1..Len(lines) : seen[i] = Enter(seen[i - 1], lines[i])
           /\ LoadProxyList(lines) = seen[Len(lines)]
<1> DEFINE n == Len(lines)
<1> DEFINE V == Seq(ProxiesOf(lines))
<1> DEFINE After(i, s) == Enter(s, lines[i])
<1> DEFINE step == [a \in (1..n) \X V |-> After(a[1], a[2])]
<1> DEFINE Solves(it) == it = [s \in SUBSET (1..n) |->
             IF s = {} THEN <<>> ELSE After(Max(s), it[s \ {Max(s)}])]
<1>n. n \in Nat /\ DOMAIN lines = 1..n
  OBVIOUS
<1>1. \A i \in 1..n, s \in V : After(i, s) \in V
  <2> TAKE i \in 1..n, s \in V
  <2>1. ProxyOf(lines[i]) \in ProxiesOf(lines)
    BY <1>n DEF ProxiesOf, Range
  <2> QED
    BY <2>1, EnterType
<1>2. <<>> \in V
  OBVIOUS
<1> HIDE DEF n, V
<1>3. \E it : Solves(it)
  <2>1. step \in [(1..n) \X V -> V]
    <3> HIDE DEF After
    <3> QED
      BY <1>1
  <2>2. PICK it : P!Folds(it, n, V, <<>>, step)
    <3> HIDE DEF step, Solves
    <3> QED
      BY <1>n, <1>2, <2>1, P!FoldExists
  <2>3. /\ it \in [SUBSET (1..n) -> V]
        /\ \A s \in SUBSET (1..n) :
             it[s] = IF s = {} THEN <<>> ELSE step[<<Max(s), it[s \ {Max(s)}]>>]
    <3> HIDE DEF step, Solves
    <3> QED
      BY <2>2 DEF P!Folds, P!Max, Max
  <2>4. ASSUME NEW s \in SUBSET (1..n), s # {}
        PROVE  step[<<Max(s), it[s \ {Max(s)}]>>] = After(Max(s), it[s \ {Max(s)}])
    <3>1. Max(s) \in 1..n /\ it[s \ {Max(s)}] \in V
      BY <1>n, <2>3, <2>4, P!LargestExists DEF P!Max, Max
    <3> HIDE DEF After
    <3> QED
      BY <3>1
  <2>5. Solves(it)
    <3> HIDE DEF After, step
    <3> QED
      BY <2>3, <2>4
  <2> HIDE DEF Solves
  <2> QED
    BY <2>5
<1> DEFINE iter == CHOOSE it : Solves(it)
<1> DEFINE seen == [i \in 0..n |-> iter[1..i]]
<1>4. Solves(iter)
  <2> HIDE DEF Solves
  <2> QED
    BY <1>3
<1>5. LoadProxyList(lines) = seen[n]
  BY <1>n DEF LoadProxyList, FoldLeft, MapThenFoldSet
<1> HIDE DEF iter
<1>6. seen[0] = <<>>
  BY <1>n, <1>4
<1>7. ASSUME NEW i \in 1..n
      PROVE  seen[i] = After(i, seen[i - 1])
  <2>1. /\ i - 1 \in 0..n /\ i \in 0..n /\ i \in Nat
        /\ 1..i \in SUBSET (1..n) /\ i \in 1..i
    BY <1>n
  <2>2. (1..i) \ {i} = 1..(i-1)
    BY <2>1
  <2>3. Max(1..i) = i
    BY <2>1, P!LargestIn DEF P!Max, Max
  <2>4. iter[1..i] = After(i, iter[1..(i-1)])
    <3> HIDE DEF After
    <3> QED
      BY <1>4, <2>1, <2>2, <2>3
  <2> HIDE DEF After
  <2> QED
    BY <2>1, <2>4
<1>8. seen \in [0..n -> V]
  <2> DEFINE S == {i \in 0..n : seen[i] \in V}
  <2>1. 0 \in S
    BY <1>n, <1>2, <1>6
  <2>2. ASSUME NEW i \in 1..n, i - 1 \in S
        PROVE  i \in S
    <3>1. i \in 0..n
      BY <1>n
    <3> HIDE DEF seen, After
    <3> QED
      BY <1>1, <1>7, <2>2, <3>1
  <2>3. \A i \in 0..n : i \in S
    <3> HIDE DEF S
    <3> QED
      BY <1>n, <2>1, <2>2, P!UpTo
  <2> QED
    BY <2>3
<1>9. \A i \in 1..n : seen[i] = Enter(seen[i - 1], lines[i])
  BY <1>7
<1> HIDE DEF seen
<1> QED
  BY <1>5, <1>6, <1>8, <1>9 DEF n, V

\* A proxy is entered once, behind the others.
LEMMA EnterKeeps ==
  ASSUME NEW V, NEW seen \in Seq(V), NEW line, ProxyOf(line) \in V, IsInjective(seen)
  PROVE  /\ Range(Enter(seen, line)) =
              Range(seen) \cup (IF IsProxy(line) THEN {ProxyOf(line)} ELSE {})
         /\ IsInjective(Enter(seen, line))
<1> DEFINE p == ProxyOf(line)
<1>1. Contains(seen, p) <=> p \in Range(seen)
  BY DEF Contains, Range
<1>2. CASE ~IsProxy(line) \/ Contains(seen, p)
  BY <1>1, <1>2 DEF Enter
<1>3. CASE IsProxy(line) /\ ~Contains(seen, p)
  <2>1. Enter(seen, line) = Append(seen, p)
    BY <1>3 DEF Enter
  <2> HIDE DEF p
  <2>2. /\ Len(seen) \in Nat
        /\ DOMAIN seen = 1..Len(seen)
        /\ DOMAIN Append(seen, p) = 1..(Len(seen) + 1)
        /\ \A i \in 1..Len(seen) : Append(seen, p)[i] = seen[i]
        /\ Append(seen, p)[Len(seen) + 1] = p
    BY DEF p
  <2>3. Range(Append(seen, p)) = Range(seen) \cup {p}
    BY <2>2 DEF Range
  <2>4. IsInjective(Append(seen, p))
    BY <1>1, <1>3, <2>2 DEF IsInjective, Range
  <2> QED
    BY <1>3, <2>1, <2>3, <2>4 DEF p
<1> QED
  BY <1>2, <1>3

\* The list holds the proxies of all its lines that have one, each once.
LEMMA LoadProxyListLoads ==
  ASSUME NEW L, NEW lines \in Seq(L)
  PROVE  /\ Range(LoadProxyList(lines)) =
              {ProxyOf(line) : line \in {l \in Range(lines) : IsProxy(l)}}
         /\ IsInjective(LoadProxyList(lines))
<1> DEFINE n == Len(lines)
<1> DEFINE V == ProxiesOf(lines)
<1>1. n \in Nat /\ DOMAIN lines = 1..n
  OBVIOUS
<1>2. PICK seen \in [0..n -> Seq(V)] :
         /\ seen[0] = <<>>
         /\ \A i \in 1..n : seen[i] = Enter(seen[i - 1], lines[i])
         /\ LoadProxyList(lines) = seen[n]
  BY LoadProxyListSteps
<1>3. \A i \in 1..n : ProxyOf(lines[i]) \in V
  BY <1>1 DEF ProxiesOf, Range
<1> HIDE DEF n, V
<1> DEFINE Of(i) == {ProxyOf(lines[j]) : j \in {k \in 1..i : IsProxy(lines[k])}}
<1> DEFINE S == {i \in 0..n : Range(seen[i]) = Of(i) /\ IsInjective(seen[i])}
<1>4. 0 \in S
  <2>1. 1..0 = {}
    OBVIOUS
  <2>2. Range(<<>>) = {} /\ IsInjective(<<>>)
    BY DEF Range, IsInjective
  <2> QED
    BY <1>1, <1>2, <2>1, <2>2
<1>5. ASSUME NEW i \in 1..n, i - 1 \in S
      PROVE  i \in S
  <2>1. /\ i - 1 \in 0..n /\ i \in 0..n /\ i \in Nat
        /\ 1..i = (1..(i - 1)) \cup {i}
    BY <1>1
  <2>2. Of(i) = Of(i - 1) \cup (IF IsProxy(lines[i]) THEN {ProxyOf(lines[i])} ELSE {})
    BY <2>1
  <2>3. seen[i] = Enter(seen[i - 1], lines[i]) /\ seen[i - 1] \in Seq(V)
    BY <1>2, <2>1
  <2>4. Range(seen[i - 1]) = Of(i - 1) /\ IsInjective(seen[i - 1])
    BY <1>5
  <2>5. /\ Range(seen[i]) = Range(seen[i - 1])
              \cup (IF IsProxy(lines[i]) THEN {ProxyOf(lines[i])} ELSE {})
        /\ IsInjective(seen[i])
    <3>1. ProxyOf(lines[i]) \in V
      BY <1>3
    <3>2. /\ Range(Enter(seen[i - 1], lines[i])) = Range(seen[i - 1])
                \cup (IF IsProxy(lines[i]) THEN {ProxyOf(lines[i])} ELSE {})
          /\ IsInjective(Enter(seen[i - 1], lines[i]))
      BY <2>3, <2>4, <3>1, EnterKeeps, Zenon
    <3> QED
      BY <2>3, <3>2, Zenon
  <2> HIDE DEF Of
  <2> QED
    BY <2>1, <2>2, <2>4, <2>5
<1>6. n \in S
  <2>1. \A i \in 0..n : i \in S
    <3> HIDE DEF S
    <3> QED
      BY <1>1, <1>4, <1>5, P!UpTo
  <2> HIDE DEF S
  <2> QED
    BY <1>1, <2>1
<1>7. Of(n) = {ProxyOf(line) : line \in {l \in Range(lines) : IsProxy(l)}}
  BY <1>1 DEF Range
<1> QED
  BY <1>2, <1>6, <1>7

\* The lines that are entered are those in a documented format.
LEMMA DocumentedIsProxy ==
  ASSUME Found, NEW line \in Range(file.lines)
  PROVE  Documented(line) <=> IsProxy(line)
<1>1. PICK i \in DOMAIN file.lines : line = file.lines[i]
  BY DEF Range
<1>2. line \in Seq(STRING) /\ Len(line) \in Nat
  BY <1>1, FileAssumption DEF Found
<1>3. Documented(line) => IsProxy(line)
  BY DEF Documented, IsProxy
<1>4. ASSUME IsProxy(line)
      PROVE  Documented(line)
  <2>1. CASE Len(line) = 2
    <3>1. line = <<line[1], line[2]>>
      BY <1>2, <2>1
    <3> QED
      BY <1>4, <3>1 DEF Documented, IsProxy
  <2>2. CASE Len(line) = 4
    <3>1. line = <<line[1], line[2], line[3], line[4]>>
      BY <1>2, <2>2
    <3>2. line[1] \in DOMAIN HostOf /\ line[2] \in DOMAIN PortOf /\ line[3] # Blank
      BY <1>4, <2>2 DEF IsProxy
    <3>3. /\ Len(file.lines[i]) = 4 /\ file.lines[i][3] # Blank
          /\ line = <<line[1], line[2], file.lines[i][3], file.lines[i][4]>>
      BY <1>1, <2>2, <3>1, <3>2
    <3> QED
      BY <3>2, <3>3 DEF Documented
  <2> QED
    BY <1>4, <2>1, <2>2 DEF IsProxy
<1> QED
  BY <1>3, <1>4

\* However long the list is and however its lines are spelled, repeated or
\* broken, the client chooses among exactly the proxies of its documented lines,
\* each of them once (mojang.rs:318-363).
THEOREM ProxiesAreTheFileHolds == StartSpec => []ProxiesAreTheFile
<1>1. Configured => ProxiesAreTheFile
  <2> SUFFICES ASSUME Configured, stage = "serving", file.kind = "text",
                      Environment["PROXY_LIST_FILE"] # Unset
               PROVE  /\ Range(proxies) = {ProxyOf(line) :
                           line \in {l \in Range(file.lines) : Documented(l)}}
                      /\ \A i, j \in DOMAIN proxies : proxies[i] = proxies[j] => i = j
    BY DEF ProxiesAreTheFile
  <2>1. proxies = LoadProxyList(file.lines) /\ Found
    BY DEF Configured
  <2>2. file.lines \in Seq(Seq(STRING))
    BY <2>1, FileAssumption DEF Found
  <2>3. /\ Range(proxies) = {ProxyOf(line) : line \in {l \in Range(file.lines) : IsProxy(l)}}
        /\ IsInjective(proxies)
    BY <2>1, <2>2, LoadProxyListLoads
  <2>4. {l \in Range(file.lines) : IsProxy(l)} = {l \in Range(file.lines) : Documented(l)}
    BY <2>1, DocumentedIsProxy
  <2>5. \A i, j \in DOMAIN proxies : proxies[i] = proxies[j] => i = j
    BY <2>3 DEF IsInjective
  <2> QED
    BY <2>3, <2>4, <2>5
<1> QED
  BY <1>1, ConfiguredCorrect, PTL

-----------------------------------------------------------------------------
(* Whom the process admits.                                                *)

Entries == [request : Requests, start : Nat, allowed : BOOLEAN, remaining : Nat, reset : Nat]

ClientAt(i) == ClientOf[log[i].request]
StampAt(i) == stamp[log[i].request]

LEMMA ClientOfType == ClientOf \in [Requests -> Clients]
BY ClientAssumption DEF ClientOf

-----------------------------------------------------------------------------
(* The variables are well formed, and nobody lags.                         *)

Shape ==
  /\ TypeOK
  /\ log \in Seq(Entries)
  /\ \A c \in DOMAIN clients : clients[c].started_at <= clock
  /\ \A r \in Undecided : clock <= stamp[r] + MaxLag

LEMMA SinceType ==
  ASSUME NEW now \in Nat, NEW earlier \in Nat
  PROVE  Since(now, earlier) \in Nat
BY DEF Since

LEMMA RetryAfterType ==
  ASSUME NEW now \in Nat, NEW window, window.started_at \in Nat
  PROVE  RetryAfter(window, now) \in Nat \ {0}
<1> DEFINE left == Since(Window, Since(now, window.started_at))
<1>1. left \in Nat
  BY SinceType, LimiterAssumption
<1>2. left \div Second \in Nat
  BY <1>1, LimiterAssumption
<1> HIDE DEF left
<1>3. RetryAfter(window, now) = IF left \div Second > 1 THEN left \div Second ELSE 1
  BY DEF RetryAfter, ResetAfter, left
<1> QED
  BY <1>2, <1>3

\* What a request finds: the windows after the cleanup and the one it is in.
KnownTo(r) == Cleaned(ShardOf[ClientOf[r]], stamp[r])
WindowOf(r) == Current(ClientOf[r], KnownTo(r), stamp[r])

\* What a decision reads and writes.
LEMMA CheckStep ==
  ASSUME Shape, NEW r \in Requests, Check(r)
  PROVE  /\ stamp[r] \in 0..clock /\ clock \in 0..MaxTime /\ clock <= stamp[r] + MaxLag
         /\ ClientOf[r] \in Clients /\ ShardOf[ClientOf[r]] \in Shards
         /\ DOMAIN KnownTo(r) \subseteq DOMAIN clients
         /\ \A c \in DOMAIN KnownTo(r) : KnownTo(r)[c] = clients[c]
         /\ \A c \in DOMAIN clients :
              c \notin DOMAIN KnownTo(r) => clients[c].started_at + Window <= stamp[r]
         /\ WindowOf(r) \in [started_at : 0..clock, requests : 0..Limit]
         /\ stamp[r] < WindowOf(r).started_at + Window
         /\ \/ ClientOf[r] \in DOMAIN clients /\ WindowOf(r) = clients[ClientOf[r]]
            \/ /\ WindowOf(r).started_at = stamp[r] /\ WindowOf(r).requests = 0
               /\ ClientOf[r] \in DOMAIN clients => clients[ClientOf[r]].started_at + Window <= stamp[r]
         /\ DOMAIN clients' = DOMAIN KnownTo(r) \cup {ClientOf[r]}
         /\ \A c \in DOMAIN KnownTo(r) : c # ClientOf[r] => clients'[c] = clients[c]
         /\ clients'[ClientOf[r]] = Counted(WindowOf(r))
         /\ UNCHANGED <<clock, stamp>>
<1> DEFINE now == stamp[r]
           client == ClientOf[r]
           known == KnownTo(r)
           window == WindowOf(r)
<1>0. /\ known = Cleaned(ShardOf[client], now)
      /\ window = Current(client, known, now)
  BY DEF KnownTo, WindowOf
<1>1. /\ r \in Undecided /\ clock \in 0..MaxTime /\ clock <= stamp[r] + MaxLag
      /\ stamp[r] \in 0..clock /\ MaxTime \in Nat
  BY LimiterAssumption DEF Shape, TypeOK, Check, Undecided
<1>2. client \in Clients /\ ShardOf[client] \in Shards
  BY ClientOfType, ClientAssumption
<1>3. \A c \in DOMAIN clients :
        clients[c] \in [started_at : 0..clock, requests : 0..Limit] /\ c \in Clients
  BY LimiterAssumption DEF Shape, TypeOK, ClientWindows
<1>4. /\ DOMAIN known \subseteq DOMAIN clients
      /\ \A c \in DOMAIN known : known[c] = clients[c]
      /\ \A c \in DOMAIN clients :
           c \notin DOMAIN known => clients[c].started_at + Window <= now
  BY <1>0, <1>1, <1>3, LimiterAssumption DEF Cleaned, Restrict, Since
<1>5. /\ clients' = [c \in DOMAIN known \cup {client} |->
                       IF c = client THEN Counted(window) ELSE known[c]]
      /\ UNCHANGED <<clock, stamp>>
  BY <1>0 DEF Check
<1>6. /\ window \in [started_at : 0..clock, requests : 0..Limit]
      /\ now < window.started_at + Window
      /\ \/ client \in DOMAIN clients /\ window = clients[client]
         \/ /\ window.started_at = now /\ window.requests = 0
            /\ client \in DOMAIN clients => clients[client].started_at + Window <= now
  <2>1. CASE client \in DOMAIN known /\ Since(now, known[client].started_at) < Window
    <3>1. window = clients[client] /\ client \in DOMAIN clients
      BY <1>0, <1>4, <2>1 DEF Current
    <3>2. Since(now, window.started_at) < Window
      BY <2>1, <3>1, <1>4
    <3> QED
      BY <1>1, <1>3, <3>1, <3>2, LimiterAssumption DEF Since
  <2>2. CASE ~(client \in DOMAIN known /\ Since(now, known[client].started_at) < Window)
    <3>1. window = [started_at |-> now, requests |-> 0]
      BY <1>0, <2>2 DEF Current
    <3>2. client \in DOMAIN clients => clients[client].started_at + Window <= now
      BY <1>1, <1>3, <1>4, <2>2, LimiterAssumption DEF Since
    <3> QED
      BY <1>1, <3>1, <3>2, LimiterAssumption
  <2> QED
    BY <2>1, <2>2
<1> QED
  BY <1>1, <1>2, <1>4, <1>5, <1>6

\* A decision adds one entry to the log, about the window it was made in.
LEMMA LogStep ==
  ASSUME Shape, NEW r \in Requests, Check(r)
  PROVE  \E e \in Entries :
           /\ log' = Append(log, e)
           /\ e.request = r
           /\ e.start = WindowOf(r).started_at
           /\ e.allowed = (WindowOf(r).requests < Limit)
           /\ e.remaining \in 0..Limit
           /\ e.reset \in Nat \ {0}
           /\ e.reset = RetryAfter(WindowOf(r), stamp[r])
<1> DEFINE window == WindowOf(r)
           e == [request |-> r, start |-> window.started_at, allowed |-> Allows(window),
                 remaining |-> Since(Limit, Counted(window).requests),
                 reset |-> RetryAfter(window, stamp[r])]
<1>1. log' = Append(log, e)
  BY DEF Check, WindowOf, KnownTo
<1>2. /\ stamp[r] \in 0..clock /\ clock \in 0..MaxTime
      /\ window \in [started_at : 0..clock, requests : 0..Limit]
  BY CheckStep
<1> HIDE DEF window
<1>3. window.started_at \in Nat /\ stamp[r] \in Nat
  BY <1>2, LimiterAssumption
<1>4. RetryAfter(window, stamp[r]) \in Nat \ {0}
  BY <1>3, RetryAfterType
<1>5. Counted(window).requests \in 0..Limit
  BY <1>2, LimiterAssumption DEF Counted, Allows
<1>6. Since(Limit, Counted(window).requests) \in 0..Limit
  BY <1>5, LimiterAssumption DEF Since
<1>7. Allows(window) = (window.requests < Limit) /\ Allows(window) \in BOOLEAN
  BY DEF Allows
<1>8. e \in Entries
  BY <1>3, <1>4, <1>6, <1>7, LimiterAssumption DEF Entries
<1> QED
  BY <1>1, <1>4, <1>6, <1>7, <1>8 DEF window

\* The log after one more entry.
LEMMA Appended ==
  ASSUME log \in Seq(Entries), NEW e \in Entries, log' = Append(log, e)
  PROVE  /\ Len(log) \in Nat /\ Len(log) + 1 \notin DOMAIN log
         /\ \A i \in DOMAIN log : i < Len(log) + 1
         /\ log' \in Seq(Entries)
         /\ DOMAIN log' = DOMAIN log \cup {Len(log) + 1}
         /\ \A i \in DOMAIN log : log'[i] = log[i]
         /\ log'[Len(log) + 1] = e
OBVIOUS

LEMMA InitShape == Init => Shape
BY LimiterAssumption DEF Init, Shape, TypeOK, Stamped, Undecided

LEMMA CheckShape ==
  ASSUME Shape, NEW r \in Requests, Check(r)
  PROVE  Shape'
<1> DEFINE now == stamp[r]
           client == ClientOf[r]
           known == KnownTo(r)
           window == WindowOf(r)
<1>1. /\ now \in 0..clock /\ clock \in 0..MaxTime
      /\ client \in Clients
      /\ DOMAIN known \subseteq DOMAIN clients
      /\ window \in [started_at : 0..clock, requests : 0..Limit]
      /\ DOMAIN clients' = DOMAIN known \cup {client}
      /\ \A c \in DOMAIN known : c # client => clients'[c] = clients[c]
      /\ clients'[client] = Counted(window)
      /\ UNCHANGED <<clock, stamp>>
  BY CheckStep
<1>2. PICK e \in Entries :
        /\ log' = Append(log, e)
        /\ e.request = r
        /\ e.start = window.started_at
        /\ e.remaining \in 0..Limit
        /\ e.reset \in Nat \ {0}
  BY LogStep
<1>3. r \in Stamped /\ Stamped' = Stamped
  BY <1>1 DEF Check, Undecided, Stamped
<1> HIDE DEF now, client, known, window
<1>4. Counted(window) \in [started_at : 0..clock, requests : 0..Limit]
  BY <1>1, LimiterAssumption DEF Counted, Allows
<1>5. /\ log \in Seq(Entries) /\ log' \in Seq(Entries)
      /\ DOMAIN log' = DOMAIN log \cup {Len(log) + 1}
      /\ \A i \in DOMAIN log : log'[i] = log[i]
      /\ log'[Len(log) + 1] = e
  BY <1>2, Appended DEF Shape
<1>6. \A i \in DOMAIN log' :
        log'[i] \in [request : Stamped, start : 0..clock, allowed : BOOLEAN,
                    remaining : 0..Limit, reset : Nat \ {0}]
  <2>1. \A i \in DOMAIN log :
          log[i] \in [request : Stamped, start : 0..clock, allowed : BOOLEAN,
                     remaining : 0..Limit, reset : Nat \ {0}]
    BY DEF Shape, TypeOK
  <2>2. window.started_at \in 0..clock
    BY <1>1
  <2>3. e \in [request : Stamped, start : 0..clock, allowed : BOOLEAN,
               remaining : 0..Limit, reset : Nat \ {0}]
    BY <1>2, <1>3, <2>2 DEF Entries
  <2> QED
    BY <1>5, <2>1, <2>3
<1>7. last_cleanup' \in [Shards -> 0..clock]
  BY <1>1, ClientOfType, ClientAssumption DEF Check, Shape, TypeOK, now
<1>8. /\ DOMAIN clients' \subseteq Clients
      /\ \A c \in DOMAIN clients' :
           clients'[c] \in ClientWindows /\ clients'[c].started_at <= clock
  BY <1>1, <1>4, LimiterAssumption DEF Shape, TypeOK, ClientWindows
<1>9. TypeOK'
  BY <1>1, <1>3, <1>6, <1>7, <1>8 DEF Shape, TypeOK
<1>10. Undecided' \subseteq Undecided
  BY <1>3, <1>5 DEF Undecided, Decided
<1> QED
  BY <1>1, <1>5, <1>8, <1>9, <1>10 DEF Shape

LEMMA NextShape == Shape /\ [Next]_vars => Shape'
<1> SUFFICES ASSUME Shape, [Next]_vars
             PROVE  Shape'
  OBVIOUS
<1>1. CASE Tick
  BY <1>1, LimiterAssumption DEF Tick, Shape, TypeOK, Stamped, Undecided, Decided, ClientWindows
<1>2. ASSUME NEW r \in Requests, Arrive(r)
      PROVE  Shape'
  <2>1. /\ Stamped' = Stamped \cup {r} /\ r \notin Stamped
        /\ stamp'[r] = clock
        /\ \A q \in Stamped : stamp'[q] = stamp[q]
        /\ UNCHANGED <<clock, clients, last_cleanup, log>>
    BY <1>2 DEF Arrive, Stamped
  <2>2. \A i \in DOMAIN log :
          log[i] \in [request : Stamped', start : 0..clock, allowed : BOOLEAN,
                     remaining : 0..Limit, reset : Nat \ {0}]
    BY <2>1 DEF Shape, TypeOK
  <2>3. TypeOK'
    BY <2>1, <2>2 DEF Shape, TypeOK
  <2>4. \A q \in Undecided' : clock <= stamp'[q] + MaxLag
    BY <2>1, LimiterAssumption DEF Shape, TypeOK, Undecided, Decided
  <2> QED
    BY <2>1, <2>3, <2>4 DEF Shape
<1>3. CASE UNCHANGED vars
  BY <1>3 DEF vars, Shape, TypeOK, Stamped, Undecided, Decided
<1> QED
  BY <1>1, <1>2, <1>3, CheckShape DEF Next

\* The windows, the clocks and the answers of the limiter stay within their
\* bounds.
THEOREM TypeCorrect == Spec => []TypeOK
<1>1. Shape => TypeOK
  BY DEF Shape
<1> QED
  BY <1>1, InitShape, NextShape, PTL DEF Spec

-----------------------------------------------------------------------------
(* The log and the windows around a decision.                              *)

LEMMA DecisionStep ==
  ASSUME Shape, NEW r \in Requests, Check(r)
  PROVE  \E n \in Nat \ DOMAIN log :
           /\ \A i \in DOMAIN log : i \in Nat /\ i < n
           /\ DOMAIN log' = DOMAIN log \cup {n}
           /\ \A i \in DOMAIN log :
                log'[i] = log[i] /\ StampAt(i)' = StampAt(i) /\ ClientAt(i)' = ClientAt(i)
           /\ StampAt(n)' = stamp[r]
           /\ ClientAt(n)' = ClientOf[r]
           /\ log'[n].start = WindowOf(r).started_at
           /\ log'[n].allowed = (WindowOf(r).requests < Limit)
           /\ log'[n].reset = RetryAfter(WindowOf(r), stamp[r])
<1>1. PICK e \in Entries :
        /\ log' = Append(log, e)
        /\ e.request = r
        /\ e.start = WindowOf(r).started_at
        /\ e.allowed = (WindowOf(r).requests < Limit)
        /\ e.reset = RetryAfter(WindowOf(r), stamp[r])
  BY LogStep
<1>2. log \in Seq(Entries)
  BY DEF Shape
<1>3. PICK n \in Nat : n = Len(log) + 1
  BY <1>2
<1>4. /\ n \notin DOMAIN log
      /\ \A i \in DOMAIN log : i \in Nat /\ i < n
      /\ DOMAIN log' = DOMAIN log \cup {n}
      /\ \A i \in DOMAIN log : log'[i] = log[i]
      /\ log'[n] = e
  BY <1>1, <1>2, <1>3, Appended
<1>5. stamp' = stamp
  BY CheckStep
<1>6. \A i \in DOMAIN log : StampAt(i)' = StampAt(i) /\ ClientAt(i)' = ClientAt(i)
  BY <1>4, <1>5 DEF StampAt, ClientAt
<1>7. StampAt(n)' = stamp[r] /\ ClientAt(n)' = ClientOf[r]
  BY <1>1, <1>4, <1>5 DEF StampAt, ClientAt
<1>8. /\ log'[n].start = WindowOf(r).started_at /\ log'[n].allowed = (WindowOf(r).requests < Limit)
      /\ log'[n].reset = RetryAfter(WindowOf(r), stamp[r])
  BY <1>1, <1>4
<1> QED
  BY <1>4, <1>6, <1>7, <1>8

LEMMA EntryType ==
  ASSUME Shape, NEW i \in DOMAIN log
  PROVE  /\ log[i].request \in Requests
         /\ log[i].start \in 0..clock
         /\ log[i].allowed \in BOOLEAN
         /\ StampAt(i) \in 0..clock
         /\ ClientAt(i) \in Clients
         /\ clock \in Nat /\ clock <= MaxTime
<1>1. log[i].request \in Stamped /\ log[i].start \in 0..clock /\ log[i].allowed \in BOOLEAN
  BY DEF Shape, TypeOK
<1>2. log[i].request \in Requests /\ stamp[log[i].request] \in 0..clock
  BY <1>1 DEF Shape, TypeOK
<1>3. clock \in Nat /\ clock <= MaxTime
  BY LimiterAssumption DEF Shape, TypeOK
<1> QED
  BY <1>1, <1>2, <1>3, ClientOfType DEF StampAt, ClientAt

\* Only decisions touch the log, the windows and the cleanups.
LEMMA QuietStep ==
  ASSUME Shape, [Next]_vars, \A r \in Requests : ~Check(r)
  PROVE  /\ UNCHANGED <<clients, last_cleanup, log>>
         /\ clock' \in Nat /\ clock <= clock'
         /\ \A i \in DOMAIN log : log[i].request \in Stamped /\ StampAt(i)' = StampAt(i)
<1>1. \A i \in DOMAIN log : log[i].request \in Stamped
  BY DEF Shape, TypeOK
<1>2. clock \in Nat
  BY LimiterAssumption DEF Shape, TypeOK
<1>3. CASE Tick
  BY <1>1, <1>2, <1>3 DEF Tick, StampAt
<1>4. ASSUME NEW r \in Requests, Arrive(r)
      PROVE  /\ UNCHANGED <<clock, clients, last_cleanup, log>>
             /\ \A i \in DOMAIN log : StampAt(i)' = StampAt(i)
  BY <1>1, <1>4 DEF Arrive, StampAt, Stamped
<1>5. CASE UNCHANGED vars
  BY <1>1, <1>2, <1>5 DEF vars, StampAt
<1> QED
  BY <1>1, <1>2, <1>3, <1>4, <1>5 DEF Next

-----------------------------------------------------------------------------
(* No shard is long without a cleanup, and no window outlives two.         *)

Fresh ==
  /\ \A i \in DOMAIN log : StampAt(i) < last_cleanup[ShardOf[ClientAt(i)]] + Window
  /\ \A c \in DOMAIN clients : last_cleanup[ShardOf[c]] < clients[c].started_at + Window

LEMMA InitFresh == Init => Fresh
BY DEF Init, Fresh

LEMMA CheckFresh ==
  ASSUME Shape, Fresh, NEW r \in Requests, Check(r)
  PROVE  Fresh'
<1> DEFINE now == stamp[r]
           shard == ShardOf[ClientOf[r]]
           known == KnownTo(r)
           window == WindowOf(r)
<1>0. now \in 0..clock /\ clock \in 0..MaxTime /\ clock <= now + MaxLag /\ shard \in Shards
  BY CheckStep
<1>1. /\ now \in Nat /\ clock \in Nat /\ now <= clock /\ clock <= now + MaxLag
      /\ shard \in Shards
      /\ last_cleanup \in [Shards -> 0..clock]
      /\ Window \in Nat /\ MaxLag \in Nat /\ MaxLag < Window
  BY <1>0, LimiterAssumption DEF Shape, TypeOK
<1>2. last_cleanup' = [last_cleanup EXCEPT ![shard] =
                         IF Since(now, @) >= Window THEN now ELSE @]
  BY DEF Check
<1>3. /\ \A s \in Shards : last_cleanup'[s] >= last_cleanup[s] /\ last_cleanup[s] \in Nat
      /\ \A s \in Shards \ {shard} : last_cleanup'[s] = last_cleanup[s]
      /\ last_cleanup'[shard] \in Nat
      /\ now < last_cleanup'[shard] + Window
      /\ last_cleanup'[shard] <= clock
      /\ \/ last_cleanup'[shard] = last_cleanup[shard]
         \/ last_cleanup'[shard] = now /\ now - last_cleanup[shard] >= Window
  BY <1>1, <1>2, LimiterAssumption DEF Since
<1>4. \A i \in DOMAIN log' : StampAt(i)' < last_cleanup'[ShardOf[ClientAt(i)']] + Window
  <2>1. PICK n \in Nat \ DOMAIN log :
          /\ DOMAIN log' = DOMAIN log \cup {n}
          /\ \A i \in DOMAIN log : StampAt(i)' = StampAt(i) /\ ClientAt(i)' = ClientAt(i)
          /\ StampAt(n)' = now
          /\ ClientAt(n)' = ClientOf[r]
    BY DecisionStep
  <2>2. ASSUME NEW i \in DOMAIN log
        PROVE  StampAt(i)' < last_cleanup'[ShardOf[ClientAt(i)']] + Window
    <3>1. StampAt(i)' = StampAt(i) /\ ClientAt(i)' = ClientAt(i)
      BY <2>1
    <3>2. StampAt(i) \in Nat /\ ShardOf[ClientAt(i)] \in Shards
      BY EntryType, ClientAssumption
    <3>3. StampAt(i) < last_cleanup[ShardOf[ClientAt(i)]] + Window
      BY DEF Fresh
    <3>4. /\ last_cleanup'[ShardOf[ClientAt(i)]] >= last_cleanup[ShardOf[ClientAt(i)]]
          /\ last_cleanup'[ShardOf[ClientAt(i)]] \in Nat
          /\ last_cleanup[ShardOf[ClientAt(i)]] \in Nat
      BY <1>3, <3>2
    <3> QED
      BY <1>1, <3>1, <3>2, <3>3, <3>4
  <2> QED
    BY <1>3, <2>1, <2>2
<1>5. ASSUME NEW c \in DOMAIN clients'
      PROVE  last_cleanup'[ShardOf[c]] < clients'[c].started_at + Window
  <2>1. /\ DOMAIN clients' = DOMAIN known \cup {ClientOf[r]}
        /\ DOMAIN known \subseteq DOMAIN clients
        /\ \A d \in DOMAIN known : d # ClientOf[r] => clients'[d] = clients[d]
        /\ clients'[ClientOf[r]] = Counted(window)
        /\ window \in [started_at : 0..clock, requests : 0..Limit]
        /\ now < window.started_at + Window
        /\ window.started_at = now \/ (ClientOf[r] \in DOMAIN clients /\ window = clients[ClientOf[r]])
    BY CheckStep
  <2>2. CASE c = ClientOf[r]
    <3>1. clients'[c].started_at = window.started_at /\ window.started_at \in Nat
      <4> HIDE DEF window
      <4> QED
        BY <1>1, <2>1, <2>2 DEF Counted
    <3>2. ClientOf[r] \in DOMAIN clients =>
            last_cleanup[shard] < clients[ClientOf[r]].started_at + Window
      BY DEF Fresh
    <3>3. last_cleanup'[shard] < window.started_at + Window
      <4> HIDE DEF window, now, shard
      <4> QED
        BY <1>1, <1>3, <2>1, <3>1, <3>2
    <3> QED
      BY <2>2, <3>1, <3>3
  <2>3. CASE c # ClientOf[r]
    <3>1. c \in DOMAIN known /\ c \in DOMAIN clients /\ clients'[c] = clients[c]
      BY <2>1, <2>3
    <3>2. /\ clients[c].started_at \in Nat /\ c \in Clients /\ ShardOf[c] \in Shards
          /\ last_cleanup[ShardOf[c]] < clients[c].started_at + Window
      BY <3>1, LimiterAssumption, ClientAssumption DEF Shape, TypeOK, ClientWindows, Fresh
    <3>3. CASE last_cleanup'[ShardOf[c]] = last_cleanup[ShardOf[c]]
      BY <3>1, <3>2, <3>3
    <3>4. CASE ShardOf[c] = shard /\ last_cleanup'[shard] = now /\ now - last_cleanup[shard] >= Window
      <4>1. Since(now, clients[c].started_at) < Window
        <5>1. Since(now, last_cleanup[shard]) >= Window
          BY <1>1, <1>3, <3>4 DEF Since
        <5> QED
          BY <3>1, <3>4, <5>1 DEF KnownTo, Cleaned, Restrict
      <4> QED
        BY <1>1, <3>1, <3>2, <3>4, <4>1 DEF Since
    <3> QED
      BY <1>3, <3>2, <3>3, <3>4
  <2> QED
    BY <2>2, <2>3
<1> QED
  BY <1>4, <1>5 DEF Fresh

LEMMA NextFresh == Shape /\ Fresh /\ [Next]_vars => Fresh'
<1> SUFFICES ASSUME Shape, Fresh, [Next]_vars
             PROVE  Fresh'
  OBVIOUS
<1>1. CASE \A r \in Requests : ~Check(r)
  BY <1>1, QuietStep DEF Fresh, ClientAt
<1> QED
  BY <1>1, CheckFresh

\* A client that never returns is forgotten before its shard decides a request
\* that came two windows after its window began.
THEOREM ForgottenInTimeHolds == Spec => []ForgottenInTime
<1>1. Shape /\ Fresh => ForgottenInTime
  <2> SUFFICES ASSUME Shape, Fresh,
                      NEW c \in DOMAIN clients, NEW i \in DOMAIN log,
                      ShardOf[ClientOf[log[i].request]] = ShardOf[c]
               PROVE  stamp[log[i].request] < clients[c].started_at + 2 * Window
    BY DEF ForgottenInTime
  <2>1. /\ StampAt(i) \in Nat /\ ShardOf[c] \in Shards
        /\ last_cleanup[ShardOf[c]] \in Nat /\ clients[c].started_at \in Nat /\ Window \in Nat
    <3>1. StampAt(i) \in 0..clock /\ clock \in Nat
      BY EntryType
    <3>2. c \in Clients /\ clients[c] \in ClientWindows /\ last_cleanup \in [Shards -> 0..clock]
      BY DEF Shape, TypeOK
    <3>3. ShardOf[c] \in Shards
      BY <3>2, ClientAssumption
    <3> QED
      BY <3>1, <3>2, <3>3, LimiterAssumption DEF ClientWindows
  <2>2. /\ StampAt(i) < last_cleanup[ShardOf[c]] + Window
        /\ last_cleanup[ShardOf[c]] < clients[c].started_at + Window
    BY DEF Fresh, ClientAt
  <2> QED
    BY <2>1, <2>2 DEF StampAt
<1> QED
  BY <1>1, InitShape, NextShape, InitFresh, NextFresh, PTL DEF Spec

-----------------------------------------------------------------------------
(* The windows of a client: the current one, those that are over, and how   *)
(* far the clocks read by their requests are from them.                     *)

Windows ==
  /\ \A i \in DOMAIN log :
       \/ /\ ClientAt(i) \in DOMAIN clients
          /\ log[i].start = clients[ClientAt(i)].started_at
       \/ log[i].start + Window <= clock
  /\ \A c \in DOMAIN clients : \E k \in DOMAIN log :
       ClientAt(k) = c /\ log[k].start = clients[c].started_at
  /\ FixedWindow
  /\ \A i, j \in DOMAIN log :
       ClientAt(i) = ClientAt(j) /\ log[i].start < log[j].start
         => log[i].start + Window <= StampAt(j) + MaxLag
  /\ \A i \in DOMAIN log :
       StampAt(i) < log[i].start + Window /\ log[i].start <= StampAt(i) + MaxLag

LEMMA InitWindows == Init => Windows
BY DEF Init, Windows, FixedWindow

\* The window of a decision, among those before it.
LEMMA WindowFound ==
  ASSUME Shape, Windows, NEW r \in Requests, Check(r)
  PROVE  /\ \/ \E k \in DOMAIN log :
                ClientAt(k) = ClientOf[r] /\ log[k].start = WindowOf(r).started_at
            \/ /\ WindowOf(r).started_at = stamp[r] /\ WindowOf(r).requests = 0
               /\ \A i \in DOMAIN log :
                    ClientAt(i) = ClientOf[r] => log[i].start < stamp[r]
         /\ \A i \in DOMAIN log :
              ClientAt(i) = ClientOf[r] /\ log[i].start # WindowOf(r).started_at
                => log[i].start + Window <= stamp[r] + MaxLag
<1> DEFINE now == stamp[r]
           client == ClientOf[r]
           window == WindowOf(r)
<1>1. /\ now \in 0..clock /\ clock \in 0..MaxTime /\ clock <= now + MaxLag
      /\ window \in [started_at : 0..clock, requests : 0..Limit]
      /\ \/ client \in DOMAIN clients /\ window = clients[client]
         \/ /\ window.started_at = now /\ window.requests = 0
            /\ client \in DOMAIN clients => clients[client].started_at + Window <= now
  BY CheckStep
<1>2. /\ now \in Nat /\ clock \in Nat /\ window.started_at \in Nat
      /\ Window \in Nat /\ MaxLag \in Nat /\ MaxLag < Window
  BY <1>1, LimiterAssumption
<1>3. ASSUME NEW i \in DOMAIN log, ClientAt(i) = client
      PROVE  /\ log[i].start \in Nat
             /\ \/ client \in DOMAIN clients /\ log[i].start = clients[client].started_at
                \/ log[i].start + Window <= clock
  BY <1>2, <1>3, EntryType DEF Windows
<1>4. CASE client \in DOMAIN clients /\ window = clients[client]
  <2>1. \E k \in DOMAIN log : ClientAt(k) = client /\ log[k].start = window.started_at
    BY <1>4 DEF Windows
  <2>2. ASSUME NEW i \in DOMAIN log, ClientAt(i) = client, log[i].start # window.started_at
        PROVE  log[i].start + Window <= now + MaxLag
    <3>1. log[i].start \in Nat /\ log[i].start + Window <= clock
      BY <1>3, <1>4, <2>2
    <3> QED
      BY <1>1, <1>2, <3>1
  <2> QED
    BY <2>1, <2>2
<1>5. CASE /\ window.started_at = now /\ window.requests = 0
           /\ client \in DOMAIN clients => clients[client].started_at + Window <= now
  <2>1. ASSUME NEW i \in DOMAIN log, ClientAt(i) = client
        PROVE  log[i].start < now /\ log[i].start + Window <= now + MaxLag
    <3>1. log[i].start \in Nat /\ (log[i].start + Window <= now \/ log[i].start + Window <= clock)
      BY <1>3, <1>5, <2>1
    <3> QED
      BY <1>1, <1>2, <3>1
  <2> QED
    BY <1>5, <2>1
<1> QED
  BY <1>1, <1>4, <1>5

LEMMA CheckWindows ==
  ASSUME Shape, Windows, NEW r \in Requests, Check(r)
  PROVE  Windows'
<1> DEFINE now == stamp[r]
           client == ClientOf[r]
           known == KnownTo(r)
           window == WindowOf(r)
<1>1. PICK n \in Nat \ DOMAIN log :
        /\ DOMAIN log' = DOMAIN log \cup {n}
        /\ \A i \in DOMAIN log :
             log'[i] = log[i] /\ StampAt(i)' = StampAt(i) /\ ClientAt(i)' = ClientAt(i)
        /\ StampAt(n)' = now
        /\ ClientAt(n)' = client
        /\ log'[n].start = window.started_at
  BY DecisionStep
<1>2. /\ now \in 0..clock /\ clock \in 0..MaxTime /\ clock <= now + MaxLag
      /\ DOMAIN known \subseteq DOMAIN clients
      /\ \A c \in DOMAIN clients :
           c \notin DOMAIN known => clients[c].started_at + Window <= now
      /\ window \in [started_at : 0..clock, requests : 0..Limit]
      /\ now < window.started_at + Window
      /\ DOMAIN clients' = DOMAIN known \cup {client}
      /\ \A c \in DOMAIN known : c # client => clients'[c] = clients[c]
      /\ clients'[client] = Counted(window)
      /\ clock' = clock
  BY CheckStep
<1>3. /\ \/ \E k \in DOMAIN log : ClientAt(k) = client /\ log[k].start = window.started_at
         \/ /\ window.started_at = now
            /\ \A i \in DOMAIN log : ClientAt(i) = client => log[i].start < now
      /\ \A i \in DOMAIN log :
           ClientAt(i) = client /\ log[i].start # window.started_at
             => log[i].start + Window <= now + MaxLag
  BY WindowFound
<1>4. /\ now \in Nat /\ clock \in Nat /\ now <= clock /\ window.started_at \in Nat
      /\ window.started_at <= clock
      /\ Window \in Nat /\ MaxLag \in Nat /\ MaxLag < Window
  BY <1>2, LimiterAssumption
<1>5. \A i \in DOMAIN log : log[i].start \in Nat /\ StampAt(i) \in Nat
  BY EntryType, <1>4
<1>6. clients'[client].started_at = window.started_at
  <2> HIDE DEF window
  <2> QED
    BY <1>2 DEF Counted
<1> HIDE DEF now, client, known, window
<1>7. \A i \in DOMAIN log' :
        \/ /\ ClientAt(i)' \in DOMAIN clients'
           /\ log'[i].start = clients'[ClientAt(i)'].started_at
        \/ log'[i].start + Window <= clock
  <2>1. ASSUME NEW i \in DOMAIN log
        PROVE  \/ /\ ClientAt(i) \in DOMAIN clients'
                  /\ log[i].start = clients'[ClientAt(i)].started_at
               \/ log[i].start + Window <= clock
    <3>1. \/ /\ ClientAt(i) \in DOMAIN clients
             /\ log[i].start = clients[ClientAt(i)].started_at
          \/ log[i].start + Window <= clock
      BY DEF Windows
    <3>2. CASE ClientAt(i) = client
      <4>1. CASE log[i].start = window.started_at
        BY <1>2, <1>6, <3>2, <4>1
      <4>2. CASE log[i].start # window.started_at
        <5>1. \/ client \in DOMAIN clients /\ window = clients[client]
              \/ client \in DOMAIN clients => clients[client].started_at + Window <= now
          BY CheckStep DEF client, window, now
        <5> QED
          BY <1>4, <1>5, <3>1, <3>2, <4>2, <5>1
      <4> QED
        BY <4>1, <4>2
    <3>3. CASE ClientAt(i) # client
      <4>1. CASE ClientAt(i) \in DOMAIN known
        BY <1>2, <3>1, <3>3, <4>1
      <4>2. CASE ClientAt(i) \in DOMAIN clients \ DOMAIN known
        BY <1>2, <1>4, <1>5, <3>1, <4>2
      <4> QED
        BY <3>1, <4>1, <4>2
    <3> QED
      BY <3>2, <3>3
  <2> QED
    BY <1>1, <1>2, <1>6, <2>1
<1>8. \A c \in DOMAIN clients' : \E k \in DOMAIN log' :
        ClientAt(k)' = c /\ log'[k].start = clients'[c].started_at
  <2>1. \A c \in DOMAIN clients : \E k \in DOMAIN log :
          ClientAt(k) = c /\ log[k].start = clients[c].started_at
    BY DEF Windows
  <2> QED
    BY <1>1, <1>2, <1>6, <2>1
<1>9. ASSUME NEW i \in DOMAIN log', NEW j \in DOMAIN log',
             ClientAt(i)' = ClientAt(j)', log'[i].start < log'[j].start
      PROVE  /\ log'[i].start + Window <= log'[j].start + MaxLag
             /\ log'[i].start + Window <= StampAt(j)' + MaxLag
  <2>1. \A k, l \in DOMAIN log :
          ClientAt(k) = ClientAt(l) /\ log[k].start < log[l].start
            => /\ log[k].start + Window <= log[l].start + MaxLag
               /\ log[k].start + Window <= StampAt(l) + MaxLag
    BY DEF Windows, FixedWindow, ClientAt
  <2>2. CASE i \in DOMAIN log /\ j \in DOMAIN log
    BY <1>1, <1>9, <2>1, <2>2
  <2>3. CASE i \in DOMAIN log /\ j = n
    <3>1. /\ ClientAt(i) = client /\ log[i].start < window.started_at
          /\ log'[i].start = log[i].start /\ log'[j].start = window.started_at
          /\ StampAt(j)' = now
      BY <1>1, <1>9, <2>3
    <3>2. log[i].start + Window <= now + MaxLag
      BY <1>3, <1>4, <1>5, <2>3, <3>1
    <3>3. log[i].start + Window <= window.started_at + MaxLag
      BY <1>3, <2>1, <2>3, <3>1, <3>2
    <3> QED
      BY <3>1, <3>2, <3>3
  <2>4. CASE i = n /\ j \in DOMAIN log
    <3>1. /\ ClientAt(j) = client /\ window.started_at < log[j].start
          /\ log'[i].start = window.started_at /\ log'[j].start = log[j].start
          /\ StampAt(j)' = StampAt(j)
      BY <1>1, <1>9, <2>4
    <3>2. PICK k \in DOMAIN log : ClientAt(k) = client /\ log[k].start = window.started_at
      BY <1>3, <1>4, <1>5, <2>4, <3>1
    <3> QED
      BY <2>1, <2>4, <3>1, <3>2
  <2>5. CASE i = n /\ j = n
    BY <1>1, <1>4, <1>9, <2>5
  <2> QED
    BY <1>1, <2>2, <2>3, <2>4, <2>5
<1>10. \A i \in DOMAIN log' :
         StampAt(i)' < log'[i].start + Window /\ log'[i].start <= StampAt(i)' + MaxLag
  <2>1. window.started_at <= now + MaxLag
    BY <1>2, <1>4
  <2>2. \A i \in DOMAIN log :
          StampAt(i) < log[i].start + Window /\ log[i].start <= StampAt(i) + MaxLag
    BY DEF Windows
  <2> QED
    BY <1>1, <1>2, <2>1, <2>2
<1>11. FixedWindow'
  BY <1>9 DEF FixedWindow, ClientAt
<1> QED
  BY <1>2, <1>7, <1>8, <1>9, <1>10, <1>11 DEF Windows

LEMMA NextWindows == Shape /\ Windows /\ [Next]_vars => Windows'
<1> SUFFICES ASSUME Shape, Windows, [Next]_vars
             PROVE  Windows'
  OBVIOUS
<1>1. CASE \A r \in Requests : ~Check(r)
  <2>1. /\ UNCHANGED <<clients, log>>
        /\ clock' \in Nat /\ clock <= clock'
        /\ \A i \in DOMAIN log : StampAt(i)' = StampAt(i) /\ ClientAt(i)' = ClientAt(i)
    BY <1>1, QuietStep DEF ClientAt
  <2>2. \A i \in DOMAIN log : log[i].start \in Nat /\ clock \in Nat
    BY EntryType
  <2>3. \A i \in DOMAIN log :
          log[i].start + Window <= clock => log[i].start + Window <= clock'
    BY <2>1, <2>2, LimiterAssumption
  <2>4. FixedWindow'
    BY <2>1 DEF Windows, FixedWindow
  <2> QED
    BY <2>1, <2>3, <2>4 DEF Windows
<1> QED
  BY <1>1, CheckWindows

\* The windows of a client do not overlap, but for the lag of a handler.
THEOREM FixedWindowHolds == Spec => []FixedWindow
<1>1. Windows => FixedWindow
  BY DEF Windows
<1> QED
  BY <1>1, InitShape, NextShape, InitWindows, NextWindows, PTL DEF Spec

-----------------------------------------------------------------------------
(* The requests that were let through, window by window.                   *)

Group(c, start) ==
  {i \in DOMAIN log : log[i].allowed /\ ClientAt(i) = c /\ log[i].start = start}

Groups ==
  /\ \A c \in Clients, start \in 0..MaxTime : Cardinality(Group(c, start)) <= Limit
  /\ \A c \in DOMAIN clients :
       Cardinality(Group(c, clients[c].started_at)) = clients[c].requests
  /\ \A i \in DOMAIN log : ~log[i].allowed =>
       Cardinality({j \in Group(ClientAt(i), log[i].start) : j < i}) >= Limit

LEMMA LogFinite ==
  ASSUME Shape
  PROVE  IsFiniteSet(DOMAIN log)
<1>1. Len(log) \in Nat /\ DOMAIN log = 1..Len(log)
  BY DEF Shape
<1> QED
  BY <1>1, FS_Interval

LEMMA GroupFinite ==
  ASSUME Shape, NEW c, NEW start
  PROVE  IsFiniteSet(Group(c, start)) /\ Cardinality(Group(c, start)) \in Nat
<1>1. Group(c, start) \subseteq DOMAIN log
  BY DEF Group
<1> QED
  BY <1>1, LogFinite, FS_Subset, FS_CardinalityType

LEMMA InitGroups == Init => Groups
<1> SUFFICES ASSUME Init
             PROVE  Groups
  OBVIOUS
<1>1. DOMAIN log = {} /\ DOMAIN clients = {}
  BY DEF Init
<1>2. \A c, start : Group(c, start) = {}
  BY <1>1 DEF Group
<1>3. Cardinality({}) = 0
  BY FS_EmptySet
<1> QED
  BY <1>1, <1>2, <1>3, LimiterAssumption DEF Groups

\* The window that a request finds says how many of its group were let through.
LEMMA WindowCounts ==
  ASSUME Shape, Windows, Groups, NEW r \in Requests, Check(r)
  PROVE  Cardinality(Group(ClientOf[r], WindowOf(r).started_at)) = WindowOf(r).requests
<1>1. CASE ClientOf[r] \in DOMAIN clients /\ WindowOf(r) = clients[ClientOf[r]]
  BY <1>1 DEF Groups
<1>2. ASSUME WindowOf(r).started_at = stamp[r], WindowOf(r).requests = 0,
             ClientOf[r] \in DOMAIN clients
               => clients[ClientOf[r]].started_at + Window <= stamp[r]
      PROVE  Cardinality(Group(ClientOf[r], WindowOf(r).started_at)) = WindowOf(r).requests
  <2>1. stamp[r] \in 0..clock /\ clock \in 0..MaxTime /\ clock <= stamp[r] + MaxLag
    BY CheckStep
  <2>2. ASSUME NEW i \in DOMAIN log, ClientAt(i) = ClientOf[r], log[i].start = stamp[r]
        PROVE  FALSE
    <3>1. \/ ClientOf[r] \in DOMAIN clients /\ stamp[r] = clients[ClientOf[r]].started_at
          \/ stamp[r] + Window <= clock
      BY <2>2 DEF Windows
    <3> QED
      BY <1>2, <2>1, <3>1, LimiterAssumption
  <2>3. Group(ClientOf[r], stamp[r]) = {}
    BY <2>2 DEF Group
  <2> QED
    BY <1>2, <2>3, FS_EmptySet
<1> QED
  BY <1>1, <1>2, CheckStep

\* The group after a step.
GroupAfter(c, start) ==
  {i \in DOMAIN log' : log'[i].allowed /\ ClientAt(i)' = c /\ log'[i].start = start}

LEMMA CheckGroups ==
  ASSUME Shape, Windows, Groups, NEW r \in Requests, Check(r)
  PROVE  Groups'
<1> DEFINE client == ClientOf[r]
           known == KnownTo(r)
           window == WindowOf(r)
           now == stamp[r]
<1>1. PICK n \in Nat \ DOMAIN log :
        /\ \A i \in DOMAIN log : i \in Nat /\ i < n
        /\ DOMAIN log' = DOMAIN log \cup {n}
        /\ \A i \in DOMAIN log :
             log'[i] = log[i] /\ StampAt(i)' = StampAt(i) /\ ClientAt(i)' = ClientAt(i)
        /\ ClientAt(n)' = client
        /\ log'[n].start = window.started_at
        /\ log'[n].allowed = (window.requests < Limit)
  BY DecisionStep
<1>2. /\ clock \in 0..MaxTime
      /\ DOMAIN known \subseteq DOMAIN clients
      /\ window \in [started_at : 0..clock, requests : 0..Limit]
      /\ DOMAIN clients' = DOMAIN known \cup {client}
      /\ \A c \in DOMAIN known : c # client => clients'[c] = clients[c]
      /\ clients'[client] = Counted(window)
      /\ client \in Clients
  BY CheckStep
<1>3. /\ Cardinality(Group(client, window.started_at)) = window.requests
      /\ window.started_at \in Nat /\ window.requests \in Nat /\ window.requests <= Limit
      /\ Limit \in Nat
  BY <1>2, WindowCounts, LimiterAssumption
<1> HIDE DEF client, known, window, now
<1>4. \A c, start : GroupAfter(c, start) =
        IF c = client /\ start = window.started_at /\ window.requests < Limit
        THEN Group(c, start) \cup {n} ELSE Group(c, start)
  BY <1>1 DEF Group, GroupAfter
<1>5. \A c, start : n \notin Group(c, start)
  BY DEF Group
<1>6. window.requests < Limit =>
        Cardinality(GroupAfter(client, window.started_at)) = window.requests + 1
  <2>1. IsFiniteSet(Group(client, window.started_at))
    BY GroupFinite
  <2> QED
    BY <1>3, <1>4, <1>5, <2>1, FS_AddElement
<1>7. ASSUME NEW c \in Clients, NEW start \in 0..MaxTime
      PROVE  Cardinality(GroupAfter(c, start)) <= Limit
  <2>1. CASE c = client /\ start = window.started_at /\ window.requests < Limit
    BY <1>3, <1>6, <2>1
  <2>2. CASE ~(c = client /\ start = window.started_at /\ window.requests < Limit)
    <3>1. GroupAfter(c, start) = Group(c, start)
      BY <1>4, <2>2
    <3> QED
      BY <3>1 DEF Groups
  <2> QED
    BY <2>1, <2>2
<1>8. ASSUME NEW c \in DOMAIN clients'
      PROVE  Cardinality(GroupAfter(c, clients'[c].started_at)) = clients'[c].requests
  <2>1. CASE c = client /\ window.requests < Limit
    <3>1. clients'[c].started_at = window.started_at /\ clients'[c].requests = window.requests + 1
      BY <1>2, <2>1 DEF Counted, Allows
    <3> QED
      BY <1>6, <2>1, <3>1
  <2>2. CASE c = client /\ ~(window.requests < Limit)
    <3>1. clients'[c] = window
      BY <1>2, <2>2 DEF Counted, Allows
    <3>2. GroupAfter(c, window.started_at) = Group(c, window.started_at)
      BY <1>4, <2>2
    <3> QED
      BY <1>3, <2>2, <3>1, <3>2
  <2>3. CASE c # client
    <3>1. c \in DOMAIN clients /\ clients'[c] = clients[c]
      BY <1>2, <2>3
    <3>2. GroupAfter(c, clients[c].started_at) = Group(c, clients[c].started_at)
      BY <1>4, <2>3
    <3> QED
      BY <3>1, <3>2 DEF Groups
  <2> QED
    BY <2>1, <2>2, <2>3
<1>9. ASSUME NEW i \in DOMAIN log', ~log'[i].allowed
      PROVE  Cardinality({j \in GroupAfter(ClientAt(i)', log'[i].start) : j < i}) >= Limit
  <2>1. CASE i \in DOMAIN log
    <3>1. /\ ClientAt(i)' = ClientAt(i) /\ log'[i].start = log[i].start
          /\ ~log[i].allowed /\ i \in Nat /\ i < n
      BY <1>1, <1>9, <2>1
    <3>2. {j \in GroupAfter(ClientAt(i)', log'[i].start) : j < i}
            = {j \in Group(ClientAt(i), log[i].start) : j < i}
      BY <1>1, <3>1 DEF Group, GroupAfter
    <3> QED
      BY <2>1, <3>1, <3>2 DEF Groups
  <2>2. CASE i = n
    <3>1. ~(window.requests < Limit)
      BY <1>1, <1>9, <2>2
    <3>2. GroupAfter(client, window.started_at) = Group(client, window.started_at)
      BY <1>4, <3>1
    <3>3. {j \in Group(client, window.started_at) : j < n} = Group(client, window.started_at)
      BY <1>1 DEF Group
    <3>4. {j \in GroupAfter(ClientAt(i)', log'[i].start) : j < i} = Group(client, window.started_at)
      BY <1>1, <2>2, <3>2, <3>3
    <3> QED
      BY <1>3, <3>1, <3>4
  <2> QED
    BY <1>1, <2>1, <2>2
<1> QED
  BY <1>2, <1>7, <1>8, <1>9 DEF Groups, Group, GroupAfter

LEMMA NextGroups == Shape /\ Windows /\ Groups /\ [Next]_vars => Groups'
<1> SUFFICES ASSUME Shape, Windows, Groups, [Next]_vars
             PROVE  Groups'
  OBVIOUS
<1>1. CASE \A r \in Requests : ~Check(r)
  <2>1. UNCHANGED <<clients, log>>
    BY <1>1, QuietStep
  <2> QED
    BY <2>1 DEF Groups, Group, ClientAt
<1> QED
  BY <1>1, CheckGroups

-----------------------------------------------------------------------------
(* What the groups imply.                                                  *)

\* Three windows of a client cannot all be touched in the span.
LEMMA NoThreeWindows ==
  ASSUME Shape, Windows, NEW c \in Clients, NEW from \in 0..MaxTime,
         NEW i \in Admitted(c, from, from + Window - 2 * MaxLag),
         NEW j \in Admitted(c, from, from + Window - 2 * MaxLag),
         NEW k \in Admitted(c, from, from + Window - 2 * MaxLag),
         log[i].start < log[j].start, log[j].start < log[k].start
  PROVE  FALSE
<1>1. /\ i \in DOMAIN log /\ j \in DOMAIN log /\ k \in DOMAIN log
      /\ ClientAt(i) = c /\ ClientAt(j) = c /\ ClientAt(k) = c
      /\ StampAt(i) >= from /\ StampAt(k) <= from + Window - 2 * MaxLag
  BY DEF Admitted, ClientAt, StampAt
<1>2. /\ StampAt(i) \in Nat /\ StampAt(k) \in Nat
      /\ log[i].start \in Nat /\ log[j].start \in Nat
      /\ from \in Nat /\ Window \in Nat /\ MaxLag \in Nat
  BY <1>1, EntryType, LimiterAssumption
<1>3. /\ StampAt(i) < log[i].start + Window
      /\ log[i].start + Window <= log[j].start + MaxLag
      /\ log[j].start + Window <= StampAt(k) + MaxLag
  BY <1>1 DEF Windows, FixedWindow, ClientAt
<1> QED
  BY <1>1, <1>2, <1>3

\* Two limits are all that get through in the span, whatever the lags: at most
\* two windows are touched, and each lets a limit through.
THEOREM QuotaPerSpanHolds == Spec => []QuotaPerSpan
<1>1. Shape /\ Windows /\ Groups => QuotaPerSpan
  <2> SUFFICES ASSUME Shape, Windows, Groups, NEW c \in Clients, NEW from \in 0..MaxTime
               PROVE  Cardinality(Admitted(c, from, from + Window - 2 * MaxLag)) <= 2 * Limit
    BY DEF QuotaPerSpan
  <2> DEFINE A == Admitted(c, from, from + Window - 2 * MaxLag)
  <2>1. \A i \in A : /\ i \in DOMAIN log /\ log[i].allowed /\ ClientAt(i) = c
                     /\ log[i].start \in 0..MaxTime
    <3>1. \A i \in A : i \in DOMAIN log /\ log[i].allowed /\ ClientAt(i) = c
      BY DEF Admitted, ClientAt
    <3>2. \A i \in DOMAIN log : log[i].start \in 0..MaxTime
      BY EntryType, LimiterAssumption
    <3> QED
      BY <3>1, <3>2
  <2>2. \E a, b \in 0..MaxTime : \A i \in A : log[i].start = a \/ log[i].start = b
    <3>1. CASE A = {}
      BY <3>1
    <3>2. ASSUME NEW i \in A
          PROVE  \E a, b \in 0..MaxTime : \A k \in A : log[k].start = a \/ log[k].start = b
      <4>1. CASE \A k \in A : log[k].start = log[i].start
        BY <2>1, <4>1
      <4>2. ASSUME NEW j \in A, log[j].start # log[i].start
            PROVE  \A k \in A : log[k].start = log[i].start \/ log[k].start = log[j].start
        <5> SUFFICES ASSUME NEW k \in A, log[k].start # log[i].start, log[k].start # log[j].start
                     PROVE  FALSE
          OBVIOUS
        <5>1. /\ log[i].start \in Nat /\ log[j].start \in Nat /\ log[k].start \in Nat
          BY <2>1, LimiterAssumption
        <5>2. ~(log[i].start < log[j].start /\ log[j].start < log[k].start)
          BY NoThreeWindows
        <5>3. ~(log[i].start < log[k].start /\ log[k].start < log[j].start)
          BY NoThreeWindows
        <5>4. ~(log[j].start < log[i].start /\ log[i].start < log[k].start)
          BY NoThreeWindows
        <5>5. ~(log[j].start < log[k].start /\ log[k].start < log[i].start)
          BY NoThreeWindows
        <5>6. ~(log[k].start < log[i].start /\ log[i].start < log[j].start)
          BY NoThreeWindows
        <5>7. ~(log[k].start < log[j].start /\ log[j].start < log[i].start)
          BY NoThreeWindows
        <5> QED
          BY <4>2, <5>1, <5>2, <5>3, <5>4, <5>5, <5>6, <5>7
      <4> QED
        BY <2>1, <4>1, <4>2
    <3> QED
      BY <3>1, <3>2
  <2>3. PICK a \in 0..MaxTime, b \in 0..MaxTime :
          \A i \in A : log[i].start = a \/ log[i].start = b
    BY <2>2
  <2>4. A \subseteq Group(c, a) \cup Group(c, b)
    BY <2>1, <2>3 DEF Group
  <2>5. /\ IsFiniteSet(Group(c, a)) /\ Cardinality(Group(c, a)) \in Nat
        /\ IsFiniteSet(Group(c, b)) /\ Cardinality(Group(c, b)) \in Nat
    BY GroupFinite
  <2>6. Cardinality(Group(c, a)) <= Limit /\ Cardinality(Group(c, b)) <= Limit
    BY DEF Groups
  <2> DEFINE both == Group(c, a) \cup Group(c, b)
             common == Group(c, a) \cap Group(c, b)
  <2>7. /\ IsFiniteSet(both)
        /\ Cardinality(both)
             = Cardinality(Group(c, a)) + Cardinality(Group(c, b)) - Cardinality(common)
    BY <2>5, FS_Union
  <2>8. Cardinality(common) \in Nat
    BY <2>5, FS_Intersection, FS_CardinalityType
  <2>9. Cardinality(A) \in Nat /\ Cardinality(A) <= Cardinality(both)
    BY <2>4, <2>7, FS_Subset, FS_CardinalityType
  <2>10. Cardinality(both) \in Nat
    BY <2>7, FS_CardinalityType
  <2> HIDE DEF A, both, common
  <2>11. Cardinality(A) <= 2 * Limit
    BY <2>5, <2>6, <2>7, <2>8, <2>9, <2>10, LimiterAssumption
  <2> QED
    BY <2>11 DEF A
<1> QED
  BY <1>1, InitShape, NextShape, InitWindows, NextWindows, InitGroups, NextGroups, PTL DEF Spec

\* Whoever is turned away had a whole limit let through less than a window and a
\* lag before: the group of the window that it was turned away from.
THEOREM DeniedForAReasonHolds == Spec => []DeniedForAReason
<1>1. Shape /\ Windows /\ Groups => DeniedForAReason
  <2> SUFFICES ASSUME Shape, Windows, Groups, NEW i \in DOMAIN log, ~log[i].allowed
               PROVE  Cardinality({j \in Admitted(ClientAt(i), 0, MaxTime) :
                                     j < i /\ StampAt(j) + Window + MaxLag > StampAt(i)})
                        >= Limit
    BY DEF DeniedForAReason, ClientAt, StampAt
  <2> DEFINE before == {j \in Group(ClientAt(i), log[i].start) : j < i}
             reason == {j \in Admitted(ClientAt(i), 0, MaxTime) :
                          j < i /\ StampAt(j) + Window + MaxLag > StampAt(i)}
  <2>1. Cardinality(before) >= Limit
    BY DEF Groups
  <2>2. ASSUME NEW j \in before
        PROVE  j \in reason
    <3>1. j \in DOMAIN log /\ log[j].allowed /\ ClientAt(j) = ClientAt(i)
          /\ log[j].start = log[i].start /\ j < i
      BY DEF Group
    <3>2. /\ StampAt(j) \in Nat /\ StampAt(j) <= MaxTime /\ StampAt(i) \in Nat
          /\ log[i].start \in Nat /\ Window \in Nat /\ MaxLag \in Nat
      <4>1. /\ StampAt(j) \in 0..clock /\ StampAt(i) \in 0..clock
            /\ log[i].start \in 0..clock /\ clock \in Nat /\ clock <= MaxTime
        BY <3>1, EntryType
      <4> QED
        BY <4>1, LimiterAssumption
    <3>3. StampAt(i) < log[i].start + Window /\ log[j].start <= StampAt(j) + MaxLag
      BY <3>1 DEF Windows
    <3>4. StampAt(j) + Window + MaxLag > StampAt(i)
      BY <3>1, <3>2, <3>3
    <3>5. StampAt(j) \in 0..MaxTime
      BY <3>2, LimiterAssumption
    <3> QED
      BY <3>1, <3>4, <3>5 DEF Admitted, ClientAt, StampAt
  <2>3. IsFiniteSet(reason)
    <3>1. reason \subseteq DOMAIN log
      BY DEF Admitted
    <3> QED
      BY <3>1, LogFinite, FS_Subset
  <2>4. before \subseteq reason
    BY <2>2
  <2> HIDE DEF before, reason
  <2>5. Cardinality(before) <= Cardinality(reason)
        /\ Cardinality(before) \in Nat /\ Cardinality(reason) \in Nat
    BY <2>3, <2>4, FS_Subset, FS_CardinalityType
  <2>6. Cardinality(reason) >= Limit
    BY <2>1, <2>5, LimiterAssumption
  <2> QED
    BY <2>6 DEF reason
<1> QED
  BY <1>1, InitShape, NextShape, InitWindows, NextWindows, InitGroups, NextGroups, PTL DEF Spec

-----------------------------------------------------------------------------
(* The retry time.                                                         *)

\* A lag is too short to matter in whole seconds: with a window of whole seconds,
\* as the program has, at most one.
LagIsShort == Window + MaxLag <= (Window \div Second + 1) * Second

\* A second more than the retry time outlasts the window.
Outlasts(reset, start, now) == start + Window <= now + (reset + 1) * Second

LEMMA SecondsRoundDown ==
  ASSUME NEW left \in Nat, NEW d \in Nat \ {0}
  PROVE  left \div d \in Nat /\ left < (left \div d + 1) * d
OBVIOUS

LEMMA MoreSeconds ==
  ASSUME NEW m \in Nat, NEW n \in Nat, NEW d \in Nat, m <= n
  PROVE  (m + 1) * d \in Nat /\ (m + 1) * d <= (n + 1) * d
OBVIOUS

LEMMA RetryOutlasts ==
  ASSUME LagIsShort, NEW now \in Nat, NEW window, window.started_at \in Nat,
         now < window.started_at + Window, window.started_at <= now + MaxLag
  PROVE  Outlasts(RetryAfter(window, now), window.started_at, now)
<1> DEFINE start == window.started_at
           left == ResetAfter(window, now)
           seconds == left \div Second
           reset == RetryAfter(window, now)
<1>1. Window \in Nat /\ Second \in Nat \ {0} /\ MaxLag \in Nat
  BY LimiterAssumption
<1>2. left = IF now > start THEN start + Window - now ELSE Window
  BY <1>1 DEF ResetAfter, Since
<1>3. left \in Nat
  BY <1>1, <1>2
<1>4. reset = IF seconds > 1 THEN seconds ELSE 1
  BY DEF RetryAfter
<1> HIDE DEF left
<1>5. seconds \in Nat /\ left < (seconds + 1) * Second
  BY <1>1, <1>3, SecondsRoundDown
<1> HIDE DEF seconds, reset, start
<1>6. reset \in Nat /\ seconds <= reset
  BY <1>4, <1>5
<1>7. (seconds + 1) * Second \in Nat /\ (seconds + 1) * Second <= (reset + 1) * Second
      /\ (reset + 1) * Second \in Nat
  BY <1>1, <1>5, <1>6, MoreSeconds
<1> DEFINE rounded == (seconds + 1) * Second
           waited == (reset + 1) * Second
<1> HIDE DEF rounded, waited
<1>8. start \in Nat /\ start <= now + MaxLag
  BY DEF start
<1>9. start + Window <= now + waited
  <2>1. CASE now > start
    <3>1. left = start + Window - now /\ left < rounded /\ rounded <= waited
          /\ rounded \in Nat /\ waited \in Nat
      BY <1>2, <1>5, <1>7, <2>1 DEF rounded, waited
    <3> QED
      BY <1>1, <1>3, <1>8, <3>1
  <2>2. CASE ~(now > start)
    <3>1. left = Window
      BY <1>2, <2>2
    <3>2. Window + MaxLag <= rounded
      BY <3>1 DEF LagIsShort, seconds, rounded
    <3>3. rounded <= waited /\ rounded \in Nat /\ waited \in Nat
      BY <1>7 DEF rounded, waited
    <3> QED
      BY <1>1, <1>8, <3>2, <3>3
  <2> QED
    BY <2>1, <2>2
<1> QED
  BY <1>9 DEF Outlasts, start, reset, waited

\* The windows of a client come one after the other.
Ordered ==
  /\ \A i, j \in DOMAIN log :
       i < j /\ ClientAt(i) = ClientAt(j) => log[i].start <= log[j].start
  /\ \A i \in DOMAIN log :
       ClientAt(i) \in DOMAIN clients => log[i].start <= clients[ClientAt(i)].started_at
  /\ \A i \in DOMAIN log : Outlasts(log[i].reset, log[i].start, StampAt(i))

LEMMA InitOrdered == Init => Ordered
BY DEF Init, Ordered

LEMMA CheckOrdered ==
  ASSUME LagIsShort, Shape, Windows, Ordered, NEW r \in Requests, Check(r)
  PROVE  Ordered'
<1> DEFINE now == stamp[r]
           client == ClientOf[r]
           known == KnownTo(r)
           window == WindowOf(r)
<1>1. PICK n \in Nat \ DOMAIN log :
        /\ \A i \in DOMAIN log : i \in Nat /\ i < n
        /\ DOMAIN log' = DOMAIN log \cup {n}
        /\ \A i \in DOMAIN log :
             log'[i] = log[i] /\ StampAt(i)' = StampAt(i) /\ ClientAt(i)' = ClientAt(i)
        /\ StampAt(n)' = now
        /\ ClientAt(n)' = client
        /\ log'[n].start = window.started_at
        /\ log'[n].reset = RetryAfter(window, now)
  BY DecisionStep
<1>2. /\ now \in 0..clock /\ clock \in 0..MaxTime /\ clock <= now + MaxLag
      /\ DOMAIN known \subseteq DOMAIN clients
      /\ window \in [started_at : 0..clock, requests : 0..Limit]
      /\ now < window.started_at + Window
      /\ DOMAIN clients' = DOMAIN known \cup {client}
      /\ \A c \in DOMAIN known : c # client => clients'[c] = clients[c]
      /\ clients'[client] = Counted(window)
  BY CheckStep
<1>3. /\ now \in Nat /\ now <= clock /\ clock \in Nat /\ window.started_at \in Nat
      /\ window.started_at <= now + MaxLag /\ MaxLag \in Nat /\ Window \in Nat
  BY <1>2, LimiterAssumption
<1>4. clients'[client].started_at = window.started_at
  <2> HIDE DEF window
  <2> QED
    BY <1>2 DEF Counted
<1>5. Outlasts(RetryAfter(window, now), window.started_at, now)
  BY <1>2, <1>3, RetryOutlasts
<1>6. \/ client \in DOMAIN clients /\ window = clients[client]
      \/ /\ window.started_at = now
         /\ client \in DOMAIN clients => clients[client].started_at + Window <= now
  BY CheckStep
<1>7. \A i \in DOMAIN log : log[i].start \in Nat
  BY EntryType, <1>3
<1> HIDE DEF now, client, known, window
<1>8. ASSUME NEW i \in DOMAIN log, ClientAt(i) = client
      PROVE  log[i].start <= window.started_at
  <2>1. /\ client \in DOMAIN clients => log[i].start <= clients[client].started_at
        /\ \/ client \in DOMAIN clients
           \/ log[i].start + Window <= clock
    BY <1>8 DEF Ordered, Windows
  <2>2. CASE client \in DOMAIN clients /\ window = clients[client]
    BY <2>1, <2>2
  <2>3. CASE /\ window.started_at = now
             /\ client \in DOMAIN clients => clients[client].started_at + Window <= now
    <3>1. CASE client \in DOMAIN clients
      <4>1. clients[client].started_at \in Nat
        BY <3>1, LimiterAssumption DEF Shape, TypeOK, ClientWindows
      <4> QED
        BY <1>3, <1>7, <2>1, <2>3, <3>1, <4>1
    <3>2. CASE client \notin DOMAIN clients
      <4>1. log[i].start + Window <= clock /\ clock <= now + MaxLag /\ MaxLag < Window
        BY <1>2, <2>1, <3>2, LimiterAssumption
      <4> QED
        BY <1>3, <1>7, <2>3, <4>1
    <3> QED
      BY <3>1, <3>2
  <2> QED
    BY <1>6, <2>2, <2>3
<1>9. ASSUME NEW i \in DOMAIN log', NEW j \in DOMAIN log', i < j, ClientAt(i)' = ClientAt(j)'
      PROVE  log'[i].start <= log'[j].start
  <2>1. i \in DOMAIN log
    BY <1>1, <1>9
  <2>2. CASE j \in DOMAIN log
    BY <1>1, <1>9, <2>1, <2>2 DEF Ordered
  <2>3. CASE j = n
    BY <1>1, <1>8, <1>9, <2>1, <2>3
  <2> QED
    BY <1>1, <2>2, <2>3
<1>10. ASSUME NEW i \in DOMAIN log', ClientAt(i)' \in DOMAIN clients'
       PROVE  log'[i].start <= clients'[ClientAt(i)'].started_at
  <2>1. CASE i \in DOMAIN log /\ ClientAt(i) # client
    BY <1>1, <1>2, <1>10, <2>1 DEF Ordered
  <2>2. CASE i \in DOMAIN log /\ ClientAt(i) = client
    BY <1>1, <1>4, <1>8, <2>2
  <2>3. CASE i = n
    BY <1>1, <1>3, <1>4, <2>3
  <2> QED
    BY <1>1, <2>1, <2>2, <2>3
<1>11. \A i \in DOMAIN log' : Outlasts(log'[i].reset, log'[i].start, StampAt(i)')
  <2>1. \A i \in DOMAIN log : Outlasts(log'[i].reset, log'[i].start, StampAt(i)')
    BY <1>1 DEF Ordered
  <2> QED
    BY <1>1, <1>5, <2>1
<1> QED
  BY <1>9, <1>10, <1>11 DEF Ordered, Outlasts

LEMMA NextOrdered ==
  ASSUME LagIsShort
  PROVE  Shape /\ Windows /\ Ordered /\ [Next]_vars => Ordered'
<1> SUFFICES ASSUME Shape, Windows, Ordered, [Next]_vars
             PROVE  Ordered'
  OBVIOUS
<1>1. CASE \A r \in Requests : ~Check(r)
  <2>1. UNCHANGED <<clients, log>> /\ \A i \in DOMAIN log : StampAt(i)' = StampAt(i)
    BY <1>1, QuietStep
  <2> QED
    BY <2>1 DEF Ordered, Outlasts, ClientAt
<1> QED
  BY <1>1, CheckOrdered

\* Whoever waits a second longer than told is turned away again only if a whole
\* limit of the client's requests got through meanwhile: the group of a later
\* window, all of it decided after the first refusal.
THEOREM RetryHonouredHolds ==
  ASSUME LagIsShort
  PROVE  Spec => []RetryHonoured
<1>1. Shape /\ Windows /\ Groups /\ Ordered => RetryHonoured
  <2> SUFFICES ASSUME Shape, Windows, Groups, Ordered,
                      NEW i \in DOMAIN log, NEW j \in DOMAIN log,
                      i < j, ClientAt(j) = ClientAt(i), ~log[i].allowed, ~log[j].allowed,
                      StampAt(j) >= StampAt(i) + (log[i].reset + 1) * Second
               PROVE  Cardinality({k \in Admitted(ClientAt(i), 0, MaxTime) : i < k /\ k < j})
                        >= Limit
    BY DEF RetryHonoured, ClientAt, StampAt
  <2> DEFINE group == {k \in Group(ClientAt(j), log[j].start) : k < j}
             meanwhile == {k \in Admitted(ClientAt(i), 0, MaxTime) : i < k /\ k < j}
  <2>1. Cardinality(group) >= Limit
    BY DEF Groups
  <2>2. log[i].start < log[j].start
    <3>1. /\ log[i].start \in Nat /\ log[j].start \in Nat
          /\ StampAt(i) \in Nat /\ StampAt(j) \in Nat /\ Window \in Nat
      BY EntryType, LimiterAssumption
    <3>2. (log[i].reset + 1) * Second \in Nat
      <4>1. log[i].reset \in Nat
        BY DEF Shape, TypeOK
      <4> QED
        BY <4>1, MoreSeconds, LimiterAssumption
    <3>3. log[i].start + Window <= StampAt(i) + (log[i].reset + 1) * Second
      BY DEF Ordered, Outlasts
    <3>4. StampAt(j) < log[j].start + Window
      BY DEF Windows
    <3> DEFINE waited == (log[i].reset + 1) * Second
    <3>5. log[i].start + Window <= StampAt(i) + waited /\ StampAt(i) + waited <= StampAt(j)
          /\ waited \in Nat
      BY <3>2, <3>3
    <3> HIDE DEF waited
    <3> QED
      BY <3>1, <3>4, <3>5
  <2>3. ASSUME NEW k \in group
        PROVE  k \in meanwhile
    <3>1. k \in DOMAIN log /\ log[k].allowed /\ ClientAt(k) = ClientAt(i)
          /\ log[k].start = log[j].start /\ k < j
      BY DEF Group
    <3>2. i \in Nat /\ k \in Nat /\ j \in Nat
      BY <3>1 DEF Shape
    <3>3. i < k
      <4>1. k # i
        BY <3>1
      <4>2. ~(k < i)
        <5>1. log[i].start \in Nat /\ log[j].start \in Nat
          BY EntryType
        <5>2. k < i => log[k].start <= log[i].start
          BY <3>1 DEF Ordered
        <5> QED
          BY <2>2, <3>1, <5>1, <5>2
      <4> QED
        BY <3>2, <4>1, <4>2
    <3>4. StampAt(k) \in 0..MaxTime
      <4>1. StampAt(k) \in 0..clock /\ clock \in Nat /\ clock <= MaxTime
        BY <3>1, EntryType
      <4> QED
        BY <4>1, LimiterAssumption
    <3> QED
      BY <3>1, <3>3, <3>4 DEF Admitted, ClientAt, StampAt
  <2>4. IsFiniteSet(meanwhile)
    <3>1. meanwhile \subseteq DOMAIN log
      BY DEF Admitted
    <3> QED
      BY <3>1, LogFinite, FS_Subset
  <2>5. group \subseteq meanwhile
    BY <2>3
  <2> HIDE DEF group, meanwhile
  <2>6. Cardinality(group) <= Cardinality(meanwhile)
        /\ Cardinality(group) \in Nat /\ Cardinality(meanwhile) \in Nat
    BY <2>4, <2>5, FS_Subset, FS_CardinalityType
  <2>7. Cardinality(meanwhile) >= Limit
    BY <2>1, <2>6, LimiterAssumption
  <2> QED
    BY <2>7 DEF meanwhile
<1> QED
  BY <1>1, InitShape, NextShape, InitWindows, NextWindows, InitGroups, NextGroups,
     InitOrdered, NextOrdered, PTL DEF Spec

-----------------------------------------------------------------------------
(* How the process stops.                                                  *)

States == {"none", "open", "asking", "served", "gone", "cut"}

\* Until the reporter has stopped the processor accepts whatever it is sent;
\* after a server that drained nobody is left to send, or to wait.
Served ==
  /\ connection \in [Connections -> States]
  /\ response \in [Connections -> B!Responses]
  /\ \A r \in Connections :
       /\ response[r] = "open" => connection[r] \in {"asking", "cut"}
       /\ connection[r] = "cut" => phase = "exited"
  /\ phase \in {"serving", "draining", "reporter"} => ~shutdown
  /\ ~shutdown => loop = "select"
  /\ phase \in {"serving", "draining"} => ~drained
  /\ drained => \A r \in Connections : connection[r] \notin {"open", "asking", "cut"}
  /\ ~panicked /\ (loop = "select" \/ drained) =>
       \A r \in Connections : response[r] \notin {"refused", "lost"}

LEMMA InitServed == LifecycleInit => Served
BY DEF LifecycleInit, B!Init, Served, States, B!Responses, B!Unanswered

\* Whoever is answered was waiting, and an answer is none of the other states.
LEMMA AnsweredServed ==
  ASSUME Served, NEW b, NEW answer,
         \A l \in b : answer[l] \in B!Values \cup MojangErrors,
         response' = B!Answered(b, answer),
         UNCHANGED <<mainVars, shutdown, loop, panicked>>
  PROVE  Served'
<1>1. ASSUME NEW r \in Connections
      PROVE  \/ response'[r] = response[r]
             \/ /\ response[r] = "open"
                /\ response'[r] \in B!Responses
                /\ response'[r] \notin B!Unanswered
  BY ProcessorAssumption DEF B!Answered, B!AnswerAssumption, B!Responses
<1>2. response' \in [Connections -> B!Responses]
  <2>1. \A r \in Connections : response'[r] \in B!Responses
    BY <1>1 DEF Served
  <2>2. response' = [r \in Connections |-> response'[r]]
    BY DEF B!Answered
  <2> QED
    BY <2>1, <2>2
<1>3. \A r \in Connections : response'[r] \in {"open", "refused", "lost"}
                               => response'[r] = response[r]
  BY <1>1 DEF B!Unanswered
<1> QED
  BY <1>2, <1>3 DEF Served, mainVars

\* Whoever loses an answer was waiting.
LEMMA DroppedServed ==
  ASSUME Served, NEW S, response' = B!Dropped(S),
         UNCHANGED <<mainVars, shutdown>>,
         \/ panicked' = TRUE /\ loop' = loop
         \/ panicked' = panicked /\ shutdown /\ loop' # "select"
  PROVE  Served'
<1>1. ASSUME NEW r \in Connections
      PROVE  \/ response'[r] = response[r]
             \/ response[r] = "open" /\ response'[r] = "lost"
  BY DEF B!Dropped
<1>2. response' \in [Connections -> B!Responses]
  <2>1. \A r \in Connections : response'[r] \in B!Responses
    BY <1>1 DEF Served, B!Responses, B!Unanswered
  <2>2. response' = [r \in Connections |-> response'[r]]
    BY DEF B!Dropped
  <2> QED
    BY <2>1, <2>2
<1>3. drained => \A r \in Connections : response'[r] = response[r]
  BY <1>1 DEF Served
<1>4. \A r \in Connections : response'[r] = "open" => response[r] = "open"
  BY <1>1
<1> QED
  BY <1>2, <1>3, <1>4 DEF Served, mainVars

LEMMA NextServed ==
  ASSUME Served, [LifecycleNext]_lifecycleVars
  PROVE  Served'
<1>1. ASSUME NEW r \in Connections, Connect(r) \/ Begin(r) \/ Respond(r)
      PROVE  Served'
  BY <1>1 DEF Connect, Begin, Respond, Move, Served, States, batchVars
<1>2. ASSUME NEW r \in Connections, Ask(r)
      PROVE  Served'
  BY <1>2 DEF Ask, B!Send, B!SendRefused, B!Accepting, B!Responses, B!Unanswered, Served,
              States, mainVars
<1>3. ASSUME NEW r \in Connections, HangUp(r)
      PROVE  Served'
  BY <1>3 DEF HangUp, Move, B!Abandon, B!Responses, B!Unanswered, Served, States, batchVars
<1>4. CASE Signal \/ ServerDrained \/ HttpDeadline
  BY <1>4 DEF Signal, ServerDrained, HttpDeadline, Busy, Served, States, batchVars
<1>5. CASE ReporterStopped
  BY <1>5 DEF ReporterStopped, B!Shutdown, Served, States, reporterVars
<1>6. CASE BatchDeadline
  <2>1. B!Abort /\ UNCHANGED mainVars
    BY <1>6 DEF BatchDeadline
  <2> QED
    BY <2>1, DroppedServed DEF B!Abort
<1>7. CASE Exit
  BY <1>7 DEF Exit, Busy, Served, States, batchVars
<1>8. CASE Loop
  BY <1>8 DEF Loop, B!Loop, B!Receive, B!Collect, B!Tick, B!Close, B!Drained, B!Spawn, B!Stop,
              Served, States, mainVars
<1>9. ASSUME NEW b, ProcessBatch(b)
      PROVE  Served'
  BY <1>9 DEF ProcessBatch, B!ProcessBatch, Served, States, mainVars
<1>10. CASE Upstream
  <2>1. ASSUME NEW b \in calling, NEW profiles \in B!Profiles(b), B!Resolve(b, profiles)
        PROVE  Served'
    <3> DEFINE answer == [l \in b |-> B!UuidIn(profiles, [r \in Connections |-> r][l])]
    <3>1. \A l \in b : answer[l] \in B!Values
      BY DEF B!Profiles, B!UuidIn, B!Values
    <3>2. response' = B!Answered(b, answer) /\ UNCHANGED <<shutdown, loop, panicked>>
      BY <2>1 DEF B!Resolve
    <3> HIDE DEF answer
    <3> QED
      BY <1>10, <3>1, <3>2, AnsweredServed DEF Upstream
  <2>2. ASSUME NEW b \in calling, NEW error \in MojangErrors, B!Reject(b, error)
        PROVE  Served'
    <3> DEFINE answer == [l \in b |-> error]
    <3>1. response' = B!Answered(b, answer) /\ UNCHANGED <<shutdown, loop, panicked>>
      BY <2>2 DEF B!Reject
    <3>2. \A l \in b : answer[l] \in MojangErrors
      OBVIOUS
    <3> HIDE DEF answer
    <3> QED
      BY <1>10, <3>1, <3>2, AnsweredServed DEF Upstream
  <2> QED
    BY <1>10, <2>1, <2>2 DEF Upstream, B!Upstream
<1>11. CASE Interrupt
  <2>1. ASSUME NEW b, B!Panic(b)
        PROVE  Served'
    BY <1>11, <2>1, DroppedServed DEF B!Panic, Interrupt
  <2>2. ASSUME NEW b, B!Cancel(b)
        PROVE  Served'
    <3>1. shutdown
      BY <2>2 DEF B!Cancel, Served
    <3> QED
      BY <1>11, <2>2, <3>1, DroppedServed DEF B!Cancel, Interrupt
  <2> QED
    BY <1>11, <2>1, <2>2 DEF Interrupt
<1>12. CASE Report
  BY <1>12 DEF Report, Served, States, mainVars, batchVars
<1>13. CASE UNCHANGED lifecycleVars
  BY <1>13 DEF lifecycleVars, Served, States, mainVars, batchVars
<1> QED
  BY <1>1, <1>2, <1>3, <1>4, <1>5, <1>6, <1>7, <1>8, <1>9, <1>10, <1>11, <1>12, <1>13
  DEF LifecycleNext, Main

\* A shutdown whose server drains in time costs no request its answer, whatever
\* its clients, Mojang and the reporter do, unless a task of the processor panics
\* (main.rs:49-110).
THEOREM DrainedIsServedHolds == LifecycleSpec => []DrainedIsServed
<1>1. Served => DrainedIsServed
  BY DEF Served, DrainedIsServed
<1> QED
  BY <1>1, InitServed, NextServed, PTL DEF LifecycleSpec

-----------------------------------------------------------------------------
\* What the process does to the processor are steps of the processor: what is
\* promised of it alone holds of it here.
THEOREM ImplementsProcessor == LifecycleSpec => B!Spec
<1>1. LifecycleInit => B!Init
  BY DEF LifecycleInit
<1>2. [LifecycleNext]_lifecycleVars => [B!Next]_B!vars
  <2> SUFFICES ASSUME [LifecycleNext]_lifecycleVars
               PROVE  B!Next \/ UNCHANGED batchVars
    BY DEF B!vars, batchVars
  <2>1. ASSUME NEW r \in Connections, Connect(r) \/ Begin(r) \/ Respond(r)
        PROVE  UNCHANGED batchVars
    BY <2>1 DEF Connect, Begin, Respond
  <2>2. ASSUME NEW r \in Connections, Ask(r)
        PROVE  B!Next
    BY <2>2 DEF Ask, B!Next, B!Callers
  <2>3. ASSUME NEW r \in Connections, HangUp(r)
        PROVE  B!Next \/ UNCHANGED batchVars
    BY <2>3 DEF HangUp, B!Next, B!Callers
  <2>4. CASE Signal \/ ServerDrained \/ HttpDeadline \/ Exit
    BY <2>4 DEF Signal, ServerDrained, HttpDeadline, Exit
  <2>5. CASE ReporterStopped \/ BatchDeadline
    BY <2>5 DEF ReporterStopped, BatchDeadline, B!Next
  <2>6. CASE Loop \/ Upstream
    BY <2>6 DEF Loop, Upstream, B!Next, B!Task
  <2>7. ASSUME NEW b \in ready, ProcessBatch(b)
        PROVE  B!Next
    BY <2>7 DEF ProcessBatch, B!Next, B!Task
  <2>8. CASE Interrupt
    BY <2>8 DEF Interrupt, B!Next
  <2>9. CASE Report \/ UNCHANGED lifecycleVars
    BY <2>9 DEF Report, lifecycleVars
  <2> QED
    BY <2>1, <2>2, <2>3, <2>4, <2>5, <2>6, <2>7, <2>8, <2>9 DEF LifecycleNext, Main
<1> QED
  BY <1>1, <1>2, PTL DEF LifecycleSpec, B!Spec

\* The processor with its theorems.
BP == INSTANCE BatchProcessor_proofs WITH
        Lookups <- Connections, Names <- Connections,
        NameOf <- [r \in Connections |-> r], Errors <- MojangErrors

LEMMA SameProcessor ==
  /\ B!Init => BP!Init
  /\ [B!Next]_B!vars => [BP!Next]_BP!vars
<1>1. B!Init => BP!Init
  BY DEF B!Init, BP!Init
<1>2. UNCHANGED B!vars => UNCHANGED BP!vars
  BY DEF B!vars, BP!vars
<1>3. B!Next => BP!Next
  BY DEF B!Next, BP!Next, B!Callers, BP!Callers, B!Loop, BP!Loop, B!Task, BP!Task,
         B!Upstream, BP!Upstream, B!Send, BP!Send, B!SendRefused, BP!SendRefused,
         B!Abandon, BP!Abandon, B!Accepting, BP!Accepting, B!Receive, BP!Receive,
         B!Collect, BP!Collect, B!Tick, BP!Tick, B!Close, BP!Close, B!Drained, BP!Drained,
         B!Spawn, BP!Spawn, B!Stop, BP!Stop, B!Tasks, BP!Tasks, B!EndTask, BP!EndTask,
         B!Dropped, BP!Dropped, B!Answered, BP!Answered, B!Awaited, BP!Awaited,
         B!ProcessBatch, BP!ProcessBatch, B!Profiles, BP!Profiles, B!NamesIn, BP!NamesIn,
         B!UuidIn, BP!UuidIn, B!Resolve, BP!Resolve, B!Reject, BP!Reject,
         B!Panic, BP!Panic, B!Cancel, BP!Cancel, B!Shutdown, BP!Shutdown,
         B!Abort, BP!Abort, B!Backlog, BP!Backlog, B!Range, BP!Range,
         B!Cardinality, BP!Cardinality
<1> QED
  BY <1>1, <1>2, <1>3

LEMMA SamePromises ==
  /\ BP!OnePlace => B!OnePlace
  /\ BP!PermitAccounting => B!PermitAccounting
  /\ BP!BatchBound => B!BatchBound
  /\ BP!BacklogBound => B!BacklogBound
  /\ BP!NobodyStranded => B!NobodyStranded
  /\ BP!NothingLost => B!NothingLost
  /\ BP!DrainAnswersAll => B!DrainAnswersAll
<1>1. BP!Tasks = B!Tasks /\ BP!Backlog = B!Backlog
  BY DEF BP!Tasks, B!Tasks, BP!Backlog, B!Backlog, BP!Range, B!Range
<1>2. BP!OnePlace => B!OnePlace
  BY <1>1 DEF BP!OnePlace, B!OnePlace, BP!IsInjective, B!IsInjective, BP!Range, B!Range
<1>3. BP!PermitAccounting => B!PermitAccounting
  BY DEF BP!PermitAccounting, B!PermitAccounting, BP!Cardinality, B!Cardinality
<1>4. BP!BatchBound => B!BatchBound
  BY <1>1 DEF BP!BatchBound, B!BatchBound, BP!Cardinality, B!Cardinality
<1>5. BP!BacklogBound => B!BacklogBound
  BY <1>1 DEF BP!BacklogBound, B!BacklogBound, BP!Cardinality, B!Cardinality
<1>6. BP!NobodyStranded => B!NobodyStranded
  BY <1>1 DEF BP!NobodyStranded, B!NobodyStranded
<1>7. BP!NothingLost => B!NothingLost
  BY DEF BP!NothingLost, B!NothingLost
<1>8. BP!DrainAnswersAll => B!DrainAnswersAll
  BY DEF BP!DrainAnswersAll, B!DrainAnswersAll
<1> QED
  BY <1>2, <1>3, <1>4, <1>5, <1>6, <1>7, <1>8

\* In the process as a whole, with the server, the reporter and the deadlines
\* around it, the processor keeps every promise it makes alone.
THEOREM ProcessorKeepsPromises ==
  LifecycleSpec => []( /\ B!OnePlace /\ B!PermitAccounting
                       /\ B!BatchBound /\ B!BacklogBound
                       /\ B!NobodyStranded /\ B!NothingLost /\ B!DrainAnswersAll)
<1>1. BP!LookupAssumption /\ BP!AnswerAssumption /\ BP!ConfigAssumption
  BY ProcessorAssumption
     DEF B!LookupAssumption, BP!LookupAssumption, B!AnswerAssumption, BP!AnswerAssumption,
         B!ConfigAssumption, BP!ConfigAssumption, B!Unanswered, BP!Unanswered,
         B!Values, BP!Values
<1>2. /\ BP!Spec => []BP!OnePlace
      /\ BP!Spec => []BP!PermitAccounting
      /\ BP!Spec => []BP!BatchBound
      /\ BP!Spec => []BP!BacklogBound
      /\ BP!Spec => []BP!NobodyStranded
      /\ BP!Spec => []BP!NothingLost
      /\ BP!Spec => []BP!DrainAnswersAll
  BY <1>1, BP!OnePlaceHolds, BP!PermitAccountingHolds, BP!BatchBoundHolds,
     BP!BacklogBoundHolds, BP!NobodyStrandedHolds, BP!NothingLostHolds, BP!DrainAnswersAllHolds
<1>3. LifecycleSpec => BP!Spec
  BY ImplementsProcessor, SameProcessor, PTL DEF B!Spec, BP!Spec
<1> QED
  BY <1>2, <1>3, SamePromises, PTL
==============================================================================
