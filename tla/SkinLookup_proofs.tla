-------------------------- MODULE SkinLookup_proofs --------------------------
(***************************************************************************)
(* Proofs about SkinLookup, laid out as those about UuidLookup: its steps  *)
(* are steps of the cache and of the client, whose theorems then hold of   *)
(* them here.  A call is under way only while the request that leads for   *)
(* its uuid loads, and the cache has one such request at most.             *)
(***************************************************************************)
EXTENDS SkinLookup, FiniteSetTheorems, TLAPS

\* The cache, without its times, and the client, with their theorems.
CP == INSTANCE CacheLifetime_proofs WITH
       Callers <- Valid, Keys <- Uuids, KeyOf <- UuidOf,
       PositiveTTL <- 1, NegativeTTL <- 1, MaxTime <- 0,
       clock <- 0, due <- 0, ended <- 0, cleared <- {}, gone <- {}

P == INSTANCE MojangClient_proofs WITH
       Calls <- Valid, KindOf <- [r \in Valid |-> "skin"],
       BodyOf <- [r \in Valid |-> 0]

-----------------------------------------------------------------------------
(* The components are those of the proofs.                                 *)

LEMMA CacheActions ==
  ASSUME NEW r \in Valid
  PROVE  /\ C!Get(r) => CP!Get(r)
         /\ C!Claim(r) => CP!Claim(r)
         /\ C!Recheck(r) => CP!Recheck(r)
         /\ C!Follow(r) => CP!Follow(r)
         /\ C!Cancel(r) => CP!Cancel(r)
         /\ \A value \in Values : C!Loaded(r, value) => CP!Loaded(r, value)
         /\ \A error \in Errors : C!LoadFailed(r, error) => CP!LoadFailed(r, error)
BY DEF C!Get, CP!Get, C!Claim, CP!Claim, C!Recheck, CP!Recheck, C!Loaded, CP!Loaded,
       C!LoadFailed, CP!LoadFailed, C!Follow, CP!Follow, C!Cancel, CP!Cancel,
       C!Finish, CP!Finish, C!Withdraw, CP!Withdraw, C!Busy, CP!Busy, C!Leading, CP!Leading

LEMMA SameCache ==
  /\ C!Init => CP!Init
  /\ [C!Next]_C!cacheVars => [CP!Next]_CP!cacheVars
<1>1. C!Init => CP!Init
  BY DEF C!Init, CP!Init
<1>2. UNCHANGED C!cacheVars => UNCHANGED CP!cacheVars
  BY DEF C!cacheVars, CP!cacheVars
<1>3. C!Next => CP!Next
  BY CacheActions DEF C!Next, CP!Next, C!Expire, CP!Expire
<1> QED
  BY <1>1, <1>2, <1>3

LEMMA SameClient ==
  /\ M!Init => P!Init
  /\ [M!Next]_M!clientVars => [P!Next]_P!clientVars
<1>1. M!Init => P!Init
  BY DEF M!Init, P!Init, M!NoResponse, P!NoResponse, M!Unknown, P!Unknown
<1>2. UNCHANGED M!clientVars => UNCHANGED P!clientVars
  BY DEF M!clientVars, P!clientVars
<1>3. M!Next => P!Next
  BY DEF M!Next, P!Next, M!Begin, P!Begin, M!Progress, P!Progress, M!Drop, P!Drop,
         M!Break, P!Break, M!ReceiveHead, P!ReceiveHead, M!Chunk, P!Chunk, M!End, P!End,
         M!Leave, P!Leave, M!Return, P!Return, M!Fail, P!Fail, M!Active, P!Active,
         M!MayGrow, P!MayGrow, M!MayEnd, P!MayEnd, M!Fits, P!Fits, M!Items, P!Items,
         M!Contents, P!Contents, M!Textures, P!Textures, M!Understood, P!Understood,
         M!Outcome, P!Outcome, M!Statuses, P!Statuses, M!Unknown, P!Unknown,
         M!NoResponse, P!NoResponse, M!UpstreamErrors, P!UpstreamErrors,
         M!SeqOf, P!SeqOf, M!Contains, P!Contains, M!Min, P!Min
<1> QED
  BY <1>1, <1>2, <1>3

-----------------------------------------------------------------------------
(* Every step is one of theirs.                                            *)

LEMMA CacheStep == [Next]_vars => [C!Next]_C!cacheVars
<1> SUFFICES ASSUME [Next]_vars
             PROVE  C!Next \/ UNCHANGED cacheVars
  BY DEF C!cacheVars, cacheVars
<1>1. ASSUME NEW r \in Valid,
             Start(r) \/ Claim(r) \/ Recheck(r) \/ Follow(r) \/ Return(r) \/ Cancel(r)
      PROVE  C!Next
  BY <1>1 DEF Start, Claim, Recheck, Follow, Return, Cancel, C!Next
<1>2. ASSUME NEW u \in Uuids, Expire(u)
      PROVE  C!Next
  BY <1>2 DEF Expire, C!Next
<1>3. CASE \/ UNCHANGED vars
           \/ \E r \in Requests : Refuse(r)
           \/ \E r \in Valid : Upstream(r)
  BY <1>3 DEF vars, Refuse, Upstream
<1> QED
  BY <1>1, <1>2, <1>3 DEF Next

LEMMA ClientStep == [Next]_vars => [M!Next]_M!clientVars
<1> SUFFICES ASSUME [Next]_vars
             PROVE  M!Next \/ UNCHANGED clientVars
  BY DEF M!clientVars, clientVars
<1>1. ASSUME NEW r \in Valid,
             \/ Start(r) \/ Claim(r) \/ Recheck(r) \/ Follow(r)
             \/ Upstream(r) \/ Return(r) \/ Cancel(r)
      PROVE  M!Next \/ UNCHANGED clientVars
  BY <1>1 DEF Start, Claim, Recheck, Follow, Upstream, Return, Cancel, M!Next
<1>2. CASE \/ UNCHANGED vars
           \/ \E r \in Requests : Refuse(r)
           \/ \E u \in Uuids : Expire(u)
  BY <1>2 DEF vars, Refuse, Expire
<1> QED
  BY <1>1, <1>2 DEF Next

\* The skin requests use their cache by its own steps only.
THEOREM ImplementsCache == Spec => C!Spec
<1>1. Init => C!Init
  BY DEF Init
<1> QED
  BY <1>1, CacheStep, PTL DEF Spec, C!Spec

\* And the client, too.
THEOREM ImplementsClient == Spec => M!Spec
<1>1. Init => M!Init
  BY DEF Init
<1> QED
  BY <1>1, ClientStep, PTL DEF Spec, M!Spec

-----------------------------------------------------------------------------
(* What the components promise holds of them here.                         *)

LEMMA Assumptions ==
  /\ CP!CallerAssumption /\ CP!ResultAssumption /\ CP!LifetimeAssumption
  /\ P!ClientAssumption
BY CacheAssumption, UpstreamAssumption
   DEF C!IsFiniteSet, CP!IsFiniteSet, M!ClientAssumption, P!ClientAssumption,
       M!IsFiniteSet, P!IsFiniteSet, Values

LEMMA LoadsHold == Spec => []CP!Loads
<1>1. CP!Spec => []CP!Loads
  BY Assumptions, CP!InitLoads, CP!NextLoads, PTL DEF CP!Spec
<1>2. Spec => CP!Spec
  BY ImplementsCache, SameCache, PTL DEF C!Spec, CP!Spec
<1> QED
  BY <1>1, <1>2, PTL

LEMMA ClientHolds == Spec => []P!Inv
<1>1. P!Spec => []P!Inv
  BY Assumptions, P!InitInv, P!NextInv, PTL DEF P!Spec
<1>2. Spec => P!Spec
  BY ImplementsClient, SameClient, PTL DEF M!Spec, P!Spec
<1> QED
  BY <1>1, <1>2, PTL

LEMMA Results ==
  /\ "none" \notin Values \cup Errors /\ "profiles" \notin Values \cup Errors
  /\ Values \cap Errors = {} /\ "absent" \in Values
  /\ UuidOf \in [Valid -> Uuids]
BY CacheAssumption, UpstreamAssumption DEF Values, Errors, M!UpstreamErrors, M!ClientAssumption

\* What this module needs of them.
Coalesced ==
  /\ stage \in [Valid -> CP!Stages]
  /\ \A r \in Valid : stage[r] = "loading" => waiter[UuidOf[r]] = r

Replied ==
  /\ DOMAIN call = Valid /\ DOMAIN result = Valid
  /\ \A r \in Valid :
       /\ result[r] \in Skins \cup Errors \cup {"none", "absent", "profiles"}
       /\ call[r] # "returned" => result[r] = "none"

LEMMA Needed ==
  /\ CP!Loads => Coalesced
  /\ P!Inv => Replied
<1>1. CP!Loads => Coalesced
  BY Results DEF CP!Loads, CP!CacheTypeOK, CP!WaiterIsLeader, CP!Leading, Coalesced
<1>2. ASSUME P!Inv
      PROVE  Replied
  <2>1. Errors = P!UpstreamErrors
    BY DEF Errors, M!UpstreamErrors, P!UpstreamErrors
  <2>2. /\ call \in [Valid -> {"none", "sending", "reading", "returned", "dropped"}]
        /\ result \in [Valid -> Errors \cup Skins \cup {"none", "absent", "profiles"}]
        /\ \A r \in Valid : call[r] # "returned" => result[r] = "none"
    BY <1>2, <2>1 DEF P!Inv, P!ClientTypeOK
  <2> QED
    BY <2>2 DEF Replied
<1> QED
  BY <1>1, <1>2

-----------------------------------------------------------------------------
(* The calls and the requests.                                             *)

ActiveIsLoading == \A r \in M!Active : stage[r] = "loading"

\* The network moves on for a call that is under way, and may end it.
LEMMA ProgressEnds ==
  ASSUME Replied, NEW r \in Valid, M!Progress(r)
  PROVE  /\ r \in M!Active /\ M!Active' \subseteq M!Active
         /\ (UNCHANGED result) \/ \E value : result' = [result EXCEPT ![r] = value]
<1>1. /\ r \in M!Active
      /\ \/ \E next \in {"reading", "returned"} : call' = [call EXCEPT ![r] = next]
         \/ UNCHANGED call
  BY DEF M!Progress, M!Break, M!ReceiveHead, M!Chunk, M!End, M!Fail, M!Return, M!Leave, M!Active
<1>2. (UNCHANGED result) \/ \E value : result' = [result EXCEPT ![r] = value]
  BY DEF M!Progress, M!Break, M!ReceiveHead, M!Chunk, M!End, M!Fail, M!Return
<1>3. M!Active' \subseteq M!Active
  BY <1>1 DEF M!Active, Replied
<1> QED
  BY <1>1, <1>2, <1>3

LEMMA NextActive ==
  ASSUME Coalesced, Replied, ActiveIsLoading, [Next]_vars
  PROVE  ActiveIsLoading'
<1> USE DEF ActiveIsLoading, Coalesced, Replied
<1>1. ASSUME NEW r \in Valid, Start(r) \/ Claim(r) \/ Follow(r)
      PROVE  ActiveIsLoading'
  BY <1>1 DEF Start, Claim, Follow, C!Get, C!Claim, C!Follow, C!Finish, clientVars, M!Active
<1>2. ASSUME NEW r \in Valid, Recheck(r)
      PROVE  ActiveIsLoading'
  <2>1. CASE stage'[r] = "loading"
    BY <1>2, <2>1 DEF Recheck, C!Recheck, C!Finish, M!Begin, M!Active
  <2>2. CASE stage'[r] # "loading"
    BY <1>2, <2>2 DEF Recheck, C!Recheck, C!Finish, clientVars, M!Active
  <2> QED
    BY <2>1, <2>2
<1>3. ASSUME NEW r \in Valid, Upstream(r)
      PROVE  ActiveIsLoading'
  BY <1>3, ProgressEnds DEF Upstream, cacheVars
<1>4. ASSUME NEW r \in Valid, Return(r)
      PROVE  ActiveIsLoading'
  <2>1. result[r] \in Values \cup Errors
    BY <1>4 DEF Return
  <2>2. r \notin M!Active
    BY <2>1, Results DEF M!Active
  <2> QED
    BY <1>4, <2>2 DEF Return, C!Loaded, C!LoadFailed, C!Finish, clientVars, M!Active
<1>5. ASSUME NEW r \in Valid, Cancel(r)
      PROVE  ActiveIsLoading'
  <2>1. stage' = [stage EXCEPT ![r] = "cancelled"]
    BY <1>5 DEF Cancel, C!Cancel
  <2>2. CASE r \in M!Active
    BY <1>5, <2>1, <2>2 DEF Cancel, M!Drop, M!Leave, M!Active
  <2>3. CASE r \notin M!Active
    BY <1>5, <2>1, <2>3 DEF Cancel, clientVars, M!Active
  <2> QED
    BY <2>2, <2>3
<1>6. CASE \/ UNCHANGED vars
           \/ \E r \in Requests : Refuse(r)
           \/ \E u \in Uuids : Expire(u)
  BY <1>6 DEF vars, Refuse, Expire, C!Expire, cacheVars, clientVars, M!Active
<1> QED
  BY <1>1, <1>2, <1>3, <1>4, <1>5, <1>6 DEF Next

LEMMA ActiveHolds == Spec => []ActiveIsLoading
<1>1. Init => ActiveIsLoading
  BY DEF Init, M!Init, M!Active, ActiveIsLoading
<1> QED
  BY <1>1, NextActive, Needed, LoadsHold, ClientHolds, PTL DEF Spec

\* Mojang is never asked twice for one uuid at a time, for any number of
\* requests, however they are cancelled.
THEOREM OneCallPerUuidHolds == Spec => []OneCallPerUuid
<1>1. Coalesced /\ ActiveIsLoading => OneCallPerUuid
  <2> SUFFICES ASSUME Coalesced, ActiveIsLoading,
                      NEW r \in M!Active, NEW q \in M!Active, UuidOf[r] = UuidOf[q]
               PROVE  r = q
    BY DEF OneCallPerUuid
  <2>1. waiter[UuidOf[r]] = r /\ waiter[UuidOf[q]] = q
    BY DEF Coalesced, ActiveIsLoading, M!Active
  <2> QED
    BY <2>1
<1> QED
  BY <1>1, Needed, LoadsHold, ActiveHolds, PTL

-----------------------------------------------------------------------------
(* The abstract name resolution.                                           *)

\* The errors that have occurred, as Service sees them.
Excuses == Errors \cap {result[r] : r \in Valid}

\* Nothing is cached or returned that Mojang did not say of the uuid, or that
\* is no such error.
CacheIsTrue == CP!AllTrue(reported, Excuses)

\* No call returns a value that is not reported of its uuid.
ResultsAreTrue ==
  \A r \in Valid : result[r] \in Values => <<UuidOf[r], result[r]>> \in reported

Seen == [r \in Valid |-> Status(r)]

\* A poll of a request changes nothing that Mojang said, and loads the truth.
LEMMA RequestMoves ==
  ASSUME ResultsAreTrue, NEW r \in Valid,
         Start(r) \/ Claim(r) \/ Recheck(r) \/ Follow(r) \/ Return(r) \/ Cancel(r)
  PROVE  CP!TrueStep(r, reported, Excuses) /\ UNCHANGED <<reported, result>>
<1>1. UNCHANGED <<reported, result>>
  BY DEF Start, Claim, Recheck, Follow, Return, Cancel, M!Begin, M!Drop, clientVars
<1>2. CASE Return(r)
  <2>1. CASE result[r] \in Values /\ C!Loaded(r, result[r])
    BY <1>1, <2>1, CacheActions DEF ResultsAreTrue, CP!TrueStep
  <2>2. CASE result[r] \in Errors /\ C!LoadFailed(r, result[r])
    <3>1. result[r] \in Excuses
      BY <2>2 DEF Excuses
    <3> QED
      BY <1>1, <2>2, <3>1, CacheActions DEF CP!TrueStep
  <2> QED
    BY <1>2, <2>1, <2>2 DEF Return
<1>3. CASE Start(r) \/ Claim(r) \/ Recheck(r) \/ Follow(r) \/ Cancel(r)
  BY <1>1, <1>3, CacheActions DEF Start, Claim, Recheck, Follow, Cancel, CP!TrueStep
<1> QED
  BY <1>2, <1>3

\* A move of one request is one of the abstract requests.
LEMMA MovedServes ==
  ASSUME NEW r \in Valid, CP!Moved(r, reported, Excuses), UNCHANGED <<reported, result>>
  PROVE  Service!Next \/ UNCHANGED Seen
<1>1. UNCHANGED Excuses
  BY DEF Excuses
<1>2. \A q \in Valid : Status(q) = CP!Status(q) /\ Status(q)' = CP!Status(q)'
  BY DEF Status, CP!Status, C!Busy, CP!Busy
<1>3. /\ Seen' = [Seen EXCEPT ![r] = Status(r)']
      /\ Seen[r] = Status(r)
  BY <1>2 DEF Seen, CP!Moved
<1>4. CASE Status(r)' = Status(r)
  BY <1>2, <1>4 DEF CP!Moved, Seen
<1>5. CASE Status(r) = "idle" /\ Status(r)' = "waiting"
  <2>1. Service!Ask(r)
    BY <1>1, <1>3, <1>5 DEF Service!Ask, Seen, Excuses
  <2> QED
    BY <2>1 DEF Service!Next
<1>6. CASE /\ Status(r) \in {"idle", "waiting"}
           /\ Status(r)' \in Values /\ <<UuidOf[r], Status(r)'>> \in reported
  <2>1. Service!Answer(r, Status(r)')
    BY <1>1, <1>3, <1>6 DEF Service!Answer, Seen, Excuses
  <2> QED
    BY <1>6, <2>1 DEF Service!Next
<1>7. CASE Status(r) = "waiting" /\ Status(r)' \in Errors /\ Status(r)' \in Excuses
  <2>1. Service!Fail(r, Status(r)')
    BY <1>1, <1>3, <1>7 DEF Service!Fail, Seen, Excuses
  <2> QED
    BY <1>7, <2>1 DEF Service!Next
<1>8. CASE Status(r) = "waiting" /\ Status(r)' = "cancelled"
  <2>1. Service!Leave(r)
    BY <1>1, <1>3, <1>8 DEF Service!Leave, Seen, Excuses
  <2> QED
    BY <2>1 DEF Service!Next
<1> QED
  BY <1>2, <1>4, <1>5, <1>6, <1>7, <1>8 DEF CP!Moved

\* A call that returns has something reported, or met an error.
LEMMA UpstreamServes ==
  ASSUME Replied, Replied', CacheIsTrue, ResultsAreTrue, NEW r \in Valid, Upstream(r)
  PROVE  /\ CacheIsTrue' /\ ResultsAreTrue'
         /\ Service!Next \/ UNCHANGED <<Seen, reported, Excuses>>
<1>0. (UNCHANGED Seen) /\ (UNCHANGED <<cache, stage, outcome>>)
  BY DEF Upstream, cacheVars, Seen, Status, C!Busy
<1>1. r \in M!Active /\ result[r] = "none"
  BY ProgressEnds DEF Upstream, Replied, M!Active
<1>2. \A q \in Valid : q # r => result'[q] = result[q]
  BY ProgressEnds DEF Upstream, Replied
<1>3. result'[r] \in Values \cup Errors \cup {"none", "profiles"}
  BY DEF Replied, Values
<1>4. ASSUME Excuses \subseteq Excuses'
      PROVE  CacheIsTrue'
  <2>1. reported \subseteq reported'
    BY DEF Upstream
  <2> QED
    BY <1>0, <1>4, <2>1 DEF CacheIsTrue, CP!AllTrue, CP!IsTrue
<1>5. CASE result'[r] \in {"none", "profiles"}
  <2>1. UNCHANGED reported
    BY <1>5, Results DEF Upstream
  <2>2. UNCHANGED Excuses
    BY <1>1, <1>2, <1>5, Results DEF Excuses
  <2>3. ResultsAreTrue'
    BY <1>2, <1>5, <2>1, Results DEF ResultsAreTrue
  <2> QED
    BY <1>0, <1>4, <2>1, <2>2, <2>3
<1>6. CASE result'[r] \in Values
  <2> DEFINE names == {UuidOf[r]}
             answer == [n \in names |-> result'[r]]
  <2>1. reported' = reported \cup {<<UuidOf[r], result'[r]>>}
    BY <1>6 DEF Upstream
  <2>2. UNCHANGED Excuses
    BY <1>1, <1>2, <1>6, Results DEF Excuses
  <2>3. ResultsAreTrue'
    BY <1>2, <2>1 DEF ResultsAreTrue
  <2>4. answer \in [names -> Values] /\ reported' = reported \cup {<<n, answer[n]>> : n \in names}
    BY <1>6, <2>1
  <2>5. Service!Report(names)
    BY <1>0, <2>2, <2>4 DEF Service!Report, Seen, Excuses
  <2>6. names \in SUBSET {UuidOf[q] : q \in Valid}
    OBVIOUS
  <2> QED
    BY <1>4, <2>2, <2>3, <2>5, <2>6 DEF Service!Next
<1>7. CASE result'[r] \in Errors
  <2>1. UNCHANGED reported
    BY <1>7, Results DEF Upstream
  <2>2. Excuses' = Excuses \cup {result'[r]}
    BY <1>1, <1>2, <1>7, Results DEF Excuses
  <2>3. ResultsAreTrue'
    BY <1>2, <1>7, <2>1, Results DEF ResultsAreTrue
  <2>4. PICK error \in Errors : error = result'[r]
    BY <1>7
  <2>5. Service!Outage(error)
    BY <1>0, <2>1, <2>2, <2>4 DEF Service!Outage, Seen, Excuses
  <2>6. Service!Next
    BY <2>5 DEF Service!Next
  <2>7. CacheIsTrue'
    BY <1>4, <2>2
  <2> QED
    BY <2>3, <2>6, <2>7
<1> QED
  BY <1>3, <1>5, <1>6, <1>7

LEMMA NextServes ==
  ASSUME CP!Loads, Replied, Replied', CacheIsTrue, ResultsAreTrue, [Next]_vars
  PROVE  CacheIsTrue' /\ ResultsAreTrue' /\ [Service!Next]_Service!serviceVars
<1>s. ASSUME UNCHANGED <<Seen, reported, Excuses>>
      PROVE  [Service!Next]_Service!serviceVars
  BY <1>s DEF Service!serviceVars, Seen, Excuses
<1>t. ASSUME UNCHANGED <<reported, result>>
      PROVE  ResultsAreTrue' /\ UNCHANGED Excuses
  BY <1>t DEF ResultsAreTrue, Excuses
<1>1. ASSUME NEW r \in Valid,
             Start(r) \/ Claim(r) \/ Recheck(r) \/ Follow(r) \/ Return(r) \/ Cancel(r)
      PROVE  CacheIsTrue' /\ ResultsAreTrue' /\ [Service!Next]_Service!serviceVars
  <2>1. CP!TrueStep(r, reported, Excuses) /\ UNCHANGED <<reported, result>>
    BY <1>1, RequestMoves
  <2>2. CacheIsTrue' /\ CP!Moved(r, reported, Excuses)
    BY <2>1, <1>t, Assumptions, CP!StepTrue DEF CacheIsTrue, CP!AllTrue, CP!IsTrue
  <2> QED
    BY <2>1, <2>2, <1>s, <1>t, MovedServes
<1>2. ASSUME NEW r \in Valid, Upstream(r)
      PROVE  CacheIsTrue' /\ ResultsAreTrue' /\ [Service!Next]_Service!serviceVars
  BY <1>2, <1>s, UpstreamServes
<1>3. CASE \/ UNCHANGED vars
           \/ \E r \in Requests : Refuse(r)
           \/ \E u \in Uuids : Expire(u)
  <2>1. /\ \A u \in Uuids : cache'[u] \in {cache[u], "empty"}
        /\ UNCHANGED <<stage, outcome, reported, result>>
    BY <1>3 DEF vars, Refuse, Expire, C!Expire, cacheVars, clientVars
  <2>2. UNCHANGED Seen
    BY <2>1 DEF Seen, Status, C!Busy
  <2>3. CacheIsTrue'
    BY <2>1, <1>t DEF CacheIsTrue, CP!AllTrue, CP!IsTrue
  <2> QED
    BY <2>1, <2>2, <2>3, <1>s, <1>t
<1> QED
  BY <1>1, <1>2, <1>3 DEF Next

LEMMA InitServes == Init => Service!Init /\ CacheIsTrue /\ ResultsAreTrue
<1> SUFFICES ASSUME Init
             PROVE  Service!Init /\ CacheIsTrue /\ ResultsAreTrue
  OBVIOUS
<1>1. Seen = [r \in Valid |-> "idle"] /\ Excuses = {}
  BY Results DEF Init, C!Init, M!Init, Seen, Status, C!Busy, Excuses
<1>2. Service!Init
  BY <1>1 DEF Init, Service!Init, Seen, Excuses
<1>3. CacheIsTrue
  BY DEF Init, C!Init, CacheIsTrue, CP!AllTrue
<1>4. ResultsAreTrue
  BY Results DEF Init, M!Init, ResultsAreTrue
<1> QED
  BY <1>2, <1>3, <1>4

\* A request for a skin ends with what Mojang reported for its own uuid or with
\* an error that a call met, for any requests, uuids, sizes and chunks.
THEOREM ImplementsNameResolutionHolds == Spec => ImplementsNameResolution
<1> DEFINE IInv == CacheIsTrue /\ ResultsAreTrue
<1>1. Init => Service!Init /\ IInv
  BY InitServes
<1>2. CP!Loads /\ Replied /\ Replied' /\ IInv /\ [Next]_vars
        => IInv' /\ [Service!Next]_Service!serviceVars
  BY NextServes
<1> HIDE DEF IInv
<1> QED
  BY <1>1, <1>2, Needed, LoadsHold, ClientHolds, PTL
     DEF Spec, ImplementsNameResolution, Service!Spec

-----------------------------------------------------------------------------
(* The counters.                                                           *)

Missed == {r \in Valid : call[r] # "none"}
Hit == {r \in Valid : call[r] = "none" /\ stage[r] = "done" /\ outcome[r] \in Values}
Started == {r \in Valid : stage[r] # "idle"}

\* Only a request that loads, or has loaded, has called Mojang.
CallersLoad ==
  \A r \in Valid :
    /\ call[r] # "none" => stage[r] \in {"loading", "done", "cancelled"}
    /\ stage[r] = "loading" => call[r] # "none"

Agreed ==
  /\ CallersLoad
  /\ IsFiniteSet(refused)
  /\ requests = misses
  /\ misses = Cardinality(Missed)
  /\ hits = Cardinality(Hit)
  /\ skin_requests = Cardinality(refused) + Cardinality(Started)

LEMMA ValidFinite == IsFiniteSet(Valid)
BY CacheAssumption DEF C!IsFiniteSet, IsFiniteSet

\* A counter follows its set, which nothing but x may enter and nothing leaves.
LEMMA CountFollows ==
  ASSUME NEW S, NEW T, NEW x, IsFiniteSet(S), S \subseteq T, T \subseteq S \cup {x}
  PROVE  Cardinality(T) = IF x \in T \ S THEN Cardinality(S) + 1 ELSE Cardinality(S)
<1>1. CASE x \in T \ S
  <2>1. T = S \cup {x}
    BY <1>1
  <2> QED
    BY <1>1, <2>1, FS_AddElement
<1>2. CASE x \notin T \ S
  <2>1. T = S
    BY <1>2
  <2> QED
    BY <1>2, <2>1
<1> QED
  BY <1>1, <1>2

\* A request moves on, and the counters with it.
LEMMA MoveAgrees ==
  ASSUME Agreed, NEW r \in Valid,
         \A q \in Valid \ {r} :
           call'[q] = call[q] /\ stage'[q] = stage[q] /\ outcome'[q] = outcome[q],
         call[r] # "none" => call'[r] # "none",
         r \in Hit => r \in Hit',
         stage'[r] # "idle",
         call'[r] # "none" => stage'[r] \in {"loading", "done", "cancelled"},
         stage'[r] = "loading" => call'[r] # "none",
         requests' = requests + (IF r \in Missed' \ Missed THEN 1 ELSE 0),
         misses' = misses + (IF r \in Missed' \ Missed THEN 1 ELSE 0),
         hits' = hits + (IF r \in Hit' \ Hit THEN 1 ELSE 0),
         skin_requests' = skin_requests + (IF r \in Started THEN 0 ELSE 1),
         UNCHANGED refused
  PROVE  Agreed'
<1>1. CallersLoad'
  BY DEF Agreed, CallersLoad
<1>2. /\ IsFiniteSet(Missed) /\ IsFiniteSet(Hit) /\ IsFiniteSet(Started)
      /\ Cardinality(Missed) \in Nat /\ Cardinality(Hit) \in Nat
      /\ Cardinality(Started) \in Nat /\ Cardinality(refused) \in Nat
  BY ValidFinite, FS_Subset, FS_CardinalityType DEF Missed, Hit, Started, Agreed
<1>3. misses' = Cardinality(Missed')
  <2>1. Missed \subseteq Missed' /\ Missed' \subseteq Missed \cup {r}
    BY DEF Missed
  <2> QED
    BY <1>2, <2>1, CountFollows DEF Agreed
<1>4. hits' = Cardinality(Hit')
  <2>1. Hit \subseteq Hit' /\ Hit' \subseteq Hit \cup {r}
    BY DEF Hit
  <2> QED
    BY <1>2, <2>1, CountFollows DEF Agreed
<1>5. skin_requests' = Cardinality(refused') + Cardinality(Started')
  <2>1. Started \subseteq Started' /\ Started' \subseteq Started \cup {r} /\ r \in Started'
    BY DEF Started
  <2>2. Cardinality(Started') = IF r \in Started THEN Cardinality(Started)
                                ELSE Cardinality(Started) + 1
    BY <1>2, <2>1, CountFollows
  <2> QED
    BY <1>2, <2>2 DEF Agreed
<1> QED
  BY <1>1, <1>3, <1>4, <1>5 DEF Agreed

\* A step that none of it can see.
LEMMA StillAgrees ==
  ASSUME Agreed,
         \A r \in Valid : (call[r] # "none") = (call'[r] # "none"),
         UNCHANGED <<stage, outcome, refused, requests, skin_requests, hits, misses>>
  PROVE  Agreed'
<1>1. Missed' = Missed /\ Hit' = Hit /\ Started' = Started
  BY DEF Missed, Hit, Started
<1> QED
  BY <1>1 DEF Agreed, CallersLoad

\* A poll of the cache that makes no call: it counts a hit when it returns a
\* value.
LEMMA PollAgrees ==
  ASSUME Agreed, CP!Loads, NEW r \in Valid,
         \/ C!Get(r) /\ skin_requests' = skin_requests + 1
         \/ /\ \/ C!Claim(r) \/ C!Follow(r)
               \/ C!Recheck(r) /\ stage'[r] # "loading"
            /\ UNCHANGED skin_requests,
         \/ CountHit(r)
         \/ C!Claim(r) /\ UNCHANGED hits,
         UNCHANGED <<clientVars, misses, refused>>
  PROVE  Agreed'
<1>1. /\ cache \in [Uuids -> Values \cup {"empty"}]
      /\ stage \in [Valid -> CP!Stages]
      /\ leader \in [Valid -> Valid \cup {"nobody"}]
      /\ outcome \in [Valid -> Values \cup Errors \cup {"none"}]
      /\ loaded \in [Valid -> BOOLEAN]
  BY DEF CP!Loads, CP!CacheTypeOK
<1>2. \A q \in Valid \ {r} : stage'[q] = stage[q] /\ outcome'[q] = outcome[q]
  BY <1>1 DEF C!Get, C!Claim, C!Recheck, C!Follow, C!Finish
<1>3. /\ stage[r] \in {"idle", "claiming", "rechecking", "following"}
      /\ stage'[r] \notin {"idle", "loading"}
      /\ stage'[r] = "done" => ~loaded'[r]
      /\ stage[r] = "idle" <=> C!Get(r)
  BY <1>1 DEF C!Get, C!Claim, C!Recheck, C!Follow, C!Finish
<1>4. call[r] = "none" /\ call' = call /\ requests' = requests
  BY <1>3 DEF Agreed, CallersLoad, clientVars
<1>5. hits \in Nat /\ misses \in Nat /\ requests \in Nat /\ skin_requests \in Nat
  BY ValidFinite, FS_Subset, FS_CardinalityType DEF Agreed, Missed, Hit, Started
<1>6. hits' = hits + (IF r \in Hit' \ Hit THEN 1 ELSE 0)
  <2>1. r \notin Hit
    BY <1>3 DEF Hit
  <2>2. r \in Hit' <=> stage'[r] = "done" /\ outcome'[r] \in Values
    BY <1>4 DEF Hit
  <2>3. CASE CountHit(r)
    BY <1>3, <1>5, <2>1, <2>2, <2>3 DEF CountHit
  <2>4. CASE C!Claim(r) /\ UNCHANGED hits
    <3>1. stage'[r] # "done"
      BY <1>1, <2>4 DEF C!Claim
    <3> QED
      BY <1>5, <2>2, <2>4, <3>1
  <2> QED
    BY <2>3, <2>4
<1>7. r \notin Missed' /\ r \notin Hit
  BY <1>3, <1>4 DEF Missed, Hit
<1>8. skin_requests' = skin_requests + (IF r \in Started THEN 0 ELSE 1)
  <2>1. r \in Started <=> ~C!Get(r)
    BY <1>3 DEF Started
  <2>2. C!Get(r) \/ UNCHANGED skin_requests
    OBVIOUS
  <2>3. ~(C!Get(r) /\ (C!Claim(r) \/ C!Recheck(r) \/ C!Follow(r)))
    BY DEF C!Get, C!Claim, C!Recheck, C!Follow
  <2> QED
    BY <1>5, <2>1, <2>2, <2>3
<1> QED
  BY <1>2, <1>3, <1>4, <1>5, <1>6, <1>7, <1>8, MoveAgrees

LEMMA NextAgrees ==
  ASSUME Agreed, CP!Loads, Replied, [Next]_vars
  PROVE  Agreed'
<1>0. /\ stage \in [Valid -> CP!Stages]
      /\ outcome \in [Valid -> Values \cup Errors \cup {"none"}]
      /\ loaded \in [Valid -> BOOLEAN]
      /\ DOMAIN call = Valid
      /\ hits \in Nat /\ misses \in Nat /\ requests \in Nat /\ skin_requests \in Nat
  BY ValidFinite, FS_Subset, FS_CardinalityType
     DEF CP!Loads, CP!CacheTypeOK, Replied, Agreed, Missed, Hit, Started
<1>1. ASSUME NEW r \in Valid,
             \/ Start(r) \/ Claim(r) \/ Follow(r)
             \/ Recheck(r) /\ stage'[r] # "loading"
      PROVE  Agreed'
  <2>1. CASE Start(r)
    BY <2>1, PollAgrees DEF Start
  <2>2. CASE Claim(r)
    BY <2>2, PollAgrees DEF Claim, metrics
  <2>3. CASE Follow(r)
    BY <2>3, PollAgrees DEF Follow
  <2>4. CASE Recheck(r) /\ stage'[r] # "loading"
    BY <2>4, PollAgrees DEF Recheck
  <2> QED
    BY <1>1, <2>1, <2>2, <2>3, <2>4
<1>2. ASSUME NEW r \in Valid, Recheck(r), stage'[r] = "loading"
      PROVE  Agreed'
  <2>1. /\ stage[r] = "rechecking"
        /\ stage' = [stage EXCEPT ![r] = "loading"] /\ UNCHANGED outcome
    BY <1>0, <1>2 DEF Recheck, C!Recheck, C!Finish
  <2>2. /\ call[r] = "none" /\ call' = [call EXCEPT ![r] = "sending"]
        /\ requests' = requests + 1 /\ misses' = misses + 1
        /\ UNCHANGED <<skin_requests, refused>>
    BY <1>2 DEF Recheck, M!Begin
  <2>3. UNCHANGED hits
    BY <1>2 DEF Recheck, CountHit
  <2>4. r \in Missed' /\ r \notin Missed /\ r \notin Hit /\ r \notin Hit' /\ r \in Started
    BY <1>0, <2>1, <2>2 DEF Missed, Hit, Started
  <2> QED
    BY <1>0, <2>1, <2>2, <2>3, <2>4, MoveAgrees
<1>3. ASSUME NEW r \in Valid, Upstream(r)
      PROVE  Agreed'
  <2>1. /\ r \in M!Active
        /\ \/ \E next \in {"reading", "returned"} : call' = [call EXCEPT ![r] = next]
           \/ UNCHANGED call
        /\ UNCHANGED requests
    BY <1>3 DEF Upstream, M!Progress, M!Break, M!ReceiveHead, M!Chunk, M!End, M!Fail,
                M!Return, M!Leave, M!Active
  <2>2. \A q \in Valid : (call[q] # "none") = (call'[q] # "none")
    BY <1>0, <2>1 DEF M!Active
  <2> QED
    BY <1>3, <2>1, <2>2, StillAgrees DEF Upstream, cacheVars, metrics
<1>4. ASSUME NEW r \in Valid, Return(r)
      PROVE  Agreed'
  <2>1. /\ stage[r] = "loading" /\ stage' = [stage EXCEPT ![r] = "done"]
        /\ outcome' = [outcome EXCEPT ![r] = result[r]]
        /\ outcome'[r] \in Values => loaded'[r]
    BY <1>0, <1>4, Results DEF Return, C!Loaded, C!LoadFailed, C!Finish
  <2>2. call[r] # "none"
    BY <2>1 DEF Agreed, CallersLoad
  <2>3. UNCHANGED <<call, requests, misses, hits, skin_requests, refused>>
    BY <1>4, <2>1 DEF Return, CountHit, clientVars
  <2>4. r \in Missed /\ r \notin Hit /\ r \notin Hit' /\ r \in Started
    BY <2>1, <2>2, <2>3 DEF Missed, Hit, Started
  <2> QED
    BY <1>0, <2>1, <2>2, <2>3, <2>4, MoveAgrees
<1>5. ASSUME NEW r \in Valid, Cancel(r)
      PROVE  Agreed'
  <2>1. /\ stage[r] \notin {"idle", "done", "cancelled"}
        /\ stage' = [stage EXCEPT ![r] = "cancelled"] /\ UNCHANGED outcome
        /\ UNCHANGED <<requests, misses, hits, skin_requests, refused>>
    BY <1>5 DEF Cancel, C!Cancel, C!Busy, M!Drop, clientVars, metrics
  <2>2. \/ r \in M!Active /\ call' = [call EXCEPT ![r] = "dropped"]
        \/ UNCHANGED call
    BY <1>5 DEF Cancel, M!Drop, M!Leave, clientVars
  <2>3. /\ r \in Missed <=> r \in Missed'
        /\ r \notin Hit /\ r \notin Hit' /\ r \in Started
        /\ \A q \in Valid \ {r} : call'[q] = call[q]
        /\ call[r] # "none" => call'[r] # "none"
    BY <1>0, <2>1, <2>2 DEF Missed, Hit, Started, M!Active
  <2> QED
    BY <1>0, <2>1, <2>3, MoveAgrees
<1>6. ASSUME NEW r \in Requests, Refuse(r)
      PROVE  Agreed'
  <2>1. /\ IsFiniteSet(refused') /\ Cardinality(refused') = Cardinality(refused) + 1
        /\ Cardinality(refused) \in Nat
    BY <1>6, FS_AddElement, FS_CardinalityType DEF Refuse, Agreed
  <2>2. Missed' = Missed /\ Hit' = Hit /\ Started' = Started /\ CallersLoad'
    BY <1>6 DEF Refuse, cacheVars, clientVars, Missed, Hit, Started, Agreed, CallersLoad
  <2>3. Cardinality(Started) \in Nat
    BY ValidFinite, FS_Subset, FS_CardinalityType DEF Started
  <2> QED
    BY <1>6, <2>1, <2>2, <2>3 DEF Refuse, clientVars, Agreed
<1>7. CASE UNCHANGED vars \/ \E u \in Uuids : Expire(u)
  BY <1>7, StillAgrees DEF vars, Expire, C!Expire, cacheVars, clientVars, metrics
<1> QED
  BY <1>1, <1>2, <1>3, <1>4, <1>5, <1>6, <1>7 DEF Next

LEMMA InitAgrees == Init => Agreed
<1> SUFFICES ASSUME Init
             PROVE  Agreed
  OBVIOUS
<1>1. Missed = {} /\ Hit = {} /\ Started = {} /\ refused = {}
  BY DEF Init, C!Init, M!Init, Missed, Hit, Started
<1>2. Cardinality({}) = 0 /\ IsFiniteSet({})
  BY FS_EmptySet
<1>3. CallersLoad
  BY DEF Init, C!Init, M!Init, CallersLoad
<1> QED
  BY <1>1, <1>2, <1>3 DEF Init, M!Init, Agreed

\* For any requests and however they end: each is a refusal, a hit, a miss with
\* its one call to Mojang, or one of those that are neither, and is counted so.
THEOREM MetricsAgreeHolds == Spec => []MetricsAgree
<1>1. Agreed /\ CP!Loads /\ CacheIsTrue => MetricsAgree
  <2> SUFFICES ASSUME Agreed, CP!Loads, CacheIsTrue
               PROVE  MetricsAgree
    OBVIOUS
  <2>1. /\ stage \in [Valid -> CP!Stages]
        /\ outcome \in [Valid -> Values \cup Errors \cup {"none"}]
        /\ \A r \in Valid : stage[r] = "done" => outcome[r] \in Values \cup Errors
    BY DEF CP!Loads, CP!CacheTypeOK, CacheIsTrue, CP!AllTrue, CP!IsTrue, Excuses
  <2>2. Started = Missed \cup Hit \cup Uncounted
    BY <2>1, Results DEF Agreed, CallersLoad, Started, Missed, Hit, Uncounted, CP!Stages
  <2>3. /\ Missed \cap Hit = {}
        /\ (Missed \cup Hit) \cap Uncounted = {}
    BY Results DEF Missed, Hit, Uncounted
  <2>4. IsFiniteSet(Missed) /\ IsFiniteSet(Hit) /\ IsFiniteSet(Uncounted)
    BY ValidFinite, FS_Subset DEF Missed, Hit, Uncounted
  <2>5. /\ Cardinality({}) = 0
        /\ Cardinality(Missed) \in Nat /\ Cardinality(Hit) \in Nat
        /\ Cardinality(Uncounted) \in Nat
    BY <2>4, FS_EmptySet, FS_CardinalityType
  <2>6. Cardinality(Missed \cup Hit) = Cardinality(Missed) + Cardinality(Hit)
        /\ IsFiniteSet(Missed \cup Hit)
    BY <2>3, <2>4, <2>5, FS_Union
  <2>7. Cardinality(Started) = Cardinality(Missed) + Cardinality(Hit) + Cardinality(Uncounted)
    <3>1. Cardinality(Started)
            = Cardinality(Missed \cup Hit) + Cardinality(Uncounted) - Cardinality({})
      BY <2>2, <2>3, <2>4, <2>6, FS_Union
    <3> QED
      BY <3>1, <2>6, <2>5
  <2>8. /\ Cardinality(Missed) \in Nat /\ Cardinality(Hit) \in Nat
        /\ Cardinality(Uncounted) \in Nat /\ Cardinality(refused) \in Nat
    BY <2>4, FS_CardinalityType DEF Agreed
  <2>9. Cardinality(refused) + Cardinality(Started)
          = Cardinality(refused) + Cardinality(Hit) + Cardinality(Missed)
              + Cardinality(Uncounted)
    BY <2>7, <2>8
  <2> QED
    BY <2>9 DEF Agreed, MetricsAgree
<1>2. Spec => []CacheIsTrue
  <2>1. Init => CacheIsTrue /\ ResultsAreTrue
    BY InitServes
  <2>2. CP!Loads /\ Replied /\ Replied' /\ CacheIsTrue /\ ResultsAreTrue /\ [Next]_vars
          => CacheIsTrue' /\ ResultsAreTrue'
    BY NextServes
  <2> QED
    BY <2>1, <2>2, Needed, LoadsHold, ClientHolds, PTL DEF Spec
<1> QED
  BY <1>1, <1>2, InitAgrees, NextAgrees, Needed, LoadsHold, ClientHolds, PTL DEF Spec
=============================================================================
