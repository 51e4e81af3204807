-------------------------- MODULE UuidLookup_proofs --------------------------
(***************************************************************************)
(* Proofs about UuidLookup.  Every step of it is a step of the cache and a *)
(* step of the batch processor, or leaves them alone; hence what is proved *)
(* of the two holds of them here, and carries the invariants that relate   *)
(* them.                                                                   *)
(***************************************************************************)
EXTENDS UuidLookup, FiniteSetTheorems, TLAPS

\* The cache, without its times, and the processor, with their theorems.
CP == INSTANCE CacheLifetime_proofs WITH
       Callers <- Valid, Keys <- Names, KeyOf <- NameOf,
       PositiveTTL <- 1, NegativeTTL <- 1, MaxTime <- 0,
       clock <- 0, due <- 0, ended <- 0, cleared <- {}, gone <- {}

BP == INSTANCE BatchProcessor_proofs WITH Lookups <- Valid, Errors <- MojangErrors

-----------------------------------------------------------------------------
(* The components are those of the proofs.                                 *)

LEMMA CacheActions ==
  ASSUME NEW r \in Valid
  PROVE  /\ C!Get(r) => CP!Get(r)
         /\ C!Claim(r) => CP!Claim(r)
         /\ C!Recheck(r) => CP!Recheck(r)
         /\ C!Follow(r) => CP!Follow(r)
         /\ C!Cancel(r) => CP!Cancel(r)
         /\ \A value \in Values : C!Loaded(r, value) => CP!Loaded(r, value)
         /\ \A error \in Errors : C!LoadFailed(r, error) => CP!LoadFailed(r, error)
BY DEF C!Get, CP!Get, C!Claim, CP!Claim, C!Recheck, CP!Recheck, C!Loaded, CP!Loaded,
       C!LoadFailed, CP!LoadFailed, C!Follow, CP!Follow, C!Cancel, CP!Cancel,
       C!Finish, CP!Finish, C!Withdraw, CP!Withdraw, C!Busy, CP!Busy, C!Leading, CP!Leading

LEMMA SameCache ==
  /\ C!Init => CP!Init
  /\ [C!Next]_C!cacheVars => [CP!Next]_CP!cacheVars
<1>1. C!Init => CP!Init
  BY DEF C!Init, CP!Init
<1>2. UNCHANGED C!cacheVars => UNCHANGED CP!cacheVars
  BY DEF C!cacheVars, CP!cacheVars
<1>3. C!Next => CP!Next
  BY CacheActions DEF C!Next, CP!Next, C!Expire, CP!Expire
<1> QED
  BY <1>1, <1>2, <1>3

LEMMA SameProcessor ==
  /\ B!Init => BP!Init
  /\ [B!Next]_B!vars => [BP!Next]_BP!vars
<1>1. B!Init => BP!Init
  BY DEF B!Init, BP!Init
<1>2. UNCHANGED B!vars => UNCHANGED BP!vars
  BY DEF B!vars, BP!vars
<1>3. B!Next => BP!Next
  BY DEF B!Next, BP!Next, B!Callers, BP!Callers, B!Loop, BP!Loop, B!Task, BP!Task,
         B!Upstream, BP!Upstream, B!Send, BP!Send, B!SendRefused, BP!SendRefused,
         B!Abandon, BP!Abandon, B!Accepting, BP!Accepting, B!Receive, BP!Receive,
         B!Collect, BP!Collect, B!Tick, BP!Tick, B!Close, BP!Close, B!Drained, BP!Drained,
         B!Spawn, BP!Spawn, B!Stop, BP!Stop, B!Tasks, BP!Tasks, B!EndTask, BP!EndTask,
         B!Dropped, BP!Dropped, B!Answered, BP!Answered, B!Awaited, BP!Awaited,
         B!ProcessBatch, BP!ProcessBatch, B!Profiles, BP!Profiles, B!NamesIn, BP!NamesIn,
         B!UuidIn, BP!UuidIn, B!Resolve, BP!Resolve, B!Reject, BP!Reject,
         B!Panic, BP!Panic, B!Cancel, BP!Cancel, B!Shutdown, BP!Shutdown,
         B!Abort, BP!Abort, B!Backlog, BP!Backlog, B!Range, BP!Range,
         B!Cardinality, BP!Cardinality
<1> QED
  BY <1>1, <1>2, <1>3

-----------------------------------------------------------------------------
(* Every step is one of theirs.                                            *)

LEMMA CacheStep == [Next]_vars => [C!Next]_C!cacheVars
<1> SUFFICES ASSUME [Next]_vars
             PROVE  C!Next \/ UNCHANGED cacheVars
  BY DEF C!cacheVars, cacheVars
<1>1. ASSUME NEW r \in Valid, Start(r)
      PROVE  C!Next
  BY <1>1 DEF Start, C!Next
<1>2. ASSUME NEW r \in Valid, Poll(r)
      PROVE  C!Next \/ UNCHANGED cacheVars
  <2>1. Values = Uuids \cup {"absent"} /\ Errors = MojangErrors \cup {"transport"}
    BY DEF Values, Errors
  <2>2. ASSUME Receive(r)
        PROVE  C!Next
    BY <2>1, <2>2 DEF Receive, C!Next
  <2>3. ASSUME SendRefused(r)
        PROVE  C!Next
    BY <2>1, <2>3 DEF SendRefused, C!Next
  <2> QED
    BY <1>2, <2>2, <2>3 DEF Poll, Claim, Recheck, Send, Follow, C!Next
<1>3. ASSUME NEW r \in Valid, Cancel(r)
      PROVE  C!Next
  BY <1>3 DEF Cancel, C!Next
<1>4. ASSUME NEW n \in Names, Expire(n)
      PROVE  C!Next
  BY <1>4 DEF Expire, C!Next
<1>5. CASE UNCHANGED vars \/ Processor \/ \E r \in Requests : Refuse(r)
  BY <1>5 DEF vars, Processor, Other, ProcessBatch, Upstream, Resolve, Reject, Refuse
<1> QED
  BY <1>1, <1>2, <1>3, <1>4, <1>5 DEF Next

LEMMA ProcessorStep == [Next]_vars => [B!Next]_B!vars
<1> SUFFICES ASSUME [Next]_vars
             PROVE  B!Next \/ UNCHANGED batchVars
  BY DEF B!vars, batchVars
<1>1. ASSUME NEW r \in Valid, Start(r) \/ Poll(r) \/ Cancel(r)
      PROVE  B!Next \/ UNCHANGED batchVars
  BY <1>1 DEF Start, Poll, Claim, Recheck, Send, SendRefused, Receive, Follow, Cancel,
              B!Next, B!Callers
<1>2. CASE Other
  BY <1>2 DEF Other, B!Next
<1>3. ASSUME NEW b \in ready, ProcessBatch(b)
      PROVE  B!Next
  BY <1>3 DEF ProcessBatch, B!Next, B!Task
<1>4. CASE Upstream
  BY <1>4 DEF Upstream, Resolve, Reject, B!Next, B!Task, B!Upstream
<1>5. CASE \/ UNCHANGED vars
           \/ \E r \in Requests : Refuse(r)
           \/ \E n \in Names : Expire(n)
  BY <1>5 DEF vars, Refuse, Expire
<1> QED
  BY <1>1, <1>2, <1>3, <1>4, <1>5 DEF Next, Processor

\* The lookups use the cache by its own steps only: each run of the whole is a
\* run of CoalescingCache.
THEOREM ImplementsCache == Spec => C!Spec
<1>1. Init => C!Init
  BY DEF Init
<1> QED
  BY <1>1, CacheStep, PTL DEF Spec, C!Spec

\* And a run of BatchProcessor, whose callers are the lookups.
THEOREM ImplementsProcessor == Spec => B!Spec
<1>1. Init => B!Init
  BY DEF Init
<1> QED
  BY <1>1, ProcessorStep, PTL DEF Spec, B!Spec

-----------------------------------------------------------------------------
(* What the components promise holds of them here.                         *)

\* The waiter of a name is that of the lookup that leads for it, and followers
\* follow lookups of their own name.
Coalesced ==
  /\ stage \in [Valid -> C!Stages]
  /\ cache \in [Names -> Values \cup {"empty"}]
  /\ outcome \in [Valid -> Values \cup Errors \cup {"none"}]
  /\ \A r \in Valid : stage[r] = "following" =>
       leader[r] \in Valid /\ NameOf[leader[r]] = NameOf[r]
  /\ \A r \in Valid : stage[r] = "loading" => waiter[NameOf[r]] = r

LEMMA CacheAssumptions == CP!CallerAssumption /\ CP!ResultAssumption /\ CP!LifetimeAssumption
BY CacheAssumption DEF C!IsFiniteSet, CP!IsFiniteSet, Values

LEMMA LoadsHold == Spec => []CP!Loads
<1>1. CP!Spec => []CP!Loads
  BY CacheAssumptions, CP!InitLoads, CP!NextLoads, PTL DEF CP!Spec
<1>2. Spec => CP!Spec
  BY ImplementsCache, SameCache, PTL DEF C!Spec, CP!Spec
<1> QED
  BY <1>1, <1>2, PTL

LEMMA CacheHolds == Spec => []Coalesced
<1>1. CP!Loads => Coalesced
  <2>1. NameOf \in [Valid -> Names]
    BY CacheAssumptions
  <2> QED
    BY <2>1 DEF CP!Loads, CP!CacheTypeOK, CP!WaiterIsLeader, CP!Followed, CP!Leading,
                Coalesced, C!Stages, CP!Stages
<1> QED
  BY <1>1, LoadsHold, PTL

\* The tasks hold lookups, and the oneshots are well formed.
WellFormed ==
  /\ response \in [Valid -> B!Responses]
  /\ ready \subseteq SUBSET Valid /\ calling \subseteq SUBSET Valid

LEMMA ProcessorHolds == Spec => []WellFormed
<1>1. BP!LookupAssumption /\ BP!AnswerAssumption /\ BP!ConfigAssumption
  BY ProcessorAssumption DEF B!Unanswered, BP!Unanswered, B!Values, BP!Values
<1>2. BP!Spec => []BP!Shape
  BY <1>1, BP!ShapeCorrect
<1>3. Spec => BP!Spec
  BY ImplementsProcessor, SameProcessor, PTL DEF B!Spec, BP!Spec
<1>4. BP!Shape => WellFormed
  BY DEF BP!Shape, WellFormed, B!Responses, BP!Responses, B!Unanswered, BP!Unanswered,
         B!Values, BP!Values
<1> QED
  BY <1>2, <1>3, <1>4, PTL

-----------------------------------------------------------------------------
(* The oneshots and the cache.                                             *)

OpenIsLoading == \A r \in Valid : response[r] = "open" => stage[r] = "loading"

\* The processor opens no oneshot.
LEMMA ProcessorOpensNone ==
  ASSUME WellFormed, Processor, NEW r \in Valid, response'[r] = "open"
  PROVE  response[r] = "open"
<1>1. CASE Other
  <2>1. CASE B!Loop \/ B!Shutdown
    BY <2>1 DEF B!Loop, B!Receive, B!Tick, B!Close, B!Drained, B!Spawn, B!Stop, B!Shutdown
  <2>2. ASSUME NEW S, response' = B!Dropped(S)
        PROVE  response[r] = "open"
    BY <2>2 DEF B!Dropped
  <2> QED
    BY <1>1, <2>1, <2>2 DEF Other, B!Panic, B!Cancel, B!Abort
<1>2. ASSUME NEW b \in ready, ProcessBatch(b)
      PROVE  response[r] = "open"
  BY <1>2 DEF ProcessBatch, B!ProcessBatch
<1>3. ASSUME NEW b, NEW answer, response' = B!Answered(b, answer)
      PROVE  response[r] = "open"
  BY <1>3 DEF B!Answered
<1> QED
  BY <1>1, <1>2, <1>3 DEF Processor, Upstream, Resolve, Reject, B!Resolve, B!Reject

LEMMA NextOpen ==
  ASSUME Coalesced, WellFormed, OpenIsLoading, [Next]_vars
  PROVE  OpenIsLoading'
<1> USE DEF OpenIsLoading, Coalesced, WellFormed
<1>0. "open" \notin B!Values /\ "open" \notin MojangErrors /\ B!Values = Values
  BY ProcessorAssumption DEF B!Unanswered, B!Values, Values
<1>1. ASSUME NEW r \in Valid, Start(r) \/ Claim(r) \/ Recheck(r) \/ Follow(r)
      PROVE  OpenIsLoading'
  BY <1>1 DEF Start, Claim, Recheck, Follow, C!Get, C!Claim, C!Recheck, C!Follow,
              C!Finish, batchVars
<1>2. ASSUME NEW r \in Valid, Send(r)
      PROVE  OpenIsLoading'
  BY <1>2 DEF Send, B!Send, cacheVars
<1>3. ASSUME NEW r \in Valid, SendRefused(r)
      PROVE  OpenIsLoading'
  BY <1>3 DEF SendRefused, B!SendRefused, C!LoadFailed, C!Finish
<1>4. ASSUME NEW r \in Valid, Receive(r)
      PROVE  OpenIsLoading'
  <2>1. response[r] # "open"
    BY <1>0, <1>4 DEF Receive
  <2> QED
    BY <1>4, <2>1 DEF Receive, C!Loaded, C!LoadFailed, C!Finish, batchVars
<1>5. ASSUME NEW r \in Valid, Cancel(r)
      PROVE  OpenIsLoading'
  BY <1>5 DEF Cancel, C!Cancel, B!Abandon, batchVars
<1>6. CASE Processor
  <2>1. UNCHANGED stage
    BY <1>6 DEF Processor, Other, ProcessBatch, Upstream, Resolve, Reject, cacheVars
  <2> QED
    BY <1>6, <2>1, ProcessorOpensNone
<1>7. CASE \/ UNCHANGED vars
           \/ \E r \in Requests : Refuse(r)
           \/ \E n \in Names : Expire(n)
  BY <1>7 DEF vars, Refuse, Expire, C!Expire, cacheVars, batchVars
<1> QED
  BY <1>1, <1>2, <1>3, <1>4, <1>5, <1>6, <1>7 DEF Next, Poll

LEMMA OpenHolds == Spec => []OpenIsLoading
<1>1. Init => OpenIsLoading
  BY DEF Init, B!Init, OpenIsLoading
<1> QED
  BY <1>1, NextOpen, CacheHolds, ProcessorHolds, PTL DEF Spec

\* A lookup that is still awaited belongs to the request that leads for its
\* name, for any number of requests, however they are cancelled.
THEOREM OpenLookupIsLoadingHolds == Spec => []OpenLookupIsLoading
<1>1. OpenIsLoading /\ Coalesced => OpenLookupIsLoading
  BY DEF OpenIsLoading, Coalesced, OpenLookupIsLoading
<1> QED
  BY <1>1, OpenHolds, CacheHolds, PTL

-----------------------------------------------------------------------------
(* The names of a call.                                                    *)

\* A batch task only ever adds the lookups that are still awaited.
LEMMA CallingGrows ==
  ASSUME [Next]_vars, NEW b \in calling'
  PROVE  b \in calling \/ \E c \in ready : b = B!Awaited(c)
<1>1. CASE UNCHANGED calling
  BY <1>1
<1>2. CASE Other
  BY <1>2 DEF Other, B!Loop, B!Receive, B!Tick, B!Close, B!Drained, B!Spawn, B!Stop,
              B!Panic, B!Cancel, B!EndTask, B!Shutdown, B!Abort
<1>3. ASSUME NEW c \in ready, ProcessBatch(c)
      PROVE  b \in calling \/ b = B!Awaited(c)
  BY <1>3 DEF ProcessBatch, B!ProcessBatch, B!EndTask
<1>4. CASE Upstream
  BY <1>4 DEF Upstream, Resolve, Reject, B!Resolve, B!Reject, B!EndTask
<1>5. CASE UNCHANGED batchVars
  BY <1>5 DEF batchVars
<1>6. ASSUME NEW r \in Valid, Start(r) \/ Poll(r) \/ Cancel(r)
      PROVE  UNCHANGED calling
  BY <1>6 DEF Start, Poll, Claim, Recheck, Send, SendRefused, Receive, Follow, Cancel,
              B!Send, B!SendRefused, B!Abandon, batchVars
<1> QED
  BY <1>1, <1>2, <1>3, <1>4, <1>5, <1>6 DEF Next, Processor, Refuse, Expire, vars, batchVars

LEMMA NextNames ==
  ASSUME Coalesced, WellFormed, OpenIsLoading, NoDuplicateNameInCall, [Next]_vars
  PROVE  NoDuplicateNameInCall'
<1> SUFFICES ASSUME NEW b \in calling', NEW r \in b, NEW q \in b, r # q
             PROVE  NameOf[r] # NameOf[q]
  BY DEF NoDuplicateNameInCall
<1>1. CASE b \in calling
  BY <1>1 DEF NoDuplicateNameInCall
<1>2. ASSUME NEW c \in ready, b = B!Awaited(c)
      PROVE  NameOf[r] # NameOf[q]
  <2>1. r \in Valid /\ q \in Valid /\ response[r] = "open" /\ response[q] = "open"
    BY <1>2 DEF B!Awaited, WellFormed
  <2>2. waiter[NameOf[r]] = r /\ waiter[NameOf[q]] = q
    BY <2>1 DEF OpenIsLoading, Coalesced
  <2> QED
    BY <2>2
<1> QED
  BY <1>1, <1>2, CallingGrows

\* No call to Mojang carries a name twice, for any number of requests and names
\* and any limits.
THEOREM NoDuplicateNameInCallHolds == Spec => []NoDuplicateNameInCall
<1>1. Init => NoDuplicateNameInCall
  BY DEF Init, B!Init, NoDuplicateNameInCall
<1> QED
  BY <1>1, NextNames, CacheHolds, ProcessorHolds, OpenHolds, PTL DEF Spec

-----------------------------------------------------------------------------
(* The abstract name resolution.                                           *)

\* The errors that have occurred, as Service sees them.
Excuses == outages \cup (IF shutdown \/ panicked THEN {"transport"} ELSE {})

\* Nothing is cached or returned that Mojang did not say of the name, or that is
\* no such error.
True(r, result) == CP!IsTrue(r, result, reported, Excuses)
CacheIsTrue == CP!AllTrue(reported, Excuses)

\* No oneshot carries anything else, or is lost or refused without a reason.
OneshotsAreTrue ==
  /\ loop = "select" \/ shutdown
  /\ \A r \in Valid :
       /\ response[r] \in Values \cup MojangErrors => True(r, response[r])
       /\ response[r] = "lost" => shutdown \/ panicked

LEMMA Results ==
  /\ "empty" \notin Values /\ "none" \notin Values \cup Errors
  /\ Values \cap Errors = {}
  /\ NameOf \in [Valid -> Names]
BY CacheAssumption

-----------------------------------------------------------------------------
(* Every step keeps what is cached, returned or answered true.             *)

\* What has been said and what has gone wrong is never taken back.
LEMMA HistoryGrows ==
  ASSUME [Next]_vars
  PROVE  /\ reported \subseteq reported' /\ Excuses \subseteq Excuses'
         /\ shutdown => shutdown'
         /\ panicked => panicked'
<1>1. ASSUME NEW r \in Valid, Start(r) \/ Poll(r) \/ Cancel(r)
      PROVE  UNCHANGED <<reported, outages, shutdown, panicked>>
  BY <1>1 DEF Start, Poll, Claim, Recheck, Send, SendRefused, Receive, Follow, Cancel,
              B!Send, B!SendRefused, B!Abandon, batchVars, history
<1>2. CASE Other
  <2>1. UNCHANGED <<reported, outages>>
    BY <1>2 DEF Other, history
  <2>2. /\ shutdown => shutdown'
        /\ panicked => panicked'
    BY <1>2 DEF Other, B!Loop, B!Receive, B!Tick, B!Close, B!Drained, B!Spawn, B!Stop,
                B!Panic, B!Cancel, B!Shutdown, B!Abort
  <2> QED
    BY <2>1, <2>2 DEF Excuses
<1>3. ASSUME NEW b \in ready, ProcessBatch(b)
      PROVE  UNCHANGED <<reported, outages, shutdown, panicked>>
  BY <1>3 DEF ProcessBatch, B!ProcessBatch
<1>4. CASE Upstream
  <2>1. UNCHANGED <<shutdown, panicked>> /\ reported \subseteq reported' /\ outages \subseteq outages'
    BY <1>4 DEF Upstream, Resolve, Reject, B!Resolve, B!Reject
  <2> QED
    BY <2>1 DEF Excuses
<1>5. ASSUME \/ UNCHANGED vars
             \/ \E r \in Requests : Refuse(r)
             \/ \E n \in Names : Expire(n)
      PROVE  UNCHANGED <<reported, outages, shutdown, panicked>>
  BY <1>5 DEF vars, Refuse, Expire, batchVars, history
<1>6. (UNCHANGED <<reported, outages, shutdown, panicked>>) => (UNCHANGED <<reported, Excuses>>)
  BY DEF Excuses
<1> QED
  BY <1>1, <1>2, <1>3, <1>4, <1>5, <1>6 DEF Next, Processor

\* The loop leaves its select for the shutdown only.
LEMMA NextLoop ==
  ASSUME loop = "select" \/ shutdown, [Next]_vars
  PROVE  (loop = "select" \/ shutdown)'
<1>1. CASE UNCHANGED loop
  BY <1>1, HistoryGrows
<1>2. CASE Other
  BY <1>2, HistoryGrows DEF Other, B!Loop, B!Receive, B!Tick, B!Close, B!Drained, B!Spawn,
              B!Stop, B!Panic, B!Cancel, B!Shutdown, B!Abort
<1>3. ASSUME NEW r \in Valid, Start(r) \/ Poll(r) \/ Cancel(r)
      PROVE  UNCHANGED loop
  BY <1>3 DEF Start, Poll, Claim, Recheck, Send, SendRefused, Receive, Follow, Cancel,
              B!Send, B!SendRefused, B!Abandon, batchVars
<1>4. ASSUME NEW b \in ready, ProcessBatch(b)
      PROVE  UNCHANGED loop
  BY <1>4 DEF ProcessBatch, B!ProcessBatch
<1>5. CASE Upstream
  BY <1>1, <1>5 DEF Upstream, Resolve, Reject, B!Resolve, B!Reject
<1> QED
  BY <1>1, <1>2, <1>3, <1>4, <1>5 DEF Next, Processor, Refuse, Expire, vars, batchVars

LEMMA NextOneshots ==
  ASSUME WellFormed, OneshotsAreTrue, [Next]_vars
  PROVE  OneshotsAreTrue'
<1> DEFINE Told(r, result) ==
             \/ result \in Values /\ <<NameOf[r], result>> \in reported'
             \/ result \in Errors /\ result \in Excuses'
           Sound(r) ==
             /\ response'[r] \in Values \cup MojangErrors => Told(r, response'[r])
             /\ response'[r] = "lost" => shutdown' \/ panicked'
<1>0. /\ {"none", "open", "refused", "closed", "lost"} \cap (Values \cup MojangErrors) = {}
      /\ MojangErrors \subseteq Errors
  BY ProcessorAssumption DEF B!AnswerAssumption, B!Unanswered, B!Values, Values, Errors
<1>u. ASSUME NEW r \in Valid, response'[r] = response[r]
      PROVE  Sound(r)
  BY <1>u, HistoryGrows DEF OneshotsAreTrue, True, CP!IsTrue
<1>v. ASSUME NEW r \in Valid, response'[r] \in {"open", "refused", "closed"}
      PROVE  Sound(r)
  BY <1>0, <1>v
<1>w. ASSUME NEW r \in Valid, response'[r] = "lost", shutdown' \/ panicked'
      PROVE  Sound(r)
  BY <1>0, <1>w
<1> SUFFICES ASSUME NEW r \in Valid
             PROVE  Sound(r)
  <2>1. (loop = "select" \/ shutdown)'
    BY NextLoop DEF OneshotsAreTrue
  <2> QED
    BY <2>1 DEF OneshotsAreTrue, True, CP!IsTrue
<1> HIDE DEF Sound
<1>1. ASSUME NEW q \in Valid, Start(q) \/ Poll(q) \/ Cancel(q)
      PROVE  Sound(r)
  <2>1. \/ UNCHANGED response
        \/ \E next \in {"open", "refused", "closed"} : response' = [response EXCEPT ![q] = next]
    BY <1>1 DEF Start, Poll, Claim, Recheck, Send, SendRefused, Receive, Follow, Cancel,
                B!Send, B!SendRefused, B!Abandon, batchVars
  <2>2. response'[r] = response[r] \/ response'[r] \in {"open", "refused", "closed"}
    BY <2>1 DEF WellFormed
  <2> QED
    BY <1>u, <1>v, <2>2
<1>2. CASE Other
  <2>1. CASE B!Loop \/ B!Shutdown
    BY <1>u, <2>1 DEF B!Loop, B!Receive, B!Tick, B!Close, B!Drained, B!Spawn, B!Stop, B!Shutdown
  <2>2. ASSUME NEW S, response' = B!Dropped(S), shutdown' \/ panicked'
        PROVE  Sound(r)
    <3>1. response'[r] = response[r] \/ response'[r] = "lost"
      BY <2>2 DEF B!Dropped
    <3> QED
      BY <1>u, <1>w, <2>2, <3>1
  <2>3. ASSUME NEW b, B!Panic(b)
        PROVE  Sound(r)
    BY <2>2, <2>3 DEF B!Panic
  <2>4. ASSUME NEW b, B!Cancel(b)
        PROVE  Sound(r)
    BY <2>2, <2>4 DEF B!Cancel, OneshotsAreTrue
  <2>5. CASE B!Abort
    BY <2>2, <2>5 DEF B!Abort
  <2> QED
    BY <1>2, <2>1, <2>3, <2>4, <2>5 DEF Other
<1>3. ASSUME NEW b \in ready, ProcessBatch(b)
      PROVE  Sound(r)
  BY <1>3, <1>u DEF ProcessBatch, B!ProcessBatch
<1>4. ASSUME NEW b \in calling, NEW profiles \in B!Profiles(b), Resolve(b, profiles)
      PROVE  Sound(r)
  <2> DEFINE uuid == B!UuidIn(profiles, NameOf[r])
  <2>1. uuid \in Values
    BY <1>4 DEF B!Profiles, B!UuidIn, Values
  <2>2. r \in b => <<NameOf[r], uuid>> \in reported'
    BY <1>4 DEF Resolve, B!NamesIn
  <2>3. response'[r] = response[r] \/ (r \in b /\ response'[r] = uuid)
    BY <1>4 DEF Resolve, B!Resolve, B!Answered
  <2>4. r \in b /\ response'[r] = uuid => Sound(r)
    BY <1>0, <2>1, <2>2 DEF Sound
  <2> QED
    BY <1>u, <2>3, <2>4
<1>5. ASSUME NEW b \in calling, NEW error \in MojangErrors, Reject(b, error)
      PROVE  Sound(r)
  <2>1. error \in Excuses'
    BY <1>5 DEF Reject, Excuses
  <2>2. response'[r] = response[r] \/ response'[r] = error
    BY <1>5 DEF Reject, B!Reject, B!Answered
  <2>3. response'[r] = error => Sound(r)
    BY <1>0, <2>1 DEF Sound
  <2> QED
    BY <1>u, <2>2, <2>3
<1>6. CASE \/ UNCHANGED vars
           \/ \E q \in Requests : Refuse(q)
           \/ \E n \in Names : Expire(n)
  BY <1>6, <1>u DEF vars, Refuse, Expire, batchVars
<1> QED
  BY <1>1, <1>2, <1>3, <1>4, <1>5, <1>6 DEF Next, Processor, Upstream

-----------------------------------------------------------------------------
(* Every step is one of the abstract specification.                        *)

\* A step of a request beyond its send is a true step of the cache.
LEMMA RequestMoves ==
  ASSUME OneshotsAreTrue, NEW r \in Valid, Start(r) \/ Poll(r) \/ Cancel(r)
  PROVE  /\ CP!TrueStep(r, reported, Excuses) \/ UNCHANGED cacheVars
         /\ UNCHANGED <<reported, outages, shutdown, panicked>>
<1>1. UNCHANGED <<reported, outages, shutdown, panicked>>
  BY DEF Start, Poll, Claim, Recheck, Send, SendRefused, Receive, Follow, Cancel,
         B!Send, B!SendRefused, B!Abandon, batchVars, history
<1>2. "lost" \notin Values \cup MojangErrors /\ Values \cap MojangErrors = {}
      /\ MojangErrors \subseteq Errors /\ "transport" \in Errors
  BY ProcessorAssumption DEF B!AnswerAssumption, B!Unanswered, B!Values, Values, Errors
<1>3. CASE Receive(r)
  <2>1. CASE response[r] \in Values /\ C!Loaded(r, response[r])
    <3>1. <<NameOf[r], response[r]>> \in reported
      BY <2>1, Results DEF OneshotsAreTrue, True, CP!IsTrue
    <3> QED
      BY <1>1, <2>1, <3>1, CacheActions DEF CP!TrueStep
  <2>2. CASE response[r] \in MojangErrors /\ C!LoadFailed(r, response[r])
    <3>1. response[r] \in Errors /\ response[r] \in Excuses
      BY <1>2, <2>2, Results DEF OneshotsAreTrue, True, CP!IsTrue
    <3> QED
      BY <1>1, <2>2, <3>1, CacheActions DEF CP!TrueStep
  <2>3. CASE response[r] = "lost" /\ C!LoadFailed(r, "transport")
    <3>1. "transport" \in Excuses
      BY <2>3 DEF OneshotsAreTrue, Excuses
    <3> QED
      BY <1>1, <1>2, <2>3, <3>1, CacheActions DEF CP!TrueStep
  <2> QED
    BY <1>3, <2>1, <2>2, <2>3 DEF Receive
<1>4. CASE SendRefused(r)
  <2>1. shutdown
    BY <1>4 DEF SendRefused, B!SendRefused, B!Accepting, OneshotsAreTrue
  <2>2. "transport" \in Excuses
    BY <2>1 DEF Excuses
  <2> QED
    BY <1>1, <1>2, <1>4, <2>2, CacheActions DEF SendRefused, CP!TrueStep
<1>5. CASE Start(r) \/ Claim(r) \/ Recheck(r) \/ Follow(r) \/ Cancel(r)
  BY <1>1, <1>5, CacheActions DEF Start, Claim, Recheck, Follow, Cancel, CP!TrueStep
<1>6. CASE Send(r)
  BY <1>1, <1>6 DEF Send
<1> QED
  BY <1>3, <1>4, <1>5, <1>6 DEF Poll

Seen == [r \in Valid |-> Status(r)]

\* A move of one request is one of the abstract requests.
LEMMA MovedServes ==
  ASSUME NEW r \in Valid, CP!Moved(r, reported, Excuses),
         UNCHANGED <<reported, outages, shutdown, panicked>>
  PROVE  Service!Next \/ UNCHANGED Seen
<1>1. UNCHANGED Excuses
  BY DEF Excuses
<1>2. \A q \in Valid : Status(q) = CP!Status(q) /\ Status(q)' = CP!Status(q)'
  BY DEF Status, CP!Status, C!Busy, CP!Busy
<1>3. /\ Seen' = [Seen EXCEPT ![r] = Status(r)']
      /\ Seen[r] = Status(r)
  BY <1>2 DEF Seen, CP!Moved
<1>4. CASE Status(r)' = Status(r)
  BY <1>2, <1>4 DEF CP!Moved, Seen
<1>5. CASE Status(r) = "idle" /\ Status(r)' = "waiting"
  <2>1. Service!Ask(r)
    BY <1>1, <1>3, <1>5 DEF Service!Ask, Seen, Excuses
  <2> QED
    BY <2>1 DEF Service!Next
<1>6. CASE /\ Status(r) \in {"idle", "waiting"}
           /\ Status(r)' \in Values /\ <<NameOf[r], Status(r)'>> \in reported
  <2>1. Service!Answer(r, Status(r)')
    BY <1>1, <1>3, <1>6 DEF Service!Answer, Seen, Excuses
  <2> QED
    BY <1>6, <2>1 DEF Service!Next
<1>7. CASE Status(r) = "waiting" /\ Status(r)' \in Errors /\ Status(r)' \in Excuses
  <2>1. Service!Fail(r, Status(r)')
    BY <1>1, <1>3, <1>7 DEF Service!Fail, Seen, Excuses
  <2> QED
    BY <1>7, <2>1 DEF Service!Next
<1>8. CASE Status(r) = "waiting" /\ Status(r)' = "cancelled"
  <2>1. Service!Leave(r)
    BY <1>1, <1>3, <1>8 DEF Service!Leave, Seen, Excuses
  <2> QED
    BY <2>1 DEF Service!Next
<1> QED
  BY <1>2, <1>4, <1>5, <1>6, <1>7, <1>8 DEF CP!Moved

\* What Mojang answers one batch is a value for each of its names.
LEMMA UpstreamServes ==
  ASSUME WellFormed, Upstream
  PROVE  Service!Next
<1>0. UNCHANGED Seen
  BY DEF Upstream, Resolve, Reject, cacheVars, Seen, Status, C!Busy
<1>1. ASSUME NEW b \in calling, NEW profiles \in B!Profiles(b), Resolve(b, profiles)
      PROVE  Service!Next
  <2> DEFINE names == B!NamesIn(b)
             answer == [n \in names |-> B!UuidIn(profiles, n)]
  <2>1. answer \in [names -> Values]
    BY <1>1 DEF B!Profiles, B!UuidIn, Values
  <2>2. reported' = reported \cup {<<n, answer[n]>> : n \in names}
    BY <1>1 DEF Resolve
  <2>3. UNCHANGED Excuses
    BY <1>1 DEF Resolve, B!Resolve, Excuses
  <2>4. Service!Report(names)
    BY <1>0, <2>1, <2>2, <2>3 DEF Service!Report, Seen, Excuses
  <2>5. names \in SUBSET {NameOf[r] : r \in Valid}
    BY DEF B!NamesIn, WellFormed
  <2> QED
    BY <2>4, <2>5 DEF Service!Next
<1>2. ASSUME NEW b \in calling, NEW error \in MojangErrors, Reject(b, error)
      PROVE  Service!Next
  <2>1. Excuses' = Excuses \cup {error} /\ UNCHANGED reported
    BY <1>2 DEF Reject, B!Reject, Excuses
  <2>2. Service!Outage(error)
    BY <1>0, <2>1 DEF Service!Outage, Seen, Excuses
  <2> QED
    BY <2>2 DEF Service!Next, Errors
<1> QED
  BY <1>1, <1>2 DEF Upstream

\* Of its other steps only the shutdown and a panic can be seen.
LEMMA OtherServes ==
  ASSUME Other
  PROVE  [Service!Next]_Service!serviceVars
<1>0. (UNCHANGED Seen) /\ (UNCHANGED <<reported, outages>>)
  BY DEF Other, cacheVars, history, Seen, Status, C!Busy
<1>1. (UNCHANGED <<shutdown, panicked>>) \/ shutdown' = TRUE \/ panicked' = TRUE
  BY DEF Other, B!Loop, B!Receive, B!Tick, B!Close, B!Drained, B!Spawn, B!Stop,
         B!Panic, B!Cancel, B!Shutdown, B!Abort
<1>2. Excuses' = Excuses \/ Excuses' = Excuses \cup {"transport"}
  <2>1. CASE UNCHANGED <<shutdown, panicked>>
    BY <1>0, <2>1 DEF Excuses
  <2>2. CASE shutdown' = TRUE \/ panicked' = TRUE
    <3>1. Excuses' = outages \cup {"transport"}
      BY <1>0, <2>2 DEF Excuses
    <3> QED
      BY <3>1 DEF Excuses
  <2> QED
    BY <1>1, <2>1, <2>2
<1>3. CASE Excuses' = Excuses
  BY <1>0, <1>3 DEF Service!serviceVars, Seen, Excuses
<1>4. CASE Excuses' = Excuses \cup {"transport"}
  <2>1. Service!Outage("transport")
    BY <1>0, <1>4 DEF Service!Outage, Seen, Excuses
  <2> QED
    BY <2>1 DEF Service!Next, Errors
<1> QED
  BY <1>2, <1>3, <1>4

LEMMA NextServes ==
  ASSUME CP!Loads, WellFormed, CacheIsTrue, OneshotsAreTrue, [Next]_vars
  PROVE  CacheIsTrue' /\ [Service!Next]_Service!serviceVars
<1>0. ASSUME UNCHANGED cacheVars
      PROVE  CacheIsTrue' /\ UNCHANGED Seen
  <2>1. UNCHANGED <<cache, stage, outcome>>
    BY <1>0 DEF cacheVars
  <2>2. UNCHANGED Seen
    BY <2>1 DEF Seen, Status, C!Busy
  <2> QED
    BY <2>1, <2>2, HistoryGrows DEF CacheIsTrue, CP!AllTrue, CP!IsTrue
<1>s. ASSUME UNCHANGED Seen, UNCHANGED <<reported, outages, shutdown, panicked>>
      PROVE  [Service!Next]_Service!serviceVars
  BY <1>s DEF Service!serviceVars, Seen
<1>1. ASSUME NEW r \in Valid, Start(r) \/ Poll(r) \/ Cancel(r)
      PROVE  CacheIsTrue' /\ [Service!Next]_Service!serviceVars
  <2>1. /\ CP!TrueStep(r, reported, Excuses) \/ UNCHANGED cacheVars
        /\ UNCHANGED <<reported, outages, shutdown, panicked>>
    BY <1>1, RequestMoves
  <2>2. CASE CP!TrueStep(r, reported, Excuses)
    <3>1. CacheIsTrue' /\ CP!Moved(r, reported, Excuses)
      <4>1. UNCHANGED Excuses
        BY <2>1 DEF Excuses
      <4> QED
        BY <2>1, <2>2, <4>1, CacheAssumptions, CP!StepTrue DEF CacheIsTrue, CP!AllTrue, CP!IsTrue
    <3> QED
      BY <2>1, <3>1, <1>s, MovedServes
  <2> QED
    BY <2>1, <2>2, <1>0, <1>s
<1>2. CASE Other
  <2>1. UNCHANGED cacheVars
    BY <1>2 DEF Other
  <2> QED
    BY <1>2, <2>1, <1>0, OtherServes
<1>3. ASSUME NEW b \in ready, ProcessBatch(b)
      PROVE  CacheIsTrue' /\ [Service!Next]_Service!serviceVars
  <2>1. UNCHANGED <<cacheVars, reported, outages, shutdown, panicked>>
    BY <1>3 DEF ProcessBatch, B!ProcessBatch
  <2> QED
    BY <2>1, <1>0, <1>s
<1>4. CASE Upstream
  <2>1. UNCHANGED cacheVars
    BY <1>4 DEF Upstream, Resolve, Reject
  <2> QED
    BY <1>4, <2>1, <1>0, UpstreamServes
<1>5. ASSUME NEW n \in Names, Expire(n)
      PROVE  CacheIsTrue' /\ [Service!Next]_Service!serviceVars
  <2>1. /\ \A m \in Names : cache'[m] \in {cache[m], "empty"}
        /\ UNCHANGED <<stage, outcome, reported, outages, shutdown, panicked>>
    BY <1>5 DEF Expire, C!Expire, batchVars, history
  <2>2. UNCHANGED Seen
    BY <2>1 DEF Seen, Status, C!Busy
  <2>3. CacheIsTrue'
    BY <2>1, HistoryGrows DEF CacheIsTrue, CP!AllTrue, CP!IsTrue
  <2> QED
    BY <2>1, <2>2, <2>3, <1>s
<1>6. CASE \/ UNCHANGED vars
           \/ \E r \in Requests : Refuse(r)
  <2>1. UNCHANGED <<cacheVars, reported, outages, shutdown, panicked>>
    BY <1>6 DEF vars, Refuse, batchVars, history
  <2> QED
    BY <2>1, <1>0, <1>s
<1> QED
  BY <1>1, <1>2, <1>3, <1>4, <1>5, <1>6 DEF Next, Processor

LEMMA InitServes == Init => Service!Init /\ CacheIsTrue /\ OneshotsAreTrue
<1> SUFFICES ASSUME Init
             PROVE  Service!Init /\ CacheIsTrue /\ OneshotsAreTrue
  OBVIOUS
<1>1. Seen = [r \in Valid |-> "idle"]
  BY DEF Init, C!Init, Seen, Status, C!Busy
<1>2. Service!Init
  BY <1>1 DEF Init, B!Init, Service!Init, Seen
<1>3. CacheIsTrue
  BY DEF Init, C!Init, CacheIsTrue, CP!AllTrue
<1>4. OneshotsAreTrue
  BY ProcessorAssumption DEF Init, B!Init, OneshotsAreTrue, B!AnswerAssumption, B!Unanswered,
                             B!Values, Values
<1> QED
  BY <1>2, <1>3, <1>4

\* Whatever the names, requests, answers and limits are: a request ends with
\* what Mojang reported for its own name or with an error that occurred.
THEOREM ImplementsNameResolutionHolds == Spec => ImplementsNameResolution
<1> DEFINE IInv == CacheIsTrue /\ OneshotsAreTrue
<1>1. Init => Service!Init /\ IInv
  BY InitServes
<1>2. CP!Loads /\ WellFormed /\ IInv /\ [Next]_vars
        => IInv' /\ [Service!Next]_Service!serviceVars
  BY NextServes, NextOneshots
<1> HIDE DEF IInv
<1> QED
  BY <1>1, <1>2, LoadsHold, ProcessorHolds, PTL
     DEF Spec, ImplementsNameResolution, Service!Spec

-----------------------------------------------------------------------------
(* What the calls to Mojang are for.                                       *)

\* The lookups that are in a call, have been in one or are beyond any.
Called ==
  {r \in Valid : \/ response[r] \notin {"none", "open", "refused"}
                 \/ r \in UNION calling}
CalledFor(n) == {r \in Called : NameOf[r] = n}

CallsAreSent == \A b \in calling : \A r \in b : response[r] \notin {"none", "refused"}

LEMMA PlacedHolds == Spec => []BP!OnePlace
<1>1. BP!LookupAssumption /\ BP!AnswerAssumption /\ BP!ConfigAssumption
  BY ProcessorAssumption DEF B!Unanswered, BP!Unanswered, B!Values, BP!Values
<1>2. BP!Spec => []BP!OnePlace
  BY <1>1, BP!OnePlaceHolds
<1>3. Spec => BP!Spec
  BY ImplementsProcessor, SameProcessor, PTL DEF B!Spec, BP!Spec
<1> QED
  BY <1>2, <1>3, PTL

LEMMA Answers ==
  /\ B!Responses = {"none", "open", "refused", "closed", "lost"} \cup Values \cup MojangErrors
  /\ {"none", "open", "refused", "closed", "lost"} \cap (Values \cup MojangErrors) = {}
  /\ Values \cap MojangErrors = {}
BY ProcessorAssumption
   DEF B!AnswerAssumption, B!Unanswered, B!Values, B!Responses, Values

\* The processor answers open oneshots, and touches no others.
LEMMA ProcessorAnswers ==
  ASSUME WellFormed, Processor, NEW r \in Valid
  PROVE  \/ response'[r] = response[r]
         \/ /\ response[r] = "open"
            /\ response'[r] \in Values \cup MojangErrors \cup {"lost"}
<1> DEFINE Moves == \/ response'[r] = response[r]
                    \/ /\ response[r] = "open"
                       /\ response'[r] \in Values \cup MojangErrors \cup {"lost"}
<1>1. CASE Other
  <2>1. CASE B!Loop \/ B!Shutdown
    BY <2>1 DEF B!Loop, B!Receive, B!Tick, B!Close, B!Drained, B!Spawn, B!Stop, B!Shutdown
  <2>2. ASSUME NEW S, response' = B!Dropped(S)
        PROVE  Moves
    BY <2>2 DEF B!Dropped
  <2> QED
    BY <1>1, <2>1, <2>2 DEF Other, B!Panic, B!Cancel, B!Abort
<1>2. ASSUME NEW b \in ready, ProcessBatch(b)
      PROVE  Moves
  BY <1>2 DEF ProcessBatch, B!ProcessBatch
<1>3. ASSUME NEW b \in calling, NEW profiles \in B!Profiles(b), Resolve(b, profiles)
      PROVE  Moves
  <2>1. B!UuidIn(profiles, NameOf[r]) \in Values
    BY <1>3 DEF B!Profiles, B!UuidIn, Values
  <2> QED
    BY <1>3, <2>1 DEF Resolve, B!Resolve, B!Answered
<1>4. ASSUME NEW b \in calling, NEW error \in MojangErrors, Reject(b, error)
      PROVE  Moves
  BY <1>4 DEF Reject, B!Reject, B!Answered
<1> QED
  BY <1>1, <1>2, <1>3, <1>4 DEF Processor, Upstream

\* An oneshot is opened or refused once, and then ended once.
LEMMA OneshotMoves ==
  ASSUME WellFormed, [Next]_vars, NEW r \in Valid
  PROVE  \/ response'[r] = response[r]
         \/ response[r] = "none" /\ response'[r] \in {"open", "refused"}
         \/ /\ response[r] = "open"
            /\ response'[r] \in Values \cup MojangErrors \cup {"lost", "closed"}
<1>1. ASSUME NEW q \in Valid, Start(q) \/ Poll(q) \/ Cancel(q)
      PROVE  \/ UNCHANGED response
             \/ /\ response[q] = "none"
                /\ \E next \in {"open", "refused"} : response' = [response EXCEPT ![q] = next]
             \/ /\ response[q] = "open"
                /\ response' = [response EXCEPT ![q] = "closed"]
  BY <1>1 DEF Start, Poll, Claim, Recheck, Send, SendRefused, Receive, Follow, Cancel,
              B!Send, B!SendRefused, B!Abandon, batchVars
<1>2. CASE \/ UNCHANGED vars
           \/ \E q \in Requests : Refuse(q)
           \/ \E n \in Names : Expire(n)
  BY <1>2 DEF vars, Refuse, Expire, batchVars
<1> QED
  BY <1>1, <1>2, ProcessorAnswers DEF Next, WellFormed

\* A call ends with an answer, or the loss of it, for whoever still waits.
LEMMA CallEnds ==
  ASSUME WellFormed, [Next]_vars, NEW b \in calling, b \notin calling', NEW r \in b
  PROVE  response'[r] # "open"
<1>0. /\ r \in Valid
      /\ "open" \notin Values \cup MojangErrors \cup {"lost"}
  BY Answers DEF WellFormed
<1>1. ASSUME NEW q \in Valid, Start(q) \/ Poll(q) \/ Cancel(q)
      PROVE  FALSE
  BY <1>1 DEF Start, Poll, Claim, Recheck, Send, SendRefused, Receive, Follow, Cancel,
              B!Send, B!SendRefused, B!Abandon, batchVars
<1>2. CASE Other
  <2>1. CASE B!Loop \/ B!Shutdown \/ B!Abort
    BY <2>1 DEF B!Loop, B!Receive, B!Tick, B!Close, B!Drained, B!Spawn, B!Stop,
                B!Shutdown, B!Abort
  <2>2. ASSUME NEW c, B!Panic(c) \/ B!Cancel(c)
        PROVE  response'[r] # "open"
    <3>1. b = c /\ response' = B!Dropped(c)
      BY <2>2 DEF B!Panic, B!Cancel, B!EndTask
    <3> QED
      BY <1>0, <3>1 DEF B!Dropped
  <2> QED
    BY <1>2, <2>1, <2>2 DEF Other
<1>3. ASSUME NEW c \in ready, ProcessBatch(c)
      PROVE  response'[r] # "open"
  <2>1. b = c /\ B!Awaited(c) = {} /\ UNCHANGED response
    BY <1>3 DEF ProcessBatch, B!ProcessBatch, B!EndTask
  <2> QED
    BY <2>1 DEF B!Awaited
<1>4. ASSUME NEW c \in calling, NEW profiles \in B!Profiles(c), Resolve(c, profiles)
      PROVE  response'[r] # "open"
  <2>1. b = c
    BY <1>4 DEF Resolve, B!Resolve, B!EndTask
  <2>2. B!UuidIn(profiles, NameOf[r]) \in Values
    BY <1>4 DEF B!Profiles, B!UuidIn, Values
  <2>3. response'[r] = IF response[r] = "open" THEN B!UuidIn(profiles, NameOf[r])
                       ELSE response[r]
    BY <1>0, <1>4, <2>1 DEF Resolve, B!Resolve, B!Answered
  <2> QED
    BY <1>0, <2>2, <2>3
<1>5. ASSUME NEW c \in calling, NEW error \in MojangErrors, Reject(c, error)
      PROVE  response'[r] # "open"
  <2>1. b = c
    BY <1>5 DEF Reject, B!Reject, B!EndTask
  <2>2. response'[r] = IF response[r] = "open" THEN error ELSE response[r]
    BY <1>0, <1>5, <2>1 DEF Reject, B!Reject, B!Answered
  <2> QED
    BY <1>0, <2>2
<1>6. CASE \/ UNCHANGED vars
           \/ \E q \in Requests : Refuse(q)
           \/ \E n \in Names : Expire(n)
  BY <1>6 DEF vars, Refuse, Expire, batchVars
<1> QED
  BY <1>1, <1>2, <1>3, <1>4, <1>5, <1>6 DEF Next, Processor, Upstream

LEMMA NextSent ==
  ASSUME WellFormed, CallsAreSent, [Next]_vars
  PROVE  CallsAreSent'
<1> SUFFICES ASSUME NEW b \in calling', NEW r \in b
             PROVE  response'[r] \notin {"none", "refused"}
  BY DEF CallsAreSent
<1>1. r \in Valid /\ response[r] \notin {"none", "refused"}
  <2>1. CASE b \in calling
    BY <2>1 DEF CallsAreSent, WellFormed
  <2>2. ASSUME NEW c \in ready, b = B!Awaited(c)
        PROVE  r \in Valid /\ response[r] \notin {"none", "refused"}
    BY <2>2 DEF B!Awaited, WellFormed
  <2> QED
    BY <2>1, <2>2, CallingGrows
<1> QED
  BY <1>1, OneshotMoves, Answers

LEMMA CalledGrows ==
  ASSUME WellFormed, CallsAreSent, [Next]_vars
  PROVE  Called \subseteq Called'
<1> SUFFICES ASSUME NEW r \in Valid, r \in Called
             PROVE  r \in Called'
  BY DEF Called
<1>1. CASE response[r] \notin {"none", "open", "refused"}
  BY <1>1, OneshotMoves DEF Called
<1>2. ASSUME NEW b \in calling, r \in b, response[r] = "open"
      PROVE  r \in Called'
  <2>1. CASE response'[r] = "open"
    <3>1. b \in calling'
      BY <1>2, <2>1, CallEnds
    <3> QED
      BY <1>2, <3>1 DEF Called
  <2>2. CASE response'[r] # "open"
    BY <1>2, <2>2, OneshotMoves, Answers DEF Called
  <2> QED
    BY <2>1, <2>2
<1> QED
  BY <1>1, <1>2 DEF Called, CallsAreSent

\* Each name of a batch, and each request for it, is called for once.
Charged ==
  /\ CallsAreSent
  /\ usernames \in Nat
  /\ usernames <= Cardinality(Called)
  /\ \A n \in Names : asked[n] \in Nat /\ asked[n] <= Cardinality(CalledFor(n))

LEMMA ValidFinite == IsFiniteSet(Valid)
BY CacheAssumption DEF C!IsFiniteSet, IsFiniteSet

LEMMA CalledFinite ==
  /\ IsFiniteSet(Called) /\ Cardinality(Called) \in Nat
  /\ \A n : IsFiniteSet(CalledFor(n)) /\ Cardinality(CalledFor(n)) \in Nat
BY ValidFinite, FS_Subset, FS_CardinalityType DEF Called, CalledFor

LEMMA CalledFiniteAfter ==
  /\ IsFiniteSet(Called') /\ Cardinality(Called') \in Nat
  /\ \A n : IsFiniteSet(CalledFor(n)') /\ Cardinality(CalledFor(n)') \in Nat
BY ValidFinite, FS_Subset, FS_CardinalityType DEF Called, CalledFor

LEMMA IdleCharged ==
  ASSUME WellFormed, Charged, [Next]_vars, UNCHANGED <<usernames, asked>>
  PROVE  Charged'
<1>1. CallsAreSent' /\ Called \subseteq Called'
  BY NextSent, CalledGrows DEF Charged
<1>2. \A n \in Names : CalledFor(n) \subseteq CalledFor(n)'
  BY <1>1 DEF CalledFor
<1>3. Cardinality(Called) <= Cardinality(Called')
  BY <1>1, CalledFiniteAfter, FS_Subset
<1>4. \A n \in Names : Cardinality(CalledFor(n)) <= Cardinality(CalledFor(n)')
  BY <1>2, CalledFiniteAfter, FS_Subset
<1> QED
  BY <1>1, <1>3, <1>4, CalledFinite, CalledFiniteAfter DEF Charged

LEMMA BatchCharged ==
  ASSUME WellFormed, BP!OnePlace, Charged, NEW c \in ready, ProcessBatch(c)
  PROVE  Charged'
<1> DEFINE live == B!Awaited(c)
<1>0. [Next]_vars
  BY DEF Next, Processor
<1>1. CallsAreSent' /\ Called \subseteq Called'
  BY <1>0, NextSent, CalledGrows DEF Charged
<1>2. CASE live = {}
  <2>1. \A n \in Names : asked'[n] = asked[n]
    BY <1>2 DEF ProcessBatch, B!NamesIn
  <2>2. UNCHANGED usernames
    BY <1>2 DEF ProcessBatch, B!ProcessBatch
  <2>3. \A n \in Names : CalledFor(n) \subseteq CalledFor(n)'
    BY <1>1 DEF CalledFor
  <2>4. Cardinality(Called) <= Cardinality(Called')
    BY <1>1, CalledFiniteAfter, FS_Subset
  <2>5. \A n \in Names : Cardinality(CalledFor(n)) <= Cardinality(CalledFor(n)')
    BY <2>3, CalledFiniteAfter, FS_Subset
  <2> QED
    BY <1>1, <2>1, <2>2, <2>4, <2>5, CalledFinite, CalledFiniteAfter DEF Charged
<1>3. CASE live # {}
  <2>1. /\ calling' = calling \cup {live}
        /\ usernames' = usernames + B!Cardinality(live)
        /\ asked' = [n \in Names |-> IF n \in B!NamesIn(live) THEN asked[n] + 1 ELSE asked[n]]
    BY <1>3 DEF ProcessBatch, B!ProcessBatch
  <2>2. live \subseteq Valid /\ live \subseteq Called'
    BY <2>1 DEF B!Awaited, WellFormed, Called
  <2>3. live \cap Called = {}
    <3>1. \A b \in calling : b \cap c = {}
      BY DEF BP!OnePlace, BP!Tasks
    <3> QED
      BY <3>1 DEF B!Awaited, Called
  <2>4. IsFiniteSet(live) /\ Cardinality(live) \in Nat
    BY <2>2, ValidFinite, FS_Subset, FS_CardinalityType
  <2>5. usernames' <= Cardinality(Called')
    <3>1. Cardinality(Called \cup live) = Cardinality(Called) + Cardinality(live)
      <4>1. Cardinality(Called \cup live)
              = Cardinality(Called) + Cardinality(live) - Cardinality({})
        BY <2>3, <2>4, CalledFinite, FS_Union
      <4> QED
        BY <4>1, <2>4, CalledFinite, FS_EmptySet
    <3>2. Cardinality(Called \cup live) <= Cardinality(Called')
      BY <1>1, <2>2, CalledFiniteAfter, FS_Subset
    <3>3. usernames' = usernames + Cardinality(live)
      BY <2>1 DEF B!Cardinality, Cardinality
    <3> QED
      BY <2>4, <3>1, <3>2, <3>3, CalledFinite, CalledFiniteAfter DEF Charged
  <2>6. ASSUME NEW n \in Names
        PROVE  asked'[n] \in Nat /\ asked'[n] <= Cardinality(CalledFor(n)')
    <3>1. CalledFor(n) \subseteq CalledFor(n)'
      BY <1>1 DEF CalledFor
    <3>2. CASE n \notin B!NamesIn(live)
      <4>1. Cardinality(CalledFor(n)) <= Cardinality(CalledFor(n)')
        BY <3>1, CalledFiniteAfter, FS_Subset
      <4> QED
        BY <2>1, <3>2, <4>1, CalledFinite, CalledFiniteAfter DEF Charged
    <3>3. CASE n \in B!NamesIn(live)
      <4>1. PICK r \in live : NameOf[r] = n
        BY <3>3 DEF B!NamesIn
      <4>2. r \in CalledFor(n)' /\ r \notin CalledFor(n)
        BY <2>2, <2>3, <4>1 DEF CalledFor
      <4>3. Cardinality(CalledFor(n) \cup {r}) = Cardinality(CalledFor(n)) + 1
        BY <4>2, CalledFinite, FS_AddElement
      <4>4. Cardinality(CalledFor(n) \cup {r}) <= Cardinality(CalledFor(n)')
        BY <3>1, <4>2, CalledFiniteAfter, FS_Subset
      <4> QED
        BY <2>1, <3>3, <4>3, <4>4, CalledFinite, CalledFiniteAfter DEF Charged
    <3> QED
      BY <3>2, <3>3
  <2>7. usernames' \in Nat
    BY <2>1, <2>4 DEF Charged, B!Cardinality, Cardinality
  <2> QED
    BY <1>1, <2>5, <2>6, <2>7 DEF Charged
<1> QED
  BY <1>2, <1>3

LEMMA NextCharged ==
  ASSUME WellFormed, BP!OnePlace, Charged, [Next]_vars
  PROVE  Charged'
<1>1. CASE \E c \in ready : ProcessBatch(c)
  BY <1>1, BatchCharged
<1>2. CASE UNCHANGED <<usernames, asked>>
  BY <1>2, IdleCharged
<1>3. ASSUME NEW r \in Valid, Start(r) \/ Poll(r) \/ Cancel(r)
      PROVE  UNCHANGED <<usernames, asked>>
  BY <1>3 DEF Start, Poll, Claim, Recheck, Send, SendRefused, Receive, Follow, Cancel,
              B!Send, B!SendRefused, B!Abandon, batchVars, history
<1>4. CASE Other
  <2>1. UNCHANGED <<usernames, asked>>
    BY <1>4 DEF Other, B!Loop, B!Receive, B!Tick, B!Close, B!Drained, B!Spawn, B!Stop,
                B!Panic, B!Cancel, B!Shutdown, B!Abort, history
  <2> QED
    BY <1>2, <2>1
<1>5. CASE Upstream
  <2>1. UNCHANGED <<usernames, asked>>
    BY <1>5 DEF Upstream, Resolve, Reject, B!Resolve, B!Reject
  <2> QED
    BY <1>2, <2>1
<1>6. CASE \/ UNCHANGED vars
           \/ \E r \in Requests : Refuse(r)
           \/ \E n \in Names : Expire(n)
  <2>1. UNCHANGED <<usernames, asked>>
    BY <1>6 DEF vars, Refuse, Expire, batchVars, history
  <2> QED
    BY <1>2, <2>1
<1> QED
  BY <1>1, <1>2, <1>3, <1>4, <1>5, <1>6 DEF Next, Processor

LEMMA ChargedHolds == Spec => []Charged
<1>1. Init => Charged
  <2> SUFFICES ASSUME Init
               PROVE  Charged
    OBVIOUS
  <2>1. Called = {} /\ \A n : CalledFor(n) = {}
    BY DEF Init, B!Init, Called, CalledFor
  <2> QED
    BY <2>1, FS_EmptySet DEF Init, B!Init, Charged, CallsAreSent
<1> QED
  BY <1>1, NextCharged, ProcessorHolds, PlacedHolds, PTL DEF Spec

-----------------------------------------------------------------------------
(* Requests and their lookups.                                             *)

\* What became of a request tells what became of its lookup.
SentAsLed ==
  \A r \in Valid :
    /\ response[r] # "none" => stage[r] \in {"loading", "done", "cancelled"}
    /\ response[r] = "closed" => stage[r] = "cancelled"
    /\ response[r] \in Values /\ stage[r] = "done" => loaded[r]
    /\ loaded[r] => response[r] # "none"
    /\ stage[r] = "done" /\ outcome[r] \in Values /\ ~loaded[r] => response[r] = "none"

LEMMA NextLed ==
  ASSUME CP!Loads, WellFormed, OpenIsLoading, SentAsLed, [Next]_vars
  PROVE  SentAsLed'
<1>0. /\ stage \in [Valid -> CP!Stages]
      /\ outcome \in [Valid -> Values \cup Errors \cup {"none"}]
      /\ loaded \in [Valid -> BOOLEAN]
      /\ \A r \in Valid : loaded[r] => stage[r] = "done"
  BY DEF CP!Loads, CP!CacheTypeOK, CP!LoadedAreDone
<1>1. ASSUME NEW r \in Valid, Start(r) \/ Claim(r) \/ Recheck(r) \/ Follow(r)
      PROVE  SentAsLed'
  <2>1. response[r] = "none" /\ UNCHANGED response
    BY <1>1 DEF SentAsLed, Start, Claim, Recheck, Follow, C!Get, C!Claim, C!Recheck,
                C!Follow, batchVars
  <2>2. /\ \A q \in Valid \ {r} : /\ stage'[q] = stage[q] /\ outcome'[q] = outcome[q]
                                  /\ loaded'[q] = loaded[q]
        /\ ~loaded'[r]
    BY <1>0, <1>1 DEF Start, Claim, Recheck, Follow, C!Get, C!Claim, C!Recheck,
                      C!Follow, C!Finish
  <2> QED
    BY <2>1, <2>2, Answers DEF SentAsLed
<1>2. ASSUME NEW r \in Valid, Send(r)
      PROVE  SentAsLed'
  BY <1>0, <1>2, Answers DEF Send, B!Send, cacheVars, SentAsLed, WellFormed
<1>3. ASSUME NEW r \in Valid, SendRefused(r)
      PROVE  SentAsLed'
  <2>1. "transport" \notin Values
    BY Results DEF Errors
  <2> QED
    BY <1>0, <1>3, <2>1, Answers
       DEF SendRefused, B!SendRefused, C!LoadFailed, C!Finish, SentAsLed, WellFormed
<1>4. ASSUME NEW r \in Valid, Receive(r)
      PROVE  SentAsLed'
  <2>1. "transport" \notin Values
    BY Results DEF Errors
  <2>2. /\ UNCHANGED response
        /\ response[r] \in Values \cup MojangErrors \cup {"lost"}
        /\ stage'[r] = "done"
        /\ response[r] \in Values => loaded'[r]
        /\ outcome'[r] \in Values => loaded'[r]
    BY <1>0, <1>4, <2>1, Answers DEF Receive, C!Loaded, C!LoadFailed, C!Finish, batchVars
  <2>3. \A q \in Valid \ {r} : /\ stage'[q] = stage[q] /\ outcome'[q] = outcome[q]
                               /\ loaded'[q] = loaded[q]
    BY <1>0, <1>4 DEF Receive, C!Loaded, C!LoadFailed, C!Finish
  <2> QED
    BY <2>2, <2>3, Answers DEF SentAsLed
<1>5. ASSUME NEW r \in Valid, Cancel(r)
      PROVE  SentAsLed'
  BY <1>0, <1>5, Answers DEF Cancel, C!Cancel, C!Busy, B!Abandon, batchVars, SentAsLed, WellFormed
<1>6. CASE Processor
  <2>1. UNCHANGED <<stage, outcome, loaded>>
    BY <1>6 DEF Processor, Other, ProcessBatch, Upstream, Resolve, Reject, cacheVars
  <2> QED
    BY <1>0, <1>6, <2>1, ProcessorAnswers, Answers DEF SentAsLed, OpenIsLoading
<1>7. CASE \/ UNCHANGED vars
           \/ \E r \in Requests : Refuse(r)
           \/ \E n \in Names : Expire(n)
  BY <1>7 DEF vars, Refuse, Expire, C!Expire, cacheVars, batchVars, SentAsLed
<1> QED
  BY <1>1, <1>2, <1>3, <1>4, <1>5, <1>6, <1>7 DEF Next, Poll

LEMMA LedHolds == Spec => []SentAsLed
<1>1. Init => SentAsLed
  BY Answers DEF Init, C!Init, B!Init, SentAsLed
<1> QED
  BY <1>1, NextLed, LoadsHold, ProcessorHolds, OpenHolds, PTL DEF Spec

LEMMA CountedHolds == Spec => []CP!Counted
<1>1. CP!Spec => []CP!Counted
  BY CacheAssumptions, CP!InitLoads, CP!NextLoads, CP!InitCounted, CP!NextCounted, PTL
     DEF CP!Spec
<1>2. Spec => CP!Spec
  BY ImplementsCache, SameCache, PTL DEF C!Spec, CP!Spec
<1> QED
  BY <1>1, <1>2, PTL

LEMMA AskedForAReason ==
  ASSUME CP!Loads, CP!Counted, Coalesced, WellFormed, OpenIsLoading, SentAsLed, Charged
  PROVE  AskedAgainForAReason
<1> SUFFICES ASSUME NEW n \in Names
             PROVE  asked[n] <= 1 + expired[n] + Cardinality(
                      {r \in Valid :
                         /\ NameOf[r] = n
                         /\ \/ stage[r] = "cancelled" /\ response[r] # "none"
                            \/ response[r] \in MojangErrors \cup {"lost"}})
  BY DEF AskedAgainForAReason
<1> DEFINE Reasons == {r \in Valid :
                         /\ NameOf[r] = n
                         /\ \/ stage[r] = "cancelled" /\ response[r] # "none"
                            \/ response[r] \in MojangErrors \cup {"lost"}}
           Own == {r \in Valid : NameOf[r] = n /\ (loaded[r] \/ stage[r] = "loading")}
           Loaders == CP!LoadedOf(n)
<1>1. CalledFor(n) \subseteq Reasons \cup Own
  <2> SUFFICES ASSUME NEW r \in Valid, r \in Called, NameOf[r] = n
               PROVE  r \in Reasons \cup Own
    BY DEF CalledFor, Called
  <2>1. response[r] \in {"none", "open", "refused", "closed", "lost"}
                          \cup Values \cup MojangErrors
    BY Answers DEF WellFormed
  <2>2. response[r] \notin {"none", "refused"}
    BY DEF Called, Charged, CallsAreSent
  <2>3. stage[r] \in {"loading", "done", "cancelled"}
    BY <2>2 DEF SentAsLed
  <2> QED
    BY <2>1, <2>2, <2>3 DEF SentAsLed, OpenIsLoading
<1>2. /\ IsFiniteSet(Reasons) /\ IsFiniteSet(Own) /\ IsFiniteSet(Loaders)
      /\ IsFiniteSet(Reasons \cap Own) /\ IsFiniteSet(Reasons \cup Own)
  BY ValidFinite, FS_Subset DEF CP!LoadedOf
<1>3. /\ Cardinality(Reasons) \in Nat /\ Cardinality(Own) \in Nat
      /\ Cardinality(Loaders) \in Nat /\ Cardinality(Reasons \cap Own) \in Nat
      /\ Cardinality(Reasons \cup Own) \in Nat
  BY <1>2, FS_CardinalityType
<1>4. /\ expired[n] \in Nat
      /\ Cardinality(Loaders) = expired[n] + (IF cache[n] = "empty" THEN 0 ELSE 1)
  BY DEF CP!Loads, CP!CacheTypeOK, CP!Counted, CP!Cardinality, Cardinality
<1>5. Cardinality(Own) <= 1 + expired[n]
  <2>1. ASSUME NEW q \in Valid, NameOf[q] = n, stage[q] = "loading"
        PROVE  Cardinality(Own) <= 1 + expired[n]
    <3>1. cache[n] = "empty"
      BY <2>1 DEF CP!Loads, CP!LoadingIsEmpty
    <3>2. Own \subseteq Loaders \cup {q}
      BY <2>1 DEF Coalesced, CP!LoadedOf
    <3>3. /\ IsFiniteSet(Loaders \cup {q})
          /\ Cardinality(Loaders \cup {q}) <= Cardinality(Loaders) + 1
      <4> HIDE DEF Loaders
      <4>1. /\ IsFiniteSet(Loaders \cup {q})
            /\ Cardinality(Loaders \cup {q})
                 = IF q \in Loaders THEN Cardinality(Loaders) ELSE Cardinality(Loaders) + 1
        BY <1>2, FS_AddElement
      <4> QED
        BY <1>3, <4>1
    <3>4. Cardinality(Own) <= Cardinality(Loaders \cup {q}) /\ Cardinality(Loaders \cup {q}) \in Nat
      BY <3>2, <3>3, FS_Subset, FS_CardinalityType
    <3> QED
      BY <1>3, <1>4, <3>1, <3>3, <3>4
  <2>2. CASE \A q \in Valid : NameOf[q] = n => stage[q] # "loading"
    <3>1. Own = Loaders
      BY <2>2 DEF CP!LoadedOf
    <3> QED
      BY <1>3, <1>4, <3>1
  <2> QED
    BY <2>1, <2>2
<1>6. Cardinality(Reasons \cup Own) <= Cardinality(Reasons) + Cardinality(Own)
  <2>1. Cardinality(Reasons \cup Own)
          = Cardinality(Reasons) + Cardinality(Own) - Cardinality(Reasons \cap Own)
    BY <1>2, FS_Union
  <2> QED
    BY <1>3, <2>1
<1>7. Cardinality(CalledFor(n)) <= Cardinality(Reasons \cup Own)
  BY <1>1, <1>2, FS_Subset
<1> QED
  BY <1>3, <1>4, <1>5, <1>6, <1>7, CalledFinite DEF Charged

\* For any requests, names and limits: a name goes to Mojang again only when an
\* entry had gone, a lookup had failed or a request had left.
THEOREM AskedAgainForAReasonHolds == Spec => []AskedAgainForAReason
BY AskedForAReason, LoadsHold, CountedHolds, CacheHolds, ProcessorHolds, OpenHolds,
   LedHolds, ChargedHolds, PTL

-----------------------------------------------------------------------------
(* The counters.                                                           *)

Missed == {r \in Valid : stage[r] = "loading" \/ response[r] # "none"}
Hit == {r \in Valid : stage[r] = "done" /\ outcome[r] \in Values /\ ~loaded[r]}
Left == {r \in Valid : stage[r] = "cancelled"}
Started == {r \in Valid : stage[r] # "idle"}

\* Of the requests that left without a lookup some were misses before.
Tallied ==
  /\ IsFiniteSet(refused)
  /\ uuid_requests = Cardinality(refused) + Cardinality(Started)
  /\ hits = Cardinality(Hit)
  /\ misses \in Cardinality(Missed)..Cardinality(Missed \cup Left)

LEMMA TalliesFinite ==
  /\ IsFiniteSet(Missed) /\ IsFiniteSet(Hit) /\ IsFiniteSet(Left) /\ IsFiniteSet(Started)
  /\ IsFiniteSet(Missed \cup Left)
  /\ Cardinality(Missed) \in Nat /\ Cardinality(Hit) \in Nat /\ Cardinality(Started) \in Nat
  /\ Cardinality(Missed \cup Left) \in Nat
BY ValidFinite, FS_Subset, FS_CardinalityType DEF Missed, Hit, Left, Started

LEMMA TalliesFiniteAfter ==
  /\ IsFiniteSet(Missed') /\ IsFiniteSet((Missed \cup Left)')
  /\ Cardinality(Missed') \in Nat /\ Cardinality((Missed \cup Left)') \in Nat
BY ValidFinite, FS_Subset, FS_CardinalityType DEF Missed, Left

\* A counter follows its set, which nothing but x may enter and nothing leaves.
LEMMA CountFollows ==
  ASSUME NEW S, NEW T, NEW x, IsFiniteSet(S), S \subseteq T, T \subseteq S \cup {x}
  PROVE  Cardinality(T) = IF x \in T \ S THEN Cardinality(S) + 1 ELSE Cardinality(S)
<1>1. CASE x \in T \ S
  <2>1. T = S \cup {x}
    BY <1>1
  <2> QED
    BY <1>1, <2>1, FS_AddElement
<1>2. CASE x \notin T \ S
  <2>1. T = S
    BY <1>2
  <2> QED
    BY <1>2, <2>1
<1> QED
  BY <1>1, <1>2

\* A request moves on, and the counters with it.
LEMMA MoveTallied ==
  ASSUME Tallied, NEW r \in Valid,
         \A q \in Valid \ {r} :
           /\ stage'[q] = stage[q] /\ outcome'[q] = outcome[q]
           /\ loaded'[q] = loaded[q] /\ response'[q] = response[q],
         r \in Hit => r \in Hit',
         stage'[r] # "idle",
         r \in Missed \cup Left => r \in (Missed \cup Left)',
         r \in Missed' \ Missed => r \notin Left,
         uuid_requests' = uuid_requests + (IF r \in Started THEN 0 ELSE 1),
         hits' = hits + (IF r \in Hit' \ Hit THEN 1 ELSE 0),
         misses' = misses + (IF r \in Missed' \ Missed THEN 1 ELSE 0),
         UNCHANGED refused
  PROVE  Tallied'
<1>1. Cardinality(refused) \in Nat
  BY FS_CardinalityType DEF Tallied
<1>2. hits' = Cardinality(Hit')
  <2>1. Hit \subseteq Hit' /\ Hit' \subseteq Hit \cup {r}
    BY DEF Hit
  <2>2. Cardinality(Hit') = IF r \in Hit' \ Hit THEN Cardinality(Hit) + 1 ELSE Cardinality(Hit)
    BY <2>1, TalliesFinite, CountFollows
  <2> QED
    BY <2>2, TalliesFinite DEF Tallied
<1>3. uuid_requests' = Cardinality(refused') + Cardinality(Started')
  <2>1. Started \subseteq Started' /\ Started' \subseteq Started \cup {r} /\ r \in Started'
    BY DEF Started
  <2>2. Cardinality(Started') = IF r \in Started THEN Cardinality(Started)
                                ELSE Cardinality(Started) + 1
    BY <2>1, TalliesFinite, CountFollows
  <2> QED
    BY <1>1, <2>2, TalliesFinite DEF Tallied
<1>4. misses' \in Cardinality(Missed')..Cardinality((Missed \cup Left)')
  <2> DEFINE Wide == Missed \cup Left
  <2>1. Missed' \subseteq Missed \cup {r} /\ Wide \subseteq Wide'
    BY DEF Missed, Left
  <2>2. CASE r \in Missed' \ Missed
    <3>1. r \notin Wide /\ r \in Wide'
      BY <2>2
    <3>2. Cardinality(Missed \cup {r}) = Cardinality(Missed) + 1
          /\ Cardinality(Wide \cup {r}) = Cardinality(Wide) + 1
          /\ IsFiniteSet(Missed \cup {r})
      BY <2>2, <3>1, TalliesFinite, FS_AddElement
    <3>3. Cardinality(Missed') <= Cardinality(Missed \cup {r})
      BY <2>1, <3>2, FS_Subset
    <3>4. Cardinality(Wide \cup {r}) <= Cardinality(Wide')
      BY <2>1, <3>1, TalliesFiniteAfter, FS_Subset
    <3> HIDE DEF Wide
    <3>5. /\ Cardinality(Wide) \in Nat /\ Cardinality(Wide') \in Nat
          /\ misses \in Cardinality(Missed)..Cardinality(Wide)
      BY TalliesFinite, TalliesFiniteAfter DEF Tallied, Wide
    <3>6. misses' \in Cardinality(Missed')..Cardinality(Wide')
      BY <2>2, <3>2, <3>3, <3>4, <3>5, TalliesFinite, TalliesFiniteAfter
    <3> QED
      BY <3>6 DEF Wide
  <2>3. CASE r \notin Missed' \ Missed
    <3>1. Cardinality(Missed') <= Cardinality(Missed)
      BY <2>1, <2>3, TalliesFinite, FS_Subset
    <3>2. Cardinality(Wide) <= Cardinality(Wide')
      BY <2>1, TalliesFiniteAfter, FS_Subset
    <3> HIDE DEF Wide
    <3>3. /\ Cardinality(Wide) \in Nat /\ Cardinality(Wide') \in Nat
          /\ misses \in Cardinality(Missed)..Cardinality(Wide)
      BY TalliesFinite, TalliesFiniteAfter DEF Tallied, Wide
    <3>4. misses' \in Cardinality(Missed')..Cardinality(Wide')
      BY <2>3, <3>1, <3>2, <3>3, TalliesFinite, TalliesFiniteAfter
    <3> QED
      BY <3>4 DEF Wide
  <2> QED
    BY <2>2, <2>3
<1> QED
  BY <1>2, <1>3, <1>4 DEF Tallied

\* A step that none of it can see.
LEMMA StillTallied ==
  ASSUME Tallied,
         \A r \in Valid : (response[r] # "none") = (response'[r] # "none"),
         UNCHANGED <<stage, outcome, loaded, refused, uuid_requests, hits, misses>>
  PROVE  Tallied'
<1>1. Missed' = Missed /\ Hit' = Hit /\ Left' = Left /\ Started' = Started
  BY DEF Missed, Hit, Left, Started
<1> QED
  BY <1>1 DEF Tallied

\* A poll of the cache: it counts a hit when it returns a value, and a miss when
\* it begins to load.
LEMMA PollTallied ==
  ASSUME Tallied, CP!Loads, SentAsLed, NEW r \in Valid,
         Start(r) \/ Claim(r) \/ Recheck(r) \/ Follow(r)
  PROVE  Tallied'
<1>1. /\ stage \in [Valid -> CP!Stages]
      /\ outcome \in [Valid -> Values \cup Errors \cup {"none"}]
      /\ loaded \in [Valid -> BOOLEAN]
      /\ \A q \in Valid : loaded[q] => stage[q] = "done"
  BY DEF CP!Loads, CP!CacheTypeOK, CP!LoadedAreDone
<1>2. /\ hits \in Nat /\ misses \in Nat /\ uuid_requests \in Nat
  BY TalliesFinite, FS_CardinalityType DEF Tallied
<1>3. /\ \A q \in Valid \ {r} : /\ stage'[q] = stage[q] /\ outcome'[q] = outcome[q]
                                /\ loaded'[q] = loaded[q]
      /\ stage[r] \in {"idle", "claiming", "rechecking", "following"}
      /\ stage'[r] \notin {"idle", "cancelled"}
      /\ ~loaded'[r]
  BY <1>1 DEF Start, Claim, Recheck, Follow, C!Get, C!Claim, C!Recheck, C!Follow, C!Finish
<1>4. /\ response[r] = "none"
      /\ UNCHANGED <<response, refused>>
  BY <1>3 DEF SentAsLed, Start, Claim, Recheck, Follow, batchVars
<1>5. /\ r \notin Missed /\ r \notin Left /\ r \notin Hit
      /\ r \in Missed' <=> stage'[r] = "loading"
      /\ r \in Hit' <=> stage'[r] = "done" /\ outcome'[r] \in Values
      /\ r \in Started <=> stage[r] # "idle"
  BY <1>3, <1>4 DEF Missed, Left, Hit, Started
<1>6. CASE Start(r)
  <2>1. stage[r] = "idle" /\ stage'[r] # "loading"
    BY <1>1, <1>6 DEF Start, C!Get, C!Finish
  <2>2. /\ uuid_requests' = uuid_requests + 1 /\ misses' = misses
        /\ hits' = IF r \in Hit' THEN hits + 1 ELSE hits
    BY <1>3, <1>5, <1>6 DEF Start, CountHit
  <2> QED
    BY <1>2, <1>3, <1>4, <1>5, <2>1, <2>2, MoveTallied
<1>7. CASE Claim(r)
  <2>1. stage[r] = "claiming" /\ stage'[r] \in {"rechecking", "following"}
    BY <1>1, <1>7 DEF Claim, C!Claim
  <2>2. UNCHANGED <<uuid_requests, misses, hits>>
    BY <1>7 DEF Claim, metrics
  <2> QED
    BY <1>2, <1>3, <1>4, <1>5, <2>1, <2>2, MoveTallied
<1>8. CASE Recheck(r)
  <2>1. stage[r] = "rechecking"
    BY <1>8 DEF Recheck, C!Recheck
  <2>2. /\ uuid_requests' = uuid_requests
        /\ misses' = IF r \in Missed' THEN misses + 1 ELSE misses
        /\ hits' = IF r \in Hit' THEN hits + 1 ELSE hits
    BY <1>3, <1>5, <1>8 DEF Recheck, CountHit
  <2> QED
    BY <1>2, <1>3, <1>4, <1>5, <2>1, <2>2, MoveTallied
<1>9. CASE Follow(r)
  <2>1. stage[r] = "following" /\ stage'[r] \in {"done", "claiming"}
    BY <1>1, <1>9 DEF Follow, C!Follow, C!Finish
  <2>2. /\ uuid_requests' = uuid_requests /\ misses' = misses
        /\ hits' = IF r \in Hit' THEN hits + 1 ELSE hits
    BY <1>3, <1>5, <1>9 DEF Follow, CountHit
  <2> QED
    BY <1>2, <1>3, <1>4, <1>5, <2>1, <2>2, MoveTallied
<1> QED
  BY <1>6, <1>7, <1>8, <1>9

LEMMA NextTallied ==
  ASSUME Tallied, CP!Loads, WellFormed, SentAsLed, [Next]_vars
  PROVE  Tallied'
<1>0. /\ stage \in [Valid -> CP!Stages]
      /\ outcome \in [Valid -> Values \cup Errors \cup {"none"}]
      /\ loaded \in [Valid -> BOOLEAN]
      /\ DOMAIN response = Valid
      /\ hits \in Nat /\ misses \in Nat /\ uuid_requests \in Nat
      /\ "transport" \notin Values
  BY TalliesFinite, FS_CardinalityType, Results
     DEF CP!Loads, CP!CacheTypeOK, WellFormed, Tallied, Errors
<1>1. ASSUME NEW r \in Valid, Start(r) \/ Claim(r) \/ Recheck(r) \/ Follow(r)
      PROVE  Tallied'
  BY <1>1, PollTallied
<1>2. ASSUME NEW r \in Valid, Send(r) \/ SendRefused(r) \/ Receive(r)
      PROVE  Tallied'
  <2>1. /\ stage[r] = "loading" /\ stage'[r] \in {"loading", "done"}
        /\ stage'[r] = "done" => /\ response'[r] # "none"
                                 /\ outcome'[r] \in Values => loaded'[r]
        /\ \A q \in Valid \ {r} : /\ stage'[q] = stage[q] /\ outcome'[q] = outcome[q]
                                  /\ loaded'[q] = loaded[q] /\ response'[q] = response[q]
    <3>1. CASE Send(r)
      BY <1>0, <3>1 DEF Send, B!Send, cacheVars
    <3>2. CASE SendRefused(r)
      BY <1>0, <3>2 DEF SendRefused, B!SendRefused, C!LoadFailed, C!Finish
    <3>3. CASE Receive(r)
      BY <1>0, <3>3, Answers DEF Receive, C!Loaded, C!LoadFailed, C!Finish, batchVars
    <3> QED
      BY <1>2, <3>1, <3>2, <3>3
  <2>2. UNCHANGED <<uuid_requests, misses, hits, refused>>
    BY <1>2, <2>1 DEF Send, SendRefused, Receive, CountHit, metrics
  <2>3. /\ r \in Missed /\ r \in Missed' /\ r \notin Hit /\ r \notin Hit' /\ r \in Started
        /\ stage'[r] # "idle"
    BY <2>1 DEF Missed, Hit, Started
  <2> QED
    BY <1>0, <2>1, <2>2, <2>3, MoveTallied
<1>3. ASSUME NEW r \in Valid, Cancel(r)
      PROVE  Tallied'
  <2>1. /\ stage[r] \notin {"idle", "done", "cancelled"} /\ stage'[r] = "cancelled"
        /\ response[r] = "none" => response'[r] = "none"
        /\ \A q \in Valid \ {r} : /\ stage'[q] = stage[q] /\ outcome'[q] = outcome[q]
                                  /\ loaded'[q] = loaded[q] /\ response'[q] = response[q]
    BY <1>0, <1>3 DEF Cancel, C!Cancel, C!Busy, B!Abandon, batchVars
  <2>2. UNCHANGED <<uuid_requests, misses, hits, refused>>
    BY <1>3 DEF Cancel, metrics
  <2>3. /\ r \notin Hit /\ r \notin Hit' /\ r \in Started /\ r \in Left'
        /\ r \in Missed' => r \in Missed
    BY <2>1 DEF Missed, Hit, Left, Started
  <2> QED
    BY <1>0, <2>1, <2>2, <2>3, MoveTallied
<1>4. CASE Processor
  <2>1. UNCHANGED <<stage, outcome, loaded, refused, uuid_requests, hits, misses>>
    BY <1>4 DEF Processor, Other, ProcessBatch, Upstream, Resolve, Reject, cacheVars, metrics
  <2>2. \A r \in Valid : (response[r] # "none") = (response'[r] # "none")
    BY <1>4, ProcessorAnswers, Answers
  <2> QED
    BY <2>1, <2>2, StillTallied
<1>5. ASSUME NEW r \in Requests, Refuse(r)
      PROVE  Tallied'
  <2>1. /\ IsFiniteSet(refused') /\ Cardinality(refused') = Cardinality(refused) + 1
        /\ Cardinality(refused) \in Nat
    BY <1>5, FS_AddElement, FS_CardinalityType DEF Refuse, Tallied
  <2>2. Missed' = Missed /\ Hit' = Hit /\ Left' = Left /\ Started' = Started
    BY <1>5 DEF Refuse, cacheVars, batchVars, Missed, Hit, Left, Started
  <2> QED
    BY <1>5, <2>1, <2>2, TalliesFinite DEF Refuse, Tallied
<1>6. CASE UNCHANGED vars \/ \E n \in Names : Expire(n)
  BY <1>6, StillTallied DEF vars, Expire, C!Expire, cacheVars, batchVars, metrics
<1> QED
  BY <1>1, <1>2, <1>3, <1>4, <1>5, <1>6 DEF Next, Poll

LEMMA InitTallied == Init => Tallied
<1> SUFFICES ASSUME Init
             PROVE  Tallied
  OBVIOUS
<1>1. Missed = {} /\ Hit = {} /\ Left = {} /\ Started = {} /\ refused = {}
  BY DEF Init, C!Init, B!Init, Missed, Hit, Left, Started
<1> QED
  BY <1>1, FS_EmptySet DEF Init, Tallied

LEMMA TalliesAgree == ASSUME Tallied, SentAsLed, Charged PROVE MetricsAgree
<1> DEFINE Wide == Missed \cup Left
<1>1. Counted = Hit \cup Missed /\ Counted \cup Left = Hit \cup Wide
  BY DEF SentAsLed, Counted, Hit, Missed
<1>2. Hit \cap Missed = {} /\ Hit \cap Wide = {}
  BY DEF SentAsLed, Hit, Missed, Left
<1>3. /\ Cardinality(Counted) = Cardinality(Hit) + Cardinality(Missed)
      /\ Cardinality(Counted \cup Left) = Cardinality(Hit) + Cardinality(Wide)
  <2>1. /\ Cardinality(Hit \cup Missed)
             = Cardinality(Hit) + Cardinality(Missed) - Cardinality({})
        /\ Cardinality(Hit \cup Wide)
             = Cardinality(Hit) + Cardinality(Wide) - Cardinality({})
    <3>1. /\ Cardinality(Hit \cup Missed)
               = Cardinality(Hit) + Cardinality(Missed) - Cardinality(Hit \cap Missed)
          /\ Cardinality(Hit \cup Wide)
               = Cardinality(Hit) + Cardinality(Wide) - Cardinality(Hit \cap Wide)
      BY TalliesFinite, FS_Union
    <3> HIDE DEF Wide
    <3> QED
      BY <1>2, <3>1
  <2>2. /\ Cardinality(Hit) \in Nat /\ Cardinality(Missed) \in Nat /\ Cardinality(Wide) \in Nat
        /\ Cardinality({}) = 0
    BY TalliesFinite, FS_EmptySet
  <2>3. /\ Cardinality(Counted) = Cardinality(Hit \cup Missed)
        /\ Cardinality(Counted \cup Left) = Cardinality(Hit \cup Wide)
    BY <1>1
  <2> HIDE DEF Wide
  <2> QED
    BY <2>1, <2>2, <2>3
<1>4. hits + misses \in Cardinality(Counted)..Cardinality(Counted \cup Left)
  <2>1. /\ hits = Cardinality(Hit) /\ misses \in Cardinality(Missed)..Cardinality(Wide)
        /\ Cardinality(Hit) \in Nat /\ Cardinality(Missed) \in Nat /\ Cardinality(Wide) \in Nat
    BY TalliesFinite DEF Tallied
  <2> HIDE DEF Wide
  <2> QED
    BY <1>3, <2>1
<1>5. usernames <= misses
  <2>1. Called \subseteq Missed
    BY DEF Called, Missed, Charged, CallsAreSent
  <2>2. Cardinality(Called) <= Cardinality(Missed)
    BY <2>1, TalliesFinite, FS_Subset
  <2> QED
    BY <2>2, CalledFinite, TalliesFinite DEF Charged, Tallied
<1> QED
  BY <1>4, <1>5 DEF Tallied, MetricsAgree, Left, Started

\* For any requests and however they end: each is counted as refused, as a hit or
\* as a miss, but for some of those that left, and every name in a batch as a miss.
THEOREM MetricsAgreeHolds == Spec => []MetricsAgree
BY InitTallied, NextTallied, TalliesAgree, LoadsHold, ProcessorHolds, LedHolds, ChargedHolds,
   PTL DEF Spec
=============================================================================
