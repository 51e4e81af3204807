------------------------- MODULE BatchUpstream_proofs -------------------------
(***************************************************************************)
(* Proofs about BatchUpstream.  The batches use the client by its own      *)
(* steps only, so that its promises hold here, whatever the processor      *)
(* does; and the processor takes only its own steps, whatever the client   *)
(* returns, so that its invariants hold, too.  The two together relate the *)
(* calls to the tasks, and the answers to the responses they come from.    *)
(***************************************************************************)
EXTENDS BatchUpstream, TLAPS

\* The client with its theorems.
P == INSTANCE MojangClient_proofs WITH
       Calls <- Batches, KindOf <- [b \in Batches |-> "names"],
       BodyOf <- [b \in Batches |-> Cardinality(b)], Skins <- {},
       response <- reply

\* The processor with its theorems.
BP == INSTANCE BatchProcessor_proofs WITH Errors <- M!UpstreamErrors

\* It is the client of the proofs.
LEMMA SameClient ==
  /\ M!Init => P!Init
  /\ [M!Next]_M!clientVars => [P!Next]_P!clientVars
<1>1. M!Init => P!Init
  BY DEF M!Init, P!Init, M!NoResponse, P!NoResponse, M!Unknown, P!Unknown
<1>2. UNCHANGED M!clientVars => UNCHANGED P!clientVars
  BY DEF M!clientVars, P!clientVars
<1>3. M!Next => P!Next
  BY DEF M!Next, P!Next, M!Begin, P!Begin, M!Progress, P!Progress, M!Drop, P!Drop,
         M!Break, P!Break, M!ReceiveHead, P!ReceiveHead, M!Chunk, P!Chunk, M!End, P!End,
         M!Leave, P!Leave, M!Return, P!Return, M!Fail, P!Fail, M!Active, P!Active,
         M!MayGrow, P!MayGrow, M!MayEnd, P!MayEnd, M!Fits, P!Fits, M!Items, P!Items,
         M!Contents, P!Contents, M!Textures, P!Textures, M!Understood, P!Understood,
         M!Outcome, P!Outcome, M!Statuses, P!Statuses, M!Unknown, P!Unknown,
         M!NoResponse, P!NoResponse, M!UpstreamErrors, P!UpstreamErrors,
         M!SeqOf, P!SeqOf, M!Contains, P!Contains, M!Min, P!Min
<1> QED
  BY <1>1, <1>2, <1>3

-----------------------------------------------------------------------------
\* Nothing but lookups is collected, and no call is made without one.
Collects ==
  /\ queue \in Seq(Lookups)
  /\ pending \subseteq Lookups /\ held \subseteq Lookups
  /\ ready \subseteq SUBSET Lookups
  /\ calling \subseteq Batches

LEMMA AwaitedIsBatch ==
  ASSUME Collects, NEW b \in ready, B!Awaited(b) # {}
  PROVE  B!Awaited(b) \in Batches
<1>1. b \subseteq Lookups
  BY DEF Collects
<1>2. B!Awaited(b) \subseteq b
  BY DEF B!Awaited
<1>3. B!Awaited(b) \in SUBSET Lookups
  BY <1>1, <1>2
<1> QED
  BY <1>3 DEF Batches

LEMMA InitCollects == Init => Collects
BY DEF Init, B!Init, Collects

LEMMA NextCollects ==
  ASSUME Collects, [Next]_vars
  PROVE  Collects'
<1> USE DEF Collects
<1>1. ASSUME NEW b \in ready, ProcessBatch(b)
      PROVE  Collects'
  <2>1. B!Awaited(b) # {} => B!Awaited(b) \in Batches
    BY AwaitedIsBatch
  <2>2. /\ UNCHANGED <<queue, pending, held>>
        /\ ready' = ready \ {b}
        /\ \/ calling' = calling \ {b}
           \/ B!Awaited(b) # {} /\ calling' = calling \cup {B!Awaited(b)}
    BY <1>1 DEF ProcessBatch, B!ProcessBatch, B!EndTask
  <2> QED
    BY <2>1, <2>2
<1>2. ASSUME NEW b, Upstream(b) \/ Panic(b) \/ Cancel(b)
      PROVE  Collects'
  BY <1>2 DEF Upstream, Panic, Cancel, B!Resolve, B!Reject, B!Panic, B!Cancel, B!EndTask, batchVars
<1>3. CASE B!Callers
  BY <1>3 DEF B!Callers, B!Send, B!SendRefused, B!Abandon
<1>4. CASE B!Receive
  <2>1. Head(queue) \in Lookups /\ Tail(queue) \in Seq(Lookups)
    BY <1>4 DEF B!Receive
  <2> QED
    BY <1>4, <2>1 DEF B!Receive, B!Collect
<1>5. CASE B!Spawn
  BY <1>5 DEF B!Spawn
<1>6. CASE B!Tick \/ B!Close \/ B!Drained \/ B!Stop \/ B!Shutdown
  BY <1>6 DEF B!Tick, B!Close, B!Drained, B!Stop, B!Shutdown
<1>7. CASE B!Abort
  BY <1>7 DEF B!Abort
<1>8. CASE UNCHANGED vars
  BY <1>8 DEF vars, batchVars
<1> QED
  BY <1>1, <1>2, <1>3, <1>4, <1>5, <1>6, <1>7, <1>8 DEF Next, Other, B!Loop

LEMMA ClientStep == Collects /\ [Next]_vars => [M!Next]_M!clientVars
<1> SUFFICES ASSUME Collects, [Next]_vars
             PROVE  M!Next \/ UNCHANGED clientVars
  BY DEF M!clientVars, clientVars
<1>1. ASSUME NEW b \in ready, ProcessBatch(b)
      PROVE  M!Next \/ UNCHANGED clientVars
  <2>1. B!Awaited(b) # {} => B!Awaited(b) \in Batches
    BY AwaitedIsBatch
  <2>2. CASE B!Awaited(b) = {}
    BY <1>1, <2>2 DEF ProcessBatch
  <2>3. CASE B!Awaited(b) # {}
    <3>1. M!Begin(B!Awaited(b))
      BY <1>1, <2>3 DEF ProcessBatch
    <3> QED
      BY <2>1, <2>3, <3>1 DEF M!Next
  <2> QED
    BY <2>2, <2>3
<1>2. ASSUME NEW b \in calling, Upstream(b)
      PROVE  M!Next
  BY <1>2 DEF Upstream, Collects, M!Next
<1>3. ASSUME NEW b, Panic(b) \/ Cancel(b)
      PROVE  M!Next \/ UNCHANGED clientVars
  <2>1. M!Active \subseteq Batches
    BY DEF M!Active
  <2> QED
    BY <1>3, <2>1 DEF Panic, Cancel, DropCall, M!Next
<1>4. CASE Other \/ UNCHANGED vars
  BY <1>4 DEF Other, vars
<1> QED
  BY <1>1, <1>2, <1>3, <1>4 DEF Next

\* Whatever the processor does, the client sees a run of its own.
THEOREM ImplementsClient == Spec => M!Spec
<1>1. Init => M!Init
  BY DEF Init
<1> QED
  BY <1>1, InitCollects, NextCollects, ClientStep, PTL DEF Spec, M!Spec

LEMMA ClientHolds == Spec => []P!Inv
<1>1. P!ClientAssumption
  BY UpstreamAssumption DEF M!ClientAssumption, P!ClientAssumption, M!IsFiniteSet, P!IsFiniteSet
<1>2. P!Spec => []P!Inv
  BY <1>1, P!InitInv, P!NextInv, PTL DEF P!Spec
<1>3. Spec => P!Spec
  BY ImplementsClient, SameClient, PTL DEF M!Spec, P!Spec
<1> QED
  BY <1>2, <1>3, PTL

\* However many batches are in flight and however they end, no response body
\* exceeds the limit and every byte counted is one of a body within it.
THEOREM BodyBoundedHolds == Spec => []BodyBounded
<1>1. P!Inv => BodyBounded
  BY DEF P!Inv, P!BodyBounded, P!Answered, BodyBounded, M!BodyBounded, M!Answered,
         P!Cardinality, M!Cardinality
<1> QED
  BY <1>1, ClientHolds, PTL

\* The errors counted are the calls of batches that failed, each once.
THEOREM ErrorsAreFailedCallsHolds == Spec => []ErrorsAreFailedCalls
<1>1. P!Inv => ErrorsAreFailedCalls
  BY DEF P!Inv, P!ErrorsAreFailedCalls, P!UpstreamErrors, ErrorsAreFailedCalls,
         M!ErrorsAreFailedCalls, M!UpstreamErrors, P!Cardinality, M!Cardinality
<1> QED
  BY <1>1, ClientHolds, PTL

-----------------------------------------------------------------------------
(* The profiles of a response, taken one after the other.                  *)

Maps == UNION {[found -> Uuids] : found \in SUBSET Names}

LEMMA InsertType ==
  ASSUME NEW m \in Maps, NEW p \in Profile
  PROVE  Insert(m, p) \in Maps
<1>1. PICK found \in SUBSET Names : m \in [found -> Uuids]
  BY DEF Maps
<1>2. p.name \in Names /\ p.uuid \in Uuids
  BY DEF Profile
<1>3. Insert(m, p) \in [found \cup {p.name} -> Uuids]
  BY <1>1, <1>2 DEF Insert
<1> QED
  BY <1>2, <1>3 DEF Maps

\* collect() inserts the profiles in their order.
LEMMA CollectedSteps ==
  ASSUME NEW n \in Nat, NEW profiles \in [1..n -> Profile]
  PROVE  \E map \in [0..n -> Maps] :
           /\ map[0] = <<>>
           /\ \A i \in 1..n : map[i] = Insert(map[i - 1], profiles[i])
           /\ Collected(profiles) = map[n]
<1> DEFINE After(i, m) == Insert(m, profiles[i])
<1> DEFINE step == [a \in (1..n) \X Maps |-> After(a[1], a[2])]
<1> DEFINE Solves(it) == it = [s \in SUBSET (1..n) |->
             IF s = {} THEN <<>> ELSE After(Max(s), it[s \ {Max(s)}])]
<1>1. \A i \in 1..n, m \in Maps : After(i, m) \in Maps
  BY InsertType
<1>2. <<>> \in Maps
  <2>1. <<>> \in [{} -> Uuids]
    OBVIOUS
  <2> QED
    BY <2>1 DEF Maps
<1>3. \E it : Solves(it)
  <2>1. step \in [(1..n) \X Maps -> Maps]
    <3> HIDE DEF After
    <3> QED
      BY <1>1
  <2>2. PICK it : P!Folds(it, n, Maps, <<>>, step)
    <3> HIDE DEF step, Solves
    <3> QED
      BY <1>2, <2>1, P!FoldExists
  <2>3. /\ it \in [SUBSET (1..n) -> Maps]
        /\ \A s \in SUBSET (1..n) :
             it[s] = IF s = {} THEN <<>> ELSE step[<<Max(s), it[s \ {Max(s)}]>>]
    <3> HIDE DEF step, Solves
    <3> QED
      BY <2>2 DEF P!Folds, P!Max, Max
  <2>4. ASSUME NEW s \in SUBSET (1..n), s # {}
        PROVE  step[<<Max(s), it[s \ {Max(s)}]>>] = After(Max(s), it[s \ {Max(s)}])
    <3>1. Max(s) \in 1..n /\ it[s \ {Max(s)}] \in Maps
      BY <2>3, <2>4, P!LargestExists DEF P!Max, Max
    <3> HIDE DEF After
    <3> QED
      BY <3>1
  <2>5. Solves(it)
    <3> HIDE DEF After, step
    <3> QED
      BY <2>3, <2>4
  <2> HIDE DEF Solves
  <2> QED
    BY <2>5
<1> DEFINE iter == CHOOSE it : Solves(it)
<1> DEFINE map == [i \in 0..n |-> iter[1..i]]
<1>4. Solves(iter)
  <2> HIDE DEF Solves
  <2> QED
    BY <1>3
<1>5. Collected(profiles) = map[n]
  <2>1. DOMAIN profiles = 1..n
    OBVIOUS
  <2> QED
    BY <2>1 DEF Collected, FoldLeft, MapThenFoldSet
<1> HIDE DEF iter
<1>6. map[0] = <<>>
  BY <1>4
<1>7. ASSUME NEW i \in 1..n
      PROVE  map[i] = After(i, map[i - 1])
  <2>1. /\ i - 1 \in 0..n /\ i \in Nat
        /\ 1..i \in SUBSET (1..n) /\ i \in 1..i
    OBVIOUS
  <2>2. (1..i) \ {i} = 1..(i-1)
    BY <2>1
  <2>3. Max(1..i) = i
    BY <2>1, P!LargestIn DEF P!Max, Max
  <2>4. iter[1..i] = After(i, iter[1..(i-1)])
    <3> HIDE DEF After
    <3> QED
      BY <1>4, <2>1, <2>2, <2>3
  <2> HIDE DEF After
  <2> QED
    BY <2>1, <2>4
<1>8. map \in [0..n -> Maps]
  <2> DEFINE S == {i \in 0..n : map[i] \in Maps}
  <2>1. 0 \in S
    BY <1>2, <1>6
  <2>2. ASSUME NEW i \in 1..n, i - 1 \in S
        PROVE  i \in S
    <3> HIDE DEF map, After
    <3> QED
      BY <1>1, <1>7, <2>2
  <2>3. \A i \in 0..n : i \in S
    <3> HIDE DEF S
    <3> QED
      BY <2>1, <2>2, P!UpTo
  <2> QED
    BY <2>3
<1>9. \A i \in 1..n : map[i] = After(i, map[i - 1])
  BY <1>7
<1> HIDE DEF map
<1> QED
  BY <1>5, <1>6, <1>8, <1>9

\* What the processor finds for a name is what the response says of it: its
\* last profile in any case, or nothing.
LEMMA CollectedSays ==
  ASSUME NEW profiles \in SeqOf(Profile, MaxProfiles)
  PROVE  /\ Collected(profiles) \in Maps
         /\ \A name \in Names :
              B!UuidIn(Collected(profiles), name) = SaysOf(profiles, name)
<1>1. PICK n \in 0..MaxProfiles : profiles \in [1..n -> Profile]
  BY DEF SeqOf
<1>2. n \in Nat
  BY UpstreamAssumption
<1>3. PICK map \in [0..n -> Maps] :
         /\ map[0] = <<>>
         /\ \A i \in 1..n : map[i] = Insert(map[i - 1], profiles[i])
         /\ Collected(profiles) = map[n]
  BY <1>1, <1>2, CollectedSteps
<1> DEFINE about(i, name) == {j \in 1..i : profiles[j].name = name}
<1> DEFINE Says(i, name) ==
      IF about(i, name) = {} THEN name \notin DOMAIN map[i]
      ELSE /\ name \in DOMAIN map[i]
           /\ map[i][name] = profiles[Max(about(i, name))].uuid
<1> DEFINE S == {i \in 0..n : \A name \in Names : Says(i, name)}
<1>4. 0 \in S
  <2>1. 1..0 = {}
    OBVIOUS
  <2>2. DOMAIN map[0] = {}
    BY <1>3
  <2> QED
    BY <1>2, <2>1, <2>2
<1>5. ASSUME NEW i \in 1..n, i - 1 \in S
      PROVE  i \in S
  <2> SUFFICES ASSUME NEW name \in Names
               PROVE  Says(i, name)
    <3> HIDE DEF Says
    <3> QED
      BY <1>2
  <2>1. i \in Nat /\ i - 1 \in 0..n /\ 1..i = (1..(i - 1)) \cup {i}
    BY <1>2
  <2>2. map[i] = Insert(map[i - 1], profiles[i])
    BY <1>3
  <2>3. CASE profiles[i].name = name
    <3>1. about(i, name) \in SUBSET (1..i) /\ i \in about(i, name)
      BY <2>1, <2>3
    <3>2. Max(about(i, name)) = i
      <4> HIDE DEF about
      <4> QED
        BY <2>1, <3>1, P!LargestIn DEF P!Max, Max
    <3>3. name \in DOMAIN map[i] /\ map[i][name] = profiles[i].uuid
      BY <2>2, <2>3 DEF Insert
    <3> HIDE DEF about
    <3> QED
      BY <3>1, <3>2, <3>3
  <2>4. CASE profiles[i].name # name
    <3>1. about(i, name) = about(i - 1, name)
      BY <2>1, <2>4
    <3>2. Says(i - 1, name)
      BY <1>5
    <3>3. /\ name \in DOMAIN map[i] <=> name \in DOMAIN map[i - 1]
          /\ name \in DOMAIN map[i] => map[i][name] = map[i - 1][name]
      BY <2>2, <2>4 DEF Insert
    <3> HIDE DEF about
    <3> QED
      BY <3>1, <3>2, <3>3
  <2> QED
    BY <2>3, <2>4
<1>6. n \in S
  <2> HIDE DEF S
  <2> QED
    BY <1>2, <1>4, <1>5, P!UpTo
<1>7. ASSUME NEW name \in Names
      PROVE  B!UuidIn(Collected(profiles), name) = SaysOf(profiles, name)
  <2>1. Says(n, name)
    BY <1>6
  <2>2. about(n, name) = {i \in DOMAIN profiles : profiles[i].name = name}
    BY <1>1
  <2> HIDE DEF about
  <2> QED
    BY <1>3, <2>1, <2>2 DEF B!UuidIn, SaysOf
<1> QED
  BY <1>2, <1>3, <1>7

-----------------------------------------------------------------------------
(* The processor.                                                          *)

\* Of a response only the names of the batch matter to the batch.
LEMMA ResolveStep ==
  ASSUME Collects, NEW b \in calling, NEW m \in Maps, B!Resolve(b, m)
  PROVE  \E profiles \in B!Profiles(b) : B!Resolve(b, profiles)
<1>1. PICK found \in SUBSET Names : m \in [found -> Uuids]
  BY DEF Maps
<1> DEFINE rest == [n \in found \cap B!NamesIn(b) |-> m[n]]
<1>2. rest \in B!Profiles(b)
  <2>1. rest \in [found \cap B!NamesIn(b) -> Uuids]
    BY <1>1
  <2>2. found \cap B!NamesIn(b) \in SUBSET B!NamesIn(b)
    OBVIOUS
  <2> HIDE DEF rest
  <2> QED
    BY <2>1, <2>2 DEF B!Profiles
<1>3. \A l \in b : B!UuidIn(rest, NameOf[l]) = B!UuidIn(m, NameOf[l])
  BY <1>1 DEF B!UuidIn, B!NamesIn
<1>4. [l \in b |-> B!UuidIn(rest, NameOf[l])] = [l \in b |-> B!UuidIn(m, NameOf[l])]
  <2> HIDE DEF rest
  <2> QED
    BY <1>3
<1>5. B!Resolve(b, rest)
  <2> HIDE DEF rest
  <2> QED
    BY <1>4 DEF B!Resolve
<1> QED
  BY <1>2, <1>5

LEMMA ProcessorStep == Collects /\ [Next]_vars => [B!Next]_B!vars
<1> SUFFICES ASSUME Collects, [Next]_vars
             PROVE  B!Next \/ UNCHANGED batchVars
  BY DEF B!vars, batchVars
<1>1. ASSUME NEW b \in ready, ProcessBatch(b)
      PROVE  B!Next
  BY <1>1 DEF ProcessBatch, B!Next, B!Task
<1>2. ASSUME NEW b \in calling, Upstream(b)
      PROVE  B!Next \/ UNCHANGED batchVars
  <2>1. ASSUME NEW answer \in Answers, B!Resolve(b, answer.found)
        PROVE  B!Next
    <3>1. answer.found \in Maps
      BY CollectedSays DEF Answers
    <3>2. \E profiles \in B!Profiles(b) : B!Resolve(b, profiles)
      BY <2>1, <3>1, ResolveStep
    <3> QED
      BY <3>2 DEF B!Next, B!Task, B!Upstream
  <2>2. ASSUME NEW error \in M!UpstreamErrors, B!Reject(b, error)
        PROVE  B!Next
    BY <2>2 DEF B!Next, B!Task, B!Upstream
  <2> QED
    BY <1>2, <2>1, <2>2 DEF Upstream
<1>3. ASSUME NEW b \in calling, Panic(b)
      PROVE  B!Next
  BY <1>3 DEF Panic, B!Next
<1>4. ASSUME NEW b \in B!Tasks, Cancel(b)
      PROVE  B!Next
  BY <1>4 DEF Cancel, B!Next
<1>5. CASE Other \/ UNCHANGED vars
  BY <1>5 DEF Other, vars, B!Next
<1> QED
  BY <1>1, <1>2, <1>3, <1>4, <1>5 DEF Next

\* It is the processor of the proofs.
LEMMA SameProcessor ==
  /\ B!Init => BP!Init
  /\ [B!Next]_B!vars => [BP!Next]_BP!vars
<1>1. B!Init => BP!Init
  BY DEF B!Init, BP!Init
<1>2. UNCHANGED B!vars => UNCHANGED BP!vars
  BY DEF B!vars, BP!vars
<1>3. B!Next => BP!Next
  BY DEF B!Next, BP!Next, B!Callers, BP!Callers, B!Loop, BP!Loop, B!Task, BP!Task,
         B!Upstream, BP!Upstream, B!Send, BP!Send, B!SendRefused, BP!SendRefused,
         B!Abandon, BP!Abandon, B!Accepting, BP!Accepting, B!Receive, BP!Receive,
         B!Collect, BP!Collect, B!Tick, BP!Tick, B!Close, BP!Close, B!Drained, BP!Drained,
         B!Spawn, BP!Spawn, B!Stop, BP!Stop, B!Tasks, BP!Tasks, B!EndTask, BP!EndTask,
         B!Dropped, BP!Dropped, B!Answered, BP!Answered, B!Awaited, BP!Awaited,
         B!ProcessBatch, BP!ProcessBatch, B!Profiles, BP!Profiles, B!NamesIn, BP!NamesIn,
         B!UuidIn, BP!UuidIn, B!Resolve, BP!Resolve, B!Reject, BP!Reject,
         B!Panic, BP!Panic, B!Cancel, BP!Cancel, B!Shutdown, BP!Shutdown,
         B!Abort, BP!Abort, B!Backlog, BP!Backlog, B!Range, BP!Range,
         B!Cardinality, BP!Cardinality
<1> QED
  BY <1>1, <1>2, <1>3

\* Whatever Mojang answers, the processor sees a run of its own.
THEOREM ImplementsProcessor == Spec => B!Spec
<1>1. Init => B!Init
  BY DEF Init
<1> QED
  BY <1>1, InitCollects, NextCollects, ProcessorStep, PTL DEF Spec, B!Spec

LEMMA ProcessorHolds == Spec => [](BP!Shape /\ BP!OnePlace /\ BP!Unsettled)
<1>1. BP!LookupAssumption /\ BP!AnswerAssumption /\ BP!ConfigAssumption
  BY ProcessorAssumption
     DEF B!LookupAssumption, BP!LookupAssumption, B!AnswerAssumption, BP!AnswerAssumption,
         B!ConfigAssumption, BP!ConfigAssumption, B!Unanswered, BP!Unanswered,
         B!Values, BP!Values
<1>2. BP!Spec => []BP!Shape
  BY <1>1, BP!ShapeCorrect
<1>3. BP!Spec => []BP!OnePlace
  BY <1>1, BP!OnePlaceHolds
<1>4. BP!Spec => []BP!Unsettled
  BY <1>1, BP!UnsettledCorrect
<1>5. Spec => BP!Spec
  BY ImplementsProcessor, SameProcessor, PTL DEF B!Spec, BP!Spec
<1> QED
  BY <1>2, <1>3, <1>4, <1>5, PTL

-----------------------------------------------------------------------------
(* OneCallPerBatch.                                                        *)

\* What a step of the network makes of the call it belongs to: it has ended
\* exactly if it has a result.
LEMMA ProgressEnds ==
  ASSUME P!Inv, P!Inv', NEW b \in Batches, M!Progress(b)
  PROVE  /\ b \in M!Active
         /\ \A c \in Batches : c # b => (c \in M!Active' <=> c \in M!Active)
         /\ b \in M!Active' <=> result'[b] = "none"
         /\ UNCHANGED <<requests, sent>>
<1>1. /\ call \in [Batches -> P!Stages] /\ call' \in [Batches -> P!Stages]
      /\ result \in [Batches -> P!Results]
      /\ \A c \in Batches : call'[c] # "returned" => result'[c] = "none"
      /\ \A c \in Batches : call[c] # "returned" => result[c] = "none"
  BY DEF P!Inv, P!ClientTypeOK, P!Stages, P!Results
<1>2. b \in M!Active /\ UNCHANGED <<requests, sent>>
  BY DEF M!Progress, M!Break, M!ReceiveHead, M!Chunk, M!End, M!Active
<1>3. ASSUME NEW value \in M!UpstreamErrors \cup {"absent", "profiles"}, M!Return(b, value)
      PROVE  /\ call' = [call EXCEPT ![b] = "returned"]
             /\ result'[b] # "none"
  BY <1>1, <1>3 DEF M!Return, M!Leave, M!UpstreamErrors
<1>4. \/ /\ call' = [call EXCEPT ![b] = "returned"]
         /\ result'[b] # "none"
      \/ /\ call' = [call EXCEPT ![b] = "reading"]
         /\ UNCHANGED result
  <2>1. ASSUME NEW error \in {"timeout", "transport"}, M!Break(b, error)
        PROVE  M!Return(b, error)
    BY <2>1 DEF M!Break, M!Fail
  <2>2. CASE M!Return(b, "invalid_response")
    BY <1>3, <2>2 DEF M!UpstreamErrors
  <2>3. ASSUME NEW status, NEW length, M!ReceiveHead(b, status, length),
               ~M!Return(b, "invalid_response")
        PROVE  call' = [call EXCEPT ![b] = "reading"] /\ UNCHANGED result
    BY <2>3 DEF M!ReceiveHead, M!Fail
  <2>4. ASSUME NEW size, M!Chunk(b, size), ~M!Return(b, "invalid_response")
        PROVE  call' = [call EXCEPT ![b] = "reading"] /\ UNCHANGED result
    BY <1>1, <2>4 DEF M!Chunk, M!Fail
  <2>5. ASSUME NEW content \in M!Contents(b), M!End(b, content)
        PROVE  \E value \in M!UpstreamErrors \cup {"absent", "profiles"} : M!Return(b, value)
    <3>1. M!Return(b, M!Outcome(b, content))
      BY <2>5 DEF M!End, M!Fail
    <3>2. M!Outcome(b, content) \in M!UpstreamErrors \cup {"absent", "profiles"}
      BY DEF M!Outcome, M!UpstreamErrors
    <3> QED
      BY <3>1, <3>2
  <2> QED
    BY <1>3, <2>1, <2>2, <2>3, <2>4, <2>5 DEF M!Progress, M!UpstreamErrors
<1> QED
  BY <1>1, <1>2, <1>4 DEF M!Active

LEMMA InitOneCall == Init => OneCallPerBatch
BY DEF Init, B!Init, M!Init, OneCallPerBatch, M!Active

\* A task that ends takes its call with it, and no other.
LEMMA EndTaskOneCall ==
  ASSUME Collects, BP!OnePlace, OneCallPerBatch, NEW b \in B!Tasks, B!EndTask(b),
         UNCHANGED <<batches, usernames, requests, sent>>,
         M!Active' = M!Active \ {b}
  PROVE  OneCallPerBatch'
BY DEF B!EndTask, OneCallPerBatch

LEMMA NextOneCall ==
  ASSUME Collects, P!Inv, P!Inv', BP!OnePlace, OneCallPerBatch, [Next]_vars
  PROVE  OneCallPerBatch'
<1>0. ready \cap calling = {}
  BY DEF BP!OnePlace
<1>1. ASSUME NEW b \in ready, ProcessBatch(b)
      PROVE  OneCallPerBatch'
  <2>1. CASE B!Awaited(b) = {}
    <3>1. UNCHANGED <<batches, usernames>> /\ calling' = calling \ {b} /\ UNCHANGED clientVars
      BY <1>1, <2>1 DEF ProcessBatch, B!ProcessBatch, B!EndTask
    <3>2. calling' = calling
      BY <1>0, <3>1
    <3> QED
      BY <3>1, <3>2 DEF OneCallPerBatch, M!Active, clientVars
  <2>2. CASE B!Awaited(b) # {}
    <3> DEFINE live == B!Awaited(b)
    <3>1. live \in Batches
      BY <2>2, AwaitedIsBatch
    <3>2. /\ calling' = calling \cup {live}
          /\ batches' = batches + 1
          /\ usernames' = usernames + Cardinality(live)
      BY <1>1, <2>2 DEF ProcessBatch, B!ProcessBatch, B!Cardinality, Cardinality
    <3>3. M!Begin(live)
      BY <1>1, <2>2 DEF ProcessBatch
    <3> HIDE DEF live
    <3>4. /\ requests' = requests + 1
          /\ sent' = sent + Cardinality(live)
      BY <3>1, <3>3 DEF M!Begin
    <3>5. M!Active' = M!Active \cup {live}
      <4>1. call' = [call EXCEPT ![live] = "sending"]
        BY <3>3 DEF M!Begin
      <4>2. call \in [Batches -> P!Stages]
        BY DEF P!Inv, P!ClientTypeOK, P!Stages
      <4> QED
        BY <3>1, <4>1, <4>2 DEF M!Active
    <3> QED
      BY <3>2, <3>4, <3>5 DEF OneCallPerBatch
  <2> QED
    BY <2>1, <2>2
<1>2. ASSUME NEW b \in calling, Upstream(b)
      PROVE  OneCallPerBatch'
  <2>1. b \in Batches /\ M!Progress(b) /\ b \in B!Tasks
    BY <1>2 DEF Upstream, Collects, B!Tasks
  <2>2. /\ b \in M!Active
        /\ \A c \in Batches : c # b => (c \in M!Active' <=> c \in M!Active)
        /\ b \in M!Active' <=> result'[b] = "none"
        /\ UNCHANGED <<requests, sent>>
    BY <2>1, ProgressEnds
  <2>3. M!Active \subseteq Batches /\ M!Active' \subseteq Batches
    BY DEF M!Active
  <2>4. CASE result'[b] = "none"
    <3>1. M!Active' = M!Active
      BY <2>2, <2>3, <2>4
    <3>2. UNCHANGED batchVars
      BY <1>2, <2>4 DEF Upstream, M!UpstreamErrors
    <3> QED
      BY <2>2, <3>1, <3>2 DEF OneCallPerBatch, batchVars
  <2>5. CASE result'[b] # "none"
    <3>1. M!Active' = M!Active \ {b}
      BY <2>2, <2>3, <2>5
    <3>2. B!EndTask(b) /\ UNCHANGED <<batches, usernames>>
      BY <1>2, <2>5 DEF Upstream, B!Resolve, B!Reject
    <3> QED
      BY <2>1, <2>2, <3>1, <3>2, EndTaskOneCall
  <2> QED
    BY <2>4, <2>5
<1>3. ASSUME NEW b \in B!Tasks, Panic(b) \/ Cancel(b)
      PROVE  OneCallPerBatch'
  <2>1. B!EndTask(b) /\ UNCHANGED <<batches, usernames>> /\ DropCall(b)
    BY <1>3 DEF Panic, Cancel, B!Panic, B!Cancel
  <2>2. UNCHANGED <<requests, sent>>
    BY <2>1 DEF DropCall, M!Drop, clientVars
  <2>3. M!Active' = M!Active \ {b}
    <3>1. CASE b \in M!Active
      <4>1. call' = [call EXCEPT ![b] = "dropped"]
        BY <2>1, <3>1 DEF DropCall, M!Drop, M!Leave
      <4>2. call \in [Batches -> P!Stages]
        BY DEF P!Inv, P!ClientTypeOK, P!Stages
      <4> QED
        BY <4>1, <4>2 DEF M!Active
    <3>2. CASE b \notin M!Active
      BY <2>1, <3>2 DEF DropCall, clientVars, M!Active
    <3> QED
      BY <3>1, <3>2
  <2> QED
    BY <2>1, <2>2, <2>3, EndTaskOneCall
<1>4. CASE Other
  <2>1. UNCHANGED <<calling, batches, usernames>>
    BY <1>4 DEF Other, B!Callers, B!Send, B!SendRefused, B!Abandon, B!Loop, B!Receive,
                B!Tick, B!Close, B!Drained, B!Spawn, B!Stop, B!Shutdown, B!Abort
  <2> QED
    BY <1>4, <2>1 DEF Other, OneCallPerBatch, M!Active, clientVars
<1>5. CASE UNCHANGED vars
  BY <1>5 DEF vars, batchVars, clientVars, OneCallPerBatch, M!Active
<1> QED
  BY <1>1, <1>2, <1>3, <1>4, <1>5 DEF Next, B!Tasks

\* One call for every running task and none without, whatever ends first; the
\* two halves of the report count the same batches and the same names.
THEOREM OneCallPerBatchHolds == Spec => []OneCallPerBatch
<1>1. Spec => []Collects
  BY InitCollects, NextCollects, PTL DEF Spec
<1> QED
  BY <1>1, ClientHolds, ProcessorHolds, InitOneCall, NextOneCall, PTL DEF Spec

-----------------------------------------------------------------------------
(* AnswersAreMojangs.                                                      *)

LEMMA InitAnswers == Init => AnswersAreMojangs
<1>1. "none" \notin B!Values
  BY ProcessorAssumption DEF B!AnswerAssumption, B!Unanswered
<1> QED
  BY <1>1 DEF Init, B!Init, AnswersAreMojangs

\* What is told to nobody else and is no value needs no word of Mojang's.
LEMMA NoNewAnswer ==
  ASSUME AnswersAreMojangs, UNCHANGED said,
         \A l \in Lookups :
           response'[l] \in {response[l]} \cup M!UpstreamErrors
                              \cup {"open", "refused", "closed", "lost"}
  PROVE  AnswersAreMojangs'
<1>1. B!Values \cap (M!UpstreamErrors \cup {"open", "refused", "closed", "lost"}) = {}
  BY ProcessorAssumption DEF B!AnswerAssumption, B!Unanswered
<1>2. B!Values' = B!Values
  BY DEF B!Values
<1> QED
  BY <1>1, <1>2 DEF AnswersAreMojangs

LEMMA NextAnswers ==
  ASSUME Collects, BP!Shape, BP!Unsettled, AnswersAreMojangs, [Next]_vars
  PROVE  AnswersAreMojangs'
<1>1. ASSUME NEW b \in ready, ProcessBatch(b)
      PROVE  AnswersAreMojangs'
  BY <1>1, NoNewAnswer DEF ProcessBatch, B!ProcessBatch
<1>2. ASSUME NEW b \in calling, Upstream(b)
      PROVE  AnswersAreMojangs'
  <2>1. ASSUME NEW answer \in Answers, B!Resolve(b, answer.found),
               said' = [l \in Lookups |-> IF l \in b
                          THEN answer.says[NameOf[l]] ELSE said[l]]
        PROVE  AnswersAreMojangs'
    <3> SUFFICES ASSUME NEW l \in Lookups, response'[l] \in B!Values
                 PROVE  response'[l] = said'[l]
      BY DEF AnswersAreMojangs, B!Values
    <3>1. response' = B!Answered(b, [m \in b |-> B!UuidIn(answer.found, NameOf[m])])
      BY <2>1 DEF B!Resolve
    <3>2. CASE l \notin b
      BY <2>1, <3>1, <3>2 DEF B!Answered, AnswersAreMojangs
    <3>3. CASE l \in b
      <4>1. response[l] \in {"open", "closed"}
        BY <3>3 DEF BP!Unsettled, BP!Tasks
      <4>2. "closed" \notin B!Values
        BY ProcessorAssumption DEF B!AnswerAssumption, B!Unanswered
      <4>3. response'[l] = B!UuidIn(answer.found, NameOf[l])
        BY <3>1, <3>3, <4>1, <4>2 DEF B!Answered
      <4>4. PICK profiles \in SeqOf(Profile, MaxProfiles) :
               answer = [found |-> Collected(profiles),
                         says |-> [n \in Names |-> SaysOf(profiles, n)]]
        BY DEF Answers
      <4>5. NameOf[l] \in Names
        BY ProcessorAssumption DEF B!LookupAssumption
      <4>6. B!UuidIn(Collected(profiles), NameOf[l]) = SaysOf(profiles, NameOf[l])
        BY <4>5, CollectedSays
      <4>7. said'[l] = SaysOf(profiles, NameOf[l])
        BY <2>1, <3>3, <4>4, <4>5
      <4> QED
        BY <4>3, <4>4, <4>6, <4>7
    <3> QED
      BY <3>2, <3>3
  <2>2. ASSUME B!Reject(b, result'[b]), result'[b] \in M!UpstreamErrors, UNCHANGED said
        PROVE  AnswersAreMojangs'
    BY <2>2, NoNewAnswer DEF B!Reject, B!Answered
  <2>3. CASE UNCHANGED <<batchVars, said>>
    BY <2>3, NoNewAnswer DEF batchVars
  <2> QED
    BY <1>2, <2>1, <2>2, <2>3 DEF Upstream
<1>3. ASSUME NEW b, Panic(b) \/ Cancel(b)
      PROVE  AnswersAreMojangs'
  BY <1>3, NoNewAnswer DEF Panic, Cancel, B!Panic, B!Cancel, B!Dropped
<1>4. CASE Other
  <2>1. CASE B!Callers
    BY <1>4, <2>1, NoNewAnswer DEF Other, B!Callers, B!Send, B!SendRefused, B!Abandon, BP!Shape
  <2>2. CASE B!Loop \/ B!Shutdown
    BY <1>4, <2>2, NoNewAnswer DEF Other, B!Loop, B!Receive, B!Tick, B!Close, B!Drained,
                                   B!Spawn, B!Stop, B!Shutdown
  <2>3. CASE B!Abort
    BY <1>4, <2>3, NoNewAnswer DEF Other, B!Abort, B!Dropped
  <2> QED
    BY <1>4, <2>1, <2>2, <2>3 DEF Other
<1>5. CASE UNCHANGED vars
  BY <1>5, NoNewAnswer DEF vars, batchVars
<1> QED
  BY <1>1, <1>2, <1>3, <1>4, <1>5 DEF Next

\* Each lookup is answered with what Mojang said of its own name, however its
\* response orders, repeats and spells the names (batch.rs:297-316).
THEOREM AnswersAreMojangsHolds == Spec => []AnswersAreMojangs
<1>1. Spec => []Collects
  BY InitCollects, NextCollects, PTL DEF Spec
<1> QED
  BY <1>1, ProcessorHolds, InitAnswers, NextAnswers, PTL DEF Spec
=============================================================================
