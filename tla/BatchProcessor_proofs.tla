------------------------ MODULE BatchProcessor_proofs ------------------------
(***************************************************************************)
(* Proofs about BatchProcessor, for every set of lookups and every         *)
(* configuration that BatchConfig::new accepts.                            *)
(*                                                                         *)
(* The inductive invariant is built in layers, each proved from the ones   *)
(* before it:                                                              *)
(*   Shape       the variables are well formed and the sets are finite     *)
(*   Placed      a lookup is in one place, and every task holds lookups    *)
(*   PermitAccounting  permits and tasks add up, hence TypeOK              *)
(*   BatchBound  no batch is too large                                     *)
(*   Unsettled   nothing holds a lookup that has its answer                *)
(*   Shelter     a waiting lookup is somewhere, and the phase of the loop  *)
(*               says where nothing can be any more                        *)
(*   Capacity    the channel is bounded, and the loop holds one batch only *)
(***************************************************************************)
EXTENDS BatchProcessor, FiniteSetTheorems, TLAPS

-----------------------------------------------------------------------------
(* Shape.                                                                  *)

Shape ==
  /\ response \in [Lookups -> Responses]
  /\ queue \in Seq(Lookups)
  /\ shutdown \in BOOLEAN
  /\ loop \in Loops
  /\ pending \in SUBSET Lookups
  /\ held \in SUBSET Lookups
  /\ permits \in Nat
  /\ ready \in SUBSET SUBSET Lookups
  /\ calling \in SUBSET SUBSET Lookups
  /\ batches \in Nat
  /\ usernames \in Nat
  /\ panicked \in BOOLEAN
  /\ IsFiniteSet(pending)
  /\ IsFiniteSet(held)
  /\ IsFiniteSet(ready)
  /\ IsFiniteSet(calling)
  /\ \A b \in ready \cup calling : IsFiniteSet(b)

\* What process_batch reads for a name is a uuid that Mojang reported or None.
LEMMA UuidInValues ==
  ASSUME NEW b, NEW profiles \in Profiles(b), NEW name
  PROVE  UuidIn(profiles, name) \in Values
<1>1. PICK found \in SUBSET NamesIn(b) : profiles \in [found -> Uuids]
  BY DEF Profiles
<1> QED
  BY <1>1 DEF UuidIn, Values

\* Answering and dropping keep the oneshots well formed.
LEMMA AnsweredShape ==
  ASSUME Shape, NEW b, NEW answer, \A l \in b : answer[l] \in Responses
  PROVE  Answered(b, answer) \in [Lookups -> Responses]
BY DEF Answered, Shape

LEMMA DroppedShape ==
  ASSUME Shape, NEW S
  PROVE  Dropped(S) \in [Lookups -> Responses]
BY DEF Dropped, Shape, Responses, Unanswered

\* The lookups that retain keeps are a finite part of the batch.
LEMMA AwaitedShape ==
  ASSUME NEW b \in SUBSET Lookups, IsFiniteSet(b)
  PROVE  /\ Awaited(b) \in SUBSET b
         /\ IsFiniteSet(Awaited(b))
         /\ Cardinality(Awaited(b)) \in Nat
         /\ Cardinality(Awaited(b)) <= Cardinality(b)
<1>1. Awaited(b) \in SUBSET b
  BY DEF Awaited
<1> QED
  BY <1>1, FS_Subset, FS_CardinalityType

\* Init and every step of the processor keep the variables well formed.
LEMMA InitShape == Init => Shape
<1> SUFFICES ASSUME Init
             PROVE  Shape
  OBVIOUS
<1>1. permits \in Nat
  BY ConfigAssumption DEF Init
<1>2. response \in [Lookups -> Responses] /\ loop \in Loops
  BY DEF Init, Responses, Unanswered, Loops
<1>3. IsFiniteSet({})
  BY FS_EmptySet
<1>4. queue \in Seq(Lookups)
  BY DEF Init
<1>5. /\ ready = {} /\ calling = {} /\ pending = {} /\ held = {}
      /\ batches \in Nat /\ usernames \in Nat
      /\ shutdown \in BOOLEAN /\ panicked \in BOOLEAN
  BY DEF Init
<1> QED
  BY <1>1, <1>2, <1>3, <1>4, <1>5 DEF Shape

LEMMA EndTaskShape ==
  ASSUME Shape, NEW b, EndTask(b)
  PROVE  /\ permits' \in Nat
         /\ ready' \in SUBSET SUBSET Lookups
         /\ calling' \in SUBSET SUBSET Lookups
         /\ IsFiniteSet(ready')
         /\ IsFiniteSet(calling')
         /\ \A c \in ready' \cup calling' : IsFiniteSet(c)
BY FS_RemoveElement DEF Shape, EndTask

LEMMA NextShape ==
  ASSUME Shape, [Next]_vars
  PROVE  Shape'
<1> USE DEF Shape
<1>1. ASSUME NEW l \in Lookups, Send(l)
      PROVE  Shape'
  BY <1>1 DEF Send, Responses, Unanswered
<1>2. ASSUME NEW l \in Lookups, SendRefused(l)
      PROVE  Shape'
  BY <1>2 DEF SendRefused, Responses, Unanswered
<1>3. ASSUME NEW l \in Lookups, Abandon(l)
      PROVE  Shape'
  BY <1>3 DEF Abandon, Responses, Unanswered
<1>4. CASE Receive
  <2>1. Head(queue) \in Lookups /\ Tail(queue) \in Seq(Lookups)
    BY <1>4 DEF Receive
  <2>2. IsFiniteSet(pending \cup {Head(queue)})
    BY FS_AddElement
  <2> QED
    BY <1>4, <2>1, <2>2, FS_EmptySet DEF Receive, Collect
<1>5. CASE Tick
  BY <1>5, FS_EmptySet DEF Tick
<1>6. CASE Close
  BY <1>6 DEF Close, Loops
<1>7. CASE Drained
  BY <1>7, FS_EmptySet DEF Drained, Loops
<1>8. CASE Spawn
  <2>1. permits' \in Nat
    BY <1>8 DEF Spawn
  <2>2. IsFiniteSet(ready') /\ IsFiniteSet(held')
    BY <1>8, FS_EmptySet, FS_AddElement DEF Spawn
  <2>3. ready' \in SUBSET SUBSET Lookups
    BY <1>8 DEF Spawn
  <2>4. \A b \in ready' \cup calling' : IsFiniteSet(b)
    BY <1>8 DEF Spawn
  <2> QED
    BY <1>8, <2>1, <2>2, <2>3, <2>4 DEF Spawn
<1>9. CASE Stop
  BY <1>9 DEF Stop, Loops
<1>10. ASSUME NEW b \in ready, ProcessBatch(b)
       PROVE  Shape'
  <2>1. CASE Awaited(b) = {}
    BY <1>10, <2>1, EndTaskShape DEF ProcessBatch
  <2>2. CASE Awaited(b) # {}
    <3>1. /\ Awaited(b) \in SUBSET Lookups
          /\ IsFiniteSet(Awaited(b))
          /\ Cardinality(Awaited(b)) \in Nat
      BY AwaitedShape
    <3>2. IsFiniteSet(ready \ {b}) /\ IsFiniteSet(calling \cup {Awaited(b)})
      BY FS_AddElement, FS_RemoveElement
    <3>3. /\ ready' \in SUBSET SUBSET Lookups
          /\ calling' \in SUBSET SUBSET Lookups
          /\ IsFiniteSet(ready') /\ IsFiniteSet(calling')
      BY <1>10, <2>2, <3>1, <3>2 DEF ProcessBatch
    <3>4. \A c \in ready' \cup calling' : IsFiniteSet(c)
      BY <1>10, <2>2, <3>1 DEF ProcessBatch
    <3>5. batches' \in Nat /\ usernames' \in Nat
      BY <1>10, <2>2, <3>1 DEF ProcessBatch
    <3> QED
      BY <1>10, <2>2, <3>3, <3>4, <3>5 DEF ProcessBatch
  <2> QED
    BY <2>1, <2>2
<1>11. ASSUME NEW b \in calling, NEW profiles \in Profiles(b), Resolve(b, profiles)
       PROVE  Shape'
  <2>1. response' \in [Lookups -> Responses]
    BY <1>11, UuidInValues, AnsweredShape DEF Resolve, Responses
  <2> QED
    BY <1>11, <2>1, EndTaskShape DEF Resolve
<1>12. ASSUME NEW b \in calling, NEW error \in Errors, Reject(b, error)
       PROVE  Shape'
  <2>1. response' \in [Lookups -> Responses]
    BY <1>12, AnsweredShape DEF Reject, Responses
  <2> QED
    BY <1>12, <2>1, EndTaskShape DEF Reject
<1>13. ASSUME NEW b \in calling, Panic(b)
       PROVE  Shape'
  BY <1>13, DroppedShape, EndTaskShape DEF Panic
<1>14. ASSUME NEW b \in Tasks, Cancel(b)
       PROVE  Shape'
  BY <1>14, DroppedShape, EndTaskShape DEF Cancel
<1>15. CASE Shutdown
  BY <1>15 DEF Shutdown
<1>16. CASE Abort
  BY <1>16, DroppedShape, FS_EmptySet DEF Abort, Loops
<1>17. CASE UNCHANGED vars
  BY <1>17 DEF vars
<1> QED
  BY <1>1, <1>2, <1>3, <1>4, <1>5, <1>6, <1>7, <1>8, <1>9, <1>10, <1>11, <1>12,
     <1>13, <1>14, <1>15, <1>16, <1>17
     DEF Next, Callers, Loop, Task, Upstream

THEOREM ShapeCorrect == Spec => []Shape
BY InitShape, NextShape, PTL DEF Spec

-----------------------------------------------------------------------------
(* OnePlace.                                                               *)

\* The channel as a set: a send adds its lookup, a receive takes the first.
LEMMA RangeOfAppend ==
  ASSUME NEW S, NEW q \in Seq(S), NEW x \in S
  PROVE  /\ Range(Append(q, x)) = Range(q) \cup {x}
         /\ IsInjective(q) /\ x \notin Range(q) => IsInjective(Append(q, x))
<1>1. /\ Append(q, x) \in Seq(S)
      /\ Len(Append(q, x)) = Len(q) + 1
      /\ Len(q) \in Nat
      /\ \A i \in 1..Len(q) : Append(q, x)[i] = q[i]
      /\ Append(q, x)[Len(q) + 1] = x
      /\ DOMAIN q = 1..Len(q)
      /\ DOMAIN Append(q, x) = 1..(Len(q) + 1)
  OBVIOUS
<1>2. Range(Append(q, x)) \subseteq Range(q) \cup {x}
  BY <1>1 DEF Range
<1>3. Range(q) \cup {x} \subseteq Range(Append(q, x))
  <2>1. x \in Range(Append(q, x))
    <3>1. Len(q) + 1 \in DOMAIN Append(q, x)
      BY <1>1
    <3> QED
      BY <1>1, <3>1 DEF Range
  <2>2. ASSUME NEW i \in 1..Len(q)
        PROVE  q[i] \in Range(Append(q, x))
    <3>1. i \in DOMAIN Append(q, x) /\ Append(q, x)[i] = q[i]
      BY <1>1
    <3> QED
      BY <3>1 DEF Range
  <2> QED
    BY <1>1, <2>1, <2>2 DEF Range
<1>4. ASSUME IsInjective(q), x \notin Range(q)
      PROVE  IsInjective(Append(q, x))
  BY <1>1, <1>4 DEF Range, IsInjective
<1> QED
  BY <1>2, <1>3, <1>4

LEMMA RangeOfTail ==
  ASSUME NEW S, NEW q \in Seq(S), q # <<>>, IsInjective(q)
  PROVE  /\ Head(q) \in S
         /\ Head(q) \in Range(q)
         /\ Range(Tail(q)) = Range(q) \ {Head(q)}
         /\ IsInjective(Tail(q))
<1>1. /\ Tail(q) \in Seq(S)
      /\ Len(q) \in Nat \ {0}
      /\ Len(Tail(q)) = Len(q) - 1
      /\ \A i \in 1..(Len(q) - 1) : Tail(q)[i] = q[i + 1]
      /\ Head(q) = q[1]
      /\ Head(q) \in S
      /\ DOMAIN q = 1..Len(q)
      /\ DOMAIN Tail(q) = 1..(Len(q) - 1)
  OBVIOUS
<1>2. Head(q) \in Range(q)
  <2>1. 1 \in DOMAIN q
    BY <1>1
  <2> QED
    BY <1>1, <2>1 DEF Range
<1>3. ASSUME NEW i \in DOMAIN Tail(q)
      PROVE  Tail(q)[i] \in Range(q) \ {Head(q)}
  <2>1. i + 1 \in DOMAIN q /\ 1 \in DOMAIN q /\ i + 1 # 1
    BY <1>1
  <2>2. q[i + 1] # q[1]
    BY <2>1 DEF IsInjective
  <2> QED
    BY <1>1, <2>1, <2>2 DEF Range
<1>4. ASSUME NEW j \in DOMAIN q, q[j] # Head(q)
      PROVE  q[j] \in Range(Tail(q))
  <2>1. j - 1 \in DOMAIN Tail(q) /\ (j - 1) + 1 = j
    BY <1>1, <1>4
  <2>2. Tail(q)[j - 1] = q[j]
    BY <1>1, <2>1
  <2> QED
    BY <2>1, <2>2 DEF Range
<1>5. IsInjective(Tail(q))
  BY <1>1 DEF IsInjective
<1> QED
  BY <1>1, <1>2, <1>3, <1>4, <1>5 DEF Range

\* A lookup that was never sent is nowhere, and no task is empty.
Fresh == \A l \in Lookups : response[l] = "none" => l \notin Backlog \cup UNION Tasks

Placed ==
  /\ OnePlace
  /\ Fresh
  /\ {} \notin Tasks

\* A step that only takes lookups away from where they are keeps them placed.
LEMMA LessPlaced ==
  ASSUME Placed,
         IsInjective(queue'), Range(queue') \subseteq Range(queue),
         pending' \subseteq pending, held' \subseteq held,
         ready' \subseteq ready, calling' \subseteq calling,
         \A l \in Lookups : response'[l] = "none" => response[l] = "none"
  PROVE  Placed'
<1>1. Backlog' \subseteq Backlog /\ Tasks' \subseteq Tasks
  BY DEF Backlog, Tasks
<1>2. UNION Tasks' \subseteq UNION Tasks
  BY <1>1
<1>3. OnePlace'
  <2>1. /\ Range(queue') \cap (pending' \cup held') = {}
        /\ pending' \cap held' = {}
    BY DEF Placed, OnePlace
  <2>2. Backlog' \cap UNION Tasks' = {}
    BY <1>1, <1>2 DEF Placed, OnePlace
  <2>3. ready' \cap calling' = {}
    BY DEF Placed, OnePlace
  <2>4. \A b, c \in Tasks' : b # c => b \cap c = {}
    BY <1>1 DEF Placed, OnePlace
  <2> QED
    BY <2>1, <2>2, <2>3, <2>4 DEF OnePlace
<1>4. Fresh'
  BY <1>1, <1>2 DEF Placed, Fresh
<1>5. {} \notin Tasks'
  BY <1>1 DEF Placed
<1> QED
  BY <1>3, <1>4, <1>5 DEF Placed

\* A step that moves lookups within the backlog keeps them placed.
LEMMA MovedPlaced ==
  ASSUME Placed,
         IsInjective(queue'), Range(queue') \cap (pending' \cup held') = {},
         pending' \cap held' = {}, Backlog' = Backlog,
         UNCHANGED <<ready, calling, response>>
  PROVE  Placed'
BY DEF Placed, OnePlace, Fresh, Tasks

\* No answer is "none", nor does a dropped sender make it so.
LEMMA NoneStays ==
  ASSUME NEW l \in Lookups
  PROVE  /\ \A b, answer :
              /\ \A m \in b : answer[m] \in Values \cup Errors
              /\ Answered(b, answer)[l] = "none"
              => response[l] = "none"
         /\ \A S : Dropped(S)[l] = "none" => response[l] = "none"
<1>1. "none" \notin Values \cup Errors
  BY AnswerAssumption DEF Unanswered
<1> QED
  BY <1>1 DEF Answered, Dropped

LEMMA InitPlaced == Init => Placed
BY DEF Init, Placed, OnePlace, Fresh, Backlog, Tasks, Range, IsInjective

LEMMA NextPlaced ==
  ASSUME Shape, Placed, [Next]_vars
  PROVE  Placed'
<1>1. ASSUME NEW l \in Lookups, Send(l)
      PROVE  Placed'
  <2>1. l \notin Backlog \cup UNION Tasks
    BY <1>1 DEF Send, Placed, Fresh
  <2>2. Range(queue') = Range(queue) \cup {l} /\ IsInjective(queue')
    BY <1>1, <2>1, RangeOfAppend DEF Send, Shape, Placed, OnePlace, Backlog
  <2>3. Backlog' = Backlog \cup {l} /\ Tasks' = Tasks
    BY <1>1, <2>2 DEF Send, Backlog, Tasks
  <2>4. OnePlace'
    BY <1>1, <2>1, <2>2, <2>3 DEF Send, Placed, OnePlace, Backlog
  <2>5. Fresh'
    BY <1>1, <2>3 DEF Send, Placed, Fresh, Shape
  <2> QED
    BY <2>3, <2>4, <2>5 DEF Placed
<1>2. ASSUME NEW l \in Lookups, SendRefused(l)
      PROVE  Placed'
  BY <1>2, LessPlaced DEF SendRefused, Placed, OnePlace, Shape
<1>3. ASSUME NEW l \in Lookups, Abandon(l)
      PROVE  Placed'
  BY <1>3, LessPlaced DEF Abandon, Placed, OnePlace, Shape
<1>4. CASE Receive
  <2> DEFINE l == Head(queue)
  <2>1. /\ l \in Range(queue)
        /\ Range(queue') = Range(queue) \ {l}
        /\ IsInjective(queue')
    BY <1>4, RangeOfTail DEF Receive, Shape, Placed, OnePlace
  <2>2. pending' \cup held' = pending \cup {l} /\ pending' \cap held' = {}
    BY <1>4 DEF Receive, Collect
  <2>3. Backlog' = Backlog
    BY <1>4, <2>1, <2>2 DEF Receive, Backlog
  <2>4. Range(queue') \cap (pending' \cup held') = {}
    BY <2>1, <2>2 DEF Placed, OnePlace
  <2> QED
    BY <1>4, <2>1, <2>2, <2>3, <2>4, MovedPlaced DEF Receive
<1>5. CASE Tick
  BY <1>5, MovedPlaced DEF Tick, Placed, OnePlace, Backlog
<1>6. CASE Close
  BY <1>6, LessPlaced DEF Close, Placed, OnePlace
<1>7. CASE Drained
  BY <1>7, MovedPlaced DEF Drained, Placed, OnePlace, Backlog
<1>8. CASE Spawn
  <2>1. /\ Backlog' = Range(queue) \cup pending
        /\ Backlog = Backlog' \cup held
        /\ Tasks' = Tasks \cup {held}
        /\ UNION Tasks' = (UNION Tasks) \cup held
    <3>1. Backlog' = Range(queue) \cup pending
      BY <1>8 DEF Spawn, Backlog
    <3>2. Tasks' = Tasks \cup {held}
      BY <1>8 DEF Spawn, Tasks
    <3>3. UNION (Tasks \cup {held}) = (UNION Tasks) \cup held
      OBVIOUS
    <3>4. Backlog = (Range(queue) \cup pending) \cup held
      BY DEF Backlog
    <3> QED
      BY <3>1, <3>2, <3>3, <3>4
  <2>2. held \cap UNION Tasks = {} /\ held \notin Tasks
    BY <1>8, <2>1 DEF Spawn, Placed, OnePlace
  <2>3. OnePlace'
    <3>1. ready' \cap calling' = {}
      BY <1>8, <2>2 DEF Spawn, Placed, OnePlace, Tasks
    <3>2. Backlog' \cap UNION Tasks' = {}
      BY <2>1 DEF Placed, OnePlace, Backlog
    <3>3. \A b, c \in Tasks' : b # c => b \cap c = {}
      BY <2>1, <2>2 DEF Placed, OnePlace
    <3> QED
      BY <1>8, <3>1, <3>2, <3>3 DEF Spawn, Placed, OnePlace
  <2>4. Fresh'
    BY <1>8, <2>1 DEF Spawn, Placed, Fresh
  <2> QED
    BY <1>8, <2>1, <2>3, <2>4 DEF Spawn, Placed
<1>9. CASE Stop
  BY <1>9, LessPlaced DEF Stop, Placed, OnePlace
<1>10. ASSUME NEW b \in ready, ProcessBatch(b)
       PROVE  Placed'
  <2>1. CASE Awaited(b) = {}
    BY <1>10, <2>1, LessPlaced DEF ProcessBatch, EndTask, Placed, OnePlace
  <2>2. CASE Awaited(b) # {}
    <3> DEFINE live == Awaited(b)
    <3>1. live \subseteq b /\ live # {} /\ b \in Tasks
      BY <2>2 DEF Awaited, Tasks
    <3>2. Tasks' = (Tasks \ {b}) \cup {live} /\ Backlog' = Backlog
      BY <1>10, <2>2 DEF ProcessBatch, Tasks, Backlog, Placed, OnePlace
    <3>3. UNION Tasks' \subseteq UNION Tasks
      BY <3>1, <3>2
    <3>4. \A c \in Tasks \ {b} : c \cap live = {}
      BY <3>1 DEF Placed, OnePlace
    <3>5. OnePlace'
      <4>1. ready' \cap calling' = {}
        <5>1. live \notin ready \ {b}
          BY <3>1, <3>4 DEF Tasks
        <5> QED
          BY <1>10, <2>2, <5>1 DEF ProcessBatch, Placed, OnePlace
      <4>2. Backlog' \cap UNION Tasks' = {}
        BY <3>2, <3>3 DEF Placed, OnePlace
      <4>3. \A c, d \in Tasks' : c # d => c \cap d = {}
        BY <3>2, <3>4 DEF Placed, OnePlace
      <4> QED
        BY <1>10, <4>1, <4>2, <4>3 DEF ProcessBatch, Placed, OnePlace
    <3>6. Fresh'
      BY <1>10, <3>2, <3>3 DEF ProcessBatch, Placed, Fresh
    <3> QED
      BY <3>1, <3>2, <3>5, <3>6 DEF Placed
  <2> QED
    BY <2>1, <2>2
<1>11. ASSUME NEW b \in calling, NEW profiles \in Profiles(b), Resolve(b, profiles)
       PROVE  Placed'
  <2> DEFINE answer == [l \in b |-> UuidIn(profiles, NameOf[l])]
  <2>1. \A l \in b : answer[l] \in Values \cup Errors
    BY UuidInValues
  <2>2. response' = Answered(b, answer)
    BY <1>11 DEF Resolve
  <2>3. \A l \in Lookups : response'[l] = "none" => response[l] = "none"
    BY <2>1, <2>2, NoneStays
  <2> QED
    BY <1>11, <2>3, LessPlaced DEF Resolve, EndTask, Placed, OnePlace
<1>12. ASSUME NEW b \in calling, NEW error \in Errors, Reject(b, error)
       PROVE  Placed'
  <2> DEFINE answer == [l \in b |-> error]
  <2>1. \A l \in b : answer[l] \in Values \cup Errors
    OBVIOUS
  <2>2. response' = Answered(b, answer)
    BY <1>12 DEF Reject
  <2>3. \A l \in Lookups : response'[l] = "none" => response[l] = "none"
    BY <2>1, <2>2, NoneStays
  <2> QED
    BY <1>12, <2>3, LessPlaced DEF Reject, EndTask, Placed, OnePlace
<1>13. ASSUME NEW b \in calling, Panic(b)
       PROVE  Placed'
  <2>1. \A l \in Lookups : response'[l] = "none" => response[l] = "none"
    BY <1>13, NoneStays DEF Panic
  <2> QED
    BY <1>13, <2>1, LessPlaced DEF Panic, EndTask, Placed, OnePlace
<1>14. ASSUME NEW b \in Tasks, Cancel(b)
       PROVE  Placed'
  <2>1. \A l \in Lookups : response'[l] = "none" => response[l] = "none"
    BY <1>14, NoneStays DEF Cancel
  <2> QED
    BY <1>14, <2>1, LessPlaced DEF Cancel, EndTask, Placed, OnePlace
<1>15. CASE Shutdown
  BY <1>15, LessPlaced DEF Shutdown, Placed, OnePlace
<1>16. CASE Abort
  <2>1. \A l \in Lookups : response'[l] = "none" => response[l] = "none"
    BY <1>16, NoneStays DEF Abort
  <2>2. Range(queue') = {} /\ IsInjective(queue')
    BY <1>16 DEF Abort, Range, IsInjective
  <2> QED
    BY <1>16, <2>1, <2>2, LessPlaced DEF Abort
<1>17. CASE UNCHANGED vars
  BY <1>17, LessPlaced DEF vars, Placed, OnePlace
<1> QED
  BY <1>1, <1>2, <1>3, <1>4, <1>5, <1>6, <1>7, <1>8, <1>9, <1>10, <1>11, <1>12,
     <1>13, <1>14, <1>15, <1>16, <1>17
     DEF Next, Callers, Loop, Task, Upstream

\* A sent lookup is in one place at a time, however far the loop, the tasks
\* and the callers that leave have got (batch.rs:190-282).
THEOREM OnePlaceHolds == Spec => []OnePlace
<1>1. Spec => []Placed
  BY ShapeCorrect, InitPlaced, NextPlaced, PTL DEF Spec
<1>2. Placed => OnePlace
  BY DEF Placed
<1> QED
  BY <1>1, <1>2, PTL

-----------------------------------------------------------------------------
(* Accounting.                                                             *)

\* A task that ends gives its permit back, once.
LEMMA EndTaskAccounting ==
  ASSUME Shape, Placed, PermitAccounting, NEW b \in Tasks, EndTask(b)
  PROVE  PermitAccounting'
<1>1. /\ Cardinality(ready) \in Nat /\ Cardinality(calling) \in Nat
      /\ Cardinality(ready \ {b}) =
           IF b \in ready THEN Cardinality(ready) - 1 ELSE Cardinality(ready)
      /\ Cardinality(calling \ {b}) =
           IF b \in calling THEN Cardinality(calling) - 1 ELSE Cardinality(calling)
  BY FS_CardinalityType, FS_RemoveElement DEF Shape
<1>2. (b \in ready /\ b \notin calling) \/ (b \notin ready /\ b \in calling)
  BY DEF Tasks, Placed, OnePlace
<1>3. permits \in Nat /\ MaxInFlight \in Nat
  BY ConfigAssumption DEF Shape
<1> QED
  BY <1>1, <1>2, <1>3 DEF EndTask, PermitAccounting

LEMMA InitAccounting == Init => PermitAccounting
BY FS_EmptySet, ConfigAssumption DEF Init, PermitAccounting

LEMMA NextAccounting ==
  ASSUME Shape, Placed, PermitAccounting, [Next]_vars
  PROVE  PermitAccounting'
<1>1. CASE Callers \/ Receive \/ Tick \/ Close \/ Drained \/ Stop \/ Shutdown
           \/ Abort \/ UNCHANGED vars
  BY <1>1 DEF Callers, Send, SendRefused, Abandon, Receive, Tick, Close, Drained,
              Stop, Shutdown, Abort, vars, PermitAccounting
<1>2. CASE Spawn
  <2>1. held \notin ready
    BY <1>2 DEF Spawn, Placed, OnePlace, Backlog, Tasks
  <2>2. Cardinality(ready') = Cardinality(ready) + 1
    BY <1>2, <2>1, FS_AddElement DEF Spawn, Shape
  <2>3. Cardinality(ready) \in Nat /\ Cardinality(calling) \in Nat /\ permits \in Nat
    BY FS_CardinalityType DEF Shape
  <2> QED
    BY <1>2, <2>2, <2>3, ConfigAssumption DEF Spawn, PermitAccounting
<1>3. ASSUME NEW b \in ready, ProcessBatch(b)
      PROVE  PermitAccounting'
  <2>1. CASE Awaited(b) = {}
    BY <1>3, <2>1, EndTaskAccounting DEF ProcessBatch, Tasks
  <2>2. CASE Awaited(b) # {}
    <3>1. Awaited(b) \notin calling
      <4>1. ASSUME Awaited(b) \in calling
            PROVE  FALSE
        <5>1. b # Awaited(b)
          BY <4>1 DEF Placed, OnePlace
        <5>2. b \cap Awaited(b) = {}
          BY <4>1, <5>1 DEF Placed, OnePlace, Tasks
        <5> QED
          BY <2>2, <5>2 DEF Awaited
      <4> QED
        BY <4>1
    <3>2. /\ Cardinality(calling') = Cardinality(calling) + 1
          /\ Cardinality(ready') = Cardinality(ready) - 1
      BY <1>3, <2>2, <3>1, FS_AddElement, FS_RemoveElement DEF ProcessBatch, Shape
    <3>3. Cardinality(ready) \in Nat /\ Cardinality(calling) \in Nat /\ permits \in Nat
      BY FS_CardinalityType DEF Shape
    <3> QED
      BY <1>3, <2>2, <3>2, <3>3, ConfigAssumption DEF ProcessBatch, PermitAccounting
  <2> QED
    BY <2>1, <2>2
<1>4. ASSUME NEW b \in Tasks, EndTask(b)
      PROVE  PermitAccounting'
  BY <1>4, EndTaskAccounting
<1> QED
  BY <1>1, <1>2, <1>3, <1>4
     DEF Next, Loop, Task, Upstream, Resolve, Reject, Panic, Cancel, Tasks

\* A permit neither leaks nor is returned twice (batch.rs:263-270).
THEOREM PermitAccountingHolds == Spec => []PermitAccounting
<1>1. Spec => []Placed
  BY ShapeCorrect, InitPlaced, NextPlaced, PTL DEF Spec
<1> QED
  BY <1>1, ShapeCorrect, InitAccounting, NextAccounting, PTL DEF Spec

\* The variables have their types; that the permits never exceed what the
\* semaphore started with is the accounting above.
THEOREM TypeCorrect == Spec => []TypeOK
<1>1. Shape /\ PermitAccounting => TypeOK
  <2> SUFFICES ASSUME Shape, PermitAccounting
               PROVE  TypeOK
    OBVIOUS
  <2>1. Cardinality(ready) \in Nat /\ Cardinality(calling) \in Nat /\ permits \in Nat
    BY FS_CardinalityType DEF Shape
  <2>2. permits \in 0..MaxInFlight
    BY <2>1, ConfigAssumption DEF PermitAccounting
  <2> QED
    BY <2>2 DEF Shape, TypeOK
<1> QED
  BY <1>1, ShapeCorrect, PermitAccountingHolds, PTL

-----------------------------------------------------------------------------
(* BatchBound.                                                             *)

LEMMA InitBatchBound == Init => BatchBound
BY FS_EmptySet, ConfigAssumption DEF Init, BatchBound, Tasks

LEMMA NextBatchBound ==
  ASSUME Shape, Placed, BatchBound, [Next]_vars
  PROVE  BatchBound'
<1> USE ConfigAssumption
<1>1. CASE Callers \/ Close \/ Stop \/ Shutdown \/ UNCHANGED vars
  BY <1>1 DEF Callers, Send, SendRefused, Abandon, Close, Stop, Shutdown, vars,
              BatchBound, Tasks
<1>2. CASE Receive
  <2> DEFINE more == pending \cup {Head(queue)}
  <2>1. Cardinality(pending) \in Nat /\ Cardinality({}) = 0
    BY FS_CardinalityType, FS_EmptySet DEF Shape
  <2>2. Cardinality(more) \in Nat /\ Cardinality(more) <= Cardinality(pending) + 1
    <3>1. IsFiniteSet(pending)
      BY DEF Shape
    <3>2. Cardinality(more) = IF Head(queue) \in pending
                              THEN Cardinality(pending)
                              ELSE Cardinality(pending) + 1
      BY <3>1, FS_AddElement
    <3> QED
      BY <2>1, <3>2
  <2>3. Tasks' = Tasks
    BY <1>2 DEF Receive, Tasks
  <2>4. Cardinality(pending') < Size /\ Cardinality(held') <= Size
    BY <1>2, <2>1, <2>2 DEF Receive, Collect, BatchBound
  <2> QED
    BY <2>3, <2>4 DEF BatchBound
<1>3. CASE Tick \/ Drained
  <2>1. Cardinality(pending) \in Nat /\ Cardinality({}) = 0
    BY FS_CardinalityType, FS_EmptySet DEF Shape
  <2>2. Tasks' = Tasks /\ pending' = {} /\ held' = pending
    BY <1>3 DEF Tick, Drained, Tasks
  <2> QED
    BY <2>1, <2>2 DEF BatchBound
<1>4. CASE Spawn
  <2>1. Cardinality(held) \in Nat /\ Cardinality(held) # 0
    BY <1>4, FS_CardinalityType, FS_EmptySet DEF Shape, Spawn
  <2>2. Cardinality({}) = 0
    BY FS_EmptySet
  <2>3. Tasks' = Tasks \cup {held} /\ held' = {} /\ pending' = pending
    BY <1>4 DEF Spawn, Tasks
  <2> QED
    BY <2>1, <2>2, <2>3 DEF BatchBound
<1>5. ASSUME NEW b \in ready, ProcessBatch(b)
      PROVE  BatchBound'
  <2>1. Tasks' \subseteq Tasks \cup (IF Awaited(b) = {} THEN {} ELSE {Awaited(b)})
    BY <1>5 DEF ProcessBatch, EndTask, Tasks
  <2>2. ASSUME Awaited(b) # {}
        PROVE  Cardinality(Awaited(b)) \in 1..Size
    <3>1. /\ Awaited(b) \in SUBSET b /\ IsFiniteSet(Awaited(b))
          /\ Cardinality(Awaited(b)) \in Nat
          /\ Cardinality(Awaited(b)) <= Cardinality(b)
      BY AwaitedShape DEF Shape
    <3>2. Cardinality(Awaited(b)) # 0
      BY <2>2, <3>1, FS_EmptySet
    <3>3. Cardinality(b) \in 1..Size
      BY DEF BatchBound, Tasks
    <3> QED
      BY <3>1, <3>2, <3>3
  <2> QED
    BY <1>5, <2>1, <2>2 DEF ProcessBatch, BatchBound
<1>6. ASSUME NEW b \in Tasks, EndTask(b), UNCHANGED <<pending, held>>
      PROVE  BatchBound'
  BY <1>6 DEF EndTask, BatchBound, Tasks
<1>7. CASE Abort
  BY <1>7, FS_EmptySet DEF Abort, BatchBound, Tasks
<1> QED
  BY <1>1, <1>2, <1>3, <1>4, <1>5, <1>6, <1>7
     DEF Next, Loop, Task, Upstream, Resolve, Reject, Panic, Cancel, Tasks

\* No call to Mojang carries more names than BatchConfig::size, nor none.
THEOREM BatchBoundHolds == Spec => []BatchBound
<1>1. Spec => []Placed
  BY ShapeCorrect, InitPlaced, NextPlaced, PTL DEF Spec
<1> QED
  BY <1>1, ShapeCorrect, InitBatchBound, NextBatchBound, PTL DEF Spec

-----------------------------------------------------------------------------
(* Unsettled.                                                              *)

\* Whoever holds the sender of a lookup has not used it: an answer ends the
\* task that gives it, and one that was refused is held by nobody.
Unsettled == \A l \in Backlog \cup UNION Tasks : response[l] \in {"open", "closed"}

\* What is not told anything new stays so, as long as nothing is picked up.
LEMMA LessUnsettled ==
  ASSUME Unsettled,
         Backlog' \cup UNION Tasks' \subseteq Backlog \cup UNION Tasks,
         \A l \in Backlog' \cup UNION Tasks' :
           response'[l] \in {response[l], "open", "closed"}
  PROVE  Unsettled'
BY DEF Unsettled

\* A task that ends tells its own lookups, which nothing else holds.
LEMMA EndTaskUnsettled ==
  ASSUME Shape, Placed, Unsettled, NEW b \in Tasks, EndTask(b),
         UNCHANGED <<queue, pending, held>>,
         \A l \in Lookups : l \notin b => response'[l] = response[l]
  PROVE  Unsettled'
<1>1. Tasks' = Tasks \ {b} /\ Backlog' = Backlog
  BY DEF EndTask, Tasks, Backlog
<1>2. \A l \in Backlog \cup UNION (Tasks \ {b}) : l \notin b
  BY DEF Placed, OnePlace
<1>3. Range(queue) \subseteq Lookups
  BY DEF Shape, Range
<1>4. Backlog \cup UNION Tasks \subseteq Lookups
  BY <1>3 DEF Shape, Backlog, Tasks
<1> QED
  BY <1>1, <1>2, <1>4 DEF Unsettled

LEMMA InitUnsettled == Init => Unsettled
BY DEF Init, Unsettled, Backlog, Tasks, Range

LEMMA NextUnsettled ==
  ASSUME Shape, Placed, Unsettled, [Next]_vars
  PROVE  Unsettled'
<1>0. Range(queue) \subseteq Lookups
  BY DEF Shape, Range
<1>1. ASSUME NEW l \in Lookups, Send(l)
      PROVE  Unsettled'
  <2>1. Range(queue') = Range(queue) \cup {l}
    BY <1>1, RangeOfAppend DEF Send, Shape
  <2>2. Backlog' = Backlog \cup {l} /\ Tasks' = Tasks
    BY <1>1, <2>1 DEF Send, Backlog, Tasks
  <2>3. \A m \in Lookups : response'[m] \in {response[m], "open"}
    BY <1>1 DEF Send, Shape
  <2>4. response'[l] = "open"
    BY <1>1 DEF Send, Shape
  <2>5. Backlog \cup UNION Tasks \subseteq Lookups
    BY <1>0 DEF Shape, Backlog, Tasks
  <2> QED
    BY <2>2, <2>3, <2>4, <2>5 DEF Unsettled
<1>2. ASSUME NEW l \in Lookups, SendRefused(l) \/ Abandon(l)
      PROVE  Unsettled'
  <2>1. Backlog' = Backlog /\ Tasks' = Tasks
    BY <1>2 DEF SendRefused, Abandon, Backlog, Tasks
  <2>2. \A m \in Lookups : response[m] # "none" => response'[m] \in {response[m], "closed"}
    BY <1>2 DEF SendRefused, Abandon, Shape
  <2>3. Backlog \cup UNION Tasks \subseteq Lookups
    BY <1>0 DEF Shape, Backlog, Tasks
  <2> QED
    BY <2>1, <2>2, <2>3 DEF Unsettled
<1>3. CASE Receive
  <2>1. Range(queue') = Range(queue) \ {Head(queue)} /\ Head(queue) \in Range(queue)
    BY <1>3, RangeOfTail DEF Receive, Shape, Placed, OnePlace
  <2>2. pending' \cup held' = pending \cup {Head(queue)}
    BY <1>3 DEF Receive, Collect
  <2>3. Backlog' = Backlog /\ Tasks' = Tasks
    BY <1>3, <2>1, <2>2 DEF Receive, Backlog, Tasks
  <2> QED
    BY <1>3, <2>3, LessUnsettled DEF Receive
<1>4. CASE Tick \/ Close \/ Drained \/ Stop \/ Shutdown \/ UNCHANGED vars
  <2>1. Backlog' = Backlog /\ Tasks' = Tasks
    BY <1>4 DEF Tick, Close, Drained, Stop, Shutdown, vars, Backlog, Tasks
  <2> QED
    BY <1>4, <2>1, LessUnsettled DEF Tick, Close, Drained, Stop, Shutdown, vars
<1>5. CASE Spawn
  <2>1. Tasks' = Tasks \cup {held} /\ Backlog' = Range(queue) \cup pending
    BY <1>5 DEF Spawn, Tasks, Backlog
  <2>2. Backlog' \cup UNION Tasks' \subseteq Backlog \cup UNION Tasks
    BY <2>1 DEF Backlog
  <2> QED
    BY <1>5, <2>2, LessUnsettled DEF Spawn
<1>6. ASSUME NEW b \in ready, ProcessBatch(b)
      PROVE  Unsettled'
  <2>1. Backlog' = Backlog /\ response' = response
    BY <1>6 DEF ProcessBatch, Backlog
  <2>2. Tasks' \subseteq Tasks \cup {Awaited(b)} /\ b \in Tasks
    BY <1>6 DEF ProcessBatch, EndTask, Tasks
  <2>3. UNION Tasks' \subseteq UNION Tasks
    BY <2>2 DEF Awaited
  <2> QED
    BY <2>1, <2>3, LessUnsettled
<1>7. ASSUME NEW b \in Tasks, NEW answer, EndTask(b), UNCHANGED <<queue, pending, held>>,
             response' = Answered(b, answer) \/ response' = Dropped(b)
      PROVE  Unsettled'
  <2>1. \A l \in Lookups : l \notin b => response'[l] = response[l]
    BY <1>7 DEF Answered, Dropped
  <2> QED
    BY <1>7, <2>1, EndTaskUnsettled
<1>8. ASSUME NEW b \in calling, NEW profiles, Resolve(b, profiles)
      PROVE  Unsettled'
  BY <1>7, <1>8 DEF Resolve, Tasks
<1>9. ASSUME NEW b \in calling, NEW error, Reject(b, error)
      PROVE  Unsettled'
  BY <1>7, <1>9 DEF Reject, Tasks
<1>10. ASSUME NEW b \in Tasks, Cancel(b) \/ Panic(b)
       PROVE  Unsettled'
  BY <1>7, <1>10 DEF Cancel, Panic
<1>11. CASE Abort
  <2>1. Range(queue') = {}
    BY <1>11 DEF Abort, Range
  <2>2. Backlog' = {} /\ Tasks' = Tasks
    BY <1>11, <2>1 DEF Abort, Backlog, Tasks
  <2>3. \A l \in Lookups : l \notin Backlog => response'[l] = response[l]
    BY <1>11 DEF Abort, Dropped
  <2>4. \A l \in UNION Tasks : l \in Lookups /\ l \notin Backlog
    BY DEF Placed, OnePlace, Shape, Tasks
  <2> QED
    BY <2>2, <2>3, <2>4, LessUnsettled
<1> QED
  BY <1>1, <1>2, <1>3, <1>4, <1>5, <1>6, <1>8, <1>9, <1>10, <1>11
     DEF Next, Callers, Loop, Task, Upstream, Tasks

\* A sender that the channel, the loop or a task holds was not used yet, so that
\* no lookup is answered twice and none that was answered is carried on.
THEOREM UnsettledCorrect == Spec => []Unsettled
<1>1. Spec => []Placed
  BY ShapeCorrect, InitPlaced, NextPlaced, PTL DEF Spec
<1> QED
  BY <1>1, ShapeCorrect, InitUnsettled, NextUnsettled, PTL DEF Spec

-----------------------------------------------------------------------------
(* Shelter.                                                                *)

\* Where nothing can be any more once the loop has passed a point.
Phase ==
  /\ loop \in {"join", "done", "aborted"} => queue = <<>> /\ pending = {}
  /\ loop \in {"done", "aborted"} => held = {}
  /\ loop = "done" => Tasks = {}

Shelter == NobodyStranded /\ Phase /\ NothingLost

\* Ending a task shelters the callers of the others, if its own are told.
LEMMA EndTaskShelter ==
  ASSUME Shelter, Placed, NEW b \in Tasks, EndTask(b),
         UNCHANGED <<queue, loop, pending, held>>,
         \A l \in Lookups : response'[l] = "open" => response[l] = "open" /\ l \notin b,
         panicked => panicked',
         (\E l \in Lookups : response'[l] = "lost")
           => \/ \E l \in Lookups : response[l] = "lost"
              \/ panicked' \/ loop = "aborted"
  PROVE  Shelter'
<1>1. Tasks' = Tasks \ {b} /\ Backlog' = Backlog
  BY DEF EndTask, Tasks, Backlog
<1>2. NobodyStranded'
  BY <1>1 DEF Shelter, NobodyStranded
<1>3. Phase'
  BY <1>1 DEF Shelter, Phase
<1>4. NothingLost'
  BY DEF Shelter, NothingLost
<1> QED
  BY <1>2, <1>3, <1>4 DEF Shelter

LEMMA InitShelter == Init => Shelter
BY DEF Init, Shelter, NobodyStranded, Phase, NothingLost

LEMMA NextShelter ==
  ASSUME Shape, Placed, Shelter, [Next]_vars
  PROVE  Shelter'
<1> USE DEF Shelter
<1>1. ASSUME NEW l \in Lookups, Send(l)
      PROVE  Shelter'
  <2>1. Range(queue') = Range(queue) \cup {l}
    BY <1>1, RangeOfAppend DEF Send, Shape
  <2>2. Backlog' = Backlog \cup {l} /\ Tasks' = Tasks
    BY <1>1, <2>1 DEF Send, Backlog, Tasks
  <2>3. NobodyStranded' /\ NothingLost'
    BY <1>1, <2>2 DEF Send, NobodyStranded, NothingLost, Shape
  <2>4. Phase'
    BY <1>1 DEF Send, Accepting, Phase
  <2> QED
    BY <2>3, <2>4
<1>2. ASSUME NEW l \in Lookups, SendRefused(l) \/ Abandon(l)
      PROVE  Shelter'
  <2>1. Backlog' = Backlog /\ Tasks' = Tasks
    BY <1>2 DEF SendRefused, Abandon, Backlog, Tasks
  <2> QED
    BY <1>2, <2>1 DEF SendRefused, Abandon, NobodyStranded, NothingLost, Phase, Shape
<1>3. CASE Receive
  <2>1. Range(queue') = Range(queue) \ {Head(queue)}
    BY <1>3, RangeOfTail DEF Receive, Shape, Placed, OnePlace
  <2>2. Head(queue) \in Range(queue)
    BY <1>3, RangeOfTail DEF Receive, Shape, Placed, OnePlace
  <2>3. pending' \cup held' = pending \cup {Head(queue)}
    BY <1>3 DEF Receive, Collect
  <2>4. Backlog' = Backlog /\ Tasks' = Tasks
    BY <1>3, <2>1, <2>2, <2>3 DEF Receive, Backlog, Tasks
  <2>5. NobodyStranded' /\ NothingLost'
    BY <1>3, <2>4 DEF Receive, NobodyStranded, NothingLost
  <2>6. Phase'
    BY <1>3 DEF Receive, Phase
  <2> QED
    BY <2>5, <2>6
<1>4. CASE Tick \/ Close \/ Drained
  <2>1. Backlog' = Backlog /\ Tasks' = Tasks
    BY <1>4 DEF Tick, Close, Drained, Backlog, Tasks
  <2> QED
    BY <1>4, <2>1 DEF Tick, Close, Drained, NobodyStranded, NothingLost, Phase
<1>5. CASE Spawn
  <2>1. Tasks' = Tasks \cup {held} /\ Backlog' = Range(queue) \cup pending
    BY <1>5 DEF Spawn, Tasks, Backlog
  <2>2. NobodyStranded' /\ NothingLost'
    BY <1>5, <2>1 DEF Spawn, Backlog, NobodyStranded, NothingLost
  <2>3. Phase'
    BY <1>5 DEF Spawn, Phase
  <2> QED
    BY <2>2, <2>3
<1>6. CASE Stop
  <2>1. Backlog' = Backlog /\ Tasks' = Tasks
    BY <1>6 DEF Stop, Backlog, Tasks
  <2> QED
    BY <1>6, <2>1 DEF Stop, NobodyStranded, NothingLost, Phase
<1>7. ASSUME NEW b \in ready, ProcessBatch(b)
      PROVE  Shelter'
  <2>1. Backlog' = Backlog /\ response' = response
    BY <1>7 DEF ProcessBatch, Backlog
  <2>2. Tasks' = (Tasks \ {b}) \cup (IF Awaited(b) = {} THEN {} ELSE {Awaited(b)})
    BY <1>7 DEF ProcessBatch, EndTask, Tasks, Placed, OnePlace
  <2>3. NobodyStranded'
    <3> SUFFICES ASSUME NEW l \in Lookups, response[l] = "open"
                 PROVE  l \in Backlog' \cup UNION Tasks'
      BY <2>1 DEF NobodyStranded
    <3>1. CASE l \in Backlog
      BY <2>1, <3>1
    <3>2. CASE l \in b
      <4>1. l \in Awaited(b)
        BY <3>2 DEF Awaited
      <4> QED
        BY <2>2, <4>1
    <3>3. CASE \E c \in Tasks \ {b} : l \in c
      BY <2>2, <3>3
    <3> QED
      BY <3>1, <3>2, <3>3 DEF NobodyStranded
  <2>4. Phase' /\ NothingLost'
    BY <1>7 DEF ProcessBatch, Phase, NothingLost, Tasks
  <2> QED
    BY <2>3, <2>4
<1>8. ASSUME NEW b \in calling, NEW answer,
             \A l \in b : answer[l] \in Values \cup Errors,
             response' = Answered(b, answer), EndTask(b),
             UNCHANGED <<queue, loop, pending, held, panicked>>
      PROVE  Shelter'
  <2>1. \A l \in b : answer[l] \notin {"open", "lost"}
    BY <1>8, AnswerAssumption DEF Unanswered
  <2> QED
    BY <1>8, <2>1, EndTaskShelter DEF Answered, Tasks
<1>9. ASSUME NEW b \in Tasks, response' = Dropped(b), EndTask(b),
             UNCHANGED <<queue, loop, pending, held>>,
             panicked => panicked', panicked' \/ loop = "aborted"
      PROVE  Shelter'
  BY <1>9, EndTaskShelter DEF Dropped
<1>10. CASE Shutdown \/ UNCHANGED vars
  <2>1. Backlog' = Backlog /\ Tasks' = Tasks
    BY <1>10 DEF Shutdown, vars, Backlog, Tasks
  <2> QED
    BY <1>10, <2>1 DEF Shutdown, vars, NobodyStranded, NothingLost, Phase
<1>11. CASE Abort
  <2>1. Tasks' = Tasks
    BY <1>11 DEF Abort, Tasks
  <2> QED
    BY <1>11, <2>1 DEF Abort, Dropped, NobodyStranded, NothingLost, Phase
<1>12. ASSUME NEW b \in calling, NEW profiles \in Profiles(b), Resolve(b, profiles)
       PROVE  Shelter'
  <2> DEFINE answer == [l \in b |-> UuidIn(profiles, NameOf[l])]
  <2>1. \A l \in b : answer[l] \in Values \cup Errors
    BY UuidInValues
  <2>2. response' = Answered(b, answer) /\ EndTask(b)
    BY <1>12 DEF Resolve
  <2> HIDE DEF answer
  <2> QED
    BY <1>8, <1>12, <2>1, <2>2 DEF Resolve
<1>13. ASSUME NEW b \in calling, NEW error \in Errors, Reject(b, error)
       PROVE  Shelter'
  <2> DEFINE answer == [l \in b |-> error]
  <2>1. \A l \in b : answer[l] \in Values \cup Errors
    OBVIOUS
  <2>2. response' = Answered(b, answer) /\ EndTask(b)
    BY <1>13 DEF Reject
  <2> HIDE DEF answer
  <2> QED
    BY <1>8, <1>13, <2>1, <2>2 DEF Reject
<1>14. ASSUME NEW b \in Tasks, Cancel(b) \/ (b \in calling /\ Panic(b))
       PROVE  Shelter'
  BY <1>9, <1>14 DEF Panic, Cancel
<1> QED
  BY <1>1, <1>2, <1>3, <1>4, <1>5, <1>6, <1>7, <1>10, <1>11, <1>12, <1>13, <1>14
     DEF Next, Callers, Loop, Task, Upstream, Tasks

THEOREM ShelterCorrect == Spec => []Shelter
<1>1. Spec => []Placed
  BY ShapeCorrect, InitPlaced, NextPlaced, PTL DEF Spec
<1> QED
  BY <1>1, ShapeCorrect, InitShelter, NextShelter, PTL DEF Spec

\* The sender of every waiting caller is in the channel, the loop or a task: no
\* caller can be forgotten between two of them.
THEOREM NobodyStrandedHolds == Spec => []NobodyStranded
<1>1. Shelter => NobodyStranded
  BY DEF Shelter
<1> QED
  BY <1>1, ShelterCorrect, PTL

\* An answer is lost only to a panic or to the shutdown deadline.
THEOREM NothingLostHolds == Spec => []NothingLost
<1>1. Shelter => NothingLost
  BY DEF Shelter
<1> QED
  BY <1>1, ShelterCorrect, PTL

\* A loop that returns has answered everyone it accepted (batch.rs:232-253).
THEOREM DrainAnswersAllHolds == Spec => []DrainAnswersAll
<1>1. Shelter => DrainAnswersAll
  <2> SUFFICES ASSUME Shelter, loop = "done", ~panicked, NEW l \in Lookups
               PROVE  response[l] \notin {"open", "lost"}
    BY DEF DrainAnswersAll
  <2>1. Backlog \cup UNION Tasks = {}
    BY DEF Shelter, Phase, Backlog, Range
  <2>2. response[l] # "open"
    BY <2>1 DEF Shelter, NobodyStranded
  <2>3. response[l] # "lost"
    BY DEF Shelter, NothingLost
  <2> QED
    BY <2>2, <2>3
<1> QED
  BY <1>1, ShelterCorrect, PTL

-----------------------------------------------------------------------------
(* Capacity.                                                               *)

\* The channel never outgrows its capacity, and while spawn_batch awaits a
\* permit the collecting vector is empty.
Capacity ==
  /\ IsFiniteSet(Range(queue))
  /\ Cardinality(Range(queue)) = Len(queue)
  /\ Len(queue) <= QueueCapacity
  /\ held # {} => pending = {}

LEMMA InitCapacity == Init => Capacity
<1> SUFFICES ASSUME Init
             PROVE  Capacity
  OBVIOUS
<1>1. Range(queue) = {} /\ Len(queue) = 0
  BY DEF Init, Range
<1> QED
  BY <1>1, FS_EmptySet, ConfigAssumption DEF Init, Capacity

LEMMA NextCapacity ==
  ASSUME Shape, Placed, Capacity, [Next]_vars
  PROVE  Capacity'
<1> USE ConfigAssumption
<1>1. ASSUME NEW l \in Lookups, Send(l)
      PROVE  Capacity'
  <2>1. l \notin Range(queue)
    BY <1>1 DEF Send, Placed, Fresh, Backlog
  <2>2. Range(queue') = Range(queue) \cup {l} /\ Len(queue') = Len(queue) + 1
    BY <1>1, RangeOfAppend DEF Send, Shape
  <2>3. /\ IsFiniteSet(Range(queue'))
        /\ Cardinality(Range(queue')) = Cardinality(Range(queue)) + 1
    BY <2>1, <2>2, FS_AddElement DEF Capacity
  <2>4. Len(queue) \in Nat
    BY DEF Shape
  <2> QED
    BY <1>1, <2>2, <2>3, <2>4 DEF Send, Capacity
<1>2. CASE Receive
  <2>1. /\ Head(queue) \in Range(queue)
        /\ Range(queue') = Range(queue) \ {Head(queue)}
    BY <1>2, RangeOfTail DEF Receive, Shape, Placed, OnePlace
  <2>2. Len(queue') = Len(queue) - 1 /\ Len(queue) \in Nat
    BY <1>2 DEF Receive, Shape
  <2>3. /\ IsFiniteSet(Range(queue'))
        /\ Cardinality(Range(queue')) = Cardinality(Range(queue)) - 1
    BY <2>1, FS_RemoveElement DEF Capacity
  <2>4. held' # {} => pending' = {}
    BY <1>2 DEF Receive, Collect
  <2> QED
    BY <2>2, <2>3, <2>4 DEF Capacity
<1>3. CASE Abort
  <2>1. Range(queue') = {} /\ Len(queue') = 0 /\ held' = {}
    BY <1>3 DEF Abort, Range
  <2> QED
    BY <2>1, FS_EmptySet DEF Capacity
<1>4. CASE Tick \/ Drained \/ Spawn
  BY <1>4 DEF Tick, Drained, Spawn, Capacity
<1>5. CASE UNCHANGED <<queue, held, pending>>
  BY <1>5 DEF Capacity
<1> QED
  BY <1>1, <1>2, <1>3, <1>4, <1>5
     DEF Next, Callers, SendRefused, Abandon, Loop, Close, Stop, Task, Upstream,
         ProcessBatch, Resolve, Reject, Panic, Cancel, Shutdown, vars

\* While Mojang is slow, what waits for a task is bounded by the channel and
\* one batch: the loop stops receiving at the semaphore (batch.rs:263).
THEOREM BacklogBoundHolds == Spec => []BacklogBound
<1>1. Shape /\ BatchBound /\ Capacity => BacklogBound
  <2> SUFFICES ASSUME Shape, BatchBound, Capacity
               PROVE  BacklogBound
    OBVIOUS
  <2> DEFINE loose == pending \cup held
  <2>1. loose = pending \/ loose = held
    BY DEF Capacity
  <2>2. IsFiniteSet(loose) /\ Cardinality(loose) \in Nat /\ Cardinality(loose) <= Size
    <3>1. /\ IsFiniteSet(pending) /\ Cardinality(pending) < Size
          /\ IsFiniteSet(held) /\ Cardinality(held) <= Size
      BY DEF Shape, BatchBound
    <3>2. Cardinality(pending) \in Nat /\ Cardinality(held) \in Nat
      BY <3>1, FS_CardinalityType
    <3>3. Cardinality(pending) <= Size
      BY <3>1, <3>2, ConfigAssumption
    <3> HIDE DEF loose
    <3> QED
      BY <2>1, <3>1, <3>2, <3>3
  <2>3. Backlog = Range(queue) \cup loose
    BY DEF Backlog
  <2>4. Cardinality(Range(queue) \cap loose) \in Nat
    BY <2>2, FS_Subset, FS_CardinalityType
  <2>5. Cardinality(Backlog) = Cardinality(Range(queue)) + Cardinality(loose)
                               - Cardinality(Range(queue) \cap loose)
    BY <2>2, <2>3, FS_Union DEF Capacity
  <2>6. Cardinality(Range(queue)) \in Nat /\ Cardinality(Range(queue)) <= QueueCapacity
    BY DEF Capacity, Shape
  <2> HIDE DEF loose
  <2> QED
    BY <2>2, <2>4, <2>5, <2>6, ConfigAssumption DEF BacklogBound
<1>2. Spec => []Placed
  BY ShapeCorrect, InitPlaced, NextPlaced, PTL DEF Spec
<1>3. Spec => []Capacity
  BY <1>2, ShapeCorrect, InitCapacity, NextCapacity, PTL DEF Spec
<1> QED
  BY <1>1, <1>3, ShapeCorrect, BatchBoundHolds, PTL
=============================================================================
