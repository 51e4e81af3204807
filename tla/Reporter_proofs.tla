---------------------------- MODULE Reporter_proofs ----------------------------
(***************************************************************************)
(* Proofs about Reporter, for any set of batches, of any sizes, and any    *)
(* number of answers of Discord that are lost.                             *)
(*                                                                         *)
(* Reported strengthens NothingDiscarded and NothingRepeated: while no     *)
(* answer is lost, what Discord has accepted is exactly the last window.   *)
(***************************************************************************)
EXTENDS Reporter, TLAPS

Reported ==
  \A c \in Counters :
    /\ last[c] <= accepted[c]
    /\ repeats = 0 => accepted[c] = last[c]

Inv == TypeOK /\ Reported

LEMMA InitInv == Init => Inv
<1> SUFFICES ASSUME Init
             PROVE  Inv
  OBVIOUS
<1>1. Zero \in [Counters -> Nat] /\ \A c \in Counters : Zero[c] = 0
  BY DEF Zero
<1>2. Zero = counters /\ Zero = snapshot /\ Zero = last /\ Zero = accepted /\ repeats = 0
  BY DEF Init
<1>3. counted \in [Batches -> {"no", "batch", "names"}] /\ loop \in Loops /\ shutdown \in BOOLEAN
  BY DEF Init, Loops
<1> QED
  BY <1>1, <1>2, <1>3, ReporterAssumption DEF Inv, TypeOK, Reported

\* The snapshot is behind the counters and ahead of the last one, so that the
\* saturating difference is the difference.
LEMMA SinceIsDifference ==
  ASSUME TypeOK
  PROVE  /\ Since \in [Counters -> Nat]
         /\ \A c \in Counters : Since[c] = snapshot[c] - last[c]
         /\ \A c \in Counters :
              snapshot[c] \in Nat /\ last[c] \in Nat /\ accepted[c] \in Nat /\ counters[c] \in Nat
<1>1. \A c \in Counters :
        /\ last[c] \in Nat /\ counters[c] \in Nat /\ accepted[c] \in Nat
        /\ snapshot[c] \in last[c]..counters[c]
  BY DEF TypeOK
<1>2. \A c \in Counters :
        snapshot[c] \in Nat /\ (IF snapshot[c] > last[c] THEN snapshot[c] - last[c] ELSE 0) \in Nat
  BY <1>1
<1>3. \A c \in Counters : Since[c] = snapshot[c] - last[c]
  BY <1>1 DEF Since
<1> QED
  BY <1>1, <1>2, <1>3 DEF Since

LEMMA CountInv ==
  ASSUME Inv, NEW b \in Batches, CountBatch(b) \/ CountNames(b)
  PROVE  Inv'
<1>1. /\ SizeOf[b] \in Nat
      /\ \A c \in Counters : last[c] \in Nat /\ counters[c] \in Nat
      /\ counters \in [Counters -> Nat]
  BY ReporterAssumption DEF Inv, TypeOK
<1>2. PICK k \in Counters, more \in Nat :
        counters' = [counters EXCEPT ![k] = @ + more]
  BY <1>1 DEF CountBatch, CountNames, Counters
<1>3. /\ counters' \in [Counters -> Nat]
      /\ \A c \in Counters : counters'[c] >= counters[c]
  BY <1>1, <1>2
<1>4. \A c \in Counters : snapshot[c] \in last[c]..counters'[c]
  BY <1>1, <1>3 DEF Inv, TypeOK
<1>5. /\ counted' \in [Batches -> {"no", "batch", "names"}]
      /\ UNCHANGED <<loop, snapshot, last, shutdown, accepted, repeats>>
  BY DEF Inv, TypeOK, CountBatch, CountNames
<1> QED
  BY <1>3, <1>4, <1>5 DEF Inv, TypeOK, Reported

\* Reading a counter moves the snapshot up to it.
LEMMA ReadInv ==
  ASSUME Inv, NEW k \in Counters,
         snapshot' = [snapshot EXCEPT ![k] = counters[k]],
         loop' \in Loops,
         UNCHANGED <<counted, counters, last, shutdown, accepted, repeats>>
  PROVE  Inv'
<1>1. \A c \in Counters :
        last[c] \in Nat /\ counters[c] \in Nat /\ snapshot[c] \in last[c]..counters[c]
  BY DEF Inv, TypeOK
<1>2. snapshot' \in [Counters -> Nat] /\ \A c \in Counters : snapshot'[c] \in last[c]..counters[c]
  BY <1>1 DEF Inv, TypeOK
<1> QED
  BY <1>2 DEF Inv, TypeOK, Reported

LEMMA DeliveredInv ==
  ASSUME Inv, Delivered
  PROVE  Inv'
<1>1. /\ Since \in [Counters -> Nat]
      /\ \A c \in Counters : Since[c] = snapshot[c] - last[c]
      /\ \A c \in Counters :
           snapshot[c] \in Nat /\ last[c] \in Nat /\ accepted[c] \in Nat /\ counters[c] \in Nat
  BY SinceIsDifference DEF Inv
<1>2. accepted' \in [Counters -> Nat] /\ \A c \in Counters : accepted'[c] = accepted[c] + Since[c]
  BY <1>1 DEF Delivered, AcceptedMore
<1>3. Reported'
  BY <1>1, <1>2 DEF Delivered, Inv, Reported
<1>4. last' \in [Counters -> Nat] /\ \A c \in Counters : snapshot[c] \in last'[c]..counters[c]
  <2>1. last' = snapshot /\ snapshot \in [Counters -> Nat]
        /\ \A c \in Counters : snapshot[c] \in last[c]..counters[c]
    BY DEF Delivered, Inv, TypeOK
  <2> QED
    BY <1>1, <2>1
<1> QED
  BY <1>2, <1>3, <1>4 DEF Delivered, Inv, TypeOK, Loops

LEMMA AnswerLostInv ==
  ASSUME Inv, AnswerLost
  PROVE  Inv'
<1>1. /\ Since \in [Counters -> Nat]
      /\ \A c \in Counters : last[c] \in Nat /\ accepted[c] \in Nat
  BY SinceIsDifference DEF Inv
<1>2. accepted' \in [Counters -> Nat] /\ \A c \in Counters : accepted'[c] = accepted[c] + Since[c]
  BY <1>1 DEF AnswerLost, AcceptedMore
<1>3. repeats' \in 0..MaxRepeats /\ repeats' # 0
  BY ReporterAssumption DEF AnswerLost, Inv, TypeOK
<1>4. Reported'
  BY <1>1, <1>2, <1>3 DEF AnswerLost, Inv, Reported
<1> QED
  BY <1>2, <1>3, <1>4 DEF AnswerLost, Inv, TypeOK, Loops

LEMMA NextInv == Inv /\ [Next]_vars => Inv'
<1> SUFFICES ASSUME Inv, [Next]_vars
             PROVE  Inv'
  OBVIOUS
<1>1. ASSUME NEW b \in Batches, CountBatch(b) \/ CountNames(b)
      PROVE  Inv'
  BY <1>1, CountInv
<1>2. CASE Build \/ BuildFailed \/ Stop \/ Failed \/ Shutdown
  BY <1>2 DEF Build, BuildFailed, Stop, Failed, Shutdown, Inv, TypeOK, Reported, Loops
<1>3. CASE Tick
  BY <1>3, ReadInv DEF Tick, Counters, Loops
<1>4. CASE Read
  BY <1>4, ReadInv DEF Read, Counters, Loops
<1>5. CASE Delivered
  BY <1>5, DeliveredInv
<1>6. CASE AnswerLost
  BY <1>6, AnswerLostInv
<1>7. CASE UNCHANGED vars
  BY <1>7 DEF vars, Inv, TypeOK, Reported
<1> QED
  BY <1>1, <1>2, <1>3, <1>4, <1>5, <1>6, <1>7 DEF Next

LEMMA InvHolds == Spec => []Inv
BY InitInv, NextInv, PTL DEF Spec

\* A snapshot read counter by counter lies between the last one and the
\* counters, so that the saturating differences of a report never saturate.
THEOREM TypeCorrect == Spec => []TypeOK
<1>1. Inv => TypeOK
  BY DEF Inv
<1> QED
  BY <1>1, InvHolds, PTL

\* Failed reports discard nothing.
THEOREM NothingDiscardedHolds == Spec => []NothingDiscarded
<1>1. Inv => NothingDiscarded
  <2> SUFFICES ASSUME Inv, NEW c \in Counters
               PROVE  last[c] <= counters[c] /\ last[c] <= accepted[c]
    BY DEF NothingDiscarded
  <2>1. last[c] \in Nat /\ counters[c] \in Nat /\ snapshot[c] \in last[c]..counters[c]
    BY DEF Inv, TypeOK
  <2> QED
    BY <2>1 DEF Inv, Reported
<1> QED
  BY <1>1, InvHolds, PTL

\* Without a lost answer the reports add up to no more than what was counted.
THEOREM NothingRepeatedHolds == Spec => []NothingRepeated
<1>1. Inv => NothingRepeated
  <2> SUFFICES ASSUME Inv, repeats = 0, NEW c \in Counters
               PROVE  accepted[c] <= counters[c]
    BY DEF NothingRepeated
  <2>1. last[c] \in Nat /\ counters[c] \in Nat /\ snapshot[c] \in last[c]..counters[c]
    BY DEF Inv, TypeOK
  <2> QED
    BY <2>1 DEF Inv, Reported
<1> QED
  BY <1>1, InvHolds, PTL
=============================================================================
