-------------------------- MODULE MojangClient_proofs --------------------------
(***************************************************************************)
(* Proofs about MojangClient, for any number of calls, any limit and       *)
(* chunks of any sizes.                                                    *)
(*                                                                         *)
(* Inv adds to the type invariant what the counters stand for: requests    *)
(* for the calls that have begun, errors for those that failed, and the    *)
(* bytes received for bodies within the limit.                             *)
(***************************************************************************)
EXTENDS MojangClient, FiniteSetTheorems, WellFoundedInduction, TLAPS

Stages == {"none", "sending", "reading", "returned", "dropped"}
Results == UpstreamErrors \cup Skins \cup {"none", "absent", "profiles"}

Begun == {c \in Calls : call[c] # "none"}
Failures == {c \in Calls : result[c] \in UpstreamErrors}

Inv ==
  /\ ClientTypeOK
  /\ \A c \in Calls : call[c] # "returned" => result[c] = "none"
  /\ requests = Cardinality(Begun)
  /\ BodyBounded
  /\ ErrorsAreFailedCalls

-----------------------------------------------------------------------------
(* Least and largest numbers, induction up to a number, and folds.         *)

\* Every set of natural numbers that is not empty has a least one.
LEMMA LeastExists ==
  ASSUME NEW S, S \subseteq Nat, S # {}
  PROVE  Min(S) \in S /\ \A y \in S : Min(S) <= y
<1> DEFINE R == {pair \in Nat \X Nat : pair[1] < pair[2]}
<1>1. IsWellFoundedOn(R, Nat)
  BY NatLessThanWellFounded DEF OpToRel
<1>2. PICK x \in S : \A y \in S : <<y, x>> \notin R
  BY <1>1, WFMin
<1>3. \A y \in S : x <= y
  <2> SUFFICES ASSUME NEW y \in S
               PROVE  x <= y
    OBVIOUS
  <2>1. x \in Nat /\ y \in Nat /\ <<y, x>> \in Nat \X Nat
    OBVIOUS
  <2>2. ~(y < x)
    BY <1>2, <2>1
  <2> QED
    BY <2>1, <2>2
<1> QED
  BY <1>3 DEF Min

\* Induction, for a set of numbers.
LEMMA UpTo ==
  ASSUME NEW n \in Nat, NEW S, 0 \in S, \A i \in 1..n : i - 1 \in S => i \in S
  PROVE  \A i \in 0..n : i \in S
<1> DEFINE T == {i \in 0..n : i \notin S}
<1>1. CASE T = {}
  BY <1>1
<1>2. CASE T # {}
  <2>1. Min(T) \in T /\ \A y \in T : Min(T) <= y
    <3>1. T \subseteq Nat
      OBVIOUS
    <3> HIDE DEF T
    <3> QED
      BY <1>2, <3>1, LeastExists
  <2>2. PICK x \in T : \A y \in T : x <= y
    <3> HIDE DEF T
    <3> QED
      BY <2>1
  <2>3. x \in 1..n /\ x - 1 \in 0..n /\ ~(x <= x - 1)
    BY <2>2
  <2>4. x - 1 \in S
    BY <2>2, <2>3
  <2> QED
    BY <2>2, <2>3, <2>4
<1> QED
  BY <1>1, <1>2

LEMMA LargestExists ==
  ASSUME NEW n \in Nat, NEW s \in SUBSET (1..n), s # {}
  PROVE  Max(s) \in s /\ \A y \in s : y <= Max(s)
<1> DEFINE Beyond == {n - y : y \in s}
<1>1. Beyond \subseteq Nat /\ Beyond # {}
  <2>1. \A y \in s : y \in 1..n /\ n - y \in Nat
    OBVIOUS
  <2> QED
    BY <2>1
<1>2. Min(Beyond) \in Beyond /\ \A d \in Beyond : Min(Beyond) <= d
  <2> HIDE DEF Beyond
  <2> QED
    BY <1>1, LeastExists
<1>3. PICK x \in s : \A y \in s : n - x <= n - y
  BY <1>2
<1>4. \A y \in s : x >= y
  <2> SUFFICES ASSUME NEW y \in s
               PROVE  x >= y
    OBVIOUS
  <2>1. x \in 1..n /\ y \in 1..n /\ n - x <= n - y
    BY <1>3
  <2> QED
    BY <2>1
<1>5. Max(s) \in s /\ \A y \in s : Max(s) >= y
  BY <1>4 DEF Max
<1>6. \A y \in s : y \in Nat
  OBVIOUS
<1>7. \A y, z \in s : z >= y => y <= z
  BY <1>6
<1> HIDE DEF Beyond
<1> QED
  BY <1>5, <1>7

LEMMA LargestIn ==
  ASSUME NEW k \in Nat, NEW s \in SUBSET (1..k), k \in s
  PROVE  Max(s) = k
<1>1. \A y \in s : k >= y
  OBVIOUS
<1>2. ASSUME NEW x \in s, \A y \in s : x >= y
      PROVE  x = k
  <2>1. x >= k /\ x \in 1..k
    BY <1>2
  <2> QED
    BY <2>1
<1> QED
  BY <1>1, <1>2 DEF Max

\* What `fold` makes of every set of positions up to n: each step is made from
\* the largest position and what the others come to.
Folds(fold, n, V, base, step) ==
  /\ fold \in [SUBSET (1..n) -> V]
  /\ \A s \in SUBSET (1..n) :
       fold[s] = IF s = {} THEN base ELSE step[<<Max(s), fold[s \ {Max(s)}]>>]

\* There is such a fold, whatever the step: the recursion of the library's
\* FoldLeft has a solution.
LEMMA FoldExists ==
  ASSUME NEW n \in Nat, NEW V, NEW base \in V, NEW step \in [(1..n) \X V -> V]
  PROVE  \E fold : Folds(fold, n, V, base, step)
<1> DEFINE S == {k \in 0..n : \E fold : Folds(fold, k, V, base, step)}
<1>1. 0 \in S
  <2>1. 1..0 = {}
    OBVIOUS
  <2>2. Folds([s \in SUBSET (1..0) |-> base], 0, V, base, step)
    BY <2>1 DEF Folds
  <2> QED
    BY <2>2
<1>2. ASSUME NEW k \in 1..n, k - 1 \in S
      PROVE  k \in S
  <2>1. PICK fold : Folds(fold, k - 1, V, base, step)
    BY <1>2
  <2> DEFINE next == [s \in SUBSET (1..k) |->
                        IF k \in s THEN step[<<k, fold[s \ {k}]>>] ELSE fold[s]]
  <2>2. ASSUME NEW s \in SUBSET (1..k)
        PROVE  /\ s \ {k} \in SUBSET (1..k-1)
               /\ k \in s => Max(s) = k
               /\ k \notin s => s \in SUBSET (1..k-1)
    <3>1. k \in Nat
      OBVIOUS
    <3>2. k \in s => Max(s) = k
      BY <3>1, LargestIn
    <3> QED
      BY <3>1, <3>2
  <2>3. next \in [SUBSET (1..k) -> V]
    BY <2>1, <2>2 DEF Folds
  <2>4. ASSUME NEW s \in SUBSET (1..k)
        PROVE  next[s] = IF s = {} THEN base ELSE step[<<Max(s), next[s \ {Max(s)}]>>]
    <3>1. CASE k \in s
      <4>1. next[s \ {k}] = fold[s \ {k}]
        OBVIOUS
      <4> QED
        BY <3>1, <2>2, <4>1
    <3>2. CASE k \notin s
      <4>1. next[s] = fold[s] /\ s \in SUBSET (1..k-1)
        BY <3>2, <2>2
      <4>2. /\ s \ {Max(s)} \in SUBSET (1..k-1) /\ k \notin s \ {Max(s)}
            /\ s \ {Max(s)} \in SUBSET (1..k)
        BY <4>1, <3>2
      <4>3. next[s \ {Max(s)}] = fold[s \ {Max(s)}]
        BY <4>2
      <4> QED
        BY <2>1, <4>1, <4>3 DEF Folds
    <3> QED
      BY <3>1, <3>2
  <2>5. Folds(next, k, V, base, step)
    BY <2>3, <2>4 DEF Folds
  <2> QED
    BY <2>5
<1>3. n \in S
  <2> HIDE DEF S
  <2> QED
    BY <1>1, <1>2, UpTo
<1> QED
  BY <1>3

-----------------------------------------------------------------------------
(* What a body is taken for.                                               *)

LEMMA TexturesType ==
  ASSUME NEW properties, DOMAIN properties \subseteq Nat
  PROVE  Textures(properties) \in Skins \cup {"absent"}
<1> DEFINE found == {i \in DOMAIN properties : properties[i] \in Skins}
<1>1. found # {} => Min(found) \in found
  BY LeastExists
<1> QED
  BY <1>1 DEF Textures

LEMMA ContentType ==
  ASSUME NEW c \in Calls, NEW content \in Contents(c)
  PROVE  DOMAIN content \subseteq Nat
<1>1. CASE content = <<"malformed">>
  BY <1>1
<1>2. CASE content \in SeqOf(Items(c), 2)
  BY <1>2 DEF SeqOf
<1> QED
  BY <1>1, <1>2 DEF Contents

LEMMA OutcomeType ==
  ASSUME NEW c \in Calls, NEW content \in Contents(c)
  PROVE  Outcome(c, content)
           \in Skins \cup {"absent", "profiles", "http_status", "invalid_response"}
<1>1. Textures(content) \in Skins \cup {"absent"}
  BY ContentType, TexturesType
<1> DEFINE none == KindOf[c] = "skin" /\ response[c].status = "no_content"
           failed == response[c].status = "unsuccessful"
<1>2. ~(none /\ failed)
  OBVIOUS
<1> QED
  BY <1>1, <1>2 DEF Outcome

-----------------------------------------------------------------------------
(* The counters and the calls they count.                                  *)

LEMMA Counting ==
  ASSUME ClientAssumption, NEW S, S \subseteq Calls
  PROVE  IsFiniteSet(S) /\ Cardinality(S) \in Nat /\ Cardinality(S) <= Cardinality(Calls)
BY FS_Subset, FS_CardinalityType DEF ClientAssumption

\* A call that is under way has no result, and one that begins was not counted.
LEMMA BeginInv ==
  ASSUME ClientAssumption, Inv, NEW c \in Calls, Begin(c)
  PROVE  Inv'
<1>1. /\ call \in [Calls -> Stages] /\ call[c] = "none"
      /\ call' = [call EXCEPT ![c] = "sending"]
      /\ result[c] = "none"
      /\ UNCHANGED <<response, result, received, errors>>
  BY DEF Begin, Inv, ClientTypeOK, Stages
<1>2. Begun' = Begun \cup {c} /\ c \notin Begun
  BY <1>1 DEF Begun, Stages
<1>3. Cardinality(Begun') = Cardinality(Begun) + 1
  BY <1>2, Counting, FS_AddElement DEF Begun
<1>4. requests' = Cardinality(Begun') /\ requests' \in 0..Cardinality(Calls)
  <2>1. requests' = Cardinality(Begun')
    BY <1>3 DEF Begin, Inv
  <2>2. Begun' \subseteq Calls
    BY <1>2 DEF Begun
  <2>3. Cardinality(Begun') \in Nat /\ Cardinality(Begun') <= Cardinality(Calls)
    BY <2>2, Counting
  <2>4. Cardinality(Calls) \in Nat
    BY Counting
  <2> QED
    BY <2>1, <2>3, <2>4
<1>5. sent' \in Nat
  BY DEF Begin, Inv, ClientTypeOK, ClientAssumption
<1>6. Answered' = Answered
  BY <1>1 DEF Answered, Stages
<1>7. ErrorsAreFailedCalls' /\ BodyBounded'
  BY <1>1, <1>6 DEF Inv, ErrorsAreFailedCalls, BodyBounded
<1>8. call' \in [Calls -> Stages] /\ \A d \in Calls : call'[d] # "returned" => result[d] = "none"
  BY <1>1 DEF Inv, Stages
<1> QED
  BY <1>1, <1>4, <1>5, <1>7, <1>8 DEF Inv, ClientTypeOK, Stages

\* A call that returns is counted among the errors if it failed, and its body,
\* which is within the limit, among the bytes.
LEMMA ReturnInv ==
  ASSUME ClientAssumption, Inv, NEW c \in Calls, c \in Active, NEW value,
         Return(c, value),
         value \in Results \ {"none"},
         UNCHANGED <<requests, sent>>,
         \/ UNCHANGED received
         \/ received' = received + response[c].body /\ value \notin {"timeout", "transport"},
         errors' = IF value \in UpstreamErrors THEN errors + 1 ELSE errors
  PROVE  Inv'
<1>1. /\ call \in [Calls -> Stages] /\ response \in [Calls -> Response]
      /\ result \in [Calls -> Results]
      /\ received \in Nat /\ errors \in Nat
      /\ call[c] # "none" /\ call[c] # "returned" /\ result[c] = "none"
  BY DEF Active, Inv, ClientTypeOK, Stages, Results
<1>2. /\ call' = [call EXCEPT ![c] = "returned"]
      /\ response' = [response EXCEPT ![c] = NoResponse]
      /\ result' = [result EXCEPT ![c] = value]
  BY DEF Return, Leave
<1>3. NoResponse \in Response /\ NoResponse.body = 0
  BY DEF NoResponse, Response, Statuses
<1>4. /\ call' \in [Calls -> Stages] /\ response' \in [Calls -> Response]
      /\ result' \in [Calls -> Results]
  BY <1>1, <1>2, <1>3 DEF Stages
<1>5. Begun' = Begun
  BY <1>1, <1>2 DEF Begun
<1>6. ErrorsAreFailedCalls' /\ errors' \in Nat
  <2>1. errors = Cardinality(Failures)
    BY DEF Inv, ErrorsAreFailedCalls, Failures
  <2>2. "none" \notin UpstreamErrors
    BY DEF UpstreamErrors
  <2>3. CASE value \in UpstreamErrors
    <3>1. Failures' = Failures \cup {c} /\ c \notin Failures
      BY <1>1, <1>2, <2>2, <2>3 DEF Failures, UpstreamErrors
    <3>2. Cardinality(Failures') = Cardinality(Failures) + 1
      BY <3>1, Counting, FS_AddElement DEF Failures
    <3> QED
      BY <1>1, <2>1, <2>3, <3>2 DEF Failures, ErrorsAreFailedCalls
  <2>4. CASE value \notin UpstreamErrors
    <3>1. Failures' = Failures
      BY <1>1, <1>2, <2>2, <2>4 DEF Failures, UpstreamErrors
    <3> QED
      BY <1>1, <2>1, <2>4, <3>1 DEF Failures, ErrorsAreFailedCalls
  <2> QED
    BY <2>3, <2>4
<1>7. BodyBounded' /\ received' \in Nat
  <2>1. /\ \A d \in Calls : response[d].body <= Limit
        /\ received <= Limit * Cardinality(Answered)
        /\ response[c].body \in Nat /\ Limit \in Nat
    BY <1>1 DEF Inv, BodyBounded, ClientAssumption, Response
  <2>2. \A d \in Calls : response'[d].body <= Limit
    BY <1>1, <1>2, <1>3, <2>1
  <2>3. c \notin Answered
    BY <1>1 DEF Answered
  <2>4. Answered' = IF value \in {"timeout", "transport"} THEN Answered ELSE Answered \cup {c}
    BY <1>1, <1>2 DEF Answered, Stages
  <2>5. IsFiniteSet(Answered) /\ Cardinality(Answered) \in Nat
    BY Counting DEF Answered
  <2>6. CASE value \in {"timeout", "transport"}
    BY <1>1, <2>1, <2>2, <2>4, <2>6 DEF BodyBounded
  <2>7. CASE value \notin {"timeout", "transport"}
    <3>1. Cardinality(Answered') = Cardinality(Answered) + 1
      BY <2>3, <2>4, <2>5, <2>7, FS_AddElement
    <3>2. Limit * (Cardinality(Answered) + 1) = Limit * Cardinality(Answered) + Limit
          /\ Limit * Cardinality(Answered) \in Nat
      BY <2>1, <2>5
    <3>3. received' \in Nat /\ received' <= Limit * Cardinality(Answered) + Limit
      BY <1>1, <2>1, <3>2
    <3> QED
      BY <2>2, <3>1, <3>2, <3>3 DEF BodyBounded
  <2> QED
    BY <2>6, <2>7
<1>8. \A d \in Calls : call'[d] # "returned" => result'[d] = "none"
  BY <1>1, <1>2 DEF Inv
<1> QED
  BY <1>4, <1>5, <1>6, <1>7, <1>8 DEF Inv, ClientTypeOK, Stages, Results

\* A call that goes on, or is dropped, changes nothing that is counted.
LEMMA OngoingInv ==
  ASSUME ClientAssumption, Inv, NEW c \in Calls, c \in Active,
         call' \in [Calls -> Stages],
         call'[c] \notin {"none", "returned"},
         \A d \in Calls : d # c => call'[d] = call[d],
         response' \in [Calls -> Response],
         \A d \in Calls : response'[d].body <= Limit,
         UNCHANGED <<result, requests, sent, received, errors>>
  PROVE  Inv'
<1>1. call[c] \notin {"none", "returned"}
  BY DEF Active
<1>2. Begun' = Begun /\ Answered' = Answered
  BY <1>1 DEF Begun, Answered
<1>3. \A d \in Calls : call'[d] # "returned" => result'[d] = "none"
  BY <1>1 DEF Inv
<1> QED
  BY <1>2, <1>3 DEF Inv, ClientTypeOK, BodyBounded, ErrorsAreFailedCalls, Stages

-----------------------------------------------------------------------------
LEMMA InitInv == ClientAssumption /\ Init => Inv
<1> SUFFICES ASSUME ClientAssumption, Init
             PROVE  Inv
  OBVIOUS
<1>1. Begun = {} /\ Failures = {} /\ Answered = {}
  BY DEF Init, Begun, Failures, Answered, UpstreamErrors
<1>2. Cardinality({}) = 0
  BY FS_EmptySet
<1>3. NoResponse \in Response /\ NoResponse.body = 0
  BY DEF NoResponse, Response, Statuses
<1>4. Cardinality(Calls) \in Nat /\ Limit \in Nat /\ Limit * 0 = 0
  BY Counting DEF ClientAssumption
<1>5. ClientTypeOK
  BY <1>3, <1>4 DEF Init, ClientTypeOK
<1>6. BodyBounded /\ ErrorsAreFailedCalls
  BY <1>1, <1>2, <1>3, <1>4 DEF Init, BodyBounded, ErrorsAreFailedCalls, Failures
<1> QED
  BY <1>1, <1>2, <1>5, <1>6 DEF Init, Inv

LEMMA ProgressInv ==
  ASSUME ClientAssumption, Inv, NEW c \in Calls, Progress(c)
  PROVE  Inv'
<1>1. /\ call \in [Calls -> Stages] /\ response \in [Calls -> Response]
      /\ \A d \in Calls : response[d].body <= Limit
      /\ Limit \in Nat /\ Chunks \subseteq Nat
  BY DEF Inv, ClientTypeOK, BodyBounded, ClientAssumption, Stages
<1>2. ASSUME NEW error \in {"timeout", "transport"}, Break(c, error)
      PROVE  Inv'
  BY <1>2, ReturnInv DEF Break, Fail, UpstreamErrors, Results
<1>3. ASSUME NEW status \in Statuses, NEW length \in Chunks \cup {Unknown},
             ReceiveHead(c, status, length)
      PROVE  Inv'
  <2>1. c \in Active
    BY <1>3 DEF ReceiveHead, Active
  <2>2. CASE length # Unknown /\ length > Limit
    BY <1>3, <2>1, <2>2, ReturnInv DEF ReceiveHead, Fail, UpstreamErrors, Results
  <2>3. CASE ~(length # Unknown /\ length > Limit)
    <3> DEFINE head == [status |-> status, announced |-> length, body |-> 0]
    <3>1. /\ call' = [call EXCEPT ![c] = "reading"]
          /\ response' = [response EXCEPT ![c] = head]
          /\ UNCHANGED <<result, requests, sent, received, errors>>
      BY <1>3, <2>3 DEF ReceiveHead
    <3>2. head \in Response /\ head.body = 0
      BY DEF Response
    <3>3. /\ call' \in [Calls -> Stages] /\ call'[c] = "reading"
          /\ \A d \in Calls : d # c => call'[d] = call[d]
      BY <1>1, <3>1 DEF Stages
    <3>4. /\ response' \in [Calls -> Response]
          /\ \A d \in Calls : response'[d].body <= Limit
      BY <1>1, <3>1, <3>2
    <3> QED
      BY <2>1, <3>1, <3>3, <3>4, OngoingInv
  <2> QED
    BY <2>2, <2>3
<1>4. ASSUME NEW size \in Chunks, Chunk(c, size)
      PROVE  Inv'
  <2>1. c \in Active
    BY <1>4 DEF Chunk, Active
  <2>2. CASE Fits(c, size)
    <3>1. /\ response' = [response EXCEPT ![c].body = @ + size]
          /\ response[c].body + size <= Limit
          /\ UNCHANGED <<call, result, requests, sent, received, errors>>
      BY <1>4, <2>2 DEF Chunk, Fits
    <3>2. /\ response' \in [Calls -> Response]
          /\ \A d \in Calls : response'[d].body <= Limit
      BY <1>1, <3>1 DEF Response
    <3>3. call'[c] \notin {"none", "returned"}
      BY <2>1, <3>1 DEF Active
    <3> QED
      BY <1>1, <2>1, <3>1, <3>2, <3>3, OngoingInv
  <2>3. CASE ~Fits(c, size)
    BY <1>4, <2>1, <2>3, ReturnInv DEF Chunk, Fail, UpstreamErrors, Results
  <2> QED
    BY <2>2, <2>3
<1>5. ASSUME NEW content \in Contents(c), End(c, content)
      PROVE  Inv'
  <2> DEFINE value == Outcome(c, content)
  <2>1. c \in Active
    BY <1>5 DEF End, Active
  <2>2. /\ value \in Results \ {"none"}
        /\ value \notin {"timeout", "transport"}
    <3>1. value \in Skins \cup {"absent", "profiles", "http_status", "invalid_response"}
      BY OutcomeType
    <3> HIDE DEF value
    <3> QED
      BY <3>1 DEF ClientAssumption, Results, UpstreamErrors
  <2>3. /\ Return(c, value)
        /\ errors' = IF value \in UpstreamErrors THEN errors + 1 ELSE errors
        /\ received' = received + response[c].body
        /\ UNCHANGED <<requests, sent>>
    BY <1>5 DEF End, Fail
  <2> QED
    BY <2>1, <2>2, <2>3, ReturnInv
<1> QED
  BY <1>2, <1>3, <1>4, <1>5 DEF Progress

LEMMA DropInv ==
  ASSUME ClientAssumption, Inv, NEW c \in Calls, Drop(c)
  PROVE  Inv'
<1>1. /\ call \in [Calls -> Stages] /\ response \in [Calls -> Response]
      /\ \A d \in Calls : response[d].body <= Limit /\ Limit \in Nat
      /\ c \in Active
      /\ call' = [call EXCEPT ![c] = "dropped"]
      /\ response' = [response EXCEPT ![c] = NoResponse]
      /\ UNCHANGED <<result, requests, sent, received, errors>>
  BY DEF Inv, ClientTypeOK, BodyBounded, ClientAssumption, Drop, Leave, Stages
<1>2. NoResponse \in Response /\ NoResponse.body = 0
  BY DEF NoResponse, Response, Statuses
<1>3. /\ call' \in [Calls -> Stages] /\ call'[c] = "dropped"
      /\ \A d \in Calls : d # c => call'[d] = call[d]
      /\ response' \in [Calls -> Response]
      /\ \A d \in Calls : response'[d].body <= Limit
  BY <1>1, <1>2 DEF Stages
<1> QED
  BY <1>1, <1>3, OngoingInv

LEMMA NextInv == ClientAssumption /\ Inv /\ [Next]_clientVars => Inv'
<1> SUFFICES ASSUME ClientAssumption, Inv, [Next]_clientVars
             PROVE  Inv'
  OBVIOUS
<1>1. CASE UNCHANGED clientVars
  BY <1>1 DEF clientVars, Inv, ClientTypeOK, Begun, BodyBounded, Answered, ErrorsAreFailedCalls
<1> QED
  BY <1>1, BeginInv, ProgressInv, DropInv DEF Next

\* No body grows beyond the limit, and the bytes received are those of bodies
\* within it, whatever the lengths announced and the chunks that arrive.
THEOREM BodyBoundedHolds ==
  ASSUME ClientAssumption
  PROVE  Spec => []BodyBounded
<1>1. Inv => BodyBounded
  BY DEF Inv
<1> QED
  BY <1>1, InitInv, NextInv, PTL DEF Spec

\* The errors counted are the calls that failed, each once.
THEOREM ErrorsAreFailedCallsHolds ==
  ASSUME ClientAssumption
  PROVE  Spec => []ErrorsAreFailedCalls
<1>1. Inv => ErrorsAreFailedCalls
  BY DEF Inv
<1> QED
  BY <1>1, InitInv, NextInv, PTL DEF Spec
=============================================================================
