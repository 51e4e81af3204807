---------------------------- MODULE BatchUpstream ----------------------------
(***************************************************************************)
(* process_batch of src/batch.rs with MojangHttpClient::lookup_names of    *)
(* src/mojang.rs for its service: the batch processor of BatchProcessor    *)
(* and the client of MojangClient.  The call of a batch lives in the       *)
(* future of its task, is answered or fails there, and is dropped with it. *)
(***************************************************************************)
EXTENDS Naturals, Sequences, FiniteSets, FiniteSetsExt, SequencesExt

CONSTANTS Lookups,        \* as in BatchProcessor
          Names,
          NameOf,
          Uuids,
          Size,
          QueueCapacity,
          MaxInFlight,
          Limit,          \* as in MojangClient
          Chunks,
          MaxProfiles     \* bound: profiles in one response

VARIABLES
  response, queue, shutdown, loop, pending, held, permits, ready, calling,
  batches, usernames, panicked,
  call, reply, result, requests, sent, received, errors,
  said       \* history: what Mojang last said of the name of each lookup

\* Each lookup is sent once, so that a batch is known by its lookups.
Batches == (SUBSET Lookups) \ {{}}

M == INSTANCE MojangClient WITH
       Calls <- Batches, KindOf <- [b \in Batches |-> "names"],
       BodyOf <- [b \in Batches |-> Cardinality(b)], Skins <- {},
       response <- reply

B == INSTANCE BatchProcessor WITH Errors <- M!UpstreamErrors

ASSUME UpstreamAssumption == M!ClientAssumption /\ MaxProfiles \in Nat
ASSUME ProcessorAssumption ==
    B!LookupAssumption /\ B!AnswerAssumption /\ B!ConfigAssumption

batchVars == <<response, queue, shutdown, loop, pending, held, permits, ready,
               calling, batches, usernames, panicked>>
clientVars == <<call, reply, result, requests, sent, received, errors>>
vars == <<batchVars, clientVars, said>>

Init ==
  /\ B!Init
  /\ M!Init
  /\ said = [l \in Lookups |-> "nothing"]

-----------------------------------------------------------------------------
(* The profiles of a response, each with the name as Mojang writes it.     *)

Profile == [name : Names, upper : BOOLEAN, uuid : Uuids]

\* A profile takes the place of one with its name.
Insert(found, p) ==
  [n \in DOMAIN found \cup {p.name} |-> IF n = p.name THEN p.uuid ELSE found[n]]

\* Seeded fault: the names are looked up as Mojang writes them.
CollectedAsWritten(profiles) ==
  FoldLeft(LAMBDA found, p : IF p.upper THEN found ELSE Insert(found, p), <<>>, profiles)

\* make_ascii_lowercase and collect: of two profiles for a name the last stays.
Collected(profiles) == FoldLeft(Insert, <<>>, profiles)

\* What a response says of a name, whatever its case: its last profile.
SaysOf(profiles, name) ==
  LET about == {i \in DOMAIN profiles : profiles[i].name = name}
  IN IF about = {} THEN "absent" ELSE profiles[Max(about)].uuid

\* What the processor finds in a response, and what the response says.
Answers ==
  {[found |-> Collected(profiles),
    says |-> [n \in Names |-> SaysOf(profiles, n)]] :
     profiles \in SeqOf(Profile, MaxProfiles)}

-----------------------------------------------------------------------------
\* The first poll of lookup_names sends the request.
ProcessBatch(b) ==
  /\ B!ProcessBatch(b)
  /\ IF B!Awaited(b) = {} THEN UNCHANGED clientVars ELSE M!Begin(B!Awaited(b))
  /\ UNCHANGED said

\* The network moves on, and the poll in which the call returns answers the
\* batch, too.
Upstream(b) ==
  /\ M!Progress(b)
  /\ \/ /\ result'[b] = "none"
        /\ UNCHANGED <<batchVars, said>>
     \/ /\ result'[b] = "profiles"
        /\ \E answer \in Answers :
             /\ B!Resolve(b, answer.found)
             /\ said' = [l \in Lookups |-> IF l \in b
                           THEN answer.says[NameOf[l]] ELSE said[l]]
     \/ /\ result'[b] \in M!UpstreamErrors
        /\ B!Reject(b, result'[b])
        /\ UNCHANGED said

\* Seeded fault: the call of a cancelled task goes on.
DropNothing(b) == UNCHANGED clientVars

\* The call goes with the future of its task.
DropCall(b) == IF b \in M!Active THEN M!Drop(b) ELSE UNCHANGED clientVars

Panic(b) == B!Panic(b) /\ DropCall(b) /\ UNCHANGED said

Cancel(b) == B!Cancel(b) /\ DropCall(b) /\ UNCHANGED said

Other ==
  /\ B!Callers \/ B!Loop \/ B!Shutdown \/ B!Abort
  /\ UNCHANGED <<clientVars, said>>

Next ==
  \/ \E b \in ready : ProcessBatch(b)
  \/ \E b \in calling : Upstream(b) \/ Panic(b)
  \/ \E b \in B!Tasks : Cancel(b)
  \/ Other

Spec == Init /\ [][Next]_vars

-----------------------------------------------------------------------------
\* Every running task has one call under way and none outlives its task, past
\* panics and the shutdown deadline; so the batches and names that one part of
\* the report counts are the requests and bytes that another counts.
OneCallPerBatch ==
  /\ M!Active = calling
  /\ requests = batches
  /\ sent = usernames

\* A lookup is answered with what Mojang said of its own name in that batch,
\* whatever the order, case, repetitions and strange names of the response
\* (the case-insensitive answers that batch.rs:448 tests).
AnswersAreMojangs ==
  \A l \in Lookups : response[l] \in B!Values => response[l] = said[l]

\* MojangClient's promises hold of several calls in flight (src/README.md:113):
\* no body beyond the limit in memory, and one error for each failed call.
BodyBounded == M!BodyBounded
ErrorsAreFailedCalls == M!ErrorsAreFailedCalls
=============================================================================
