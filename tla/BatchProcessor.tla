--------------------------- MODULE BatchProcessor ---------------------------
(***************************************************************************)
(* The batch processor of src/batch.rs: a bounded channel of pending       *)
(* lookups, the loop that groups them into batches, the semaphore that     *)
(* bounds the batches in flight, the task that resolves one batch against  *)
(* Mojang, and the shutdown that drains the channel or, past its deadline, *)
(* aborts the loop.                                                        *)
(*                                                                         *)
(* A lookup is one PendingLookup: a name and the sending half of a oneshot *)
(* channel.  response[l] is that oneshot as both halves see it:            *)
(*   "none"     not created yet                                            *)
(*   "open"     accepted by the channel, sender and receiver both alive    *)
(*   "refused"  the channel was closed when the lookup was sent            *)
(*   "closed"   the caller dropped its receiver before any answer          *)
(*   "lost"     the sender was dropped without an answer                   *)
(*   otherwise  the answer: a uuid, "absent" (Ok(None)), or an error       *)
(***************************************************************************)
EXTENDS Naturals, Sequences, FiniteSets, Functions

CONSTANTS Lookups,        \* pending lookups, each sent at most once
          Names,          \* normalised user names
          NameOf,         \* the name each lookup asks for
          Uuids,          \* uuids Mojang may report
          Errors,         \* the variants of UpstreamError Mojang may cause
          Size,           \* BatchConfig::size
          QueueCapacity,  \* BatchConfig::queue_capacity
          MaxInFlight     \* BatchConfig::max_in_flight_batches

Values == Uuids \cup {"absent"}
Unanswered == {"none", "open", "refused", "closed", "lost"}
Responses == Unanswered \cup Values \cup Errors

ASSUME LookupAssumption == NameOf \in [Lookups -> Names]
ASSUME AnswerAssumption ==
    /\ Unanswered \cap (Values \cup Errors) = {}
    /\ Values \cap Errors = {}
    /\ Errors # {}
\* BatchConfig::new refuses a zero limit.
ASSUME ConfigAssumption ==
    /\ Size \in Nat \ {0}
    /\ QueueCapacity \in Nat \ {0}
    /\ MaxInFlight \in Nat \ {0}

VARIABLES
  response,   \* the oneshot of every lookup
  queue,      \* the mpsc channel
  shutdown,   \* the shutdown oneshot has fired
  loop,       \* where run_batch_processor stands
  pending,    \* its `pending` vector
  held,       \* the batch spawn_batch holds while it awaits a permit, {} if none
  permits,    \* available permits of the semaphore
  ready,      \* batches whose task is spawned and has not run yet
  calling,    \* batches whose task awaits MojangService::lookup_names
  batches,    \* Metrics::batches_processed
  usernames,  \* Metrics::usernames_batched
  panicked    \* a batch task has stopped unexpectedly

vars == <<response, queue, shutdown, loop, pending, held, permits, ready,
          calling, batches, usernames, panicked>>

Loops == {"select", "drain", "join", "done", "aborted"}

\* The receiver is open: neither closed by the loop nor dropped with it.
Accepting == loop = "select"

\* A batch is a task from its spawn until its permit is dropped.
Tasks == ready \cup calling

\* Where a lookup waits before it belongs to a task.
Backlog == Range(queue) \cup pending \cup held

Init ==
  /\ response = [l \in Lookups |-> "none"]
  /\ queue = <<>>
  /\ shutdown = FALSE
  /\ loop = "select"
  /\ pending = {}
  /\ held = {}
  /\ permits = MaxInFlight
  /\ ready = {}
  /\ calling = {}
  /\ batches = 0
  /\ usernames = 0
  /\ panicked = FALSE

-----------------------------------------------------------------------------
(* The callers' end of the channels.                                       *)

\* BatchLookup::lookup, `sender.send(..).await`: waits for a free slot.
Send(l) ==
  /\ response[l] = "none"
  /\ Accepting
  /\ Len(queue) < QueueCapacity
  /\ queue' = Append(queue, l)
  /\ response' = [response EXCEPT ![l] = "open"]
  /\ UNCHANGED <<shutdown, loop, pending, held, permits, ready, calling,
                 batches, usernames, panicked>>

\* The same send once the receiver is closed or gone: SendError.
SendRefused(l) ==
  /\ response[l] = "none"
  /\ ~Accepting
  /\ response' = [response EXCEPT ![l] = "refused"]
  /\ UNCHANGED <<queue, shutdown, loop, pending, held, permits, ready, calling,
                 batches, usernames, panicked>>

\* The caller's future is dropped at `receiver.await`.
Abandon(l) ==
  /\ response[l] = "open"
  /\ response' = [response EXCEPT ![l] = "closed"]
  /\ UNCHANGED <<queue, shutdown, loop, pending, held, permits, ready, calling,
                 batches, usernames, panicked>>

-----------------------------------------------------------------------------
(* The loop of run_batch_processor.  While held # {} it stands at the      *)
(* `.await` of spawn_batch and takes no other branch.                      *)

\* Seeded fault: a batch is handed over one lookup too late.
CollectPastFull(l) ==
  LET full == Cardinality(pending) >= Size
  IN /\ pending' = IF full THEN {} ELSE pending \cup {l}
     /\ held' = IF full THEN pending \cup {l} ELSE {}

\* pending.push(lookup), and the whole vector to spawn_batch once it is full.
Collect(l) ==
  LET full == Cardinality(pending \cup {l}) >= Size
  IN /\ pending' = IF full THEN {} ELSE pending \cup {l}
     /\ held' = IF full THEN pending \cup {l} ELSE {}

\* Seeded fault: the loop goes on receiving while it holds a batch.
ReceiveWhileHolding ==
  /\ \/ loop = "select" /\ ~shutdown
     \/ loop = "drain"
  /\ queue # <<>>
  /\ queue' = Tail(queue)
  /\ LET l == Head(queue)
         full == Cardinality(pending \cup {l}) >= Size /\ held = {}
     IN /\ pending' = IF full THEN {} ELSE pending \cup {l}
        /\ held' = IF full THEN pending \cup {l} ELSE held
  /\ UNCHANGED <<response, shutdown, loop, permits, ready, calling, batches,
                 usernames, panicked>>

\* `receiver.recv()` yields a lookup, in the select (where the biased order
\* puts the shutdown branch first) or in the drain that follows it.
Receive ==
  /\ \/ loop = "select" /\ ~shutdown
     \/ loop = "drain"
  /\ held = {}
  /\ queue # <<>>
  /\ queue' = Tail(queue)
  /\ Collect(Head(queue))
  /\ UNCHANGED <<response, shutdown, loop, permits, ready, calling, batches,
                 usernames, panicked>>

\* Seeded faults: a copy of the vector is handed over, or only a full one.
TickKeepingPending ==
  /\ loop = "select"
  /\ ~shutdown
  /\ held = {}
  /\ queue = <<>>
  /\ pending # {}
  /\ held' = pending
  /\ UNCHANGED <<response, queue, shutdown, loop, pending, permits, ready,
                 calling, batches, usernames, panicked>>
TickWhenFull ==
  /\ loop = "select"
  /\ ~shutdown
  /\ held = {}
  /\ queue = <<>>
  /\ Cardinality(pending) >= Size
  /\ held' = pending
  /\ pending' = {}
  /\ UNCHANGED <<response, queue, shutdown, loop, permits, ready, calling,
                 batches, usernames, panicked>>

\* `ticker.tick()`: polled after the channel, hence only when that is empty.
Tick ==
  /\ loop = "select"
  /\ ~shutdown
  /\ held = {}
  /\ queue = <<>>
  /\ pending # {}
  /\ held' = pending
  /\ pending' = {}
  /\ UNCHANGED <<response, queue, shutdown, loop, permits, ready, calling,
                 batches, usernames, panicked>>

\* The shutdown branch: `receiver.close()` and out of the loop.
Close ==
  /\ loop = "select"
  /\ held = {}
  /\ shutdown
  /\ loop' = "drain"
  /\ UNCHANGED <<response, queue, shutdown, pending, held, permits, ready,
                 calling, batches, usernames, panicked>>

\* The closed channel is empty: what is left in `pending` is the last batch.
Drained ==
  /\ loop = "drain"
  /\ held = {}
  /\ queue = <<>>
  /\ loop' = "join"
  /\ held' = pending
  /\ pending' = {}
  /\ UNCHANGED <<response, queue, shutdown, permits, ready, calling, batches,
                 usernames, panicked>>

\* Seeded fault: the permit is acquired after the task is spawned.
SpawnWithoutPermit ==
  /\ held # {}
  /\ ready' = ready \cup {held}
  /\ held' = {}
  /\ permits' = IF permits > 0 THEN permits - 1 ELSE 0
  /\ UNCHANGED <<response, queue, shutdown, loop, pending, calling, batches,
                 usernames, panicked>>

\* spawn_batch gets its permit and spawns the task.
Spawn ==
  /\ held # {}
  /\ permits > 0
  /\ permits' = permits - 1
  /\ ready' = ready \cup {held}
  /\ held' = {}
  /\ UNCHANGED <<response, queue, shutdown, loop, pending, calling, batches,
                 usernames, panicked>>

\* Seeded fault: the loop returns without joining its tasks.
StopWithoutJoin ==
  /\ loop = "join"
  /\ held = {}
  /\ loop' = "done"
  /\ response' = [l \in Lookups |->
                    IF l \in UNION Tasks /\ response[l] = "open"
                    THEN "lost" ELSE response[l]]
  /\ ready' = {}
  /\ calling' = {}
  /\ UNCHANGED <<queue, shutdown, pending, held, permits, batches, usernames,
                 panicked>>

\* `tasks.join_next()` has returned every task.
Stop ==
  /\ loop = "join"
  /\ held = {}
  /\ Tasks = {}
  /\ loop' = "done"
  /\ UNCHANGED <<response, queue, shutdown, pending, held, permits, ready,
                 calling, batches, usernames, panicked>>

-----------------------------------------------------------------------------
(* A batch task.  It owns its permit, dropped however the task ends.       *)

EndTask(b) ==
  /\ ready' = ready \ {b}
  /\ calling' = calling \ {b}
  /\ permits' = permits + 1

\* The oneshots of S after their senders are dropped without an answer.
Dropped(S) ==
  [l \in Lookups |-> IF l \in S /\ response[l] = "open" THEN "lost"
                                                        ELSE response[l]]

\* The oneshots of batch b after `send` on each; closed ones ignore it.
Answered(b, answer) ==
  [l \in Lookups |-> IF l \in b /\ response[l] = "open" THEN answer[l]
                                                        ELSE response[l]]

\* Seeded fault: abandoned lookups stay in the batch.
RetainAll(b) == b

\* The lookups that `retain` keeps: those whose caller still waits.
Awaited(b) == {l \in b : response[l] = "open"}

NamesIn(b) == {NameOf[l] : l \in b}

\* Seeded fault: a batch that nobody waits for keeps its permit.
ProcessBatchLeakingPermit(b) ==
  /\ b \in ready
  /\ IF Awaited(b) = {}
     THEN /\ ready' = ready \ {b}
          /\ UNCHANGED <<calling, permits, batches, usernames>>
     ELSE /\ ready' = ready \ {b}
          /\ calling' = calling \cup {Awaited(b)}
          /\ batches' = batches + 1
          /\ usernames' = usernames + Cardinality(Awaited(b))
          /\ UNCHANGED permits
  /\ UNCHANGED <<response, queue, shutdown, loop, pending, held, panicked>>

\* process_batch up to its upstream call: abandoned lookups are dropped, and
\* a batch that nobody waits for ends here.
ProcessBatch(b) ==
  /\ b \in ready
  /\ LET live == Awaited(b)
     IN IF live = {}
        THEN /\ EndTask(b)
             /\ UNCHANGED <<batches, usernames>>
        ELSE /\ ready' = ready \ {b}
             /\ calling' = calling \cup {live}
             /\ batches' = batches + 1
             /\ usernames' = usernames + Cardinality(live)
             /\ UNCHANGED permits
  /\ UNCHANGED <<response, queue, shutdown, loop, pending, held, panicked>>

\* Mojang reports a uuid for some of the names; the others do not exist.
Profiles(b) == UNION {[found -> Uuids] : found \in SUBSET NamesIn(b)}

\* Seeded fault: only the names that Mojang reports are answered.
UuidInOrLost(profiles, name) ==
  IF name \in DOMAIN profiles THEN profiles[name] ELSE "lost"

\* The response of one name: its uuid, or Ok(None).
UuidIn(profiles, name) ==
  IF name \in DOMAIN profiles THEN profiles[name] ELSE "absent"

Resolve(b, profiles) ==
  /\ b \in calling
  /\ response' = Answered(b, [l \in b |-> UuidIn(profiles, NameOf[l])])
  /\ EndTask(b)
  /\ UNCHANGED <<queue, shutdown, loop, pending, held, batches, usernames,
                 panicked>>

\* reject_responses: the error of the call goes to every lookup of the batch.
Reject(b, error) ==
  /\ b \in calling
  /\ response' = Answered(b, [l \in b |-> error])
  /\ EndTask(b)
  /\ UNCHANGED <<queue, shutdown, loop, pending, held, batches, usernames,
                 panicked>>

\* The task panics; the loop reads the JoinError and only logs it.
Panic(b) ==
  /\ b \in calling
  /\ panicked' = TRUE
  /\ response' = Dropped(b)
  /\ EndTask(b)
  /\ UNCHANGED <<queue, shutdown, loop, pending, held, batches, usernames>>

\* The JoinSet was dropped with the aborted loop: its tasks are cancelled at
\* their next await point, and one that answers first still answers.
Cancel(b) ==
  /\ b \in Tasks
  /\ loop = "aborted"
  /\ response' = Dropped(b)
  /\ EndTask(b)
  /\ UNCHANGED <<queue, shutdown, loop, pending, held, batches, usernames,
                 panicked>>

-----------------------------------------------------------------------------
(* BatchProcessor::shutdown.                                               *)

Shutdown ==
  /\ ~shutdown
  /\ shutdown' = TRUE
  /\ UNCHANGED <<response, queue, loop, pending, held, permits, ready, calling,
                 batches, usernames, panicked>>

\* Seeded fault: the shutdown deadline leaves the queued lookups unanswered.
AbortKeepingSenders ==
  /\ shutdown
  /\ loop \notin {"done", "aborted"}
  /\ loop' = "aborted"
  /\ response' = Dropped(held)
  /\ queue' = <<>>
  /\ pending' = {}
  /\ held' = {}
  /\ UNCHANGED <<shutdown, permits, ready, calling, batches, usernames,
                 panicked>>

\* BATCH_SHUTDOWN_TIMEOUT has passed: task.abort() drops the loop's state,
\* the channel's receiver with the lookups in it included.
Abort ==
  /\ shutdown
  /\ loop \notin {"done", "aborted"}
  /\ loop' = "aborted"
  /\ response' = Dropped(Backlog)
  /\ queue' = <<>>
  /\ pending' = {}
  /\ held' = {}
  /\ UNCHANGED <<shutdown, permits, ready, calling, batches, usernames,
                 panicked>>

-----------------------------------------------------------------------------
Callers == \E l \in Lookups : Send(l) \/ SendRefused(l) \/ Abandon(l)

Loop == Receive \/ Tick \/ Close \/ Drained \/ Spawn \/ Stop

Upstream ==
  \E b \in calling :
     \/ \E profiles \in Profiles(b) : Resolve(b, profiles)
     \/ \E error \in Errors : Reject(b, error)

Task ==
  \/ \E b \in ready : ProcessBatch(b)
  \/ Upstream

Next ==
  \/ Callers
  \/ Loop
  \/ Task
  \/ \E b \in calling : Panic(b)
  \/ \E b \in Tasks : Cancel(b)
  \/ Shutdown
  \/ Abort

Spec == Init /\ [][Next]_vars

\* Tokio polls every task it has woken, the interval keeps ticking, and a
\* Mojang request ends within the total timeout of the HTTP client.
Fairness ==
  /\ WF_vars(Loop)
  /\ WF_vars(\E b \in ready : ProcessBatch(b))
  /\ WF_vars(Upstream)
  /\ WF_vars(\E b \in Tasks : Cancel(b))

FairSpec == Spec /\ Fairness

-----------------------------------------------------------------------------
(* What the processor guarantees.                                          *)

TypeOK ==
  /\ response \in [Lookups -> Responses]
  /\ queue \in Seq(Lookups)
  /\ shutdown \in BOOLEAN
  /\ loop \in Loops
  /\ pending \in SUBSET Lookups
  /\ held \in SUBSET Lookups
  /\ permits \in 0..MaxInFlight
  /\ ready \in SUBSET SUBSET Lookups
  /\ calling \in SUBSET SUBSET Lookups
  /\ batches \in Nat
  /\ usernames \in Nat
  /\ panicked \in BOOLEAN

\* A sent lookup is in one place at a time: once in the channel, in the vector
\* that collects a batch, in the batch that waits for a permit, or in one task.
OnePlace ==
  /\ IsInjective(queue)
  /\ Range(queue) \cap (pending \cup held) = {}
  /\ pending \cap held = {}
  /\ Backlog \cap UNION Tasks = {}
  /\ ready \cap calling = {}
  /\ \A b, c \in Tasks : b # c => b \cap c = {}

\* A caller that still waits is waiting for something: its sender is in the
\* channel, in the loop or in a task, and none of those was thrown away.
NobodyStranded ==
  \A l \in Lookups : response[l] = "open" => l \in Backlog \cup UNION Tasks

\* No task carries more names than BatchConfig::size or none at all, and the
\* vector is handed over before it outgrows a batch (batch.rs:194, 234).
BatchBound ==
  /\ Cardinality(pending) < Size
  /\ Cardinality(held) <= Size
  /\ \A b \in Tasks : Cardinality(b) \in 1..Size

\* The permits and the running tasks add up to max_in_flight_batches: a permit
\* neither leaks nor is returned twice, whatever way its task ends.
PermitAccounting ==
  permits + Cardinality(ready) + Cardinality(calling) = MaxInFlight

\* While Mojang is slow the lookups in memory that no task owns yet are bounded:
\* a full channel plus one batch, for the loop stops receiving at the semaphore.
BacklogBound == Cardinality(Backlog) <= QueueCapacity + Size

\* Graceful shutdown: when the loop returns, nobody waits and no lookup that
\* the channel accepted was dropped without an answer, unless a task panicked.
DrainAnswersAll ==
  loop = "done" /\ ~panicked =>
    \A l \in Lookups : response[l] \notin {"open", "lost"}

\* A lookup loses its answer only to a panic or to the shutdown deadline.
NothingLost ==
  (\E l \in Lookups : response[l] = "lost") => panicked \/ loop = "aborted"

\* Every caller that waits gets an answer or an error: from the batch that
\* fills, from the ticker, from the drain or from the dropped sender.
EveryLookupAnswered ==
  \A l \in Lookups : response[l] = "open" ~> response[l] # "open"

\* Once asked to, the processor stops, and its last task with it.
ShutdownEnds == shutdown ~> loop \in {"done", "aborted"} /\ Tasks = {}
=============================================================================
