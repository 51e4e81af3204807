------------------------------ MODULE Reporter ------------------------------
(***************************************************************************)
(* The status reporter of src/reporter.rs over the counters of             *)
(* src/metrics.rs.  The batch tasks count with two separate fetch_add, the *)
(* reporter reads one counter after the other, and a report reaches        *)
(* Discord, is refused, or is accepted by a Discord whose answer is lost.  *)
(* Two counters stand for the twelve; record_batch updates both.           *)
(***************************************************************************)
EXTENDS Naturals, FiniteSetsExt

CONSTANTS Batches,     \* batches that are processed, each counted once
          SizeOf,      \* the names in each
          MaxRepeats   \* bound: reports accepted without the reporter knowing

ASSUME ReporterAssumption ==
    /\ SizeOf \in [Batches -> Nat \ {0}]
    /\ MaxRepeats \in Nat

VARIABLES
  counted,   \* how far each batch has got in record_batch
  counters,  \* batches_processed and usernames_batched
  loop,      \* where the reporter's task stands
  snapshot,  \* current_snapshot, as far as it is read
  last,      \* last_successful_snapshot
  shutdown,  \* the shutdown oneshot has fired
  accepted,  \* history: the sums over all reports Discord has accepted
  repeats    \* history: the accepted reports that looked failed

vars == <<counted, counters, loop, snapshot, last, shutdown, accepted, repeats>>

Counters == {"batches", "usernames"}
Zero == [c \in Counters |-> 0]
Loops == {"starting", "waiting", "reading", "sending", "stopped"}

\* The reporter is started before the server accepts its first request.
Init ==
  /\ counted = [b \in Batches |-> "no"]
  /\ counters = Zero
  /\ loop = "starting"
  /\ snapshot = Zero
  /\ last = Zero
  /\ shutdown = FALSE
  /\ accepted = Zero
  /\ repeats = 0

-----------------------------------------------------------------------------
(* Metrics::record_batch.                                                  *)

CountBatch(b) ==
  /\ counted[b] = "no"
  /\ counted' = [counted EXCEPT ![b] = "batch"]
  /\ counters' = [counters EXCEPT !["batches"] = @ + 1]
  /\ UNCHANGED <<loop, snapshot, last, shutdown, accepted, repeats>>

CountNames(b) ==
  /\ counted[b] = "batch"
  /\ counted' = [counted EXCEPT ![b] = "names"]
  /\ counters' = [counters EXCEPT !["usernames"] = @ + SizeOf[b]]
  /\ UNCHANGED <<loop, snapshot, last, shutdown, accepted, repeats>>

-----------------------------------------------------------------------------
(* The reporter's task.                                                    *)

\* The HTTP client is built and the interval's first tick passes at once.
Build ==
  /\ loop = "starting"
  /\ loop' = "waiting"
  /\ UNCHANGED <<counted, counters, snapshot, last, shutdown, accepted, repeats>>

BuildFailed ==
  /\ loop = "starting"
  /\ loop' = "stopped"
  /\ UNCHANGED <<counted, counters, snapshot, last, shutdown, accepted, repeats>>

\* Seeded fault: the branch of the ticker is tried first.
TickDespiteShutdown ==
  /\ loop = "waiting"
  /\ loop' = "reading"
  /\ snapshot' = [snapshot EXCEPT !["batches"] = counters["batches"]]
  /\ UNCHANGED <<counted, counters, last, shutdown, accepted, repeats>>

\* The interval ticks: snapshot() loads its first counter ...
Tick ==
  /\ loop = "waiting"
  /\ ~shutdown
  /\ loop' = "reading"
  /\ snapshot' = [snapshot EXCEPT !["batches"] = counters["batches"]]
  /\ UNCHANGED <<counted, counters, last, shutdown, accepted, repeats>>

\* ... and its second, and the report is posted.
Read ==
  /\ loop = "reading"
  /\ loop' = "sending"
  /\ snapshot' = [snapshot EXCEPT !["usernames"] = counters["usernames"]]
  /\ UNCHANGED <<counted, counters, last, shutdown, accepted, repeats>>

\* Seeded fault: the report covers everything since the start.
SinceStart == snapshot

\* MetricsSnapshot::since the last report that succeeded, saturating.
Since ==
  [c \in Counters |-> IF snapshot[c] > last[c] THEN snapshot[c] - last[c] ELSE 0]

AcceptedMore == [c \in Counters |-> accepted[c] + Since[c]]

\* Seeded fault: the next window starts when the answer arrives.
DeliveredLate ==
  /\ loop = "sending"
  /\ loop' = "waiting"
  /\ last' = counters
  /\ accepted' = AcceptedMore
  /\ UNCHANGED <<counted, counters, snapshot, shutdown, repeats>>

\* Seeded fault: the window advances whatever became of the report.
FailedAdvancing ==
  /\ loop = "sending"
  /\ loop' = "waiting"
  /\ last' = snapshot
  /\ UNCHANGED <<counted, counters, snapshot, shutdown, accepted, repeats>>

\* Discord accepts the report and says so.
Delivered ==
  /\ loop = "sending"
  /\ loop' = "waiting"
  /\ last' = snapshot
  /\ accepted' = AcceptedMore
  /\ UNCHANGED <<counted, counters, snapshot, shutdown, repeats>>

\* A transport error, the timeout, or an unsuccessful status.
Failed ==
  /\ loop = "sending"
  /\ loop' = "waiting"
  /\ UNCHANGED <<counted, counters, snapshot, last, shutdown, accepted, repeats>>

\* Discord accepts the report but its answer is lost or late.
AnswerLost ==
  /\ loop = "sending"
  /\ repeats < MaxRepeats
  /\ loop' = "waiting"
  /\ accepted' = AcceptedMore
  /\ repeats' = repeats + 1
  /\ UNCHANGED <<counted, counters, snapshot, last, shutdown>>

\* DiscordReporter::shutdown, which then awaits the task.
Shutdown ==
  /\ ~shutdown
  /\ shutdown' = TRUE
  /\ UNCHANGED <<counted, counters, loop, snapshot, last, accepted, repeats>>

\* The shutdown is noticed between two reports, never during one.
Stop ==
  /\ loop = "waiting"
  /\ shutdown
  /\ loop' = "stopped"
  /\ UNCHANGED <<counted, counters, snapshot, last, shutdown, accepted, repeats>>

-----------------------------------------------------------------------------
Next ==
  \/ \E b \in Batches : CountBatch(b) \/ CountNames(b)
  \/ Build \/ BuildFailed \/ Tick \/ Read \/ Stop
  \/ Delivered \/ Failed \/ AnswerLost
  \/ Shutdown

Spec == Init /\ [][Next]_vars

\* The task is polled, the interval ticks and a request ends in its timeout;
\* that Discord accepts again and again is an assumption of its own.
Fairness ==
  /\ WF_vars(Build \/ BuildFailed)
  /\ WF_vars(Tick)
  /\ WF_vars(Read)
  /\ WF_vars(Delivered \/ Failed \/ AnswerLost)
  /\ WF_vars(Stop)

FairSpec == Spec /\ Fairness /\ SF_vars(Delivered)

-----------------------------------------------------------------------------
TypeOK ==
  /\ counted \in [Batches -> {"no", "batch", "names"}]
  /\ counters \in [Counters -> Nat]
  /\ loop \in Loops
  /\ last \in [Counters -> Nat]
  /\ snapshot \in [Counters -> Nat]
  /\ \A c \in Counters : snapshot[c] \in last[c]..counters[c]
  /\ shutdown \in BOOLEAN
  /\ accepted \in [Counters -> Nat]
  /\ repeats \in 0..MaxRepeats

\* The window only advances past what Discord has accepted, so that failed
\* reports discard nothing (src/README.md:115), not even what was counted while
\* the report was under way.
NothingDiscarded ==
  \A c \in Counters : last[c] <= counters[c] /\ last[c] <= accepted[c]

\* As long as no answer of Discord was lost, its reports add up to no more than
\* what was counted: nothing is reported twice.
NothingRepeated ==
  repeats = 0 => \A c \in Counters : accepted[c] <= counters[c]

\* Every name that is counted reaches Discord in some accepted report, however
\* many fail before, unless the reporter stops: its last window goes unreported.
EventuallyReported ==
  \A n \in 1..MapThenSumSet(LAMBDA b : SizeOf[b], Batches) :
    counters["usernames"] >= n ~> accepted["usernames"] >= n \/ loop = "stopped"

\* The shutdown ends even if a report is under way.
ShutdownEnds == shutdown ~> loop = "stopped"
=============================================================================
