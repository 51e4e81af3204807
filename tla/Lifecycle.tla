------------------------------ MODULE Lifecycle ------------------------------
(***************************************************************************)
(* The process of src/main.rs: it serves until a signal, lets the HTTP     *)
(* connections drain until a deadline, and then stops the reporter, the    *)
(* batch processor and itself, in this order.                              *)
(*                                                                         *)
(* A connection carries one request, and the request sends one lookup to   *)
(* the processor (the caches are left out: a hit needs nobody else).  The  *)
(* connections are tasks of their own, which the server only waits for: a  *)
(* server that is given up at its deadline leaves them running.            *)
(***************************************************************************)
EXTENDS Naturals, Sequences, FiniteSets

CONSTANTS Connections,  \* each carries one request
          Uuids,        \* as in BatchProcessor
          MojangErrors,
          Size,
          QueueCapacity,
          MaxInFlight

VARIABLES
  phase,       \* where main stands
  drained,     \* the server ended before its deadline
  connection,  \* where each stands
  response, queue, shutdown, loop, pending, held, permits, ready, calling,
  batches, usernames, panicked,
  reporter,    \* where the reporter's task stands
  snapshot, last, told, accepted, repeats

B == INSTANCE BatchProcessor WITH
       Lookups <- Connections, Names <- Connections,
       NameOf <- [r \in Connections |-> r], Errors <- MojangErrors

ASSUME ProcessorAssumption ==
    B!LookupAssumption /\ B!AnswerAssumption /\ B!ConfigAssumption

\* The counters the reporter reads are those of the processor.
R == INSTANCE Reporter WITH
       Batches <- {}, SizeOf <- <<>>, MaxRepeats <- 0,
       counted <- <<>>,
       counters <- [batches |-> batches, usernames |-> usernames],
       loop <- reporter, shutdown <- told

batchVars == <<response, queue, shutdown, loop, pending, held, permits, ready,
               calling, batches, usernames, panicked>>
reporterVars == <<reporter, snapshot, last, told, accepted, repeats>>
mainVars == <<phase, drained, connection>>
lifecycleVars == <<mainVars, batchVars, reporterVars>>

LifecycleInit ==
  /\ phase = "serving"
  /\ drained = FALSE
  /\ connection = [r \in Connections |-> "none"]
  /\ B!Init
  /\ reporter \in {"starting", "stopped"}
  /\ snapshot = R!Zero
  /\ last = R!Zero
  /\ told = FALSE
  /\ accepted = R!Zero
  /\ repeats = 0

-----------------------------------------------------------------------------
(* The connections.  None is left once the process has exited.             *)

Move(r, from, to) ==
  /\ phase # "exited"
  /\ connection[r] = from
  /\ connection' = [connection EXCEPT ![r] = to]

\* The server accepts only until it is told to drain.
Connect(r) ==
  /\ phase = "serving"
  /\ Move(r, "none", "open")
  /\ UNCHANGED <<phase, drained, batchVars, reporterVars>>

\* A connection that has not noticed the signal yet may still begin a request.
Begin(r) ==
  /\ Move(r, "open", "asking")
  /\ UNCHANGED <<phase, drained, batchVars, reporterVars>>

Ask(r) ==
  /\ phase # "exited"
  /\ connection[r] = "asking"
  /\ B!Send(r) \/ B!SendRefused(r)
  /\ UNCHANGED <<mainVars, reporterVars>>

\* The oneshot has fired or failed, and the response is written.
Respond(r) ==
  /\ response[r] \notin {"none", "open", "closed"}
  /\ Move(r, "asking", "served")
  /\ UNCHANGED <<phase, drained, batchVars, reporterVars>>

\* The client hangs up, before its request or during it.
HangUp(r) ==
  /\ \/ Move(r, "open", "gone") /\ UNCHANGED batchVars
     \/ /\ Move(r, "asking", "gone")
        /\ IF response[r] = "open" THEN B!Abandon(r) ELSE UNCHANGED batchVars
  /\ UNCHANGED <<phase, drained, reporterVars>>

Busy == {r \in Connections : connection[r] \in {"open", "asking"}}

-----------------------------------------------------------------------------
(* main.                                                                   *)

\* Seeded fault: the processor is shut down with the signal, too.
SignalToAll ==
  /\ phase = "serving"
  /\ phase' = "draining"
  /\ B!Shutdown
  /\ UNCHANGED <<drained, connection, reporterVars>>

Signal ==
  /\ phase = "serving"
  /\ phase' = "draining"
  /\ UNCHANGED <<drained, connection, batchVars, reporterVars>>

\* DiscordReporter::shutdown is called as soon as the server is out of the way.
ServerDrained ==
  /\ phase = "draining"
  /\ Busy = {}
  /\ phase' = "reporter"
  /\ drained' = TRUE
  /\ UNCHANGED batchVars
  /\ R!Shutdown
  /\ UNCHANGED connection

\* Seeded fault: the server is waited for without a deadline.
HttpDeadlineIgnored ==
  /\ phase = "draining"
  /\ Busy = {}
  /\ phase' = "reporter"
  /\ UNCHANGED batchVars
  /\ R!Shutdown
  /\ UNCHANGED <<drained, connection>>

\* HTTP_SHUTDOWN_TIMEOUT: the server is dropped, its connections are not.
HttpDeadline ==
  /\ phase = "draining"
  /\ Busy # {}
  /\ phase' = "reporter"
  /\ UNCHANGED batchVars
  /\ R!Shutdown
  /\ UNCHANGED <<drained, connection>>

\* The reporter's task has ended: BatchProcessor::shutdown.
ReporterStopped ==
  /\ phase = "reporter"
  /\ reporter = "stopped"
  /\ phase' = "processor"
  /\ B!Shutdown
  /\ UNCHANGED <<drained, connection, reporterVars>>

\* BATCH_SHUTDOWN_TIMEOUT
BatchDeadline ==
  /\ phase = "processor"
  /\ B!Abort
  /\ UNCHANGED <<mainVars, reporterVars>>

\* The caches are cleared, main returns, and the runtime drops every task that
\* is left, the connections among them.
Exit ==
  /\ phase = "processor"
  /\ loop \in {"done", "aborted"}
  /\ phase' = "exited"
  /\ connection' = [r \in Connections |-> IF r \in Busy THEN "cut"
                                                        ELSE connection[r]]
  /\ UNCHANGED <<drained, batchVars, reporterVars>>

-----------------------------------------------------------------------------
(* The other tasks, until the runtime is gone.                             *)

Loop ==
  /\ phase # "exited"
  /\ B!Loop
  /\ UNCHANGED <<mainVars, reporterVars>>

ProcessBatch(b) ==
  /\ phase # "exited"
  /\ B!ProcessBatch(b)
  /\ UNCHANGED <<mainVars, reporterVars>>

Upstream ==
  /\ phase # "exited"
  /\ B!Upstream
  /\ UNCHANGED <<mainVars, reporterVars>>

Interrupt ==
  /\ phase # "exited"
  /\ \/ \E b \in calling : B!Panic(b)
     \/ \E b \in B!Tasks : B!Cancel(b)
  /\ UNCHANGED <<mainVars, reporterVars>>

Report ==
  /\ phase # "exited"
  /\ UNCHANGED <<mainVars, batchVars>>
  /\ R!Build \/ R!BuildFailed \/ R!Tick \/ R!Read
     \/ R!Delivered \/ R!Failed \/ R!Stop

Main == ServerDrained \/ HttpDeadline \/ ReporterStopped \/ BatchDeadline \/ Exit

LifecycleNext ==
  \/ \E r \in Connections :
       Connect(r) \/ Begin(r) \/ Ask(r) \/ Respond(r) \/ HangUp(r)
  \/ Signal
  \/ Main
  \/ Loop
  \/ \E b \in ready : ProcessBatch(b)
  \/ Upstream
  \/ Interrupt
  \/ Report

LifecycleSpec == LifecycleInit /\ [][LifecycleNext]_lifecycleVars

\* Timers fire, also those of the deadlines, and the reporter's task is polled.
Fairness == WF_lifecycleVars(Main) /\ WF_lifecycleVars(Report)

FairSpec == LifecycleSpec /\ Fairness

-----------------------------------------------------------------------------
\* A shutdown whose server drains in time costs nobody an answer: no request
\* was refused by the processor, lost its answer to the abort or was cut off by
\* the exit.  The processor accepts and answers as long as a handler may ask.
DrainedIsServed ==
  drained /\ ~panicked =>
    \A r \in Connections :
      connection[r] # "cut" /\ response[r] \notin {"refused", "lost"}

\* Once the process is told to stop it exits, whatever connections idle, what
\* Mojang and Discord do and where the processor's drain stands
\* (src/README.md:117): every wait of main has an end.
ShutdownExits == phase = "draining" ~> phase = "exited"
=============================================================================
