----------------------------- MODULE UuidLookup -----------------------------
(***************************************************************************)
(* The handler lookup_uuid of src/app.rs with BatchLookup::lookup of       *)
(* src/batch.rs: the name cache in front of the batch processor.  The      *)
(* request that leads for its name runs the `init` future, which sends one *)
(* PendingLookup (of the same identity here) and awaits its oneshot.       *)
(*                                                                         *)
(* The cache steps come from CoalescingCache, the processor's from         *)
(* BatchProcessor; this module adds the future that joins the two, the     *)
(* metrics it updates, and a history of what Mojang did.                   *)
(***************************************************************************)
EXTENDS Naturals, Sequences, FiniteSets

CONSTANTS Requests,       \* requests for uuids
          Names,          \* names after make_ascii_lowercase
          PathOf,         \* the name in the path of each request
          Uuids,          \* uuids Mojang may report
          MojangErrors,   \* the errors Mojang may cause
          Size,           \* BatchConfig
          QueueCapacity,
          MaxInFlight

\* Of a name its letters without their case, its length and whether all its
\* characters are allowed.
ASSUME PathAssumption ==
    PathOf \in [Requests -> [lower : Names, length : Nat, allowed : BOOLEAN]]

\* is_valid_minecraft_username
IsValid(name) == name.length \in 1..16 /\ name.allowed

Valid == {r \in Requests : IsValid(PathOf[r])}
NameOf == [r \in Valid |-> PathOf[r].lower]

VARIABLES
  cache, waiter, stage, leader, outcome, loaded, expired,
  response, queue, shutdown, loop, pending, held, permits, ready, calling,
  batches, usernames, panicked,
  refused,   \* the requests that ended with AppError::InvalidName
  uuid_requests, \* Metrics
  hits,      \* Metrics::uuid_cache_hits
  misses,    \* Metrics::uuid_cache_misses
  asked,     \* history: the upstream calls that carried each name
  reported,  \* history: what Mojang has reported, pairs of name and value
  outages    \* history: the errors Mojang's calls have ended with

Values == Uuids \cup {"absent"}
Errors == MojangErrors \cup {"transport"}

C == INSTANCE CoalescingCache WITH
       Callers <- Valid, Keys <- Names, KeyOf <- NameOf

B == INSTANCE BatchProcessor WITH
       Lookups <- Valid, Errors <- MojangErrors

ASSUME CacheAssumption == C!CallerAssumption /\ C!ResultAssumption
ASSUME ProcessorAssumption ==
    B!LookupAssumption /\ B!AnswerAssumption /\ B!ConfigAssumption

cacheVars == <<cache, waiter, stage, leader, outcome, loaded, expired>>
batchVars == <<response, queue, shutdown, loop, pending, held, permits, ready,
               calling, batches, usernames, panicked>>
metrics == <<uuid_requests, hits, misses>>
history == <<asked, reported, outages>>
vars == <<cacheVars, batchVars, metrics, refused, history>>

Init ==
  /\ C!Init
  /\ B!Init
  /\ refused = {}
  /\ uuid_requests = 0
  /\ hits = 0
  /\ misses = 0
  /\ asked = [n \in Names |-> 0]
  /\ reported = {}
  /\ outages = {}

-----------------------------------------------------------------------------
(* One request.                                                            *)

Refuse(r) ==
  /\ r \notin Valid \cup refused
  /\ refused' = refused \cup {r}
  /\ uuid_requests' = uuid_requests + 1
  /\ UNCHANGED <<cacheVars, hits, misses, batchVars, history>>

\* Seeded fault: a hit is counted whether the value was loaded or not.
CountEveryHit(r) ==
  hits' = IF stage'[r] = "done" /\ outcome'[r] \in Values
          THEN hits + 1 ELSE hits

\* A call that returns a value its own init did not load counts as a hit.
CountHit(r) ==
  hits' = IF stage'[r] = "done" /\ outcome'[r] \in Values /\ ~loaded'[r]
          THEN hits + 1 ELSE hits

Start(r) ==
  /\ C!Get(r)
  /\ uuid_requests' = uuid_requests + 1
  /\ CountHit(r)
  /\ UNCHANGED <<misses, refused, batchVars, history>>

Claim(r) ==
  /\ C!Claim(r)
  /\ UNCHANGED <<metrics, refused, batchVars, history>>

\* The first poll of init counts the miss before it sends.
Recheck(r) ==
  /\ C!Recheck(r)
  /\ CountHit(r)
  /\ misses' = IF stage'[r] = "loading" THEN misses + 1 ELSE misses
  /\ UNCHANGED <<uuid_requests, refused, batchVars, history>>

Send(r) ==
  /\ stage[r] = "loading"
  /\ B!Send(r)
  /\ UNCHANGED <<cacheVars, metrics, refused, history>>

\* SendError and RecvError both become UpstreamError::Transport.
SendRefused(r) ==
  /\ stage[r] = "loading"
  /\ B!SendRefused(r)
  /\ C!LoadFailed(r, "transport")
  /\ UNCHANGED <<metrics, refused, history>>

\* Seeded fault: a dropped oneshot reads as the absence of the name.
ReceiveLostAsAbsent(r) ==
  /\ \/ C!Loaded(r, IF response[r] = "lost" THEN "absent" ELSE response[r])
        /\ response[r] \in Values \cup {"lost"}
     \/ response[r] \in MojangErrors /\ C!LoadFailed(r, response[r])
  /\ CountHit(r)
  /\ UNCHANGED <<uuid_requests, misses, refused, batchVars, history>>

\* receiver.await: a value, the error of the batch, or a dropped sender.
Receive(r) ==
  /\ \/ response[r] \in Values /\ C!Loaded(r, response[r])
     \/ response[r] \in MojangErrors /\ C!LoadFailed(r, response[r])
     \/ response[r] = "lost" /\ C!LoadFailed(r, "transport")
  /\ CountHit(r)
  /\ UNCHANGED <<uuid_requests, misses, refused, batchVars, history>>

Follow(r) ==
  /\ C!Follow(r)
  /\ CountHit(r)
  /\ UNCHANGED <<uuid_requests, misses, refused, batchVars, history>>

\* Seeded fault: the oneshot's receiver outlives the request.
CancelKeepingReceiver(r) ==
  /\ C!Cancel(r)
  /\ UNCHANGED <<batchVars, metrics, refused, history>>

\* The connection goes away and the future with it, the oneshot's receiver
\* included; what was sent stays in the channel.
Cancel(r) ==
  /\ C!Cancel(r)
  /\ IF response[r] = "open" THEN B!Abandon(r) ELSE UNCHANGED batchVars
  /\ UNCHANGED <<metrics, refused, history>>

Expire(n) ==
  /\ C!Expire({n})
  /\ UNCHANGED <<metrics, refused, batchVars, history>>

-----------------------------------------------------------------------------
(* The processor, with the history of its upstream calls.                  *)

ProcessBatch(b) ==
  /\ B!ProcessBatch(b)
  /\ asked' = [n \in Names |->
                 IF n \in B!NamesIn(B!Awaited(b)) THEN asked[n] + 1
                                                  ELSE asked[n]]
  /\ UNCHANGED <<cacheVars, metrics, refused, reported, outages>>

Resolve(b, profiles) ==
  /\ B!Resolve(b, profiles)
  /\ reported' = reported \cup
                   {<<n, B!UuidIn(profiles, n)>> : n \in B!NamesIn(b)}
  /\ UNCHANGED <<cacheVars, metrics, refused, asked, outages>>

Reject(b, error) ==
  /\ B!Reject(b, error)
  /\ outages' = outages \cup {error}
  /\ UNCHANGED <<cacheVars, metrics, refused, asked, reported>>

Other ==
  /\ \/ B!Loop
     \/ \E b \in calling : B!Panic(b)
     \/ \E b \in B!Tasks : B!Cancel(b)
     \/ B!Shutdown
     \/ B!Abort
  /\ UNCHANGED <<cacheVars, metrics, refused, history>>

Upstream ==
  \E b \in calling :
    \/ \E profiles \in B!Profiles(b) : Resolve(b, profiles)
    \/ \E error \in MojangErrors : Reject(b, error)

Processor ==
  \/ Other
  \/ \E b \in ready : ProcessBatch(b)
  \/ Upstream

\* One poll of the future of request r.
Poll(r) ==
  Claim(r) \/ Recheck(r) \/ Send(r) \/ SendRefused(r) \/ Receive(r) \/ Follow(r)

Next ==
  \/ \E r \in Requests : Refuse(r)
  \/ \E r \in Valid : Start(r) \/ Poll(r) \/ Cancel(r)
  \/ \E n \in Names : Expire(n)
  \/ Processor

Spec == Init /\ [][Next]_vars

\* A woken future is polled; the loop and its tasks run; Mojang's calls end.
Fairness ==
  /\ \A r \in Valid : WF_vars(Poll(r))
  /\ WF_vars(B!Loop /\ UNCHANGED <<cacheVars, metrics, refused, history>>)
  /\ WF_vars(\E b \in ready : ProcessBatch(b))
  /\ WF_vars(Upstream)
  /\ WF_vars(\E b \in B!Tasks : B!Cancel(b)
                                /\ UNCHANGED <<cacheVars, metrics, refused, history>>)

FairSpec == Spec /\ Fairness

-----------------------------------------------------------------------------
\* No call to Mojang carries the same name twice, though the lookup of a
\* request that left may sit in the same batch as that of its successor.
NoDuplicateNameInCall ==
  \A b \in calling : \A r, q \in b : r # q => NameOf[r] # NameOf[q]

\* A lookup that is still awaited belongs to the request that leads for its
\* name: at most one per name, and none outlives its request.
OpenLookupIsLoading ==
  \A r \in Valid :
    response[r] = "open" => stage[r] = "loading" /\ waiter[NameOf[r]] = r

\* A name goes to Mojang again only when its entry had disappeared, its lookup
\* had failed or the request that led for it had left after it sent.
AskedAgainForAReason ==
  \A n \in Names :
    asked[n] <= 1 + expired[n]
                + Cardinality({r \in Valid :
                     /\ NameOf[r] = n
                     /\ \/ stage[r] = "cancelled" /\ response[r] # "none"
                        \/ response[r] \in MojangErrors \cup {"lost"}})

\* The requests that a hit or a miss is due for: they got a value, or are on
\* their way to the processor or have been there.
Counted ==
  {r \in Valid :
     \/ stage[r] = "loading" \/ response[r] # "none"
     \/ stage[r] = "done" /\ outcome[r] \in Values}

\* The figures of the report agree: every request was refused, was one hit or
\* one miss, or ended before it was either; and every name in a batch was
\* counted as a miss first.  Of a request that left in between both is right.
MetricsAgree ==
  LET left == {r \in Valid : stage[r] = "cancelled"}
      started == {r \in Valid : stage[r] # "idle"}
  IN /\ hits + misses \in
          Cardinality(Counted)..Cardinality(Counted \cup left)
     /\ uuid_requests = Cardinality(refused) + Cardinality(started)
     /\ usernames <= misses

\* Concurrent requests for one name share one in-flight lookup instead of
\* creating duplicate Mojang requests, as the README says (src/README.md:109):
\* while Mojang is asked for request r, one that followed r does not ask too.
SharedInFlight ==
  \A b, c \in calling : \A r \in b, q \in c :
    b # c /\ leader[q] = r => NameOf[r] # NameOf[q]

-----------------------------------------------------------------------------
(* The promise to the handlers.                                            *)

Status(r) ==
  IF stage[r] = "done" THEN outcome[r]
  ELSE IF C!Busy(r) THEN "waiting" ELSE stage[r]

Service == INSTANCE NameResolution WITH
  Requests <- Valid,
  status <- [r \in Valid |-> Status(r)],
  outages <- outages \cup (IF shutdown \/ panicked THEN {"transport"} ELSE {})

\* Every request ends with what Mojang reported for its own name, with an
\* error some call met, or with a transport error once the processor was shut
\* down or a task had panicked: nothing is invented, mixed up between the names
\* of a batch, or remembered wrongly.
ImplementsNameResolution == Service!Spec

\* Every request ends, whatever other requests are cancelled and wherever the
\* shutdown finds it.
EveryRequestEnds == Service!EveryRequestEnds
=============================================================================
