----------------------------- MODULE SkinLookup -----------------------------
(***************************************************************************)
(* The handler lookup_skin of src/app.rs: the skin cache in front of the   *)
(* Mojang client.  Unlike a name, a skin is asked for inside the future of *)
(* the request that leads, so that the call to Mojang lives and dies with  *)
(* that request.                                                           *)
(***************************************************************************)
EXTENDS Naturals, FiniteSets

CONSTANTS Requests,    \* requests for skins
          Uuids,
          PathOf,      \* what the path of each request holds
          Skins,
          Limit,       \* as in MojangClient
          Chunks

\* The hexadecimal digits, and how they are written.
ASSUME PathAssumption ==
    PathOf \in [Requests ->
                 [digits : Uuids, form : {"compact", "dashed", "other"}]]

\* parse_minecraft_uuid: two ways to write the same uuid.
IsParsed(path) == path.form \in {"compact", "dashed"}

Valid == {r \in Requests : IsParsed(PathOf[r])}
UuidOf == [r \in Valid |-> PathOf[r].digits]

VARIABLES
  cache, waiter, stage, leader, outcome, loaded, expired,
  call, response, result, requests, sent, received, errors,
  refused,        \* the requests that ended with AppError::InvalidUuid
  skin_requests,  \* Metrics
  hits,           \* Metrics::skin_cache_hits
  misses,         \* Metrics::skin_cache_misses
  reported        \* history: what Mojang has reported, pairs of uuid and value

M == INSTANCE MojangClient WITH
       Calls <- Valid, KindOf <- [r \in Valid |-> "skin"],
       BodyOf <- [r \in Valid |-> 0]

ASSUME UpstreamAssumption == M!ClientAssumption

Values == Skins \cup {"absent"}
Errors == M!UpstreamErrors

C == INSTANCE CoalescingCache WITH
       Callers <- Valid, Keys <- Uuids, KeyOf <- UuidOf

ASSUME CacheAssumption == C!CallerAssumption /\ C!ResultAssumption

cacheVars == <<cache, waiter, stage, leader, outcome, loaded, expired>>
clientVars == <<call, response, result, requests, sent, received, errors>>
metrics == <<skin_requests, hits, misses>>
vars == <<cacheVars, clientVars, metrics, refused, reported>>

Init ==
  /\ C!Init
  /\ M!Init
  /\ refused = {}
  /\ skin_requests = 0
  /\ hits = 0
  /\ misses = 0
  /\ reported = {}

-----------------------------------------------------------------------------
Refuse(r) ==
  /\ r \notin Valid \cup refused
  /\ refused' = refused \cup {r}
  /\ skin_requests' = skin_requests + 1
  /\ UNCHANGED <<cacheVars, clientVars, hits, misses, reported>>

\* Seeded fault: a hit is counted whether the value was loaded or not.
CountEveryHit(r) ==
  hits' = IF stage'[r] = "done" /\ outcome'[r] \in Values
          THEN hits + 1 ELSE hits

\* A request that gets a value its own init did not load counts as a hit.
CountHit(r) ==
  hits' = IF stage'[r] = "done" /\ outcome'[r] \in Values /\ ~loaded'[r]
          THEN hits + 1 ELSE hits

Start(r) ==
  /\ C!Get(r)
  /\ skin_requests' = skin_requests + 1
  /\ CountHit(r)
  /\ UNCHANGED <<clientVars, misses, refused, reported>>

Claim(r) ==
  /\ C!Claim(r)
  /\ UNCHANGED <<clientVars, metrics, refused, reported>>

\* The first poll of init counts the miss and starts the call to Mojang.
Recheck(r) ==
  /\ C!Recheck(r)
  /\ CountHit(r)
  /\ IF stage'[r] = "loading"
     THEN misses' = misses + 1 /\ M!Begin(r)
     ELSE UNCHANGED <<misses, clientVars>>
  /\ UNCHANGED <<skin_requests, refused, reported>>

\* The response arrives, piece by piece, or the call fails.
Upstream(r) ==
  /\ M!Progress(r)
  /\ reported' = reported \cup
       (IF result'[r] \in Values THEN {<<UuidOf[r], result'[r]>>} ELSE {})
  /\ UNCHANGED <<cacheVars, metrics, refused>>

\* Seeded fault: the absence of a profile is what every failure looks like.
ReturnAbsentOnFailure(r) ==
  /\ call[r] = "returned"
  /\ C!Loaded(r, IF result[r] \in Values THEN result[r] ELSE "absent")
  /\ CountHit(r)
  /\ UNCHANGED <<clientVars, skin_requests, misses, refused, reported>>

\* init ends with what the call returned, if nobody dropped it before.
Return(r) ==
  /\ \/ result[r] \in Values /\ C!Loaded(r, result[r])
     \/ result[r] \in Errors /\ C!LoadFailed(r, result[r])
  /\ CountHit(r)
  /\ UNCHANGED <<clientVars, skin_requests, misses, refused, reported>>

Follow(r) ==
  /\ C!Follow(r)
  /\ CountHit(r)
  /\ UNCHANGED <<clientVars, skin_requests, misses, refused, reported>>

\* Seeded fault: the call runs in a task of its own.
CancelLeavingCall(r) ==
  /\ C!Cancel(r)
  /\ UNCHANGED <<clientVars, metrics, refused, reported>>

\* The connection goes away, the future of the request with it, and in that
\* the call to Mojang.
Cancel(r) ==
  /\ C!Cancel(r)
  /\ IF r \in M!Active THEN M!Drop(r) ELSE UNCHANGED clientVars
  /\ UNCHANGED <<metrics, refused, reported>>

Expire(u) ==
  /\ C!Expire({u})
  /\ UNCHANGED <<clientVars, metrics, refused, reported>>

Next ==
  \/ \E r \in Requests : Refuse(r)
  \/ \E r \in Valid :
       \/ Start(r) \/ Claim(r) \/ Recheck(r) \/ Follow(r)
       \/ Upstream(r) \/ Return(r)
       \/ Cancel(r)
  \/ \E u \in Uuids : Expire(u)

Spec == Init /\ [][Next]_vars

-----------------------------------------------------------------------------
\* Concurrent requests for one uuid share one in-flight call to Mojang, whoever
\* of them leaves (src/README.md:109): here, unlike for names, no second call
\* starts while the client still waits for the first.
OneCallPerUuid ==
  \A r, q \in M!Active : r # q => UuidOf[r] # UuidOf[q]

\* The requests whose lookup neither hit nor missed: those still on their way
\* to either, those that left before, and those that shared a failure.
Uncounted ==
  {r \in Valid :
     /\ call[r] = "none"
     /\ \/ stage[r] \in {"claiming", "rechecking", "following", "cancelled"}
        \/ stage[r] = "done" /\ outcome[r] \in Errors}

\* The figures of the report agree: every request was refused, was a hit, was a
\* miss that caused one call to Mojang, or is accounted for otherwise; none is
\* counted twice.
MetricsAgree ==
  /\ misses = requests
  /\ skin_requests =
       Cardinality(refused) + hits + misses + Cardinality(Uncounted)

-----------------------------------------------------------------------------
(* The promise to the client, the same as for names.                       *)

Status(r) ==
  IF stage[r] = "done" THEN outcome[r]
  ELSE IF C!Busy(r) THEN "waiting" ELSE stage[r]

Service == INSTANCE NameResolution WITH
  Requests <- Valid,
  NameOf <- UuidOf,
  status <- [r \in Valid |-> Status(r)],
  outages <- Errors \cap {result[r] : r \in Valid}

\* Every request ends with what Mojang reported for its own uuid or with an
\* error that a call met, whoever else was cancelled while it was shared.
ImplementsNameResolution == Service!Spec
=============================================================================
