--------------------------- MODULE CoalescingCache ---------------------------
(***************************************************************************)
(* One of the two caches of src/cache.rs with its coalescing loader:       *)
(* CacheManager::get_or_try_insert_uuid and get_or_try_insert_skin, which  *)
(* are the `entry(key).or_try_insert_with(init)` of a Moka cache.          *)
(*                                                                         *)
(* A caller that misses tries to publish a waiter for its key.  The one    *)
(* that succeeds leads: it looks once more into the cache and then runs    *)
(* its own `init` future; the others follow, and share its value or its    *)
(* error.  When the leader's future is dropped before it publishes a       *)
(* result, its followers start over, each with the `init` it still owns.   *)
(*                                                                         *)
(* Moka panics a caller that has followed 200 dropped leaders; fewer       *)
(* callers than that exist here.                                           *)
(***************************************************************************)
EXTENDS Naturals, FiniteSets

CONSTANTS Callers,     \* calls of get_or_try_insert_*
          Keys,        \* normalised names, or uuids
          KeyOf,       \* the key each caller asks for
          Values,      \* what a load may yield, Ok(None) included
          Errors       \* what a load may fail with

ASSUME CallerAssumption == IsFiniteSet(Callers) /\ KeyOf \in [Callers -> Keys]
ASSUME ResultAssumption ==
    /\ "empty" \notin Values
    /\ "none" \notin Values \cup Errors
    /\ Values \cap Errors = {}
    /\ "nobody" \notin Callers

VARIABLES
  cache,    \* the live entry of every key, "empty" if there is none
  waiter,   \* the caller whose waiter is published for a key
  stage,    \* where each caller stands
  leader,   \* whose waiter a caller follows
  outcome,  \* what a caller's waiter and its call ended with
  loaded,   \* CacheLoad::loaded of a finished call
  expired   \* how often the entry of a key has disappeared

cacheVars == <<cache, waiter, stage, leader, outcome, loaded, expired>>

Stages == {"idle", "claiming", "rechecking", "loading", "following", "done",
           "cancelled"}

\* The callers that hold a waiter: it is theirs until they publish or vanish.
Leading(c) == stage[c] \in {"rechecking", "loading"}

Busy(c) == stage[c] \notin {"idle", "done", "cancelled"}

Init ==
  /\ cache = [k \in Keys |-> "empty"]
  /\ waiter = [k \in Keys |-> "nobody"]
  /\ stage = [c \in Callers |-> "idle"]
  /\ leader = [c \in Callers |-> "nobody"]
  /\ outcome = [c \in Callers |-> "none"]
  /\ loaded = [c \in Callers |-> FALSE]
  /\ expired = [k \in Keys |-> 0]

-----------------------------------------------------------------------------
\* The call returns `result`; is_fresh only for the caller whose init ran.
Finish(c, result, fresh) ==
  /\ stage' = [stage EXCEPT ![c] = "done"]
  /\ outcome' = [outcome EXCEPT ![c] = result]
  /\ loaded' = [loaded EXCEPT ![c] = fresh]

\* Seeded fault: a waiter stays after its leader.
WithdrawNothing(c) == UNCHANGED waiter

\* The waiter of c is taken out of the table.
Withdraw(c) == waiter' = [waiter EXCEPT ![KeyOf[c]] = "nobody"]

\* The first look into the cache.
Get(c) ==
  /\ stage[c] = "idle"
  /\ IF cache[KeyOf[c]] # "empty"
     THEN Finish(c, cache[KeyOf[c]], FALSE)
     ELSE /\ stage' = [stage EXCEPT ![c] = "claiming"]
          /\ UNCHANGED <<outcome, loaded>>
  /\ UNCHANGED <<cache, waiter, leader, expired>>

\* try_insert_waiter: lead, or follow the waiter that is there.
Claim(c) ==
  LET k == KeyOf[c]
  IN /\ stage[c] = "claiming"
     /\ \/ /\ waiter[k] = "nobody"
           /\ waiter' = [waiter EXCEPT ![k] = c]
           /\ stage' = [stage EXCEPT ![c] = "rechecking"]
           /\ UNCHANGED leader
        \/ /\ waiter[k] # "nobody"
           /\ leader' = [leader EXCEPT ![c] = waiter[k]]
           /\ stage' = [stage EXCEPT ![c] = "following"]
           /\ UNCHANGED waiter
     /\ UNCHANGED <<cache, outcome, loaded, expired>>

\* Seeded fault: the leader does not look again.
RecheckNothing(c) ==
  /\ stage[c] = "rechecking"
  /\ stage' = [stage EXCEPT ![c] = "loading"]
  /\ UNCHANGED <<cache, waiter, leader, outcome, loaded, expired>>

\* The leader looks again: an earlier leader may have finished between its
\* first look and its claim.  Otherwise its init future starts.
Recheck(c) ==
  /\ stage[c] = "rechecking"
  /\ IF cache[KeyOf[c]] # "empty"
     THEN /\ Finish(c, cache[KeyOf[c]], FALSE)
          /\ Withdraw(c)
     ELSE /\ stage' = [stage EXCEPT ![c] = "loading"]
          /\ UNCHANGED <<waiter, outcome, loaded>>
  /\ UNCHANGED <<cache, leader, expired>>

\* init yields a value: it is inserted and then published to the followers.
Loaded(c, value) ==
  /\ stage[c] = "loading"
  /\ cache' = [cache EXCEPT ![KeyOf[c]] = value]
  /\ Finish(c, value, TRUE)
  /\ Withdraw(c)
  /\ UNCHANGED <<leader, expired>>

\* init fails: the followers share the error and nothing is cached.
LoadFailed(c, error) ==
  /\ stage[c] = "loading"
  /\ Finish(c, error, FALSE)
  /\ Withdraw(c)
  /\ UNCHANGED <<cache, leader, expired>>

\* Seeded fault: a follower does not notice that its leader was dropped.
FollowOnlyResults(c) ==
  /\ stage[c] = "following"
  /\ stage[leader[c]] = "done"
  /\ Finish(c, outcome[leader[c]], FALSE)
  /\ UNCHANGED <<cache, waiter, leader, expired>>

\* A follower reads the waiter once it is unlocked.
Follow(c) ==
  /\ stage[c] = "following"
  /\ \/ /\ stage[leader[c]] = "done"
        /\ Finish(c, outcome[leader[c]], FALSE)
     \/ /\ stage[leader[c]] = "cancelled"
        /\ stage' = [stage EXCEPT ![c] = "claiming"]
        /\ UNCHANGED <<outcome, loaded>>
  /\ UNCHANGED <<cache, waiter, leader, expired>>

\* The caller's future is dropped; a leader's guard withdraws its waiter.
Cancel(c) ==
  /\ Busy(c)
  /\ stage' = [stage EXCEPT ![c] = "cancelled"]
  /\ IF Leading(c) THEN Withdraw(c) ELSE UNCHANGED waiter
  /\ UNCHANGED <<cache, leader, outcome, loaded, expired>>

\* Entries disappear: their time to live has ended, Moka evicts them for others
\* or the cache is cleared.
Expire(keys) ==
  /\ \A k \in keys : cache[k] # "empty"
  /\ cache' = [k \in Keys |-> IF k \in keys THEN "empty" ELSE cache[k]]
  /\ expired' = [k \in Keys |-> expired[k] + IF k \in keys THEN 1 ELSE 0]
  /\ UNCHANGED <<waiter, stage, leader, outcome, loaded>>

-----------------------------------------------------------------------------
Next ==
  \/ \E c \in Callers :
       \/ Get(c) \/ Claim(c) \/ Recheck(c) \/ Follow(c) \/ Cancel(c)
       \/ \E value \in Values : Loaded(c, value)
       \/ \E error \in Errors : LoadFailed(c, error)
  \/ \E keys \in SUBSET Keys : Expire(keys)

Spec == Init /\ [][Next]_cacheVars

-----------------------------------------------------------------------------
CacheTypeOK ==
  /\ cache \in [Keys -> Values \cup {"empty"}]
  /\ waiter \in [Keys -> Callers \cup {"nobody"}]
  /\ stage \in [Callers -> Stages]
  /\ leader \in [Callers -> Callers \cup {"nobody"}]
  /\ outcome \in [Callers -> Values \cup Errors \cup {"none"}]
  /\ loaded \in [Callers -> BOOLEAN]
  /\ expired \in [Keys -> Nat]

\* The published waiter of a key and the one call that leads for it determine
\* each other, whoever is cancelled or finishes: no key is left with a waiter
\* that nobody will ever complete, and no two calls load the same key.
WaiterIsLeader ==
  \A k \in Keys, c \in Callers :
    waiter[k] = c <=> KeyOf[c] = k /\ Leading(c)

\* Concurrent and later calls share one load: init succeeds again for a key
\* only after the entry it had made is gone (cache.rs:96, 120).
LoadedOnce ==
  \A k \in Keys :
    Cardinality({c \in Callers : KeyOf[c] = k /\ loaded[c]})
      <= expired[k] + (IF cache[k] = "empty" THEN 0 ELSE 1)
=============================================================================
