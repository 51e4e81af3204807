------------------------ MODULE CacheLifetime_proofs ------------------------
(***************************************************************************)
(* Proofs about CoalescingCache and CacheLifetime, for every finite set of *)
(* callers, all keys and values and every pair of times to live.           *)
(*                                                                         *)
(* Loads is inductive for the steps of CoalescingCache, and Counted given  *)
(* Loads.  The steps of CacheLifetime are steps of CoalescingCache; given  *)
(* Loads they preserve Lifetime, which says where every entry comes from.  *)
(* The last section, what calls end with, is for the modules that compose. *)
(***************************************************************************)
EXTENDS CacheLifetime, FiniteSetTheorems, TLAPS

-----------------------------------------------------------------------------
(* The loads.                                                              *)

\* A follower has a leader for its own key, which once led.
Followed ==
  \A c \in Callers :
    stage[c] = "following" =>
      /\ leader[c] \in Callers
      /\ KeyOf[leader[c]] = KeyOf[c]
      /\ stage[leader[c]] \in {"rechecking", "loading", "done", "cancelled"}

\* While a call loads, nobody else makes an entry of its key.
LoadingIsEmpty ==
  \A c \in Callers : stage[c] = "loading" => cache[KeyOf[c]] = "empty"

LoadedAreDone == \A c \in Callers : loaded[c] => stage[c] = "done" /\ outcome[c] \in Values

Loads ==
  CacheTypeOK /\ WaiterIsLeader /\ Followed /\ LoadingIsEmpty /\ LoadedAreDone

LEMMA InitLoads == Init => Loads
BY CallerAssumption, ResultAssumption
   DEF Init, Loads, CacheTypeOK, WaiterIsLeader, Followed, LoadingIsEmpty,
       LoadedAreDone, Leading, Stages

\* The first look ends with an entry, or leads to a claim.
LEMMA GetLoads ==
  ASSUME Loads, NEW c \in Callers, Get(c)
  PROVE  Loads'
<1> USE CallerAssumption, ResultAssumption DEF Loads, Get, Finish
<1>1. CacheTypeOK'
  BY DEF CacheTypeOK, Stages
<1>2. WaiterIsLeader'
  BY DEF CacheTypeOK, WaiterIsLeader, Leading
<1>3. Followed' /\ LoadingIsEmpty' /\ LoadedAreDone'
  BY DEF CacheTypeOK, Followed, LoadingIsEmpty, LoadedAreDone
<1> QED
  BY <1>1, <1>2, <1>3

\* One claims the waiter of a key, the others get to know who did.
LEMMA ClaimLoads ==
  ASSUME Loads, NEW c \in Callers, Claim(c)
  PROVE  Loads'
<1> USE CallerAssumption, ResultAssumption DEF Loads, Claim
<1>1. CacheTypeOK'
  BY DEF CacheTypeOK, Stages
<1>2. WaiterIsLeader'
  BY DEF CacheTypeOK, WaiterIsLeader, Leading
<1>3. Followed'
  BY DEF CacheTypeOK, WaiterIsLeader, Leading, Followed
<1>4. LoadingIsEmpty' /\ LoadedAreDone'
  BY DEF CacheTypeOK, LoadingIsEmpty, LoadedAreDone
<1> QED
  BY <1>1, <1>2, <1>3, <1>4

LEMMA RecheckLoads ==
  ASSUME Loads, NEW c \in Callers, Recheck(c)
  PROVE  Loads'
<1> USE CallerAssumption, ResultAssumption DEF Loads, Recheck, Finish, Withdraw
<1>1. CacheTypeOK'
  <2>1. CASE cache[KeyOf[c]] # "empty"
    <3>1. cache[KeyOf[c]] \in Values
      BY <2>1 DEF CacheTypeOK
    <3> QED
      BY <2>1, <3>1 DEF CacheTypeOK, Stages
  <2>2. CASE cache[KeyOf[c]] = "empty"
    BY <2>2 DEF CacheTypeOK, Stages
  <2> QED
    BY <2>1, <2>2
<1>2. WaiterIsLeader'
  BY DEF CacheTypeOK, WaiterIsLeader, Leading
<1>3. Followed' /\ LoadingIsEmpty' /\ LoadedAreDone'
  BY DEF CacheTypeOK, Followed, LoadingIsEmpty, LoadedAreDone
<1> QED
  BY <1>1, <1>2, <1>3

\* A load publishes its value; no other call of its key is loading.
LEMMA LoadedLoads ==
  ASSUME Loads, NEW c \in Callers, NEW value \in Values, Loaded(c, value)
  PROVE  Loads'
<1> USE CallerAssumption, ResultAssumption DEF Loads, Loaded, Finish, Withdraw
<1>1. CacheTypeOK'
  BY DEF CacheTypeOK, Stages
<1>2. WaiterIsLeader'
  BY DEF CacheTypeOK, WaiterIsLeader, Leading
<1>3. LoadingIsEmpty'
  BY DEF CacheTypeOK, WaiterIsLeader, Leading, LoadingIsEmpty
<1>4. Followed' /\ LoadedAreDone'
  BY DEF CacheTypeOK, Followed, LoadedAreDone
<1> QED
  BY <1>1, <1>2, <1>3, <1>4

LEMMA LoadFailedLoads ==
  ASSUME Loads, NEW c \in Callers, NEW error \in Errors, LoadFailed(c, error)
  PROVE  Loads'
<1> USE CallerAssumption, ResultAssumption DEF Loads, LoadFailed, Finish, Withdraw
<1>1. CacheTypeOK'
  BY DEF CacheTypeOK, Stages
<1>2. WaiterIsLeader'
  BY DEF CacheTypeOK, WaiterIsLeader, Leading
<1>3. Followed' /\ LoadingIsEmpty' /\ LoadedAreDone'
  BY DEF CacheTypeOK, Followed, LoadingIsEmpty, LoadedAreDone
<1> QED
  BY <1>1, <1>2, <1>3

LEMMA FollowLoads ==
  ASSUME Loads, NEW c \in Callers, Follow(c)
  PROVE  Loads'
<1> USE CallerAssumption, ResultAssumption DEF Loads, Follow, Finish
<1>1. CacheTypeOK'
  <2>1. outcome[leader[c]] \in Values \cup Errors \cup {"none"}
    BY DEF CacheTypeOK, Followed
  <2> QED
    BY <2>1 DEF CacheTypeOK, Stages
<1>2. WaiterIsLeader'
  BY DEF CacheTypeOK, WaiterIsLeader, Leading
<1>3. Followed' /\ LoadingIsEmpty' /\ LoadedAreDone'
  BY DEF CacheTypeOK, Followed, LoadingIsEmpty, LoadedAreDone
<1> QED
  BY <1>1, <1>2, <1>3

LEMMA CancelLoads ==
  ASSUME Loads, NEW c \in Callers, Cancel(c)
  PROVE  Loads'
<1> USE CallerAssumption, ResultAssumption DEF Loads, Cancel, Busy, Withdraw
<1>1. CacheTypeOK'
  BY DEF CacheTypeOK, Stages
<1>2. WaiterIsLeader'
  BY DEF CacheTypeOK, WaiterIsLeader, Leading
<1>3. Followed' /\ LoadingIsEmpty' /\ LoadedAreDone'
  BY DEF CacheTypeOK, Followed, LoadingIsEmpty, LoadedAreDone
<1> QED
  BY <1>1, <1>2, <1>3

LEMMA ExpireLoads ==
  ASSUME Loads, NEW keys \in SUBSET Keys, Expire(keys)
  PROVE  Loads'
<1> USE CallerAssumption, ResultAssumption DEF Loads, Expire
<1>1. CacheTypeOK'
  BY DEF CacheTypeOK
<1>2. WaiterIsLeader' /\ Followed' /\ LoadedAreDone'
  BY DEF WaiterIsLeader, Leading, Followed, LoadedAreDone
<1>3. LoadingIsEmpty'
  BY DEF CacheTypeOK, LoadingIsEmpty
<1> QED
  BY <1>1, <1>2, <1>3

LEMMA NextLoads == Loads /\ [Next]_cacheVars => Loads'
<1> SUFFICES ASSUME Loads, [Next]_cacheVars
             PROVE  Loads'
  OBVIOUS
<1>1. CASE \E c \in Callers :
             \/ Get(c) \/ Claim(c) \/ Recheck(c) \/ Follow(c) \/ Cancel(c)
             \/ \E value \in Values : Loaded(c, value)
             \/ \E error \in Errors : LoadFailed(c, error)
  BY <1>1, GetLoads, ClaimLoads, RecheckLoads, FollowLoads, CancelLoads,
     LoadedLoads, LoadFailedLoads
<1>2. CASE \E keys \in SUBSET Keys : Expire(keys)
  BY <1>2, ExpireLoads
<1>3. CASE UNCHANGED cacheVars
  BY <1>3 DEF cacheVars, Loads, CacheTypeOK, WaiterIsLeader, Leading, Followed,
              LoadingIsEmpty, LoadedAreDone
<1> QED
  BY <1>1, <1>2, <1>3 DEF Next

\* The variables of the cache stay well formed.
THEOREM CacheTypeCorrect == Spec => []CacheTypeOK
<1>1. Loads => CacheTypeOK
  BY DEF Loads
<1> QED
  BY <1>1, InitLoads, NextLoads, PTL DEF Spec

\* Every published waiter has the one call that leads for its key behind it,
\* for all callers, cancellations and failures.
THEOREM WaiterIsLeaderHolds == Spec => []WaiterIsLeader
<1>1. Loads => WaiterIsLeader
  BY DEF Loads
<1> QED
  BY <1>1, InitLoads, NextLoads, PTL DEF Spec

-----------------------------------------------------------------------------
(* Every load of a key made an entry, which is there or has disappeared.   *)

LoadedOf(k) == {c \in Callers : KeyOf[c] = k /\ loaded[c]}

Counted ==
  \A k \in Keys :
    Cardinality(LoadedOf(k)) = expired[k] + (IF cache[k] = "empty" THEN 0 ELSE 1)

LEMMA InitCounted == Init => Counted
<1> SUFFICES ASSUME Init, NEW k \in Keys
             PROVE  Cardinality(LoadedOf(k)) = expired[k] + (IF cache[k] = "empty" THEN 0 ELSE 1)
  BY DEF Counted
<1>1. LoadedOf(k) = {}
  BY DEF Init, LoadedOf
<1> QED
  BY <1>1, FS_EmptySet DEF Init

\* A step that changes no entry and lets nobody load keeps the count.
LEMMA SameCount ==
  ASSUME Counted, UNCHANGED <<cache, expired>>,
         \A c \in Callers : loaded'[c] = loaded[c]
  PROVE  Counted'
<1>1. \A k \in Keys : LoadedOf(k)' = LoadedOf(k)
  BY DEF LoadedOf
<1> QED
  BY <1>1 DEF Counted

LEMMA LoadedCounted ==
  ASSUME Loads, Counted, NEW c \in Callers, NEW value \in Values, Loaded(c, value)
  PROVE  Counted'
<1> SUFFICES ASSUME NEW k \in Keys
             PROVE  Cardinality(LoadedOf(k)')
                      = expired'[k] + (IF cache'[k] = "empty" THEN 0 ELSE 1)
  BY DEF Counted
<1>1. cache \in [Keys -> Values \cup {"empty"}] /\ loaded \in [Callers -> BOOLEAN]
  BY DEF Loads, CacheTypeOK
<1>2. expired' = expired /\ expired[k] \in Nat
  BY DEF Loaded, Loads, CacheTypeOK
<1>3. CASE k # KeyOf[c]
  <2>1. LoadedOf(k)' = LoadedOf(k) /\ cache'[k] = cache[k]
    BY <1>1, <1>3 DEF Loaded, Finish, LoadedOf
  <2> QED
    BY <1>2, <2>1 DEF Counted
<1>4. CASE k = KeyOf[c]
  <2>1. cache[k] = "empty" /\ c \notin LoadedOf(k)
    BY <1>4 DEF Loaded, Loads, LoadingIsEmpty, LoadedAreDone, LoadedOf
  <2>2. LoadedOf(k)' = LoadedOf(k) \cup {c}
    BY <1>1, <1>4 DEF Loaded, Finish, LoadedOf
  <2>3. IsFiniteSet(LoadedOf(k))
    BY CallerAssumption, FS_Subset DEF LoadedOf
  <2>4. Cardinality(LoadedOf(k)') = Cardinality(LoadedOf(k)) + 1
    BY <2>1, <2>2, <2>3, FS_AddElement
  <2>5. cache'[k] # "empty"
    BY <1>1, <1>4, ResultAssumption, CallerAssumption DEF Loaded
  <2> QED
    BY <1>2, <2>1, <2>4, <2>5 DEF Counted
<1> QED
  BY <1>3, <1>4

LEMMA ExpireCounted ==
  ASSUME Loads, Counted, NEW keys \in SUBSET Keys, Expire(keys)
  PROVE  Counted'
<1>1. \A k \in Keys : LoadedOf(k)' = LoadedOf(k)
  BY DEF Expire, LoadedOf
<1>2. \A k \in Keys : expired[k] \in Nat
  BY DEF Loads, CacheTypeOK
<1> QED
  BY <1>1, <1>2 DEF Counted, Expire

LEMMA NextCounted == Loads /\ Counted /\ [Next]_cacheVars => Counted'
<1> SUFFICES ASSUME Loads, Counted, [Next]_cacheVars
             PROVE  Counted'
  OBVIOUS
<1> USE DEF Loads, CacheTypeOK, LoadedAreDone
<1>1. ASSUME NEW c \in Callers,
             \/ Get(c) \/ Claim(c) \/ Recheck(c) \/ Follow(c) \/ Cancel(c)
             \/ \E error \in Errors : LoadFailed(c, error)
      PROVE  Counted'
  <2>1. UNCHANGED <<cache, expired>>
    BY <1>1 DEF Get, Claim, Recheck, Follow, Cancel, LoadFailed
  <2>2. \A d \in Callers : loaded'[d] = loaded[d]
    BY <1>1 DEF Get, Claim, Recheck, Follow, Cancel, LoadFailed, Finish
  <2> QED
    BY <2>1, <2>2, SameCount
<1>2. CASE UNCHANGED cacheVars
  BY <1>2, SameCount DEF cacheVars
<1> QED
  BY <1>1, <1>2, LoadedCounted, ExpireCounted DEF Next

\* Calls of one key share their loads: another succeeds only once the entry of
\* the one before has disappeared.
THEOREM LoadedOnceHolds == Spec => []LoadedOnce
<1>1. Loads /\ Counted => LoadedOnce
  <2> SUFFICES ASSUME Loads, Counted, NEW k \in Keys
               PROVE  Cardinality(LoadedOf(k))
                        <= expired[k] + (IF cache[k] = "empty" THEN 0 ELSE 1)
    BY DEF LoadedOnce, LoadedOf
  <2>1. expired[k] \in Nat
    BY DEF Loads, CacheTypeOK
  <2> QED
    BY <2>1 DEF Counted
<1> QED
  BY <1>1, InitLoads, NextLoads, InitCounted, NextCounted, PTL DEF Spec

-----------------------------------------------------------------------------
(* Time.  The steps of CacheLifetime are steps of CoalescingCache.         *)

LEMMA TimedStep == TimedNext => Next
<1> SUFFICES ASSUME TimedNext
             PROVE  Next
  OBVIOUS
<1>1. CASE \E c \in Callers :
             Begin(c) \/ Untimed(c) \/ (\E value \in Values : Insert(c, value)) \/ Leave(c)
  BY <1>1 DEF Begin, Untimed, Insert, Leave, Next
<1>2. CASE Tick
  <2>1. Expire({k \in Live : due[k] <= clock'})
    BY <1>2 DEF Tick, Remove
  <2> QED
    BY <2>1 DEF Next, Live
<1>3. CASE \E k \in Keys : Evict(k)
  <2>1. PICK k \in Keys : Expire({k})
    BY <1>3 DEF Evict, Remove
  <2> QED
    BY <2>1 DEF Next
<1>4. CASE Clear
  <2>1. Expire(Live)
    BY <1>4 DEF Clear, Remove
  <2> QED
    BY <2>1 DEF Next, Live
<1> QED
  BY <1>1, <1>2, <1>3, <1>4 DEF TimedNext

\* What is proved of the loads holds in time, with its evictions and clears.
THEOREM TimedImplementsCoalescing == TimedSpec => Spec
<1>1. TimedInit => Init
  BY DEF TimedInit
<1>2. [TimedNext]_timedVars => [Next]_cacheVars
  BY TimedStep DEF timedVars
<1> QED
  BY <1>1, <1>2, PTL DEF TimedSpec, Spec

-----------------------------------------------------------------------------
(* Where an entry comes from, and that nobody gets an old one.             *)

TimeTypeOK ==
  /\ clock \in Nat
  /\ due \in [Keys -> Nat]
  /\ ended \in [Callers -> Nat]
  /\ cleared \in SUBSET Callers
  /\ gone \in [Callers -> SUBSET Callers]

ClearedAreLoaded == \A d \in cleared : loaded[d]

\* What a call found gone stays gone.
GoneIsOver ==
  \A c \in Callers : \A d \in gone[c] :
    loaded[d] /\ (d \in cleared \/ ended[d] + Promised(outcome[d]) <= clock)

\* Call d made the entry of key k.
Made(d, k) ==
  /\ d \notin cleared
  /\ KeyOf[d] = k
  /\ loaded[d]
  /\ outcome[d] = cache[k]
  /\ due[k] = ended[d] + Promised(cache[k])

EntriesAreMade ==
  \A k \in Keys : cache[k] # "empty" => due[k] > clock /\ \E d \in Callers : Made(d, k)

\* By these loads and outcomes, a value for c that was not gone as it began.
FreshBy(loads, outcomes, c, value) ==
  \E d \in Callers \ gone[c] : KeyOf[d] = KeyOf[c] /\ loads[d] /\ outcomes[d] = value

Fresh(c, value) == FreshBy(loaded, outcome, c, value)

FollowersGetFresh ==
  \A c \in Callers :
    /\ stage[c] = "following"
    /\ stage[leader[c]] = "done"
    /\ outcome[leader[c]] \in Values
    => Fresh(c, outcome[leader[c]])

Lifetime ==
  /\ TimeTypeOK
  /\ ClearedAreLoaded
  /\ GoneIsOver
  /\ EntriesAreMade
  /\ FollowersGetFresh
  /\ NeverStale

LEMMA PromisedIsPositive ==
  ASSUME NEW value
  PROVE  Promised(value) \in Nat \ {0} /\ TtlFor(value) = Promised(value)
BY LifetimeAssumption DEF Promised, TtlFor

\* An entry that is there is fresh for every call of its key.
LEMMA EntryIsFresh ==
  ASSUME Loads, Lifetime, NEW c \in Callers, cache[KeyOf[c]] # "empty"
  PROVE  Fresh(c, cache[KeyOf[c]])
<1>1. PICK d \in Callers : Made(d, KeyOf[c]) /\ due[KeyOf[c]] > clock
  BY CallerAssumption DEF Lifetime, EntriesAreMade
<1>2. d \notin gone[c]
  <2> SUFFICES ASSUME d \in gone[c]
               PROVE  FALSE
    OBVIOUS
  <2>1. ended[d] + Promised(outcome[d]) <= clock
    BY <1>1 DEF Lifetime, GoneIsOver, Made
  <2>2. due[KeyOf[c]] = ended[d] + Promised(outcome[d])
    BY <1>1 DEF Made
  <2>3. clock \in Nat /\ due[KeyOf[c]] \in Nat
    BY CallerAssumption DEF Lifetime, TimeTypeOK
  <2> QED
    BY <1>1, <2>1, <2>2, <2>3
<1> QED
  BY <1>1, <1>2 DEF Made, Fresh, FreshBy

\* A step that changes no finished load keeps the promise, if those that finish
\* in it, and those that follow them, get something fresh.
LEMMA NobodyGetsOld ==
  ASSUME Loads, Lifetime, UNCHANGED gone,
         \A d \in Callers : loaded[d] => loaded'[d] /\ outcome'[d] = outcome[d],
         \A c \in Callers :
           /\ stage'[c] = "done" /\ outcome'[c] \in Values
           /\ ~(stage[c] = "done" /\ outcome'[c] = outcome[c])
           => FreshBy(loaded', outcome', c, outcome'[c]),
         \A c \in Callers :
           /\ stage'[c] = "following"
           /\ stage'[leader'[c]] = "done"
           /\ outcome'[leader'[c]] \in Values
           /\ ~(/\ stage[c] = "following"
               /\ stage[leader'[c]] = "done"
               /\ leader'[c] = leader[c]
               /\ outcome'[leader'[c]] = outcome[leader'[c]])
           => FreshBy(loaded', outcome', c, outcome'[leader'[c]])
  PROVE  FollowersGetFresh' /\ NeverStale'
<1>1. ASSUME NEW c \in Callers, NEW value, Fresh(c, value)
      PROVE  FreshBy(loaded', outcome', c, value)
  BY <1>1 DEF Fresh, FreshBy
<1>2. \A c \in Callers :
        /\ stage'[c] = "following"
        /\ stage'[leader'[c]] = "done"
        /\ outcome'[leader'[c]] \in Values
        => FreshBy(loaded', outcome', c, outcome'[leader'[c]])
  <2> SUFFICES ASSUME NEW c \in Callers,
                      stage[c] = "following",
                      stage[leader'[c]] = "done",
                      leader'[c] = leader[c],
                      outcome'[leader'[c]] = outcome[leader'[c]],
                      outcome'[leader'[c]] \in Values
               PROVE  FreshBy(loaded', outcome', c, outcome'[leader'[c]])
    OBVIOUS
  <2>1. Fresh(c, outcome[leader[c]])
    BY DEF Lifetime, FollowersGetFresh
  <2> QED
    BY <1>1, <2>1
<1>3. \A c \in Callers :
        stage'[c] = "done" /\ outcome'[c] \in Values
        => FreshBy(loaded', outcome', c, outcome'[c])
  <2> SUFFICES ASSUME NEW c \in Callers,
                      stage[c] = "done",
                      outcome'[c] = outcome[c],
                      outcome'[c] \in Values
               PROVE  FreshBy(loaded', outcome', c, outcome'[c])
    OBVIOUS
  <2>1. Fresh(c, outcome[c])
    BY DEF Lifetime, NeverStale, Fresh, FreshBy
  <2> QED
    BY <1>1, <2>1
<1> QED
  BY <1>2, <1>3 DEF FollowersGetFresh, NeverStale, Fresh, FreshBy

LEMMA InitLifetime == TimedInit => Lifetime
BY DEF TimedInit, Init, Lifetime, TimeTypeOK, ClearedAreLoaded, GoneIsOver,
       EntriesAreMade, FollowersGetFresh, NeverStale

-----------------------------------------------------------------------------
(* Step by step.                                                           *)

\* Entries vanish, time passes and a clear comes, and no call moves.
LEMMA RemoveLifetime ==
  ASSUME Loads, Lifetime, NEW keys \in SUBSET Keys, Remove(keys),
         UNCHANGED <<ended, gone>>,
         clock' \in Nat, clock <= clock',
         \A k \in Live \ keys : clock' < due[k],
         \/ UNCHANGED cleared
         \/ cleared' = {c \in Callers : loaded[c]} /\ keys = Live
  PROVE  Lifetime'
<1> USE DEF Remove, Expire
<1>1. TimeTypeOK'
  BY DEF Lifetime, TimeTypeOK
<1>2. ClearedAreLoaded'
  BY DEF Lifetime, ClearedAreLoaded
<1>3. GoneIsOver'
  <2> SUFFICES ASSUME NEW c \in Callers, NEW d \in gone[c]
               PROVE  loaded[d] /\ (d \in cleared' \/ ended[d] + Promised(outcome[d]) <= clock')
    BY DEF GoneIsOver, Promised
  <2>1. loaded[d] /\ (d \in cleared \/ ended[d] + Promised(outcome[d]) <= clock)
    BY DEF Lifetime, GoneIsOver
  <2>2. d \in Callers /\ ended[d] + Promised(outcome[d]) \in Nat /\ clock \in Nat
    BY PromisedIsPositive DEF Lifetime, TimeTypeOK
  <2> QED
    BY <2>1, <2>2 DEF Lifetime, TimeTypeOK
<1>4. EntriesAreMade'
  <2> SUFFICES ASSUME NEW k \in Keys, cache'[k] # "empty"
               PROVE  due'[k] > clock' /\ \E d \in Callers : Made(d, k)'
    BY DEF EntriesAreMade
  <2>1. k \notin keys /\ cache'[k] = cache[k] /\ due'[k] = due[k] /\ k \in Live
    BY DEF Live
  <2>2. PICK d \in Callers : Made(d, k)
    BY <2>1 DEF Lifetime, EntriesAreMade, Live
  <2>3. UNCHANGED cleared
    BY <2>1
  <2>4. due'[k] > clock'
    BY <2>1 DEF Lifetime, TimeTypeOK
  <2> QED
    BY <2>1, <2>2, <2>3, <2>4 DEF Made, Promised
<1>5. FollowersGetFresh' /\ NeverStale'
  BY NobodyGetsOld
<1> QED
  BY <1>1, <1>2, <1>3, <1>4, <1>5 DEF Lifetime

LEMMA TickLifetime == ASSUME Loads, Lifetime, Tick PROVE Lifetime'
<1> DEFINE over == {k \in Live : due[k] <= clock'}
<1>1. Remove(over) /\ UNCHANGED <<ended, cleared, gone>> /\ over \in SUBSET Keys
  BY DEF Tick, Live
<1>2. clock' = clock + 1 /\ clock \in Nat
  BY DEF Tick, Lifetime, TimeTypeOK
<1>3. \A k \in Live \ over : clock' < due[k]
  BY <1>2 DEF Live, Lifetime, TimeTypeOK
<1> QED
  BY <1>1, <1>2, <1>3, RemoveLifetime

LEMMA EvictLifetime == ASSUME Loads, Lifetime, NEW k \in Keys, Evict(k) PROVE Lifetime'
<1>1. \A j \in Live \ {k} : clock < due[j]
  BY DEF Live, Lifetime, EntriesAreMade, TimeTypeOK
<1>2. clock \in Nat
  BY DEF Lifetime, TimeTypeOK
<1>3. Remove({k}) /\ UNCHANGED <<clock, ended, cleared, gone>>
  BY DEF Evict
<1> QED
  BY <1>1, <1>2, <1>3, RemoveLifetime

LEMMA ClearLifetime == ASSUME Loads, Lifetime, Clear PROVE Lifetime'
<1>1. clock \in Nat /\ Live \in SUBSET Keys
  BY DEF Lifetime, TimeTypeOK, Live
<1>2. /\ Remove(Live)
      /\ cleared' = {c \in Callers : loaded[c]}
      /\ UNCHANGED <<clock, ended, gone>>
  BY DEF Clear
<1> QED
  BY <1>1, <1>2, RemoveLifetime

\* A call moves, and neither an entry nor a finished load changes.
LEMMA CallLifetime ==
  ASSUME Loads, Lifetime, UNCHANGED <<cache, timeVars>>,
         \A d \in Callers : loaded[d] => loaded'[d] /\ outcome'[d] = outcome[d],
         FollowersGetFresh' /\ NeverStale'
  PROVE  Lifetime'
<1> USE DEF timeVars
<1>1. TimeTypeOK'
  BY DEF Lifetime, TimeTypeOK
<1>2. ClearedAreLoaded' /\ GoneIsOver'
  BY DEF Lifetime, TimeTypeOK, ClearedAreLoaded, GoneIsOver, Promised
<1>3. EntriesAreMade'
  BY DEF Lifetime, EntriesAreMade, Made, Promised
<1> QED
  BY <1>1, <1>2, <1>3 DEF Lifetime

LEMMA UntimedLifetime ==
  ASSUME Loads, Lifetime, NEW c \in Callers, Untimed(c)
  PROVE  Lifetime'
<1> USE DEF timeVars
<1>1. CASE Claim(c)
  <2>1. /\ UNCHANGED <<cache, outcome, loaded, timeVars>>
        /\ \A d \in Callers : stage'[d] = "done" => stage[d] = "done"
    BY <1>1 DEF Claim, Untimed, Loads, CacheTypeOK
  <2>2. \A d \in Callers : stage'[d] = "following" /\ stage'[leader'[d]] = "done" =>
          stage[d] = "following" /\ leader'[d] = leader[d] /\ stage[leader'[d]] = "done"
    <3>1. CASE waiter[KeyOf[c]] = "nobody"
      BY <1>1, <3>1 DEF Claim, Loads, CacheTypeOK, Followed
    <3>2. CASE waiter[KeyOf[c]] # "nobody"
      <4>1. /\ waiter[KeyOf[c]] \in Callers
            /\ stage[waiter[KeyOf[c]]] \in {"rechecking", "loading"}
        BY <3>2, CallerAssumption DEF Loads, CacheTypeOK, WaiterIsLeader, Leading
      <4>2. /\ stage' = [stage EXCEPT ![c] = "following"]
            /\ leader' = [leader EXCEPT ![c] = waiter[KeyOf[c]]]
            /\ stage[c] = "claiming"
        BY <1>1, <3>2 DEF Claim
      <4> QED
        BY <4>1, <4>2 DEF Loads, CacheTypeOK, Followed
    <3> QED
      BY <3>1, <3>2
  <2> QED
    BY <2>1, <2>2, NobodyGetsOld, CallLifetime
<1>2. CASE Recheck(c)
  <2>1. CASE cache[KeyOf[c]] = "empty"
    <3>1. /\ UNCHANGED <<cache, outcome, loaded, leader, timeVars>>
          /\ stage' = [stage EXCEPT ![c] = "loading"]
      BY <1>2, <2>1 DEF Recheck, Untimed, Finish
    <3>2. \A d \in Callers : stage'[d] \in {"done", "following"} => stage'[d] = stage[d]
      BY <3>1 DEF Loads, CacheTypeOK
    <3>3. \A d \in Callers : stage[d] = "following" => leader[d] \in Callers
      BY DEF Loads, Followed
    <3> QED
      BY <3>1, <3>2, <3>3, NobodyGetsOld, CallLifetime
  <2>2. CASE cache[KeyOf[c]] # "empty"
    <3>1. /\ UNCHANGED <<cache, leader, timeVars>>
          /\ stage[c] = "rechecking"
          /\ Finish(c, cache[KeyOf[c]], FALSE)
      BY <1>2, <2>2 DEF Recheck, Untimed
    <3>2. /\ \A d \in Callers \ {c} :
               stage'[d] = stage[d] /\ outcome'[d] = outcome[d] /\ loaded'[d] = loaded[d]
          /\ stage'[c] = "done" /\ outcome'[c] = cache[KeyOf[c]]
          /\ ~loaded[c]
      BY <3>1 DEF Finish, Loads, CacheTypeOK, LoadedAreDone
    <3>3. \A d \in Callers : stage[d] = "following" =>
            leader[d] \in Callers /\ KeyOf[leader[d]] = KeyOf[d]
      BY DEF Loads, Followed
    <3>4. \A d \in Callers : KeyOf[d] = KeyOf[c] =>
            FreshBy(loaded', outcome', d, cache[KeyOf[c]])
      BY <2>2, <3>2, EntryIsFresh DEF Fresh, FreshBy
    <3>5. FollowersGetFresh' /\ NeverStale'
      BY <3>1, <3>2, <3>3, <3>4, NobodyGetsOld
    <3> QED
      BY <3>1, <3>2, <3>5, CallLifetime
  <2> QED
    BY <2>1, <2>2
<1>3. CASE Follow(c)
  <2>1. /\ UNCHANGED <<cache, leader, timeVars>>
        /\ stage[c] = "following" /\ leader[c] \in Callers /\ leader[c] # c
        /\ KeyOf[leader[c]] = KeyOf[c]
    BY <1>3 DEF Follow, Untimed, Loads, Followed
  <2>2. /\ \A d \in Callers \ {c} :
             stage'[d] = stage[d] /\ outcome'[d] = outcome[d] /\ loaded'[d] = loaded[d]
        /\ ~loaded[c]
        /\ \/ stage'[c] = "claiming"
           \/ /\ stage[leader[c]] = "done"
              /\ stage'[c] = "done"
              /\ outcome'[c] = outcome[leader[c]]
    BY <1>3 DEF Follow, Finish, Loads, CacheTypeOK, LoadedAreDone
  <2>3. \A d \in Callers : stage[d] = "following" => leader[d] \in Callers /\ leader[d] # c
    BY <2>1 DEF Loads, Followed
  <2>4. stage'[c] = "done" /\ outcome'[c] \in Values =>
          FreshBy(loaded', outcome', c, outcome'[c])
    BY <2>1, <2>2 DEF Lifetime, FollowersGetFresh, Fresh, FreshBy
  <2>5. FollowersGetFresh' /\ NeverStale'
    BY <2>1, <2>2, <2>3, <2>4, NobodyGetsOld
  <2> QED
    BY <2>1, <2>2, <2>5, CallLifetime
<1>4. CASE \E error \in Errors : LoadFailed(c, error)
  <2>1. /\ UNCHANGED <<cache, leader, timeVars>>
        /\ \A d \in Callers \ {c} :
             stage'[d] = stage[d] /\ outcome'[d] = outcome[d] /\ loaded'[d] = loaded[d]
        /\ ~loaded[c]
        /\ stage'[c] = "done" /\ outcome'[c] \notin Values
    BY <1>4, ResultAssumption
       DEF LoadFailed, Untimed, Finish, Loads, CacheTypeOK, LoadedAreDone
  <2>2. \A d \in Callers : stage[d] = "following" => leader[d] \in Callers
    BY DEF Loads, Followed
  <2>3. FollowersGetFresh' /\ NeverStale'
    BY <2>1, <2>2, NobodyGetsOld
  <2> QED
    BY <2>1, <2>3, CallLifetime
<1> QED
  BY <1>1, <1>2, <1>3, <1>4 DEF Untimed

LEMMA LeaveLifetime ==
  ASSUME Loads, Lifetime, NEW c \in Callers, Leave(c)
  PROVE  Lifetime'
<1>1. /\ UNCHANGED <<cache, leader, outcome, loaded, timeVars>>
      /\ stage' = [stage EXCEPT ![c] = "cancelled"]
  BY DEF Leave, Cancel
<1>2. \A d \in Callers : stage'[d] \in {"done", "following"} => stage'[d] = stage[d]
  BY <1>1 DEF Loads, CacheTypeOK
<1>3. \A d \in Callers : stage[d] = "following" => leader[d] \in Callers
  BY DEF Loads, Followed
<1>4. FollowersGetFresh' /\ NeverStale'
  BY <1>1, <1>2, <1>3, NobodyGetsOld DEF timeVars
<1> QED
  BY <1>1, <1>4, CallLifetime

\* The first look fixes what is gone for the call; an entry it hits is not.
LEMMA BeginLifetime ==
  ASSUME Loads, Lifetime, NEW c \in Callers, Begin(c)
  PROVE  Lifetime'
<1> DEFINE over == {d \in Callers :
                      /\ loaded[d]
                      /\ d \in cleared \/ ended[d] + Promised(outcome[d]) <= clock}
<1>1. /\ UNCHANGED <<cache, leader, clock, due, ended, cleared>>
      /\ gone' = [gone EXCEPT ![c] = over]
      /\ stage[c] = "idle"
  BY DEF Begin, Get
<1>2. /\ \A d \in Callers \ {c} :
           stage'[d] = stage[d] /\ outcome'[d] = outcome[d] /\ loaded'[d] = loaded[d]
      /\ ~loaded[c] /\ ~loaded'[c]
      /\ \/ stage'[c] = "claiming"
         \/ /\ cache[KeyOf[c]] # "empty"
            /\ stage'[c] = "done"
            /\ outcome'[c] = cache[KeyOf[c]]
  BY DEF Begin, Get, Finish, Loads, CacheTypeOK, LoadedAreDone
<1>3. TimeTypeOK'
  BY <1>1 DEF Lifetime, TimeTypeOK
<1>4. ClearedAreLoaded'
  BY <1>1, <1>2 DEF Lifetime, TimeTypeOK, ClearedAreLoaded
<1>5. \A d \in Callers : gone'[d] = IF d = c THEN over ELSE gone[d]
  BY <1>1 DEF Lifetime, TimeTypeOK
<1>6. GoneIsOver'
  BY <1>1, <1>2, <1>5 DEF Lifetime, TimeTypeOK, GoneIsOver, Promised
<1>7. EntriesAreMade'
  BY <1>1, <1>2 DEF Lifetime, EntriesAreMade, Made, Promised
<1>8. \A d \in Callers : stage[d] = "following" => leader[d] \in Callers /\ leader[d] # c
  BY <1>1 DEF Loads, Followed
<1>9. FollowersGetFresh'
  BY <1>1, <1>2, <1>5, <1>8 DEF Lifetime, FollowersGetFresh, Fresh, FreshBy
<1>10. ASSUME cache[KeyOf[c]] # "empty"
       PROVE  \E d \in Callers \ over :
                KeyOf[d] = KeyOf[c] /\ loaded[d] /\ outcome[d] = cache[KeyOf[c]]
  <2>1. PICK d \in Callers : Made(d, KeyOf[c]) /\ due[KeyOf[c]] > clock
    BY <1>10, CallerAssumption DEF Lifetime, EntriesAreMade
  <2>2. d \notin over
    BY <2>1, CallerAssumption DEF Made, Lifetime, TimeTypeOK
  <2> QED
    BY <2>1, <2>2 DEF Made
<1>11. NeverStale'
  <2> SUFFICES ASSUME NEW x \in Callers, stage'[x] = "done", outcome'[x] \in Values
               PROVE  \E d \in Callers \ gone'[x] :
                        KeyOf[d] = KeyOf[x] /\ loaded'[d] /\ outcome'[d] = outcome'[x]
    BY DEF NeverStale
  <2>1. CASE x = c
    <3>1. PICK d \in Callers \ over :
            KeyOf[d] = KeyOf[c] /\ loaded[d] /\ outcome[d] = cache[KeyOf[c]]
      BY <1>2, <1>10, <2>1
    <3>2. d # c
      BY <1>2, <3>1
    <3> QED
      BY <1>2, <1>5, <2>1, <3>1, <3>2
  <2>2. CASE x # c
    <3>1. PICK d \in Callers \ gone[x] :
            KeyOf[d] = KeyOf[x] /\ loaded[d] /\ outcome[d] = outcome[x]
      BY <1>2, <2>2 DEF Lifetime, NeverStale
    <3>2. d # c
      BY <1>2, <3>1
    <3> QED
      BY <1>2, <1>5, <2>2, <3>1, <3>2
  <2> QED
    BY <2>1, <2>2
<1> QED
  BY <1>3, <1>4, <1>6, <1>7, <1>9, <1>11 DEF Lifetime

\* A load makes an entry of its own age; nobody has found it gone yet.
LEMMA InsertLifetime ==
  ASSUME Loads, Lifetime, NEW c \in Callers, NEW value \in Values, Insert(c, value)
  PROVE  Lifetime'
<1>1. /\ UNCHANGED <<leader, clock, cleared, gone>>
      /\ stage[c] = "loading"
      /\ cache' = [cache EXCEPT ![KeyOf[c]] = value]
      /\ due' = [due EXCEPT ![KeyOf[c]] = clock + Promised(value)]
      /\ ended' = [ended EXCEPT ![c] = clock]
  BY PromisedIsPositive DEF Insert, Loaded
<1>2. /\ \A d \in Callers \ {c} :
           /\ stage'[d] = stage[d] /\ outcome'[d] = outcome[d]
           /\ loaded'[d] = loaded[d] /\ ended'[d] = ended[d]
      /\ ~loaded[c] /\ loaded'[c] /\ ended'[c] = clock
      /\ stage'[c] = "done" /\ outcome'[c] = value
  BY DEF Insert, Loaded, Finish, Loads, CacheTypeOK, LoadedAreDone, Lifetime, TimeTypeOK
<1>3. KeyOf[c] \in Keys /\ Promised(value) \in Nat \ {0} /\ clock \in Nat
  BY CallerAssumption, PromisedIsPositive DEF Lifetime, TimeTypeOK
<1>4. \A d \in Callers : c \notin gone[d]
  BY <1>2 DEF Lifetime, GoneIsOver
<1>5. c \notin cleared
  BY <1>2 DEF Lifetime, ClearedAreLoaded
<1>6. TimeTypeOK'
  BY <1>1, <1>3 DEF Lifetime, TimeTypeOK
<1>7. ClearedAreLoaded' /\ GoneIsOver'
  BY <1>1, <1>2, <1>4, <1>5 DEF Lifetime, TimeTypeOK, ClearedAreLoaded, GoneIsOver, Promised
<1>8. EntriesAreMade'
  <2> SUFFICES ASSUME NEW k \in Keys, cache'[k] # "empty"
               PROVE  due'[k] > clock' /\ \E d \in Callers : Made(d, k)'
    BY DEF EntriesAreMade
  <2>1. CASE k = KeyOf[c]
    <3>1. cache'[k] = value /\ due'[k] = clock + Promised(value)
      BY <1>1, <1>3, <2>1 DEF Loads, CacheTypeOK, Lifetime, TimeTypeOK
    <3>2. Made(c, k)'
      BY <1>1, <1>2, <1>5, <2>1, <3>1 DEF Made, Promised
    <3> QED
      BY <1>1, <1>3, <3>1, <3>2
  <2>2. CASE k # KeyOf[c]
    <3>1. cache'[k] = cache[k] /\ due'[k] = due[k]
      BY <1>1, <1>3, <2>2 DEF Loads, CacheTypeOK, Lifetime, TimeTypeOK
    <3>2. PICK d \in Callers : Made(d, k) /\ due[k] > clock
      BY <3>1 DEF Lifetime, EntriesAreMade
    <3>3. d # c
      BY <1>2, <3>2 DEF Made
    <3>4. Made(d, k)'
      BY <1>1, <1>2, <3>1, <3>2, <3>3 DEF Made, Promised
    <3> QED
      BY <1>1, <3>1, <3>2, <3>4
  <2> QED
    BY <2>1, <2>2
<1>9. \A d \in Callers : KeyOf[d] = KeyOf[c] => FreshBy(loaded', outcome', d, value)
  BY <1>2, <1>4 DEF FreshBy
<1>10. \A d \in Callers : stage[d] = "following" =>
         leader[d] \in Callers /\ KeyOf[leader[d]] = KeyOf[d]
  BY DEF Loads, Followed
<1>11. FollowersGetFresh' /\ NeverStale'
  BY <1>1, <1>2, <1>9, <1>10, NobodyGetsOld
<1> QED
  BY <1>6, <1>7, <1>8, <1>11 DEF Lifetime

LEMMA NextLifetime == Loads /\ Lifetime /\ [TimedNext]_timedVars => Lifetime'
<1> SUFFICES ASSUME Loads, Lifetime, [TimedNext]_timedVars
             PROVE  Lifetime'
  OBVIOUS
<1>1. CASE UNCHANGED timedVars
  BY <1>1 DEF timedVars, timeVars, cacheVars, Lifetime, TimeTypeOK, ClearedAreLoaded,
              GoneIsOver, EntriesAreMade, Made, FollowersGetFresh, Fresh, FreshBy,
              NeverStale, Promised
<1> QED
  BY <1>1, BeginLifetime, UntimedLifetime, InsertLifetime, LeaveLifetime, TickLifetime,
     EvictLifetime, ClearLifetime DEF TimedNext

\* For every pair of times to live, however loads, hits, evictions and clears
\* interleave: no call returns a value that was out of time, or cleared, when it
\* began.
THEOREM NeverStaleHolds == TimedSpec => []NeverStale
<1>1. TimedInit => Loads /\ Lifetime
  BY InitLoads, InitLifetime DEF TimedInit
<1>2. [TimedNext]_timedVars => [Next]_cacheVars
  BY TimedStep DEF timedVars
<1>3. Loads /\ Lifetime /\ [TimedNext]_timedVars => (Loads /\ Lifetime)'
  BY <1>2, NextLoads, NextLifetime
<1>4. Lifetime => NeverStale
  BY DEF Lifetime
<1> QED
  BY <1>1, <1>3, <1>4, PTL DEF TimedSpec

-----------------------------------------------------------------------------
(* What the calls end with, given what the loads end with.                 *)

Status(c) ==
  IF stage[c] = "done" THEN outcome[c]
  ELSE IF Busy(c) THEN "waiting" ELSE stage[c]

\* It was said of the key of c, or it is an error that has occurred.
IsTrue(c, result, said, occurred) ==
  \/ result \in Values /\ <<KeyOf[c], result>> \in said
  \/ result \in Errors /\ result \in occurred

\* Nothing else is cached or returned.
AllTrue(said, occurred) ==
  /\ \A k \in Keys : cache[k] # "empty" => <<k, cache[k]>> \in said
  /\ \A c \in Callers : stage[c] = "done" => IsTrue(c, outcome[c], said, occurred)

\* A step of c, whose load ends with something true if it ends.
TrueStep(c, said, occurred) ==
  \/ Get(c) \/ Claim(c) \/ Recheck(c) \/ Follow(c) \/ Cancel(c)
  \/ \E value \in Values : <<KeyOf[c], value>> \in said /\ Loaded(c, value)
  \/ \E error \in Errors : error \in occurred /\ LoadFailed(c, error)

\* What can be seen of it: c starts to wait, ends with something true or leaves.
Moved(c, said, occurred) ==
  /\ \A b \in Callers : b # c => Status(b)' = Status(b)
  /\ \/ Status(c)' = Status(c)
     \/ Status(c) = "idle" /\ Status(c)' = "waiting"
     \/ /\ Status(c) \in {"idle", "waiting"}
        /\ Status(c)' \in Values /\ <<KeyOf[c], Status(c)'>> \in said
     \/ Status(c) = "waiting" /\ Status(c)' \in Errors /\ Status(c)' \in occurred
     \/ Status(c) = "waiting" /\ Status(c)' = "cancelled"

\* A call that returns something true.
LEMMA FinishTrue ==
  ASSUME Loads, NEW said, NEW occurred, AllTrue(said, occurred),
         NEW c \in Callers, NEW result, NEW fresh, Finish(c, result, fresh),
         IsTrue(c, result, said, occurred),
         stage[c] \notin {"done", "cancelled"},
         stage[c] = "idle" => result \in Values
  PROVE  /\ \A b \in Callers : stage'[b] = "done" => IsTrue(b, outcome'[b], said, occurred)
         /\ Moved(c, said, occurred)
<1>1. /\ stage'[c] = "done" /\ outcome'[c] = result
      /\ \A b \in Callers : b # c => stage'[b] = stage[b] /\ outcome'[b] = outcome[b]
  BY DEF Finish, Loads, CacheTypeOK
<1>2. stage[c] \in Stages
  BY DEF Loads, CacheTypeOK
<1>3. /\ Status(c)' = result
      /\ \A b \in Callers : b # c => Status(b)' = Status(b)
      /\ Status(c) = IF stage[c] = "idle" THEN "idle" ELSE "waiting"
  BY <1>1, <1>2 DEF Status, Busy, Stages
<1>4. ASSUME NEW b \in Callers, stage'[b] = "done"
      PROVE  IsTrue(b, outcome'[b], said, occurred)
  BY <1>1, <1>4 DEF AllTrue
<1>5. Moved(c, said, occurred)
  BY <1>3, ResultAssumption DEF Moved, IsTrue
<1> QED
  BY <1>4, <1>5

\* A call that goes on, or is cancelled.
LEMMA GoOnTrue ==
  ASSUME Loads, NEW said, NEW occurred, AllTrue(said, occurred),
         NEW c \in Callers, NEW next \in Stages \ {"idle", "done"},
         stage' = [stage EXCEPT ![c] = next], UNCHANGED outcome,
         stage[c] \notin {"done", "cancelled"},
         next = "cancelled" => stage[c] # "idle"
  PROVE  /\ \A b \in Callers : stage'[b] = "done" => IsTrue(b, outcome'[b], said, occurred)
         /\ Moved(c, said, occurred)
<1>1. stage'[c] = next /\ \A b \in Callers : b # c => stage'[b] = stage[b]
  BY DEF Loads, CacheTypeOK
<1>2. stage[c] \in Stages
  BY DEF Loads, CacheTypeOK
<1>3. /\ Status(c)' = IF next = "cancelled" THEN "cancelled" ELSE "waiting"
      /\ \A b \in Callers : b # c => Status(b)' = Status(b)
      /\ Status(c) = IF stage[c] = "idle" THEN "idle" ELSE "waiting"
  BY <1>1, <1>2 DEF Status, Busy, Stages
<1>4. ASSUME NEW b \in Callers, stage'[b] = "done"
      PROVE  IsTrue(b, outcome'[b], said, occurred)
  BY <1>1, <1>4 DEF AllTrue
<1>5. Moved(c, said, occurred)
  BY <1>3 DEF Moved
<1> QED
  BY <1>4, <1>5

LEMMA StepTrue ==
  ASSUME Loads, NEW said, NEW occurred, AllTrue(said, occurred),
         NEW c \in Callers, TrueStep(c, said, occurred)
  PROVE  /\ \A k \in Keys : cache'[k] # "empty" => <<k, cache'[k]>> \in said
         /\ \A b \in Callers : stage'[b] = "done" => IsTrue(b, outcome'[b], said, occurred)
         /\ Moved(c, said, occurred)
<1> DEFINE k == KeyOf[c]
           Kept == \A j \in Keys : cache'[j] # "empty" => <<j, cache'[j]>> \in said
           Ended == \A b \in Callers :
                      stage'[b] = "done" => IsTrue(b, outcome'[b], said, occurred)
           Good == Kept /\ Ended /\ Moved(c, said, occurred)
<1> SUFFICES Good
  OBVIOUS
<1>0. k \in Keys
  BY CallerAssumption
<1>1. cache[k] # "empty" => cache[k] \in Values /\ IsTrue(c, cache[k], said, occurred)
  BY <1>0 DEF Loads, CacheTypeOK, AllTrue, IsTrue
<1>2. (UNCHANGED cache) => Kept
  BY DEF AllTrue
<1>3. ASSUME NEW result, NEW fresh, Finish(c, result, fresh),
             IsTrue(c, result, said, occurred), stage[c] \notin {"done", "cancelled"},
             stage[c] = "idle" => result \in Values
      PROVE  Ended /\ Moved(c, said, occurred)
  BY <1>3, FinishTrue
<1>4. ASSUME NEW next \in Stages \ {"idle", "done"},
             stage' = [stage EXCEPT ![c] = next], UNCHANGED outcome,
             stage[c] \notin {"done", "cancelled"},
             next = "cancelled" => stage[c] # "idle"
      PROVE  Ended /\ Moved(c, said, occurred)
  BY <1>4, GoOnTrue
<1> HIDE DEF Kept, Ended, k
<1>5. CASE Get(c)
  <2>1. stage[c] = "idle" /\ UNCHANGED cache
    BY <1>5 DEF Get
  <2>2. CASE cache[k] # "empty"
    <3>1. Finish(c, cache[k], FALSE)
      BY <1>5, <2>2 DEF Get, k
    <3> QED
      BY <1>1, <1>2, <1>3, <2>1, <2>2, <3>1
  <2>3. CASE cache[k] = "empty"
    <3>1. stage' = [stage EXCEPT ![c] = "claiming"] /\ UNCHANGED outcome
      BY <1>5, <2>3 DEF Get, k
    <3> QED
      BY <1>2, <1>4, <2>1, <3>1 DEF Stages
  <2> QED
    BY <2>2, <2>3
<1>6. CASE Recheck(c)
  <2>1. stage[c] = "rechecking" /\ UNCHANGED cache
    BY <1>6 DEF Recheck
  <2>2. CASE cache[k] # "empty"
    <3>1. Finish(c, cache[k], FALSE)
      BY <1>6, <2>2 DEF Recheck, k
    <3> QED
      BY <1>1, <1>2, <1>3, <2>1, <2>2, <3>1
  <2>3. CASE cache[k] = "empty"
    <3>1. stage' = [stage EXCEPT ![c] = "loading"] /\ UNCHANGED outcome
      BY <1>6, <2>3 DEF Recheck, k
    <3> QED
      BY <1>2, <1>4, <2>1, <3>1 DEF Stages
  <2> QED
    BY <2>2, <2>3
<1>7. CASE Claim(c)
  <2>1. stage[c] = "claiming" /\ UNCHANGED <<cache, outcome>>
    BY <1>7 DEF Claim
  <2>2. CASE stage' = [stage EXCEPT ![c] = "rechecking"]
    BY <1>2, <1>4, <2>1, <2>2 DEF Stages
  <2>3. CASE stage' = [stage EXCEPT ![c] = "following"]
    BY <1>2, <1>4, <2>1, <2>3 DEF Stages
  <2> QED
    BY <1>7, <2>2, <2>3 DEF Claim
<1>8. CASE Follow(c)
  <2>1. stage[c] = "following" /\ UNCHANGED cache
    BY <1>8 DEF Follow
  <2>2. leader[c] \in Callers /\ KeyOf[leader[c]] = k
    BY <2>1 DEF Loads, Followed, k
  <2>3. CASE stage[leader[c]] = "done" /\ Finish(c, outcome[leader[c]], FALSE)
    <3>1. IsTrue(c, outcome[leader[c]], said, occurred)
      BY <2>2, <2>3 DEF AllTrue, IsTrue, k
    <3> QED
      BY <1>2, <1>3, <2>1, <2>3, <3>1
  <2>4. CASE stage' = [stage EXCEPT ![c] = "claiming"] /\ UNCHANGED outcome
    BY <1>2, <1>4, <2>1, <2>4 DEF Stages
  <2> QED
    BY <1>8, <2>3, <2>4 DEF Follow
<1>9. CASE Cancel(c)
  <2>1. /\ stage[c] \notin {"idle", "done", "cancelled"}
        /\ stage' = [stage EXCEPT ![c] = "cancelled"]
        /\ UNCHANGED <<cache, outcome>>
    BY <1>9 DEF Cancel, Busy
  <2> QED
    BY <1>2, <1>4, <2>1 DEF Stages
<1>10. ASSUME NEW value \in Values, <<KeyOf[c], value>> \in said, Loaded(c, value)
       PROVE  Good
  <2>1. \A j \in Keys : cache'[j] = IF j = k THEN value ELSE cache[j]
    BY <1>10 DEF Loaded, Loads, CacheTypeOK, k
  <2>2. Kept
    BY <1>10, <2>1 DEF AllTrue, Kept, k
  <2>3. stage[c] = "loading" /\ Finish(c, value, TRUE) /\ IsTrue(c, value, said, occurred)
    BY <1>10 DEF Loaded, IsTrue
  <2> QED
    BY <1>3, <2>2, <2>3
<1>11. ASSUME NEW error \in Errors, error \in occurred, LoadFailed(c, error)
       PROVE  Good
  <2>1. /\ stage[c] = "loading" /\ Finish(c, error, FALSE) /\ UNCHANGED cache
        /\ IsTrue(c, error, said, occurred)
    BY <1>11 DEF LoadFailed, IsTrue
  <2> QED
    BY <1>2, <1>3, <2>1
<1> QED
  BY <1>5, <1>6, <1>7, <1>8, <1>9, <1>10, <1>11 DEF TrueStep
=============================================================================
