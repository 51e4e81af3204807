---------------------------- MODULE CacheLifetime ----------------------------
(***************************************************************************)
(* One cache of src/cache.rs in time: the loads of CoalescingCache with    *)
(* the expiry policy OptionalValueExpiry, evictions for want of room and   *)
(* CacheManager::clear.  Moka returns no entry that is past its time, so   *)
(* that entries disappear with the tick that makes them due.  Which entry  *)
(* an eviction takes is Moka's own choice by weight and frequency; any     *)
(* may go here, one just inserted included.                                *)
(***************************************************************************)
EXTENDS CoalescingCache

CONSTANTS PositiveTTL,  \* POSITIVE_CACHE_TTL, in ticks
          NegativeTTL,  \* NEGATIVE_CACHE_TTL
          MaxTime       \* bound: ticks of the clock

\* validate_ttl refuses zero.
ASSUME LifetimeAssumption ==
    /\ PositiveTTL \in Nat \ {0}
    /\ NegativeTTL \in Nat \ {0}
    /\ MaxTime \in Nat
    /\ "absent" \in Values

VARIABLES
  clock,    \* Instant::now()
  due,      \* when the entry of a key expires, 0 if there is none
  ended,    \* history: when a call's own load ended
  cleared,  \* history: the calls whose loads had ended at the last clear
  gone      \* history: the loads a call found expired or cleared as it began

timeVars == <<clock, due, ended, cleared, gone>>
timedVars == <<cacheVars, timeVars>>

TimedInit ==
  /\ Init
  /\ clock = 0
  /\ due = [k \in Keys |-> 0]
  /\ ended = [c \in Callers |-> 0]
  /\ cleared = {}
  /\ gone = [c \in Callers |-> {}]

-----------------------------------------------------------------------------
\* What the documentation promises of a value (src/README.md:111).
Promised(value) == IF value = "absent" THEN NegativeTTL ELSE PositiveTTL

\* The call begins, and may end at once.
Begin(c) ==
  /\ Get(c)
  /\ gone' = [gone EXCEPT ![c] =
                {d \in Callers :
                   /\ loaded[d]
                   /\ d \in cleared \/ ended[d] + Promised(outcome[d]) <= clock}]
  /\ UNCHANGED <<clock, due, ended, cleared>>

\* Seeded fault: an absent value is kept as long as any other.
TtlForAny(value) == PositiveTTL

\* ttl_for
TtlFor(value) == IF value # "absent" THEN PositiveTTL ELSE NegativeTTL

\* The entry that a load creates or replaces expires after its time to live,
\* which later hits do not extend.
Insert(c, value) ==
  /\ Loaded(c, value)
  /\ due' = [due EXCEPT ![KeyOf[c]] = clock + TtlFor(value)]
  /\ ended' = [ended EXCEPT ![c] = clock]
  /\ UNCHANGED <<clock, cleared, gone>>

Untimed(c) ==
  /\ Claim(c) \/ Recheck(c) \/ Follow(c) \/ \E error \in Errors : LoadFailed(c, error)
  /\ UNCHANGED timeVars

Leave(c) == Cancel(c) /\ UNCHANGED timeVars

Live == {k \in Keys : cache[k] # "empty"}

Remove(keys) ==
  /\ Expire(keys)
  /\ due' = [k \in Keys |-> IF k \in keys THEN 0 ELSE due[k]]

Tick ==
  /\ clock < MaxTime
  /\ clock' = clock + 1
  /\ Remove({k \in Live : due[k] <= clock'})
  /\ UNCHANGED <<ended, cleared, gone>>

Evict(k) ==
  /\ Remove({k})
  /\ UNCHANGED <<clock, ended, cleared, gone>>

\* CacheManager::clear, of this cache: what is still loading is not touched.
Clear ==
  /\ Remove(Live)
  /\ cleared' = {c \in Callers : loaded[c]}
  /\ UNCHANGED <<clock, ended, gone>>

-----------------------------------------------------------------------------
TimedNext ==
  \/ \E c \in Callers :
       Begin(c) \/ Untimed(c) \/ (\E value \in Values : Insert(c, value)) \/ Leave(c)
  \/ Tick
  \/ \E k \in Keys : Evict(k)
  \/ Clear

TimedSpec == TimedInit /\ [][TimedNext]_timedVars

-----------------------------------------------------------------------------
\* A value a call returns, from the cache or from another's load, had not
\* outlived its promised time when the call began, nor been cleared before: a
\* profile that was created becomes visible in time (src/README.md:111).  Only
\* a load that was under way during the clear may still put its value back.
NeverStale ==
  \A c \in Callers :
    stage[c] = "done" /\ outcome[c] \in Values =>
      \E d \in Callers \ gone[c] :
        KeyOf[d] = KeyOf[c] /\ loaded[d] /\ outcome[d] = outcome[c]
=============================================================================
