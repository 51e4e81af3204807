----------------------------- MODULE RateLimiter -----------------------------
(***************************************************************************)
(* The rate limiter of src/rate_limit.rs: the middleware reads the clock,  *)
(* then locks the shard of the client and decides.  Between the two other  *)
(* handlers may lock the same shard with a later clock, so that a decision *)
(* is made from a stale `now`.                                             *)
(***************************************************************************)
EXTENDS Naturals, Sequences, FiniteSets, Functions

CONSTANTS Requests,   \* requests that pass the middleware
          Clients,    \* the addresses they come from
          HeaderOf,   \* the CF-Connecting-IP of each request, if it has one
          AddressOf,  \* the address that a header parses to, if it does
          Unspecified, \* the address of a request without one
          Shards,
          ShardOf,    \* the shard each address hashes to
          Limit,      \* RateLimiter::limit
          Window,     \* RateLimiter::window, in ticks of the clock
          Second,     \* ticks in a second
          MaxLag,     \* bound: ticks between reading the clock and deciding
          MaxTime     \* bound: ticks of the clock

ASSUME ClientAssumption ==
    /\ IsFiniteSet(Requests)
    /\ \A header \in DOMAIN AddressOf : AddressOf[header] \in Clients
    /\ Unspecified \in Clients
    /\ ShardOf \in [Clients -> Shards]
\* RateLimiter::new refuses zero; no handler is preempted for a whole window.
ASSUME LimiterAssumption ==
    /\ Limit \in Nat \ {0}
    /\ Window \in Nat \ {0}
    /\ Second \in Nat \ {0}
    /\ MaxLag \in 0..Window - 1
    /\ MaxTime \in Nat

VARIABLES
  clock,        \* Instant::now()
  stamp,        \* the `now` of every request between its reading and its end
  clients,      \* the ClientWindow of every client that has one
  last_cleanup, \* per shard
  log           \* history: the decisions, in the order they were made, each
                \* with the start of the window that it was counted in

\* The key of a request: several ways to write an address are one client, and
\* all the requests without an address share one.
ClientOf ==
  [r \in Requests |-> IF HeaderOf[r] \in DOMAIN AddressOf
                      THEN AddressOf[HeaderOf[r]] ELSE Unspecified]

vars == <<clock, stamp, clients, last_cleanup, log>>

ClientWindows == [started_at : 0..MaxTime, requests : 0..Limit]

Stamped == DOMAIN stamp
Decided == {log[i].request : i \in DOMAIN log}
Undecided == Stamped \ Decided

Init ==
  /\ clock = 0
  /\ stamp = <<>>
  /\ clients = <<>>
  /\ last_cleanup = [s \in Shards |-> 0]
  /\ log = <<>>

\* Time passes, but a handler that has read the clock is not left behind.
Tick ==
  /\ clock < MaxTime
  /\ \A r \in Undecided : clock + 1 <= stamp[r] + MaxLag
  /\ clock' = clock + 1
  /\ UNCHANGED <<stamp, clients, last_cleanup, log>>

\* The middleware calls Instant::now().
Arrive(r) ==
  /\ r \notin Stamped
  /\ stamp' = [q \in Stamped \cup {r} |-> IF q = r THEN clock ELSE stamp[q]]
  /\ UNCHANGED <<clock, clients, last_cleanup, log>>

-----------------------------------------------------------------------------
(* RateLimiter::check, under the lock of the shard.                        *)

\* saturating_duration_since
Since(now, earlier) == IF now > earlier THEN now - earlier ELSE 0

\* Seeded fault: the cleanup forgets every client of the shard.
CleanedOfAll(shard, now) ==
  IF Since(now, last_cleanup[shard]) >= Window
  THEN Restrict(clients, {c \in DOMAIN clients : ShardOf[c] # shard})
  ELSE clients

\* Seeded fault: the cleanup forgets nobody.
CleanedOfNone(shard, now) == clients

\* The windows after the cleanup of a shard, due once in a window.
Cleaned(shard, now) ==
  IF Since(now, last_cleanup[shard]) >= Window
  THEN Restrict(clients, {c \in DOMAIN clients :
         ShardOf[c] = shard => Since(now, clients[c].started_at) < Window})
  ELSE clients

\* Seeded fault: a window that is over stays in use.
CurrentUntilCleaned(client, known, now) ==
  IF client \in DOMAIN known THEN known[client]
  ELSE [started_at |-> now, requests |-> 0]

\* The window of the client: a fresh one if it has none or its own is over.
Current(client, known, now) ==
  IF client \in DOMAIN known /\ Since(now, known[client].started_at) < Window
  THEN known[client]
  ELSE [started_at |-> now, requests |-> 0]

Allows(window) == window.requests < Limit

\* Seeded fault: a copy of the window is counted.
CountedInCopy(window) == window

Counted(window) ==
  IF Allows(window) THEN [window EXCEPT !.requests = @ + 1] ELSE window

ResetAfter(window, now) == Since(Window, Since(now, window.started_at))

\* reset_after in whole seconds, rounded down, but at least one.
RetryAfter(window, now) ==
  LET seconds == ResetAfter(window, now) \div Second
  IN IF seconds > 1 THEN seconds ELSE 1

Check(r) ==
  /\ r \in Undecided
  /\ LET now == stamp[r]
         client == ClientOf[r]
         shard == ShardOf[client]
         known == Cleaned(shard, now)
         window == Current(client, known, now)
         counted == Counted(window)
     IN /\ clients' = [c \in DOMAIN known \cup {client} |->
                         IF c = client THEN counted ELSE known[c]]
        /\ last_cleanup' = [last_cleanup EXCEPT ![shard] =
                              IF Since(now, @) >= Window THEN now ELSE @]
        /\ log' = Append(log, [request |-> r,
                               start |-> window.started_at,
                               allowed |-> Allows(window),
                               remaining |-> Since(Limit, counted.requests),
                               reset |-> RetryAfter(window, now)])
  /\ UNCHANGED <<clock, stamp>>

Next ==
  \/ Tick
  \/ \E r \in Requests : Arrive(r) \/ Check(r)

Spec == Init /\ [][Next]_vars

-----------------------------------------------------------------------------
TypeOK ==
  /\ clock \in 0..MaxTime
  /\ Stamped \subseteq Requests
  /\ \A r \in Stamped : stamp[r] \in 0..clock
  /\ DOMAIN clients \subseteq Clients
  /\ \A c \in DOMAIN clients : clients[c] \in ClientWindows
  /\ last_cleanup \in [Shards -> 0..clock]
  /\ \A i \in DOMAIN log :
       log[i] \in [request : Stamped, start : 0..clock, allowed : BOOLEAN,
                   remaining : 0..Limit, reset : Nat \ {0}]

\* The requests of a client that were let through, by the clock they read.
Admitted(client, from, to) ==
  {i \in DOMAIN log : /\ log[i].allowed
                      /\ ClientOf[log[i].request] = client
                      /\ stamp[log[i].request] \in from..to}

\* Whatever instant one starts to measure, a client gets at most two limits
\* through in one window's time less two lags, with stale clocks and the cleanups
\* that the requests of other clients trigger.  (Lags bring windows together: a
\* whole window's time may touch three of them.)
QuotaPerSpan ==
  \A c \in Clients, from \in 0..MaxTime :
    Cardinality(Admitted(c, from, from + Window - 2 * MaxLag)) <= 2 * Limit

\* The windows of a client do not overlap, as those of a fixed-window limiter
\* (rate_limit.rs:59), but for the lag of a handler whose window the request of
\* another client cleans up between its clock and its lock.
FixedWindow ==
  \A i, j \in DOMAIN log :
    /\ ClientOf[log[i].request] = ClientOf[log[j].request]
    /\ log[i].start < log[j].start
    => log[i].start + Window <= log[j].start + MaxLag

\* Nobody is turned away for the traffic of others or for requests long past:
\* the client itself had a whole limit admitted less than a window (and the lag
\* of a stale clock) before.
DeniedForAReason ==
  \A i \in DOMAIN log :
    LET r == log[i].request
    IN ~log[i].allowed =>
         Cardinality({j \in Admitted(ClientOf[r], 0, MaxTime) :
                        j < i /\ stamp[log[j].request] + Window + MaxLag > stamp[r]})
           >= Limit

\* A client that never returns is forgotten in time: whatever the lags and the
\* phase of the cleanups, no request is decided while its shard still holds a
\* window that began two windows before it.
ForgottenInTime ==
  \A c \in DOMAIN clients, i \in DOMAIN log :
    LET r == log[i].request
    IN ShardOf[ClientOf[r]] = ShardOf[c]
         => stamp[r] < clients[c].started_at + 2 * Window

\* Retry-After is rounded down, so it may be up to a second short, but no more:
\* a client that waits a second longer than it was told is turned away again
\* only if a whole limit of its requests got through in the meantime.
RetryHonoured ==
  \A i, j \in DOMAIN log :
    LET r == log[i].request
        q == log[j].request
    IN /\ i < j /\ ClientOf[q] = ClientOf[r]
       /\ ~log[i].allowed /\ ~log[j].allowed
       /\ stamp[q] >= stamp[r] + (log[i].reset + 1) * Second
       => Cardinality({k \in Admitted(ClientOf[r], 0, MaxTime) : i < k /\ k < j})
            >= Limit
=============================================================================
