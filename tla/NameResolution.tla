--------------------------- MODULE NameResolution ---------------------------
(***************************************************************************)
(* What BatchLookup::lookup promises the handlers that call it, with the   *)
(* cache, the channel and the batches left out: a request ends with        *)
(* something Mojang said about its own name, or with an error that really  *)
(* occurred.                                                               *)
(***************************************************************************)
CONSTANTS Requests,  \* calls of BatchLookup::lookup
          NameOf,    \* the normalised name of each
          Values,    \* the uuids, and "absent" for Ok(None)
          Errors     \* the variants of UpstreamError

VARIABLES
  status,    \* "idle", "waiting", "cancelled", or the result of the call
  reported,  \* the pairs of a name and a value that Mojang has reported
  outages    \* the errors that have occurred

serviceVars == <<status, reported, outages>>

Init ==
  /\ status = [r \in Requests |-> "idle"]
  /\ reported = {}
  /\ outages = {}

\* Mojang answers one call: one value for each name it carried.
Report(names) ==
  /\ \E answer \in [names -> Values] :
       reported' = reported \cup {<<n, answer[n]>> : n \in names}
  /\ UNCHANGED <<status, outages>>

\* A call fails, a task dies or the processor goes away.
Outage(error) ==
  /\ outages' = outages \cup {error}
  /\ UNCHANGED <<status, reported>>

Ask(r) ==
  /\ status[r] = "idle"
  /\ status' = [status EXCEPT ![r] = "waiting"]
  /\ UNCHANGED <<reported, outages>>

\* A request may be answered at once, from the cache.
Answer(r, value) ==
  /\ status[r] \in {"idle", "waiting"}
  /\ <<NameOf[r], value>> \in reported
  /\ status' = [status EXCEPT ![r] = value]
  /\ UNCHANGED <<reported, outages>>

Fail(r, error) ==
  /\ status[r] = "waiting"
  /\ error \in outages
  /\ status' = [status EXCEPT ![r] = error]
  /\ UNCHANGED <<reported, outages>>

Leave(r) ==
  /\ status[r] = "waiting"
  /\ status' = [status EXCEPT ![r] = "cancelled"]
  /\ UNCHANGED <<reported, outages>>

Next ==
  \/ \E names \in SUBSET {NameOf[r] : r \in Requests} : Report(names)
  \/ \E error \in Errors : Outage(error)
  \/ \E r \in Requests :
       \/ Ask(r)
       \/ \E value \in Values : Answer(r, value)
       \/ \E error \in Errors : Fail(r, error)
       \/ Leave(r)

Spec == Init /\ [][Next]_serviceVars

\* Nobody waits for ever.
EveryRequestEnds ==
  \A r \in Requests : status[r] = "waiting" ~> status[r] # "waiting"
=============================================================================
