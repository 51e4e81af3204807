---------------------------- MODULE MojangClient ----------------------------
(***************************************************************************)
(* MojangHttpClient of src/mojang.rs: `send` with its bounded body, and    *)
(* what lookup_names and lookup_skin make of the response.  A call runs in *)
(* the future of whoever awaits it: a batch task or a skin request.        *)
(*                                                                         *)
(* Sizes are counted in units of which the limit holds a few.  The body of *)
(* a response is read chunk by chunk, and only when it has ended is it     *)
(* known what it holds: something malformed, or a sequence of items, the   *)
(* profiles of a names call or the properties of a skin call.              *)
(***************************************************************************)
EXTENDS Naturals, FiniteSets, FiniteSetsExt, SequencesExt

CONSTANTS Calls,   \* calls of lookup_names and lookup_skin
          KindOf,  \* "names" or "skin"
          BodyOf,  \* the size of the request body of each call
          Skins,   \* the textures a profile may have
          Limit,   \* MAX_UPSTREAM_RESPONSE_BYTES
          Chunks   \* sizes of the chunks and lengths that responses announce

\* What the modules that instantiate this one assume of its constants.
ClientAssumption ==
  /\ IsFiniteSet(Calls)
  /\ KindOf \in [Calls -> {"names", "skin"}] /\ BodyOf \in [Calls -> Nat]
  /\ Limit \in Nat /\ Chunks \subseteq Nat \ {0}
  /\ Skins \cap {"none", "profiles", "absent", "timeout", "transport",
                  "http_status", "invalid_response"} = {}

VARIABLES
  call,      \* where each call stands
  response,  \* the response it reads, with the length of the body so far
  result,    \* what the call returned
  requests,  \* Metrics::mojang_requests
  sent,      \* Metrics::bytes_sent_to_mojang
  received,  \* Metrics::bytes_received_from_mojang
  errors     \* Metrics::mojang_errors

clientVars == <<call, response, result, requests, sent, received, errors>>

UpstreamErrors == {"timeout", "transport", "http_status", "invalid_response"}
Statuses == {"ok", "no_content", "unsuccessful"}

\* No length is announced: the response is chunked or compressed.
Unknown == 0

Response == [status : Statuses, announced : Chunks \cup {Unknown}, body : Nat]
NoResponse == [status |-> "ok", announced |-> Unknown, body |-> 0]

Active == {c \in Calls : call[c] \in {"sending", "reading"}}

Init ==
  /\ call = [c \in Calls |-> "none"]
  /\ response = [c \in Calls |-> NoResponse]
  /\ result = [c \in Calls |-> "none"]
  /\ requests = 0
  /\ sent = 0
  /\ received = 0
  /\ errors = 0

-----------------------------------------------------------------------------
\* The call leaves its future, and the response with it.
Leave(c, stage) ==
  /\ call' = [call EXCEPT ![c] = stage]
  /\ response' = [response EXCEPT ![c] = NoResponse]

Return(c, value) ==
  /\ Leave(c, "returned")
  /\ result' = [result EXCEPT ![c] = value]

\* Each failure is counted where it is noticed.
Fail(c, error) ==
  /\ Return(c, error)
  /\ errors' = errors + 1

\* record_mojang_request, then the request is on its way.
Begin(c) ==
  /\ call[c] = "none"
  /\ call' = [call EXCEPT ![c] = "sending"]
  /\ requests' = requests + 1
  /\ sent' = sent + BodyOf[c]
  /\ UNCHANGED <<response, result, received, errors>>

\* `send` or `chunk` fails: the timeout is the total one of the client.
Break(c, error) ==
  /\ c \in Active
  /\ Fail(c, error)
  /\ UNCHANGED <<requests, sent, received>>

\* The head of the response: a length beyond the limit is refused at once.
ReceiveHead(c, status, length) ==
  /\ call[c] = "sending"
  /\ status = "no_content" => length = Unknown
  /\ IF length # Unknown /\ length > Limit
     THEN Fail(c, "invalid_response")
     ELSE /\ call' = [call EXCEPT ![c] = "reading"]
          /\ response' = [response EXCEPT ![c] = [status |-> status,
                                                  announced |-> length,
                                                  body |-> 0]]
          /\ UNCHANGED <<result, errors>>
  /\ UNCHANGED <<requests, sent, received>>

\* HTTP gives no more than was announced, and ends no sooner.
MayGrow(c, size) ==
  /\ response[c].status # "no_content"
  /\ response[c].announced \in {Unknown} \cup {n \in Chunks :
                                               response[c].body + size <= n}
MayEnd(c) == response[c].announced \in {Unknown, response[c].body}

\* Seeded fault: the body is compared with the limit before it grows.
FitsBefore(c, size) == response[c].body <= Limit

\* try_extend_body
Fits(c, size) == response[c].body + size <= Limit

Chunk(c, size) ==
  /\ call[c] = "reading"
  /\ MayGrow(c, size)
  /\ IF Fits(c, size)
     THEN /\ response' = [response EXCEPT ![c].body = @ + size]
          /\ UNCHANGED <<call, result, errors>>
     ELSE Fail(c, "invalid_response")
  /\ UNCHANGED <<requests, sent, received>>

-----------------------------------------------------------------------------
(* What a body may hold, and what the two calls return for it.             *)

\* Of the profiles and the properties only what decides the result is kept.
Items(c) == IF KindOf[c] = "names" THEN {"valid_id", "invalid_id"}
                                   ELSE Skins \cup {"other"}
Contents(c) ==
  {<<"malformed">>} \cup (IF response[c].body = 0 THEN {} ELSE SeqOf(Items(c), 2))

\* The first property named `textures`, if there is one.
Textures(properties) ==
  LET found == {i \in DOMAIN properties : properties[i] \in Skins}
  IN IF found = {} THEN "absent" ELSE properties[Min(found)]

\* It parses, and every profile has a UUID that does.
Understood(content) ==
  ~Contains(content, "malformed") /\ ~Contains(content, "invalid_id")

\* NO_CONTENT is None to a skin call, and a success to a names call, which then
\* does not find a list in the empty body.
Outcome(c, content) ==
  LET none == KindOf[c] = "skin" /\ response[c].status = "no_content"
      failed == response[c].status = "unsuccessful"
  IN CASE none -> "absent"
       [] failed -> "http_status"
       [] ~none /\ ~failed /\ ~Understood(content) -> "invalid_response"
       [] ~none /\ ~failed /\ Understood(content) ->
            IF KindOf[c] = "skin" THEN Textures(content) ELSE "profiles"

\* Seeded fault: every invalid profile of a batch is counted as an error.
EndCountingProfiles(c, content) ==
  LET outcome == Outcome(c, content)
      invalid == SelectSeq(content, LAMBDA item : item = "invalid_id")
  IN /\ call[c] = "reading"
     /\ MayEnd(c)
     /\ received' = received + response[c].body
     /\ Return(c, outcome)
     /\ errors' = CASE outcome \notin UpstreamErrors -> errors
                    [] outcome = "invalid_response" /\ invalid # <<>> ->
                         errors + Len(invalid)
                    [] OTHER -> errors + 1
     /\ UNCHANGED <<requests, sent>>

\* The body has ended: it is counted and taken apart in one poll.  Profiles are
\* collected up to the first that is invalid, so that a batch fails once.
End(c, content) ==
  LET outcome == Outcome(c, content)
  IN /\ call[c] = "reading"
     /\ MayEnd(c)
     /\ received' = received + response[c].body
     /\ IF outcome \in UpstreamErrors
        THEN Fail(c, outcome)
        ELSE Return(c, outcome) /\ UNCHANGED errors
     /\ UNCHANGED <<requests, sent>>

\* Whoever awaits the call is dropped, and the call with it.
Drop(c) ==
  /\ c \in Active
  /\ Leave(c, "dropped")
  /\ UNCHANGED <<result, requests, sent, received, errors>>

-----------------------------------------------------------------------------
\* One step of the network, or the client's total timeout.
Progress(c) ==
  \/ \E error \in {"timeout", "transport"} : Break(c, error)
  \/ \E status \in Statuses, length \in Chunks \cup {Unknown} :
       ReceiveHead(c, status, length)
  \/ \E size \in Chunks : Chunk(c, size)
  \/ \E content \in Contents(c) : End(c, content)

Next == \E c \in Calls : Begin(c) \/ Progress(c) \/ Drop(c)

Spec == Init /\ [][Next]_clientVars

-----------------------------------------------------------------------------
ClientTypeOK ==
  /\ call \in [Calls -> {"none", "sending", "reading", "returned", "dropped"}]
  /\ response \in [Calls -> Response]
  /\ result \in [Calls -> UpstreamErrors \cup Skins
                            \cup {"none", "absent", "profiles"}]
  /\ requests \in 0..Cardinality(Calls)
  /\ sent \in Nat
  /\ received \in Nat
  /\ errors \in Nat

Answered == {c \in Calls : call[c] = "returned" /\ result[c] \notin
                             {"timeout", "transport"}}

\* Whatever lengths a response announces and however it is cut into chunks, no
\* more than the limit of a body is kept in memory (src/README.md:113), and the
\* bytes reported as received are those of whole bodies within the limit.
BodyBounded ==
  /\ \A c \in Calls : response[c].body <= Limit
  /\ received <= Limit * Cardinality(Answered)

\* The errors in the report are the calls that failed, each once: a body that
\* is too long, a status, a body that does not parse or one with several
\* invalid profiles, but no call that was dropped.
ErrorsAreFailedCalls ==
  errors = Cardinality({c \in Calls : result[c] \in UpstreamErrors})
=============================================================================
