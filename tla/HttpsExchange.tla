---------------------------- MODULE HttpsExchange ---------------------------
(***************************************************************************)
(* One bounded HTTPS exchange: a send() of one of the two Telegram senders *)
(* (telegram.py and its twin deadman_telegram.py) or a probe() of the      *)
(* dead-man prober. The caller opens one request, reads one bounded        *)
(* sample of the response, judges it and closes it; the network may fail   *)
(* or fall silent at every step, and the peer may act on a request whose   *)
(* answer is lost.                                                         *)
(*                                                                         *)
(* The timeout of the opener is a timeout of each socket operation: idle   *)
(* counts the time since bytes last arrived.                               *)
(***************************************************************************)
EXTENDS Naturals, Sequences

CONSTANTS Timeout,     \* timeout_seconds, in ticks of the clock
          MaxFeeds     \* bound: arrivals of bytes that complete nothing

ASSUME ExchangeAssumption ==
    /\ Timeout \in Nat \ {0}
    /\ MaxFeeds \in Nat

VARIABLES kind,       \* which call this is
          pc,         \* where it is
          requests,   \* requests handed to the network
          effects,    \* how often the peer acted on them
          reply,      \* the head of the response, once it has arrived
          sample,     \* the part of the body that was read
          acquired,   \* a response object is owned by the call
          closes,     \* how often it was closed
          failure,    \* the failure determined so far
          result,     \* how the call ended
          idle,       \* time since the last byte
          feeds       \* arrivals of bytes that completed nothing

vars == <<kind, pc, requests, effects, reply, sample, acquired, closes,
          failure, result, idle, feeds>>

-----------------------------------------------------------------------------
(* Responses: a status, the Allow values (each a set of methods) and a     *)
(* body, of which the call reads a bounded sample.                         *)

Status == {200, 202, 302, 405, 502, 700}

Allow == {<<>>, <<{"GET"}>>, <<{"post"}>>, <<{"GET"}, {"POST", "PUT"}>>}

\* ok: an object whose "ok" is exactly true; notOk: an object without it;
\* deep: nested past the recursion limit of the JSON parser, and small
\* enough to fit; large: over _RESPONSE_BODY_LIMIT_BYTES.
Body(k) == IF k = "send"
           THEN {"ok", "notOk", "notObject", "malformed", "deep", "large"}
           ELSE {"empty", "data"}

Reply(k) == [status : Status, body : Body(k),
             allow : IF k = "send" THEN {<<>>} ELSE Allow]

NoReply == [status |-> 0]

\* A peer that closes early, announced length or not, leaves a shorter
\* sample: a JSON document that stops half-way, or no byte at all.
Truncated == IF kind = "send" THEN "malformed" ELSE "empty"

IsRedirect(r) == r.status \in 300..399

Successful(r) == r.status \in 200..299

-----------------------------------------------------------------------------
(* The judgement of a sample.                                              *)

\* _classify_bounded_response, where it returns.
classify_bounded_response(status, raw) ==
    CASE status # 200 -> "status"
      [] status = 200 /\ raw = "large" -> "tooLarge"
      [] status = 200 /\ raw \in {"malformed", "notObject"} -> "malformed"
      [] status = 200 /\ raw = "notOk" -> "notOk"
      [] status = 200 /\ raw = "ok" -> "none"

\* json.loads raises RecursionError, which is no ValueError.
ParserGivesUp(status, raw) == status = 200 /\ raw = "deep"

post_is_allowed(allow) == \E i \in DOMAIN allow : "POST" \in allow[i]

\* Mutant: any answer to the method is a sign of life.
classify_any_405(status, allow, body) ==
    IF status = 405 THEN "none" ELSE "unhealthy"

\* DeadManProbeResponse refuses a status over 599, and every status but 405
\* fails the signature.
classify_deadman_probe(status, allow, body) ==
    IF status = 405 /\ post_is_allowed(allow) /\ body = "empty"
    THEN "none"
    ELSE "unhealthy"

Judge(status, allow, raw) ==
    IF kind = "send"
    THEN classify_bounded_response(status, raw)
    ELSE classify_deadman_probe(status, allow, raw)

\* What the peer says only once it has acted: Telegram's confirmation, and
\* the signature that only the endpoint itself gives.
Confirmation(r) ==
    IF kind = "send"
    THEN r.status = 200 /\ r.body = "ok"
    ELSE r.status = 405 /\ post_is_allowed(r.allow)

-----------------------------------------------------------------------------
Init ==
    /\ kind \in {"send", "probe"}
    /\ pc = "connect"
    /\ requests = 0
    /\ effects = 0
    /\ reply = NoReply
    /\ sample = "none"
    /\ acquired = FALSE
    /\ closes = 0
    /\ failure = "none"
    /\ result = "running"
    /\ idle = 0
    /\ feeds = 0

Opening == pc \in {"connect", "head"}

Waiting == Opening \/ pc = "body"

\* The call ends without a response to close.
FailOpen(f) ==
    /\ Opening
    /\ failure' = f
    /\ pc' = "done"
    /\ result' = IF kind = "send" THEN "DeliveryError" ELSE "FAILED"
    /\ UNCHANGED <<kind, requests, effects, reply, sample, acquired, closes,
                   idle, feeds>>

\* Resolve, connect, TLS, send: the one request is on its way.
Connect ==
    /\ pc = "connect"
    /\ requests' = requests + 1
    /\ pc' = "head"
    /\ idle' = 0
    /\ UNCHANGED <<kind, effects, reply, sample, acquired, closes, failure,
                   result, feeds>>

\* DNS, TCP, TLS, a reset connection, or a status line that is not one.
OpenFails == FailOpen("network")

\* A setting the constructors accept and the opener does not: a path outside
\* ASCII, a timeout beyond the clock's range. UnicodeEncodeError and
\* OverflowError are no transport failures, and nothing was sent yet.
OpenDefect ==
    /\ pc = "connect"
    /\ pc' = "done"
    /\ result' = "defect"
    /\ UNCHANGED <<kind, requests, effects, reply, sample, acquired, closes,
                   failure, idle, feeds>>

\* The peer acts on a request, even on one nobody waits for any longer.
PeerActs ==
    /\ effects < requests
    /\ effects' = effects + 1
    /\ UNCHANGED <<kind, pc, requests, reply, sample, acquired, closes,
                   failure, result, idle, feeds>>

HeadArrives(r) ==
    /\ pc = "head"
    /\ Confirmation(r) => effects > 0
    /\ reply' = r
    /\ idle' = 0

\* Mutant: the default handler, which asks again where it is sent.
ResponseArrivesFollowed(r) ==
    /\ HeadArrives(r)
    /\ IF IsRedirect(r)
       THEN /\ requests' = requests + 1
            /\ UNCHANGED <<pc, acquired, failure>>
       ELSE /\ acquired' = TRUE
            /\ pc' = IF kind = "send" /\ ~Successful(r) THEN "close" ELSE "body"
            /\ failure' = IF kind = "send" /\ ~Successful(r)
                          THEN "status" ELSE "none"
            /\ UNCHANGED requests
    /\ UNCHANGED <<kind, effects, sample, closes, result, feeds>>

\* A success status returns the response; every other one, redirects
\* included, raises HTTPError, which owns the response just the same. A
\* sender does not read the body of an HTTPError.
ResponseArrives(r) ==
    /\ HeadArrives(r)
    /\ acquired' = TRUE
    /\ IF kind = "send" /\ ~Successful(r)
       THEN failure' = "status" /\ pc' = "close"
       ELSE pc' = "body" /\ UNCHANGED failure
    /\ UNCHANGED <<kind, requests, effects, sample, closes, result, feeds>>

\* urllib parses the Location of a redirect before it asks the handler: one
\* it cannot parse raises ValueError, past every except clause.
RedirectUnparsable(r) ==
    /\ IsRedirect(r)
    /\ HeadArrives(r)
    /\ acquired' = TRUE
    /\ pc' = "done"
    /\ result' = "defect"
    /\ UNCHANGED <<kind, requests, effects, sample, closes, failure, feeds>>

\* read(limit): the sample is complete, or cut short by the peer.
ReadSample(raw) ==
    /\ pc = "body"
    /\ raw \in {reply.body, Truncated}
    /\ ~ParserGivesUp(reply.status, raw)
    /\ sample' = raw
    /\ failure' = Judge(reply.status, reply.allow, raw)
    /\ pc' = "close"
    /\ UNCHANGED <<kind, requests, effects, reply, acquired, closes, result,
                   idle, feeds>>

ReadDefect ==
    /\ pc = "body"
    /\ ParserGivesUp(reply.status, reply.body)
    /\ sample' = reply.body
    /\ pc' = "done"
    /\ result' = "defect"
    /\ UNCHANGED <<kind, requests, effects, reply, acquired, closes, failure,
                   idle, feeds>>

FailRead(f) ==
    /\ pc = "body"
    /\ failure' = f
    /\ pc' = "close"
    /\ UNCHANGED <<kind, requests, effects, reply, sample, acquired, closes,
                   result, idle, feeds>>

ReadFails == FailRead("network")

-----------------------------------------------------------------------------
(* The one cleanup, and the end of the call.                               *)

Verdict(f) ==
    IF kind = "send"
    THEN IF f = "none" THEN "delivered" ELSE "DeliveryError"
    ELSE IF f = "none" THEN "HEALTHY" ELSE "FAILED"

\* Mutant: the failure of the cleanup is the one reported.
close_reports_cleanup(raises) ==
    IF kind = "send" /\ raises THEN "cleanup" ELSE failure

\* _close_bounded_response: the failure determined first wins, and a sender
\* reports a failed cleanup only when there is none. _close_quietly: the
\* prober never does.
close_response(raises) ==
    IF kind = "send" /\ failure = "none" /\ raises THEN "cleanup" ELSE failure

Close(raises) ==
    /\ pc = "close"
    /\ closes' = closes + 1
    /\ failure' = close_response(raises)
    /\ result' = Verdict(failure')
    /\ pc' = "done"
    /\ UNCHANGED <<kind, requests, effects, reply, sample, acquired, idle,
                   feeds>>

-----------------------------------------------------------------------------
(* Time.                                                                   *)

Tick ==
    /\ Waiting
    /\ idle < Timeout
    /\ idle' = idle + 1
    /\ UNCHANGED <<kind, pc, requests, effects, reply, sample, acquired,
                   closes, failure, result, feeds>>

\* Bytes that complete neither the head nor the sample.
Feed ==
    /\ pc \in {"head", "body"}
    /\ feeds < MaxFeeds
    /\ feeds' = feeds + 1
    /\ idle' = 0
    /\ UNCHANGED <<kind, pc, requests, effects, reply, sample, acquired,
                   closes, failure, result>>

\* Mutant: a failed read leaves without the cleanup.
TimedOutUnclosed ==
    /\ idle = Timeout
    /\ Waiting
    /\ failure' = "timeout"
    /\ pc' = "done"
    /\ result' = IF kind = "send" THEN "DeliveryError" ELSE "FAILED"
    /\ UNCHANGED <<kind, requests, effects, reply, sample, acquired, closes,
                   idle, feeds>>

\* The socket operation times out.
TimedOut ==
    /\ idle = Timeout
    /\ \/ FailOpen("timeout")
       \/ FailRead("timeout")

Next ==
    \/ Connect
    \/ OpenFails
    \/ OpenDefect
    \/ PeerActs
    \/ \E r \in Reply(kind) : ResponseArrives(r) \/ RedirectUnparsable(r)
    \/ \E raw \in Body(kind) : ReadSample(raw)
    \/ ReadDefect
    \/ ReadFails
    \/ \E raises \in BOOLEAN : Close(raises)
    \/ Tick
    \/ Feed
    \/ TimedOut

Spec == Init /\ [][Next]_vars

\* The clock runs, the socket gives up when its timeout is over, and close
\* returns. Nothing is assumed of the peer or of the network.
Fairness ==
    /\ WF_vars(Tick)
    /\ WF_vars(TimedOut)
    /\ WF_vars(\E raises \in BOOLEAN : Close(raises))

FairSpec == Spec /\ Fairness

-----------------------------------------------------------------------------
(* Properties.                                                             *)

(* The type of the call, of the response and of what was read of it.       *)
TypeOK ==
    /\ kind \in {"send", "probe"}
    /\ pc \in {"connect", "head", "body", "close", "done"}
    /\ requests \in Nat
    /\ effects \in Nat
    /\ reply \in Reply(kind) \cup {NoReply}
    /\ sample \in Body(kind) \cup {"none"}
    /\ acquired \in BOOLEAN
    /\ closes \in Nat
    /\ failure \in {"none", "network", "timeout", "status", "tooLarge",
                    "malformed", "notOk", "unhealthy", "cleanup"}
    /\ result \in {"running", "delivered", "DeliveryError", "HEALTHY",
                   "FAILED", "defect"}
    /\ idle \in 0..Timeout
    /\ feeds \in 0..MaxFeeds

(* A response that was acquired - returned, or as the HTTPError of a       *)
(* refused status - is closed exactly once by the time the call ends,      *)
(* whichever of the reads and the cleanup failed; only a defect escaping   *)
(* the taxonomy leaves it to the garbage collector.                        *)
ClosedOnce ==
    pc = "done" /\ result # "defect" => closes = (IF acquired THEN 1 ELSE 0)

(* The failure determined first is the one the caller sees: a failed       *)
(* cleanup never takes its place.                                          *)
PrimaryFailureWins == [][failure # "none" => failure' = failure]_vars

\* The read returned, and with less than the body: read(amt) of http.client
\* says nothing of a connection that closes before the announced length.
CutShort == sample \notin {"none", reply.body}

(* HEALTHY is exactly a 405 of the endpoint that allows POST, has no body  *)
(* - or one whose connection closed before the first byte - and whose read *)
(* returned, however the cleanup went: neither a silence, a reset, a       *)
(* redirect, a body of which a byte arrived nor another server's answer is *)
(* a sign of life. (deadman.py:26-29 excepts no body that was cut short;   *)
(* the one read of the prober cannot tell it from an empty one.)           *)
HealthyIsSignature ==
    kind = "probe" /\ pc = "done" =>
        (result = "HEALTHY" <=>
            /\ reply.status = 405
            /\ \E i \in DOMAIN reply.allow : "POST" \in reply.allow[i]
            /\ sample # "none"
            /\ reply.body = "empty" \/ CutShort)

(* Every call keeps the promise of DeliveryAttempt: it says "delivered" or *)
(* HEALTHY only when the peer acted, once, and a peer or a network that    *)
(* falls silent at any point does not hold the caller.                     *)
Attempt == INSTANCE DeliveryAttempt
             WITH verdict <- CASE result = "running" -> "pending"
                               [] result \in {"delivered", "HEALTHY"} ->
                                     "confirmed"
                               [] OTHER -> "failed"

ImplementsAttempt == Attempt!FairSpec
=============================================================================
