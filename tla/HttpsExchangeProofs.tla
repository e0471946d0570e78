------------------------- MODULE HttpsExchangeProofs ------------------------
(***************************************************************************)
(* Proofs about one bounded HTTPS exchange, for every timeout and every    *)
(* number of arrivals that complete nothing: the response is closed once,  *)
(* the first failure wins, HEALTHY is the signature of the endpoint, and   *)
(* the caller is told "delivered" only after the peer acted, once.         *)
(*                                                                         *)
(* The invariant follows the one path of the call. What is known of the    *)
(* response at each point - nothing before its head, its judgement once    *)
(* the sample is read - carries the confirmation from the step at which    *)
(* the peer gave it to the step at which the caller hears of it.           *)
(***************************************************************************)
EXTENDS HttpsExchange, TLAPS

-----------------------------------------------------------------------------
(* The inductive invariant.                                                *)

\* One request, acted on at most once.
AtMostOneEffect ==
    /\ effects <= requests
    /\ requests <= 1
    /\ pc = "connect" => requests = 0
    /\ pc \in {"head", "body", "close"} => requests = 1

\* The response is owned from its head to its close.
Ownership ==
    /\ pc \in {"connect", "head"} =>
            /\ ~acquired /\ closes = 0
            /\ reply = NoReply /\ sample = "none" /\ failure = "none"
    /\ pc \in {"body", "close"} =>
            acquired /\ closes = 0 /\ reply \in Reply(kind)
    /\ pc = "body" => sample = "none" /\ failure = "none"
    /\ result = "running" <=> pc # "done"

\* A head that confirms was sent by a peer that had acted.
ConfirmedByPeer ==
    pc \in {"body", "close"} /\ Confirmation(reply) => effects > 0

\* The sample that passed its judgement is the confirmation.
Judged ==
    pc = "close" =>
        /\ kind = "send" /\ failure = "none" =>
                reply.status = 200 /\ reply.body = "ok"
        /\ kind = "probe" =>
                (failure = "none" <=> /\ reply.status = 405
                                      /\ sample = "empty"
                                      /\ post_is_allowed(reply.allow))

\* A complete sample is the body, and one cut short is none of it.
SampleOfReply ==
    kind = "probe" /\ sample # "none" =>
        /\ reply \in Reply(kind)
        /\ sample \in {reply.body, "empty"}

ExchangeInv ==
    /\ TypeOK
    /\ AtMostOneEffect
    /\ Ownership
    /\ ConfirmedByPeer
    /\ Judged
    /\ SampleOfReply
    /\ ClosedOnce
    /\ HealthyIsSignature

-----------------------------------------------------------------------------
(* The statuses and the bodies of a response, by the kind of the call.     *)
LEMMA ReplyFacts ==
    ASSUME NEW r \in Reply(kind), kind \in {"send", "probe"}
    PROVE  /\ r.status \in Status
           /\ r.body \in Body(kind)
           /\ kind = "probe" => r.body \in {"empty", "data"}
           /\ kind = "send" => r.body \in {"ok", "notOk", "notObject",
                                           "malformed", "deep", "large"}
BY DEF Reply, Body

(* What is judged "none": Telegram's confirmation, or the signature of the *)
(* endpoint over an empty sample.                                          *)
LEMMA JudgedNone ==
    ASSUME NEW r \in Reply(kind), NEW raw \in Body(kind),
           kind \in {"send", "probe"},
           raw \in {r.body, Truncated}, ~ParserGivesUp(r.status, raw)
    PROVE  LET f == Judge(r.status, r.allow, raw)
           IN  /\ f \in {"none", "status", "tooLarge", "malformed", "notOk",
                         "unhealthy"}
               /\ kind = "send" /\ f = "none" => r.status = 200 /\ r.body = "ok"
               /\ kind = "probe" =>
                    (f = "none" <=> /\ r.status = 405 /\ raw = "empty"
                                    /\ post_is_allowed(r.allow))
<1>1. CASE kind = "send"
    <2>1. raw \in {"ok", "notOk", "notObject", "malformed", "deep", "large"}
        BY <1>1 DEF Body
    <2>2. r.status = 200 => raw # "deep"
        BY DEF ParserGivesUp
    <2>3. Judge(r.status, r.allow, raw)
                = classify_bounded_response(r.status, raw)
        BY <1>1 DEF Judge
    <2>4. CASE r.status # 200
        BY <1>1, <2>3, <2>4 DEF classify_bounded_response
    <2>5. CASE r.status = 200
        <3>1. raw = "ok" => r.body = "ok"
            BY <1>1 DEF Truncated
        <3> QED BY <1>1, <2>1, <2>2, <2>3, <2>5, <3>1
                DEF classify_bounded_response
    <2> QED BY <2>4, <2>5
<1>2. CASE kind = "probe"
    BY <1>2 DEF Judge, classify_deadman_probe
<1> QED BY <1>1, <1>2

(* The invariant holds when a call begins.                                 *)
LEMMA InitExchange == Init => ExchangeInv
<1> SUFFICES ASSUME Init PROVE ExchangeInv
    OBVIOUS
<1>1. TypeOK
    <2>1. /\ requests \in Nat /\ effects \in Nat /\ closes \in Nat
          /\ idle \in 0..Timeout /\ feeds \in 0..MaxFeeds
        BY ExchangeAssumption DEF Init
    <2> QED BY <2>1, Zenon DEF Init, TypeOK
<1>2. /\ AtMostOneEffect /\ Ownership /\ ConfirmedByPeer /\ Judged
      /\ ClosedOnce /\ HealthyIsSignature /\ SampleOfReply
    BY DEF Init, AtMostOneEffect, Ownership, ConfirmedByPeer, Judged,
           ClosedOnce, HealthyIsSignature, CutShort, SampleOfReply
<1> QED BY <1>1, <1>2 DEF ExchangeInv

(* A call that ends while opening owns no response.                        *)
LEMMA FailOpenKeeps ==
    ASSUME ExchangeInv, NEW f \in {"network", "timeout"}, FailOpen(f)
    PROVE  ExchangeInv'
<1>1. /\ pc \in {"connect", "head"} /\ pc' = "done" /\ failure' = f
      /\ result' \in {"DeliveryError", "FAILED"}
      /\ UNCHANGED <<kind, requests, effects, reply, sample, acquired, closes,
                     idle, feeds>>
    BY DEF FailOpen, Opening
<1>2. TypeOK'
    BY <1>1 DEF ExchangeInv, TypeOK
<1>3. /\ AtMostOneEffect' /\ Ownership' /\ ConfirmedByPeer' /\ Judged'
      /\ ClosedOnce'
    BY <1>1 DEF ExchangeInv, AtMostOneEffect, Ownership, ConfirmedByPeer,
                Judged, ClosedOnce
<1>4. HealthyIsSignature' /\ SampleOfReply'
    BY <1>1 DEF ExchangeInv, Ownership, HealthyIsSignature, CutShort,
        SampleOfReply
<1> QED BY <1>2, <1>3, <1>4 DEF ExchangeInv

(* A read that fails leads to the close, with nothing judged.              *)
LEMMA FailReadKeeps ==
    ASSUME ExchangeInv, NEW f \in {"network", "timeout"}, FailRead(f)
    PROVE  ExchangeInv'
<1>1. /\ pc = "body" /\ pc' = "close" /\ failure' = f
      /\ UNCHANGED <<kind, requests, effects, reply, sample, acquired, closes,
                     result, idle, feeds>>
    BY DEF FailRead
<1>2. TypeOK'
    BY <1>1 DEF ExchangeInv, TypeOK
<1>3. /\ AtMostOneEffect' /\ Ownership' /\ ClosedOnce'
      /\ HealthyIsSignature' /\ SampleOfReply'
    BY <1>1 DEF ExchangeInv, AtMostOneEffect, Ownership, ClosedOnce,
                HealthyIsSignature, CutShort, SampleOfReply
<1>4. ConfirmedByPeer'
    BY <1>1 DEF ExchangeInv, ConfirmedByPeer, Confirmation
<1>5. Judged'
    BY <1>1 DEF ExchangeInv, Ownership, Judged
<1> QED BY <1>2, <1>3, <1>4, <1>5 DEF ExchangeInv

(* Every step of the call, of the peer and of the clock keeps the          *)
(* invariant.                                                              *)
LEMMA NextExchange == ExchangeInv /\ [Next]_vars => ExchangeInv'
<1> SUFFICES ASSUME ExchangeInv, [Next]_vars PROVE ExchangeInv'
    OBVIOUS
<1>0. /\ TypeOK /\ AtMostOneEffect /\ Ownership /\ ConfirmedByPeer /\ Judged
      /\ ClosedOnce /\ HealthyIsSignature /\ SampleOfReply
    BY DEF ExchangeInv
<1>1. CASE Connect
    <2>1. TypeOK'
        BY <1>0, <1>1, ExchangeAssumption DEF Connect, TypeOK
    <2>2. /\ AtMostOneEffect' /\ Ownership' /\ ConfirmedByPeer' /\ Judged'
          /\ ClosedOnce' /\ HealthyIsSignature' /\ SampleOfReply'
        BY <1>0, <1>1 DEF Connect, TypeOK, AtMostOneEffect, Ownership,
            ConfirmedByPeer, Judged, ClosedOnce, HealthyIsSignature, CutShort,
            SampleOfReply
    <2> QED BY <2>1, <2>2 DEF ExchangeInv
<1>2. CASE OpenFails
    BY <1>2, FailOpenKeeps DEF OpenFails
<1>3. CASE PeerActs
    <2>1. /\ effects < requests /\ effects' = effects + 1
          /\ UNCHANGED <<kind, pc, requests, reply, sample, acquired, closes,
                         failure, result, idle, feeds>>
        BY <1>3 DEF PeerActs
    <2>2. TypeOK' /\ AtMostOneEffect' /\ effects' > 0
        BY <1>0, <2>1 DEF TypeOK, AtMostOneEffect
    <2>3. /\ Ownership' /\ ClosedOnce' /\ HealthyIsSignature'
          /\ SampleOfReply' /\ Judged'
        BY <1>0, <2>1 DEF Ownership, ClosedOnce, HealthyIsSignature, CutShort,
            SampleOfReply, Judged
    <2>4. ConfirmedByPeer'
        BY <2>2 DEF ConfirmedByPeer
    <2> QED BY <2>2, <2>3, <2>4 DEF ExchangeInv
<1>4. ASSUME NEW r \in Reply(kind), ResponseArrives(r)
      PROVE  ExchangeInv'
    <2>1. /\ pc = "head" /\ reply' = r /\ idle' = 0 /\ acquired' = TRUE
          /\ Confirmation(r) => effects > 0
          /\ \/ /\ kind = "send" /\ ~Successful(r)
                /\ failure' = "status" /\ pc' = "close"
             \/ pc' = "body" /\ UNCHANGED failure
          /\ UNCHANGED <<kind, requests, effects, sample, closes, result,
                         feeds>>
        BY <1>4 DEF ResponseArrives, HeadArrives
    <2>2. TypeOK'
        BY <1>0, <2>1, ExchangeAssumption DEF TypeOK
    <2>3. /\ AtMostOneEffect' /\ Ownership' /\ ClosedOnce'
          /\ HealthyIsSignature' /\ SampleOfReply'
        BY <1>0, <2>1 DEF AtMostOneEffect, Ownership, ClosedOnce,
                          HealthyIsSignature, CutShort, SampleOfReply
    <2>4. Confirmation(reply)' <=> Confirmation(r)
        BY <2>1 DEF Confirmation
    <2>5. ConfirmedByPeer' /\ Judged'
        BY <2>1, <2>4 DEF ConfirmedByPeer, Judged
    <2> QED BY <2>2, <2>3, <2>5 DEF ExchangeInv
<1>5. ASSUME NEW r \in Reply(kind), RedirectUnparsable(r)
      PROVE  ExchangeInv'
    <2>1. /\ pc = "head" /\ reply' = r /\ idle' = 0 /\ acquired' = TRUE
          /\ pc' = "done" /\ result' = "defect"
          /\ UNCHANGED <<kind, requests, effects, sample, closes, failure,
                         feeds>>
        BY <1>5 DEF RedirectUnparsable, HeadArrives
    <2>2. TypeOK'
        BY <1>0, <2>1, ExchangeAssumption DEF TypeOK
    <2>3. /\ AtMostOneEffect' /\ Ownership' /\ ClosedOnce' /\ ConfirmedByPeer'
          /\ Judged' /\ HealthyIsSignature' /\ SampleOfReply'
        BY <1>0, <2>1 DEF AtMostOneEffect, Ownership, ClosedOnce,
                          ConfirmedByPeer, Judged, HealthyIsSignature,
                          CutShort, SampleOfReply
    <2> QED BY <2>2, <2>3 DEF ExchangeInv
<1>6. ASSUME NEW raw \in Body(kind), ReadSample(raw)
      PROVE  ExchangeInv'
    <2>1. /\ pc = "body" /\ pc' = "close" /\ sample' = raw
          /\ raw \in {reply.body, Truncated}
          /\ ~ParserGivesUp(reply.status, raw)
          /\ failure' = Judge(reply.status, reply.allow, raw)
          /\ UNCHANGED <<kind, requests, effects, reply, acquired, closes,
                         result, idle, feeds>>
        BY <1>6 DEF ReadSample
    <2>2. reply \in Reply(kind) /\ kind \in {"send", "probe"}
        BY <1>0, <2>1 DEF Ownership, TypeOK
    <2>3. /\ failure' \in {"none", "status", "tooLarge", "malformed", "notOk",
                           "unhealthy"}
          /\ Judged'
        BY <1>6, <2>1, <2>2, JudgedNone DEF Judged
    <2>4. TypeOK'
        BY <1>0, <1>6, <2>1, <2>3 DEF TypeOK
    <2>5. AtMostOneEffect' /\ Ownership' /\ ClosedOnce' /\ HealthyIsSignature'
        BY <1>0, <2>1 DEF AtMostOneEffect, Ownership, ClosedOnce,
                          HealthyIsSignature
    <2>6. ConfirmedByPeer'
        BY <1>0, <2>1 DEF ConfirmedByPeer, Confirmation
    <2>7. SampleOfReply'
        BY <2>1, <2>2 DEF SampleOfReply, Truncated, Reply
    <2> QED BY <2>3, <2>4, <2>5, <2>6, <2>7 DEF ExchangeInv
<1>7. CASE ReadDefect
    <2>1. /\ pc = "body" /\ pc' = "done" /\ sample' = reply.body
          /\ reply.body = "deep" /\ result' = "defect"
          /\ UNCHANGED <<kind, requests, effects, reply, acquired, closes,
                         failure, idle, feeds>>
        BY <1>7 DEF ReadDefect, ParserGivesUp
    <2>2. reply \in Reply(kind) /\ kind \in {"send", "probe"}
        BY <1>0, <2>1 DEF Ownership, TypeOK
    <2>3. kind # "probe" /\ sample' \in Body(kind)
        BY <2>1, <2>2, ReplyFacts
    <2>4. TypeOK'
        BY <1>0, <2>1, <2>3 DEF TypeOK
    <2>5. /\ AtMostOneEffect' /\ Ownership' /\ ClosedOnce' /\ ConfirmedByPeer'
          /\ Judged' /\ HealthyIsSignature' /\ SampleOfReply'
        BY <1>0, <2>1, <2>3 DEF AtMostOneEffect, Ownership, ClosedOnce,
                          ConfirmedByPeer, Judged, HealthyIsSignature,
                          CutShort, SampleOfReply
    <2> QED BY <2>4, <2>5 DEF ExchangeInv
<1>8. CASE ReadFails
    BY <1>8, FailReadKeeps DEF ReadFails
<1>9. ASSUME NEW raises \in BOOLEAN, Close(raises)
      PROVE  ExchangeInv'
    <2>1. /\ pc = "close" /\ pc' = "done" /\ closes' = closes + 1
          /\ failure' = close_response(raises)
          /\ result' = Verdict(failure')
          /\ UNCHANGED <<kind, requests, effects, reply, sample, acquired,
                         idle, feeds>>
        BY <1>9 DEF Close
    <2>2. /\ failure' \in {failure, "cleanup"}
          /\ kind = "probe" => failure' = failure
        BY <2>1 DEF close_response
    <2>3. /\ result' \in {"delivered", "DeliveryError", "HEALTHY", "FAILED"}
          /\ kind = "probe" => (result' = "HEALTHY" <=> failure' = "none")
        BY <2>1 DEF Verdict
    <2>4. TypeOK'
        BY <1>0, <2>1, <2>2, <2>3 DEF TypeOK
    <2>5. /\ AtMostOneEffect' /\ Ownership' /\ ClosedOnce' /\ ConfirmedByPeer'
          /\ Judged'
        BY <1>0, <2>1, <2>3 DEF TypeOK, AtMostOneEffect, Ownership,
            ClosedOnce, ConfirmedByPeer, Judged
    <2>6. HealthyIsSignature' /\ SampleOfReply'
        BY <1>0, <2>1, <2>2, <2>3
        DEF Judged, HealthyIsSignature, CutShort, SampleOfReply,
            post_is_allowed
    <2> QED BY <2>4, <2>5, <2>6 DEF ExchangeInv
<1>10. CASE Tick \/ Feed
    <2>1. UNCHANGED <<kind, pc, requests, effects, reply, sample, acquired,
                      closes, failure, result>>
        BY <1>10 DEF Tick, Feed
    <2>2. TypeOK'
        BY <1>0, <1>10, <2>1, ExchangeAssumption DEF TypeOK, Tick, Feed
    <2>3. /\ AtMostOneEffect' /\ Ownership' /\ ClosedOnce'
          /\ Judged' /\ HealthyIsSignature' /\ SampleOfReply'
        BY <1>0, <2>1 DEF AtMostOneEffect, Ownership, ClosedOnce,
                          Judged, HealthyIsSignature, CutShort, SampleOfReply
    <2>4. ConfirmedByPeer'
        BY <1>0, <2>1 DEF ConfirmedByPeer, Confirmation
    <2> QED BY <2>2, <2>3, <2>4 DEF ExchangeInv
<1>11. CASE TimedOut
    BY <1>11, FailOpenKeeps, FailReadKeeps DEF TimedOut
<1>12. CASE OpenDefect
    <2>1. /\ pc = "connect" /\ pc' = "done" /\ result' = "defect"
          /\ UNCHANGED <<kind, requests, effects, reply, sample, acquired,
                         closes, failure, idle, feeds>>
        BY <1>12 DEF OpenDefect
    <2>2. TypeOK'
        BY <1>0, <2>1 DEF TypeOK
    <2>3. /\ AtMostOneEffect' /\ Ownership' /\ ConfirmedByPeer' /\ Judged'
          /\ ClosedOnce' /\ HealthyIsSignature' /\ SampleOfReply'
        BY <1>0, <2>1 DEF AtMostOneEffect, Ownership, ConfirmedByPeer,
            Judged, ClosedOnce, HealthyIsSignature, CutShort, SampleOfReply
    <2> QED BY <2>2, <2>3 DEF ExchangeInv
<1>13. CASE UNCHANGED vars
    <2>1. TypeOK' /\ AtMostOneEffect' /\ Ownership'
        BY <1>0, <1>13 DEF vars, TypeOK, AtMostOneEffect, Ownership
    <2>2. ClosedOnce' /\ Judged' /\ HealthyIsSignature' /\ SampleOfReply'
        BY <1>0, <1>13 DEF vars, ClosedOnce, Judged, HealthyIsSignature,
            CutShort, SampleOfReply
    <2>3. ConfirmedByPeer'
        BY <1>0, <1>13 DEF vars, ConfirmedByPeer, Confirmation
    <2> QED BY <2>1, <2>2, <2>3 DEF ExchangeInv
<1> QED BY <1>1, <1>2, <1>3, <1>4, <1>5, <1>6, <1>7, <1>8, <1>9, <1>10,
           <1>11, <1>12, <1>13 DEF Next

(* The invariant holds throughout.                                         *)
LEMMA ExchangeAlways == Spec => []ExchangeInv
BY InitExchange, NextExchange, PTL DEF Spec

(* Every variable keeps its type.                                          *)
THEOREM ExchangeTypeCorrect == Spec => []TypeOK
BY ExchangeAlways, PTL DEF ExchangeInv

(* A response that was acquired is closed exactly once.                    *)
THEOREM ResponseClosedOnce == Spec => []ClosedOnce
BY ExchangeAlways, PTL DEF ExchangeInv

(* HEALTHY is exactly a 405 that allows POST, whose body is empty or broke *)
(* off before its first byte.                                              *)
THEOREM OnlySignatureIsHealthy == Spec => []HealthyIsSignature
BY ExchangeAlways, PTL DEF ExchangeInv

(* No later failure, that of the cleanup least of all, takes the place of  *)
(* the first.                                                              *)
THEOREM FirstFailureWins == Spec => PrimaryFailureWins
<1>1. ExchangeInv /\ [Next]_vars =>
            [failure # "none" => failure' = failure]_vars
    <2> SUFFICES ASSUME ExchangeInv, Next, failure # "none"
                 PROVE  failure' = failure
        OBVIOUS
    <2>1. pc \notin {"connect", "head", "body"}
        BY DEF ExchangeInv, Ownership
    <2> QED BY <2>1 DEF Next, Connect, OpenFails, FailOpen, Opening,
            OpenDefect, PeerActs, ResponseArrives, RedirectUnparsable,
            HeadArrives, ReadSample,
            ReadDefect, ReadFails, FailRead, Close, close_response, Tick,
            Feed, TimedOut
<1> QED BY <1>1, ExchangeAlways, PTL DEF Spec, PrimaryFailureWins

-----------------------------------------------------------------------------
(* The exchange implements one delivery attempt.                           *)

(* The caller is told "delivered" or HEALTHY only when the peer had acted, *)
(* exactly once; the effect of a request that was given up on may still    *)
(* come, but no second one. The fairness half of ImplementsAttempt is      *)
(* model-checked.                                                          *)
THEOREM ExchangeImplementsAttempt == Spec => Attempt!Spec
<1>1. Init => Attempt!Init
    BY DEF Init, Attempt!Init
<1>2. ExchangeInv /\ [Next]_vars => [Attempt!Next]_(Attempt!vars)
    <2> SUFFICES ASSUME ExchangeInv, [Next]_vars
                 PROVE  [Attempt!Next]_(Attempt!vars)
        OBVIOUS
    <2>0. /\ TypeOK /\ AtMostOneEffect /\ Ownership /\ ConfirmedByPeer
          /\ Judged
        BY DEF ExchangeInv
    <2>1. ASSUME UNCHANGED <<effects, result>>
          PROVE  [Attempt!Next]_(Attempt!vars)
        BY <2>1 DEF Attempt!vars
    <2>2. ASSUME UNCHANGED effects, pc # "done",
                 result' \in {"DeliveryError", "FAILED", "defect"}
          PROVE  [Attempt!Next]_(Attempt!vars)
        <3>1. result = "running"
            BY <2>0, <2>2 DEF Ownership
        <3>2. Attempt!Fail
            BY <2>2, <3>1 DEF Attempt!Fail
        <3> QED BY <3>2 DEF Attempt!Next
    <2>3. CASE PeerActs
        <3>1. effects = 0 /\ effects' = 1 /\ result' = result
            BY <2>0, <2>3 DEF PeerActs, TypeOK, AtMostOneEffect
        <3>2. Attempt!TakeEffect
            BY <3>1 DEF Attempt!TakeEffect
        <3> QED BY <3>2 DEF Attempt!Next
    <2>4. ASSUME NEW raises \in BOOLEAN, Close(raises)
          PROVE  [Attempt!Next]_(Attempt!vars)
        <3>1. /\ pc = "close" /\ effects' = effects
              /\ failure' = close_response(raises)
              /\ result' = Verdict(failure')
            BY <2>4 DEF Close
        <3>2. CASE failure' # "none"
            <4>1. result' \in {"DeliveryError", "FAILED"}
                BY <3>1, <3>2 DEF Verdict
            <4> QED BY <2>2, <3>1, <4>1
        <3>3. CASE failure' = "none"
            <4>1. failure = "none"
                BY <3>1, <3>3 DEF close_response
            <4>2. Confirmation(reply)
                BY <2>0, <3>1, <4>1 DEF Judged, Confirmation, TypeOK
            <4>3. effects = 1
                BY <2>0, <3>1, <4>2
                DEF ConfirmedByPeer, AtMostOneEffect, TypeOK
            <4>4. result = "running" /\ result' \in {"delivered", "HEALTHY"}
                BY <2>0, <3>1, <3>3 DEF Ownership, Verdict
            <4>5. Attempt!Confirm
                BY <3>1, <4>3, <4>4 DEF Attempt!Confirm
            <4> QED BY <4>5 DEF Attempt!Next
        <3> QED BY <3>2, <3>3
    <2>5. CASE OpenFails \/ TimedOut \/ ReadFails
        <3>1. CASE UNCHANGED <<effects, result>>
            BY <2>1, <3>1
        <3>2. CASE /\ UNCHANGED effects /\ pc # "done"
                   /\ result' \in {"DeliveryError", "FAILED"}
            BY <2>2, <3>2
        <3> QED BY <2>5, <3>1, <3>2 DEF OpenFails, TimedOut, ReadFails,
                   FailOpen, FailRead, Opening
    <2>6. CASE \E r \in Reply(kind) : ResponseArrives(r) \/ RedirectUnparsable(r)
        BY <2>1, <2>2, <2>6 DEF ResponseArrives, RedirectUnparsable,
                                HeadArrives
    <2>7. CASE OpenDefect \/ ReadDefect
        BY <2>2, <2>7 DEF OpenDefect, ReadDefect
    <2>8. CASE \/ Connect \/ Tick \/ Feed
               \/ \E raw \in Body(kind) : ReadSample(raw)
        BY <2>1, <2>8 DEF Connect, Tick, Feed, ReadSample
    <2>9. CASE UNCHANGED vars
        BY <2>1, <2>9 DEF vars
    <2> QED BY <2>3, <2>4, <2>5, <2>6, <2>7, <2>8, <2>9 DEF Next
<1> QED BY <1>1, <1>2, ExchangeAlways, PTL DEF Spec, Attempt!Spec
=============================================================================
