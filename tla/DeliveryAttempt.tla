--------------------------- MODULE DeliveryAttempt --------------------------
(***************************************************************************)
(* What one call across the network promises its caller. The call asks the *)
(* peer for one effect (a message posted, the endpoint's own answer). The  *)
(* effect happens at most once, at any time or never; the caller is told   *)
(* "confirmed" only after it happened, and "failed" tells it nothing.      *)
(***************************************************************************)
EXTENDS Naturals

VARIABLES effects,   \* how often the peer acted on the call
          verdict    \* what the caller was told

vars == <<effects, verdict>>

Init ==
    /\ effects = 0
    /\ verdict = "pending"

\* Not only while the caller waits: a request it gave up on may still be
\* on its way.
TakeEffect ==
    /\ effects = 0
    /\ effects' = 1
    /\ UNCHANGED verdict

Confirm ==
    /\ verdict = "pending"
    /\ effects = 1
    /\ verdict' = "confirmed"
    /\ UNCHANGED effects

Fail ==
    /\ verdict = "pending"
    /\ verdict' = "failed"
    /\ UNCHANGED effects

Next == TakeEffect \/ Confirm \/ Fail

Spec == Init /\ [][Next]_vars

\* The caller is told something in the end.
FairSpec == Spec /\ WF_vars(Confirm \/ Fail)
=============================================================================
