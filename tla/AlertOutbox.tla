---------------------------- MODULE AlertOutbox ----------------------------
(***************************************************************************)
(* What the dead-man promises its operator, with nothing of how: a log of  *)
(* published alerts that reach the chat in order, at least once, and are   *)
(* acknowledged one by one only after they arrived (deadman_runtime.py,    *)
(* "persist before deliver, ACK after success").                           *)
(***************************************************************************)
EXTENDS Naturals, Sequences

CONSTANT Alert

VARIABLES log,     \* the published alerts, oldest first
          acked,   \* how many of them are acknowledged
          chat,    \* what the operator has received
          told     \* how many alerts the operator has received

outbox == <<log, acked, chat, told>>

Init ==
    /\ log = <<>>
    /\ acked = 0
    /\ chat = {}
    /\ told = 0

Publish ==
    /\ Len(log') = Len(log) + 1
    /\ log' \in Seq(Alert)
    /\ \A i \in 1..Len(log) : log'[i] = log[i]
    /\ UNCHANGED <<acked, chat, told>>

\* Delivers the oldest unacknowledged alert, possibly once more.
Deliver ==
    /\ acked < Len(log)
    /\ told' = acked + 1
    /\ chat' = chat \cup {log[acked + 1]}
    /\ UNCHANGED <<log, acked>>

Acknowledge ==
    /\ acked < told
    /\ acked' = acked + 1
    /\ UNCHANGED <<log, chat, told>>

Next ==
    \/ Publish
    \/ Deliver
    \/ Acknowledge

Spec == Init /\ [][Next]_outbox
=============================================================================
