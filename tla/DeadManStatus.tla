--------------------------- MODULE DeadManStatus ---------------------------
(***************************************************************************)
(* The pure dead-man core (src/hermes_sentinel/deadman.py): the canonical  *)
(* status snapshot, the debounce machine that advances it by one           *)
(* classified probe outcome, and the oldest-first acknowledgement of its   *)
(* pending notification intents.                                           *)
(*                                                                         *)
(* A datetime is a natural number; None is NoTime (before every instant,   *)
(* so the guard "anchor is not None and now < anchor" is now < anchor).    *)
(* An absent current_down is NoDown, whose id no intent has.               *)
(*                                                                         *)
(* The constructor's check (__post_init__) is the predicate ValidStatus.   *)
(* The operators below do NOT apply it to their results: that a step never *)
(* makes the constructor raise is a property to check and prove, and a     *)
(* guard would hide it.                                                    *)
(***************************************************************************)
EXTENDS Integers, Sequences

CONSTANTS DOWN_CONFIRMATIONS,      \* failures that confirm DOWN (3)
          RECOVERY_CONFIRMATIONS   \* successes that confirm recovery (2)

ASSUME ConfirmationsAssumption ==
    /\ DOWN_CONFIRMATIONS \in Nat \ {0}
    /\ RECOVERY_CONFIRMATIONS \in Nat \ {0}

DeadManState == {"UNKNOWN", "UP", "DOWN"}

DeadManNotificationKind == {"DOWN", "RECOVERED"}

NoTime == -1

NoDown == [notification_id |-> 0, acknowledged |-> FALSE]

DeadManNotification ==
    [notification_id : Nat, kind : DeadManNotificationKind,
     from_state : DeadManState, to_state : DeadManState, at : Nat]

DeadManCurrentDown == [notification_id : Nat, acknowledged : BOOLEAN]

DeadManStatusType ==
    [state : DeadManState,
     consecutive_failures : Nat,
     consecutive_successes : Nat,
     state_changed_at : Nat \cup {NoTime},
     pending_notifications : Seq(DeadManNotification),
     next_notification_id : Nat,
     current_down : DeadManCurrentDown]

INITIAL_DEADMAN_STATUS ==
    [state |-> "UNKNOWN",
     consecutive_failures |-> 0,
     consecutive_successes |-> 0,
     state_changed_at |-> NoTime,
     pending_notifications |-> <<>>,
     next_notification_id |-> 1,
     current_down |-> NoDown]

-----------------------------------------------------------------------------
(* What the constructors accept.                                           *)

CanonicalTransitions ==
    {<<"UNKNOWN", "DOWN">>, <<"UP", "DOWN">>, <<"DOWN", "UP">>}

ValidNotification(n) ==
    /\ n.notification_id >= 1
    /\ <<n.from_state, n.to_state>> \in CanonicalTransitions
    /\ n.kind = "DOWN" => n.to_state = "DOWN"
    /\ n.kind = "RECOVERED" => n.from_state = "DOWN" /\ n.to_state = "UP"
    /\ n.kind = "RECOVERED" => n.notification_id # 1

\* A streak at its threshold is never a resting state.
DebounceCanonical(s) ==
    IF s.state = "DOWN"
    THEN s.consecutive_failures = 0
         /\ s.consecutive_successes < RECOVERY_CONFIRMATIONS
    ELSE s.consecutive_successes = 0
         /\ s.consecutive_failures < DOWN_CONFIRMATIONS

\* The pending ids are a contiguous suffix of the allocated ids.
LedgerContiguous(s) ==
    LET pending == s.pending_notifications
    IN  \A i \in 1..Len(pending) :
            pending[i].notification_id =
                s.next_notification_id - 1 - Len(pending) + i

\* The pending kinds are RECOVERED? DOWN*.
KindGrammar(s) ==
    \A i \in 1..Len(s.pending_notifications) :
        s.pending_notifications[i].kind = "RECOVERED" => i = 1

LedgerTimeSane(s) ==
    \A i \in 1..Len(s.pending_notifications) :
        s.pending_notifications[i].at <= s.state_changed_at

UnknownIsInitial(s) ==
    /\ s.state = "UNKNOWN" <=> s.state_changed_at = NoTime
    /\ s.state = "UNKNOWN" => /\ s.pending_notifications = <<>>
                              /\ s.next_notification_id = 1

\* The current outage is bound to the id its entry allocated: either that
\* DOWN intent is still the pending tail, or everything was acknowledged.
OutageBinding(s) ==
    LET current == s.current_down
        pending == s.pending_notifications
        tail == pending[Len(pending)]
    IN  IF s.state # "DOWN"
        THEN current = NoDown
        ELSE /\ current.notification_id = s.next_notification_id - 1
             /\ current.notification_id >= 1
             /\ current.acknowledged => pending = <<>>
             /\ ~current.acknowledged =>
                    /\ pending # <<>>
                    /\ tail.notification_id = current.notification_id
                    /\ tail.kind = "DOWN"
                    /\ tail.at = s.state_changed_at

ValidStatus(s) ==
    /\ s.next_notification_id >= 1
    /\ \A i \in 1..Len(s.pending_notifications) :
            ValidNotification(s.pending_notifications[i])
    /\ DebounceCanonical(s)
    /\ LedgerContiguous(s)
    /\ KindGrammar(s)
    /\ LedgerTimeSane(s)
    /\ UnknownIsInitial(s)
    /\ OutageBinding(s)

-----------------------------------------------------------------------------
(* The debounce machine.                                                   *)

NewNotification(s, kind, to_state, now) ==
    [notification_id |-> s.next_notification_id, kind |-> kind,
     from_state |-> s.state, to_state |-> to_state, at |-> now]

\* Mutant: RECOVERED even for an outage nobody was told of.
LeaveDownAnnounced(s, now) ==
    [state |-> "UP",
     consecutive_failures |-> 0,
     consecutive_successes |-> 0,
     state_changed_at |-> now,
     pending_notifications |->
        Append(s.pending_notifications,
               NewNotification(s, "RECOVERED", "UP", now)),
     next_notification_id |-> s.next_notification_id + 1,
     current_down |-> NoDown]

\* A healthy outcome that completes the recovery. Only an acknowledged
\* outage gets a RECOVERED intent; an unacknowledged DOWN stays pending.
LeaveDown(s, now) ==
    LET acknowledged == s.current_down.acknowledged
    IN  [state |-> "UP",
         consecutive_failures |-> 0,
         consecutive_successes |-> 0,
         state_changed_at |-> now,
         pending_notifications |->
            IF acknowledged
            THEN Append(s.pending_notifications,
                        NewNotification(s, "RECOVERED", "UP", now))
            ELSE s.pending_notifications,
         next_notification_id |->
            IF acknowledged THEN s.next_notification_id + 1
                            ELSE s.next_notification_id,
         current_down |-> NoDown]

\* Mutant: the first healthy outcome ends the outage.
advance_success_unconfirmed(s, now) ==
    IF s.state = "DOWN"
    THEN LeaveDown(s, now)
    ELSE [s EXCEPT !.state = "UP",
                   !.consecutive_failures = 0,
                   !.state_changed_at = IF s.state = "UP" THEN @ ELSE now]

advance_success(s, now) ==
    CASE s.state = "UNKNOWN" ->
            [s EXCEPT !.state = "UP",
                      !.consecutive_failures = 0,
                      !.consecutive_successes = 0,
                      !.state_changed_at = now]
      [] s.state = "UP" ->
            [s EXCEPT !.consecutive_failures = 0,
                      !.consecutive_successes = 0]
      [] s.state = "DOWN" ->
            IF s.consecutive_successes + 1 < RECOVERY_CONFIRMATIONS
            THEN [s EXCEPT !.consecutive_failures = 0,
                           !.consecutive_successes = @ + 1]
            ELSE LeaveDown(s, now)

\* Mutant: the new intent replaces the backlog.
EnterDownForgetting(s, now) ==
    [state |-> "DOWN",
     consecutive_failures |-> 0,
     consecutive_successes |-> 0,
     state_changed_at |-> now,
     pending_notifications |-> <<NewNotification(s, "DOWN", "DOWN", now)>>,
     next_notification_id |-> s.next_notification_id + 1,
     current_down |-> [notification_id |-> s.next_notification_id,
                       acknowledged |-> FALSE]]

\* The failed outcome that confirms the outage: one DOWN intent, bound to
\* the outage, behind whatever is still pending.
EnterDown(s, now) ==
    [state |-> "DOWN",
     consecutive_failures |-> 0,
     consecutive_successes |-> 0,
     state_changed_at |-> now,
     pending_notifications |->
        Append(s.pending_notifications,
               NewNotification(s, "DOWN", "DOWN", now)),
     next_notification_id |-> s.next_notification_id + 1,
     current_down |-> [notification_id |-> s.next_notification_id,
                       acknowledged |-> FALSE]]

\* Mutant: the threshold is compared before the increment.
advance_failure_late(s, now) ==
    IF s.state = "DOWN"
    THEN [s EXCEPT !.consecutive_successes = 0]
    ELSE IF s.consecutive_failures < DOWN_CONFIRMATIONS
    THEN [s EXCEPT !.consecutive_failures = @ + 1]
    ELSE EnterDown(s, now)

advance_failure(s, now) ==
    IF s.state = "DOWN"
    THEN [s EXCEPT !.consecutive_failures = 0,
                   !.consecutive_successes = 0]
    ELSE IF s.consecutive_failures + 1 < DOWN_CONFIRMATIONS
    THEN [s EXCEPT !.consecutive_failures = @ + 1,
                   !.consecutive_successes = 0]
    ELSE EnterDown(s, now)

\* Mutant: any clock will do.
ClockAccepted(s, now) == FALSE

\* The evidence clock moved backwards: the advance raises ValueError.
ClockBehind(s, now) == now < s.state_changed_at

advance_deadman_status(s, outcome, now) ==
    IF outcome = "HEALTHY" THEN advance_success(s, now)
                           ELSE advance_failure(s, now)

-----------------------------------------------------------------------------
(* Acknowledgement of the oldest pending intent.                           *)

\* Any other id raises ValueError and changes nothing.
CanAcknowledge(s, notification_id) ==
    /\ s.pending_notifications # <<>>
    /\ notification_id = Head(s.pending_notifications).notification_id

\* Mutant: the outage is never marked as announced.
acknowledge_unbound(s, notification_id) ==
    [s EXCEPT !.pending_notifications = Tail(@)]

acknowledge_deadman_notification(s, notification_id) ==
    [s EXCEPT
        !.pending_notifications = Tail(@),
        !.current_down =
            IF @ # NoDown /\ @.notification_id = notification_id
            THEN [@ EXCEPT !.acknowledged = TRUE]
            ELSE @]
=============================================================================
