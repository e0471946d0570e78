------------------------ MODULE DeadManStatusProofs ------------------------
(***************************************************************************)
(* What the dead-man core preserves: every status it builds from a valid   *)
(* one is again a status the constructor accepts.                          *)
(***************************************************************************)
EXTENDS DeadManStatus, SequenceTheorems, TLAPS

(* A well-typed status that the constructor accepts.                       *)
GoodStatus(s) == s \in DeadManStatusType /\ ValidStatus(s)

(* The fresh start (INITIAL_DEADMAN_STATUS) is a good status.              *)
LEMMA InitialGood == GoodStatus(INITIAL_DEADMAN_STATUS)
<1>1. INITIAL_DEADMAN_STATUS \in DeadManStatusType
    BY DEF INITIAL_DEADMAN_STATUS, DeadManStatusType, DeadManState,
           DeadManCurrentDown, NoDown, NoTime
<1>2. ValidStatus(INITIAL_DEADMAN_STATUS)
    BY ConfirmationsAssumption
    DEF INITIAL_DEADMAN_STATUS, ValidStatus, DebounceCanonical,
        LedgerContiguous, KindGrammar, LedgerTimeSane, UnknownIsInitial,
        OutageBinding, NoDown, NoTime
<1> QED BY <1>1, <1>2 DEF GoodStatus

(* Confirming an outage (the last branch of _advance_failure) from a good  *)
(* status that is not DOWN yields a good status.                           *)
LEMMA EnterDownGood ==
    ASSUME NEW s, GoodStatus(s), s.state # "DOWN",
           NEW now \in Nat, ~ClockBehind(s, now)
    PROVE  GoodStatus(EnterDown(s, now))
<1> DEFINE p == s.pending_notifications
           n == NewNotification(s, "DOWN", "DOWN", now)
           t == EnterDown(s, now)
           q == Append(p, n)
<1>1. /\ s \in DeadManStatusType
      /\ ValidStatus(s)
      /\ p \in Seq(DeadManNotification)
      /\ s.next_notification_id \in Nat /\ s.next_notification_id >= 1
      /\ s.state \in {"UNKNOWN", "UP"}
      /\ s.state_changed_at \in Int /\ s.state_changed_at <= now
    BY DEF GoodStatus, DeadManStatusType, ValidStatus, DeadManState,
           ClockBehind, NoTime
<1>2. n \in DeadManNotification /\ ValidNotification(n)
    BY <1>1 DEF NewNotification, DeadManNotification, ValidNotification,
                DeadManNotificationKind, DeadManState, CanonicalTransitions
<1>3. /\ q \in Seq(DeadManNotification)
      /\ Len(q) = Len(p) + 1
      /\ Len(p) \in Nat
      /\ q[Len(p) + 1] = n
      /\ \A i \in 1..Len(p) : q[i] = p[i]
    BY <1>1, <1>2
<1>4. /\ t.state = "DOWN" /\ t.consecutive_failures = 0
      /\ t.consecutive_successes = 0 /\ t.state_changed_at = now
      /\ t.pending_notifications = q
      /\ t.next_notification_id = s.next_notification_id + 1
      /\ t.current_down = [notification_id |-> s.next_notification_id,
                           acknowledged |-> FALSE]
    BY DEF EnterDown
<1>5. t \in DeadManStatusType
    BY <1>1, <1>3 DEF EnterDown, DeadManStatusType, DeadManState,
                      DeadManCurrentDown
<1>6. \A i \in 1..Len(q) : ValidNotification(q[i])
    BY <1>1, <1>2, <1>3 DEF ValidStatus
<1>7. DebounceCanonical(t)
    BY <1>4, ConfirmationsAssumption DEF DebounceCanonical
<1>a. \A i \in 1..Len(p) :
            /\ p[i].notification_id = s.next_notification_id - 1 - Len(p) + i
            /\ p[i].kind = "RECOVERED" => i = 1
            /\ p[i].at \in Nat /\ p[i].at <= s.state_changed_at
    <2>1. \A i \in 1..Len(p) : p[i] \in DeadManNotification
        BY <1>1
    <2> QED BY <2>1, <1>1 DEF ValidStatus, LedgerContiguous, KindGrammar,
                              LedgerTimeSane, DeadManNotification
<1>b. /\ n.notification_id = s.next_notification_id
      /\ n.kind = "DOWN" /\ n.at = now
    BY DEF NewNotification
<1> HIDE DEF p, q, n, t
<1>8. LedgerContiguous(t)
    <2> SUFFICES ASSUME NEW i \in 1..Len(q)
                 PROVE  q[i].notification_id =
                            s.next_notification_id - Len(q) + i
        BY <1>1, <1>3, <1>4 DEF LedgerContiguous
    <2>1. CASE i \in 1..Len(p)
        BY <2>1, <1>1, <1>3, <1>a
    <2>2. CASE i = Len(p) + 1
        BY <2>2, <1>1, <1>3, <1>b
    <2> QED BY <2>1, <2>2, <1>3
<1>9. KindGrammar(t)
    BY <1>3, <1>4, <1>a, <1>b DEF KindGrammar
<1>10. LedgerTimeSane(t)
    <2> SUFFICES ASSUME NEW i \in 1..Len(q)
                 PROVE  q[i].at <= now
        BY <1>4 DEF LedgerTimeSane
    <2>1. CASE i \in 1..Len(p)
        <3>1. q[i] = p[i]
            BY <2>1, <1>1, <1>3
        <3>2. p[i].at \in Nat /\ p[i].at <= s.state_changed_at
            BY <2>1, <1>a
        <3> QED BY <3>1, <3>2, <1>1
    <2>2. CASE i = Len(p) + 1
        BY <2>2, <1>3, <1>b
    <2> QED BY <2>1, <2>2, <1>3
<1>11. UnknownIsInitial(t)
    BY <1>4 DEF UnknownIsInitial, NoTime
<1>12. OutageBinding(t)
    BY <1>1, <1>3, <1>4, <1>b DEF OutageBinding
<1> QED BY <1>1, <1>4, <1>5, <1>6, <1>7, <1>8, <1>9, <1>10, <1>11, <1>12
        DEF GoodStatus, ValidStatus, t

(* Confirming a recovery (the last branch of _advance_success) yields a    *)
(* good status, whether or not the outage was acknowledged.                *)
LEMMA LeaveDownGood ==
    ASSUME NEW s, GoodStatus(s), s.state = "DOWN",
           NEW now \in Nat, ~ClockBehind(s, now)
    PROVE  GoodStatus(LeaveDown(s, now))
<1> DEFINE p == s.pending_notifications
           n == NewNotification(s, "RECOVERED", "UP", now)
           t == LeaveDown(s, now)
<1>1. /\ s \in DeadManStatusType
      /\ ValidStatus(s)
      /\ p \in Seq(DeadManNotification)
      /\ s.next_notification_id \in Nat /\ s.next_notification_id >= 2
      /\ s.state_changed_at \in Int /\ s.state_changed_at <= now
      /\ s.current_down.acknowledged \in BOOLEAN
    BY DEF GoodStatus, DeadManStatusType, ValidStatus, OutageBinding,
           DeadManCurrentDown, ClockBehind, NoTime
<1>2. CASE s.current_down.acknowledged
    <2>1. p = <<>>
        BY <1>1, <1>2 DEF ValidStatus, OutageBinding
    <2>2. n \in DeadManNotification /\ ValidNotification(n)
        BY <1>1 DEF NewNotification, DeadManNotification, ValidNotification,
                    DeadManNotificationKind, DeadManState,
                    CanonicalTransitions
    <2>3. t = [state |-> "UP", consecutive_failures |-> 0,
               consecutive_successes |-> 0, state_changed_at |-> now,
               pending_notifications |-> <<n>>,
               next_notification_id |-> s.next_notification_id + 1,
               current_down |-> NoDown]
        BY <1>2, <2>1 DEF LeaveDown
    <2>4. n.notification_id = s.next_notification_id /\ n.at = now
        BY DEF NewNotification
    <2> HIDE DEF n, t
    <2>5. t \in DeadManStatusType
        BY <1>1, <2>2, <2>3 DEF DeadManStatusType, DeadManState,
                                DeadManCurrentDown, NoDown
    <2>6. ValidStatus(t)
        BY <1>1, <2>2, <2>3, <2>4, ConfirmationsAssumption
        DEF ValidStatus, DebounceCanonical, LedgerContiguous, KindGrammar,
            LedgerTimeSane, UnknownIsInitial, OutageBinding, NoTime
    <2> QED BY <2>5, <2>6 DEF GoodStatus, t
<1>3. CASE ~s.current_down.acknowledged
    <2>1. t = [state |-> "UP", consecutive_failures |-> 0,
               consecutive_successes |-> 0, state_changed_at |-> now,
               pending_notifications |-> p,
               next_notification_id |-> s.next_notification_id,
               current_down |-> NoDown]
        BY <1>3 DEF LeaveDown
    <2>2. \A i \in 1..Len(p) : /\ p[i].at \in Nat
                               /\ p[i].at <= s.state_changed_at
        <3>1. \A i \in 1..Len(p) : p[i] \in DeadManNotification
            BY <1>1
        <3> QED BY <1>1, <3>1 DEF DeadManNotification, ValidStatus,
                                  LedgerTimeSane
    <2>3. /\ \A i \in 1..Len(p) : ValidNotification(p[i])
          /\ LedgerContiguous(s) /\ KindGrammar(s)
        BY <1>1 DEF ValidStatus
    <2>4. LedgerTimeSane(t)
        BY <1>1, <2>1, <2>2 DEF LedgerTimeSane
    <2>5. t \in DeadManStatusType
        BY <1>1, <2>1 DEF DeadManStatusType, DeadManState,
                          DeadManCurrentDown, NoDown
    <2> HIDE DEF t
    <2>6. ValidStatus(t)
        BY <1>1, <2>1, <2>3, <2>4, ConfirmationsAssumption
        DEF ValidStatus, DebounceCanonical, LedgerContiguous, KindGrammar,
            UnknownIsInitial, OutageBinding, NoTime
    <2> QED BY <2>5, <2>6 DEF GoodStatus, t
<1> QED BY <1>1, <1>2, <1>3

(* Moving only the streaks keeps a status good when they stay canonical.   *)
LEMMA StreaksGood ==
    ASSUME NEW s, GoodStatus(s), NEW f \in Nat, NEW g \in Nat,
           s.state = "DOWN" => f = 0 /\ g < RECOVERY_CONFIRMATIONS,
           s.state # "DOWN" => g = 0 /\ f < DOWN_CONFIRMATIONS,
           NEW t, t = [s EXCEPT !.consecutive_failures = f,
                                !.consecutive_successes = g]
    PROVE  GoodStatus(t)
<1>1. s \in DeadManStatusType /\ ValidStatus(s)
    BY DEF GoodStatus
<1>2. t \in DeadManStatusType
    BY <1>1 DEF DeadManStatusType
<1>3. /\ t.state = s.state
      /\ t.consecutive_failures = f
      /\ t.consecutive_successes = g
      /\ t.state_changed_at = s.state_changed_at
      /\ t.next_notification_id = s.next_notification_id
      /\ t.pending_notifications = s.pending_notifications
      /\ t.current_down = s.current_down
    BY <1>1 DEF DeadManStatusType
<1>4. ValidStatus(t)
    <2>1. DebounceCanonical(t)
        BY <1>3 DEF DebounceCanonical
    <2>2. LedgerContiguous(t) /\ KindGrammar(t) /\ LedgerTimeSane(t)
        BY <1>1, <1>3 DEF ValidStatus, LedgerContiguous, KindGrammar,
                          LedgerTimeSane
    <2>3. UnknownIsInitial(t) /\ OutageBinding(t)
        BY <1>1, <1>3 DEF ValidStatus, UnknownIsInitial, OutageBinding
    <2> QED BY <1>1, <1>3, <2>1, <2>2, <2>3 DEF ValidStatus
<1> QED BY <1>2, <1>4 DEF GoodStatus

(* One healthy outcome (_advance_success) keeps a status good.             *)
LEMMA SuccessGood ==
    ASSUME NEW s, GoodStatus(s), NEW now \in Nat, ~ClockBehind(s, now)
    PROVE  GoodStatus(advance_success(s, now))
<1>1. s \in DeadManStatusType /\ ValidStatus(s)
    BY DEF GoodStatus
<1>2. CASE s.state = "UNKNOWN"
    <2>1. advance_success(s, now) =
            [s EXCEPT !.state = "UP", !.consecutive_failures = 0,
                      !.consecutive_successes = 0,
                      !.state_changed_at = now]
        BY <1>2 DEF advance_success
    <2> DEFINE t == advance_success(s, now)
    <2>2. /\ s.pending_notifications = <<>> /\ s.current_down = NoDown
          /\ s.next_notification_id >= 1
        BY <1>1, <1>2 DEF ValidStatus, UnknownIsInitial, OutageBinding
    <2>3. t \in DeadManStatusType
        <3>1. now \in Nat \cup {NoTime} /\ 0 \in Nat /\ "UP" \in DeadManState
            BY DEF DeadManState
        <3> QED BY <1>1, <2>1, <3>1 DEF DeadManStatusType
    <2>4. /\ t.state = "UP" /\ t.consecutive_failures = 0
          /\ t.consecutive_successes = 0 /\ t.state_changed_at = now
          /\ t.next_notification_id = s.next_notification_id
          /\ t.pending_notifications = <<>> /\ t.current_down = NoDown
        BY <1>1, <2>1, <2>2 DEF DeadManStatusType
    <2> HIDE DEF t
    <2>5. ValidStatus(t)
        BY <2>2, <2>4, ConfirmationsAssumption
        DEF ValidStatus, DebounceCanonical, LedgerContiguous, KindGrammar,
            LedgerTimeSane, UnknownIsInitial, OutageBinding, NoTime
    <2> QED BY <2>3, <2>5 DEF GoodStatus, t
<1>3. CASE s.state = "UP"
    <2>1. advance_success(s, now) =
            [s EXCEPT !.consecutive_failures = 0,
                      !.consecutive_successes = 0]
        BY <1>3 DEF advance_success
    <2>2. 0 \in Nat /\ 0 < DOWN_CONFIRMATIONS
        BY ConfirmationsAssumption
    <2> QED BY <1>3, <2>1, <2>2, StreaksGood, Zenon
<1>4. CASE s.state = "DOWN"
    <2>1. CASE s.consecutive_successes + 1 < RECOVERY_CONFIRMATIONS
        <3> DEFINE g == s.consecutive_successes + 1
        <3>1. advance_success(s, now) =
                [s EXCEPT !.consecutive_failures = 0,
                          !.consecutive_successes = g]
            BY <1>4, <2>1 DEF advance_success
        <3>2. g \in Nat /\ g < RECOVERY_CONFIRMATIONS
            BY <1>1, <2>1 DEF DeadManStatusType
        <3> HIDE DEF g
        <3>3. 0 \in Nat
            OBVIOUS
        <3> QED BY <1>4, <3>1, <3>2, <3>3, StreaksGood, Zenon
    <2>2. CASE ~(s.consecutive_successes + 1 < RECOVERY_CONFIRMATIONS)
        BY <1>4, <2>2, LeaveDownGood DEF advance_success
    <2> QED BY <2>1, <2>2
<1> QED BY <1>1, <1>2, <1>3, <1>4 DEF DeadManStatusType, DeadManState

(* One failed outcome (_advance_failure) keeps a status good.              *)
LEMMA FailureGood ==
    ASSUME NEW s, GoodStatus(s), NEW now \in Nat, ~ClockBehind(s, now)
    PROVE  GoodStatus(advance_failure(s, now))
<1>1. s \in DeadManStatusType /\ ValidStatus(s)
    BY DEF GoodStatus
<1>2. CASE s.state = "DOWN"
    <2>1. advance_failure(s, now) =
            [s EXCEPT !.consecutive_failures = 0,
                      !.consecutive_successes = 0]
        BY <1>2 DEF advance_failure
    <2>2. 0 \in Nat /\ 0 < RECOVERY_CONFIRMATIONS
        BY ConfirmationsAssumption
    <2> QED BY <1>2, <2>1, <2>2, StreaksGood, Zenon
<1>3. CASE /\ s.state # "DOWN"
           /\ s.consecutive_failures + 1 < DOWN_CONFIRMATIONS
    <2> DEFINE f == s.consecutive_failures + 1
    <2>1. advance_failure(s, now) =
            [s EXCEPT !.consecutive_failures = f,
                      !.consecutive_successes = 0]
        BY <1>3 DEF advance_failure
    <2>2. f \in Nat /\ f < DOWN_CONFIRMATIONS
        BY <1>1, <1>3 DEF DeadManStatusType
    <2> HIDE DEF f
    <2>3. 0 \in Nat
        OBVIOUS
    <2> QED BY <1>3, <2>1, <2>2, <2>3, StreaksGood, Zenon
<1>4. CASE /\ s.state # "DOWN"
           /\ ~(s.consecutive_failures + 1 < DOWN_CONFIRMATIONS)
    BY <1>4, EnterDownGood DEF advance_failure
<1> QED BY <1>2, <1>3, <1>4

(* advance_deadman_status never makes the constructor raise: from every    *)
(* valid status, with every outcome and every clock that does not lag, the *)
(* next status is valid again.                                             *)
THEOREM AdvanceGood ==
    ASSUME NEW s, GoodStatus(s), NEW outcome,
           NEW now \in Nat, ~ClockBehind(s, now)
    PROVE  GoodStatus(advance_deadman_status(s, outcome, now))
BY SuccessGood, FailureGood DEF advance_deadman_status

(* acknowledge_deadman_notification of the oldest intent never makes the   *)
(* constructor raise.                                                      *)
THEOREM AcknowledgeGood ==
    ASSUME NEW s, GoodStatus(s), s.pending_notifications # <<>>
    PROVE  LET oldest == Head(s.pending_notifications)
           IN  /\ CanAcknowledge(s, oldest.notification_id)
               /\ GoodStatus(acknowledge_deadman_notification(
                                s, oldest.notification_id))
<1> DEFINE p == s.pending_notifications
           id == Head(p).notification_id
           t == acknowledge_deadman_notification(s, id)
           q == Tail(p)
           c == IF s.current_down # NoDown
                   /\ s.current_down.notification_id = id
                THEN [s.current_down EXCEPT !.acknowledged = TRUE]
                ELSE s.current_down
<1>1. /\ s \in DeadManStatusType
      /\ ValidStatus(s)
      /\ p \in Seq(DeadManNotification) /\ p # <<>>
      /\ s.next_notification_id \in Nat
      /\ s.current_down \in DeadManCurrentDown
    BY DEF GoodStatus, DeadManStatusType
<1>2. /\ q \in Seq(DeadManNotification)
      /\ Len(p) \in Nat /\ Len(p) >= 1
      /\ Len(q) = Len(p) - 1
      /\ \A i \in 1..Len(q) : q[i] = p[i + 1]
      /\ Head(p) = p[1]
    BY <1>1
<1>3. id = s.next_notification_id - Len(p)
    BY <1>1, <1>2 DEF ValidStatus, LedgerContiguous
<1>l. q = <<>> <=> Len(q) = 0
    BY <1>2, EmptySeq
<1>4. t = [s EXCEPT !.pending_notifications = q, !.current_down = c]
    BY DEF acknowledge_deadman_notification
<1>5. /\ c \in DeadManCurrentDown
      /\ c.notification_id = s.current_down.notification_id
    BY <1>1 DEF DeadManCurrentDown
<1>6. t \in DeadManStatusType
    BY <1>1, <1>2, <1>4, <1>5 DEF DeadManStatusType
<1>7. /\ t.state = s.state
      /\ t.consecutive_failures = s.consecutive_failures
      /\ t.consecutive_successes = s.consecutive_successes
      /\ t.state_changed_at = s.state_changed_at
      /\ t.next_notification_id = s.next_notification_id
      /\ t.pending_notifications = q
      /\ t.current_down = c
    BY <1>1, <1>4 DEF DeadManStatusType
<1>8. \A i \in 1..Len(q) :
            /\ i + 1 \in 1..Len(p)
            /\ ValidNotification(q[i])
            /\ q[i].notification_id =
                    s.next_notification_id - 1 - Len(p) + (i + 1)
            /\ q[i].kind # "RECOVERED"
            /\ q[i].at <= s.state_changed_at
    <2> SUFFICES ASSUME NEW i \in 1..Len(q)
                 PROVE  /\ i + 1 \in 1..Len(p)
                        /\ ValidNotification(p[i + 1])
                        /\ p[i + 1].notification_id =
                                s.next_notification_id - 1 - Len(p) + (i + 1)
                        /\ p[i + 1].kind # "RECOVERED"
                        /\ p[i + 1].at <= s.state_changed_at
        BY <1>2
    <2>1. i + 1 \in 1..Len(p) /\ i + 1 # 1
        BY <1>2
    <2> QED BY <1>1, <2>1 DEF ValidStatus, LedgerContiguous, KindGrammar,
                              LedgerTimeSane
<1>9. /\ s.state = "UNKNOWN" <=> s.state_changed_at = NoTime
      /\ s.state # "UNKNOWN"
    BY <1>1 DEF ValidStatus, UnknownIsInitial
<1> HIDE DEF p, q, id
<1>10. OutageBinding(t)
    <2>1. CASE s.state # "DOWN"
        BY <1>1, <1>7, <2>1 DEF ValidStatus, OutageBinding
    <2>2. CASE s.state = "DOWN"
        <3>1. /\ s.current_down.notification_id = s.next_notification_id - 1
              /\ s.current_down.notification_id >= 1
              /\ ~s.current_down.acknowledged
              /\ p[Len(p)].notification_id = s.current_down.notification_id
              /\ p[Len(p)].kind = "DOWN"
              /\ p[Len(p)].at = s.state_changed_at
            BY <1>1, <2>2 DEF ValidStatus, OutageBinding, p
        <3>2. CASE Len(p) = 1
            <4>0. id = s.current_down.notification_id
                BY <1>3, <3>1, <3>2
            <4>1. c.acknowledged
                BY <1>1, <3>1, <4>0 DEF DeadManCurrentDown, NoDown
            <4>2. q = <<>>
                BY <1>2, <1>l, <3>2
            <4> HIDE DEF q, c, t
            <4> QED BY <1>5, <1>7, <2>2, <3>1, <4>1, <4>2 DEF OutageBinding
        <3>3. CASE Len(p) # 1
            <4>0. id # s.current_down.notification_id
                BY <1>1, <1>2, <1>3, <3>1, <3>3
            <4>1. c = s.current_down
                BY <4>0
            <4>a. Len(q) \in 1..Len(q) /\ Len(q) + 1 = Len(p)
                BY <1>2, <3>3
            <4>2. q # <<>> /\ q[Len(q)] = p[Len(p)]
                BY <1>2, <1>l, <4>a
            <4> HIDE DEF q, c, t
            <4> QED BY <1>7, <2>2, <3>1, <4>1, <4>2 DEF OutageBinding
        <3> QED BY <3>2, <3>3
    <2> QED BY <2>1, <2>2
<1> HIDE DEF t, c
<1>11. ValidStatus(t)
    <2>1. LedgerContiguous(t)
        <3> SUFFICES ASSUME NEW i \in 1..Len(q)
                     PROVE  q[i].notification_id =
                                s.next_notification_id - 1 - Len(q) + i
            BY <1>7 DEF LedgerContiguous
        <3> QED BY <1>1, <1>2, <1>8
    <2>2. KindGrammar(t) /\ LedgerTimeSane(t)
        BY <1>7, <1>8 DEF KindGrammar, LedgerTimeSane
    <2>3. UnknownIsInitial(t)
        BY <1>7, <1>9 DEF UnknownIsInitial
    <2>4. DebounceCanonical(t) /\ t.next_notification_id >= 1
        BY <1>1, <1>7 DEF ValidStatus, DebounceCanonical
    <2> QED BY <1>7, <1>8, <1>10, <2>1, <2>2, <2>3, <2>4 DEF ValidStatus
<1>12. CanAcknowledge(s, id)
    BY <1>1 DEF CanAcknowledge, id, p
<1> QED BY <1>6, <1>11, <1>12 DEF GoodStatus, t, id, p
=============================================================================
