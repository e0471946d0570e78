------------------------- MODULE DeadManDiskProofs --------------------------
(***************************************************************************)
(* Proofs about the dead-man state file through power losses, for every    *)
(* number of losses and of snapshots the kernel holds back, and about its  *)
(* codec.                                                                  *)
(*                                                                         *)
(* A power loss replaces the file by any of the survivors, so the          *)
(* invariant must hold of each of them as it does of the current file:     *)
(* Sound says of a snapshot what FileInv and StoryInv say of the file.     *)
(* Both grow with what the operator received and never shrink, which is    *)
(* why they outlive a loss. NoIntentLost does not: it counts the chat      *)
(* exactly, and holds of a survivor only because nothing is sent while     *)
(* there is more than one (NameBeforeSend), where directories are synced.  *)
(***************************************************************************)
EXTENDS DeadManDisk, DeadManCycleProofs

(* The document of a notification is accepted, and read as the             *)
(* notification it was written from.                                       *)
LEMMA NotificationRoundTrips ==
    ASSUME NEW n \in DeadManNotification, ValidNotification(n),
           HasUtcForm(n.at)
    PROVE  LET e == encode_notification(n)
               c == Content(e)
               transition == Content(c.transition)
           IN  /\ decode_notification(e)
               /\ n = [notification_id |-> Content(c.notification_id),
                       kind |-> Content(c.kind),
                       from_state |-> Content(transition.from_state),
                       to_state |-> Content(transition.to_state),
                       at |-> Content(transition.at)[1]]
<1> DEFINE e == encode_notification(n)
           c == Content(e)
           v == c.transition
           transition == Content(v)
<1>1. /\ Kind(e) = "object"
      /\ DOMAIN c = NOTIFICATION_FIELDS
      /\ c.notification_id = <<"int", n.notification_id>>
      /\ c.kind = <<"text", n.kind>>
    BY DEF encode_notification, Kind, Content, NOTIFICATION_FIELDS
<1>2. /\ Kind(v) = "object"
      /\ DOMAIN transition = TRANSITION_FIELDS
      /\ transition.from_state = <<"text", n.from_state>>
      /\ transition.to_state = <<"text", n.to_state>>
      /\ transition.at = <<"time", <<n.at, "utc">>>>
    BY DEF encode_notification, Kind, Content, TRANSITION_FIELDS,
           encode_datetime
<1>3. /\ n.notification_id \in Nat /\ n.notification_id >= 1
      /\ n.kind \in DeadManNotificationKind
      /\ n.from_state \in DeadManState /\ n.to_state \in DeadManState
      /\ n = [notification_id |-> n.notification_id, kind |-> n.kind,
              from_state |-> n.from_state, to_state |-> n.to_state,
              at |-> n.at]
    BY DEF DeadManNotification, ValidNotification
<1> HIDE DEF e, c, v, transition
<1>4. decode_transition(v)
    BY <1>2, <1>3 DEF decode_transition, require_exact_keys,
        decode_state_value, decode_datetime, Kind, Content, transition
<1>5. decode_notification(e)
    BY <1>1, <1>3, <1>4 DEF decode_notification, require_exact_keys,
        decode_notification_kind, decode_notification_id, Kind, Content,
        c, v
<1>6. /\ Content(c.notification_id) = n.notification_id
      /\ Content(c.kind) = n.kind
      /\ Content(transition.from_state) = n.from_state
      /\ Content(transition.to_state) = n.to_state
      /\ Content(transition.at)[1] = n.at
    BY <1>1, <1>2 DEF Content
<1> QED BY <1>3, <1>5, <1>6 DEF e, c, v, transition

(* What a valid status is saved as is what it is loaded from: if its times *)
(* have a UTC form, the strict decoder accepts the document the encoder    *)
(* writes, and reads the very status that was written.                     *)
THEOREM CodecRoundTrips ==
    ASSUME NEW s, GoodStatus(s), Encodable(s)
    PROVE  RoundTrips(s)
<1> DEFINE e == Document(s)
           c == Content(e)
           p == s.pending_notifications
           q == Content(c.pending_notifications)
           d == DecodedStatus(c)
<1>1. /\ Kind(e) = "object"
      /\ DOMAIN c = STATE_FIELDS
    BY DEF Document, Kind, Content, STATE_FIELDS
<1>2. /\ c.schema_version = <<"int", SCHEMA_VERSION>>
      /\ c.state = <<"text", s.state>>
      /\ c.consecutive_failures = <<"int", s.consecutive_failures>>
      /\ c.consecutive_successes = <<"int", s.consecutive_successes>>
      /\ c.next_notification_id = <<"int", s.next_notification_id>>
    BY DEF Document, Content
<1>3. c.state_changed_at = IF s.state_changed_at = NoTime THEN Null
                           ELSE <<"time", <<s.state_changed_at, "utc">>>>
    BY DEF Document, Content, encode_datetime, Encodable
<1>4. c.current_down =
        IF s.current_down = NoDown THEN Null
        ELSE <<"object",
               [notification_id |-> <<"int", s.current_down.notification_id>>,
                acknowledged |-> <<"bool", s.current_down.acknowledged>>]>>
    BY DEF Document, Content
<1>5. /\ Kind(c.pending_notifications) = "array"
      /\ q = [i \in 1..Len(p) |-> encode_notification(p[i])]
    BY DEF Document, Content, Kind
<1>6. /\ s.state \in DeadManState
      /\ s.consecutive_failures \in Nat /\ s.consecutive_successes \in Nat
      /\ s.next_notification_id \in Nat /\ s.next_notification_id >= 1
      /\ p \in Seq(DeadManNotification) /\ Len(p) \in Nat
      /\ s.current_down \in DeadManCurrentDown
      /\ s = [state |-> s.state,
              consecutive_failures |-> s.consecutive_failures,
              consecutive_successes |-> s.consecutive_successes,
              state_changed_at |-> s.state_changed_at,
              pending_notifications |-> p,
              next_notification_id |-> s.next_notification_id,
              current_down |-> s.current_down]
    BY DEF GoodStatus, DeadManStatusType, ValidStatus
<1>7. /\ ValidStatus(s)
      /\ \A i \in 1..Len(p) : ValidNotification(p[i])
      /\ s.current_down # NoDown => s.current_down.notification_id >= 1
    BY DEF GoodStatus, ValidStatus, OutageBinding
<1>8. \A i \in 1..Len(p) : p[i] \in DeadManNotification
    BY <1>6
<1>utc. \A i \in 1..Len(p) : HasUtcForm(p[i].at)
    BY DEF Encodable
<1> HIDE DEF e, c, p, q, d
<1>9. Len(q) = Len(p) /\ \A i \in 1..Len(p) : q[i] = encode_notification(p[i])
    BY <1>5, <1>6
<1>10. decode_notifications(c.pending_notifications)
    <2>1. \A i \in 1..Len(p) : decode_notification(q[i])
        BY <1>7, <1>8, <1>9, <1>utc, NotificationRoundTrips
    <2> QED BY <1>5, <1>9, <2>1 DEF decode_notifications, q
<1>11. d.pending_notifications = p
    <2> DEFINE Notification(n) ==
            LET transition == Content(n.transition)
            IN  [notification_id |-> Content(n.notification_id),
                 kind |-> Content(n.kind),
                 from_state |-> Content(transition.from_state),
                 to_state |-> Content(transition.to_state),
                 at |-> Content(transition.at)[1]]
    <2>1. d.pending_notifications
            = [i \in 1..Len(q) |-> Notification(Content(q[i]))]
        BY DEF d, DecodedStatus, q
    <2>2. \A i \in 1..Len(p) : Notification(Content(q[i])) = p[i]
        BY <1>7, <1>8, <1>9, <1>utc, NotificationRoundTrips
    <2> HIDE DEF Notification
    <2>3. d.pending_notifications = [i \in 1..Len(p) |-> p[i]]
        BY <1>9, <2>1, <2>2
    <2> QED BY <1>6, <2>3
<1>12. d.state_changed_at = s.state_changed_at
    <2>1. d.state_changed_at = IF c.state_changed_at = Null THEN NoTime
                               ELSE Content(c.state_changed_at)[1]
        BY DEF d, DecodedStatus
    <2> QED BY <1>3, <2>1 DEF Null, Content
<1>13. /\ d.current_down = s.current_down
       /\ decode_current_down(c.current_down)
    <2> DEFINE down == Content(c.current_down)
    <2>1. d.current_down =
            IF c.current_down = Null THEN NoDown
            ELSE [notification_id |-> Content(down.notification_id),
                  acknowledged |-> Content(down.acknowledged)]
        BY DEF d, DecodedStatus
    <2>2. CASE s.current_down = NoDown
        BY <1>4, <2>1, <2>2 DEF decode_current_down
    <2>3. CASE s.current_down # NoDown
        <3>1. /\ c.current_down # Null
              /\ Kind(c.current_down) = "object"
              /\ down = [notification_id |->
                            <<"int", s.current_down.notification_id>>,
                         acknowledged |->
                            <<"bool", s.current_down.acknowledged>>]
            BY <1>4, <2>3 DEF Null, Content, Kind
        <3>2. /\ DOMAIN down = CURRENT_DOWN_FIELDS
              /\ down.notification_id
                    = <<"int", s.current_down.notification_id>>
              /\ down.acknowledged = <<"bool", s.current_down.acknowledged>>
            BY <3>1 DEF CURRENT_DOWN_FIELDS
        <3>3. /\ s.current_down.notification_id \in Nat
              /\ s.current_down =
                    [notification_id |-> s.current_down.notification_id,
                     acknowledged |-> s.current_down.acknowledged]
            BY <1>6 DEF DeadManCurrentDown
        <3>4. d.current_down = s.current_down
            BY <2>1, <3>1, <3>2, <3>3 DEF Content
        <3>5. decode_current_down(c.current_down)
            BY <1>7, <2>3, <3>1, <3>2, <3>3
            DEF decode_current_down, require_exact_keys,
                decode_notification_id, decode_bool, Kind, Content
        <3> QED BY <3>4, <3>5
    <2> QED BY <2>2, <2>3
<1>14. d = s
    <2>1. /\ d.state = s.state
          /\ d.consecutive_failures = s.consecutive_failures
          /\ d.consecutive_successes = s.consecutive_successes
          /\ d.next_notification_id = s.next_notification_id
        BY <1>2 DEF d, DecodedStatus, Content
    <2>2. d = [state |-> d.state,
               consecutive_failures |-> d.consecutive_failures,
               consecutive_successes |-> d.consecutive_successes,
               state_changed_at |-> d.state_changed_at,
               pending_notifications |-> d.pending_notifications,
               next_notification_id |-> d.next_notification_id,
               current_down |-> d.current_down]
        BY DEF d, DecodedStatus
    <2> QED BY <1>6, <1>11, <1>12, <1>13, <2>1, <2>2
<1>15. WellFormed(e)
    <2>1. require_exact_keys(e, STATE_FIELDS)
        BY <1>1 DEF require_exact_keys, c
    <2>2. /\ decode_state_value(c.state)
          /\ decode_counter(c.consecutive_failures)
          /\ decode_counter(c.consecutive_successes)
          /\ decode_notification_id(c.next_notification_id)
        BY <1>2, <1>6 DEF decode_state_value, decode_counter,
                          decode_notification_id, Kind, Content
    <2>3. c.state_changed_at = Null \/ decode_datetime(c.state_changed_at)
        BY <1>3 DEF decode_datetime, Kind, Content
    <2> QED BY <1>2, <1>10, <1>13, <2>1, <2>2, <2>3 DEF WellFormed, c
<1>16. encode_deadman_status(s) = e
    BY DEF encode_deadman_status, e
<1> QED BY <1>7, <1>14, <1>15, <1>16
        DEF RoundTrips, decode_deadman_status, d, c

-----------------------------------------------------------------------------
(* What the decoder accepts.                                               *)

(* A function on the keys of a transition, a notification, an outage or a  *)
(* document is the record of its fields.                                   *)
LEMMA Fields ==
    ASSUME NEW S, NEW c
    PROVE  /\ c \in [TRANSITION_FIELDS -> S] =>
                c = [from_state |-> c.from_state, to_state |-> c.to_state,
                     at |-> c.at]
           /\ c \in [NOTIFICATION_FIELDS -> S] =>
                c = [notification_id |-> c.notification_id, kind |-> c.kind,
                     transition |-> c.transition]
           /\ c \in [CURRENT_DOWN_FIELDS -> S] =>
                c = [notification_id |-> c.notification_id,
                     acknowledged |-> c.acknowledged]
           /\ c \in [STATE_FIELDS -> S] =>
                c = [schema_version |-> c.schema_version,
                     state |-> c.state,
                     consecutive_failures |-> c.consecutive_failures,
                     consecutive_successes |-> c.consecutive_successes,
                     state_changed_at |-> c.state_changed_at,
                     pending_notifications |-> c.pending_notifications,
                     next_notification_id |-> c.next_notification_id,
                     current_down |-> c.current_down]
BY DEF TRANSITION_FIELDS, NOTIFICATION_FIELDS, CURRENT_DOWN_FIELDS,
       STATE_FIELDS

\* The notification a document is read as.
DecodedNotification(n) ==
    LET c == Content(n)
        transition == Content(c.transition)
    IN  [notification_id |-> Content(c.notification_id),
         kind |-> Content(c.kind),
         from_state |-> Content(transition.from_state),
         to_state |-> Content(transition.to_state),
         at |-> Content(transition.at)[1]]

(* A well-formed notification is, offsets aside, what the encoder writes   *)
(* of the notification it is read as.                                      *)
LEMMA NotificationCanonical ==
    ASSUME NEW S, JsonValues(S), NEW n \in S, decode_notification(n)
    PROVE  NormalizedNotification(n)
                = encode_notification(DecodedNotification(n))
<1> DEFINE c == Content(n)
           v == c.transition
           t == Content(v)
<1>1. /\ Kind(n) = "object" /\ DOMAIN c = NOTIFICATION_FIELDS
      /\ Kind(c.kind) = "text" /\ Kind(c.notification_id) = "int"
    BY DEF decode_notification, require_exact_keys, decode_notification_kind,
           decode_notification_id
<1>2. /\ Kind(v) = "object" /\ DOMAIN t = TRANSITION_FIELDS
      /\ Kind(t.from_state) = "text" /\ Kind(t.to_state) = "text"
      /\ Kind(t.at) = "time"
    BY DEF decode_notification, decode_transition, require_exact_keys,
           decode_state_value, decode_datetime
<1> HIDE DEF c, v, t
<1>3. c \in [NOTIFICATION_FIELDS -> S]
    BY <1>1 DEF JsonValues, c
<1>4. /\ v \in S /\ c.kind \in S /\ c.notification_id \in S
    BY <1>3 DEF NOTIFICATION_FIELDS, v
<1>5. t \in [TRANSITION_FIELDS -> S]
    BY <1>2, <1>4 DEF JsonValues, t
<1>6. t.from_state \in S /\ t.to_state \in S /\ t.at \in S
    BY <1>5 DEF TRANSITION_FIELDS
<1>7. /\ c.notification_id = <<"int", Content(c.notification_id)>>
      /\ c.kind = <<"text", Content(c.kind)>>
      /\ t.from_state = <<"text", Content(t.from_state)>>
      /\ t.to_state = <<"text", Content(t.to_state)>>
    BY <1>1, <1>2, <1>4, <1>6 DEF JsonValues
<1>8. InUtc(t.at) = encode_datetime(Content(t.at)[1])
    BY <1>2 DEF InUtc
<1> DEFINE back == DecodedNotification(n)
<1>9. /\ back.notification_id = Content(c.notification_id)
      /\ back.kind = Content(c.kind)
      /\ back.from_state = Content(t.from_state)
      /\ back.to_state = Content(t.to_state)
      /\ back.at = Content(t.at)[1]
    BY DEF DecodedNotification, c, v, t
<1> HIDE DEF back
<1> DEFINE utc == [t EXCEPT !.at = InUtc(t.at)]
<1>10. utc = [from_state |-> <<"text", back.from_state>>,
              to_state |-> <<"text", back.to_state>>,
              at |-> encode_datetime(back.at)]
    BY <1>5, <1>7, <1>8, <1>9, Fields
<1>11. NormalizedNotification(n)
            = <<"object", [c EXCEPT !.transition = <<"object", utc>>]>>
    BY DEF NormalizedNotification, c, v, t
<1> HIDE DEF utc
<1>12. [c EXCEPT !.transition = <<"object", utc>>]
            = [notification_id |-> <<"int", back.notification_id>>,
               kind |-> <<"text", back.kind>>,
               transition |-> <<"object", utc>>]
    BY <1>3, <1>7, <1>9, Fields
<1> QED BY <1>10, <1>11, <1>12 DEF encode_notification, back

(* Nothing in a document is ignored, defaulted or coerced: whatever its    *)
(* values, a document that the decoder accepts is, offsets aside, the one  *)
(* the encoder writes of the status it is decoded to - if it can write it: *)
(* it raises for a status with a time that has no UTC form, and for no     *)
(* other.                                                                  *)
THEOREM CanonicalOrRefused ==
    ASSUME NEW S, JsonValues(S), NEW d \in S,
           decode_deadman_status(d) # Refused
    PROVE  LET decoded == decode_deadman_status(d)
           IN  encode_deadman_status(decoded) =
                    IF Encodable(decoded) THEN Normalized(d) ELSE Overflow
<1> DEFINE c == Content(d)
           s == DecodedStatus(c)
           p == c.pending_notifications
           q == Content(p)
           v == c.current_down
           down == Content(v)
<1>1. WellFormed(d) /\ decode_deadman_status(d) = s
    BY DEF decode_deadman_status
<1>2. /\ Kind(d) = "object" /\ DOMAIN c = STATE_FIELDS
      /\ c.schema_version = <<"int", SCHEMA_VERSION>>
      /\ Kind(c.state) = "text"
      /\ Kind(c.consecutive_failures) = "int"
      /\ Kind(c.consecutive_successes) = "int"
      /\ c.state_changed_at = Null \/ Kind(c.state_changed_at) = "time"
      /\ Kind(c.next_notification_id) = "int"
    BY <1>1 DEF WellFormed, require_exact_keys, decode_state_value,
                decode_counter, decode_datetime, decode_notification_id
<1>3. /\ Kind(p) = "array"
      /\ \A i \in 1..Len(q) : decode_notification(q[i])
    BY <1>1 DEF WellFormed, decode_notifications
<1>4. v = Null \/ ( /\ Kind(v) = "object"
                   /\ DOMAIN down = CURRENT_DOWN_FIELDS
                   /\ Kind(down.notification_id) = "int"
                   /\ Content(down.notification_id) >= 1
                   /\ Kind(down.acknowledged) = "bool" )
    BY <1>1 DEF WellFormed, decode_current_down, require_exact_keys,
                decode_notification_id, decode_bool
<1>5. /\ s.state = Content(c.state)
      /\ s.consecutive_failures = Content(c.consecutive_failures)
      /\ s.consecutive_successes = Content(c.consecutive_successes)
      /\ s.next_notification_id = Content(c.next_notification_id)
      /\ s.state_changed_at = IF c.state_changed_at = Null THEN NoTime
                              ELSE Content(c.state_changed_at)[1]
    BY DEF DecodedStatus
<1>6. s.current_down =
        IF v = Null THEN NoDown
        ELSE [notification_id |-> Content(down.notification_id),
              acknowledged |-> Content(down.acknowledged)]
    BY DEF DecodedStatus
<1>7. s.pending_notifications
        = [i \in 1..Len(q) |-> DecodedNotification(q[i])]
    BY DEF DecodedStatus, DecodedNotification
<1> HIDE DEF c, s, p, q, v, down
<1>8. c \in [STATE_FIELDS -> S]
    BY <1>2 DEF JsonValues, c
<1>9. /\ c.state \in S /\ c.consecutive_failures \in S
      /\ c.consecutive_successes \in S /\ c.state_changed_at \in S
      /\ c.next_notification_id \in S /\ p \in S /\ v \in S
    BY <1>8 DEF STATE_FIELDS, p, v
<1>10. /\ c.state = <<"text", s.state>>
       /\ c.consecutive_failures = <<"int", s.consecutive_failures>>
       /\ c.consecutive_successes = <<"int", s.consecutive_successes>>
       /\ c.next_notification_id = <<"int", s.next_notification_id>>
    BY <1>2, <1>5, <1>9 DEF JsonValues
<1>11. InUtc(c.state_changed_at) =
            IF s.state_changed_at = NoTime THEN Null
            ELSE encode_datetime(s.state_changed_at)
    <2>1. CASE c.state_changed_at = Null
        BY <1>5, <2>1 DEF InUtc, Null, Kind
    <2>2. CASE c.state_changed_at # Null
        <3>1. Kind(c.state_changed_at) = "time"
            BY <1>2, <2>2
        <3>2. Content(c.state_changed_at)
                    \in Nat \X {"utc", "offset", "naive"}
            BY <1>9, <3>1 DEF JsonValues
        <3>3. s.state_changed_at = Content(c.state_changed_at)[1]
            BY <1>5, <2>2
        <3>4. s.state_changed_at # NoTime
            BY <3>2, <3>3 DEF NoTime
        <3> QED BY <3>1, <3>3, <3>4 DEF InUtc
    <2> QED BY <2>1, <2>2
<1>12. v =
        IF s.current_down = NoDown THEN Null
        ELSE <<"object",
               [notification_id |-> <<"int", s.current_down.notification_id>>,
                acknowledged |-> <<"bool", s.current_down.acknowledged>>]>>
    <2>1. CASE v = Null
        BY <1>6, <2>1
    <2>2. CASE v # Null
        <3>1. /\ Kind(v) = "object" /\ DOMAIN down = CURRENT_DOWN_FIELDS
              /\ Kind(down.notification_id) = "int"
              /\ Content(down.notification_id) >= 1
              /\ Kind(down.acknowledged) = "bool"
            BY <1>4, <2>2
        <3>2. v = <<"object", down>> /\ down \in [CURRENT_DOWN_FIELDS -> S]
            BY <1>9, <3>1 DEF JsonValues, down
        <3>3. down.notification_id \in S /\ down.acknowledged \in S
            BY <3>2 DEF CURRENT_DOWN_FIELDS
        <3>4. /\ down.notification_id = <<"int", Content(down.notification_id)>>
              /\ down.acknowledged = <<"bool", Content(down.acknowledged)>>
            BY <3>1, <3>3 DEF JsonValues
        <3>5. /\ s.current_down.notification_id
                        = Content(down.notification_id)
              /\ s.current_down.acknowledged = Content(down.acknowledged)
            BY <1>6, <2>2
        <3>6. s.current_down # NoDown
            BY <3>1, <3>5 DEF NoDown
        <3>7. down = [notification_id |->
                            <<"int", s.current_down.notification_id>>,
                      acknowledged |-> <<"bool", s.current_down.acknowledged>>]
            BY <3>2, <3>4, <3>5, Fields
        <3> QED BY <3>2, <3>6, <3>7
    <2> QED BY <2>1, <2>2
<1> DEFINE written == [i \in 1..Len(s.pending_notifications) |->
                            encode_notification(s.pending_notifications[i])]
           utc == [i \in 1..Len(q) |-> NormalizedNotification(q[i])]
<1>13. utc = written
    <2>1. q \in Seq(S)
        BY <1>3, <1>9 DEF JsonValues, q
    <2>2. /\ Len(q) \in Nat /\ Len(s.pending_notifications) = Len(q)
          /\ \A i \in 1..Len(q) :
                s.pending_notifications[i] = DecodedNotification(q[i])
        BY <1>7, <2>1
    <2>3. \A i \in 1..Len(q) : NormalizedNotification(q[i])
                        = encode_notification(DecodedNotification(q[i]))
        BY <1>3, <2>1, NotificationCanonical
    <2> QED BY <2>2, <2>3
<1>14. Normalized(d) =
        <<"object", [c EXCEPT !.state_changed_at = InUtc(c.state_changed_at),
                              !.pending_notifications = <<"array", utc>>]>>
    BY DEF Normalized, c, p, q
<1>15. Document(s) =
        <<"object",
          [schema_version |-> <<"int", SCHEMA_VERSION>>,
           state |-> <<"text", s.state>>,
           consecutive_failures |-> <<"int", s.consecutive_failures>>,
           consecutive_successes |-> <<"int", s.consecutive_successes>>,
           state_changed_at |-> InUtc(c.state_changed_at),
           pending_notifications |-> <<"array", written>>,
           next_notification_id |-> <<"int", s.next_notification_id>>,
           current_down |-> v]>>
    BY <1>11, <1>12 DEF Document
<1> HIDE DEF written, utc
<1>16. [c EXCEPT !.state_changed_at = InUtc(c.state_changed_at),
                 !.pending_notifications = <<"array", utc>>]
        = [schema_version |-> <<"int", SCHEMA_VERSION>>,
           state |-> <<"text", s.state>>,
           consecutive_failures |-> <<"int", s.consecutive_failures>>,
           consecutive_successes |-> <<"int", s.consecutive_successes>>,
           state_changed_at |-> InUtc(c.state_changed_at),
           pending_notifications |-> <<"array", utc>>,
           next_notification_id |-> <<"int", s.next_notification_id>>,
           current_down |-> v]
    <2> DEFINE changed == InUtc(c.state_changed_at)
               queue == <<"array", utc>>
    <2> HIDE DEF changed, queue
    <2> DEFINE f == [c EXCEPT !.state_changed_at = changed,
                              !.pending_notifications = queue]
    <2>1. f \in [STATE_FIELDS -> S \cup {changed, queue}]
        BY <1>8 DEF STATE_FIELDS
    <2>2. /\ f.schema_version = c.schema_version
          /\ f.state = c.state
          /\ f.consecutive_failures = c.consecutive_failures
          /\ f.consecutive_successes = c.consecutive_successes
          /\ f.state_changed_at = changed
          /\ f.pending_notifications = queue
          /\ f.next_notification_id = c.next_notification_id
          /\ f.current_down = c.current_down
        BY <1>8 DEF STATE_FIELDS
    <2> HIDE DEF f
    <2>3. f = [schema_version |-> f.schema_version,
               state |-> f.state,
               consecutive_failures |-> f.consecutive_failures,
               consecutive_successes |-> f.consecutive_successes,
               state_changed_at |-> f.state_changed_at,
               pending_notifications |-> f.pending_notifications,
               next_notification_id |-> f.next_notification_id,
               current_down |-> f.current_down]
        BY <2>1, Fields
    <2> QED BY <1>2, <1>10, <2>2, <2>3 DEF v, f, changed, queue
<1> QED BY <1>1, <1>13, <1>14, <1>15, <1>16 DEF encode_deadman_status

-----------------------------------------------------------------------------
(* Edited documents are made of JSON values. The values of a document are  *)
(* taken in layers: what its transitions are made of, the transitions, the *)
(* notifications, the queue, the document.                                 *)

\* The keys of saved documents, and the one an edit may add.
Keys == STATE_FIELDS \cup NOTIFICATION_FIELDS \cup TRANSITION_FIELDS
        \cup CURRENT_DOWN_FIELDS \cup {"unknown"}

Objects(S) == {<<"object", f>> : f \in UNION {[K -> S] : K \in SUBSET Keys}}

Arrays(S) == {<<"array", q>> : q \in Seq(S)}

\* The values of S and those made of them.
Composed(S) == S \cup Objects(S) \cup Arrays(S)

\* The plain values of the documents that are saved, and the junk.
PlainValues ==
    {Null, Garbage}
    \cup {<<"int", i>> : i \in Int}
    \cup {<<"text", t>> : t \in DeadManState \cup DeadManNotificationKind}
    \cup {<<"bool", b>> : b \in BOOLEAN}
    \cup {<<"time", <<t, "utc">>>> : t \in Nat}
    \cup Junk

LEMMA PlainJson == JsonValues(PlainValues)
<1> SUFFICES ASSUME NEW v \in PlainValues
             PROVE  /\ v = <<Kind(v), Content(v)>>
                    /\ Kind(v) = "time" =>
                        Content(v) \in Nat \X {"utc", "offset", "naive"}
                    /\ Kind(v) = "array" => Content(v) \in Seq(PlainValues)
                    /\ Kind(v) = "object" =>
                        Content(v) \in [DOMAIN Content(v) -> PlainValues]
    BY DEF JsonValues
<1>1. CASE v \in Junk
    <2>1. Junk \subseteq PlainValues
        BY DEF PlainValues
    <2>2. /\ v = <<Kind(v), Content(v)>>
          /\ Kind(v) = "time" =>
                Content(v) \in Nat \X {"utc", "offset", "naive"}
          /\ Kind(v) = "array" => Content(v) \in Seq(Junk)
          /\ Kind(v) = "object" => Content(v) \in [DOMAIN Content(v) -> Junk]
        BY <1>1, JunkAssumption DEF JsonValues
    <2>3. Seq(Junk) \subseteq Seq(PlainValues)
        BY <2>1
    <2> QED BY <2>1, <2>2, <2>3
<1>2. CASE v \notin Junk
    BY <1>2 DEF PlainValues, Null, Garbage, Kind, Content
<1> QED BY <1>1, <1>2

LEMMA ComposedJson ==
    ASSUME NEW S, JsonValues(S)
    PROVE  JsonValues(Composed(S)) /\ S \subseteq Composed(S)
<1> DEFINE T == Composed(S)
<1>1. S \subseteq T
    BY DEF Composed
<1>2. Seq(S) \subseteq Seq(T)
    BY <1>1
<1> SUFFICES ASSUME NEW v \in T
             PROVE  /\ v = <<Kind(v), Content(v)>>
                    /\ Kind(v) = "time" =>
                        Content(v) \in Nat \X {"utc", "offset", "naive"}
                    /\ Kind(v) = "array" => Content(v) \in Seq(T)
                    /\ Kind(v) = "object" =>
                        Content(v) \in [DOMAIN Content(v) -> T]
    BY <1>1 DEF JsonValues
<1> HIDE DEF T
<1>3. CASE v \in S
    BY <1>1, <1>2, <1>3 DEF JsonValues
<1>4. CASE v \in Objects(S)
    <2>1. PICK K \in SUBSET Keys : \E f \in [K -> S] : v = <<"object", f>>
        BY <1>4 DEF Objects
    <2> PICK f \in [K -> S] : v = <<"object", f>>
        BY <2>1
    <2>2. Kind(v) = "object" /\ Content(v) = f
        BY DEF Kind, Content
    <2> QED BY <1>1, <2>1, <2>2
<1>5. CASE v \in Arrays(S)
    <2>1. PICK q \in Seq(S) : v = <<"array", q>>
        BY <1>5 DEF Arrays
    <2>2. Kind(v) = "array" /\ Content(v) = q
        BY <2>1 DEF Kind, Content
    <2> QED BY <1>2, <2>1, <2>2
<1> QED BY <1>3, <1>4, <1>5 DEF Composed, T

(* What an object is made of.                                              *)
LEMMA ObjectFields ==
    ASSUME NEW S, NEW o \in Objects(S)
    PROVE  /\ o = <<"object", Content(o)>>
           /\ DOMAIN Content(o) \in SUBSET Keys
           /\ Content(o) \in [DOMAIN Content(o) -> S]
<1>1. PICK K \in SUBSET Keys : \E f \in [K -> S] : o = <<"object", f>>
    BY DEF Objects
<1> PICK f \in [K -> S] : o = <<"object", f>>
    BY <1>1
<1>2. Content(o) = f
    BY DEF Content
<1> QED BY <1>2

(* An edited object is an object of the same values and the junk.          *)
LEMMA EditsCompose ==
    ASSUME NEW S, Junk \subseteq S, NEW o \in Objects(S)
    PROVE  Edits(o) \subseteq Objects(S)
<1> DEFINE f == Content(o)
           K == DOMAIN f
<1>1. K \in SUBSET Keys /\ f \in [K -> S]
    BY ObjectFields
<1> SUFFICES ASSUME NEW e \in Edits(o) PROVE e \in Objects(S)
    OBVIOUS
<1> HIDE DEF f, K
<1>2. CASE \E k \in K, v \in Junk : e = <<"object", [f EXCEPT ![k] = v]>>
    <2>1. PICK k \in K, v \in Junk : e = <<"object", [f EXCEPT ![k] = v]>>
        BY <1>2
    <2>2. [f EXCEPT ![k] = v] \in [K -> S]
        BY <1>1
    <2> QED BY <2>1, <2>2, <1>1 DEF Objects
<1>3. CASE \E k \in K : e = <<"object", [j \in K \ {k} |-> f[j]]>>
    <2>1. PICK k \in K : e = <<"object", [j \in K \ {k} |-> f[j]]>>
        BY <1>3
    <2>2. /\ [j \in K \ {k} |-> f[j]] \in [K \ {k} -> S]
          /\ K \ {k} \in SUBSET Keys
        BY <1>1
    <2> QED BY <2>1, <2>2, <1>1 DEF Objects
<1>4. CASE \E v \in Junk : e = <<"object", [j \in K \cup {"unknown"} |->
                                    IF j = "unknown" THEN v ELSE f[j]]>>
    <2>1. PICK v \in Junk : e = <<"object", [j \in K \cup {"unknown"} |->
                                    IF j = "unknown" THEN v ELSE f[j]]>>
        BY <1>4
    <2>2. [j \in K \cup {"unknown"} |->
                        IF j = "unknown" THEN v ELSE f[j]]
                \in [K \cup {"unknown"} -> S]
        BY <1>1
    <2>3. K \cup {"unknown"} \in SUBSET Keys
        BY <1>1 DEF Keys
    <2> QED BY <2>1, <2>2, <2>3 DEF Objects
<1>5. \/ \E k \in K, v \in Junk : e = <<"object", [f EXCEPT ![k] = v]>>
      \/ \E k \in K : e = <<"object", [j \in K \ {k} |-> f[j]]>>
      \/ \E v \in Junk : e = <<"object", [j \in K \cup {"unknown"} |->
                                    IF j = "unknown" THEN v ELSE f[j]]>>
    <2> DEFINE A == {<<"object", [f EXCEPT ![k] = v]>> : k \in K, v \in Junk}
               B == {<<"object", [j \in K \ {k} |-> f[j]]>> : k \in K}
               C == {<<"object", [j \in K \cup {"unknown"} |->
                        IF j = "unknown" THEN v ELSE f[j]]>> : v \in Junk}
    <2>1. Edits(o) = A \cup B \cup C
        BY DEF Edits, f, K
    <2>2. CASE e \in A
        BY <2>2
    <2>3. CASE e \in B
        BY <2>3
    <2>4. CASE e \in C
        BY <2>4
    <2> HIDE DEF A, B, C
    <2> QED BY <2>1, <2>2, <2>3, <2>4
<1> QED BY <1>2, <1>3, <1>4, <1>5

(* So is one with a field replaced.                                        *)
LEMMA WithComposes ==
    ASSUME NEW S, NEW o \in Objects(S), NEW k \in DOMAIN Content(o),
           NEW V \in SUBSET S
    PROVE  With(o, k, V) \subseteq Objects(S)
<1> DEFINE f == Content(o)
           K == DOMAIN f
<1>1. K \in SUBSET Keys /\ f \in [K -> S]
    BY ObjectFields
<1> SUFFICES ASSUME NEW v \in V
             PROVE  <<"object", [f EXCEPT ![k] = v]>> \in Objects(S)
    BY DEF With
<1> HIDE DEF f, K
<1>2. [f EXCEPT ![k] = v] \in [K -> S]
    BY <1>1 DEF K
<1> QED BY <1>1, <1>2 DEF Objects

\* What transitions and outages, notifications, queues and documents are
\* made of.
Layer1 == Composed(PlainValues)
Layer2 == Composed(Layer1)
Layer3 == Composed(Layer2)
Layer4 == Composed(Layer3)

LEMMA LayersJson ==
    /\ JsonValues(Layer4)
    /\ Junk \subseteq PlainValues /\ PlainValues \subseteq Layer1
    /\ Layer1 \subseteq Layer2 /\ Layer2 \subseteq Layer3
    /\ Layer3 \subseteq Layer4
    /\ Objects(PlainValues) \subseteq Layer1 /\ Objects(Layer1) \subseteq Layer2
    /\ Arrays(Layer2) \subseteq Layer3 /\ Objects(Layer3) \subseteq Layer4
<1>1. JsonValues(Layer1) /\ PlainValues \subseteq Layer1
    BY PlainJson, ComposedJson DEF Layer1
<1>2. JsonValues(Layer2) /\ Layer1 \subseteq Layer2
    BY <1>1, ComposedJson DEF Layer2
<1>3. JsonValues(Layer3) /\ Layer2 \subseteq Layer3
    BY <1>2, ComposedJson DEF Layer3
<1>4. JsonValues(Layer4) /\ Layer3 \subseteq Layer4
    BY <1>3, ComposedJson DEF Layer4
<1>5. Junk \subseteq PlainValues
    BY DEF PlainValues
<1>6. /\ Objects(PlainValues) \subseteq Layer1
      /\ Objects(Layer1) \subseteq Layer2
      /\ Arrays(Layer2) \subseteq Layer3 /\ Objects(Layer3) \subseteq Layer4
    BY DEF Layer1, Layer2, Layer3, Layer4, Composed
<1> QED BY <1>1, <1>2, <1>3, <1>4, <1>5, <1>6

(* The document of a notification and every edit of it are objects of the  *)
(* second layer.                                                           *)
LEMMA NotificationLayer ==
    ASSUME NEW n \in DeadManNotification, HasUtcForm(n.at)
    PROVE  /\ encode_notification(n) \in Layer2
           /\ EditedNotification(encode_notification(n)) \subseteq Layer2
<1> DEFINE tc == [from_state |-> <<"text", n.from_state>>,
                  to_state |-> <<"text", n.to_state>>,
                  at |-> encode_datetime(n.at)]
           t == <<"object", tc>>
           c == [notification_id |-> <<"int", n.notification_id>>,
                 kind |-> <<"text", n.kind>>, transition |-> t]
           e == <<"object", c>>
<1>1. /\ n.notification_id \in Nat /\ n.kind \in DeadManNotificationKind
      /\ n.from_state \in DeadManState /\ n.to_state \in DeadManState
      /\ n.at \in Nat
    BY DEF DeadManNotification
<1>2. /\ <<"text", n.from_state>> \in PlainValues
      /\ <<"text", n.to_state>> \in PlainValues
      /\ encode_datetime(n.at) \in PlainValues
      /\ <<"int", n.notification_id>> \in PlainValues
      /\ <<"text", n.kind>> \in PlainValues
    BY <1>1 DEF PlainValues, encode_datetime
<1>3. tc \in [TRANSITION_FIELDS -> PlainValues]
    BY <1>2 DEF TRANSITION_FIELDS
<1>4. /\ TRANSITION_FIELDS \in SUBSET Keys
      /\ NOTIFICATION_FIELDS \in SUBSET Keys
    BY DEF Keys
<1>5. t \in Objects(PlainValues)
    BY <1>3, <1>4 DEF Objects
<1> HIDE DEF tc, t
<1>6. t \in Layer1
    BY <1>5, LayersJson
<1>7. c \in [NOTIFICATION_FIELDS -> Layer1]
    BY <1>2, <1>6, LayersJson DEF NOTIFICATION_FIELDS
<1>8. e \in Objects(Layer1)
    BY <1>4, <1>7 DEF Objects
<1>9. e = encode_notification(n)
    BY DEF encode_notification, tc, t
<1>10. Content(e).transition = t /\ "transition" \in DOMAIN Content(e)
    BY DEF Content
<1> HIDE DEF c, e
<1>11. Edits(t) \subseteq Layer1
    BY <1>5, EditsCompose, LayersJson
<1>12. Edits(e) \subseteq Objects(Layer1)
    BY <1>8, EditsCompose, LayersJson
<1>13. With(e, "transition", Edits(t)) \subseteq Objects(Layer1)
    BY <1>8, <1>10, <1>11, WithComposes
<1> QED BY <1>8, <1>9, <1>10, <1>12, <1>13, LayersJson DEF EditedNotification

(* An edited queue is an array of the second layer.                        *)
LEMMA QueueLayer ==
    ASSUME NEW queue, Content(queue) \in Seq(Layer2),
           \A i \in 1..Len(Content(queue)) :
                EditedNotification(Content(queue)[i]) \subseteq Layer2
    PROVE  EditedQueue(queue) \subseteq Arrays(Layer2)
<1> DEFINE q == Content(queue)
           n == Len(q)
           Reindexed(f) == <<"array", [i \in DOMAIN f |-> q[f[i]]]>>
           Dropped(k) == [i \in 1..(n - 1) |-> IF i < k THEN i ELSE i + 1]
           Repeated(k) == [i \in 1..(n + 1) |-> IF i <= k THEN i ELSE i - 1]
           Swapped(k) == [i \in 1..n |-> IF i = k THEN k + 1
                                         ELSE IF i = k + 1 THEN k ELSE i]
           A == {Reindexed(Dropped(k)) : k \in 1..n}
           B == {Reindexed(Repeated(k)) : k \in 1..n}
           C == {Reindexed(Swapped(k)) : k \in 1..(n - 1)}
           D == UNION {{<<"array", [q EXCEPT ![k] = v]>> :
                            v \in EditedNotification(q[k])} : k \in 1..n}
<1>1. EditedQueue(queue) = A \cup B \cup C \cup D
    BY Zenon DEF EditedQueue
<1>2. /\ q \in Seq(Layer2) /\ n \in Nat
      /\ \A i \in 1..n : EditedNotification(q[i]) \subseteq Layer2
    OBVIOUS
<1> HIDE DEF q
<1>3. ASSUME NEW m \in Nat, NEW f \in [1..m -> 1..n]
      PROVE  Reindexed(f) \in Arrays(Layer2)
    <2>1. [i \in DOMAIN f |-> q[f[i]]] \in Seq(Layer2)
        BY <1>2, <1>3
    <2> QED BY <2>1 DEF Arrays
<1> HIDE DEF Reindexed
<1>4. A \subseteq Arrays(Layer2)
    <2> SUFFICES ASSUME NEW k \in 1..n
                 PROVE  Reindexed(Dropped(k)) \in Arrays(Layer2)
        OBVIOUS
    <2>1. n - 1 \in Nat /\ Dropped(k) \in [1..(n - 1) -> 1..n]
        BY <1>2
    <2> QED BY <1>3, <2>1
<1>5. B \subseteq Arrays(Layer2)
    <2> SUFFICES ASSUME NEW k \in 1..n
                 PROVE  Reindexed(Repeated(k)) \in Arrays(Layer2)
        OBVIOUS
    <2>1. n + 1 \in Nat /\ Repeated(k) \in [1..(n + 1) -> 1..n]
        BY <1>2
    <2> QED BY <1>3, <2>1
<1>6. C \subseteq Arrays(Layer2)
    <2> SUFFICES ASSUME NEW k \in 1..(n - 1)
                 PROVE  Reindexed(Swapped(k)) \in Arrays(Layer2)
        OBVIOUS
    <2>1. Swapped(k) \in [1..n -> 1..n]
        BY <1>2
    <2> QED BY <1>2, <1>3, <2>1
<1>7. D \subseteq Arrays(Layer2)
    <2> SUFFICES ASSUME NEW k \in 1..n, NEW v \in EditedNotification(q[k])
                 PROVE  <<"array", [q EXCEPT ![k] = v]>> \in Arrays(Layer2)
        OBVIOUS
    <2>1. v \in Layer2
        BY <1>2
    <2>2. [q EXCEPT ![k] = v] \in Seq(Layer2)
        BY <1>2, <2>1
    <2> QED BY <2>2 DEF Arrays
<1> QED BY <1>1, <1>4, <1>5, <1>6, <1>7

(* Every edit of a saved document is made of JSON values.                  *)
LEMMA DocumentLayer ==
    ASSUME NEW s \in DeadManStatusType, Encodable(s)
    PROVE  EditedDocument(encode_deadman_status(s)) \subseteq Layer4
<1> DEFINE d == Document(s)
           c == Content(d)
           p == s.pending_notifications
           queue == c.pending_notifications
           q == [i \in 1..Len(p) |-> encode_notification(p[i])]
           down == c.current_down
<1>1. /\ s.state \in DeadManState
      /\ s.consecutive_failures \in Nat /\ s.consecutive_successes \in Nat
      /\ s.next_notification_id \in Nat
      /\ s.state_changed_at \in Nat \cup {NoTime}
      /\ p \in Seq(DeadManNotification) /\ Len(p) \in Nat
      /\ s.current_down \in DeadManCurrentDown
    BY DEF DeadManStatusType
<1>2. /\ d = <<"object", c>> /\ DOMAIN c = STATE_FIELDS
      /\ c.schema_version = <<"int", SCHEMA_VERSION>>
      /\ c.state = <<"text", s.state>>
      /\ c.consecutive_failures = <<"int", s.consecutive_failures>>
      /\ c.consecutive_successes = <<"int", s.consecutive_successes>>
      /\ c.next_notification_id = <<"int", s.next_notification_id>>
    BY DEF Document, Content, STATE_FIELDS
<1>3. c.state_changed_at = IF s.state_changed_at = NoTime THEN Null
                           ELSE <<"time", <<s.state_changed_at, "utc">>>>
    BY DEF Document, Content, encode_datetime, Encodable
<1>4. down =
        IF s.current_down = NoDown THEN Null
        ELSE <<"object",
               [notification_id |-> <<"int", s.current_down.notification_id>>,
                acknowledged |-> <<"bool", s.current_down.acknowledged>>]>>
    BY DEF Document, Content
<1>5. queue = <<"array", q>>
    BY DEF Document, Content
<1>6. /\ q \in Seq(Layer2)
      /\ \A i \in 1..Len(q) : EditedNotification(q[i]) \subseteq Layer2
    <2>1. \A i \in 1..Len(p) :
            p[i] \in DeadManNotification /\ HasUtcForm(p[i].at)
        BY <1>1 DEF Encodable
    <2>2. /\ Len(q) = Len(p)
          /\ \A i \in 1..Len(p) : q[i] = encode_notification(p[i])
        BY <1>1
    <2>3. \A i \in 1..Len(p) :
            /\ encode_notification(p[i]) \in Layer2
            /\ EditedNotification(encode_notification(p[i])) \subseteq Layer2
        BY <2>1, NotificationLayer
    <2> QED BY <1>1, <2>2, <2>3
<1>7. /\ c.schema_version \in PlainValues /\ c.state \in PlainValues
      /\ c.consecutive_failures \in PlainValues
      /\ c.consecutive_successes \in PlainValues
      /\ c.next_notification_id \in PlainValues
    BY <1>1, <1>2 DEF PlainValues, SCHEMA_VERSION
<1>8. c.state_changed_at \in PlainValues
    BY <1>1, <1>3 DEF PlainValues
<1>9. down = Null \/ down \in Objects(PlainValues)
    <2> DEFINE f == [notification_id |->
                        <<"int", s.current_down.notification_id>>,
                     acknowledged |-> <<"bool", s.current_down.acknowledged>>]
    <2>1. /\ s.current_down.notification_id \in Nat
          /\ s.current_down.acknowledged \in BOOLEAN
        BY <1>1 DEF DeadManCurrentDown
    <2>2. /\ <<"int", s.current_down.notification_id>> \in PlainValues
          /\ <<"bool", s.current_down.acknowledged>> \in PlainValues
        BY <2>1 DEF PlainValues
    <2>3. f \in [CURRENT_DOWN_FIELDS -> PlainValues]
        BY <2>2 DEF CURRENT_DOWN_FIELDS
    <2>4. <<"object", f>> \in Objects(PlainValues)
        BY <2>3 DEF Objects, Keys
    <2> QED BY <1>4, <2>4
<1>10. Edits(down) \subseteq Layer3 \/ down = Null
    BY <1>9, EditsCompose, LayersJson
<1>11. queue \in Layer3 /\ EditedQueue(queue) \subseteq Layer3
    <2>1. Content(queue) = q
        BY <1>5 DEF Content
    <2> HIDE DEF q, queue
    <2>2. EditedQueue(queue) \subseteq Arrays(Layer2)
        BY <1>6, <2>1, QueueLayer
    <2>3. queue \in Arrays(Layer2)
        BY <1>5, <1>6 DEF Arrays
    <2> QED BY <2>2, <2>3, LayersJson
<1>12. down \in Layer3
    BY <1>9, LayersJson DEF PlainValues
<1>13. c = [schema_version |-> c.schema_version,
            state |-> c.state,
            consecutive_failures |-> c.consecutive_failures,
            consecutive_successes |-> c.consecutive_successes,
            state_changed_at |-> c.state_changed_at,
            pending_notifications |-> queue,
            next_notification_id |-> c.next_notification_id,
            current_down |-> down]
    BY DEF Document, Content
<1> HIDE DEF d, c, p, queue, q, down
<1>14. PlainValues \subseteq Layer3
    BY LayersJson
<1>15. c \in [STATE_FIELDS -> Layer3]
    BY <1>7, <1>8, <1>11, <1>12, <1>13, <1>14 DEF STATE_FIELDS
<1>16. d \in Objects(Layer3)
    BY <1>2, <1>15 DEF Objects, Keys
<1>17. Edits(d) \subseteq Layer4
    BY <1>14, <1>16, EditsCompose, LayersJson
<1>18. With(d, "pending_notifications", EditedQueue(queue)) \subseteq Layer4
    BY <1>2, <1>11, <1>16, WithComposes, LayersJson DEF STATE_FIELDS, c
<1>19. down # Null => With(d, "current_down", Edits(down)) \subseteq Layer4
    BY <1>2, <1>10, <1>16, WithComposes, LayersJson DEF STATE_FIELDS, c
<1>20. {Garbage} \cup Junk \subseteq Layer4
    BY LayersJson DEF PlainValues
<1>21. EditedDocument(d) =
        {Garbage} \cup Junk \cup Edits(d)
        \cup With(d, "pending_notifications", EditedQueue(queue))
        \cup (IF down = Null THEN {}
              ELSE With(d, "current_down", Edits(down)))
    BY DEF EditedDocument, queue, down, c
<1> QED BY <1>17, <1>18, <1>19, <1>20, <1>21 DEF d, encode_deadman_status

(* A file damaged or edited in one place is refused, or is written back as *)
(* it was read, or has a time without a UTC form: no key is ignored, no    *)
(* value defaulted or coerced.                                             *)
THEOREM EditsAreRefused ==
    ASSUME NEW s \in DeadManStatusType, Encodable(s)
    PROVE  StrictlyDecoded(s)
BY DocumentLayer, LayersJson, CanonicalOrRefused DEF StrictlyDecoded

-----------------------------------------------------------------------------
(* Snapshots. What FileInv, StoryInv and NoIntentLost say of the current   *)
(* file is true of every file a power loss may bring back; the operators   *)
(* below say it of a snapshot s.                                           *)

\* The status a snapshot's file stands for.
Held(s) == IF s.file = NoFile THEN INITIAL_DEADMAN_STATUS ELSE s.file

\* How many alerts of the snapshot are no longer pending in it.
Acked(s) == Len(s.ledger) - Len(Held(s).pending_notifications)

SnapshotType ==
    [file : DeadManStatusType \cup {NoFile},
     ledger : Seq(DeadManNotification),
     run : [outcome : DeadManProbeOutcome \cup {"NONE"}, length : Nat]]

\* StatusAlwaysValid and LedgerMatchesFile.
SoundFile(s) ==
    LET pending == Held(s).pending_notifications
    IN  /\ ValidStatus(Held(s))
        /\ Held(s).next_notification_id = Len(s.ledger) + 1
        /\ \A i \in 1..Len(pending) : pending[i] = s.ledger[Acked(s) + i]
        /\ \A i \in 1..Acked(s) : s.ledger[i] \in chat

\* DebounceMatchesHistory.
SoundStreaks(s) ==
    LET held == Held(s)
        failing == s.run.outcome = "FAILED"
        healthy == s.run.outcome = "HEALTHY"
        length == s.run.length
    IN  /\ failing /\ length >= DOWN_CONFIRMATIONS => held.state = "DOWN"
        /\ healthy /\ length >= RECOVERY_CONFIRMATIONS => held.state = "UP"
        /\ held.state # "DOWN" => held.consecutive_failures =
                                        IF failing THEN length ELSE 0
        /\ held.state = "DOWN" => held.consecutive_successes =
                                        IF healthy THEN length ELSE 0

\* ChronologyPreserved, LedgerDated, OutageLast and RecoveredFollowsDown.
SoundStory(s) ==
    LET alerts == s.ledger
        known == Len(s.ledger)
    IN  /\ \A i, j \in 1..known : i < j => alerts[i].at <= alerts[j].at
        /\ \A i \in 1..known : alerts[i].at <= Held(s).state_changed_at
        /\ Held(s).state = "DOWN" => known > 0 /\ alerts[known].kind = "DOWN"
        /\ \A i \in 1..known :
            alerts[i].kind = "RECOVERED" =>
                /\ i > 1
                /\ alerts[i - 1].kind = "DOWN"
                /\ alerts[i - 1] \in chat

\* NoIntentLost, as far as it counts what the operator has received.
SoundCount(s) ==
    /\ Acked(s) \in {told, told - 1}
    /\ told <= Len(s.ledger)
    /\ chat = {s.ledger[i] : i \in 1..told}

Sound(s) ==
    /\ s \in SnapshotType
    /\ SoundFile(s)
    /\ SoundStreaks(s)
    /\ SoundStory(s)

\* No name is given to bytes that are not on the disk.
BytesBeforeName == pc \in ReplaceStep => flushed

\* Where directories are synced, nothing is sent, and nothing acknowledged,
\* before the name is on the disk.
NameBeforeSend ==
    syncs /\ ~syncing /\ pc \in {"send", "saveAck", "replaceAck"} =>
        survivors = {Snapshot}

DiskInv ==
    /\ FileInv
    /\ StoryInv
    /\ Snapshot \in survivors
    /\ \A s \in survivors : Sound(s)
    /\ syncs => \A s \in survivors : SoundCount(s)
    /\ BytesBeforeName
    /\ NameBeforeSend

-----------------------------------------------------------------------------
(* What holds of the file holds of its snapshot, and back.                 *)

(* The fields of the current snapshot.                                     *)
LEMMA SnapshotFields ==
    /\ Snapshot.file = file /\ Snapshot.ledger = ledger /\ Snapshot.run = run
    /\ Held(Snapshot) = Persisted
    /\ Acked(Snapshot) = Len(ledger) - Len(Persisted.pending_notifications)
BY DEF Snapshot, Held, Persisted, Acked

(* The current snapshot is sound.                                          *)
LEMMA CurrentSound == FileInv /\ StoryInv => Sound(Snapshot)
<1> SUFFICES ASSUME FileInv, StoryInv PROVE Sound(Snapshot)
    OBVIOUS
<1>1. Snapshot \in SnapshotType
    BY DEF FileInv, TypeOK, Snapshot, SnapshotType
<1>2. SoundFile(Snapshot)
    BY SnapshotFields
    DEF FileInv, StatusAlwaysValid, LedgerMatchesFile, SoundFile
<1>3. SoundStreaks(Snapshot)
    BY SnapshotFields DEF StoryInv, DebounceMatchesHistory, SoundStreaks
<1>4. SoundStory(Snapshot)
    BY SnapshotFields
    DEF StoryInv, ChronologyPreserved, LedgerDated, OutageLast,
        RecoveredFollowsDown, SoundStory
<1> QED BY <1>1, <1>2, <1>3, <1>4 DEF Sound

(* A machine on which no process runs is in order as soon as its file is.  *)
Restarted ==
    /\ Sound(Snapshot)
    /\ pc = "idle" /\ status = INITIAL_DEADMAN_STATUS /\ outcome = "NONE"
    /\ chat \subseteq DeadManNotification /\ told \in Nat

LEMMA SoundRestarts == Restarted => FileInv /\ StoryInv
<1> SUFFICES ASSUME Sound(Snapshot), pc = "idle", outcome = "NONE",
                    status = INITIAL_DEADMAN_STATUS,
                    chat \subseteq DeadManNotification, told \in Nat
             PROVE  FileInv /\ StoryInv
    BY DEF Restarted
<1>1. TypeOK
    <2>1. /\ file \in DeadManStatusType \cup {NoFile}
          /\ ledger \in Seq(DeadManNotification)
          /\ run \in [outcome : DeadManProbeOutcome \cup {"NONE"},
                      length : Nat]
        BY DEF Sound, SnapshotType, Snapshot
    <2>2. status \in DeadManStatusType
        BY InitialGood DEF GoodStatus
    <2> QED BY <2>1, <2>2 DEF TypeOK
<1>2. StatusAlwaysValid /\ LedgerMatchesFile
    BY SnapshotFields, InitialGood
    DEF Sound, SoundFile, StatusAlwaysValid, LedgerMatchesFile, GoodStatus
<1>3. MemoryTracksFile /\ ReceivedFirst /\ OneAdvance
    BY DEF MemoryTracksFile, ReceivedFirst, OneAdvance
<1>4. DebounceMatchesHistory
    BY SnapshotFields DEF Sound, SoundStreaks, DebounceMatchesHistory
<1>5. /\ ChronologyPreserved /\ LedgerDated /\ OutageLast
      /\ RecoveredFollowsDown
    BY SnapshotFields
    DEF Sound, SoundStory, ChronologyPreserved, LedgerDated, OutageLast,
        RecoveredFollowsDown
<1> QED BY <1>1, <1>2, <1>3, <1>4, <1>5 DEF FileInv, StoryInv

(* NoIntentLost is what SoundCount adds to the soundness of the file.      *)
LEMMA CountIsIntents == FileInv => (NoIntentLost <=> SoundCount(Snapshot))
<1>1. SoundCount(Snapshot) <=>
        /\ Len(ledger) - Len(Persisted.pending_notifications)
                \in {told, told - 1}
        /\ told <= Len(ledger)
        /\ chat = {ledger[i] : i \in 1..told}
    BY SnapshotFields DEF SoundCount
<1> QED BY <1>1 DEF FileInv, LedgerMatchesFile, NoIntentLost

(* The same three facts of the state after a step.                         *)
LEMMA CurrentSoundAfter == (FileInv /\ StoryInv)' => Sound(Snapshot)'
BY CurrentSound, PTL

LEMMA SoundRestartsAfter == Restarted' => (FileInv /\ StoryInv)'
BY SoundRestarts, PTL

LEMMA CountIsIntentsAfter ==
    FileInv' => (NoIntentLost' <=> SoundCount(Snapshot)')
BY CountIsIntents, PTL

(* A snapshot stays sound when the operator receives more.                 *)
LEMMA SoundStays ==
    ASSUME NEW s, Sound(s), chat \subseteq chat'
    PROVE  Sound(s)'
<1>1. SoundFile(s)'
    BY DEF Sound, SoundFile
<1>2. SoundStreaks(s)'
    BY DEF Sound, SoundStreaks
<1>3. SoundStory(s)'
    BY DEF Sound, SoundStory
<1> QED BY <1>1, <1>2, <1>3 DEF Sound

-----------------------------------------------------------------------------
(* The invariant holds initially: the only snapshot is the missing file.   *)
LEMMA InitDisk == DiskInit => DiskInv
<1> SUFFICES ASSUME DiskInit PROVE DiskInv
    OBVIOUS
<1>1. FileInv /\ NoIntentLost /\ StoryInv
    BY InitInv, InitStory DEF DiskInit, Inv
<1>2. survivors = {Snapshot} /\ pc = "idle"
    BY DEF DiskInit, Init
<1>3. Sound(Snapshot) /\ SoundCount(Snapshot)
    BY <1>1, CurrentSound, CountIsIntents
<1>4. BytesBeforeName /\ NameBeforeSend
    BY <1>2 DEF BytesBeforeName, NameBeforeSend, ReplaceStep
<1> QED BY <1>1, <1>2, <1>3, <1>4 DEF DiskInv

(* A step of the cycle that stores nothing leaves the snapshots sound. If  *)
(* it is a delivery and directories are synced, there is only one.         *)
LEMMA ElsewhereDisk == DiskInv /\ Elsewhere => DiskInv'
<1> SUFFICES ASSUME DiskInv, Elsewhere PROVE DiskInv'
    OBVIOUS
<1>1. /\ Next /\ ~syncing /\ UNCHANGED diskVars
      /\ UNCHANGED <<file, ledger, run>> /\ chat \subseteq chat'
      /\ pc' \in {"idle", "load", "probe", "save", "saveAck"}
      /\ pc' = "saveAck" => pc = "send"
      /\ pc = "send" \/ UNCHANGED <<chat, told>>
    <2>1. /\ ~syncing /\ UNCHANGED diskVars
          /\ \/ Start \/ Load \/ LoadFails
             \/ \E o \in DeadManProbeOutcome, now \in Time :
                    ProbeAndAdvance(o, now)
             \/ \E now \in Time : AdvanceRaises(now)
             \/ WriteFails \/ Send \/ SendFails
        BY DEF Elsewhere, Ready
    <2>2. Next
        BY <2>1 DEF Next, ProcessStep
    <2>3. CASE \/ Start \/ Load \/ LoadFails
               \/ \E o \in DeadManProbeOutcome, now \in Time :
                    ProbeAndAdvance(o, now)
               \/ \E now \in Time : AdvanceRaises(now)
               \/ WriteFails
        BY <2>1, <2>2, <2>3 DEF Start, Load, LoadFails, ProbeAndAdvance,
                           AdvanceRaises, WriteFails, Exit, history
    <2>4. CASE Send \/ SendFails
        BY <2>1, <2>2, <2>4 DEF Send, SendFails, Receive, Exit
    <2> QED BY <2>1, <2>3, <2>4
<1>2. FileInv' /\ StoryInv'
    BY <1>1, NextFileInv, NextStory DEF DiskInv
<1>3. Snapshot' = Snapshot /\ survivors' = survivors /\ syncs' = syncs
                           /\ syncing' = syncing
    BY <1>1 DEF Snapshot, diskVars
<1>4. \A s \in survivors' : Sound(s)'
    BY <1>1, <1>3, SoundStays DEF DiskInv
<1>5. syncs' => \A s \in survivors' : SoundCount(s)'
    <2>1. CASE UNCHANGED <<chat, told>>
        BY <1>3, <2>1 DEF DiskInv, SoundCount
    <2>2. CASE pc = "send"
        <3> SUFFICES ASSUME syncs PROVE \A s \in {Snapshot'} : SoundCount(s)'
            BY <1>1, <1>3, <2>2 DEF DiskInv, NameBeforeSend
        <3>1. Inv
            BY CountIsIntents DEF DiskInv, Inv
        <3>2. NoIntentLost'
            BY <1>1, <3>1, NextInv DEF Inv
        <3>3. SoundCount(Snapshot)'
            BY <1>2, <3>2, CountIsIntentsAfter
        <3> QED BY <3>3
    <2> QED BY <1>1, <2>1, <2>2
<1>6. BytesBeforeName'
    BY <1>1 DEF BytesBeforeName, ReplaceStep
<1>7. NameBeforeSend'
    BY <1>1, <1>3 DEF DiskInv, NameBeforeSend
<1>8. Snapshot' \in survivors'
    BY <1>3 DEF DiskInv
<1> QED BY <1>2, <1>4, <1>5, <1>6, <1>7, <1>8 DEF DiskInv

(* Writing the temporary touches no snapshot.                              *)
LEMMA WriteDisk == DiskInv /\ WriteTemporaryDurably => DiskInv'
<1> SUFFICES ASSUME DiskInv, WriteTemporaryDurably PROVE DiskInv'
    OBVIOUS
<1>1. /\ Next /\ ~syncing /\ flushed'
      /\ UNCHANGED <<survivors, syncing, syncs, losses>>
      /\ UNCHANGED <<file, ledger, run, chat, told>>
      /\ \/ pc = "save" /\ pc' = "replace"
         \/ pc = "saveAck" /\ pc' = "replaceAck"
    BY DEF WriteTemporaryDurably, Ready, Next, ProcessStep, WriteTemporary,
           SaveStep, history
<1>2. FileInv' /\ StoryInv'
    BY <1>1, NextFileInv, NextStory DEF DiskInv
<1>3. Snapshot' = Snapshot
    BY <1>1 DEF Snapshot
<1>4. \A s \in survivors' : Sound(s)'
    BY <1>1, SoundStays DEF DiskInv
<1>5. syncs' => \A s \in survivors' : SoundCount(s)'
    BY <1>1 DEF DiskInv, SoundCount
<1>6. BytesBeforeName' /\ NameBeforeSend'
    BY <1>1, <1>3 DEF DiskInv, BytesBeforeName, NameBeforeSend
<1> QED BY <1>1, <1>2, <1>3, <1>4, <1>5, <1>6 DEF DiskInv

(* os.replace adds the new snapshot, which is sound; its bytes are on the  *)
(* disk, so none that is torn comes with it.                               *)
LEMMA ReplaceDisk == DiskInv /\ Replace => DiskInv'
<1> SUFFICES ASSUME DiskInv, Replace PROVE DiskInv'
    OBVIOUS
<1>1. /\ Next /\ syncing' /\ UNCHANGED <<syncs, chat, told>>
      /\ pc \in ReplaceStep
      /\ pc' \in {"idle", "send"}
    BY DEF Replace, Next, ProcessStep, ReplaceAdvanced, ReplaceAcknowledged,
           Exit, ReplaceStep
<1>2. FileInv' /\ StoryInv'
    BY <1>1, NextFileInv, NextStory DEF DiskInv
<1>3. survivors' = survivors \cup {Snapshot'}
    BY <1>1 DEF DiskInv, BytesBeforeName, Replace
<1>4. Sound(Snapshot)'
    BY <1>2, CurrentSoundAfter
<1>5. \A s \in survivors' : Sound(s)'
    BY <1>1, <1>3, <1>4, SoundStays DEF DiskInv
<1>6. ASSUME syncs
      PROVE  \A s \in survivors' : SoundCount(s)'
    <2>1. Inv
        BY <1>6, CountIsIntents DEF DiskInv, Inv
    <2>2. NoIntentLost'
        BY <1>1, <2>1, NextInv DEF Inv
    <2>3. SoundCount(Snapshot)'
        BY <1>2, <2>2, CountIsIntentsAfter
    <2>4. \A s \in survivors : SoundCount(s)'
        BY <1>1, <1>6 DEF DiskInv, SoundCount
    <2> QED BY <1>3, <2>3, <2>4
<1>7. BytesBeforeName' /\ NameBeforeSend'
    BY <1>1 DEF BytesBeforeName, NameBeforeSend, ReplaceStep
<1> QED BY <1>1, <1>2, <1>3, <1>5, <1>6, <1>7 DEF DiskInv

(* The directory reaches the disk, or save() returns without it: of the    *)
(* snapshots, the current one at least stays.                              *)
LEMMA SyncDisk ==
    DiskInv /\ (SyncDirectory \/ SyncSwallowed \/ Writeback) => DiskInv'
<1> SUFFICES ASSUME DiskInv, SyncDirectory \/ SyncSwallowed \/ Writeback
             PROVE  DiskInv'
    OBVIOUS
<1>1. /\ UNCHANGED vars /\ UNCHANGED <<flushed, syncs>>
      /\ survivors' \in {survivors, {Snapshot}}
      /\ survivors' = {Snapshot} \/ ~syncs
    BY DEF SyncDirectory, SyncSwallowed, Writeback
<1>2. FileInv' /\ StoryInv'
    BY <1>1, NextFileInv, NextStory DEF DiskInv
<1>3. Snapshot' = Snapshot /\ UNCHANGED <<chat, told, pc>>
    BY <1>1 DEF Snapshot, vars
<1>4. survivors' \subseteq survivors /\ Snapshot' \in survivors'
    BY <1>1, <1>3 DEF DiskInv
<1>5. \A s \in survivors' : Sound(s)'
    BY <1>3, <1>4, SoundStays DEF DiskInv
<1>6. syncs' => \A s \in survivors' : SoundCount(s)'
    BY <1>1, <1>3, <1>4 DEF DiskInv, SoundCount
<1>7. BytesBeforeName' /\ NameBeforeSend'
    BY <1>1, <1>3 DEF DiskInv, BytesBeforeName, NameBeforeSend
<1> QED BY <1>2, <1>4, <1>5, <1>6, <1>7 DEF DiskInv

(* A process that is gone, with or without the power, leaves the machine   *)
(* with a snapshot that was among the survivors, and the operator with     *)
(* what was received.                                                      *)
LEMMA StopsDisk ==
    ASSUME DiskInv, Exit, Snapshot' \in survivors,
           Snapshot' \in survivors', survivors' \subseteq survivors,
           UNCHANGED <<chat, told, syncs>>
    PROVE  DiskInv'
<1>1. \A s \in survivors' : Sound(s)'
    BY SoundStays DEF DiskInv
<1>2. Restarted'
    BY <1>1 DEF DiskInv, FileInv, TypeOK, Exit, Restarted
<1>3. FileInv' /\ StoryInv'
    BY <1>2, SoundRestartsAfter
<1>4. syncs' => \A s \in survivors' : SoundCount(s)'
    BY DEF DiskInv, SoundCount
<1>5. BytesBeforeName' /\ NameBeforeSend'
    BY DEF Exit, BytesBeforeName, NameBeforeSend, ReplaceStep
<1> QED BY <1>1, <1>3, <1>4, <1>5 DEF DiskInv

(* Every step of the machine keeps the invariant.                          *)
LEMMA NextDisk == DiskInv /\ [DiskNext]_<<vars, diskVars>> => DiskInv'
<1> SUFFICES ASSUME DiskInv, [DiskNext]_<<vars, diskVars>> PROVE DiskInv'
    OBVIOUS
<1>1. CASE Elsewhere
    BY <1>1, ElsewhereDisk
<1>2. CASE WriteTemporaryDurably
    BY <1>2, WriteDisk
<1>3. CASE ReplaceRaises \/ Kill
    <2>1. Exit /\ UNCHANGED <<file, history>> /\ UNCHANGED <<survivors, syncs>>
        BY <1>3 DEF ReplaceRaises, ReplaceFails, Kill, Crash
    <2>2. Snapshot' = Snapshot /\ UNCHANGED <<chat, told>>
        BY <2>1 DEF Snapshot, history
    <2> QED BY <2>1, <2>2, StopsDisk DEF DiskInv
<1>4. CASE Replace
    BY <1>4, ReplaceDisk
<1>5. CASE SyncDirectory \/ SyncSwallowed \/ Writeback
    BY <1>5, SyncDisk
<1>6. CASE PowerLoss
    <2>1. PICK s \in survivors :
            /\ file' = s.file /\ ledger' = s.ledger /\ run' = s.run
            /\ survivors' = {s}
            /\ Exit /\ UNCHANGED <<chat, told, syncs>>
        BY <1>6 DEF PowerLoss
    <2>2. Snapshot' = s
        BY <2>1 DEF DiskInv, Sound, SnapshotType, Snapshot
    <2> QED BY <2>1, <2>2, StopsDisk
<1>7. CASE UNCHANGED <<vars, diskVars>>
    <2>1. FileInv' /\ StoryInv'
        BY <1>7, NextFileInv, NextStory DEF DiskInv
    <2>2. /\ Snapshot' = Snapshot
          /\ UNCHANGED <<chat, told, pc, survivors, syncs, flushed, syncing>>
        BY <1>7 DEF Snapshot, vars, diskVars
    <2>3. \A s \in survivors' : Sound(s)'
        BY <2>2, SoundStays DEF DiskInv
    <2>4. syncs' => \A s \in survivors' : SoundCount(s)'
        BY <2>2 DEF DiskInv, SoundCount
    <2>5. BytesBeforeName' /\ NameBeforeSend'
        BY <2>2 DEF DiskInv, BytesBeforeName, NameBeforeSend
    <2> QED BY <2>1, <2>2, <2>3, <2>4, <2>5 DEF DiskInv
<1> QED BY <1>1, <1>2, <1>3, <1>4, <1>5, <1>6, <1>7 DEF DiskNext

(* The invariant holds throughout.                                         *)
LEMMA DiskAlways == DiskSpec => []DiskInv
BY InitDisk, NextDisk, PTL DEF DiskSpec

-----------------------------------------------------------------------------
(* Every time that is saved was read from a clock in UTC.                  *)

\* What the process holds and what a power loss may bring back can be
\* encoded.
DatedInv ==
    /\ Encodable(status)
    /\ \A s \in survivors : Encodable(Held(s))

(* The fresh start has no times.                                           *)
LEMMA InitialEncodable == Encodable(INITIAL_DEADMAN_STATUS)
BY DEF Encodable, INITIAL_DEADMAN_STATUS

(* An advance dates what it adds by the clock.                             *)
LEMMA AdvanceEncodable ==
    ASSUME NEW s \in DeadManStatusType, Encodable(s),
           NEW o \in DeadManProbeOutcome, NEW now \in Time
    PROVE  Encodable(advance_deadman_status(s, o, now))
<1> DEFINE p == s.pending_notifications
<1>1. /\ HasUtcForm(now)
      /\ p \in Seq(DeadManNotification)
      /\ s.state \in DeadManState
    BY ClockAssumption DEF HasUtcForm, DeadManStatusType
<1>2. ASSUME NEW kind, NEW to_state
      PROVE  \A i \in 1..Len(Append(p, NewNotification(s, kind, to_state, now))) :
                HasUtcForm(Append(p, NewNotification(s, kind, to_state, now))[i].at)
    <2> DEFINE n == NewNotification(s, kind, to_state, now)
    <2>1. HasUtcForm(n.at)
        BY <1>1 DEF NewNotification
    <2> HIDE DEF n
    <2>2. /\ Len(Append(p, n)) = Len(p) + 1
          /\ Append(p, n)[Len(p) + 1] = n
          /\ \A i \in 1..Len(p) : Append(p, n)[i] = p[i]
        BY <1>1, AppendProperties
    <2>3. \A i \in 1..Len(p) : HasUtcForm(p[i].at)
        BY DEF Encodable
    <2>4. \A i \in 1..(Len(p) + 1) : HasUtcForm(Append(p, n)[i].at)
        BY <1>1, <2>1, <2>2, <2>3
    <2> QED BY <2>2, <2>4 DEF n
<1>3. Encodable(EnterDown(s, now))
    BY <1>1, <1>2 DEF EnterDown, Encodable
<1>4. Encodable(LeaveDown(s, now))
    BY <1>1, <1>2 DEF LeaveDown, Encodable
<1>5. Encodable(advance_failure(s, now))
    <2>1. CASE advance_failure(s, now) = EnterDown(s, now)
        BY <1>3, <2>1
    <2>2. CASE advance_failure(s, now) # EnterDown(s, now)
        <3>1. /\ advance_failure(s, now).state_changed_at = s.state_changed_at
              /\ advance_failure(s, now).pending_notifications = p
            BY <2>2 DEF advance_failure, DeadManStatusType
        <3> QED BY <3>1 DEF Encodable
    <2> QED BY <2>1, <2>2
<1>6. Encodable(advance_success(s, now))
    <2>1. CASE advance_success(s, now) = LeaveDown(s, now)
        BY <1>4, <2>1
    <2>2. CASE advance_success(s, now) # LeaveDown(s, now)
        <3>1. /\ advance_success(s, now).state_changed_at
                        \in {s.state_changed_at, now}
              /\ advance_success(s, now).pending_notifications = p
            BY <1>1, <2>2 DEF advance_success, DeadManStatusType, DeadManState
        <3> QED BY <1>1, <3>1 DEF Encodable
    <2> QED BY <2>1, <2>2
<1> QED BY <1>5, <1>6 DEF advance_deadman_status

(* An acknowledgement adds no time.                                        *)
LEMMA AcknowledgeEncodable ==
    ASSUME NEW s \in DeadManStatusType, Encodable(s), NEW id,
           s.pending_notifications # <<>>
    PROVE  Encodable(acknowledge_deadman_notification(s, id))
<1> DEFINE p == s.pending_notifications
           a == acknowledge_deadman_notification(s, id)
<1>1. a.state_changed_at = s.state_changed_at /\ a.pending_notifications = Tail(p)
    BY DEF acknowledge_deadman_notification, DeadManStatusType
<1>2. p \in Seq(DeadManNotification)
    BY DEF DeadManStatusType
<1>3. /\ Len(Tail(p)) = Len(p) - 1 /\ Len(p) \in Nat
      /\ \A i \in 1..Len(Tail(p)) : Tail(p)[i] = p[i + 1]
    BY <1>2, HeadTailProperties
<1> HIDE DEF a
<1> QED BY <1>1, <1>3 DEF Encodable, a

(* Every step of the machine keeps what is held and what survives          *)
(* encodable.                                                              *)
LEMMA NextDated ==
    DiskInv /\ DatedInv /\ [DiskNext]_<<vars, diskVars>> => DatedInv'
<1> SUFFICES ASSUME DiskInv, DatedInv, [DiskNext]_<<vars, diskVars>>
             PROVE  DatedInv'
    OBVIOUS
<1>1. /\ status \in DeadManStatusType
      /\ Encodable(Persisted)
      /\ Held(Snapshot) = Persisted
      /\ pc = "send" => status.pending_notifications # <<>>
    BY SnapshotFields
    DEF DiskInv, DatedInv, FileInv, TypeOK, MemoryTracksFile
<1>2. ASSUME Encodable(status'), survivors' \subseteq survivors
      PROVE  DatedInv'
    BY <1>2 DEF DatedInv, Held
<1>3. CASE Exit /\ survivors' \subseteq survivors
    BY <1>2, <1>3, InitialEncodable DEF Exit
<1>4. CASE Elsewhere
    <2>1. survivors' = survivors
        BY <1>4 DEF Elsewhere, diskVars
    <2>2. CASE Start \/ Load
        BY <1>1, <1>2, <2>1, <2>2 DEF Start, Load, DatedInv
    <2>3. CASE LoadFails \/ WriteFails \/ SendFails
                \/ \E now \in Time : AdvanceRaises(now)
        BY <1>3, <2>1, <2>3
        DEF LoadFails, WriteFails, SendFails, AdvanceRaises
    <2>4. CASE \E o \in DeadManProbeOutcome, now \in Time :
                    ProbeAndAdvance(o, now)
        <3>1. PICK o \in DeadManProbeOutcome, now \in Time :
                    status' = advance_deadman_status(status, o, now)
            BY <2>4 DEF ProbeAndAdvance
        <3>2. Encodable(advance_deadman_status(status, o, now))
            BY <1>1, AdvanceEncodable DEF DatedInv
        <3> QED BY <1>2, <2>1, <3>1, <3>2
    <2>5. CASE Send
        <3>1. PICK id : status' = acknowledge_deadman_notification(status, id)
            BY <2>5 DEF Send
        <3>2. Encodable(acknowledge_deadman_notification(status, id))
            BY <1>1, <2>5, AcknowledgeEncodable DEF DatedInv, Send
        <3> QED BY <1>2, <2>1, <3>1, <3>2
    <2> QED BY <1>4, <2>2, <2>3, <2>4, <2>5 DEF Elsewhere
<1>5. CASE WriteTemporaryDurably
    BY <1>2, <1>5 DEF WriteTemporaryDurably, WriteTemporary, DatedInv
<1>6. CASE Replace
    <2>1. survivors' = survivors \cup {Snapshot'}
        BY <1>6 DEF Replace, ReplaceAdvanced, ReplaceAcknowledged, DiskInv,
                    BytesBeforeName, ReplaceStep
    <2>2. /\ file' = status
          /\ Encodable(status')
        BY <1>6, InitialEncodable
        DEF Replace, ReplaceAdvanced, ReplaceAcknowledged, Exit, DatedInv
    <2>3. Held(Snapshot)' = status
        <3>1. status # NoFile
            BY <1>1, CycleAssumption
        <3> QED BY <2>2, <3>1 DEF Held, Snapshot
    <2>4. \A s \in survivors : Encodable(Held(s))'
        BY DEF DatedInv, Held
    <2>5. Encodable(Held(Snapshot))'
        BY <2>3 DEF DatedInv, Encodable, HasUtcForm
    <2> QED BY <2>1, <2>2, <2>4, <2>5 DEF DatedInv
<1>7. CASE SyncDirectory \/ SyncSwallowed \/ Writeback
    BY <1>2, <1>7
    DEF SyncDirectory, SyncSwallowed, Writeback, DiskInv, DatedInv, vars
<1>8. CASE ReplaceRaises \/ Kill \/ PowerLoss
    BY <1>3, <1>8 DEF ReplaceRaises, ReplaceFails, Kill, Crash, PowerLoss
<1>9. CASE UNCHANGED <<vars, diskVars>>
    BY <1>2, <1>9 DEF vars, diskVars, DatedInv
<1> QED BY <1>4, <1>5, <1>6, <1>7, <1>8, <1>9 DEF DiskNext

(* So every status is encodable throughout.                                *)
LEMMA DatedAlways == DiskSpec => [](DiskInv /\ DatedInv)
<1>1. DiskInit => DatedInv
    BY InitialEncodable DEF DiskInit, Init, DatedInv, Held, Snapshot
<1> QED BY <1>1, NextDated, DiskAlways, PTL DEF DiskSpec

(* Whatever a power loss brings back is a whole snapshot that the next     *)
(* load accepts and takes for the status that was saved.                   *)
THEOREM SavesAreReadable == DiskSpec => []SurvivorsReadable
<1>1. DiskInv /\ DatedInv => SurvivorsReadable
    <2> SUFFICES ASSUME DiskInv, DatedInv, NEW s \in survivors,
                        s.file # NoFile
                 PROVE  s.file # Torn /\ RoundTrips(s.file)
        BY DEF SurvivorsReadable, DiskInv
    <2>1. Sound(s)
        BY DEF DiskInv
    <2>2. GoodStatus(s.file)
        BY <2>1 DEF Sound, SnapshotType, SoundFile, Held, GoodStatus
    <2>3. RoundTrips(s.file)
        BY <2>2, CodecRoundTrips DEF DatedInv, Held
    <2>4. s.file # Torn
        <3>1. "state" \in DOMAIN s.file
            BY <2>2 DEF GoodStatus, DeadManStatusType
        <3>2. "state" \notin DOMAIN Torn
            BY DEF Torn, Refused
        <3> QED BY <3>1, <3>2
    <2> QED BY <2>3, <2>4
<1> QED BY <1>1, DatedAlways, PTL

(* A file damaged or edited in one place is refused, or says of every key  *)
(* what the encoder would.                                                 *)
THEOREM NothingCoerced == DiskSpec => []StrictDecoding
<1>1. DiskInv /\ DatedInv => StrictDecoding
    <2> SUFFICES ASSUME DiskInv, DatedInv, file # NoFile
                 PROVE  StrictlyDecoded(file)
        BY DEF StrictDecoding
    <2>1. file \in DeadManStatusType
        BY DEF DiskInv, FileInv, TypeOK
    <2>2. Encodable(file)
        BY DEF DiskInv, DatedInv, Held, Snapshot
    <2> QED BY <2>1, <2>2, EditsAreRefused
<1> QED BY <1>1, DatedAlways, PTL

(* Where directories are synced, no power loss takes back an alert the     *)
(* operator was told of.                                                   *)
THEOREM SyncsLoseNothing == DiskSpec => []SyncedLosesNothing
<1>1. DiskInv => SyncedLosesNothing
    BY CountIsIntents DEF DiskInv, SyncedLosesNothing
<1> QED BY <1>1, DiskAlways, PTL

(* Directories synced or not, what comes back agrees with the history it   *)
(* stands for.                                                             *)
THEOREM PowerLossConsistent == DiskSpec => []HistoryConsistent
<1>1. DiskInv => HistoryConsistent
    BY DEF DiskInv, StoryInv, HistoryConsistent
<1> QED BY <1>1, DiskAlways, PTL

-----------------------------------------------------------------------------
(* While the power holds.                                                  *)

\* A process that is gone has left nothing in memory.
NothingInMemory ==
    pc = "idle" => status = INITIAL_DEADMAN_STATUS /\ outcome = "NONE"

(* While the power holds, the machine does what the cycle does: the steps  *)
(* of save() that DeadManCycle leaves out, and what the kernel does on its *)
(* own, are invisible to it.                                               *)
THEOREM DiskImplementsCycle == DiskSpec /\ [](losses = 0) => Spec
<1>1. DiskInit => Init /\ NothingInMemory
    BY DEF DiskInit, Init, NothingInMemory
<1>2. ASSUME NothingInMemory, losses = 0, (losses = 0)',
             [DiskNext]_<<vars, diskVars>>
      PROVE  NothingInMemory' /\ [Next]_vars
    <2>1. losses' = 0
        BY <1>2
    <2>2. CASE Elsewhere
        <3>1. \/ Start \/ Load \/ LoadFails
              \/ \E o \in DeadManProbeOutcome, now \in Time :
                    ProbeAndAdvance(o, now)
              \/ \E now \in Time : AdvanceRaises(now)
              \/ WriteFails \/ Send \/ SendFails
            BY <2>2 DEF Elsewhere
        <3>2. Next
            BY <3>1 DEF Next, ProcessStep
        <3>3. NothingInMemory'
            BY <3>1 DEF NothingInMemory, Start, Load, LoadFails,
                ProbeAndAdvance, AdvanceRaises, WriteFails, Send, SendFails,
                Exit
        <3> QED BY <3>2, <3>3
    <2>3. CASE WriteTemporaryDurably
        BY <2>3 DEF WriteTemporaryDurably, WriteTemporary, Next, ProcessStep,
                    SaveStep, NothingInMemory
    <2>4. CASE ReplaceRaises
        BY <2>4 DEF ReplaceRaises, ReplaceFails, Next, ProcessStep, Exit,
                    NothingInMemory
    <2>5. CASE Replace
        BY <2>5 DEF Replace, ReplaceAdvanced, ReplaceAcknowledged, Next,
                    ProcessStep, Exit, NothingInMemory
    <2>6. CASE SyncDirectory \/ SyncSwallowed \/ Writeback
        BY <1>2, <2>6 DEF SyncDirectory, SyncSwallowed, Writeback, vars,
                          NothingInMemory
    <2>7. CASE Kill
        <3>1. Exit /\ UNCHANGED <<file, history>>
            BY <2>7 DEF Kill, Crash
        <3>2. NothingInMemory'
            BY <3>1 DEF Exit, NothingInMemory
        <3>3. CASE pc # "idle"
            BY <3>1, <3>2, <3>3 DEF Next, Crash
        <3>4. CASE pc = "idle"
            BY <1>2, <3>1, <3>2, <3>4
            DEF NothingInMemory, Exit, vars, history
        <3> QED BY <3>3, <3>4
    <2>8. CASE PowerLoss
        BY <1>2, <2>1, <2>8 DEF PowerLoss
    <2>9. CASE UNCHANGED <<vars, diskVars>>
        BY <1>2, <2>9 DEF vars, NothingInMemory
    <2> QED BY <1>2, <2>2, <2>3, <2>4, <2>5, <2>6, <2>7, <2>8, <2>9
            DEF DiskNext
<1> QED BY <1>1, <1>2, PTL DEF DiskSpec, Spec

(* So what the operator sees of a machine whose power holds is the outbox, *)
(* whichever process is killed where and whatever fsync refuses.           *)
THEOREM DiskImplementsOutbox ==
    DiskSpec /\ [](losses = 0) => ImplementsOutbox
BY DiskImplementsCycle, CycleImplementsOutbox, PTL
=============================================================================
