---------------------------- MODULE DeadManCodec ----------------------------
(***************************************************************************)
(* The persisted document of the dead-man status                           *)
(* (deadman.encode_deadman_status and decode_deadman_status, schema        *)
(* version 4): a strict codec that refuses a document with one key too     *)
(* many rather than guess what it meant.                                   *)
(*                                                                         *)
(* A JSON value is <<kind, content>>. Kind "text" and kind "time" are both *)
(* JSON strings; the content of a time is the instant and how it is        *)
(* written: "utc", with another "offset", or "naive". An offset reaches    *)
(* instants that have no UTC form (a day of year 1 or 9999 whose UTC date  *)
(* is outside those years): fromisoformat accepts them and astimezone(utc) *)
(* raises OverflowError. An object's content is a function on its keys.    *)
(* What json.loads itself refuses (bad syntax, a duplicate key, NaN, deep  *)
(* nesting) is the value Garbage.                                          *)
(***************************************************************************)
EXTENDS DeadManStatus

Kind(v) == v[1]

Content(v) == v[2]

Null == <<"null", 0>>

Garbage == <<"garbage", 0>>

CONSTANT UtcInstants   \* the instants whose UTC date is in years 1 to 9999

SCHEMA_VERSION == 4

STATE_FIELDS ==
    {"schema_version", "state", "consecutive_failures",
     "consecutive_successes", "state_changed_at", "pending_notifications",
     "next_notification_id", "current_down"}

NOTIFICATION_FIELDS == {"notification_id", "kind", "transition"}

TRANSITION_FIELDS == {"from_state", "to_state", "at"}

CURRENT_DOWN_FIELDS == {"notification_id", "acknowledged"}

\* No status is Refused: it stands for DeadManStateDecodeError.
Refused == [refused |-> TRUE]

-----------------------------------------------------------------------------
(* Encoding. Offsets are normalised, so equal instants have equal texts -  *)
(* if they have one.                                                       *)

\* No document: it stands for the OverflowError of astimezone(utc).
Overflow == <<"overflow", 0>>

HasUtcForm(t) == t \in UtcInstants

encode_datetime(t) ==
    IF HasUtcForm(t) THEN <<"time", <<t, "utc">>>> ELSE Overflow

encode_notification(n) ==
    <<"object",
      [notification_id |-> <<"int", n.notification_id>>,
       kind |-> <<"text", n.kind>>,
       transition |->
         <<"object", [from_state |-> <<"text", n.from_state>>,
                      to_state |-> <<"text", n.to_state>>,
                      at |-> encode_datetime(n.at)]>>]>>

\* Every time of s can be written.
Encodable(s) ==
    /\ s.state_changed_at # NoTime => HasUtcForm(s.state_changed_at)
    /\ \A i \in 1..Len(s.pending_notifications) :
            HasUtcForm(s.pending_notifications[i].at)

Document(s) ==
    <<"object",
      [schema_version |-> <<"int", SCHEMA_VERSION>>,
       state |-> <<"text", s.state>>,
       consecutive_failures |-> <<"int", s.consecutive_failures>>,
       consecutive_successes |-> <<"int", s.consecutive_successes>>,
       state_changed_at |-> IF s.state_changed_at = NoTime THEN Null
                            ELSE encode_datetime(s.state_changed_at),
       pending_notifications |->
         <<"array", [i \in 1..Len(s.pending_notifications) |->
                        encode_notification(s.pending_notifications[i])]>>,
       next_notification_id |-> <<"int", s.next_notification_id>>,
       current_down |->
         IF s.current_down = NoDown THEN Null
         ELSE <<"object",
                [notification_id |-> <<"int", s.current_down.notification_id>>,
                 acknowledged |-> <<"bool", s.current_down.acknowledged>>]>>]>>

encode_deadman_status(s) == IF Encodable(s) THEN Document(s) ELSE Overflow

-----------------------------------------------------------------------------
(* Decoding: what each field must look like.                               *)

\* Mutant: unknown keys are ignored.
require_known_keys(v, fields) ==
    Kind(v) = "object" /\ fields \subseteq DOMAIN Content(v)

require_exact_keys(v, fields) ==
    Kind(v) = "object" /\ DOMAIN Content(v) = fields

decode_state_value(v) == Kind(v) = "text" /\ Content(v) \in DeadManState

decode_notification_kind(v) ==
    Kind(v) = "text" /\ Content(v) \in DeadManNotificationKind

\* A bool is an int to Python, and not to this codec.
decode_counter(v) == Kind(v) = "int" /\ Content(v) >= 0

decode_notification_id(v) == Kind(v) = "int" /\ Content(v) >= 1

decode_bool(v) == Kind(v) = "bool"

decode_datetime(v) == Kind(v) = "time" /\ Content(v)[2] # "naive"

decode_transition(v) ==
    /\ require_exact_keys(v, TRANSITION_FIELDS)
    /\ decode_state_value(Content(v).from_state)
    /\ decode_state_value(Content(v).to_state)
    /\ decode_datetime(Content(v).at)

decode_notification(v) ==
    /\ require_exact_keys(v, NOTIFICATION_FIELDS)
    /\ decode_notification_kind(Content(v).kind)
    /\ decode_transition(Content(v).transition)
    /\ decode_notification_id(Content(v).notification_id)

decode_notifications(v) ==
    /\ Kind(v) = "array"
    /\ \A i \in 1..Len(Content(v)) : decode_notification(Content(v)[i])

decode_current_down(v) ==
    \/ v = Null
    \/ /\ require_exact_keys(v, CURRENT_DOWN_FIELDS)
       /\ decode_notification_id(Content(v).notification_id)
       /\ decode_bool(Content(v).acknowledged)

\* The status whose constructor is called with the decoded fields.
DecodedStatus(c) ==
    LET pending == Content(c.pending_notifications)
        Notification(n) ==
            LET transition == Content(n.transition)
            IN  [notification_id |-> Content(n.notification_id),
                 kind |-> Content(n.kind),
                 from_state |-> Content(transition.from_state),
                 to_state |-> Content(transition.to_state),
                 at |-> Content(transition.at)[1]]
        down == Content(c.current_down)
    IN  [state |-> Content(c.state),
         consecutive_failures |-> Content(c.consecutive_failures),
         consecutive_successes |-> Content(c.consecutive_successes),
         state_changed_at |-> IF c.state_changed_at = Null THEN NoTime
                              ELSE Content(c.state_changed_at)[1],
         pending_notifications |->
            [i \in 1..Len(pending) |-> Notification(Content(pending[i]))],
         next_notification_id |-> Content(c.next_notification_id),
         current_down |->
            IF c.current_down = Null THEN NoDown
            ELSE [notification_id |-> Content(down.notification_id),
                  acknowledged |-> Content(down.acknowledged)]]

WellFormed(v) ==
    LET c == Content(v)
    IN  /\ require_exact_keys(v, STATE_FIELDS)
        /\ c.schema_version = <<"int", SCHEMA_VERSION>>
        /\ decode_state_value(c.state)
        /\ decode_counter(c.consecutive_failures)
        /\ decode_counter(c.consecutive_successes)
        /\ c.state_changed_at = Null \/ decode_datetime(c.state_changed_at)
        /\ decode_notifications(c.pending_notifications)
        /\ decode_notification_id(c.next_notification_id)
        /\ decode_current_down(c.current_down)

\* Every shape error and every ValueError of a constructor is Refused.
decode_deadman_status(v) ==
    IF WellFormed(v) /\ ValidStatus(DecodedStatus(Content(v)))
    THEN DecodedStatus(Content(v))
    ELSE Refused

-----------------------------------------------------------------------------
(* Damaged and edited documents: the ones that differ from a given one in  *)
(* one place, at any depth.                                                *)

CONSTANT Junk     \* the values an edit may put in the place of another

\* S is a set of JSON values and holds what its members are made of.
JsonValues(S) ==
    \A v \in S :
        /\ v = <<Kind(v), Content(v)>>
        /\ Kind(v) = "time" => Content(v) \in Nat \X {"utc", "offset", "naive"}
        /\ Kind(v) = "array" => Content(v) \in Seq(S)
        /\ Kind(v) = "object" => Content(v) \in [DOMAIN Content(v) -> S]

ASSUME JunkAssumption == JsonValues(Junk)

Edits(object) ==
    LET c == Content(object)
        keys == DOMAIN c
    IN  {<<"object", [c EXCEPT ![k] = v]>> : k \in keys, v \in Junk}
        \cup {<<"object", [j \in keys \ {k} |-> c[j]]>> : k \in keys}
        \cup {<<"object", [j \in keys \cup {"unknown"} |->
                    IF j = "unknown" THEN v ELSE c[j]]>> : v \in Junk}

\* The document with the value under k replaced by each of values.
With(object, k, values) ==
    {<<"object", [Content(object) EXCEPT ![k] = v]>> : v \in values}

EditedNotification(n) ==
    Edits(n) \cup With(n, "transition", Edits(Content(n).transition))

\* A queue with one element dropped, repeated, swapped with its neighbour,
\* or edited.
EditedQueue(queue) ==
    LET q == Content(queue)
        n == Len(q)
        Reindexed(f) == <<"array", [i \in DOMAIN f |-> q[f[i]]]>>
    IN  {Reindexed([i \in 1..(n - 1) |-> IF i < k THEN i ELSE i + 1]) :
            k \in 1..n}
        \cup {Reindexed([i \in 1..(n + 1) |-> IF i <= k THEN i ELSE i - 1]) :
            k \in 1..n}
        \cup {Reindexed([i \in 1..n |-> IF i = k THEN k + 1
                                        ELSE IF i = k + 1 THEN k ELSE i]) :
            k \in 1..(n - 1)}
        \cup UNION {{<<"array", [q EXCEPT ![k] = v]>> :
                        v \in EditedNotification(q[k])} : k \in 1..n}

EditedDocument(document) ==
    LET c == Content(document)
    IN  {Garbage} \cup Junk \cup Edits(document)
        \cup With(document, "pending_notifications",
                  EditedQueue(c.pending_notifications))
        \cup (IF c.current_down = Null THEN {}
              ELSE With(document, "current_down", Edits(c.current_down)))

-----------------------------------------------------------------------------
\* The same value with every instant written in UTC.
InUtc(v) == IF Kind(v) = "time" THEN encode_datetime(Content(v)[1]) ELSE v

NormalizedNotification(n) ==
    LET c == Content(n)
        t == Content(c.transition)
    IN  <<"object", [c EXCEPT !.transition =
                        <<"object", [t EXCEPT !.at = InUtc(@)]>>]>>

\* An accepted document as the encoder would have written it.
Normalized(document) ==
    LET c == Content(document)
        q == Content(c.pending_notifications)
    IN  <<"object",
          [c EXCEPT !.state_changed_at = InUtc(@),
                    !.pending_notifications =
                        <<"array", [i \in 1..Len(q) |->
                                        NormalizedNotification(q[i])]>>]>>

(* What is written is what is read: the status can be encoded, and         *)
(* survives the encoder and the strict decoder unchanged, so save() never  *)
(* writes what load() refuses.                                             *)
RoundTrips(s) == decode_deadman_status(encode_deadman_status(s)) = s

(* Nothing in a document is ignored, defaulted or coerced: a document that *)
(* differs from a saved one in one place is refused, or the encoder would  *)
(* write it back as it is, offsets aside - or could not write it at all,   *)
(* which is so only of a status with a time that has no UTC form.          *)
StrictlyDecoded(s) ==
    \A d \in EditedDocument(encode_deadman_status(s)) :
        LET decoded == decode_deadman_status(d)
        IN  decoded # Refused =>
                encode_deadman_status(decoded) =
                    IF Encodable(decoded) THEN Normalized(d) ELSE Overflow
=============================================================================
