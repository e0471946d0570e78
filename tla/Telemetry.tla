----------------------------- MODULE Telemetry ------------------------------
(***************************************************************************)
(* What a heartbeat says: the strict decoding of the payload (wire.py) into *)
(* the domain's telemetry (domain.py), and the telemetry's way through the *)
(* columns of a row and back (persistence/repository.py).                  *)
(*                                                                         *)
(* A JSON value is <<kind, content>>: a "number" is one that float() makes *)
(* finite, an "unbounded" one is not; a "time" is a string that            *)
(* fromisoformat reads, a "text" any other. An object's content is a       *)
(* function on its keys. The payload's node is kept with the request.      *)
(*                                                                         *)
(* A datetime is its wall clock, whether it has an offset, and the offset. *)
(* datetime covers 0..MaxInstant.                                          *)
(***************************************************************************)
EXTENDS Integers, Sequences, SequencesExt

CONSTANTS Resolution,          \* instants of the clock in a second
          MaxInstant           \* datetime.max

ASSUME TelemetryAssumption ==
    /\ Resolution \in Nat \ {0}
    /\ MaxInstant \in Nat

Kind(v) == v[1]

Content(v) == v[2]

-----------------------------------------------------------------------------
(* datetime.                                                               *)

Datetime(local, offset) == [local |-> local, aware |-> TRUE, offset |-> offset]

InstantOf(d) == d.local - d.offset

\* astimezone(UTC) does not raise OverflowError.
HasUtcForm(d) == InstantOf(d) \in 0..MaxInstant

\* Mutant: the shorthand for UTC, which sorts after a fraction.
serialize_timestamp_zulu(d) ==
    LET second == InstantOf(d) \div Resolution
        micros == InstantOf(d) % Resolution
    IN  IF micros = 0 THEN <<second, 90>> ELSE <<second, 46, micros, 90>>

\* astimezone(UTC).isoformat(): a fraction is written only when it is not
\* zero; it begins with a point (46), the offset with a plus sign (43).
serialize_timestamp(d) ==
    LET second == InstantOf(d) \div Resolution
        micros == InstantOf(d) % Resolution
    IN  IF micros = 0 THEN <<second, 43>> ELSE <<second, 46, micros, 43>>

\* fromisoformat on what serialize_timestamp wrote.
parse_timestamp(text) ==
    Datetime(text[1] * Resolution + (IF Len(text) = 4 THEN text[3] ELSE 0), 0)

-----------------------------------------------------------------------------
(* The domain's constructors refuse what is out of range.                  *)

ValidPercent(n) == n \in 0..100

ValidLoad(load) == load.one >= 0 /\ load.five >= 0 /\ load.fifteen >= 0

\* A resource with no total is absent.
ValidResource(resource) ==
    /\ resource.used >= 0
    /\ resource.total >= 0
    /\ ValidPercent(resource.percent)
    /\ IF resource.total = 0
       THEN resource.used = 0 /\ resource.percent = 0
       ELSE resource.used <= resource.total

Resources == {"ram", "swap", "root_fs", "root_inodes"}

ValidTelemetry(telemetry) ==
    /\ telemetry.timestamp.aware
    /\ telemetry.uptime_seconds >= 0
    /\ ValidLoad(telemetry.load)
    /\ ValidPercent(telemetry.cpu_percent)
    /\ \A r \in Resources : ValidResource(telemetry[r])

-----------------------------------------------------------------------------
(* Decoding.                                                               *)

TOP_LEVEL_FIELDS ==
    {"reported_at", "uptime_seconds", "load", "cpu_percent"} \cup Resources

LOAD_FIELDS == {"one", "five", "fifteen"}

RESOURCE_FIELDS == {"used", "total", "percent"}

require_exact_keys(mapping, required) == DOMAIN mapping = required

\* Neither a bool nor a string nor what float() makes infinite.
require_number(v) == Kind(v) = "number"

require_reported_at(v) == Kind(v) = "time" /\ Content(v).aware

\* An object of numbers with exactly these keys.
NumbersObject(v, required) ==
    /\ Kind(v) = "object"
    /\ require_exact_keys(Content(v), required)
    /\ \A key \in required : require_number(Content(v)[key])

DecodedNumbers(v) == [key \in DOMAIN Content(v) |-> Content(Content(v)[key])]

\* The telemetry of a payload of the right shape.
DecodedTelemetry(payload) ==
    [timestamp |-> Content(payload.reported_at),
     uptime_seconds |-> Content(payload.uptime_seconds),
     load |-> DecodedNumbers(payload.load),
     cpu_percent |-> Content(payload.cpu_percent),
     ram |-> DecodedNumbers(payload.ram),
     swap |-> DecodedNumbers(payload.swap),
     root_fs |-> DecodedNumbers(payload.root_fs),
     root_inodes |-> DecodedNumbers(payload.root_inodes)]

\* decode_heartbeat_payload returns: shape first, then ranges.
decodes_payload(payload) ==
    /\ require_exact_keys(payload, TOP_LEVEL_FIELDS)
    /\ require_reported_at(payload.reported_at)
    /\ require_number(payload.uptime_seconds)
    /\ require_number(payload.cpu_percent)
    /\ NumbersObject(payload.load, LOAD_FIELDS)
    /\ \A r \in Resources : NumbersObject(payload[r], RESOURCE_FIELDS)
    /\ ValidTelemetry(DecodedTelemetry(payload))

-----------------------------------------------------------------------------
(* The row. Its columns are written and read by position.                  *)

Record(node, telemetry, received_at) ==
    [node |-> node, telemetry |-> telemetry, received_at |-> received_at]

\* The parameters of the INSERT, in the order of _COLUMNS.
Parameters(record) ==
    LET t == record.telemetry
        columns(r) == <<t[r].used, t[r].total, t[r].percent>>
    IN  <<record.node, serialize_timestamp(t.timestamp),
          serialize_timestamp(record.received_at), t.uptime_seconds,
          t.load.one, t.load.five, t.load.fifteen, t.cpu_percent>>
        \o columns("ram") \o columns("swap")
        \o columns("root_fs") \o columns("root_inodes")

\* Mutant: total comes first.
resource_columns_swapped(row, at) ==
    [used |-> row[at + 1], total |-> row[at], percent |-> row[at + 2]]

resource_columns(row, at) ==
    [used |-> row[at], total |-> row[at + 1], percent |-> row[at + 2]]

row_to_record(row) ==
    Record(row[1],
           [timestamp |-> parse_timestamp(row[2]),
            uptime_seconds |-> row[4],
            load |-> [one |-> row[5], five |-> row[6], fifteen |-> row[7]],
            cpu_percent |-> row[8],
            ram |-> resource_columns(row, 9),
            swap |-> resource_columns(row, 12),
            root_fs |-> resource_columns(row, 15),
            root_inodes |-> resource_columns(row, 18)],
           parse_timestamp(row[3]))

\* Equality of records: datetimes are equal when their instants are.
SameRecord(a, b) ==
    LET instants(r) ==
            [r EXCEPT !.telemetry.timestamp = InstantOf(@),
                      !.received_at = InstantOf(@)]
    IN  instants(a) = instants(b)
=============================================================================
