--------------------------- MODULE HeartbeatApi -----------------------------
(***************************************************************************)
(* One request at a time through the central process: framing and body     *)
(* (http_server.py), HTTP semantics (http_api.py), authentication          *)
(* (wire.py), ingestion (ingestion.py) and the heartbeat table             *)
(* (persistence/repository.py). The payload's decoding and the columns of  *)
(* a row are Telemetry's.                                                  *)
(*                                                                         *)
(* A request is what the checks tell apart. A header that may be repeated  *)
(* is the sequence of its values. A Content-Length value is its decimal    *)
(* digits, a value that is no digit string the empty one. sent is how many *)
(* body bytes the client sends before it closes its side, json how many of *)
(* them, from the first, are a strict JSON object (0: none), node and      *)
(* payload what that object holds.                                         *)
(*                                                                         *)
(* The clock reads instants, Resolution to a second. A row's token and     *)
(* accepted record, and acked, are history.                                *)
(***************************************************************************)
EXTENDS Telemetry

CONSTANTS Hosts,               \* SentinelConfig.hosts
          Credentials,         \* NodeCredentials: a token for some hosts
          NoNode,              \* the payload claims no usable node
          Requests,            \* the requests clients make
          Time,                \* the instants the central clock may read
          MaxText,             \* the digits of MAX_HEARTBEAT_BODY_BYTES
          MaxRows              \* bound: rows in the table

\* What int() makes of digits; value[n] is what it makes of the first n.
Value(digits) ==
    LET value[n \in 0..Len(digits)] ==
            IF n = 0 THEN 0 ELSE 10 * value[n - 1] + digits[n]
    IN  value[Len(digits)]

MAX_CONTENT_LENGTH == Value(MaxText)

ASSUME ApiAssumption ==
    /\ DOMAIN Credentials \subseteq Hosts
    /\ \A g, h \in DOMAIN Credentials : Credentials[g] = Credentials[h] => g = h
    /\ NoNode \notin Hosts
    /\ Time \subseteq 0..MaxInstant
    /\ MaxText \in Seq(0..9) /\ MaxText # <<>> /\ MaxText[1] # 0
    /\ MaxRows \in Nat

NoRequest == [command |-> "NONE"]

ASSUME RequestsAssumption ==
    /\ NoRequest \notin Requests
    /\ \A r \in Requests :
        /\ r.content_length \in Seq(Seq(0..9))
        /\ r.sent \in Nat /\ r.json \in Nat
        /\ r.content_type \in Seq({"json", "unsupported", "malformed"})
        /\ r.tokens \in Seq(ToSet(r.tokens))

VARIABLES rows,      \* heartbeat_observation; a row's id is its index
          pc,        \* where the handler is
          request,   \* the request being served, or NoRequest
          body,      \* bytes of the body that were read
          response,  \* what is going to be sent
          receipt,   \* the observation id, 0 before the commit
          fault,     \* history: SQLite failed during this request
          acked      \* history: ids some client was told 204 for

vars == <<rows, pc, request, body, response, receipt, fault, acked>>

Response(status, allow) == [status |-> status, allow |-> allow]

NoResponse == Response(0, {})

Init ==
    /\ rows = <<>>
    /\ pc = "idle"
    /\ request = NoRequest
    /\ body = 0
    /\ response = NoResponse
    /\ receipt = 0
    /\ fault = FALSE
    /\ acked = {}

-----------------------------------------------------------------------------
(* Framing. Checks are made in order; the first that fails decides.        *)

Proceed == 0

Require(condition, status) == IF condition THEN Proceed ELSE status

FirstRefusal(checks) ==
    LET failed == SelectInSeq(checks, LAMBDA status : status # Proceed)
    IN  IF failed = 0 THEN Proceed ELSE checks[failed]

IsHeartbeatPost(r) == r.command = "POST" /\ r.path = "/v1/heartbeat"

\* raw.lstrip("0")
StripZeroes(digits) ==
    LET first == SelectInSeq(digits, LAMBDA d : d # 0)
    IN  IF first = 0 THEN <<>> ELSE SubSeq(digits, first, Len(digits))

\* Lexicographic order, of digit strings and of timestamp texts.
TextBefore(a, b) ==
    \E i \in 1..Len(b) :
        /\ \A j \in 1..(i - 1) : j <= Len(a) /\ a[j] = b[j]
        /\ i > Len(a) \/ a[i] < b[i]

\* Mutant: the digit strings are compared as they stand.
declared_length_textual(raw) == Require(~TextBefore(MaxText, raw), 413)

\* The length of the significant digits first, their text second.
declared_length_status(raw) ==
    LET significant == StripZeroes(raw)
        oversized == \/ Len(significant) > Len(MaxText)
                     \/ /\ Len(significant) = Len(MaxText)
                        /\ TextBefore(MaxText, significant)
    IN  Require(~oversized, 413)

content_length_status(values) ==
    IF Len(values) = 1 /\ values[1] # <<>>
    THEN declared_length_status(values[1])
    ELSE IF values = <<>> THEN 411 ELSE 400

DeclaredLength(r) ==
    IF Len(r.content_length) = 1 THEN Value(StripZeroes(r.content_length[1]))
                                 ELSE 0

\* Only a heartbeat POST is framed; a body cut short is refused.
FramingStatus(r) ==
    IF ~IsHeartbeatPost(r)
    THEN Proceed
    ELSE FirstRefusal(<<Require(~r.expect, 417),
                        Require(~r.transfer_encoding, 400),
                        content_length_status(r.content_length),
                        Require(r.sent >= DeclaredLength(r), 400)>>)

\* The headers let the body be read.
AwaitsBody(r) ==
    /\ IsHeartbeatPost(r)
    /\ ~r.expect /\ ~r.transfer_encoding
    /\ content_length_status(r.content_length) = Proceed

\* rfile.read(content_length): the declared bytes and none beyond them, or
\* all that come.
BytesRead(r) ==
    IF AwaitsBody(r)
    THEN IF r.sent < DeclaredLength(r) THEN r.sent ELSE DeclaredLength(r)
    ELSE 0

-----------------------------------------------------------------------------
(* HTTP semantics.                                                         *)

has_malformed_structure(r) == ~r.wellformed

content_type_rejection(value) ==
    CASE value = "malformed" -> 400
      [] value = "unsupported" -> 415
      [] value = "json" -> Proceed

ContentTypeStatus(values) ==
    CASE Len(values) > 1 -> 400
      [] values = <<>> -> 415
      [] Len(values) = 1 -> content_type_rejection(values[1])

\* Only the whole document parses: neither a prefix of a JSON object is one
\* nor an object with something after it.
decodes_strict_json(r, read) == r.json > 0 /\ read = r.json

\* Mutant: the body is looked at before the route.
AdapterStatusBodyFirst(r, read) ==
    FirstRefusal(<<Require(~has_malformed_structure(r), 400),
                   Require(read > 0, 400),
                   Require(r.path = "/v1/heartbeat", 404),
                   Require(r.command = "POST", 405),
                   ContentTypeStatus(r.content_type),
                   Require(Len(r.tokens) = 1, 401),
                   Require(decodes_strict_json(r, read), 400)>>)

AdapterStatus(r, read) ==
    FirstRefusal(<<Require(~has_malformed_structure(r), 400),
                   Require(r.path = "/v1/heartbeat", 404),
                   Require(r.command = "POST", 405),
                   Require(read <= MAX_CONTENT_LENGTH, 413),
                   Require(read > 0, 400),
                   ContentTypeStatus(r.content_type),
                   Require(Len(r.tokens) = 1, 401),
                   Require(decodes_strict_json(r, read), 400)>>)

\* 405 carries Allow: POST.
Refusal(status) == Response(status, IF status = 405 THEN {"POST"} ELSE {})

-----------------------------------------------------------------------------
(* The wire boundary.                                                      *)

claims_node(r) == r.node # NoNode

\* Mutant: any known token will do.
AuthenticatedByAnyone(r) ==
    /\ r.node \in Hosts
    /\ \E h \in DOMAIN Credentials : r.tokens[1] = Credentials[h]

\* The node is configured, has a credential, and it is the token presented.
Authenticated(r) ==
    /\ r.node \in DOMAIN Credentials
    /\ r.tokens[1] = Credentials[r.node]

\* Mutant: the payload is decoded before the token is compared.
WireStatusDecodesFirst(r) ==
    FirstRefusal(<<Require(claims_node(r), 400),
                   Require(decodes_payload(r.payload), 400),
                   Require(Authenticated(r), 401)>>)

\* Every way to fail the authentication is one refusal; only then is the
\* payload decoded.
WireStatus(r) ==
    FirstRefusal(<<Require(claims_node(r), 400),
                   Require(Authenticated(r), 401),
                   Require(decodes_payload(r.payload), 400)>>)

-----------------------------------------------------------------------------
(* The table.                                                              *)

NodeOf(row) == row.columns[1]

ReceivedAt(row) == row.columns[3]

RowsOf(node) == {i \in DOMAIN rows : NodeOf(rows[i]) = node}

\* ORDER BY received_at DESC, id DESC LIMIT 1; 0 is None.
latest_heartbeat(node) ==
    LET text(i) == ReceivedAt(rows[i])
        later(i, j) == TextBefore(text(j), text(i))
                       \/ (text(i) = text(j) /\ i > j)
    IN  IF RowsOf(node) = {}
        THEN 0
        ELSE CHOOSE i \in RowsOf(node) :
                \A j \in RowsOf(node) \ {i} : later(i, j)

-----------------------------------------------------------------------------
(* Actions.                                                                *)

\* The stdlib accepts a connection and parses the request line and headers.
\* What does not parse is answered by send_error and goes no further.
Accept(r) ==
    /\ pc = "idle"
    /\ request' = r
    /\ pc' = "frame"
    /\ UNCHANGED <<rows, body, response, receipt, fault, acked>>

Answer(reply) ==
    /\ response' = reply
    /\ pc' = "respond"

\* A step that refuses with status, or lets the request through.
Decide(status, next) ==
    IF status = Proceed
    THEN pc' = next /\ UNCHANGED response
    ELSE Answer(Refusal(status))

\* _resolve_body: a body that ends early is refused, what was read of it
\* dropped.
ResolveBody ==
    /\ pc = "frame"
    /\ Decide(FramingStatus(request), "adapt")
    /\ body' = BytesRead(request)
    /\ UNCHANGED <<rows, request, receipt, fault, acked>>

Adapt ==
    /\ pc = "adapt"
    /\ Decide(AdapterStatus(request, body), "wire")
    /\ UNCHANGED <<rows, request, body, receipt, fault, acked>>

Authenticate ==
    /\ pc = "wire"
    /\ Decide(WireStatus(request), "ingest")
    /\ UNCHANGED <<rows, request, body, receipt, fault, acked>>

\* The record HeartbeatIngestor builds.
RecordOf(r, now) == Record(r.node, DecodedTelemetry(r.payload), Datetime(now, 0))

Reportable(r) == HasUtcForm(DecodedTelemetry(r.payload).timestamp)

Row(record, token) ==
    [columns |-> Parameters(record), accepted |-> record, token |-> token]

\* Mutant: the answer does not wait for the commit.
IngestUncommitted(now) ==
    /\ pc = "ingest"
    /\ Reportable(request)
    /\ Len(rows) < MaxRows
    /\ receipt' = Len(rows) + 1
    /\ \/ rows' = Append(rows, Row(RecordOf(request, now), request.tokens[1]))
       \/ UNCHANGED rows
    /\ Answer(Response(204, {}))
    /\ UNCHANGED <<request, body, fault, acked>>

\* The clock is read, the row inserted and committed.
Ingest(now) ==
    /\ pc = "ingest"
    /\ Reportable(request)
    /\ Len(rows) < MaxRows
    /\ rows' = Append(rows, Row(RecordOf(request, now), request.tokens[1]))
    /\ receipt' = Len(rows) + 1
    /\ Answer(Response(204, {}))
    /\ UNCHANGED <<request, body, fault, acked>>

\* SQLite raises and the transaction is rolled back: 500.
InsertFails ==
    /\ pc = "ingest"
    /\ fault' = TRUE
    /\ Answer(Refusal(500))
    /\ UNCHANGED <<rows, request, body, receipt, acked>>

\* reported_at.astimezone(UTC) raises OverflowError: 500.
SerializeRaises ==
    /\ pc = "ingest"
    /\ ~Reportable(request)
    /\ Answer(Refusal(500))
    /\ UNCHANGED <<rows, request, body, receipt, fault, acked>>

\* The handler is done with the request.
Finish ==
    /\ pc' = "idle"
    /\ request' = NoRequest
    /\ body' = 0
    /\ response' = NoResponse
    /\ receipt' = 0
    /\ fault' = FALSE

Respond ==
    /\ pc = "respond"
    /\ acked' = IF response.status = 204 THEN acked \cup {receipt} ELSE acked
    /\ Finish
    /\ UNCHANGED rows

\* The client is gone: the write raises, socketserver drops the connection.
ResponseLost ==
    /\ pc = "respond"
    /\ Finish
    /\ UNCHANGED <<rows, acked>>

\* The process is killed; committed rows stay.
Crash ==
    /\ pc # "idle"
    /\ Finish
    /\ UNCHANGED <<rows, acked>>

Next ==
    \/ \E r \in Requests : Accept(r)
    \/ ResolveBody
    \/ Adapt
    \/ Authenticate
    \/ \E now \in Time : Ingest(now)
    \/ InsertFails
    \/ SerializeRaises
    \/ Respond
    \/ ResponseLost
    \/ Crash

Spec == Init /\ [][Next]_vars

-----------------------------------------------------------------------------
(* Properties.                                                             *)

(* The type of the table, the handler and the history.                     *)
TypeOK ==
    /\ \A i \in DOMAIN rows : /\ Len(rows[i].columns) = 20
                             /\ NodeOf(rows[i]) \in Hosts
    /\ Len(rows) <= MaxRows
    /\ pc \in {"idle", "frame", "adapt", "wire", "ingest", "respond"}
    /\ pc = "idle" <=> request = NoRequest
    /\ body \in 0..MAX_CONTENT_LENGTH
    /\ response \in [status : {0, 204, 400, 401, 404, 405, 411, 413, 415,
                               417, 500},
                     allow : SUBSET {"POST"}]
    /\ receipt \in 0..Len(rows)
    /\ fault \in BOOLEAN
    /\ acked \subseteq Nat

(* 204 means stored: the reporter that got 204 can rely on a committed row *)
(* of its node, whatever crashed afterwards, and any other answer means    *)
(* that this request stored nothing.                                       *)
AnswerMatchesStore ==
    /\ pc = "respond" =>
        IF response.status = 204
        THEN receipt \in DOMAIN rows /\ NodeOf(rows[receipt]) = request.node
        ELSE receipt = 0
    /\ acked \subseteq DOMAIN rows

(* Every row was reported with the own token of the node it is filed       *)
(* under: no host can speak for another.                                   *)
RowsAuthenticated ==
    \A i \in DOMAIN rows :
        /\ NodeOf(rows[i]) \in DOMAIN Credentials
        /\ rows[i].token = Credentials[NodeOf(rows[i])]

(* A request that names a node and passes the HTTP checks but not the      *)
(* authentication gets the same answer whether the node exists, has a      *)
(* credential, or sent a payload that would not decode.                    *)
RefusalsAlike ==
    LET anonymous == \A h \in DOMAIN Credentials :
                        \/ request.node # h
                        \/ request.tokens # <<Credentials[h]>>
    IN  (/\ pc = "respond"
         /\ FramingStatus(request) = Proceed
         /\ AdapterStatus(request, body) = Proceed
         /\ request.node # NoNode
         /\ anonymous)
            => response = Refusal(401)

(* The declared length is judged by its numeric value, whatever its        *)
(* leading zeroes: 413 exactly above the limit, where nothing is read;     *)
(* below it, as many bytes as were declared, or all that were sent.        *)
LengthJudgedByValue ==
    LET declared == Value(request.content_length[1])
    IN  (/\ pc = "respond"
         /\ IsHeartbeatPost(request)
         /\ ~request.expect /\ ~request.transfer_encoding
         /\ Len(request.content_length) = 1
         /\ request.content_length[1] # <<>>)
            => /\ response.status = 413 <=> declared > MAX_CONTENT_LENGTH
               /\ body = IF declared > MAX_CONTENT_LENGTH
                         THEN 0 ELSE Min({declared, request.sent})

\* The signature the dead-man takes for life (every body here is empty).
classify_deadman_probe(reply) ==
    IF reply.status = 405 /\ "POST" \in reply.allow THEN "HEALTHY"
                                                    ELSE "FAILED"

(* The dead-man's probe, a plain GET of the heartbeat path, is answered    *)
(* with the signature the dead-man accepts, and a request that could have  *)
(* stored a heartbeat never is.                                            *)
ProbeSignature ==
    pc = "respond" =>
        /\ request.command = "GET" /\ request.path = "/v1/heartbeat"
           /\ request.wellformed
                => classify_deadman_probe(response) = "HEALTHY"
        /\ IsHeartbeatPost(request)
                => classify_deadman_probe(response) = "FAILED"

(* The row latest_heartbeat picks by the text of received_at is the newest *)
(* by the instant, the last inserted one on a tie, even if the clock       *)
(* stepped back between the inserts (insert_heartbeat of CentralMonitor).  *)
LatestIsNewest ==
    \A h \in Hosts :
        LET latest == latest_heartbeat(h)
            at(i) == InstantOf(rows[i].accepted.received_at)
        IN  \A i \in RowsOf(h) :
                at(i) < at(latest) \/ (at(i) = at(latest) /\ i <= latest)

(* Every monitoring cycle restores the latest heartbeat of every host from *)
(* its columns, through constructors that raise on what they would not     *)
(* have accepted: one such row would fail every cycle that reads it. No    *)
(* row this API commits is one: the record comes back as it was accepted,  *)
(* its reported_at as the same instant in UTC.                             *)
RowsRestorable ==
    \A i \in DOMAIN rows :
        LET restored == row_to_record(rows[i].columns)
        IN  /\ ValidTelemetry(restored.telemetry)
            /\ SameRecord(restored, rows[i].accepted)

(* http_api.py:423: "never raises on client input". A 500 then always      *)
(* stands for a failure of the server's own.                               *)
InternalErrorIsOurs ==
    pc = "respond" /\ response.status = 500 => fault
=============================================================================
