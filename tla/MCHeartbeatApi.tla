--------------------------- MODULE MCHeartbeatApi ---------------------------
(* Three hosts, one of them without a credential, and every request that   *)
(* differs from a good heartbeat in at most two ways, or in one thing in   *)
(* its payload. Bodies hold at most 12 bytes, the clock has two instants   *)
(* to a second, and datetime ends at MaxInstant.                           *)
EXTENDS HeartbeatApi

CONSTANTS web, db, spare, ghost, webToken, dbToken

MCHosts == {web, db, spare}

MCCredentials == [h \in {web, db} |-> IF h = web THEN webToken ELSE dbToken]

Number(n) == <<"number", n>>

Resource(used, total, percent) ==
    <<"object", [used |-> Number(used), total |-> Number(total),
                 percent |-> Number(percent)]>>

\* Reported at wall clock local of the zone offset ahead of UTC; no swap.
GoodPayload(local, offset) ==
    [reported_at |-> <<"time", Datetime(local, offset)>>,
     uptime_seconds |-> Number(9),
     load |-> <<"object", [one |-> Number(1), five |-> Number(2),
                           fifteen |-> Number(3)]>>,
     cpu_percent |-> Number(7),
     ram |-> Resource(4, 8, 50), swap |-> Resource(0, 0, 0),
     root_fs |-> Resource(5, 6, 83), root_inodes |-> Resource(10, 40, 25)]

\* A quantity a decoder may misread: a number that is not one.
NotANumber == {<<"unbounded", 0>>, <<"bool", TRUE>>, <<"text", 0>>}

\* Good but unusual: another zone, something full, something unused.
Unusual ==
    {GoodPayload(3, 1),
     [GoodPayload(2, 0) EXCEPT !.ram = Resource(8, 8, 100),
                               !.cpu_percent = Number(100)],
     [GoodPayload(5, 0) EXCEPT !.root_fs = Resource(0, 6, 0),
                               !.uptime_seconds = Number(0)]}

\* One thing wrong, or a time that has no form in UTC.
Faulty ==
    LET good == GoodPayload(2, 0)
        without(f, key) == [k \in DOMAIN f \ {key} |-> f[k]]
        with(f, key) == [k \in DOMAIN f \cup {key} |->
                            IF k = key THEN Number(1) ELSE f[k]]
        half == Content(good.swap)
    IN  {GoodPayload(0, 1), GoodPayload(MaxInstant, -1)}
        \cup {[good EXCEPT !.reported_at = v] :
                v \in {<<"number", 2>>, <<"text", 0>>,
                       <<"time", [local |-> 2, aware |-> FALSE,
                                  offset |-> 0]>>}}
        \cup {[good EXCEPT !.uptime_seconds = v] :
                v \in NotANumber \cup {Number(-1)}}
        \cup {[good EXCEPT !.cpu_percent = v] :
                v \in NotANumber \cup {Number(-1), Number(101)}}
        \cup {without(good, "swap"), with(good, "extra")}
        \cup {[good EXCEPT !.load = v] :
                v \in {Number(1), good.swap,
                       <<"object", [one |-> Number(1), five |-> Number(-1),
                                    fifteen |-> Number(3)]>>}}
        \cup {[good EXCEPT !.swap = v] :
                v \in {<<"object", without(half, "used")>>,
                       <<"object", with(half, "extra")>>,
                       <<"object", [half EXCEPT !.used = <<"bool", TRUE>>]>>,
                       Resource(-1, 0, 0), Resource(1, 0, 0),
                       Resource(0, 0, 1), Resource(2, 1, 0),
                       Resource(0, 1, 101)}}

GoodRequest ==
    [command |-> "POST", path |-> "/v1/heartbeat",
     expect |-> FALSE, transfer_encoding |-> FALSE,
     content_length |-> << <<1, 2>> >>, sent |-> 12,
     wellformed |-> TRUE, content_type |-> <<"json">>,
     tokens |-> <<webToken>>, json |-> 12,
     node |-> web, payload |-> GoodPayload(2, 0)]

\* The other values a part of a request may have.
Deviations ==
    [command |-> {"GET"}, path |-> {"/"},
     expect |-> {TRUE}, transfer_encoding |-> {TRUE},
     content_length |->
        {<<>>, << <<>> >>, << <<0, 0>> >>, << <<9>> >>, << <<0, 1, 2>> >>,
         << <<1, 3>> >>, << <<0, 1, 3>> >>, << <<1, 0, 0>> >>,
         << <<1, 2>>, <<1, 2>> >>},
     sent |-> {0, 9, 15},
     wellformed |-> {FALSE},
     content_type |-> {<<>>, <<"malformed">>, <<"unsupported">>,
                       <<"json", "json">>},
     tokens |-> {<<>>, <<dbToken>>, <<webToken, webToken>>},
     json |-> {0, 9},
     node |-> {NoNode, db, spare, ghost},
     payload |-> {GoodPayload(0, 1),
                  [GoodPayload(2, 0) EXCEPT !.cpu_percent = Number(101)]}]

\* A part of a request and another value for it.
Deviation == UNION {{<<part, v>> : v \in Deviations[part]} :
                        part \in DOMAIN Deviations}

MCRequests ==
    {GoodRequest}
    \cup {[GoodRequest EXCEPT ![d[1]] = d[2], ![e[1]] = e[2]] :
            d, e \in Deviation}
    \cup {[GoodRequest EXCEPT !.payload = p] : p \in Unusual \cup Faulty}

MCTime == 0..2

MCMaxText == <<1, 2>>
=============================================================================
