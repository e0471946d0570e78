---------------------------- MODULE MCDeadManDisk ----------------------------
(* Model values and bounds for DeadManDisk.                                *)
EXTENDS DeadManDisk

MCTime == 1..2

\* The instants just outside are reached by a text with an offset.
MCUtcInstants == 1..2

\* One value of every kind and the boundary values of the numeric fields.
MCJunk ==
    {Null, <<"bool", TRUE>>, <<"bool", FALSE>>, <<"float", 1>>,
     <<"array", <<>>>>, <<"object", [unknown |-> Null]>>,
     <<"text", "elsewhere">>}
    \cup {<<"int", i>> : i \in -1..4}
    \cup {<<"text", t>> : t \in DeadManState \cup DeadManNotificationKind}
    \cup {<<"time", <<t, zone>>>> :
            t \in MCTime, zone \in {"utc", "offset", "naive"}}
    \cup {<<"time", <<t, "offset">>>> : t \in {0, 3}}
=============================================================================
