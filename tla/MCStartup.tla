----------------------------- MODULE MCStartup ------------------------------
(***************************************************************************)
(* Environments for TLC: a good one with two hosts, and every one that     *)
(* differs from it in one variable, one field of the first host or one     *)
(* token, plus the inventories that are wrong only as a whole.             *)
(***************************************************************************)
EXTENDS Startup, TLC

Str(s) == <<"string", s>>

Obj(f) == <<"object", f>>

Heartbeat == [expected_interval_seconds |-> <<"int", 60>>,
              stale_after_seconds |-> <<"float", 180>>]

External == [tcp_host |-> Str("a"), tcp_port |-> <<"int", 22>>]

Host(name) == [name |-> Str(name), heartbeat |-> Obj(Heartbeat),
               external |-> Obj(External)]

Tokens == ("h1" :> Str("s1")) @@ ("h2" :> Str("s2"))

Inventory(head) == <<"json", <<"array", <<Obj(head), Obj(Host("h2"))>>>>>>

Good ==
    [DATABASE_PATH |-> <<"word", "db">>, LISTEN_HOST |-> <<"word", "lo">>,
     LISTEN_PORT |-> <<"integer", 8080>>, MONITOR_INTERVAL |-> <<"integer", 60>>,
     POLL_INTERVAL |-> <<"number", 1>>, HOSTS_JSON |-> Inventory(Host("h1")),
     NODE_TOKENS_JSON |-> <<"json", Obj(Tokens)>>,
     BOT_TOKEN |-> <<"word", "t">>, CHAT_ID |-> <<"integer", -5>>]

Texts == {<<"blank">>, <<"integer", 0>>, <<"integer", -1>>, <<"integer", 7>>,
          <<"integer", 65536>>, <<"number", 1>>, <<"number", -1>>, <<"long">>,
          <<"overflow">>, <<"word", "a/b">>, <<"json", <<"null">>>>}

Values == {<<"null">>, <<"bool", TRUE>>, <<"int", 0>>, <<"int", -1>>,
           <<"int", 7>>, <<"int", 101>>, <<"int", 65536>>, <<"float", 0>>,
           <<"float", 1>>, <<"huge">>, <<"overflow">>, Str(""), Str(" "),
           Str("a"), Obj(<<>>), <<"array", <<>>>>,
           <<"array", <<Str("a"), Str("a")>>>>, <<"array", <<Str("")>>>>}

\* f with one key replaced, added or left out.
Variants(f, keys, values) ==
    {k :> v @@ f : k \in keys, v \in values}
        \cup {[l \in DOMAIN f \ {k} |-> f[l]] : k \in keys}

Hosts ==
    LET base == Host("h1")
    IN  Variants(base, {"name", "heartbeat", "external", "thresholds",
                        "services", "unknown"}, Values)
        \cup {"heartbeat" :> Obj(f) @@ base :
                f \in Variants(Heartbeat, HeartbeatFields \cup {"x"}, Values)}
        \cup {"external" :> Obj(f) @@ base :
                f \in Variants(External, DOMAIN External \cup ConfirmationFields
                                    \cup {"timeout_seconds", "x"}, Values)}
        \cup {"thresholds" :> Obj(f) @@ base :
                f \in Variants(<<>>, {"disk_percent", "load5_max", "x"}, Values)}

MCEnvironments ==
    {Good}
        \cup Variants(Good, DOMAIN Good \cup {"THREAD_ID", "TIMEOUT"}, Texts)
        \cup {"HOSTS_JSON" :> Inventory(h) @@ Good : h \in Hosts}
        \cup {"NODE_TOKENS_JSON" :> <<"json", Obj(f)>> @@ Good :
                f \in Variants(Tokens, {"h1", "h2", " ", "h3"},
                               {Str(""), Str("s1"), Str("s2"), <<"int", 1>>})}
        \cup {"HOSTS_JSON" :> Inventory(Host(name)) @@
              ("NODE_TOKENS_JSON" :>
                    <<"json", Obj((name :> Str("s3")) @@ ("h2" :> Str("s2")))>>)
              @@ Good : name \in {" ", "h2", "h3"}}
        \cup {"HOSTS_JSON" :> <<"json", <<"array", <<>>>>>> @@
              ("NODE_TOKENS_JSON" :> <<"json", Obj(<<>>)>>) @@ Good}
=============================================================================
