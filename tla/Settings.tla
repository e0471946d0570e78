------------------------------ MODULE Settings ------------------------------
(***************************************************************************)
(* Loading the settings of the central process (settings.py and the        *)
(* constructors of config.py, wire.py and telegram.py it hands the values  *)
(* to): a pure function from the environment to the settings, or to one    *)
(* bounded refusal. Nothing is changed before it returns, so the order of  *)
(* the checks cannot be observed and each is a predicate.                  *)
(*                                                                         *)
(* A value is a tuple that starts with its kind. The text of a variable:   *)
(* "blank" (empty or white space), "integer" n (a strict decimal integer), *)
(* "number" n (a strict decimal number of value n that is no integer       *)
(* text), "long" (digits past the conversion limit), "overflow" (1e999),   *)
(* "word" w, "json" v (strict JSON of value v; any other text is a word).  *)
(* A JSON value: "null", "bool", "int" n, "float" n, "overflow" (a literal *)
(* that overflows to infinity), "huge" (an integer no float can hold),     *)
(* "string" s, "array" s, "object" f.                                      *)
(***************************************************************************)
EXTENDS Integers, Sequences, Functions

Kind(v) == v[1]

Content(v) == v[2]

Blank == {"", " "}

MaxPort == 65535

PortRange == 1..MaxPort

Refused == [refused |-> TRUE]

-----------------------------------------------------------------------------
(* Text.                                                                   *)

\* _required_non_empty_string
Given(env, variable) ==
    variable \in DOMAIN env /\ Kind(env[variable]) # "blank"

\* _parse_decimal_int; an integer text past the conversion limit is refused.
IsDecimalInt(text) == Kind(text) = "integer"

\* _parse_decimal_float, and > 0; long digits and 1e999 are not finite.
PositiveFloat(text) ==
    Kind(text) \in {"integer", "number"} /\ Content(text) > 0

\* _optional_string: an absent variable keeps the default.
Present(env, variable) == variable \in DOMAIN env

-----------------------------------------------------------------------------
(* JSON.                                                                   *)

json_number(v) == Kind(v) \in {"int", "float", "huge"}

json_int(v) == Kind(v) \in {"int", "huge"}

json_string(v) == Kind(v) = "string"

\* _json_object and _require_known_keys
require_known_keys(v, required, optional) ==
    /\ Kind(v) = "object"
    /\ required \subseteq DOMAIN Content(v)
    /\ DOMAIN Content(v) \subseteq required \cup optional

Field(v, name, default) ==
    IF name \in DOMAIN Content(v) THEN Content(v)[name] ELSE default

\* _require_positive: isfinite raises OverflowError on a huge integer, which
\* the loader bounds.
Positive(v) == json_number(v) /\ Kind(v) # "huge" /\ Content(v) > 0

Percent(v) == Positive(v) /\ Content(v) <= 100

\* Integers only compared, never converted, have no upper limit.
PositiveInt(v) == json_int(v) /\ (Kind(v) = "huge" \/ Content(v) >= 1)

Port(v) == json_int(v) /\ Kind(v) # "huge" /\ Content(v) \in PortRange

-----------------------------------------------------------------------------
(* One host of SENTINEL_HOSTS_JSON.                                        *)

HeartbeatFields == {"expected_interval_seconds", "stale_after_seconds"}

ConfirmationFields == {"down_confirmations", "recovery_confirmations"}

PercentFields == {"cpu_percent", "ram_percent", "swap_percent",
                  "disk_percent", "inode_percent"}

parse_heartbeat(v) ==
    /\ require_known_keys(v, HeartbeatFields, {})
    /\ \A name \in HeartbeatFields : Positive(Content(v)[name])

parse_external(v) ==
    /\ require_known_keys(v, {"tcp_host", "tcp_port"},
                          ConfirmationFields \cup {"timeout_seconds"})
    /\ json_string(Content(v).tcp_host) /\ Content(Content(v).tcp_host) # ""
    /\ Port(Content(v).tcp_port)
    /\ Positive(Field(v, "timeout_seconds", <<"float", 5>>))
    /\ PositiveInt(Field(v, "down_confirmations", <<"int", 3>>))
    /\ PositiveInt(Field(v, "recovery_confirmations", <<"int", 2>>))

parse_thresholds(v) ==
    /\ require_known_keys(v, {}, PercentFields \cup {"load5_max"})
    /\ \A name \in PercentFields \cap DOMAIN Content(v) :
        Percent(Content(v)[name])
    /\ LET load == Field(v, "load5_max", <<"null">>)
       IN  Kind(load) = "null" \/ Positive(load)

parse_services(v) ==
    /\ Kind(v) = "array"
    /\ \A i \in DOMAIN Content(v) :
        json_string(Content(v)[i]) /\ Content(Content(v)[i]) # ""
    /\ IsInjective(Content(v))

\* HostConfig asks for a name that is not empty; a blank one will do.
parse_host(v) ==
    /\ require_known_keys(v, {"name", "heartbeat", "external"},
                          {"thresholds", "services"})
    /\ json_string(Content(v).name) /\ Content(Content(v).name) # ""
    /\ parse_heartbeat(Content(v).heartbeat)
    /\ parse_external(Content(v).external)
    /\ parse_thresholds(Field(v, "thresholds", <<"object", <<>>>>))
    /\ parse_services(Field(v, "services", <<"array", <<>>>>))

HostName(v) == Content(Content(v).name)

HostNames(hosts) == [i \in DOMAIN hosts |-> HostName(hosts[i])]

\* _load_config: an array of hosts with unique names.
load_config(text) ==
    /\ Kind(text) = "json" /\ Kind(Content(text)) = "array"
    /\ LET hosts == Content(Content(text))
       IN  /\ \A i \in DOMAIN hosts : parse_host(hosts[i])
           /\ IsInjective(HostNames(hosts))

-----------------------------------------------------------------------------
(* Credentials and Telegram.                                               *)

\* NodeCredentials: no blank node or token, and a token of its own for each.
NodeCredentials(tokens) ==
    /\ DOMAIN tokens \cap Blank = {}
    /\ \A node \in DOMAIN tokens : Content(tokens[node]) \notin Blank
    /\ IsInjective(tokens)

\* Mutant: a credential may be of an unknown host, or missing.
load_credentials_partial(text, names) ==
    /\ Kind(text) = "json" /\ Kind(Content(text)) = "object"
    /\ LET tokens == Content(Content(text))
       IN  /\ \A node \in DOMAIN tokens : json_string(tokens[node])
           /\ NodeCredentials(tokens)

\* _load_credentials: strings, for exactly the hosts of the inventory.
load_credentials(text, names) ==
    /\ Kind(text) = "json" /\ Kind(Content(text)) = "object"
    /\ LET tokens == Content(Content(text))
       IN  /\ \A node \in DOMAIN tokens : json_string(tokens[node])
           /\ DOMAIN tokens = names
           /\ NodeCredentials(tokens)

\* _load_telegram and TelegramSettings: a token of the URL-safe alphabet, a
\* chat other than 0, a positive thread, a positive timeout.
load_telegram(env) ==
    /\ Given(env, "BOT_TOKEN")
    /\ env["BOT_TOKEN"] # <<"word", "a/b">>
    /\ Given(env, "CHAT_ID")
    /\ IsDecimalInt(env["CHAT_ID"]) /\ Content(env["CHAT_ID"]) # 0
    /\ Present(env, "THREAD_ID") => /\ IsDecimalInt(env["THREAD_ID"])
                                    /\ Content(env["THREAD_ID"]) >= 1
    /\ Present(env, "TIMEOUT") => PositiveFloat(env["TIMEOUT"])

-----------------------------------------------------------------------------
\* The host as the other components read it, defaults filled in.
LoadedHost(v) ==
    LET heartbeat == Content(v).heartbeat
        external == Content(v).external
        thresholds == Field(v, "thresholds", <<"object", <<>>>>)
    IN  [name |-> HostName(v),
         stale_after |-> Content(heartbeat).stale_after_seconds,
         tcp_host |-> Content(external).tcp_host,
         tcp_port |-> Content(external).tcp_port,
         timeout |-> Field(external, "timeout_seconds", <<"float", 5>>),
         down |-> Field(external, "down_confirmations", <<"int", 3>>),
         recovery |-> Field(external, "recovery_confirmations", <<"int", 2>>),
         disk |-> Field(thresholds, "disk_percent", <<"float", 85>>)]

\* load_central_settings
load_central_settings(env) ==
    IF /\ \A v \in {"DATABASE_PATH", "LISTEN_HOST", "LISTEN_PORT",
                    "MONITOR_INTERVAL", "POLL_INTERVAL", "HOSTS_JSON",
                    "NODE_TOKENS_JSON"} : Given(env, v)
       /\ IsDecimalInt(env["LISTEN_PORT"])
       /\ Content(env["LISTEN_PORT"]) \in PortRange
       /\ PositiveFloat(env["MONITOR_INTERVAL"])
       /\ PositiveFloat(env["POLL_INTERVAL"])
       /\ load_config(env["HOSTS_JSON"])
       /\ load_telegram(env)
       /\ LET hosts == Content(Content(env["HOSTS_JSON"]))
          IN  load_credentials(env["NODE_TOKENS_JSON"],
                               {HostName(hosts[i]) : i \in DOMAIN hosts})
    THEN LET hosts == Content(Content(env["HOSTS_JSON"]))
         IN  [hosts |-> [i \in DOMAIN hosts |-> LoadedHost(hosts[i])],
              credentials |-> Content(Content(env["NODE_TOKENS_JSON"])),
              listen_port |-> env["LISTEN_PORT"],
              monitor_interval |-> env["MONITOR_INTERVAL"],
              poll_interval |-> env["POLL_INTERVAL"]]
    ELSE Refused
=============================================================================
