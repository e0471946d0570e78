----------------------------- MODULE HostHealth -----------------------------
(***************************************************************************)
(* The pure health rules of the central Sentinel: heartbeat freshness      *)
(* (health.py), the host state resolver with its debounce and hysteresis   *)
(* memory (state_resolver.py), the DOWN/recovery transition                *)
(* (health_engine.py) and the incident it maps to (incidents.py).          *)
(*                                                                         *)
(* A heartbeat row is its central received_at and whether its telemetry    *)
(* breaches a threshold; None is NoHeartbeat. An unset previous resolution *)
(* is NoResolution, whose streaks are 0 and whose state is no host state.  *)
(***************************************************************************)
EXTENDS Integers

HostState == {"HEALTHY", "DEGRADED", "DOWN"}

HeartbeatFreshness == {"FRESH", "STALE", "MISSING"}

TcpReachability == {"REACHABLE", "UNREACHABLE"}

HostSettings ==
    [down_confirmations : Nat \ {0},
     recovery_confirmations : Nat \ {0},
     stale_after_seconds : Nat \ {0}]

NoHeartbeat == [received_at |-> -1, breached |-> FALSE]

Heartbeat == [received_at : Nat, breached : BOOLEAN]

Resolution(state, failures, successes) ==
    [state |-> state, down_failures |-> failures,
     recovery_successes |-> successes]

NoResolution == Resolution("NONE", 0, 0)

HostStateResolution ==
    [state : HostState, down_failures : Nat, recovery_successes : Nat]

\* What the constructor accepts: a confirmed state carries no streak
\* towards itself.
ValidResolution(r) ==
    /\ r.state = "DOWN" => r.down_failures = 0
    /\ r.state # "DOWN" => r.recovery_successes = 0

-----------------------------------------------------------------------------
(* Evidence.                                                               *)

\* The heartbeat was received after now: the central clock moved back, and
\* the evaluation raises ValueError.
FutureHeartbeat(now, latest) ==
    latest # NoHeartbeat /\ latest.received_at > now

evaluate_heartbeat_freshness(now, latest, settings) ==
    IF latest = NoHeartbeat THEN "MISSING"
    ELSE IF now - latest.received_at <= settings.stale_after_seconds
    THEN "FRESH"
    ELSE "STALE"

\* Without a heartbeat the resolver gets the neutral assessment.
ResourcesBreached(latest) == latest # NoHeartbeat /\ latest.breached

-----------------------------------------------------------------------------
(* The resolver.                                                           *)

base_state(freshness, breached, reachability) ==
    IF freshness = "FRESH" /\ reachability = "REACHABLE" /\ ~breached
    THEN "HEALTHY"
    ELSE "DEGRADED"

is_down_observation(freshness, reachability) ==
    freshness \in {"MISSING", "STALE"} /\ reachability = "UNREACHABLE"

\* Mutant: a fresh heartbeat is enough to leave DOWN.
HoldDownUnlessFresh(previous, freshness, breached, reachability, settings) ==
    LET successes == previous.recovery_successes + 1
    IN  IF freshness = "FRESH"
        THEN Resolution(base_state(freshness, breached, reachability), 0, 0)
        ELSE IF reachability = "UNREACHABLE"
        THEN Resolution("DOWN", 0, 0)
        ELSE IF successes >= settings.recovery_confirmations
        THEN Resolution(base_state(freshness, breached, reachability), 0, 0)
        ELSE Resolution("DOWN", 0, successes)

\* Confirmed DOWN: only a run of reachable probes leaves it.
HoldDown(previous, freshness, breached, reachability, settings) ==
    LET successes == previous.recovery_successes + 1
    IN  IF reachability = "UNREACHABLE"
        THEN Resolution("DOWN", 0, 0)
        ELSE IF successes >= settings.recovery_confirmations
        THEN Resolution(base_state(freshness, breached, reachability), 0, 0)
        ELSE Resolution("DOWN", 0, successes)

\* Mutant: only a reachable probe breaks the streak.
DebounceDownSticky(previous, freshness, breached, reachability, settings) ==
    LET failures == previous.down_failures + 1
    IN  IF reachability = "REACHABLE"
        THEN Resolution(base_state(freshness, breached, reachability), 0, 0)
        ELSE IF ~is_down_observation(freshness, reachability)
        THEN Resolution("DEGRADED", previous.down_failures, 0)
        ELSE IF failures >= settings.down_confirmations
        THEN Resolution("DOWN", 0, 0)
        ELSE Resolution("DEGRADED", failures, 0)

\* Mutant: the streak is not carried to the next evaluation.
DebounceDownForgetful(previous, freshness, breached, reachability, settings) ==
    IF ~is_down_observation(freshness, reachability)
    THEN Resolution(base_state(freshness, breached, reachability), 0, 0)
    ELSE IF settings.down_confirmations = 1
    THEN Resolution("DOWN", 0, 0)
    ELSE Resolution("DEGRADED", 0, 0)

\* Not DOWN, or never evaluated: the down debounce.
DebounceDown(previous, freshness, breached, reachability, settings) ==
    LET failures == previous.down_failures + 1
    IN  IF ~is_down_observation(freshness, reachability)
        THEN Resolution(base_state(freshness, breached, reachability), 0, 0)
        ELSE IF failures >= settings.down_confirmations
        THEN Resolution("DOWN", 0, 0)
        ELSE Resolution("DEGRADED", failures, 0)

resolve_host_state(previous, freshness, breached, reachability, settings) ==
    IF previous.state = "DOWN"
    THEN HoldDown(previous, freshness, breached, reachability, settings)
    ELSE DebounceDown(previous, freshness, breached, reachability, settings)

-----------------------------------------------------------------------------
(* Transitions and incidents.                                              *)

NoTransition == [from_state |-> "NONE", to_state |-> "NONE"]

\* Mutant: only the way into DOWN is an event.
build_transition_down_only(previous, resolution) ==
    IF previous # NoResolution
       /\ previous.state # "DOWN" /\ resolution.state = "DOWN"
    THEN [from_state |-> previous.state, to_state |-> resolution.state]
    ELSE NoTransition

\* The first evaluation of a host never emits, even when it resolves DOWN.
build_transition(previous, resolution) ==
    IF previous # NoResolution
       /\ (previous.state = "DOWN") # (resolution.state = "DOWN")
    THEN [from_state |-> previous.state, to_state |-> resolution.state]
    ELSE NoTransition

IncidentKind == {"DOWN", "RECOVERED"}

NoIncident == "NONE"

incident_from_transition(transition) ==
    CASE transition.to_state = "DOWN" -> "DOWN"
      [] transition.from_state = "DOWN" /\ transition.to_state # "DOWN" ->
            "RECOVERED"
      [] OTHER -> NoIncident
=============================================================================
