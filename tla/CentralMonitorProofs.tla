------------------------ MODULE CentralMonitorProofs ------------------------
(***************************************************************************)
(* Proofs about the central process for every set of hosts, in whatever    *)
(* order and with whatever thresholds, and every set of instants: the      *)
(* resolver memory is the debounce of the observations, a host flips only  *)
(* when confirmed, and the operator was told what the process believes.    *)
(*                                                                         *)
(* MemoryMatchesEvidence is inductive once a turn is known to name a host; *)
(* OperatorInSync needs in addition that a message of this process is      *)
(* about a host it has evaluated.                                          *)
(***************************************************************************)
EXTENDS CentralMonitor, TLAPS

-----------------------------------------------------------------------------
(* The inductive invariant.                                                *)

\* A cycle is under way only where there are hosts.
TurnNamesHost == pc \in {"evaluate", "notify"} => HostOrder # <<>>

\* A message of the running process, sent or about to be, is about a host
\* the process has evaluated.
MessagesEvaluated ==
    /\ \A h \in Hosts : chat[h].current => resolutions[h].state # "NONE"
    /\ pc = "notify" => /\ incident \in IncidentKind
                        /\ resolutions[HostOrder[turn]].state # "NONE"

MonitorInv ==
    /\ TypeOK
    /\ TurnNamesHost
    /\ MemoryMatchesEvidence
    /\ MessagesEvaluated
    /\ OperatorInSync

\* MemoryMatchesEvidence for one host.
Matches(r, seen, settings) ==
    /\ ValidResolution(r)
    /\ r.state = "DOWN" =>
            /\ r.recovery_successes = seen.reached
            /\ seen.reached < settings.recovery_confirmations
    /\ r.state # "DOWN" =>
            /\ r.down_failures = seen.lost
            /\ seen.lost < settings.down_confirmations

-----------------------------------------------------------------------------
(* The resolver.                                                           *)

\* The resolution t and the runs seen after one more observation of a host
\* whose resolution was r.
Tracks(r, t, seen, settings) ==
    /\ t \in HostStateResolution
    /\ seen \in [lost : Nat, reached : Nat]
    /\ Matches(t, seen, settings)
    /\ r.state # "DOWN" /\ t.state = "DOWN" =>
            seen.lost = settings.down_confirmations
    /\ r.state = "DOWN" /\ t.state # "DOWN" =>
            seen.reached = settings.recovery_confirmations
    /\ r = NoResolution /\ t.state = "DOWN" =>
            settings.down_confirmations = 1

(* A resolution that matches the runs of observations still matches them   *)
(* after one more observation, and it enters or leaves DOWN only when the  *)
(* run has its full length.                                                *)
LEMMA ResolverTracksRuns ==
    ASSUME NEW r \in HostStateResolution \cup {NoResolution},
           NEW h \in Hosts, NEW freshness, NEW breached,
           NEW reachability \in TcpReachability,
           Settings[h] \in HostSettings,
           evidence[h] \in [lost : Nat, reached : Nat],
           Matches(r, evidence[h], Settings[h])
    PROVE  Tracks(r,
                  resolve_host_state(r, freshness, breached, reachability,
                                     Settings[h]),
                  Observe(h, freshness, reachability), Settings[h])
<1> DEFINE t == resolve_host_state(r, freshness, breached, reachability,
                                   Settings[h])
           seen == Observe(h, freshness, reachability)
           lost == is_down_observation(freshness, reachability)
           base == base_state(freshness, breached, reachability)
           dc == Settings[h].down_confirmations
           rc == Settings[h].recovery_confirmations
<1> SUFFICES Tracks(r, t, seen, Settings[h])
    OBVIOUS
<1>1. /\ dc \in Nat /\ dc >= 1 /\ rc \in Nat /\ rc >= 1
      /\ evidence[h].lost \in Nat /\ evidence[h].reached \in Nat
    BY DEF HostSettings
<1>2. /\ r.down_failures \in Nat /\ r.recovery_successes \in Nat
      /\ r.state \in HostState \cup {"NONE"}
      /\ r = NoResolution => r.down_failures = 0 /\ r.state # "DOWN"
    BY DEF HostStateResolution, NoResolution, Resolution, HostState
<1>3. base \in {"HEALTHY", "DEGRADED"}
    BY DEF base_state
<1>4. lost \in BOOLEAN /\ (lost => reachability = "UNREACHABLE")
    BY DEF is_down_observation
<1>5. /\ seen.lost = IF lost
                     THEN IF evidence[h].lost < dc THEN evidence[h].lost + 1
                                                   ELSE dc
                     ELSE 0
      /\ seen.reached = IF reachability = "REACHABLE"
                        THEN IF evidence[h].reached < rc
                             THEN evidence[h].reached + 1 ELSE rc
                        ELSE 0
      /\ seen \in [lost : Nat, reached : Nat]
    BY <1>1 DEF Observe, Capped
<1>6. CASE r.state = "DOWN"
    <2>1. /\ r.recovery_successes = evidence[h].reached
          /\ evidence[h].reached < rc
        BY <1>6 DEF Matches
    <2>2. t = HoldDown(r, freshness, breached, reachability, Settings[h])
        BY <1>6 DEF resolve_host_state
    <2>3. CASE reachability = "UNREACHABLE"
        <3>1. t = Resolution("DOWN", 0, 0)
            BY <2>2, <2>3 DEF HoldDown
        <3>2. seen.reached = 0
            BY <1>5, <2>3
        <3> HIDE DEF t, seen, base
        <3>3. /\ t \in HostStateResolution
              /\ t.state = "DOWN"
              /\ t.down_failures = 0
              /\ t.recovery_successes = 0
            BY <1>2, <1>3, <3>1 DEF Resolution, HostStateResolution, HostState
        <3> QED BY <1>1, <1>2, <1>5, <1>6, <3>2, <3>3
                DEF Tracks, Matches, ValidResolution
    <2>4. CASE reachability = "REACHABLE" /\ r.recovery_successes + 1 >= rc
        <3>1. t = Resolution(base, 0, 0)
            BY <2>2, <2>4 DEF HoldDown
        <3>2. seen.reached = rc /\ seen.lost = 0
            BY <1>1, <1>4, <1>5, <2>1, <2>4
        <3> HIDE DEF t, seen, base
        <3>3. /\ t \in HostStateResolution
              /\ t.state = base
              /\ t.down_failures = 0
              /\ t.recovery_successes = 0
            BY <1>2, <1>3, <3>1 DEF Resolution, HostStateResolution, HostState
        <3> QED BY <1>1, <1>2, <1>3, <1>5, <1>6, <3>2, <3>3
                DEF Tracks, Matches, ValidResolution
    <2>5. CASE reachability = "REACHABLE" /\ ~(r.recovery_successes + 1 >= rc)
        <3>1. t = Resolution("DOWN", 0, r.recovery_successes + 1)
            BY <2>2, <2>5 DEF HoldDown
        <3>2. seen.reached = r.recovery_successes + 1 /\ seen.reached < rc
            BY <1>1, <1>5, <2>1, <2>5
        <3> HIDE DEF t, seen, base
        <3>3. /\ t \in HostStateResolution
              /\ t.state = "DOWN"
              /\ t.down_failures = 0
              /\ t.recovery_successes = r.recovery_successes + 1
            BY <1>2, <1>3, <3>1 DEF Resolution, HostStateResolution, HostState
        <3> QED BY <1>1, <1>2, <1>5, <1>6, <3>2, <3>3
                DEF Tracks, Matches, ValidResolution
    <2> QED BY <2>3, <2>4, <2>5 DEF TcpReachability
<1>7. CASE r.state # "DOWN"
    <2>1. r.down_failures = evidence[h].lost /\ evidence[h].lost < dc
        BY <1>7 DEF Matches
    <2>2. t = DebounceDown(r, freshness, breached, reachability, Settings[h])
        BY <1>7 DEF resolve_host_state
    <2>3. CASE ~lost
        <3>1. t = Resolution(base, 0, 0)
            BY <2>2, <2>3 DEF DebounceDown
        <3>2. seen.lost = 0
            BY <1>5, <2>3
        <3> HIDE DEF t, seen, base
        <3>3. /\ t \in HostStateResolution
              /\ t.state = base
              /\ t.down_failures = 0
              /\ t.recovery_successes = 0
            BY <1>2, <1>3, <3>1 DEF Resolution, HostStateResolution, HostState
        <3> QED BY <1>1, <1>2, <1>3, <1>5, <1>7, <3>2, <3>3
                DEF Tracks, Matches, ValidResolution
    <2>4. CASE lost /\ r.down_failures + 1 >= dc
        <3>1. t = Resolution("DOWN", 0, 0)
            BY <2>2, <2>4 DEF DebounceDown
        <3>2. /\ seen.lost = dc /\ seen.reached = 0
              /\ r.down_failures = 0 => dc = 1
            BY <1>1, <1>4, <1>5, <2>1, <2>4
        <3> HIDE DEF t, seen, base
        <3>3. /\ t \in HostStateResolution
              /\ t.state = "DOWN"
              /\ t.down_failures = 0
              /\ t.recovery_successes = 0
            BY <1>2, <1>3, <3>1 DEF Resolution, HostStateResolution, HostState
        <3> QED BY <1>1, <1>2, <1>5, <1>7, <3>2, <3>3
                DEF Tracks, Matches, ValidResolution
    <2>5. CASE lost /\ ~(r.down_failures + 1 >= dc)
        <3>1. t = Resolution("DEGRADED", r.down_failures + 1, 0)
            BY <2>2, <2>5 DEF DebounceDown
        <3>2. seen.lost = r.down_failures + 1 /\ seen.lost < dc
            BY <1>1, <1>5, <2>1, <2>5
        <3> HIDE DEF t, seen, base
        <3>3. /\ t \in HostStateResolution
              /\ t.state = "DEGRADED"
              /\ t.down_failures = r.down_failures + 1
              /\ t.recovery_successes = 0
            BY <1>2, <1>3, <3>1 DEF Resolution, HostStateResolution, HostState
        <3> QED BY <1>1, <1>2, <1>5, <1>7, <3>2, <3>3
                DEF Tracks, Matches, ValidResolution
    <2> QED BY <1>4, <2>3, <2>4, <2>5
<1> QED BY <1>6, <1>7

(* The incident a transition maps to: DOWN and RECOVERED are the two flips *)
(* of an evaluated host, anything else is none.                            *)
LEMMA IncidentOfFlip ==
    ASSUME NEW r \in HostStateResolution \cup {NoResolution},
           NEW t \in HostStateResolution
    PROVE  LET kind == incident_from_transition(build_transition(r, t))
           IN  /\ kind \in IncidentKind \cup {NoIncident}
               /\ kind = "DOWN" => /\ r # NoResolution /\ r.state # "DOWN"
                                   /\ t.state = "DOWN"
               /\ kind = "RECOVERED" => r.state = "DOWN" /\ t.state # "DOWN"
               /\ kind = NoIncident /\ r # NoResolution =>
                    (r.state = "DOWN" <=> t.state = "DOWN")
<1>1. r.state \in HostState \cup {"NONE"} /\ t.state \in HostState
    BY DEF HostStateResolution, NoResolution, Resolution
<1>2. (r.state = "DOWN") \in BOOLEAN /\ (t.state = "DOWN") \in BOOLEAN
    OBVIOUS
<1>3. CASE r # NoResolution /\ r.state # "DOWN" /\ t.state = "DOWN"
    <2>1. build_transition(r, t) = [from_state |-> r.state,
                                    to_state |-> "DOWN"]
        BY <1>3 DEF build_transition
    <2>2. incident_from_transition(build_transition(r, t)) = "DOWN"
        BY <2>1 DEF incident_from_transition
    <2> QED BY <1>3, <2>2 DEF IncidentKind, NoIncident
<1>4. CASE r # NoResolution /\ r.state = "DOWN" /\ t.state # "DOWN"
    <2>1. build_transition(r, t) = [from_state |-> "DOWN",
                                    to_state |-> t.state]
        BY <1>4 DEF build_transition
    <2>2. incident_from_transition(build_transition(r, t)) = "RECOVERED"
        BY <1>4, <2>1 DEF incident_from_transition
    <2> QED BY <1>4, <2>2 DEF IncidentKind, NoIncident
<1>5. CASE r = NoResolution \/ (r.state = "DOWN" <=> t.state = "DOWN")
    <2>1. build_transition(r, t) = NoTransition
        BY <1>5 DEF build_transition
    <2>2. incident_from_transition(build_transition(r, t)) = NoIncident
        BY <2>1 DEF incident_from_transition, NoTransition
    <2> QED BY <1>5, <2>2 DEF IncidentKind, NoIncident
<1> QED BY <1>3, <1>4, <1>5

-----------------------------------------------------------------------------
(* The steps.                                                              *)

(* A configured host has thresholds of at least one.                       *)
LEMMA Thresholds ==
    ASSUME NEW h \in Hosts
    PROVE  /\ Settings[h] \in HostSettings
           /\ Settings[h].down_confirmations \in Nat
           /\ Settings[h].down_confirmations >= 1
           /\ Settings[h].recovery_confirmations \in Nat
           /\ Settings[h].recovery_confirmations >= 1
<1>1. Settings[h] \in HostSettings
    BY CentralAssumption
<1> QED BY <1>1 DEF HostSettings

(* While a cycle is under way the turn is that of a configured host.       *)
LEMMA TurnHost ==
    ASSUME TypeOK, TurnNamesHost, pc \in {"evaluate", "notify"}
    PROVE  /\ HostOrder[turn] \in Hosts
           /\ turn \in 1..Len(HostOrder)
<1>1. HostOrder # <<>>
    BY DEF TurnNamesHost
<1>2. turn \in 1..Len(HostOrder)
    BY <1>1 DEF TypeOK
<1>3. HostOrder \in Seq(Hosts)
    BY CentralAssumption
<1> QED BY <1>2, <1>3

(* Going on to the next host keeps the turn within the hosts and leaves no *)
(* message pending.                                                        *)
LEMMA NextHostTyped ==
    ASSUME TypeOK, TurnNamesHost, pc \in {"evaluate", "notify"}, NextHost
    PROVE  /\ pc' \in {"evaluate", "serve"}
           /\ turn' \in 1..(IF HostOrder = <<>> THEN 1 ELSE Len(HostOrder))
           /\ due' \in BOOLEAN
           /\ TurnNamesHost'
<1>1. HostOrder # <<>> /\ HostOrder \in Seq(Hosts)
    BY CentralAssumption DEF TurnNamesHost
<1>2. Len(HostOrder) \in Nat /\ turn \in 1..Len(HostOrder)
    BY <1>1 DEF TypeOK
<1>3. CASE turn < Len(HostOrder)
    BY <1>1, <1>2, <1>3 DEF NextHost, TypeOK, TurnNamesHost
<1>4. CASE ~(turn < Len(HostOrder))
    <2>1. 1 <= Len(HostOrder)
        BY <1>2
    <2>2. turn' = 1 /\ pc' = "serve" /\ due' = FALSE
        BY <1>4 DEF NextHost
    <2>3. turn' \in 1..(IF HostOrder = <<>> THEN 1 ELSE Len(HostOrder))
        BY <1>1, <1>2, <2>1, <2>2
    <2>4. due' \in BOOLEAN
        BY <2>2
    <2> QED BY <1>1, <2>2, <2>3, <2>4 DEF TurnNamesHost
<1> QED BY <1>3, <1>4

(* A new process knows nothing, and has told the operator nothing.         *)
LEMMA ForgottenMatches ==
    ASSUME NEW h \in Hosts
    PROVE  /\ NoResolution.state = "NONE"
           /\ NoEvidence \in [lost : Nat, reached : Nat]
           /\ Matches(NoResolution, NoEvidence, Settings[h])
<1>1. /\ NoResolution.state = "NONE" /\ NoResolution.down_failures = 0
      /\ NoResolution.recovery_successes = 0
    BY DEF NoResolution, Resolution
<1>2. /\ NoEvidence.lost = 0 /\ NoEvidence.reached = 0
      /\ NoEvidence \in [lost : Nat, reached : Nat]
    BY DEF NoEvidence
<1> QED BY <1>1, <1>2, Thresholds DEF Matches, ValidResolution

(* Initially nothing is known.                                             *)
LEMMA InitMonitor == Init => MonitorInv
<1> SUFFICES ASSUME Init PROVE MonitorInv
    OBVIOUS
<1>1. /\ \A h \in Hosts : /\ resolutions[h] = NoResolution
                          /\ evidence[h] = NoEvidence
                          /\ chat[h].current = FALSE
      /\ pc = "stopped"
    BY DEF Init, NoMessage
<1>2. TypeOK
    <2>1. turn \in 1..(IF HostOrder = <<>> THEN 1 ELSE Len(HostOrder))
        <3>1. HostOrder \in Seq(Hosts)
            BY CentralAssumption
        <3>2. HostOrder # <<>> => Len(HostOrder) >= 1 /\ Len(HostOrder) \in Nat
            BY <3>1
        <3> QED BY <3>2 DEF Init
    <2>2. evidence \in [Hosts -> [lost : Nat, reached : Nat]]
        BY ForgottenMatches DEF Init
    <2>3. chat \in [Hosts -> [kind : IncidentKind \cup {"NONE"},
                             current : BOOLEAN]]
        BY DEF Init, NoMessage
    <2> QED BY <2>1, <2>2, <2>3 DEF Init, TypeOK, NoIncident
<1>3. TurnNamesHost
    BY <1>1 DEF TurnNamesHost
<1>4. MemoryMatchesEvidence
    BY <1>1, ForgottenMatches DEF MemoryMatchesEvidence, Matches
<1>5. MessagesEvaluated
    BY <1>1 DEF MessagesEvaluated
<1>6. OperatorInSync
    BY <1>1, ForgottenMatches DEF OperatorInSync
<1> QED BY <1>2, <1>3, <1>4, <1>5, <1>6 DEF MonitorInv

(* The end of a process takes its memory, and what it was about to send,   *)
(* with it.                                                                *)
LEMMA EndForgets ==
    ASSUME TypeOK, NEW how \in {"stopped", "dead"},
           NEW messages \in [Hosts -> [kind : IncidentKind \cup {"NONE"},
                                       current : BOOLEAN]],
           End(how, messages)
    PROVE  MonitorInv'
<1>1. \A h \in Hosts : /\ resolutions'[h] = NoResolution
                      /\ evidence'[h] = NoEvidence
                      /\ chat'[h] = [messages[h] EXCEPT !.current = FALSE]
    BY DEF End, Outdated
<1>2. \A h \in Hosts : /\ chat'[h] \in [kind : IncidentKind \cup {"NONE"},
                                        current : BOOLEAN]
                      /\ chat'[h].current = FALSE
    BY <1>1
<1>3. pc' \notin {"evaluate", "notify"}
    BY DEF End
<1>4. TypeOK'
    <2>1. turn' \in 1..(IF HostOrder = <<>> THEN 1 ELSE Len(HostOrder))
        <3>1. HostOrder \in Seq(Hosts)
            BY CentralAssumption
        <3>2. HostOrder # <<>> => Len(HostOrder) >= 1 /\ Len(HostOrder) \in Nat
            BY <3>1
        <3> QED BY <3>2 DEF End
    <2>2. evidence' \in [Hosts -> [lost : Nat, reached : Nat]]
        BY ForgottenMatches DEF End
    <2>3. chat' \in [Hosts -> [kind : IncidentKind \cup {"NONE"},
                              current : BOOLEAN]]
        BY <1>2 DEF End, Outdated
    <2> QED BY <2>1, <2>2, <2>3 DEF End, TypeOK, NoIncident
<1>5. TurnNamesHost'
    BY <1>3 DEF TurnNamesHost
<1>6. MemoryMatchesEvidence'
    BY <1>1, ForgottenMatches DEF MemoryMatchesEvidence, Matches
<1>7. MessagesEvaluated'
    BY <1>2, <1>3 DEF MessagesEvaluated
<1>8. OperatorInSync'
    BY <1>1, <1>2, <1>3, ForgottenMatches DEF OperatorInSync
<1> QED BY <1>4, <1>5, <1>6, <1>7, <1>8 DEF MonitorInv

(* A step that neither evaluates nor sends, outside the send itself: the   *)
(* memory and the messages are untouched.                                  *)
LEMMA OutsideTheCycle ==
    ASSUME MonitorInv, TypeOK', TurnNamesHost',
           pc # "notify", pc' # "notify",
           UNCHANGED <<resolutions, evidence, chat>>
    PROVE  MonitorInv'
<1>1. MemoryMatchesEvidence'
    BY DEF MonitorInv, MemoryMatchesEvidence
<1>2. MessagesEvaluated'
    BY DEF MonitorInv, MessagesEvaluated
<1>3. OperatorInSync'
    BY DEF MonitorInv, OperatorInSync
<1> QED BY <1>1, <1>2, <1>3 DEF MonitorInv

(* A stored row is replaced by a row.                                      *)
LEMMA InsertTyped ==
    ASSUME TypeOK, NEW h \in Hosts, NEW row \in Heartbeat,
           insert_heartbeat(h, row)
    PROVE  stored' \in [Hosts -> Heartbeat \cup {NoHeartbeat}]
BY DEF TypeOK, insert_heartbeat

(* What the evaluation of a host makes of its resolution and its runs.     *)
LEMMA EvaluatedTracks ==
    ASSUME MonitorInv, NEW now \in Time, NEW reachability \in TcpReachability,
           EvaluateHost(now, reachability)
    PROVE  LET h == HostOrder[turn]
           IN  /\ h \in Hosts
               /\ Tracks(resolutions[h], resolutions'[h], evidence'[h],
                         Settings[h])
               /\ incident' = incident_from_transition(
                        build_transition(resolutions[h], resolutions'[h]))
               /\ resolutions' = [resolutions EXCEPT ![h] = resolutions'[h]]
               /\ evidence' = [evidence EXCEPT ![h] = evidence'[h]]
<1> DEFINE h == HostOrder[turn]
           freshness == evaluate_heartbeat_freshness(now, stored[h],
                                                     Settings[h])
           breached == ResourcesBreached(stored[h])
           resolution == resolve_host_state(resolutions[h], freshness,
                                            breached, reachability,
                                            Settings[h])
           seen == Observe(h, freshness, reachability)
<1>1. TypeOK /\ TurnNamesHost /\ pc = "evaluate"
    BY DEF MonitorInv, EvaluateHost
<1>2. h \in Hosts
    BY <1>1, TurnHost
<1>3. /\ resolutions' = [resolutions EXCEPT ![h] = resolution]
      /\ evidence' = [evidence EXCEPT ![h] = seen]
      /\ incident' = incident_from_transition(
                        build_transition(resolutions[h], resolution))
    BY DEF EvaluateHost
<1>4. /\ resolutions[h] \in HostStateResolution \cup {NoResolution}
      /\ evidence[h] \in [lost : Nat, reached : Nat]
      /\ DOMAIN resolutions = Hosts /\ DOMAIN evidence = Hosts
    BY <1>1, <1>2 DEF TypeOK
<1>5. Matches(resolutions[h], evidence[h], Settings[h])
    BY <1>2 DEF MonitorInv, MemoryMatchesEvidence, Matches
<1>6. Tracks(resolutions[h], resolution, seen, Settings[h])
    BY <1>2, <1>4, <1>5, Thresholds, ResolverTracksRuns
<1> HIDE DEF resolution, seen, h
<1>7. resolutions'[h] = resolution /\ evidence'[h] = seen
    BY <1>2, <1>3, <1>4
<1>8. /\ h \in Hosts
      /\ Tracks(resolutions[h], resolutions'[h], evidence'[h], Settings[h])
      /\ incident' = incident_from_transition(
                        build_transition(resolutions[h], resolutions'[h]))
      /\ resolutions' = [resolutions EXCEPT ![h] = resolutions'[h]]
      /\ evidence' = [evidence EXCEPT ![h] = evidence'[h]]
    BY <1>2, <1>3, <1>6, <1>7
<1> QED BY <1>8 DEF h

(* The evaluation of one host keeps the invariant.                         *)
LEMMA EvaluateHostKeeps ==
    ASSUME MonitorInv, NEW now \in Time, NEW reachability \in TcpReachability,
           EvaluateHost(now, reachability)
    PROVE  MonitorInv'
<1> DEFINE h == HostOrder[turn]
           r == resolutions[h]
           t == resolutions'[h]
           seen == evidence'[h]
<1>1. TypeOK /\ TurnNamesHost /\ pc = "evaluate"
    BY DEF MonitorInv, EvaluateHost
<1>2. /\ h \in Hosts
      /\ Tracks(r, t, seen, Settings[h])
      /\ incident' = incident_from_transition(build_transition(r, t))
      /\ resolutions' = [resolutions EXCEPT ![h] = t]
      /\ evidence' = [evidence EXCEPT ![h] = seen]
    BY EvaluatedTracks
<1>3. /\ stored' = stored /\ stop' = stop /\ chat' = chat
      /\ incident' = NoIncident => NextHost
      /\ incident' # NoIncident => /\ pc' = "notify" /\ turn' = turn
                                   /\ due' = due
    BY DEF EvaluateHost
<1>4. /\ r \in HostStateResolution \cup {NoResolution}
      /\ t \in HostStateResolution
      /\ seen \in [lost : Nat, reached : Nat]
    BY <1>1, <1>2 DEF TypeOK, Tracks
<1>5. /\ incident' \in IncidentKind \cup {NoIncident}
      /\ incident' = "DOWN" => /\ r # NoResolution /\ r.state # "DOWN"
                               /\ t.state = "DOWN"
      /\ incident' = "RECOVERED" => r.state = "DOWN" /\ t.state # "DOWN"
      /\ incident' = NoIncident /\ r # NoResolution =>
            (r.state = "DOWN" <=> t.state = "DOWN")
    BY <1>2, <1>4, IncidentOfFlip
<1>6. t.state # "NONE"
    BY <1>4 DEF HostStateResolution, HostState
<1>7. /\ pc' \in {"evaluate", "serve", "notify"}
      /\ pc' = "notify" <=> incident' # NoIncident
      /\ pc' = "notify" => turn' = turn
      /\ turn' \in 1..(IF HostOrder = <<>> THEN 1 ELSE Len(HostOrder))
      /\ due' \in BOOLEAN
      /\ TurnNamesHost'
    <2>1. CASE incident' = NoIncident
        BY <1>1, <1>3, <2>1, NextHostTyped
    <2>2. CASE incident' # NoIncident
        BY <1>1, <1>3, <2>2 DEF TypeOK, TurnNamesHost
    <2> QED BY <2>1, <2>2
<1>8. \A g \in Hosts : g # h => /\ resolutions'[g] = resolutions[g]
                               /\ evidence'[g] = evidence[g]
    BY <1>1, <1>2 DEF TypeOK
<1>9. TypeOK'
    BY <1>1, <1>2, <1>3, <1>4, <1>5, <1>7 DEF TypeOK
<1>10. MemoryMatchesEvidence'
    <2> SUFFICES ASSUME NEW g \in Hosts
                 PROVE  Matches(resolutions'[g], evidence'[g], Settings[g])
        BY DEF MemoryMatchesEvidence, Matches
    <2>1. CASE g = h
        BY <1>2, <2>1 DEF Tracks
    <2>2. CASE g # h
        BY <1>8, <2>2 DEF MonitorInv, MemoryMatchesEvidence, Matches
    <2> QED BY <2>1, <2>2
<1>11. MessagesEvaluated'
    <2>1. ASSUME NEW g \in Hosts, chat'[g].current
          PROVE  resolutions'[g].state # "NONE"
        BY <1>3, <1>6, <1>8, <2>1 DEF MonitorInv, MessagesEvaluated
    <2>2. pc' = "notify" => /\ incident' \in IncidentKind
                            /\ resolutions'[HostOrder[turn']].state # "NONE"
        BY <1>5, <1>6, <1>7
    <2> QED BY <2>1, <2>2 DEF MessagesEvaluated
<1>12. OperatorInSync'
    <2>0. \A g \in Hosts :
            /\ chat[g].current =>
                    (chat[g].kind = "DOWN" <=> resolutions[g].state = "DOWN")
            /\ resolutions[g].state = "DOWN" /\ ~chat[g].current =>
                    Settings[g].down_confirmations = 1
        BY <1>1 DEF MonitorInv, OperatorInSync
    <2>1. r = NoResolution => ~chat[h].current /\ r.state # "DOWN"
        BY <1>2 DEF MonitorInv, MessagesEvaluated, NoResolution, Resolution
    <2>2. r = NoResolution /\ t.state = "DOWN" =>
                Settings[h].down_confirmations = 1
        BY <1>2 DEF Tracks
    <2>3. ASSUME NEW g \in Hosts, g # h
          PROVE  /\ ~(pc' = "notify" /\ g = HostOrder[turn'])
                 /\ chat'[g].current =>
                     (chat'[g].kind = "DOWN" <=> resolutions'[g].state = "DOWN")
                 /\ resolutions'[g].state = "DOWN" /\ ~chat'[g].current =>
                     Settings[g].down_confirmations = 1
        BY <1>3, <1>7, <1>8, <2>0, <2>3
    <2>4. CASE incident' = NoIncident
        <3>1. /\ pc' # "notify"
              /\ chat'[h].current => (chat'[h].kind = "DOWN" <=> t.state = "DOWN")
              /\ t.state = "DOWN" /\ ~chat'[h].current =>
                     Settings[h].down_confirmations = 1
            BY <1>2, <1>3, <1>5, <1>7, <2>0, <2>1, <2>2, <2>4
        <3> QED BY <2>3, <3>1 DEF OperatorInSync
    <2>5. CASE incident' # NoIncident
        <3>1. /\ pc' = "notify" /\ HostOrder[turn'] = h
              /\ incident' = "DOWN" <=> t.state = "DOWN"
              /\ chat'[h].current => chat'[h].kind # incident'
            BY <1>2, <1>3, <1>5, <1>7, <2>0, <2>5 DEF IncidentKind
        <3> QED BY <2>3, <3>1 DEF OperatorInSync
    <2> QED BY <2>4, <2>5
<1> QED BY <1>7, <1>9, <1>10, <1>11, <1>12 DEF MonitorInv

(* The operator has received the incident: the message is what the process *)
(* believes of that host.                                                  *)
LEMMA SendKeeps ==
    ASSUME MonitorInv, Send
    PROVE  MonitorInv'
<1> DEFINE h == HostOrder[turn]
           message == [kind |-> incident, current |-> TRUE]
<1>1. TypeOK /\ TurnNamesHost /\ pc = "notify"
    BY DEF MonitorInv, Send
<1>2. h \in Hosts
    BY <1>1, TurnHost
<1>3. /\ stored' = stored /\ stop' = stop /\ resolutions' = resolutions
      /\ evidence' = evidence /\ incident' = NoIncident /\ NextHost
      /\ chat' = [chat EXCEPT ![h] = message]
    BY DEF Send, Received
<1>4. /\ pc' \in {"evaluate", "serve"}
      /\ turn' \in 1..(IF HostOrder = <<>> THEN 1 ELSE Len(HostOrder))
      /\ due' \in BOOLEAN
      /\ TurnNamesHost'
    BY <1>1, <1>3, NextHostTyped
<1>5. /\ message \in [kind : IncidentKind \cup {"NONE"}, current : BOOLEAN]
      /\ message.kind = incident /\ message.current = TRUE
      /\ resolutions[h].state # "NONE"
      /\ incident = "DOWN" <=> resolutions[h].state = "DOWN"
    <2>1. incident \in IncidentKind /\ resolutions[h].state # "NONE"
        BY <1>1 DEF MonitorInv, MessagesEvaluated
    <2>2. incident = "DOWN" <=> resolutions[h].state = "DOWN"
        BY <1>1, <1>2 DEF MonitorInv, OperatorInSync
    <2> QED BY <2>1, <2>2
<1> HIDE DEF message, h
<1>6. /\ chat'[h] = message
      /\ \A g \in Hosts : g # h => chat'[g] = chat[g]
    BY <1>1, <1>2, <1>3 DEF TypeOK
<1>7. TypeOK'
    <2>1. chat' \in [Hosts -> [kind : IncidentKind \cup {"NONE"},
                              current : BOOLEAN]]
        BY <1>1, <1>3, <1>5 DEF TypeOK
    <2> QED BY <1>1, <1>3, <1>4, <2>1 DEF TypeOK
<1>8. MemoryMatchesEvidence'
    BY <1>3 DEF MonitorInv, MemoryMatchesEvidence
<1>9. MessagesEvaluated'
    <2>1. ASSUME NEW g \in Hosts, chat'[g].current
          PROVE  resolutions'[g].state # "NONE"
        BY <1>3, <1>5, <1>6, <2>1 DEF MonitorInv, MessagesEvaluated
    <2> QED BY <1>4, <2>1 DEF MessagesEvaluated
<1>10. OperatorInSync'
    <2>1. \A g \in Hosts : g # h =>
            /\ chat[g].current =>
                    (chat[g].kind = "DOWN" <=> resolutions[g].state = "DOWN")
            /\ resolutions[g].state = "DOWN" /\ ~chat[g].current =>
                    Settings[g].down_confirmations = 1
        BY DEF MonitorInv, OperatorInSync, h
    <2> QED BY <1>3, <1>4, <1>5, <1>6, <2>1 DEF OperatorInSync
<1> QED BY <1>4, <1>7, <1>8, <1>9, <1>10 DEF MonitorInv

(* One pass through the schedule check, one accept wait or one heartbeat.  *)
LEMMA LoopKeeps ==
    ASSUME MonitorInv, Boot \/ RequestStop \/ CheckSchedule \/ Serve
    PROVE  MonitorInv'
<1>0. TypeOK /\ TurnNamesHost
    BY DEF MonitorInv
<1>1. CASE Boot
    <2>1. TypeOK' /\ TurnNamesHost' /\ pc # "notify" /\ pc' # "notify"
        BY <1>0, <1>1 DEF Boot, TypeOK, TurnNamesHost
    <2> QED BY <1>1, <2>1, OutsideTheCycle DEF Boot
<1>2. CASE RequestStop
    <2>1. TypeOK'
        BY <1>0, <1>2 DEF RequestStop, TypeOK
    <2>2. TurnNamesHost'
        BY <1>0, <1>2 DEF RequestStop, TurnNamesHost
    <2>3. MemoryMatchesEvidence'
        BY <1>2 DEF MonitorInv, RequestStop, MemoryMatchesEvidence
    <2>4. MessagesEvaluated'
        BY <1>2 DEF MonitorInv, RequestStop, MessagesEvaluated
    <2>5. OperatorInSync'
        BY <1>2 DEF MonitorInv, RequestStop, OperatorInSync
    <2> QED BY <2>1, <2>2, <2>3, <2>4, <2>5 DEF MonitorInv
<1>3. CASE CheckSchedule
    <2>1. TypeOK' /\ TurnNamesHost' /\ pc # "notify" /\ pc' # "notify"
        BY <1>0, <1>3 DEF CheckSchedule, TypeOK, TurnNamesHost
    <2> QED BY <1>3, <2>1, OutsideTheCycle DEF CheckSchedule
<1>4. CASE Serve
    <2>1. CASE ServeNothing
        <3>1. TypeOK' /\ TurnNamesHost' /\ pc # "notify" /\ pc' # "notify"
            BY <1>0, <2>1 DEF ServeNothing, TypeOK, TurnNamesHost
        <3> QED BY <2>1, <3>1, OutsideTheCycle DEF ServeNothing
    <2>2. ASSUME NEW h \in Hosts, NEW now \in Time, NEW breached \in BOOLEAN,
                 ServeHeartbeat(h, now, breached)
          PROVE  MonitorInv'
        <3>1. [received_at |-> now, breached |-> breached] \in Heartbeat
            BY CentralAssumption DEF Heartbeat
        <3>2. stored' \in [Hosts -> Heartbeat \cup {NoHeartbeat}]
            BY <1>0, <2>2, <3>1, InsertTyped DEF ServeHeartbeat
        <3>3. TypeOK' /\ TurnNamesHost' /\ pc # "notify" /\ pc' # "notify"
            BY <1>0, <2>2, <3>2 DEF ServeHeartbeat, TypeOK, TurnNamesHost
        <3> QED BY <2>2, <3>3, OutsideTheCycle DEF ServeHeartbeat
    <2> QED BY <1>4, <2>1, <2>2 DEF Serve
<1> QED BY <1>1, <1>2, <1>3, <1>4

(* However the process ends: killed, stopped, by the ValueError of a       *)
(* heartbeat from the future or by a failed send, delivered or not.        *)
LEMMA EndingKeeps ==
    ASSUME MonitorInv,
           \/ Crash \/ Stop \/ SendFails
           \/ \E now \in Time : EvaluateRaises(now)
    PROVE  MonitorInv' /\ pc' \in {"stopped", "dead"}
<1> DEFINE Messages == [Hosts -> [kind : IncidentKind \cup {"NONE"},
                                  current : BOOLEAN]]
<1>0. TypeOK /\ TurnNamesHost /\ chat \in Messages
    BY DEF MonitorInv, TypeOK
<1> SUFFICES \E how \in {"stopped", "dead"}, messages \in Messages :
                End(how, messages)
    BY <1>0, EndForgets DEF End
<1>1. CASE Crash
    BY <1>0, <1>1 DEF Crash
<1>2. CASE Stop
    BY <1>0, <1>2 DEF Stop
<1>3. CASE \E now \in Time : EvaluateRaises(now)
    BY <1>0, <1>3 DEF EvaluateRaises
<1>4. CASE SendFails
    <2>1. pc = "notify"
        BY <1>4 DEF SendFails
    <2>2. HostOrder[turn] \in Hosts /\ incident \in IncidentKind
        BY <1>0, <2>1, TurnHost DEF MonitorInv, MessagesEvaluated
    <2>3. Received(incident) \in Messages
        BY <1>0, <2>2 DEF Received
    <2> QED BY <1>0, <1>4, <2>3 DEF SendFails
<1> QED BY <1>1, <1>2, <1>3, <1>4

(* Every step keeps the invariant.                                         *)
LEMMA NextMonitor == MonitorInv /\ [Next]_vars => MonitorInv'
<1> SUFFICES ASSUME MonitorInv, [Next]_vars PROVE MonitorInv'
    OBVIOUS
<1>1. CASE Boot \/ RequestStop \/ CheckSchedule \/ Serve
    BY <1>1, LoopKeeps
<1>2. CASE \/ Crash \/ Stop \/ SendFails
           \/ \E now \in Time : EvaluateRaises(now)
    BY <1>2, EndingKeeps
<1>3. ASSUME NEW now \in Time, NEW reachability \in TcpReachability,
             EvaluateHost(now, reachability)
      PROVE  MonitorInv'
    BY <1>3, EvaluateHostKeeps
<1>4. CASE Send
    BY <1>4, SendKeeps
<1>5. CASE UNCHANGED vars
    BY <1>5 DEF vars, MonitorInv, TypeOK, TurnNamesHost, MemoryMatchesEvidence,
                MessagesEvaluated, OperatorInSync
<1> QED BY <1>1, <1>2, <1>3, <1>4, <1>5 DEF Next, ProcessStep

(* The invariant always holds.                                             *)
LEMMA MonitorAlways == Spec => []MonitorInv
<1> QED BY InitMonitor, NextMonitor, PTL DEF Spec

-----------------------------------------------------------------------------
(* The theorems.                                                           *)

(* The process memory, the stored rows and the messages keep their types.  *)
THEOREM MonitorTypeCorrect == Spec => []TypeOK
<1>1. MonitorInv => TypeOK
    BY DEF MonitorInv
<1> QED BY <1>1, MonitorAlways, PTL

(* HealthEngine's memory of every host is exactly the debounce of what     *)
(* this process observed of it, whatever the thresholds, the clock steps,  *)
(* the crashes and the restarts.                                           *)
THEOREM MemoryIsEvidence == Spec => []MemoryMatchesEvidence
<1>1. MonitorInv => MemoryMatchesEvidence
    BY DEF MonitorInv
<1> QED BY <1>1, MonitorAlways, PTL

(* What the operator heard last from the running process about a host is   *)
(* what the process believes of it.                                        *)
THEOREM OperatorKnows == Spec => []OperatorInSync
<1>1. MonitorInv => OperatorInSync
    BY DEF MonitorInv
<1> QED BY <1>1, MonitorAlways, PTL

(* A running process takes a host to DOWN only on the last of              *)
(* down_confirmations lost observations in a row, and out of it only on    *)
(* the last of recovery_confirmations reachable ones.                      *)
THEOREM HostsFlipWhenConfirmed == Spec => FlipsOnlyWhenConfirmed
<1> DEFINE Confirmed ==
        pc' # "dead" /\ pc' # "stopped" =>
            \A h \in Hosts :
                LET before == resolutions[h].state
                    after == resolutions'[h].state
                IN  /\ before # "DOWN" /\ after = "DOWN" =>
                        evidence'[h].lost = Settings[h].down_confirmations
                    /\ before = "DOWN" /\ after # "DOWN" =>
                        evidence'[h].reached =
                            Settings[h].recovery_confirmations
<1>1. MonitorInv /\ [Next]_vars => [Confirmed]_vars
    <2> SUFFICES ASSUME MonitorInv, Next PROVE Confirmed
        OBVIOUS
    <2>1. CASE resolutions' = resolutions
        BY <2>1
    <2>2. CASE pc' \in {"dead", "stopped"}
        BY <2>2
    <2>3. ASSUME NEW now \in Time, NEW reachability \in TcpReachability,
                 EvaluateHost(now, reachability)
          PROVE  Confirmed
        <3> DEFINE h == HostOrder[turn]
        <3>1. /\ h \in Hosts
              /\ Tracks(resolutions[h], resolutions'[h], evidence'[h],
                        Settings[h])
              /\ resolutions' = [resolutions EXCEPT ![h] = resolutions'[h]]
            BY <2>3, EvaluatedTracks
        <3>2. DOMAIN resolutions = Hosts
            BY DEF MonitorInv, TypeOK
        <3>3. \A g \in Hosts : g # h => resolutions'[g] = resolutions[g]
            BY <3>1, <3>2
        <3> QED BY <3>1, <3>3 DEF Tracks
    <2>4. CASE \/ Crash \/ Stop \/ SendFails
               \/ \E now \in Time : EvaluateRaises(now)
        BY <2>2, <2>4, EndingKeeps
    <2>5. CASE Boot \/ RequestStop \/ CheckSchedule \/ Serve \/ Send
        BY <2>1, <2>5 DEF Boot, RequestStop, CheckSchedule, Serve, ServeNothing,
                          ServeHeartbeat, Send
    <2> QED BY <2>3, <2>4, <2>5 DEF Next, ProcessStep
<1> QED BY <1>1, MonitorAlways, PTL DEF Spec, FlipsOnlyWhenConfirmed
=============================================================================
