--------------------------- MODULE CentralMonitor ---------------------------
(***************************************************************************)
(* The central Sentinel process: one thread that alternates a monitoring   *)
(* cycle over the configured hosts (monitoring.py, health_engine.py,       *)
(* notifications.py) with serving at most one heartbeat request            *)
(* (runtime.py, ingestion.py), until a stop signal is seen at the loop     *)
(* boundary. Any exception ends the process; systemd starts it again       *)
(* (Restart=on-failure). Only the heartbeat rows survive a process: the    *)
(* resolver memory and an incident not yet sent are lost.                  *)
(*                                                                         *)
(* The wall clock may read any instant at any time (it may step back).     *)
(* When a cycle is due is left to module Runtime: here serving a request   *)
(* may or may not make the next one due.                                   *)
(*                                                                         *)
(* evidence and chat are history: the runs of equal observations in this   *)
(* process's life, and the last message the operator received per host.    *)
(***************************************************************************)
EXTENDS HostHealth, Sequences

CONSTANTS Hosts,      \* the configured host names
          HostOrder,  \* SentinelConfig.hosts: their order
          Settings,   \* HostConfig.external and .heartbeat of each host
          Time        \* the instants the central clock may read

ASSUME CentralAssumption ==
    /\ HostOrder \in Seq(Hosts)
    /\ \A h \in Hosts : \E i \in 1..Len(HostOrder) : HostOrder[i] = h
    /\ \A i, j \in 1..Len(HostOrder) : HostOrder[i] = HostOrder[j] => i = j
    /\ Settings \in [Hosts -> HostSettings]
    /\ Time \subseteq Nat

VARIABLES stored,       \* the row latest_heartbeat returns, by host
          pc,           \* where the process is; "dead": to be restarted,
                        \* "stopped": ended cooperatively
          turn,         \* the host of the cycle being processed
          due,          \* the schedule check will find a cycle due
          stop,         \* _StopRequest: a stop signal arrived
          resolutions,  \* HealthEngine._resolutions, by host
          incident,     \* the incident being sent
          evidence,     \* history: the current runs of observations
          chat          \* history: the operator's last message, by host

vars == <<stored, pc, turn, due, stop, resolutions, incident, evidence, chat>>

NoEvidence == [lost |-> 0, reached |-> 0]

NoMessage == [kind |-> "NONE", current |-> FALSE]

Init ==
    /\ stored = [h \in Hosts |-> NoHeartbeat]
    /\ pc = "stopped"
    /\ turn = 1
    /\ due = TRUE
    /\ stop = FALSE
    /\ resolutions = [h \in Hosts |-> NoResolution]
    /\ incident = NoIncident
    /\ evidence = [h \in Hosts |-> NoEvidence]
    /\ chat = [h \in Hosts |-> NoMessage]

-----------------------------------------------------------------------------
(* The process boundary.                                                   *)

\* systemd, or the operator, starts the process: nothing is remembered and
\* the first cycle is due at once.
Boot ==
    /\ pc \in {"stopped", "dead"}
    /\ pc' = "boundary"
    /\ UNCHANGED <<stored, turn, due, stop, resolutions, incident, evidence,
                   chat>>

\* Messages of an ended process are no longer what a running one sent.
Outdated(messages) ==
    [h \in Hosts |-> [messages[h] EXCEPT !.current = FALSE]]

\* The process ends, and with it everything it remembered: the next one
\* starts from previous=None for every host, with a cycle due.
End(how, messages) ==
    /\ pc' = how
    /\ turn' = 1
    /\ due' = TRUE
    /\ stop' = FALSE
    /\ resolutions' = [h \in Hosts |-> NoResolution]
    /\ incident' = NoIncident
    /\ evidence' = [h \in Hosts |-> NoEvidence]
    /\ chat' = Outdated(messages)
    /\ UNCHANGED stored

\* The process is killed, or an exception escapes run_forever.
Crash ==
    /\ pc \notin {"stopped", "dead"}
    /\ End("dead", chat)

\* SIGTERM or SIGINT: the handler only marks the request.
RequestStop ==
    /\ pc \notin {"stopped", "dead"}
    /\ stop' = TRUE
    /\ UNCHANGED <<stored, pc, turn, due, resolutions, incident, evidence,
                   chat>>

-----------------------------------------------------------------------------
(* The loop of run_forever.                                                *)

Stop ==
    /\ pc = "boundary"
    /\ stop
    /\ End("stopped", chat)

\* The host after this one, or the accept wait once the cycle is complete.
NextHost ==
    IF turn < Len(HostOrder)
    THEN /\ turn' = turn + 1
         /\ pc' = "evaluate"
         /\ UNCHANGED due
    ELSE /\ turn' = 1
         /\ pc' = "serve"
         /\ due' = FALSE

CheckSchedule ==
    /\ pc = "boundary"
    /\ ~stop
    /\ pc' = IF due /\ HostOrder # <<>> THEN "evaluate" ELSE "serve"
    /\ due' = (due /\ HostOrder # <<>>)
    /\ UNCHANGED <<stored, turn, stop, resolutions, incident, evidence, chat>>

\* ORDER BY received_at DESC, id DESC: a row inserted with an older
\* received_at does not become the latest; on a tie it does.
insert_heartbeat(h, row) ==
    stored' = IF row.received_at >= stored[h].received_at
              THEN [stored EXCEPT ![h] = row]
              ELSE stored

\* One accepted heartbeat. Its row is committed before the response, so a
\* response that is lost changes nothing here.
ServeHeartbeat(h, received_at, breached) ==
    /\ pc = "serve"
    /\ insert_heartbeat(h, [received_at |-> received_at,
                            breached |-> breached])
    /\ pc' = "boundary"
    /\ due' \in BOOLEAN
    /\ UNCHANGED <<turn, stop, resolutions, incident, evidence, chat>>

\* The accept wait expires, or the request is refused or fails (4xx, 500).
ServeNothing ==
    /\ pc = "serve"
    /\ pc' = "boundary"
    /\ due' \in BOOLEAN
    /\ UNCHANGED <<stored, turn, stop, resolutions, incident, evidence, chat>>

\* One handle_request call.
Serve ==
    \/ ServeNothing
    \/ \E h \in Hosts, now \in Time, breached \in BOOLEAN :
            ServeHeartbeat(h, now, breached)

-----------------------------------------------------------------------------
(* One host of MonitoringCycle.run: evaluate_host, then notify_transition. *)

Capped(n, bound) == IF n < bound THEN n + 1 ELSE bound

Observe(h, freshness, reachability) ==
    [lost |-> IF is_down_observation(freshness, reachability)
              THEN Capped(evidence[h].lost, Settings[h].down_confirmations)
              ELSE 0,
     reached |-> IF reachability = "REACHABLE"
                 THEN Capped(evidence[h].reached,
                             Settings[h].recovery_confirmations)
                 ELSE 0]

\* The resolution is committed with the evaluation, before the send.
EvaluateHost(now, reachability) ==
    LET h == HostOrder[turn]
        latest == stored[h]
        freshness == evaluate_heartbeat_freshness(now, latest, Settings[h])
        resolution == resolve_host_state(resolutions[h], freshness,
                                         ResourcesBreached(latest),
                                         reachability, Settings[h])
        worthy == incident_from_transition(
                    build_transition(resolutions[h], resolution))
    IN  /\ pc = "evaluate"
        /\ ~FutureHeartbeat(now, latest)
        /\ resolutions' = [resolutions EXCEPT ![h] = resolution]
        /\ evidence' = [evidence EXCEPT
                            ![h] = Observe(h, freshness, reachability)]
        /\ incident' = worthy
        /\ IF worthy = NoIncident
           THEN NextHost
           ELSE pc' = "notify" /\ UNCHANGED <<turn, due>>
        /\ UNCHANGED <<stored, stop, chat>>

\* latest_received_at > now: the ValueError escapes run_forever and ends
\* the process for every host.
EvaluateRaises(now) ==
    /\ pc = "evaluate"
    /\ FutureHeartbeat(now, stored[HostOrder[turn]])
    /\ End("dead", chat)

Received(kind) ==
    [chat EXCEPT ![HostOrder[turn]] = [kind |-> kind, current |-> TRUE]]

\* TelegramSender.send returns quietly.
Send ==
    /\ pc = "notify"
    /\ chat' = Received(incident)
    /\ incident' = NoIncident
    /\ NextHost
    /\ UNCHANGED <<stored, stop, resolutions, evidence>>

\* TelegramDeliveryError, the message having arrived or not: the process
\* ends, and the committed resolution with it.
SendFails ==
    /\ pc = "notify"
    /\ \E messages \in {chat, Received(incident)} : End("dead", messages)

-----------------------------------------------------------------------------
ProcessStep ==
    \/ Stop
    \/ CheckSchedule
    \/ Serve
    \/ \E now \in Time, reachability \in TcpReachability :
            EvaluateHost(now, reachability)
    \/ \E now \in Time : EvaluateRaises(now)
    \/ Send
    \/ SendFails

Next == Boot \/ RequestStop \/ ProcessStep \/ Crash

Spec == Init /\ [][Next]_vars

\* systemd restarts a process that failed; the running one keeps going (its
\* calls are bounded by timeouts, an accepted client by its own goodwill);
\* and a cycle becomes due again and again (CycleRunsAgain of Runtime).
Fairness ==
    /\ WF_vars(pc = "dead" /\ Boot)
    /\ WF_vars(ProcessStep)
    /\ SF_vars(Serve /\ due')

FairSpec == Spec /\ Fairness

-----------------------------------------------------------------------------
(* Properties.                                                             *)

(* The type of the process memory, the stored rows and the history.        *)
TypeOK ==
    /\ stored \in [Hosts -> Heartbeat \cup {NoHeartbeat}]
    /\ pc \in {"stopped", "dead", "boundary", "serve", "evaluate", "notify"}
    /\ turn \in 1..(IF HostOrder = <<>> THEN 1 ELSE Len(HostOrder))
    /\ due \in BOOLEAN
    /\ stop \in BOOLEAN
    /\ resolutions \in [Hosts -> HostStateResolution \cup {NoResolution}]
    /\ incident \in IncidentKind \cup {NoIncident}
    /\ evidence \in [Hosts -> [lost : Nat, reached : Nat]]
    /\ chat \in [Hosts -> [kind : IncidentKind \cup {"NONE"},
                           current : BOOLEAN]]

(* The resolver memory is exactly the debounce of what this process has    *)
(* observed: a streak is the length of the current run, a run that reached *)
(* its threshold has flipped the state, and HostStateResolution never      *)
(* refuses the memory it is built from.                                    *)
MemoryMatchesEvidence ==
    \A h \in Hosts :
        LET r == resolutions[h]
            seen == evidence[h]
        IN  /\ ValidResolution(r)
            /\ r.state = "DOWN" =>
                    /\ r.recovery_successes = seen.reached
                    /\ seen.reached < Settings[h].recovery_confirmations
            /\ r.state # "DOWN" =>
                    /\ r.down_failures = seen.lost
                    /\ seen.lost < Settings[h].down_confirmations

(* A host turns DOWN only on the last of down_confirmations evaluations in *)
(* a row that all found its heartbeat lost and its port unreachable, and   *)
(* leaves DOWN, while the process lives, only on the last of               *)
(* recovery_confirmations reachable ones: never on resources, on one       *)
(* fresh heartbeat, or on evidence from before a restart.                  *)
FlipsOnlyWhenConfirmed ==
    [][pc' # "dead" /\ pc' # "stopped" =>
        \A h \in Hosts :
            LET before == resolutions[h].state
                after == resolutions'[h].state
            IN  /\ before # "DOWN" /\ after = "DOWN" =>
                    evidence'[h].lost = Settings[h].down_confirmations
                /\ before = "DOWN" /\ after # "DOWN" =>
                    evidence'[h].reached =
                        Settings[h].recovery_confirmations]_vars

(* Although the resolution is committed before the message is sent, what   *)
(* the operator was told last by this process is what it believes: a send  *)
(* that fails takes the belief down with it. A host is DOWN unannounced    *)
(* only where a single observation confirms DOWN: the first evaluation     *)
(* after a start announces nothing.                                        *)
OperatorInSync ==
    \A h \in Hosts :
        IF pc = "notify" /\ h = HostOrder[turn]
        THEN /\ incident = "DOWN" <=> resolutions[h].state = "DOWN"
             /\ chat[h].current => chat[h].kind # incident
        ELSE /\ chat[h].current =>
                    (chat[h].kind = "DOWN" <=> resolutions[h].state = "DOWN")
             /\ resolutions[h].state = "DOWN" /\ ~chat[h].current =>
                    Settings[h].down_confirmations = 1

(* A host that stays lost is announced by the process that sees it lost,   *)
(* and that stays what the operator heard last: every lasting outage, and  *)
(* one that outlived a restart is announced again by the new process.      *)
(* (Evidence dies with its process, so the hypothesis is about one process *)
(* that is neither stopped nor killed.)                                    *)
OutageReported ==
    \A h \in {g \in Hosts : Settings[g].down_confirmations > 1} :
        <>[](pc # "dead" /\ evidence[h].lost > 0) =>
            <>[](chat[h] = [kind |-> "DOWN", current |-> TRUE])
=============================================================================
