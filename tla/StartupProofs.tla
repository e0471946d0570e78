---------------------------- MODULE StartupProofs ---------------------------
(***************************************************************************)
(* Proofs about the lives of the central process: whatever the environment *)
(* holds and whatever is in the database file, a start releases what it    *)
(* took, reports its first failure, and changes the database in one go.    *)
(*                                                                         *)
(* The safety of a life is proved once, for Lifecycle, where loading,      *)
(* connecting and wiring may end either way; Startup is shown to implement *)
(* Lifecycle, so the same holds of the process with its settings and its   *)
(* database.                                                               *)
(***************************************************************************)
EXTENDS Startup, SequenceTheorems, TLAPS

-----------------------------------------------------------------------------
(* The inductive invariant of a life.                                      *)

\* A resource is open only between the step that opens it and its close.
OpenOnlyInUse ==
    /\ connection = "open" => pc \in {"wire", "bind", "compose", "run",
                                "closeListener", "closeConnection", "killed"}
    /\ listener = "open" => pc \in {"compose", "run", "closeListener",
                                    "killed"}

\* The handlers are taken over one by one and undone from the end.
InstalledInOrder ==
    /\ installed \in {<<>>, <<"SIGTERM">>, <<"SIGTERM", "SIGINT">>}
    /\ pc = "settings" => installed = <<>>
    /\ pc \in {"install", "record"} => installed \in {<<>>, <<"SIGTERM">>}
    /\ pc \in {"connect", "wire", "bind", "compose", "run", "closeListener",
               "closeConnection"} => installed = STOP_SIGNALS
    /\ pc = "exited" => installed = <<>> \/ escaping = "interrupt"

\* The signals whose handlers the process knows it changed - one of them
\* only just, and not yet written down.
Changed ==
    {installed[i] : i \in DOMAIN installed}
        \cup (IF pc = "record" THEN {NextSignal} ELSE {})

\* What is not in the list of changes is not changed, unless an interrupt
\* or a failed restoration came in between.
ChangesKnown ==
    pc # "killed" =>
        \/ escaping = "interrupt"
        \/ restoreFailure
        \/ \A s \in Signal : handlers[s] = "stop" => s \in Changed

\* Nothing propagates before the cleanup, only a failed construction, run
\* or close does during it, and what propagates is bound to the first
\* failure met.
FailureBound ==
    /\ pc \in {"settings", "install", "record", "connect", "wire", "bind",
               "compose", "run"} => escaping = "none"
    /\ pc \in {"closeListener", "closeConnection"} =>
            escaping \in {"none", "build", "run", "close"}
    /\ escaping = "none" <=> first = "none"
    /\ first \in {"settings", "install", "build"} =>
            escaping \in {first, "interrupt"}
    /\ first = "connect" => escaping \in {"connect", "cleanup", "interrupt"}

LifeInv ==
    /\ TypeOK
    /\ OpenOnlyInUse
    /\ InstalledInOrder
    /\ ChangesKnown
    /\ FailureBound

-----------------------------------------------------------------------------
(* The invariant holds when a process starts.                              *)
LEMMA InitLife == Init => LifeInv
<1> SUFFICES ASSUME Init PROVE LifeInv
    OBVIOUS
<1>1. TypeOK
    <2>1. installed \in Seq(Signal) /\ Len(installed) = 0
        BY DEF Init
    <2>2. handlers \in [Signal -> {"previous", "stop"}]
        BY DEF Init
    <2>3. stop \in BOOLEAN /\ restoreFailure \in BOOLEAN
        BY DEF Init
    <2>4. Len(installed) <= 2
        BY <2>1
    <2> QED BY <2>1, <2>2, <2>3, <2>4, Zenon
            DEF Init, TypeOK, Resource, Failure
<1>2. OpenOnlyInUse /\ InstalledInOrder /\ FailureBound
    BY DEF Init, OpenOnlyInUse, InstalledInOrder, FailureBound
<1>3. ChangesKnown
    BY DEF Init, ChangesKnown, Signal
<1> QED BY <1>1, <1>2, <1>3 DEF LifeInv

(* The lengths and the newest entries of the three lists of changes.       *)
LEMMA InstalledFacts ==
    ASSUME InstalledInOrder
    PROVE  /\ installed = <<>> => Len(installed) = 0
                                  /\ NextSignal = "SIGTERM"
           /\ installed = <<"SIGTERM">> =>
                /\ Len(installed) = 1 /\ NextSignal = "SIGINT"
                /\ installed[Len(installed)] = "SIGTERM"
                /\ SubSeq(installed, 1, Len(installed) - 1) = <<>>
           /\ installed = <<"SIGTERM", "SIGINT">> =>
                /\ Len(installed) = 2
                /\ installed[Len(installed)] = "SIGINT"
                /\ SubSeq(installed, 1, Len(installed) - 1) = <<"SIGTERM">>
           /\ {installed[i] : i \in DOMAIN installed} =
                IF installed = <<>> THEN {}
                ELSE IF installed = <<"SIGTERM">> THEN {"SIGTERM"}
                ELSE {"SIGTERM", "SIGINT"}
<1>1. CASE installed = <<>>
    BY <1>1 DEF NextSignal, STOP_SIGNALS
<1>2. CASE installed = <<"SIGTERM">>
    <2>1. Len(installed) = 1 /\ installed[1] = "SIGTERM"
        BY <1>2
    <2>2. NextSignal = "SIGINT"
        BY <2>1 DEF NextSignal, STOP_SIGNALS
    <2>3. SubSeq(installed, 1, 0) = <<>>
        BY <1>2
    <2>4. {installed[i] : i \in DOMAIN installed} = {"SIGTERM"}
        BY <1>2
    <2> QED BY <1>2, <2>1, <2>2, <2>3, <2>4
<1>3. CASE installed = <<"SIGTERM", "SIGINT">>
    <2>1. Len(installed) = 2 /\ installed[2] = "SIGINT"
        BY <1>3
    <2>2. SubSeq(installed, 1, 1) = <<"SIGTERM">>
        <3>1. installed \in Seq(Signal) /\ installed[1] = "SIGTERM"
            BY <1>3 DEF Signal
        <3>2. /\ SubSeq(installed, 1, 1) \in Seq(Signal)
              /\ Len(SubSeq(installed, 1, 1)) = 1
              /\ SubSeq(installed, 1, 1)[1] = "SIGTERM"
            BY <2>1, <3>1, SubSeqProperties
        <3> DEFINE t == SubSeq(installed, 1, 1)
                   u == <<"SIGTERM">>
        <3>3. /\ u \in Seq(Signal) /\ Len(u) = Len(t)
              /\ \A i \in 1..Len(t) : t[i] = u[i]
            BY <3>2 DEF Signal
        <3> HIDE DEF t, u
        <3>4. t = u
            BY <3>2, <3>3, SeqEqual DEF t
        <3> QED BY <3>4 DEF t, u
    <2>3. {installed[i] : i \in DOMAIN installed} = {"SIGTERM", "SIGINT"}
        BY <1>3
    <2> QED BY <1>3, <2>1, <2>2, <2>3
<1> QED BY <1>1, <1>2, <1>3 DEF InstalledInOrder

(* A step that leaves the handlers and the list of changes alone keeps the *)
(* changes known: it is not on the way from a change to its record, or it  *)
(* lets an interrupt escape.                                               *)
LEMMA ChangesStayKnown ==
    ASSUME LifeInv, UNCHANGED <<handlers, installed>>, pc # "killed",
           \/ pc' \in {"killed", pc}
           \/ escaping' = "interrupt"
           \/ pc # "record" /\ pc' # "record",
           \/ escaping' = escaping \/ escaping # "interrupt"
           \/ escaping' = "interrupt",
           restoreFailure => restoreFailure'
    PROVE  ChangesKnown'
<1>1. CASE pc' = "killed" \/ escaping' = "interrupt"
    BY <1>1 DEF ChangesKnown
<1>2. CASE pc' # "killed" /\ escaping' # "interrupt"
    <2>1. pc' = "record" <=> pc = "record"
        BY <1>2
    <2>2. NextSignal' = NextSignal
        BY DEF NextSignal
    <2>3. Changed' = Changed
        BY <2>1, <2>2 DEF Changed
    <2>4. \/ escaping = "interrupt"
          \/ restoreFailure
          \/ \A s \in Signal : handlers[s] = "stop" => s \in Changed
        BY DEF LifeInv, ChangesKnown
    <2> QED BY <1>2, <2>3, <2>4 DEF ChangesKnown
<1> QED BY <1>1, <1>2

(* Every step of a life keeps the invariant.                               *)
LEMMA NextLife == LifeInv /\ [Next]_vars => LifeInv'
<1> SUFFICES ASSUME LifeInv, [Next]_vars PROVE LifeInv'
    OBVIOUS
<1> USE DEF LifeInv
<1>1. CASE LoadSettings
    <2>1. ChangesKnown'
        BY <1>1, ChangesStayKnown DEF LoadSettings, Proceeds, Raises, Raise,
           FailureBound
    <2> QED BY <1>1, <2>1 DEF LoadSettings, Proceeds, Raises, Raise, Met,
               TypeOK, OpenOnlyInUse, InstalledInOrder, FailureBound, Failure
<1>2. CASE InstallHandler
    <2>1. /\ pc = "install" /\ pc' = "record"
          /\ handlers' = [handlers EXCEPT ![NextSignal] = "stop"]
          /\ UNCHANGED <<installed, stop, connection, listener, escaping,
                         restoreFailure, first>>
        BY <1>2 DEF InstallHandler
    <2>2. handlers' \in [Signal -> {"previous", "stop"}]
        BY <2>1 DEF TypeOK
    <2>3. ChangesKnown'
        <3>1. NextSignal' = NextSignal
            BY <2>1 DEF NextSignal
        <3>2. Changed' = Changed \cup {NextSignal}
            BY <2>1, <3>1 DEF Changed
        <3>3. \A s \in Signal : handlers'[s] = "stop" =>
                    s = NextSignal \/ handlers[s] = "stop"
            BY <2>1 DEF TypeOK
        <3> QED BY <2>1, <3>2, <3>3 DEF ChangesKnown
    <2> QED BY <2>1, <2>2, <2>3 DEF TypeOK, OpenOnlyInUse, InstalledInOrder,
                                   FailureBound
<1>3. CASE InstallRaises
    <2>1. ChangesKnown'
        BY <1>3, ChangesStayKnown DEF InstallRaises, Raises, Raise,
           FailureBound
    <2> QED BY <1>3, <2>1 DEF InstallRaises, Raises, Raise, Met, TypeOK,
               OpenOnlyInUse, InstalledInOrder, FailureBound, Failure
<1>4. CASE RecordHandler
    <2>1. /\ pc = "record"
          /\ installed' = Append(installed, NextSignal)
          /\ pc' = IF Len(installed) + 1 < Len(STOP_SIGNALS) THEN "install"
                                                             ELSE "connect"
          /\ UNCHANGED <<handlers, stop, connection, listener, escaping,
                         restoreFailure, first>>
        BY <1>4 DEF RecordHandler
    <2>2. /\ \/ installed = <<>> /\ installed' = <<"SIGTERM">>
                /\ pc' = "install"
             \/ installed = <<"SIGTERM">> /\ pc' = "connect"
                /\ installed' = <<"SIGTERM", "SIGINT">>
        <3>1. CASE installed = <<>>
            BY <2>1, <3>1, InstalledFacts DEF STOP_SIGNALS
        <3>2. CASE installed = <<"SIGTERM">>
            <4>1. Len(installed) = 1 /\ NextSignal = "SIGINT"
                BY <3>2, InstalledFacts
            <4>2. Append(<<"SIGTERM">>, "SIGINT") = <<"SIGTERM", "SIGINT">>
                <5> DEFINE t == Append(<<"SIGTERM">>, "SIGINT")
                           u == <<"SIGTERM", "SIGINT">>
                <5>1. /\ t \in Seq(Signal) /\ Len(t) = 2
                      /\ t[1] = "SIGTERM" /\ t[2] = "SIGINT"
                    BY AppendProperties DEF Signal
                <5>2. /\ u \in Seq(Signal) /\ Len(u) = 2
                      /\ u[1] = "SIGTERM" /\ u[2] = "SIGINT"
                    BY DEF Signal
                <5> HIDE DEF t, u
                <5>3. \A i \in 1..Len(t) : t[i] = u[i]
                    BY <5>1, <5>2
                <5>4. t = u
                    BY <5>1, <5>2, <5>3, SeqEqual
                <5> QED BY <5>4 DEF t, u
            <4>3. Len(STOP_SIGNALS) = 2
                BY DEF STOP_SIGNALS
            <4> QED BY <2>1, <3>2, <4>1, <4>2, <4>3
        <3> QED BY <2>1, <3>1, <3>2 DEF InstalledInOrder
    <2>3. InstalledInOrder'
        BY <2>2 DEF InstalledInOrder, STOP_SIGNALS
    <2>4. Changed' = Changed
        <3>1. Changed' = {installed'[i] : i \in DOMAIN installed'}
            BY <2>2 DEF Changed
        <3>2. Changed = {installed[i] : i \in DOMAIN installed}
                            \cup {NextSignal}
            BY <2>1 DEF Changed
        <3>3. /\ installed = <<>> => NextSignal = "SIGTERM" /\ Changed = {"SIGTERM"}
              /\ installed = <<"SIGTERM">> =>
                    NextSignal = "SIGINT" /\ Changed = {"SIGTERM", "SIGINT"}
            BY <3>2, InstalledFacts
        <3>4. {installed'[i] : i \in DOMAIN installed'} =
                    IF installed' = <<"SIGTERM">> THEN {"SIGTERM"}
                    ELSE {"SIGTERM", "SIGINT"}
            BY <2>2
        <3> QED BY <2>2, <3>1, <3>3, <3>4
    <2>5. ChangesKnown'
        BY <2>1, <2>2, <2>4 DEF ChangesKnown
    <2>6. installed' \in Seq(Signal) /\ Len(installed') <= 2
        <3>1. <<"SIGTERM">> \in Seq(Signal)
              /\ <<"SIGTERM", "SIGINT">> \in Seq(Signal)
            BY DEF Signal
        <3>2. Len(<<"SIGTERM">>) <= 2 /\ Len(<<"SIGTERM", "SIGINT">>) <= 2
            OBVIOUS
        <3> QED BY <2>2, <3>1, <3>2, Zenon
    <2> QED BY <2>1, <2>2, <2>3, <2>5, <2>6 DEF TypeOK, OpenOnlyInUse,
                                               FailureBound
<1>5. CASE Connect
    <2>1. ChangesKnown'
        BY <1>5, ChangesStayKnown DEF Connect, Proceeds, Raise, FailureBound
    <2> QED BY <1>5, <2>1 DEF Connect, Proceeds, Raise, Met, TypeOK, Resource,
               OpenOnlyInUse, InstalledInOrder, FailureBound, Failure
<1>6. CASE Wire
    <2>1. ChangesKnown'
        BY <1>6, ChangesStayKnown DEF Wire, Proceeds, Raises, Raise,
           FailureBound
    <2> QED BY <1>6, <2>1 DEF Wire, Proceeds, Raises, Raise, Met, TypeOK,
               OpenOnlyInUse, InstalledInOrder, FailureBound, Failure
<1>7. CASE Bind
    <2>1. ChangesKnown'
        BY <1>7, ChangesStayKnown DEF Bind, Proceeds, Raises, Raise,
           FailureBound
    <2> QED BY <1>7, <2>1 DEF Bind, Proceeds, Raises, Raise, Met, TypeOK,
               Resource, OpenOnlyInUse, InstalledInOrder, FailureBound, Failure
<1>8. CASE Compose
    <2>1. ChangesKnown'
        BY <1>8, ChangesStayKnown DEF Compose, Proceeds, Raises, Raise,
           FailureBound
    <2> QED BY <1>8, <2>1 DEF Compose, Proceeds, Raises, Raise, Met, TypeOK,
               OpenOnlyInUse, InstalledInOrder, FailureBound, Failure
<1>9. CASE RunReturns \/ RunRaises
    <2>1. ChangesKnown'
        BY <1>9, ChangesStayKnown DEF RunReturns, RunRaises, Proceeds, Raises,
           Raise, FailureBound
    <2> QED BY <1>9, <2>1 DEF RunReturns, RunRaises, Proceeds, Raises, Raise,
               Met, TypeOK, OpenOnlyInUse, InstalledInOrder, FailureBound,
               Failure
<1>10. CASE CloseListener
    <2>1. ChangesKnown'
        BY <1>10, ChangesStayKnown DEF CloseListener, CleanupRaises,
           FailureBound
    <2> QED BY <1>10, <2>1 DEF CloseListener, CleanupRaises, Met, TypeOK,
               Resource, OpenOnlyInUse, InstalledInOrder, FailureBound, Failure
<1>11. CASE CloseConnection
    <2>1. ChangesKnown'
        BY <1>11, ChangesStayKnown DEF CloseConnection, CleanupRaises,
           FailureBound
    <2> QED BY <1>11, <2>1 DEF CloseConnection, CleanupRaises, Met, TypeOK,
               Resource, OpenOnlyInUse, InstalledInOrder, FailureBound, Failure
<1>12. CASE RestoreHandler
    <2> DEFINE newest == installed[Len(installed)]
    <2>1. /\ pc = "restore" /\ installed # <<>>
          /\ installed' = SubSeq(installed, 1, Len(installed) - 1)
          /\ \/ /\ handlers' = [handlers EXCEPT ![newest] = "previous"]
                /\ UNCHANGED restoreFailure
             \/ restoreFailure' = TRUE /\ UNCHANGED handlers
          /\ UNCHANGED <<pc, stop, connection, listener, escaping, first>>
        BY <1>12 DEF RestoreHandler
    <2>2. \/ /\ installed = <<"SIGTERM">> /\ installed' = <<>>
             /\ newest = "SIGTERM"
          \/ /\ installed = <<"SIGTERM", "SIGINT">>
             /\ installed' = <<"SIGTERM">> /\ newest = "SIGINT"
        BY <2>1, InstalledFacts DEF InstalledInOrder
    <2>3. InstalledInOrder'
        BY <2>1, <2>2 DEF InstalledInOrder
    <2>4. /\ installed' \in Seq(Signal) /\ Len(installed') <= 2
          /\ handlers' \in [Signal -> {"previous", "stop"}]
        BY <2>1, <2>2 DEF TypeOK, Signal
    <2>5. Changed \ {newest} \subseteq Changed'
        <3>1. Changed = {installed[i] : i \in DOMAIN installed}
            BY <2>1 DEF Changed
        <3>2. Changed \ {newest} = IF installed = <<"SIGTERM">> THEN {}
                                   ELSE {"SIGTERM"}
            BY <2>2, <3>1, InstalledFacts
        <3>3. installed # <<"SIGTERM">> => "SIGTERM" \in Changed'
            BY <2>2 DEF Changed
        <3> QED BY <3>2, <3>3
    <2>6. ChangesKnown'
        <3>1. CASE restoreFailure'
            BY <3>1 DEF ChangesKnown
        <3>2. CASE /\ handlers' = [handlers EXCEPT ![newest] = "previous"]
                   /\ UNCHANGED restoreFailure
            <4>1. newest \in Signal /\ handlers \in [Signal -> {"previous", "stop"}]
                BY <2>2 DEF Signal, TypeOK
            <4>2. \A s \in Signal : handlers'[s] = "stop" =>
                        s # newest /\ handlers[s] = "stop"
                BY <3>2, <4>1
            <4> QED BY <2>1, <2>5, <3>2, <4>2 DEF ChangesKnown
        <3> QED BY <2>1, <3>1, <3>2
    <2> QED BY <2>1, <2>3, <2>4, <2>6 DEF TypeOK, OpenOnlyInUse, FailureBound
<1>13. CASE FinishRestore
    <2>1. ChangesKnown'
        BY <1>13, ChangesStayKnown DEF FinishRestore, Raise
    <2> QED BY <1>13, <2>1 DEF FinishRestore, Raise, Met, TypeOK,
               OpenOnlyInUse, InstalledInOrder, FailureBound, Failure
<1>14. ASSUME NEW signum \in Signal, RequestStop(signum)
       PROVE  LifeInv'
    <2>1. ChangesKnown'
        BY <1>14, ChangesStayKnown DEF RequestStop, Alive
    <2> QED BY <1>14, <2>1 DEF RequestStop, TypeOK, OpenOnlyInUse,
               InstalledInOrder, FailureBound
<1>15. CASE Killed \/ Crash
    <2>1. ChangesKnown'
        BY <1>15 DEF Killed, Crash, ChangesKnown
    <2> QED BY <1>15, <2>1 DEF Killed, Crash, Alive, TypeOK, OpenOnlyInUse,
               InstalledInOrder, FailureBound
<1>16. CASE Interrupted
    <2>1. ChangesKnown'
        BY <1>16, ChangesStayKnown DEF Interrupted, Raises, Raise
    <2>2. /\ UNCHANGED <<handlers, installed, stop, connection, listener>>
          /\ \/ /\ pc' \in {"restore", "exited"} /\ escaping' = "interrupt"
                /\ pc \in {"settings", "install", "record", "restore"}
                /\ first' = IF first = "none" THEN "interrupt" ELSE first
                /\ UNCHANGED restoreFailure
             \/ /\ pc = "restore" /\ UNCHANGED <<pc, escaping, first>>
                /\ restoreFailure' = TRUE
        BY <1>16 DEF Interrupted, Raises, Raise, Met
    <2>3. TypeOK'
        BY <2>2 DEF TypeOK, Failure
    <2>4. OpenOnlyInUse' /\ InstalledInOrder'
        BY <2>2 DEF OpenOnlyInUse, InstalledInOrder
    <2>5. FailureBound'
        BY <2>2 DEF FailureBound
    <2> QED BY <2>1, <2>3, <2>4, <2>5
<1>17. CASE Restart
    <2>1. Init'
        BY <1>17 DEF Restart, Init
    <2>2. Init' => LifeInv'
        BY InitLife, PTL
    <2> QED BY <2>1, <2>2
<1>18. CASE UNCHANGED vars
    <2>1. Changed' = Changed
        BY <1>18 DEF vars, Changed, NextSignal
    <2>2. ChangesKnown'
        BY <1>18, <2>1 DEF vars, ChangesKnown
    <2> QED BY <1>18, <2>2 DEF vars, TypeOK, OpenOnlyInUse, InstalledInOrder,
                               FailureBound
<1> QED BY <1>1, <1>2, <1>3, <1>4, <1>5, <1>6, <1>7, <1>8, <1>9, <1>10,
           <1>11, <1>12, <1>13, <1>14, <1>15, <1>16, <1>17, <1>18
        DEF Next, ProcessStep

(* The invariant of a life holds throughout, for Lifecycle alone.          *)
LEMMA LifeAlways == Spec => []LifeInv
BY InitLife, NextLife, PTL DEF Spec

-----------------------------------------------------------------------------
(* Startup implements Lifecycle: whatever the settings and the database    *)
(* decide is a choice Lifecycle leaves open.                               *)
THEOREM StartupImplementsLifecycle == StartupSpec => Spec
<1>1. StartupInit => Init
    BY DEF StartupInit
<1>2. [StartupNext]_everything => [Next]_vars
    <2> SUFFICES ASSUME [StartupNext]_everything PROVE [Next]_vars
        OBVIOUS
    <2> USE DEF Next
    <2>1. CASE SettingsAccepted
        BY <2>1 DEF SettingsAccepted, LoadSettings, ProcessStep
    <2>2. CASE SettingsRefused
        BY <2>2 DEF SettingsRefused, LoadSettings, ProcessStep
    <2>3. CASE OpenDatabase \/ BootstrapStep
        BY <2>3 DEF OpenDatabase, BootstrapStep
    <2>4. CASE OpenDatabaseFails \/ Connected \/ ConnectRefused
        BY <2>4 DEF OpenDatabaseFails, Connected, ConnectRefused, ProcessStep
    <2>5. CASE WireOverDatabase
        BY <2>5 DEF WireOverDatabase, ProcessStep
    <2>6. CASE OtherStep
        BY <2>6 DEF OtherStep, ProcessStep
    <2>7. CASE Environment
        BY <2>7 DEF Environment, Dies, StartAgain
    <2>8. CASE UNCHANGED everything
        BY <2>8 DEF everything
    <2> QED BY <2>1, <2>2, <2>3, <2>4, <2>5, <2>6, <2>7, <2>8
            DEF StartupNext, StartupStep
<1> QED BY <1>1, <1>2, PTL DEF StartupSpec, Spec

(* The invariant holds of the process with its settings and its database.  *)
LEMMA StartupLife == StartupSpec => []LifeInv
BY LifeAlways, StartupImplementsLifecycle, PTL

(* Every variable of a life keeps its type.                                *)
THEOREM LifeTypeCorrect == StartupSpec => []TypeOK
BY StartupLife, PTL DEF LifeInv

(* Short of being killed, a process closes what it opened.                 *)
THEOREM NothingLeftOpen == StartupSpec => []ResourcesReleased
<1>1. LifeInv => ResourcesReleased
    BY DEF LifeInv, OpenOnlyInUse, ResourcesReleased
<1> QED BY <1>1, StartupLife, PTL

(* The signals are given back, unless giving one back failed or a          *)
(* KeyboardInterrupt ended the process.                                    *)
THEOREM SignalsRestored == StartupSpec => []HandlersGivenBack
<1>1. LifeInv => HandlersGivenBack
    <2> SUFFICES ASSUME LifeInv, pc = "exited", escaping # "interrupt",
                        ~restoreFailure
                 PROVE  \A s \in Signal : handlers[s] = "previous"
        BY DEF HandlersGivenBack
    <2>1. installed = <<>>
        BY DEF LifeInv, InstalledInOrder
    <2>2. Changed = {}
        BY <2>1 DEF Changed
    <2>3. \A s \in Signal : handlers[s] # "stop"
        BY <2>2 DEF LifeInv, ChangesKnown
    <2> QED BY <2>3 DEF LifeInv, TypeOK
<1> QED BY <1>1, StartupLife, PTL

(* The first failure is the one that is seen: of all that cleans up after  *)
(* a failed start, only connect()'s own cleanup can take the place of what *)
(* it cleans up after.                                                     *)
THEOREM StartFailureSeen == StartupSpec => []FirstFailureSeen
<1>1. LifeInv => FirstFailureSeen
    BY DEF LifeInv, FailureBound, FirstFailureSeen
<1> QED BY <1>1, StartupLife, PTL

-----------------------------------------------------------------------------
(* The bootstrap of the database. The name of the index is not that of an  *)
(* index of some other table: for such a file the statement creates        *)
(* nothing and the version is stamped all the same.                        *)

\* What the three statements make of a database.
Bootstrapped(d) == Stamped(IndexCreated(TableCreated(d)))

\* The statements would run through.
Creatable(d) == ~index_on_table(d) => ~IndexRaises(TableCreated(d))

\* Once the transaction has begun, the file is as it was validated or
\* another process has completed it, and the draft is the file with the
\* statements run so far applied to it.
BootstrapInv ==
    /\ db \in Database /\ Plausible(db)
    /\ step \in {"idle", "validate", "table", "index", "stamp", "commit"}
    /\ step \in {"idle", "validate", "table"} => draft = NoDraft
    /\ step \in {"table", "index", "stamp", "commit"} =>
            /\ validate(seen) = "write"
            /\ seen \in Database /\ Plausible(seen)
            /\ db = seen \/ validate(db) = "accepted"
    /\ step = "index" =>
            draft = IF heartbeat_table_exists(seen) THEN NoDraft
                                                    ELSE TableCreated(db)
    /\ step = "stamp" =>
            draft = IF index_on_table(seen) THEN NoDraft
                    ELSE IndexCreated(TableCreated(db))
    /\ step = "commit" => draft = Bootstrapped(db)
    /\ step \in {"stamp", "commit"} /\ ~index_on_table(seen) =>
            ~IndexRaises(TableCreated(db))

(* A database that needs the bootstrap and lets its statements run through *)
(* is complete and canonical afterwards.                                   *)
LEMMA BootstrapCompletes ==
    ASSUME "elsewhere" \notin IndexNames,
           NEW d \in Database, Plausible(d), validate(d) = "write",
           Creatable(d)
    PROVE  /\ Bootstrapped(d) \in Database
           /\ Plausible(Bootstrapped(d))
           /\ validate(Bootstrapped(d)) = "accepted"
<1> DEFINE b == Bootstrapped(d)
<1>1. /\ d.version \in -1..2
      /\ d.table \in {"none", "canonical", "other", "view"}
      /\ d.index \in {"none", "canonical", "columns", "taken"}
    BY SchemaAssumption DEF Database
<1>2. d.version < 1 /\ d.table # "other"
    BY <1>1 DEF validate, SCHEMA_VERSION, heartbeat_table_exists
<1>3. d.table # "view" /\ d.index \in {"none", "canonical"}
    BY <1>1, <1>2 DEF Creatable, IndexRaises, TableCreated, index_on_table,
          heartbeat_table_exists, Plausible, validate, Database
<1>4. b = [version |-> 1, table |-> "canonical", index |-> "canonical"]
    <2> DEFINE t == [version |-> d.version, table |-> "canonical",
                     index |-> d.index]
               i == [version |-> d.version, table |-> "canonical",
                     index |-> "canonical"]
    <2>1. TableCreated(d) = t
        BY <1>1, <1>2, <1>3 DEF TableCreated, Database
    <2>2. IndexCreated(t) = i
        BY <1>3 DEF IndexCreated
    <2>3. Stamped(i) = [version |-> 1, table |-> "canonical",
                        index |-> "canonical"]
        BY DEF Stamped, SCHEMA_VERSION
    <2> QED BY <2>1, <2>2, <2>3 DEF Bootstrapped
<1>5. b \in Database
    BY <1>4 DEF Database
<1>6. validate(b) = "accepted" /\ Plausible(b)
    BY <1>4 DEF validate, heartbeat_table_exists, index_on_table,
          SCHEMA_VERSION, Plausible
<1> QED BY <1>5, <1>6

(* Running the statements over a complete database changes nothing.        *)
LEMMA BootstrapIdempotent ==
    ASSUME NEW d \in Database, validate(d) = "accepted"
    PROVE  /\ Bootstrapped(d) = d /\ TableCreated(d) = d
           /\ IndexCreated(d) = d
           /\ heartbeat_table_exists(d) /\ index_on_table(d)
           /\ ~IndexRaises(d)
<1>1. d.version = 1 /\ d.table = "canonical" /\ d.index = "canonical"
    <2>1. d.version \in -1..2
        BY DEF Database
    <2>2. d.version = 1
        BY <2>1 DEF validate, SCHEMA_VERSION
    <2> QED BY <2>2 DEF validate, SCHEMA_VERSION, heartbeat_table_exists,
                        index_on_table
<1>2. d = [version |-> 1, table |-> "canonical", index |-> "canonical"]
    BY <1>1 DEF Database
<1> QED BY <1>1, <1>2 DEF Bootstrapped, Stamped, IndexCreated, TableCreated,
          SCHEMA_VERSION, heartbeat_table_exists, index_on_table, IndexRaises

(* A draft of a database is not the absence of one.                        *)
LEMMA DraftIsNone ==
    ASSUME NEW d \in Database
    PROVE  /\ d # NoDraft
           /\ TableCreated(d) # NoDraft
           /\ IndexCreated(TableCreated(d)) # NoDraft
<1>1. "table" \notin DOMAIN NoDraft
    BY DEF NoDraft
<1>2. "table" \in DOMAIN d
    BY DEF Database
<1>3. DOMAIN TableCreated(d) = DOMAIN d
    BY DEF TableCreated, Database
<1>4. DOMAIN IndexCreated(TableCreated(d)) = DOMAIN d
    BY DEF IndexCreated, TableCreated, Database
<1> QED BY <1>1, <1>2, <1>3, <1>4

(* A step of the bootstrap, by this process or by another, keeps the       *)
(* invariant, and changes the file only from one that needs the bootstrap  *)
(* to a complete one.                                                      *)
LEMMA SchemaStep ==
    ASSUME "elsewhere" \notin IndexNames, BootstrapInv,
           \/ BeginBootstrap \/ Accept \/ Refuse \/ BeginTransaction
           \/ CreateTable \/ CreateIndex \/ Stamp \/ Commit \/ Abandon
           \/ OtherBootstraps \/ UNCHANGED schema
    PROVE  /\ BootstrapInv'
           /\ db' # db => validate(db) = "write" /\ validate(db') = "accepted"
<1> DEFINE Goal == /\ BootstrapInv'
                   /\ db' # db => /\ validate(db) = "write"
                                  /\ validate(db') = "accepted"
<1> USE DEF BootstrapInv
<1>1. CASE BeginBootstrap
    BY <1>1 DEF BeginBootstrap
<1>2. CASE Accept \/ Refuse
    BY <1>2 DEF Accept, Refuse
<1>3. CASE BeginTransaction
    BY <1>3 DEF BeginTransaction
<1>4. CASE CreateTable
    <2>1. /\ step = "table" /\ step' = "index" /\ UNCHANGED <<db, seen>>
          /\ draft = NoDraft
          /\ draft' = IF heartbeat_table_exists(seen) THEN NoDraft
                      ELSE TableCreated(db)
        BY <1>4 DEF CreateTable, Working
    <2> QED BY <2>1
<1>5. CASE CreateIndex
    <2>1. /\ step = "index" /\ step' = "stamp" /\ UNCHANGED <<db, seen>>
          /\ ~index_on_table(seen) => ~IndexRaises(Working)
          /\ draft' = IF index_on_table(seen) THEN draft
                      ELSE IndexCreated(Working)
        BY <1>5 DEF CreateIndex
    <2>2. Working = IF heartbeat_table_exists(seen) THEN db
                    ELSE TableCreated(db)
        BY <2>1, DraftIsNone DEF Working
    <2>3. heartbeat_table_exists(seen) => TableCreated(db) = db
        <3>1. CASE validate(db) = "accepted"
            BY <3>1, BootstrapIdempotent
        <3>2. CASE db = seen
            BY <3>2 DEF TableCreated, heartbeat_table_exists, Database
        <3> QED BY <2>1, <3>1, <3>2
    <2>4. Working = TableCreated(db)
        BY <2>2, <2>3
    <2>5. index_on_table(seen) => draft = NoDraft
        BY <2>1 DEF index_on_table
    <2> QED BY <2>1, <2>4, <2>5
<1>6. CASE Stamp
    <2>1. /\ step = "stamp" /\ step' = "commit" /\ UNCHANGED <<db, seen>>
          /\ draft' = Stamped(Working)
        BY <1>6 DEF Stamp
    <2>2. Working = IF index_on_table(seen) THEN db
                    ELSE IndexCreated(TableCreated(db))
        BY <2>1, DraftIsNone DEF Working
    <2>3. index_on_table(seen) => IndexCreated(TableCreated(db)) = db
        <3>1. CASE validate(db) = "accepted"
            BY <3>1, BootstrapIdempotent
        <3>2. CASE db = seen
            BY <3>2 DEF TableCreated, IndexCreated, index_on_table,
                        heartbeat_table_exists, Database
        <3> QED BY <2>1, <3>1, <3>2
    <2> QED BY <2>1, <2>2, <2>3 DEF Bootstrapped
<1>7. CASE Commit
    <2>1. /\ step = "commit" /\ step' = "idle" /\ draft' = NoDraft
          /\ db' = Bootstrapped(db) /\ UNCHANGED seen
        BY <1>7 DEF Commit
    <2>2. CASE validate(db) = "accepted"
        <3>1. db' = db
            BY <2>1, <2>2, BootstrapIdempotent
        <3> QED BY <2>1, <3>1
    <2>3. CASE db = seen
        <3>1. Creatable(db) /\ validate(db) = "write"
            BY <2>1, <2>3 DEF Creatable
        <3>2. /\ db' \in Database /\ Plausible(db')
              /\ validate(db') = "accepted"
            BY <2>1, <3>1, BootstrapCompletes
        <3> QED BY <2>1, <3>1, <3>2
    <2> QED BY <2>1, <2>2, <2>3
<1>8. CASE Abandon
    BY <1>8 DEF Abandon
<1>9. CASE OtherBootstraps
    <2>1. /\ draft = NoDraft /\ validate(db) = "write" /\ Creatable(db)
          /\ db' = Bootstrapped(db)
          /\ UNCHANGED <<draft, seen, step>>
        BY <1>9 DEF OtherBootstraps, Creatable, Bootstrapped
    <2>2. /\ db' \in Database /\ Plausible(db')
          /\ validate(db') = "accepted"
        BY <2>1, BootstrapCompletes
    <2>3. /\ step = "index" => heartbeat_table_exists(seen)
          /\ step = "stamp" => index_on_table(seen)
          /\ step # "commit"
        <3>1. Bootstrapped(db) # NoDraft
            BY <2>1, <2>2, DraftIsNone
        <3> QED BY <2>1, <3>1, DraftIsNone
    <2> QED BY <2>1, <2>2, <2>3
<1>10. CASE UNCHANGED schema
    BY <1>10 DEF schema
<1> QED BY <1>1, <1>2, <1>3, <1>4, <1>5, <1>6, <1>7, <1>8, <1>9, <1>10

(* What lets connect() return leaves a complete database.                  *)
LEMMA ConnectsComplete ==
    ASSUME "elsewhere" \notin IndexNames, BootstrapInv, Accept \/ Commit
    PROVE  validate(db') = "accepted"
<1>1. CASE Accept
    BY <1>1 DEF Accept
<1>2. CASE Commit
    <2>1. step = "commit" /\ db' = Bootstrapped(db)
        BY <1>2 DEF Commit, BootstrapInv
    <2>2. CASE validate(db) = "accepted"
        BY <2>1, <2>2, BootstrapIdempotent DEF BootstrapInv
    <2>3. CASE db = seen
        <3>1. Creatable(db) /\ validate(db) = "write"
            BY <2>1, <2>3 DEF Creatable, BootstrapInv
        <3> QED BY <2>1, <3>1, BootstrapCompletes DEF BootstrapInv
    <2> QED BY <2>1, <2>2, <2>3 DEF BootstrapInv
<1> QED BY <1>1, <1>2

(* Every step of the process and of its environment is a step of the       *)
(* bootstrap or leaves the database alone.                                 *)
LEMMA StartupBootstraps ==
    ASSUME "elsewhere" \notin IndexNames, BootstrapInv,
           [StartupNext]_everything
    PROVE  /\ BootstrapInv'
           /\ db' # db => validate(db) = "write" /\ validate(db') = "accepted"
<1>1. \/ BeginBootstrap \/ Accept \/ Refuse \/ BeginTransaction
      \/ CreateTable \/ CreateIndex \/ Stamp \/ Commit \/ Abandon
      \/ OtherBootstraps \/ UNCHANGED schema
    <2>1. CASE StartupStep
        BY <2>1 DEF StartupStep, SettingsAccepted, SettingsRefused,
            OpenDatabase, OpenDatabaseFails, BootstrapStep, Connected,
            ConnectRefused, StatementRaises, WireOverDatabase, OtherStep,
            Apart, schema
    <2>2. CASE Environment
        BY <2>2 DEF Environment, Dies, StartAgain, Apart, schema
    <2>3. CASE UNCHANGED everything
        BY <2>3 DEF everything, schema
    <2> QED BY <2>1, <2>2, <2>3 DEF StartupNext
<1> QED BY <1>1, SchemaStep

(* The file as it is at first is one the bootstrap can meet.               *)
LEMMA InitBootstrap == StartupInit => BootstrapInv
BY DEF StartupInit, SchemaInit, BootstrapInv

(* The database is bootstrapped in one go or not at all, whichever         *)
(* statement raises, wherever the process dies and whoever else is         *)
(* bootstrapping the same file.                                            *)
THEOREM BootstrapAtomic ==
    ASSUME "elsewhere" \notin IndexNames
    PROVE  StartupSpec => AllOrNothing
<1>1. BootstrapInv /\ [StartupNext]_everything => BootstrapInv'
    BY StartupBootstraps
<1>2. BootstrapInv /\ [StartupNext]_everything =>
        [db' # db => validate(db) = "write" /\ validate(db') = "accepted"]_db
    BY StartupBootstraps
<1> QED BY InitBootstrap, <1>1, <1>2, PTL DEF StartupSpec, AllOrNothing

\* Once some life of the process has opened the database it is complete,
\* and complete it stays.
OpenedComplete == opened => validate(db) = "accepted"

(* The run schema_index shows a bootstrap that strands its database. The   *)
(* foreign index is the only way to: where the name of the index is not    *)
(* another table's, no start that connect() let pass - and no crash, no    *)
(* rival and no later start - leaves a database that is refused.           *)
THEOREM OnlyForeignIndexStrands ==
    ASSUME "elsewhere" \notin IndexNames
    PROVE  StartupSpec => []NoPartialAcceptance
<1>1. StartupInit => OpenedComplete
    BY DEF StartupInit, OpenedComplete
<1>2. BootstrapInv /\ [StartupNext]_everything => BootstrapInv'
    BY StartupBootstraps
<1>3. ASSUME BootstrapInv, OpenedComplete, [StartupNext]_everything
      PROVE  OpenedComplete'
    <2>1. db' # db => validate(db) = "write" /\ validate(db') = "accepted"
        BY <1>3, StartupBootstraps
    <2>2. CASE Connected
        BY <2>2, <1>3, ConnectsComplete DEF Connected, OpenedComplete
    <2>3. CASE ~Connected
        <3>1. opened' = opened
            <4>1. CASE StartupStep
                BY <2>3, <4>1 DEF StartupStep, SettingsAccepted,
                    SettingsRefused, OpenDatabase, OpenDatabaseFails,
                    BootstrapStep, ConnectRefused, WireOverDatabase,
                    OtherStep, Apart
            <4>2. CASE Environment
                BY <4>2 DEF Environment, Dies, StartAgain, Apart
            <4>3. CASE UNCHANGED everything
                BY <4>3 DEF everything
            <4> QED BY <1>3, <4>1, <4>2, <4>3 DEF StartupNext
        <3> QED BY <1>3, <2>1, <3>1 DEF OpenedComplete
    <2> QED BY <2>2, <2>3
<1>4. BootstrapInv /\ OpenedComplete /\ [StartupNext]_everything =>
        OpenedComplete'
    BY <1>3
<1>5. OpenedComplete => NoPartialAcceptance
    BY DEF OpenedComplete, NoPartialAcceptance
<1> QED BY InitBootstrap, <1>1, <1>2, <1>4, <1>5, PTL DEF StartupSpec

-----------------------------------------------------------------------------
(* The settings.                                                           *)

(* A host the loader accepts has positive quantities and a target.         *)
LEMMA HostConsistent ==
    ASSUME NEW v, parse_host(v),
           LET external == Content(Content(v).external)
           IN  \A name \in ConfirmationFields \cap DOMAIN external :
                    Kind(external[name]) = "int" =>
                        Content(external[name]) \in Int
    PROVE  /\ LoadedHost(v).name = HostName(v)
           /\ ConsistentHost(LoadedHost(v))
<1> DEFINE heartbeat == Content(v).heartbeat
           external == Content(v).external
           thresholds == Field(v, "thresholds", <<"object", <<>>>>)
           h == LoadedHost(v)
<1>1. /\ parse_heartbeat(heartbeat)
      /\ parse_external(external)
      /\ parse_thresholds(thresholds)
    BY DEF parse_host
<1>2. ASSUME NEW c, Positive(c)
      PROVE  PositiveNumber(c)
    BY <1>2 DEF Positive, json_number, PositiveNumber
<1>3. ASSUME NEW c, PositiveInt(c), Kind(c) = "int" => Content(c) \in Int
      PROVE  PositiveCount(c)
    BY <1>3 DEF PositiveInt, json_int, PositiveCount
<1>4. PositiveNumber(Content(heartbeat).stale_after_seconds)
    <2>1. Positive(Content(heartbeat)["stale_after_seconds"])
        BY <1>1 DEF parse_heartbeat, HeartbeatFields
    <2> QED BY <1>2, <2>1
<1>5. PositiveCount(Content(external).tcp_port)
    <2>1. Port(Content(external).tcp_port)
        BY <1>1 DEF parse_external
    <2>2. Content(Content(external).tcp_port) \in 1..MaxPort
        BY <2>1 DEF Port, PortRange
    <2>3. Content(Content(external).tcp_port) > 0
        <3> HIDE DEF external
        <3> QED BY <2>2
    <2> QED BY <2>1, <2>3 DEF Port, json_int, PositiveCount
<1>6. ASSUME NEW name \in ConfirmationFields, NEW default,
             Kind(default) = "int", Content(default) \in Int,
             PositiveInt(Field(external, name, default))
      PROVE  PositiveCount(Field(external, name, default))
    <2>1. CASE name \in DOMAIN Content(external)
        <3>1. Field(external, name, default) = Content(external)[name]
            BY <2>1 DEF Field
        <3> QED BY <1>3, <1>6, <2>1, <3>1
    <2>2. CASE name \notin DOMAIN Content(external)
        <3>1. Field(external, name, default) = default
            BY <2>2 DEF Field
        <3> QED BY <1>3, <1>6, <3>1
    <2> QED BY <2>1, <2>2
<1>7. /\ PositiveCount(Field(external, "down_confirmations", <<"int", 3>>))
      /\ PositiveCount(Field(external, "recovery_confirmations", <<"int", 2>>))
    <2>1. /\ PositiveInt(Field(external, "down_confirmations", <<"int", 3>>))
          /\ PositiveInt(Field(external, "recovery_confirmations",
                               <<"int", 2>>))
        BY <1>1 DEF parse_external
    <2>2. /\ Kind(<<"int", 3>>) = "int" /\ Content(<<"int", 3>>) \in Int
          /\ Kind(<<"int", 2>>) = "int" /\ Content(<<"int", 2>>) \in Int
        BY DEF Kind, Content
    <2>3. /\ "down_confirmations" \in ConfirmationFields
          /\ "recovery_confirmations" \in ConfirmationFields
        BY DEF ConfirmationFields
    <2> QED BY <1>6, <2>1, <2>2, <2>3
<1>8. LET disk == Field(thresholds, "disk_percent", <<"float", 85>>)
      IN  PositiveNumber(disk) /\ Content(disk) <= 100
    <2>1. CASE "disk_percent" \in DOMAIN Content(thresholds)
        <3>1. Percent(Content(thresholds)["disk_percent"])
            BY <1>1, <2>1 DEF parse_thresholds, PercentFields
        <3> QED BY <1>2, <2>1, <3>1 DEF Percent, Field
    <2>2. CASE "disk_percent" \notin DOMAIN Content(thresholds)
        BY <2>2 DEF Field, Kind, Content, PositiveNumber
    <2> QED BY <2>1, <2>2
<1>9. PositiveNumber(Field(external, "timeout_seconds", <<"float", 5>>))
    BY <1>1, <1>2 DEF parse_external
<1>10. json_string(Content(external).tcp_host)
       /\ Content(Content(external).tcp_host) # ""
    BY <1>1 DEF parse_external
<1>11. /\ h.name = HostName(v)
       /\ h.stale_after = Content(heartbeat).stale_after_seconds
       /\ h.tcp_port = Content(external).tcp_port
       /\ h.down = Field(external, "down_confirmations", <<"int", 3>>)
       /\ h.recovery = Field(external, "recovery_confirmations", <<"int", 2>>)
       /\ h.disk = Field(thresholds, "disk_percent", <<"float", 85>>)
       /\ h.tcp_host = Content(external).tcp_host
       /\ h.timeout = Field(external, "timeout_seconds", <<"float", 5>>)
    BY DEF LoadedHost
<1> HIDE DEF h, heartbeat, external, thresholds
<1> QED BY <1>4, <1>5, <1>7, <1>8, <1>9, <1>10, <1>11 DEF h, ConsistentHost

(* Whatever the environment holds, load_central_settings returns an        *)
(* inventory with the credentials that belong to it and with positive      *)
(* quantities, or refuses.                                                 *)
THEOREM LoaderRefusesInconsistent ==
    ASSUME NEW env, IntegersAreIntegers(env)
    PROVE  Judged(load_central_settings(env)) # "inconsistent"
<1> DEFINE s == load_central_settings(env)
           hosts == Content(Content(env["HOSTS_JSON"]))
           tokens == Content(Content(env["NODE_TOKENS_JSON"]))
           loaded == [hosts |-> [i \in DOMAIN hosts |-> LoadedHost(hosts[i])],
                      credentials |-> tokens,
                      listen_port |-> env["LISTEN_PORT"],
                      monitor_interval |-> env["MONITOR_INTERVAL"],
                      poll_interval |-> env["POLL_INTERVAL"]]
           names == [i \in DOMAIN loaded.hosts |-> loaded.hosts[i].name]
<1> SUFFICES ASSUME s # Refused
             PROVE  Consistent(s)
    BY DEF Judged
<1>1. /\ "HOSTS_JSON" \in DOMAIN env
      /\ PositiveFloat(env["MONITOR_INTERVAL"])
      /\ PositiveFloat(env["POLL_INTERVAL"])
      /\ load_config(env["HOSTS_JSON"])
      /\ load_credentials(env["NODE_TOKENS_JSON"],
                          {HostName(hosts[i]) : i \in DOMAIN hosts})
      /\ s = loaded
    BY DEF load_central_settings, Given
<1>2. /\ \A i \in DOMAIN hosts : parse_host(hosts[i])
      /\ IsInjective(HostNames(hosts))
    BY <1>1 DEF load_config
<1>3. /\ DOMAIN tokens = {HostName(hosts[i]) : i \in DOMAIN hosts}
      /\ DOMAIN tokens \cap Blank = {}
      /\ IsInjective(tokens)
    BY <1>1 DEF load_credentials, NodeCredentials
<1>4. /\ DOMAIN loaded.hosts = DOMAIN hosts
      /\ \A i \in DOMAIN hosts : loaded.hosts[i] = LoadedHost(hosts[i])
      /\ loaded.credentials = tokens
      /\ loaded.monitor_interval = env["MONITOR_INTERVAL"]
      /\ loaded.poll_interval = env["POLL_INTERVAL"]
    OBVIOUS
<1>5. \A i \in DOMAIN hosts : LoadedHost(hosts[i]).name = HostName(hosts[i])
    BY DEF LoadedHost
<1>6. names = HostNames(hosts)
    BY <1>4, <1>5 DEF HostNames
<1>7. /\ IsInjective(names)
      /\ \A i \in DOMAIN names : names[i] \notin Blank
      /\ tokens = loaded.credentials
      /\ DOMAIN tokens = {names[i] : i \in DOMAIN names}
    <2>1. /\ DOMAIN names = DOMAIN hosts
          /\ \A i \in DOMAIN hosts : names[i] = HostName(hosts[i])
        BY <1>6 DEF HostNames
    <2> HIDE DEF names, tokens, hosts, loaded
    <2> QED BY <1>2, <1>3, <1>4, <1>6, <2>1
<1>8. \A i \in DOMAIN hosts :
        LET external == Content(Content(hosts[i]).external)
        IN  \A name \in ConfirmationFields \cap DOMAIN external :
                Kind(external[name]) = "int" =>
                    Content(external[name]) \in Int
    BY <1>1 DEF IntegersAreIntegers
<1> HIDE DEF loaded, hosts, tokens
<1>9. \A i \in DOMAIN loaded.hosts : ConsistentHost(loaded.hosts[i])
    BY <1>2, <1>4, <1>8, HostConsistent
<1>10. ASSUME NEW t, PositiveFloat(t)
       PROVE  PositiveNumber(t)
    BY <1>10 DEF PositiveFloat, PositiveNumber
<1>11. Consistent(loaded)
    BY <1>1, <1>3, <1>4, <1>7, <1>9, <1>10 DEF Consistent
<1> QED BY <1>1, <1>11

(* No process gets past its settings with an inventory and credentials     *)
(* that do not belong together or a quantity that is not positive,         *)
(* whatever the environments it is started in.                             *)
THEOREM StartsOnlyConsistent == StartupSpec => []SettingsConsistent
<1>1. "inconsistent" \notin Loadings
    BY LoaderRefusesInconsistent, EnvironmentsAssumption DEF Loadings
<1>2. StartupInit => SettingsConsistent
    BY DEF StartupInit, SettingsConsistent
<1>3. SettingsConsistent /\ [StartupNext]_everything => SettingsConsistent'
    <2> SUFFICES ASSUME SettingsConsistent, [StartupNext]_everything
                 PROVE  SettingsConsistent'
        OBVIOUS
    <2>1. \/ settings' \in Loadings \/ settings' = "none"
          \/ settings' = settings
        <3>1. CASE StartupStep
            BY <3>1 DEF StartupStep, SettingsAccepted, SettingsRefused,
                OpenDatabase, OpenDatabaseFails, BootstrapStep, Connected,
                ConnectRefused, WireOverDatabase, OtherStep, Apart
        <3>2. CASE Environment
            BY <3>2 DEF Environment, Dies, StartAgain, Apart
        <3>3. CASE UNCHANGED everything
            BY <3>3 DEF everything
        <3> QED BY <3>1, <3>2, <3>3 DEF StartupNext
    <2> QED BY <1>1, <2>1 DEF SettingsConsistent
<1> QED BY <1>2, <1>3, PTL DEF StartupSpec
=============================================================================
