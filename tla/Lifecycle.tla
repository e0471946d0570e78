----------------------------- MODULE Lifecycle ------------------------------
(***************************************************************************)
(* The lives of the central process (process.run_process and               *)
(* application.build_application): load the settings, take over the two    *)
(* stop signals, open the database, bind the listener, run, close both,    *)
(* give the signals back. Any step may raise, and signals arrive at any    *)
(* time: a handler that is ours only marks the stop request, the previous  *)
(* SIGTERM handler kills the process, and the previous SIGINT handler      *)
(* raises KeyboardInterrupt wherever the code happens to be. A process     *)
(* that ended is started again, by its unit (Restart=on-failure) or by the *)
(* operator.                                                               *)
(***************************************************************************)
EXTENDS Naturals, Sequences

VARIABLES pc,              \* the step about to be taken
          handlers,        \* whose handler each signal has
          installed,       \* the local list of changes to undo
          stop,            \* _StopRequest._requested
          connection,      \* the SQLite connection
          listener,        \* the heartbeat listener
          escaping,        \* the failure now propagating
          restoreFailure,  \* a restoration raised
          first            \* history: the first failure of this life

vars == <<pc, handlers, installed, stop, connection, listener, escaping,
          restoreFailure, first>>

Signal == {"SIGTERM", "SIGINT"}

STOP_SIGNALS == <<"SIGTERM", "SIGINT">>

\* "connect" is a failure of connect(), "cleanup" one of its own cleanup,
\* "build" a failure of build_application after connect() has returned.
Failure == {"none", "settings", "install", "connect", "cleanup", "build",
            "run", "close", "restore", "interrupt"}

Resource == {"none", "open", "closed", "failed"}

Init ==
    /\ pc = "settings"
    /\ handlers = [s \in Signal |-> "previous"]
    /\ installed = <<>>
    /\ stop = FALSE
    /\ connection = "none"
    /\ listener = "none"
    /\ escaping = "none"
    /\ restoreFailure = FALSE
    /\ first = "none"

\* History: the first failure is remembered.
Met(failure) == first' = IF first = "none" THEN failure ELSE first

\* A failure starts to propagate, and control goes to the next cleanup.
Raise(failure, cleanup) ==
    /\ escaping' = failure
    /\ Met(failure)
    /\ pc' = cleanup

\* A step that raises and changes nothing else.
Raises(step, failure, cleanup) ==
    /\ pc = step
    /\ Raise(failure, cleanup)
    /\ UNCHANGED <<handlers, installed, stop, connection, listener,
                   restoreFailure>>

Proceeds(step, next) ==
    /\ pc = step
    /\ pc' = next
    /\ UNCHANGED <<handlers, installed, stop, escaping, restoreFailure,
                   first>>

-----------------------------------------------------------------------------
(* Settings and signal handlers.                                           *)

LoadSettings ==
    \/ /\ Proceeds("settings", "install")
       /\ UNCHANGED <<connection, listener>>
    \/ Raises("settings", "settings", "exited")

NextSignal == STOP_SIGNALS[Len(installed) + 1]

\* signal.signal(signum, handler)
InstallHandler ==
    /\ pc = "install"
    /\ handlers' = [handlers EXCEPT ![NextSignal] = "stop"]
    /\ pc' = "record"
    /\ UNCHANGED <<installed, stop, connection, listener, escaping,
                   restoreFailure, first>>

\* Mutant: a failed installation is not rolled back.
InstallRaisesUnrolled == Raises("install", "install", "exited")

InstallRaises == Raises("install", "install", "restore")

\* installed.append(...): from here on the change will be undone.
RecordHandler ==
    /\ pc = "record"
    /\ installed' = Append(installed, NextSignal)
    /\ pc' = IF Len(installed) + 1 < Len(STOP_SIGNALS) THEN "install"
                                                       ELSE "connect"
    /\ UNCHANGED <<handlers, stop, connection, listener, escaping,
                   restoreFailure, first>>

\* Newest first; every restoration is attempted.
RestoreHandler ==
    LET newest == installed[Len(installed)]
    IN  /\ pc = "restore"
        /\ installed # <<>>
        /\ installed' = SubSeq(installed, 1, Len(installed) - 1)
        /\ \/ /\ handlers' = [handlers EXCEPT ![newest] = "previous"]
              /\ UNCHANGED restoreFailure
           \/ /\ restoreFailure' = TRUE
              /\ UNCHANGED handlers
        /\ UNCHANGED <<pc, stop, connection, listener, escaping, first>>

\* A restoration failure only propagates when nothing else does.
FinishRestore ==
    /\ pc = "restore"
    /\ installed = <<>>
    /\ IF restoreFailure /\ escaping = "none"
       THEN Raise("restore", "exited")
       ELSE pc' = "exited" /\ UNCHANGED <<escaping, first>>
    /\ UNCHANGED <<handlers, installed, stop, connection, listener,
                   restoreFailure>>

-----------------------------------------------------------------------------
(* build_application, the run, and the cleanup.                            *)

\* connect() closes the connection itself when the schema is refused. Its
\* except clause swallows nothing: where connection.close() raises, or
\* before it the rollback of initialize_schema, that is what escapes.
Connect ==
    \/ /\ Proceeds("connect", "wire")
       /\ connection' = "open"
       /\ UNCHANGED listener
    \/ /\ pc = "connect"
       /\ \/ connection' \in {"none", "closed"} /\ escaping' = "connect"
          \/ connection' \in {"closed", "failed"} /\ escaping' = "cleanup"
       /\ Met("connect")
       /\ pc' = "restore"
       /\ UNCHANGED <<handlers, installed, stop, listener, restoreFailure>>

\* The repository, the ingestor and the adapters.
Wire ==
    \/ /\ Proceeds("wire", "bind")
       /\ UNCHANGED <<connection, listener>>
    \/ Raises("wire", "build", "closeConnection")

Bind ==
    \/ /\ Proceeds("bind", "compose")
       /\ listener' = "open"
       /\ UNCHANGED connection
    \/ Raises("bind", "build", "closeConnection")

\* Mutant: the stop request is made anew once the application is built.
ComposeForgetsStop ==
    /\ pc = "compose"
    /\ pc' = "run"
    /\ stop' = FALSE
    /\ UNCHANGED <<handlers, installed, connection, listener, escaping,
                   restoreFailure, first>>

\* The engine, the sender, the cycle and the runtime.
Compose ==
    \/ /\ Proceeds("compose", "run")
       /\ UNCHANGED <<connection, listener>>
    \/ Raises("compose", "build", "closeListener")

\* run_forever returns only once stop is requested.
RunReturns ==
    /\ stop
    /\ Proceeds("run", "closeListener")
    /\ UNCHANGED <<connection, listener>>

RunRaises == Raises("run", "run", "closeListener")

\* Mutant: a rollback failure replaces the construction failure.
CleanupRaisesAlways(next) ==
    /\ pc' = next
    /\ Met("close")
    /\ escaping' = "close"

\* A cleanup that raises: swallowed while build_application rolls back;
\* from close() it propagates, in the place of whatever was propagating.
CleanupRaises(next) ==
    /\ pc' = next
    /\ Met("close")
    /\ escaping' = IF escaping = "build" THEN escaping ELSE "close"

\* Mutant: no finally, the connection is not closed after a failed close.
CloseListenerOnly ==
    /\ pc = "closeListener"
    /\ \/ /\ listener' = "closed"
          /\ pc' = "closeConnection"
          /\ UNCHANGED <<escaping, first>>
       \/ /\ listener' = "failed"
          /\ CleanupRaises("restore")
    /\ UNCHANGED <<handlers, installed, stop, connection, restoreFailure>>

CloseListener ==
    /\ pc = "closeListener"
    /\ \/ /\ listener' = "closed"
          /\ pc' = "closeConnection"
          /\ UNCHANGED <<escaping, first>>
       \/ /\ listener' = "failed"
          /\ CleanupRaises("closeConnection")
    /\ UNCHANGED <<handlers, installed, stop, connection, restoreFailure>>

CloseConnection ==
    /\ pc = "closeConnection"
    /\ \/ /\ connection' = "closed"
          /\ pc' = "restore"
          /\ UNCHANGED <<escaping, first>>
       \/ /\ connection' = "failed"
          /\ CleanupRaises("restore")
    /\ UNCHANGED <<handlers, installed, stop, listener, restoreFailure>>

-----------------------------------------------------------------------------
(* Signals.                                                                *)

Alive == pc \notin {"exited", "killed"}

\* on_stop_signal
RequestStop(signum) ==
    /\ Alive
    /\ handlers[signum] = "stop"
    /\ stop' = TRUE
    /\ UNCHANGED <<pc, handlers, installed, connection, listener, escaping,
                   restoreFailure, first>>

Killed ==
    /\ Alive
    /\ handlers["SIGTERM"] = "previous"
    /\ pc' = "killed"
    /\ UNCHANGED <<handlers, installed, stop, connection, listener, escaping,
                   restoreFailure, first>>

\* SIGKILL, the OOM killer, a power loss.
Crash ==
    /\ Alive
    /\ pc' = "killed"
    /\ UNCHANGED <<handlers, installed, stop, connection, listener, escaping,
                   restoreFailure, first>>

\* KeyboardInterrupt between two steps. During the installation it is a
\* failure to roll back; during the restoration it is remembered like a
\* failed one, or escapes between two of them.
Interrupted ==
    /\ handlers["SIGINT"] = "previous"
    /\ \/ Raises("settings", "interrupt", "exited")
       \/ \E step \in {"install", "record"} :
            Raises(step, "interrupt", "restore")
       \/ Raises("restore", "interrupt", "exited")
       \/ /\ pc = "restore"
          /\ restoreFailure' = TRUE
          /\ UNCHANGED <<pc, handlers, installed, stop, connection, listener,
                         escaping, first>>

\* A new process, with nothing of the old one.
Restart ==
    /\ ~Alive
    /\ pc' = "settings"
    /\ handlers' = [s \in Signal |-> "previous"]
    /\ installed' = <<>>
    /\ stop' = FALSE
    /\ connection' = "none"
    /\ listener' = "none"
    /\ escaping' = "none"
    /\ restoreFailure' = FALSE
    /\ first' = "none"

ProcessStep ==
    \/ LoadSettings
    \/ InstallHandler
    \/ InstallRaises
    \/ RecordHandler
    \/ Connect
    \/ Wire
    \/ Bind
    \/ Compose
    \/ RunReturns
    \/ CloseListener
    \/ CloseConnection
    \/ RestoreHandler
    \/ FinishRestore

Next ==
    \/ ProcessStep
    \/ RunRaises
    \/ \E signum \in Signal : RequestStop(signum)
    \/ Killed
    \/ Crash
    \/ Interrupted
    \/ Restart

Spec == Init /\ [][Next]_vars

\* Every step of the process ends; run_forever does once it is asked to stop
\* (StopHonoured of Runtime), and need not fail otherwise.
FairSpec == Spec /\ WF_vars(ProcessStep)

-----------------------------------------------------------------------------
(* Properties.                                                             *)

(* The type of the process, its resources and its handlers.                *)
TypeOK ==
    /\ pc \in {"settings", "install", "record", "connect", "wire", "bind",
              "compose", "run", "closeListener", "closeConnection",
              "restore", "exited", "killed"}
    /\ handlers \in [Signal -> {"previous", "stop"}]
    /\ installed \in Seq(Signal) /\ Len(installed) <= 2
    /\ stop \in BOOLEAN
    /\ connection \in Resource
    /\ listener \in Resource
    /\ escaping \in Failure
    /\ restoreFailure \in BOOLEAN
    /\ first \in Failure

(* However the process ends, short of being killed, each resource it       *)
(* opened had its one close, whichever step failed and whatever the other  *)
(* close did.                                                              *)
ResourcesReleased ==
    pc = "exited" => connection # "open" /\ listener # "open"

(* The process exits with the signals given back, unless giving one back   *)
(* failed or a KeyboardInterrupt is what ended it.                         *)
HandlersGivenBack ==
    pc = "exited" /\ escaping # "interrupt" =>
        \/ restoreFailure
        \/ \A s \in Signal : handlers[s] = "previous"

(* The first failure is the one that is seen: a failure to start escapes   *)
(* as itself (KeyboardInterrupt apart), and no failure of the rollback in  *)
(* run_process or build_application replaces it; only connect()'s own      *)
(* cleanup can, and then only the failure of connect() itself, against     *)
(* application.py:59-62 ("never replaces it"). Whatever failed, a process  *)
(* that met a failure never looks as if it had not.                        *)
FirstFailureSeen ==
    pc = "exited" =>
        /\ escaping = "none" <=> first = "none"
        /\ first \in {"settings", "install", "build"} =>
                escaping \in {first, "interrupt"}
        /\ first = "connect" =>
                escaping \in {"connect", "cleanup", "interrupt"}

(* A stop request made while the application is still being built is not   *)
(* lost: the process ends.                                                 *)
StopEndsProcess == stop ~> ~Alive
=============================================================================
