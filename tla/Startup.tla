------------------------------- MODULE Startup ------------------------------
(***************************************************************************)
(* The life of the central process with the two components that decide     *)
(* whether it may start at all: the settings, read from the environment of *)
(* the moment, and the database, bootstrapped statement by statement and   *)
(* validated a second time when the repository is made over it. Lifecycle  *)
(* leaves open whether loading the settings, connecting and wiring         *)
(* succeed; here the environment and the database decide, and a crash may  *)
(* come between any two statements.                                        *)
(***************************************************************************)
EXTENDS Lifecycle, Schema, Settings

CONSTANT Environments     \* environments the process may be started in

\* The content of a JSON integer is an integer, where a host is confirmed
\* down or up by comparing it.
IntegersAreIntegers(env) ==
    "HOSTS_JSON" \in DOMAIN env /\ load_config(env["HOSTS_JSON"]) =>
        LET hosts == Content(Content(env["HOSTS_JSON"]))
        IN  \A i \in DOMAIN hosts :
                LET external == Content(Content(hosts[i]).external)
                IN  \A name \in ConfirmationFields \cap DOMAIN external :
                        Kind(external[name]) = "int" =>
                            Content(external[name]) \in Int

ASSUME EnvironmentsAssumption ==
    \A env \in Environments : IntegersAreIntegers(env)

VARIABLES settings,    \* what the settings in use are worth
          opened       \* history: some life of the process opened db

everything == <<vars, schema, settings, opened>>

StartupInit ==
    /\ Init
    /\ SchemaInit
    /\ settings = "none"
    /\ opened = FALSE

\* A step of the life that neither component takes part in.
Apart == UNCHANGED <<schema, settings, opened>>

-----------------------------------------------------------------------------
(* Settings.                                                               *)

PositiveCount(v) == Kind(v) = "huge" \/ (Kind(v) = "int" /\ Content(v) > 0)

PositiveNumber(v) == /\ Kind(v) \in {"int", "float", "integer", "number"}
                     /\ Content(v) > 0

ConsistentHost(h) ==
    /\ PositiveNumber(h.stale_after) /\ PositiveNumber(h.timeout)
    /\ PositiveNumber(h.disk) /\ Content(h.disk) <= 100
    /\ PositiveCount(h.down) /\ PositiveCount(h.recovery)
    /\ json_string(h.tcp_host) /\ Content(h.tcp_host) # ""
    /\ PositiveCount(h.tcp_port)

\* What the other components rely on and nothing else checks again: hosts
\* have unique names that the repository will look up, each has exactly one
\* token and no two share one, and no count, port, timeout or interval is
\* zero, negative or a bool. There is no upper limit to rely on: a timeout
\* or an interval too long for the socket or for sleep() passes, as does a
\* tcp_host that names nothing, and the probe or the loop raises on it.
Consistent(s) ==
    LET names == [i \in DOMAIN s.hosts |-> s.hosts[i].name]
    IN  /\ IsInjective(names)
        /\ \A i \in DOMAIN names : names[i] \notin Blank
        /\ DOMAIN s.credentials = {names[i] : i \in DOMAIN names}
        /\ IsInjective(s.credentials)
        /\ \A i \in DOMAIN s.hosts : ConsistentHost(s.hosts[i])
        /\ PositiveNumber(s.monitor_interval)
        /\ PositiveNumber(s.poll_interval)

Judged(s) == IF s = Refused THEN "refused"
             ELSE IF Consistent(s) THEN "consistent" ELSE "inconsistent"

\* What loading comes to, over all the environments.
Loadings == {Judged(load_central_settings(env)) : env \in Environments}

SettingsAccepted ==
    /\ Proceeds("settings", "install")
    /\ settings' \in Loadings \ {"refused"}
    /\ UNCHANGED <<connection, listener, schema, opened>>

SettingsRefused ==
    /\ "refused" \in Loadings
    /\ Raises("settings", "settings", "exited")
    /\ Apart

-----------------------------------------------------------------------------
(* connect().                                                              *)

\* sqlite3.connect returns ...
OpenDatabase ==
    /\ pc = "connect"
    /\ BeginBootstrap
    /\ UNCHANGED <<vars, settings, opened>>

\* ... or raises: there is no connection to close.
OpenDatabaseFails ==
    /\ step = "idle"
    /\ Connect
    /\ connection' = "none"
    /\ Apart

BootstrapStep ==
    /\ BeginTransaction \/ CreateTable \/ CreateIndex \/ Stamp
    /\ UNCHANGED <<vars, settings, opened>>

Connected ==
    /\ Accept \/ Commit
    /\ Connect
    /\ connection' = "open"
    /\ opened' = TRUE
    /\ UNCHANGED settings

\* Whatever initialize_schema raises, connect closes the connection. The
\* close may raise, and so may the rollback of a transaction in which a
\* statement raised, after which the close still succeeds.
ConnectRefused ==
    /\ Refuse \/ StatementRaises
    /\ Connect
    /\ connection' \in {"closed", "failed"}
    /\ connection' = "closed" /\ escaping' = "cleanup" =>
            step \in {"table", "index", "stamp"}
    /\ UNCHANGED <<settings, opened>>

\* HeartbeatRepository runs initialize_schema again; a database connect has
\* bootstrapped is not written to any more.
WireOverDatabase ==
    /\ Wire
    /\ pc' = "bind" => validate(db) = "accepted"
    /\ Apart

-----------------------------------------------------------------------------
OtherStep ==
    /\ \/ InstallHandler
       \/ InstallRaises
       \/ RecordHandler
       \/ Bind
       \/ Compose
       \/ RunReturns
       \/ CloseListener
       \/ CloseConnection
       \/ RestoreHandler
       \/ FinishRestore
    /\ Apart

StartupStep ==
    \/ SettingsAccepted
    \/ SettingsRefused
    \/ OpenDatabase
    \/ OpenDatabaseFails
    \/ BootstrapStep
    \/ Connected
    \/ ConnectRefused
    \/ WireOverDatabase
    \/ OtherStep

\* The process is gone, and its transaction with it.
Dies ==
    /\ Killed \/ Crash
    /\ Abandon
    /\ UNCHANGED <<settings, opened>>

StartAgain ==
    /\ Restart
    /\ settings' = "none"
    /\ UNCHANGED <<schema, opened>>

Environment ==
    \/ /\ RunRaises \/ Interrupted \/ \E signum \in Signal : RequestStop(signum)
       /\ Apart
    \/ Dies
    \/ StartAgain
    \/ /\ OtherBootstraps
       /\ UNCHANGED <<vars, settings, opened>>

StartupNext == StartupStep \/ Environment

StartupSpec ==
    /\ StartupInit
    /\ [][StartupNext]_everything
    /\ WF_everything(StartupStep)

-----------------------------------------------------------------------------
(* Properties.                                                             *)

(* The database file only ever changes from one that needs the bootstrap   *)
(* to a complete canonical one, in one go: whichever statement raised,     *)
(* wherever the process died and whoever else was bootstrapping the file,  *)
(* nothing half-made is left, and a database that is refused is not        *)
(* touched.                                                                *)
AllOrNothing ==
    [][db' # db => validate(db) = "write" /\ validate(db') = "accepted"]_db

(* No process gets past its settings with an inventory and credentials     *)
(* that do not belong together, or with a quantity that is not positive: a *)
(* host with a blank name, say, which HostConfig lets pass and the         *)
(* repository would raise on in every cycle, is refused with its token.    *)
(* (A quantity that is positive and too large is not refused.)             *)
SettingsConsistent == settings # "inconsistent"

(* persistence/schema.py:31-32: "validation happens before any write, so a *)
(* failed bootstrap never leaves a partially accepted schema or version    *)
(* behind": a start that fails after connect() accepted the database does  *)
(* not leave one that is refused from then on.                             *)
NoPartialAcceptance ==
    opened /\ pc = "exited" /\ first \in {"connect", "build"} =>
        validate(db) # "refused"
=============================================================================
