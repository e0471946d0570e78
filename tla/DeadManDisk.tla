----------------------------- MODULE DeadManDisk -----------------------------
(***************************************************************************)
(* The dead-man cycle on a disk that can lose power                        *)
(* (deadman_store.DeadManStateStore.save and _sync_directory_best_effort,  *)
(* over DeadManCycle and DeadManCodec).                                    *)
(*                                                                         *)
(* DeadManCycle takes os.replace for durable. Here it is what POSIX makes  *)
(* it: the new document is what every process reads from then on, and what *)
(* a power loss brings back is any document that was the target since the  *)
(* directory last reached the disk. The temporary's bytes are fsynced      *)
(* before the rename; the directory is synced after it, best effort: where *)
(* it cannot be opened or synced, save() succeeds all the same.            *)
(*                                                                         *)
(* The fsync calls, the kernel and the power are external; a snapshot's    *)
(* ledger and run are the history that its document stands for.            *)
(***************************************************************************)
EXTENDS DeadManCycle, DeadManCodec, FiniteSets

CONSTANTS MaxSurvivors,   \* bound: snapshots the kernel holds back
          MaxLosses       \* bound: power losses

ASSUME DiskAssumption ==
    /\ MaxSurvivors \in Nat \ {0}
    /\ MaxLosses \in Nat

\* utc_now() reads datetime.now(timezone.utc).
ASSUME ClockAssumption == Time \subseteq UtcInstants

VARIABLES survivors,   \* what a power loss may bring back
          flushed,     \* the temporary's bytes are on the disk
          syncing,     \* save() is between os.replace and its return
          syncs,       \* the platform syncs directories
          losses       \* power losses so far

diskVars == <<survivors, flushed, syncing, syncs, losses>>

\* The name is on the disk and the bytes are not.
Torn == Refused

\* The file as it is now, with what it stands for.
Snapshot == [file |-> file, ledger |-> ledger, run |-> run]

DiskInit ==
    /\ Init
    /\ survivors = {Snapshot}
    /\ flushed = FALSE
    /\ syncing = FALSE
    /\ syncs \in BOOLEAN
    /\ losses = 0

-----------------------------------------------------------------------------
\* Mutant: the send does not wait for the directory sync.
ReadyAtOnce == TRUE

\* save() has returned: the process goes on, or the next one may start.
Ready == ~syncing

\* What the cycle does besides saving.
Elsewhere ==
    /\ Ready
    /\ \/ Start
       \/ Load
       \/ LoadFails
       \/ \E o \in DeadManProbeOutcome, now \in Time : ProbeAndAdvance(o, now)
       \/ \E now \in Time : AdvanceRaises(now)
       \/ WriteFails
       \/ Send
       \/ SendFails
    /\ UNCHANGED diskVars

\* Mutant: the temporary is closed and not synced.
WriteTemporaryUnsynced ==
    /\ Ready
    /\ \E step \in SaveStep : WriteTemporary(step)
    /\ UNCHANGED diskVars

\* handle.write, handle.flush, os.fsync(handle.fileno()).
WriteTemporaryDurably ==
    /\ Ready
    /\ \E step \in SaveStep : WriteTemporary(step)
    /\ flushed' = TRUE
    /\ UNCHANGED <<survivors, syncing, syncs, losses>>

ReplaceRaises ==
    /\ Ready
    /\ ReplaceFails
    /\ flushed' = FALSE
    /\ UNCHANGED <<survivors, syncing, syncs, losses>>

\* os.replace: the rename itself is not on the disk yet, and neither are
\* the bytes of a temporary that was not synced.
Replace ==
    /\ Ready
    /\ Cardinality(survivors) < MaxSurvivors
    /\ ReplaceAdvanced \/ ReplaceAcknowledged
    /\ survivors' = survivors \cup {Snapshot'}
                    \cup (IF flushed THEN {}
                          ELSE {[Snapshot' EXCEPT !.file = Torn]})
    /\ flushed' = FALSE
    /\ syncing' = TRUE
    /\ UNCHANGED <<syncs, losses>>

\* os.fsync of the directory.
SyncDirectory ==
    /\ syncing
    /\ syncs
    /\ survivors' = {Snapshot}
    /\ syncing' = FALSE
    /\ UNCHANGED <<vars, flushed, syncs, losses>>

\* No O_DIRECTORY, or the open or the fsync fails: swallowed.
SyncSwallowed ==
    /\ syncing
    /\ ~syncs
    /\ syncing' = FALSE
    /\ UNCHANGED <<vars, survivors, flushed, syncs, losses>>

-----------------------------------------------------------------------------
(* The machine.                                                            *)

\* The kernel writes the directory back in its own time.
Writeback ==
    /\ survivors # {Snapshot}
    /\ survivors' = {Snapshot}
    /\ UNCHANGED <<vars, flushed, syncing, syncs, losses>>

\* The process is killed, perhaps inside save(): the page cache survives.
Kill ==
    /\ \/ Crash
       \/ syncing /\ Exit /\ UNCHANGED <<file, history>>
    /\ flushed' = FALSE
    /\ syncing' = FALSE
    /\ UNCHANGED <<survivors, syncs, losses>>

\* The power goes, and with it every rename that was not on the disk. What
\* the operator received stays received.
PowerLoss ==
    /\ losses < MaxLosses
    /\ losses' = losses + 1
    /\ \E s \in survivors :
        /\ file' = s.file
        /\ ledger' = s.ledger
        /\ run' = s.run
        /\ survivors' = {s}
        /\ Exit
        /\ flushed' = FALSE
        /\ syncing' = FALSE
        /\ UNCHANGED <<chat, told, syncs>>

DiskNext ==
    \/ Elsewhere
    \/ WriteTemporaryDurably
    \/ ReplaceRaises
    \/ Replace
    \/ SyncDirectory
    \/ SyncSwallowed
    \/ Writeback
    \/ Kill
    \/ PowerLoss

DiskSpec == DiskInit /\ [][DiskNext]_<<vars, diskVars>>

-----------------------------------------------------------------------------
(* Properties.                                                             *)

(* Whatever a power loss brings back - the current file or one before it - *)
(* is a whole snapshot that the next load accepts and takes for exactly    *)
(* the status that was saved: the watchdog is never locked out by its own  *)
(* save, because the bytes reach the disk before the name does.            *)
SurvivorsReadable ==
    /\ Snapshot \in survivors
    /\ \A s \in survivors :
        s.file # NoFile => s.file # Torn /\ RoundTrips(s.file)

(* A file damaged or edited in one place is refused, or says of every key  *)
(* what the encoder would: none is ignored, no value defaulted or coerced. *)
(* The one exception is a time put in whose offset leaves it no UTC form:  *)
(* it is accepted, and the next save raises OverflowError (deadman.py:1073,*)
(* against "internal future-behavior safety" at deadman.py:1359-1361).     *)
(* (Every file a process finds is one that was saved without a loss of     *)
(* power before it, so those are the ones to edit.)                        *)
StrictDecoding ==
    pc = "load" /\ syncs /\ losses = 0 /\ file # NoFile =>
        StrictlyDecoded(file)

(* Where directories are synced, a power loss at any instant loses no      *)
(* intent the operator was told of and repeats at most the last message:   *)
(* nothing is sent before the name it was saved under is on the disk.      *)
SyncedLosesNothing == syncs => NoIntentLost

(* Directories synced or not, what comes back from a power loss is at      *)
(* peace with the history it stands for: the streaks are those of the      *)
(* outcomes it remembers, and no RECOVERED is due for an outage it does    *)
(* not know the operator to have heard of.                                 *)
HistoryConsistent == DebounceMatchesHistory /\ RecoveredFollowsDown
=============================================================================
