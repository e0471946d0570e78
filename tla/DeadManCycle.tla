---------------------------- MODULE DeadManCycle ----------------------------
(***************************************************************************)
(* The oneshot dead-man runtime: a systemd timer starts one process at a   *)
(* time, and the process runs one cycle                                    *)
(*                                                                         *)
(*   load -> probe, clock, advance -> save -> send oldest -> ack, save     *)
(*                                                                         *)
(* (deadman_runtime.run_deadman_cycle over deadman_store,                  *)
(* deadman_telegram and the core of DeadManStatus). Every I/O call may     *)
(* fail, which ends the process with exit code 1, and the process may be   *)
(* killed between any two of them (the unit's TimeoutStartSec, a power     *)
(* loss). Only the state file survives a process.                          *)
(*                                                                         *)
(* ledger, run and chat are history: every intent that was ever durable,   *)
(* the last run of equal persisted outcomes, and what the operator has     *)
(* received. No action's guard reads them.                                 *)
(***************************************************************************)
EXTENDS DeadManStatus

CONSTANTS Time,         \* the instants the wall clock may read
          MaxId,        \* bound: ids the allocator hands out
          MaxPending,   \* intents that fit in MAX_DEADMAN_STATE_BYTES
          NoFile        \* the state file is absent

ASSUME CycleAssumption ==
    /\ Time \subseteq Nat
    /\ MaxId \in Nat
    /\ MaxPending \in Nat
    /\ NoFile \notin DeadManStatusType

VARIABLES file,      \* the state file: a status, or NoFile
          pc,        \* where the running process is; "idle": none runs
          status,    \* the status the process holds in memory
          outcome,   \* this cycle's probe outcome
          ledger,    \* history: the durable intents, by id
          run,       \* history: the last run of equal persisted outcomes
          chat,      \* history: the intents the operator received
          told       \* history: the id the operator received last

vars == <<file, pc, status, outcome, ledger, run, chat, told>>

history == <<ledger, run, chat, told>>

DeadManProbeOutcome == {"HEALTHY", "FAILED"}

\* The length at which a run of outcomes stops being counted.
RunCap == DOWN_CONFIRMATIONS + RECOVERY_CONFIRMATIONS

NoRun == [outcome |-> "NONE", length |-> 0]

Init ==
    /\ file = NoFile
    /\ pc = "idle"
    /\ status = INITIAL_DEADMAN_STATUS
    /\ outcome = "NONE"
    /\ ledger = <<>>
    /\ run = NoRun
    /\ chat = {}
    /\ told = 0

-----------------------------------------------------------------------------
(* The process boundary.                                                   *)

\* The timer starts the service; a oneshot unit never overlaps itself.
Start ==
    /\ pc = "idle"
    /\ pc' = "load"
    /\ UNCHANGED <<file, status, outcome, history>>

\* The process ends, and what it held in memory is gone.
Exit ==
    /\ pc' = "idle"
    /\ status' = INITIAL_DEADMAN_STATUS
    /\ outcome' = "NONE"

\* The process is killed. A temporary file it was writing stays behind,
\* under a name no later process uses or cleans up.
Crash ==
    /\ pc # "idle"
    /\ Exit
    /\ UNCHANGED <<file, history>>

-----------------------------------------------------------------------------
(* The store.                                                              *)

\* What a decoded file holds; an absent one is the canonical fresh start.
Persisted == IF file = NoFile THEN INITIAL_DEADMAN_STATUS ELSE file

Load ==
    /\ pc = "load"
    /\ status' = Persisted
    /\ pc' = "probe"
    /\ UNCHANGED <<file, outcome, history>>

\* The read raises OSError: DeadManStateStoreError, exit code 1.
LoadFails ==
    /\ pc = "load"
    /\ Exit
    /\ UNCHANGED <<file, history>>

\* The encoded document stays within MAX_DEADMAN_STATE_BYTES.
Fits(s) == Len(s.pending_notifications) <= MaxPending

SaveStep == {"save", "saveAck"}

ReplaceStep == {"replace", "replaceAck"}

\* Mutant: deliver first, save with the acknowledgement.
WriteTemporaryLater(step) ==
    /\ pc = step
    /\ Fits(status)
    /\ pc' = IF step = "saveAck" THEN "replaceAck"
             ELSE IF status.pending_notifications = <<>> THEN "replace"
             ELSE "send"
    /\ UNCHANGED <<file, status, outcome, history>>

\* save(), first half: encode, check the size, write and fsync a temporary.
WriteTemporary(step) ==
    /\ pc = step
    /\ Fits(status)
    /\ pc' = IF step = "save" THEN "replace" ELSE "replaceAck"
    /\ UNCHANGED <<file, status, outcome, history>>

\* The document is too large or mkstemp fails (nothing was created), or the
\* write fails and the temporary is removed - quietly.
WriteFails ==
    /\ pc \in SaveStep
    /\ Exit
    /\ UNCHANGED <<file, history>>

\* os.replace raises; the temporary is removed quietly.
ReplaceFails ==
    /\ pc \in ReplaceStep
    /\ Exit
    /\ UNCHANGED <<file, history>>

\* The intents of s that were not durable before.
NewlyDurable(s) ==
    LET pending == s.pending_notifications
        known == Len(ledger)
    IN  IF pending # <<>> /\ pending[Len(pending)].notification_id > known
        THEN <<pending[Len(pending)]>>
        ELSE <<>>

ExtendRun(o) ==
    IF run.outcome # o
    THEN [outcome |-> o, length |-> 1]
    ELSE [outcome |-> o,
          length |-> IF run.length < RunCap THEN run.length + 1
                                            ELSE run.length]

\* os.replace after the advance: the new status, and any new intent in it,
\* is durable before a delivery is attempted; with nothing pending the
\* cycle is complete.
ReplaceAdvanced ==
    /\ pc = "replace"
    /\ file' = status
    /\ ledger' = ledger \o NewlyDurable(status)
    /\ run' = ExtendRun(outcome)
    /\ IF status.pending_notifications = <<>>
       THEN Exit
       ELSE pc' = "send" /\ UNCHANGED <<status, outcome>>
    /\ UNCHANGED <<chat, told>>

\* os.replace after the acknowledgement: the cycle is complete.
ReplaceAcknowledged ==
    /\ pc = "replaceAck"
    /\ file' = status
    /\ ledger' = ledger \o NewlyDurable(status)
    /\ Exit
    /\ UNCHANGED <<run, chat, told>>

-----------------------------------------------------------------------------
(* One probe, one reading of the clock, one step of the core.              *)

ProbeAndAdvance(o, now) ==
    LET advanced == advance_deadman_status(status, o, now)
    IN  /\ pc = "probe"
        /\ ~ClockBehind(status, now)
        /\ advanced.next_notification_id <= MaxId + 1
        /\ status' = advanced
        /\ outcome' = o
        /\ pc' = "save"
        /\ UNCHANGED <<file, history>>

\* The clock reads an instant before state_changed_at: the core raises
\* ValueError and the process exits without touching the file.
AdvanceRaises(now) ==
    /\ pc = "probe"
    /\ ClockBehind(status, now)
    /\ Exit
    /\ UNCHANGED <<file, history>>

-----------------------------------------------------------------------------
(* One delivery attempt, of the oldest pending intent.                     *)

Receive(n) ==
    /\ chat' = chat \cup {n}
    /\ told' = n.notification_id

\* Mutant: the cycle ends with the delivery.
SendUnacknowledged ==
    /\ pc = "send"
    /\ Receive(Head(status.pending_notifications))
    /\ Exit
    /\ UNCHANGED <<file, ledger, run>>

\* Telegram confirms: the exact id is acknowledged in memory.
Send ==
    LET oldest == Head(status.pending_notifications)
    IN  /\ pc = "send"
        /\ Receive(oldest)
        /\ status' = acknowledge_deadman_notification(
                        status, oldest.notification_id)
        /\ pc' = "saveAck"
        /\ UNCHANGED <<file, outcome, ledger, run>>

\* Mutant: a delivery error is swallowed.
SendFailsSwallowed ==
    LET oldest == Head(status.pending_notifications)
    IN  /\ pc = "send"
        /\ status' = acknowledge_deadman_notification(
                        status, oldest.notification_id)
        /\ pc' = "saveAck"
        /\ UNCHANGED <<file, outcome, history>>

\* DeadManTelegramDeliveryError, the message never having arrived - or
\* having arrived, the confirmation being lost, late or unreadable.
SendFails ==
    /\ pc = "send"
    /\ Exit
    /\ \/ UNCHANGED <<chat, told>>
       \/ Receive(Head(status.pending_notifications))
    /\ UNCHANGED <<file, ledger, run>>

-----------------------------------------------------------------------------
\* A step of the running process: a call that returns or raises.
ProcessStep ==
    \/ Load
    \/ LoadFails
    \/ \E o \in DeadManProbeOutcome, now \in Time : ProbeAndAdvance(o, now)
    \/ \E now \in Time : AdvanceRaises(now)
    \/ \E step \in SaveStep : WriteTemporary(step)
    \/ WriteFails
    \/ ReplaceFails
    \/ ReplaceAdvanced
    \/ ReplaceAcknowledged
    \/ Send
    \/ SendFails

Next == Start \/ ProcessStep \/ Crash

Spec == Init /\ [][Next]_vars

\* The timer keeps firing and every call of the process is bounded by a
\* timeout, so a process never just stops. No step fails or is cut short
\* every time it is tried: the file system, the clock and Telegram each work
\* again and again. Which outcome a probe has is left open.
Fairness ==
    /\ WF_vars(Start)
    /\ WF_vars(ProcessStep)
    /\ SF_vars(Load)
    /\ SF_vars(\E o \in DeadManProbeOutcome, now \in Time :
                    ProbeAndAdvance(o, now))
    /\ \A step \in SaveStep : SF_vars(WriteTemporary(step))
    /\ SF_vars(ReplaceAdvanced)
    /\ SF_vars(ReplaceAcknowledged)
    /\ SF_vars(Send)

FairSpec == Spec /\ Fairness

-----------------------------------------------------------------------------
(* Properties.                                                             *)

(* The type of the state file, of the process and of the history.          *)
TypeOK ==
    /\ file \in DeadManStatusType \cup {NoFile}
    /\ pc \in {"idle", "load", "probe", "send"} \cup SaveStep \cup ReplaceStep
    /\ status \in DeadManStatusType
    /\ outcome \in DeadManProbeOutcome \cup {"NONE"}
    /\ ledger \in Seq(DeadManNotification)
    /\ run \in [outcome : DeadManProbeOutcome \cup {"NONE"}, length : Nat]
    /\ chat \subseteq DeadManNotification
    /\ told \in Nat

(* DeadManStatus.__post_init__ accepts every status the cycle builds and   *)
(* every status a later cycle will decode from the file: neither the       *)
(* machine nor the store can lock itself out with a snapshot of its own,   *)
(* whatever was pending when an outage began or ended.                     *)
StatusAlwaysValid ==
    /\ ValidStatus(status)
    /\ ValidStatus(Persisted)

(* At-least-once, oldest first, nothing invented: what the operator has    *)
(* received is exactly a prefix of the durable ledger, an id never stands  *)
(* for two different intents, and every intent that was ever durable has   *)
(* been received or is still pending in the file - across every crash,     *)
(* failed write and lost confirmation.                                     *)
NoIntentLost ==
    LET pending == Persisted.pending_notifications
        acknowledged == Len(ledger) - Len(pending)
    IN  /\ Persisted.next_notification_id = Len(ledger) + 1
        /\ acknowledged \in {told, told - 1}
        /\ told <= Len(ledger)
        /\ \A i \in 1..Len(pending) : pending[i] = ledger[acknowledged + i]
        /\ chat = {ledger[i] : i \in 1..told}

(* t is s after one advance, as far as the queue goes: nothing pending was *)
(* dropped or reordered, and at most one intent was allocated behind it.   *)
Grown(s, t) ==
    LET before == s.pending_notifications
        after == t.pending_notifications
    IN  /\ t.next_notification_id - s.next_notification_id \in {0, 1}
        /\ Len(after) - Len(before) =
                t.next_notification_id - s.next_notification_id
        /\ \A i \in 1..Len(before) : after[i] = before[i]

(* What the process holds is never ahead of the file by more than one      *)
(* advance or one acknowledgement: it delivers only what the file already  *)
(* holds, and acknowledges only what the operator received last.           *)
MemoryTracksFile ==
    LET queued == Persisted.pending_notifications
    IN  /\ pc \in {"probe", "send"} => status = Persisted
        /\ pc = "send" => queued # <<>>
        /\ pc \in {"save", "replace"} => Grown(Persisted, status)
        /\ pc \in {"saveAck", "replaceAck"} =>
                /\ queued # <<>>
                /\ told = Head(queued).notification_id
                /\ status = acknowledge_deadman_notification(Persisted, told)

(* A RECOVERED message reaches the operator only right after the DOWN      *)
(* message of the same outage: never for an outage nobody was told about.  *)
RecoveredFollowsDown ==
    \A i \in 1..Len(ledger) :
        ledger[i].kind = "RECOVERED" =>
            /\ i > 1
            /\ ledger[i - 1].kind = "DOWN"
            /\ ledger[i - 1] \in chat

(* The persisted state is the debounce of the persisted outcomes: three    *)
(* failures in a row mean DOWN, two successes in a row mean UP, and the    *)
(* streak the file carries is the length of the current run, however many  *)
(* cycles were lost in between.                                            *)
DebounceMatchesHistory ==
    LET s == Persisted
        failing == run.outcome = "FAILED"
        healthy == run.outcome = "HEALTHY"
    IN  /\ failing /\ run.length >= DOWN_CONFIRMATIONS => s.state = "DOWN"
        /\ healthy /\ run.length >= RECOVERY_CONFIRMATIONS => s.state = "UP"
        /\ s.state # "DOWN" => s.consecutive_failures =
                                    IF failing THEN run.length ELSE 0
        /\ s.state = "DOWN" => s.consecutive_successes =
                                    IF healthy THEN run.length ELSE 0

(* DOWN is entered only by the failure that completes a run of             *)
(* DOWN_CONFIRMATIONS, and left only by the success that completes a run   *)
(* of RECOVERY_CONFIRMATIONS.                                              *)
FlipsOnlyWhenConfirmed ==
    [][/\ Persisted.state # "DOWN" /\ Persisted'.state = "DOWN" =>
            run' = [outcome |-> "FAILED", length |-> DOWN_CONFIRMATIONS]
       /\ Persisted.state = "DOWN" /\ Persisted'.state # "DOWN" =>
            run' = [outcome |-> "HEALTHY",
                    length |-> RECOVERY_CONFIRMATIONS]]_vars

(* A wall clock that steps back never reorders the story: alerts are dated *)
(* in the order of their ids, because an advance against an older clock    *)
(* fails closed.                                                           *)
ChronologyPreserved ==
    \A i, j \in 1..Len(ledger) : i < j => ledger[i].at <= ledger[j].at

(* Every durable intent is delivered in the end.                           *)
EveryIntentDelivered == \A i \in 1..MaxId : Len(ledger) >= i ~> told >= i

(* An outage that never ends, the first or a later one, is confirmed, its  *)
(* DOWN message is delivered and acknowledged, and so it stays. (The bound *)
(* on ids is not to be what keeps it from being confirmed.)                *)
OutageReported ==
    <>[]( /\ run.outcome = "FAILED"
          /\ Persisted.state # "DOWN" =>
                Persisted.next_notification_id <= MaxId ) =>
        <>[](Persisted.state = "DOWN" /\ Persisted.current_down.acknowledged)

(* The cycle is an outbox: seen from the durable ledger and the chat,      *)
(* every step publishes, delivers or acknowledges one alert, in order, or  *)
(* changes nothing.                                                        *)
Outbox == INSTANCE AlertOutbox
            WITH Alert <- DeadManNotification,
                 log <- ledger,
                 acked <- Len(ledger) - Len(Persisted.pending_notifications)

ImplementsOutbox == Outbox!Spec
=============================================================================
