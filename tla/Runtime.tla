------------------------------ MODULE Runtime -------------------------------
(***************************************************************************)
(* The schedule of SentinelRuntime.run_forever (runtime.py): one thread,   *)
(* a completion-anchored monitoring schedule on the monotonic clock, a     *)
(* bounded accept wait and at most one request per iteration, with the     *)
(* stop flag read only at the loop boundary.                               *)
(*                                                                         *)
(* The clock advances whenever the code does something that takes time:    *)
(* between any two statements, during a cycle, during the accept wait and  *)
(* while a client is served. A client that was accepted has no timeout     *)
(* (http_server.py): the request lasts as long as the client wants.        *)
(*                                                                         *)
(* Clock readings are floats with Precision significant bits, so that      *)
(* adding a small interval to a large reading may change nothing. Results  *)
(* are rounded to nearest, ties to even. Two readings' difference is exact *)
(* in the range that matters (Sterbenz), so remaining is not rounded.      *)
(***************************************************************************)
EXTENDS Integers

CONSTANTS MonitorInterval,  \* monitor_interval_seconds
          PollInterval,     \* poll_interval_seconds
          Precision,        \* significant bits of a float
          MaxClock          \* bound: the last clock reading

ASSUME RuntimeAssumption ==
    /\ MonitorInterval \in Nat \ {0}
    /\ PollInterval \in Nat \ {0}
    /\ Precision \in Nat \ {0}
    /\ MaxClock \in Nat

VARIABLES clock,      \* what monotonic() reads now
          pc,         \* where the loop is
          now,        \* the local variable: the reading it decides on
          next_due,   \* the local variable: None is Unscheduled
          timeout,    \* server.timeout
          waitStart,  \* when the accept wait began
          stop,       \* the stop predicate
          completed,  \* history: when the last cycle was completed
          late,       \* history: requests begun since the cycle was due
          afterStop   \* history: cycles and requests begun since the stop

vars == <<clock, pc, now, next_due, timeout, waitStart, stop, completed,
          late, afterStop>>

Unscheduled == -1

Clock == 0..MaxClock

-----------------------------------------------------------------------------
(* Floats.                                                                 *)

\* The distance between the floats around n.
Ulp(n) ==
    LET fits(e) == n < 2^(Precision + e)
    IN  2^(CHOOSE e \in 0..n : fits(e) /\ \A d \in 0..(e - 1) : ~fits(d))

Float == {n \in Clock : n % Ulp(n) = 0}

RoundToFloat(n) ==
    LET below == n - (n % Ulp(n))
        rest == 2 * (n % Ulp(n))
        even == (below \div Ulp(n)) % 2 = 0
    IN  IF rest < Ulp(n) \/ (rest = Ulp(n) /\ even)
        THEN below
        ELSE below + Ulp(n)

nextafter(n) == n + Ulp(n)

\* Mutant: a sum that collapses is taken as it is.
deadline_collapsing(completion, interval) ==
    RoundToFloat(completion + interval)

deadline_after(completion, interval) ==
    LET deadline == RoundToFloat(completion + interval)
    IN  IF deadline <= completion THEN nextafter(completion) ELSE deadline

-----------------------------------------------------------------------------
Init ==
    /\ clock \in Float
    /\ pc = "boundary"
    /\ now = 0
    /\ next_due = Unscheduled
    /\ timeout = 0
    /\ waitStart = 0
    /\ stop = FALSE
    /\ completed = Unscheduled
    /\ late = 0
    /\ afterStop = [cycles |-> 0, requests |-> 0]

\* Time passes. An idle accept wait does not last beyond its timeout; the
\* bound on the clock stops the model, not the program.
Tick ==
    /\ pc # "returned"
    /\ \E t \in Float :
        /\ t > clock
        /\ pc = "accept" => t <= waitStart + timeout
        /\ clock' = t
    /\ UNCHANGED <<pc, now, next_due, timeout, waitStart, stop, completed,
                   late, afterStop>>

\* A stop signal marks the request, whatever the loop is doing.
RequestStop ==
    /\ pc # "returned"
    /\ ~stop
    /\ stop' = TRUE
    /\ UNCHANGED <<clock, pc, now, next_due, timeout, waitStart, completed,
                   late, afterStop>>

-----------------------------------------------------------------------------
Counted(n) == IF n < 2 THEN n + 1 ELSE n

\* Mutant: stop is only looked at before the first cycle.
ReturnOnlyUnscheduled ==
    /\ pc = "boundary"
    /\ stop
    /\ next_due = Unscheduled
    /\ pc' = "returned"
    /\ UNCHANGED <<clock, now, next_due, timeout, waitStart, stop, completed,
                   late, afterStop>>

Return ==
    /\ pc = "boundary"
    /\ stop
    /\ pc' = "returned"
    /\ UNCHANGED <<clock, now, next_due, timeout, waitStart, stop, completed,
                   late, afterStop>>

\* Mutant: the loop condition is not looked at.
ReadClockAlways ==
    /\ pc = "boundary"
    /\ now' = clock
    /\ next_due' = IF next_due = Unscheduled THEN clock ELSE next_due
    /\ pc' = "schedule"
    /\ UNCHANGED <<clock, timeout, waitStart, stop, completed, late,
                   afterStop>>

\* while not stop(): read the clock; the first cycle is due at once.
ReadClock ==
    /\ pc = "boundary"
    /\ ~stop
    /\ now' = clock
    /\ next_due' = IF next_due = Unscheduled THEN clock ELSE next_due
    /\ pc' = "schedule"
    /\ UNCHANGED <<clock, timeout, waitStart, stop, completed, late,
                   afterStop>>

BeginCycle ==
    /\ pc = "schedule"
    /\ now >= next_due
    /\ pc' = "cycle"
    /\ late' = 0
    /\ afterStop' = IF stop
                    THEN [afterStop EXCEPT !.cycles = Counted(@)]
                    ELSE afterStop
    /\ UNCHANGED <<clock, now, next_due, timeout, waitStart, stop, completed>>

\* The cycle returns: the schedule restarts from its completion.
EndCycle ==
    /\ pc = "cycle"
    /\ now' = clock
    /\ completed' = clock
    /\ next_due' = deadline_after(clock, MonitorInterval)
    /\ pc' = "bound"
    /\ UNCHANGED <<clock, timeout, waitStart, stop, late, afterStop>>

SkipCycle ==
    /\ pc = "schedule"
    /\ now < next_due
    /\ pc' = "bound"
    /\ UNCHANGED <<clock, now, next_due, timeout, waitStart, stop, completed,
                   late, afterStop>>

AcceptBound ==
    LET remaining == IF next_due > now THEN next_due - now ELSE 0
    IN  IF remaining < PollInterval THEN remaining ELSE PollInterval

\* server.timeout = min(poll, remaining), then handle_request.
BeginWait ==
    /\ pc = "bound"
    /\ timeout' = AcceptBound
    /\ waitStart' = clock
    /\ pc' = "accept"
    /\ UNCHANGED <<clock, now, next_due, stop, completed, late, afterStop>>

\* No client came before the timeout.
WaitExpires ==
    /\ pc = "accept"
    /\ ~\E t \in Float : clock < t /\ t <= waitStart + timeout
    /\ pc' = "boundary"
    /\ UNCHANGED <<clock, now, next_due, timeout, waitStart, stop, completed,
                   late, afterStop>>

\* A client connects within the wait.
Accept ==
    /\ pc = "accept"
    /\ pc' = "client"
    /\ late' = IF clock >= next_due THEN Counted(late) ELSE late
    /\ afterStop' = IF stop
                    THEN [afterStop EXCEPT !.requests = Counted(@)]
                    ELSE afterStop
    /\ UNCHANGED <<clock, now, next_due, timeout, waitStart, stop, completed>>

\* Mutant: the next client is waited for without a schedule check.
ClientDoneServesOn ==
    /\ pc = "client"
    /\ pc' = "bound"
    /\ UNCHANGED <<clock, now, next_due, timeout, waitStart, stop, completed,
                   late, afterStop>>

\* Mutant: the schedule restarts from every request.
ClientDonePostpones ==
    /\ pc = "client"
    /\ pc' = "boundary"
    /\ next_due' = deadline_after(clock, MonitorInterval)
    /\ UNCHANGED <<clock, now, timeout, waitStart, stop, completed, late,
                   afterStop>>

\* The client sent its request or hung up, and was answered.
ClientDone ==
    /\ pc = "client"
    /\ pc' = "boundary"
    /\ UNCHANGED <<clock, now, next_due, timeout, waitStart, stop, completed,
                   late, afterStop>>

LoopStep ==
    \/ Return
    \/ ReadClock
    \/ BeginCycle
    \/ EndCycle
    \/ SkipCycle
    \/ BeginWait
    \/ WaitExpires

Next == LoopStep \/ Accept \/ ClientDone \/ Tick \/ RequestStop

Spec == Init /\ [][Next]_vars

\* The thread keeps running, a monitoring cycle ends (each of its calls has
\* a timeout) and time passes. Nothing makes a client finish.
StalledSpec == Spec /\ WF_vars(LoopStep) /\ SF_vars(Tick)

\* Clients finish, or hang up.
FairSpec == StalledSpec /\ WF_vars(ClientDone)

-----------------------------------------------------------------------------
(* Properties.                                                             *)

(* Every clock value the loop keeps is a reading or a sum that exists as a *)
(* float.                                                                  *)
TypeOK ==
    /\ clock \in Float
    /\ pc \in {"boundary", "schedule", "cycle", "bound", "accept", "client",
              "returned"}
    /\ now \in Float
    /\ next_due \in Nat \cup {Unscheduled}
    /\ next_due # Unscheduled => next_due % Ulp(next_due) = 0
    /\ timeout \in 0..PollInterval
    /\ waitStart \in Float
    /\ stop \in BOOLEAN
    /\ completed \in Float \cup {Unscheduled}
    /\ late \in 0..2
    /\ afterStop \in [cycles : 0..2, requests : 0..2]

(* Continuous heartbeat traffic cannot starve monitoring: once a cycle is  *)
(* due, at most one more request is begun before it runs, even though the  *)
(* accept wait was computed from a clock reading that is already old.      *)
AtMostOneLateRequest == late <= 1

(* After a stop signal at most one more cycle and one more request begin.  *)
StopWithinOneIteration == afterStop.cycles <= 1 /\ afterStop.requests <= 1

(* A cycle never runs at the clock instant the previous one was completed  *)
(* at, even where the interval is lost in the rounding of a large clock.   *)
NeverTwiceAtOneInstant ==
    pc = "cycle" /\ completed # Unscheduled => now > completed

(* Every deadline leads to a cycle: monitoring is never postponed for ever *)
(* by heartbeat traffic (unless the process is asked to stop).             *)
CycleRunsAgain ==
    \A d \in Clock : next_due = d ~> (pc = "cycle" /\ now >= d) \/ stop

(* runtime.py:64-65, of the accept wait: "stop checks stay bounded by the  *)
(* poll interval"; so a stop request is honoured.                          *)
StopHonoured == stop ~> pc = "returned"
=============================================================================
