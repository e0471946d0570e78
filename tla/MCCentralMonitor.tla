-------------------------- MODULE MCCentralMonitor --------------------------
(* Two hosts with different thresholds; the clock reads 0, 1 or 2 and a    *)
(* heartbeat is stale at age 2, so it may be fresh, stale or in the future *)
EXTENDS CentralMonitor

CONSTANTS web, db

MCHosts == {web, db}

MCHostOrder == <<web, db>>

MCSettings ==
    [h \in MCHosts |->
        IF h = web
        THEN [down_confirmations |-> 2, recovery_confirmations |-> 2,
              stale_after_seconds |-> 1]
        ELSE [down_confirmations |-> 1, recovery_confirmations |-> 1,
              stale_after_seconds |-> 1]]

MCTime == 0..2
=============================================================================
