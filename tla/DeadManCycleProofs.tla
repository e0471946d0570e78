------------------------- MODULE DeadManCycleProofs -------------------------
(***************************************************************************)
(* Proofs about the oneshot cycle for every set of instants, every bound   *)
(* and every pair of confirmation thresholds.                              *)
(*                                                                         *)
(* The inductive invariant is the conjunction of the type invariant, the   *)
(* validity of the status in memory and in the file, the relation between  *)
(* the two at each point of the cycle, and NoIntentLost: an advance keeps  *)
(* a status valid only if it started from a valid one, and a replace keeps *)
(* the ledger whole only because memory is one step ahead of the file.     *)
(*                                                                         *)
(* FileInv is the part of it that does not count what the operator has     *)
(* received. It is inductive by itself, and survives a power loss that     *)
(* takes the file back (DeadManDiskProofs). StoryInv, further down, is the *)
(* second strengthening: what the alerts say, and when.                    *)
(***************************************************************************)
EXTENDS DeadManCycle, DeadManStatusProofs

\* The file and its ledger agree, and the operator has received whatever
\* is no longer pending.
LedgerMatchesFile ==
    LET pending == Persisted.pending_notifications
        acknowledged == Len(ledger) - Len(pending)
    IN  /\ Persisted.next_notification_id = Len(ledger) + 1
        /\ \A i \in 1..Len(pending) : pending[i] = ledger[acknowledged + i]
        /\ \A i \in 1..acknowledged : ledger[i] \in chat

\* What is being acknowledged has been received.
ReceivedFirst ==
    pc \in {"saveAck", "replaceAck"} =>
        Head(Persisted.pending_notifications) \in chat

FileInv ==
    /\ TypeOK
    /\ StatusAlwaysValid
    /\ MemoryTracksFile
    /\ LedgerMatchesFile
    /\ ReceivedFirst

Inv == FileInv /\ NoIntentLost

-----------------------------------------------------------------------------
(* Consequences of typing.                                                 *)

(* The persisted status is well typed, whether or not the file exists.     *)
LEMMA PersistedType == TypeOK => Persisted \in DeadManStatusType
BY InitialGood DEF TypeOK, Persisted, GoodStatus

(* Both statuses of a state that satisfies the invariant are good.         *)
LEMMA BothGood == FileInv => GoodStatus(status) /\ GoodStatus(Persisted)
BY PersistedType DEF FileInv, TypeOK, StatusAlwaysValid, GoodStatus

(* The queue of a good status: a sequence whose last id is the allocator's *)
(* previous one.                                                           *)
LEMMA QueueFacts ==
    ASSUME NEW s, GoodStatus(s)
    PROVE  LET p == s.pending_notifications
           IN  /\ p \in Seq(DeadManNotification)
               /\ Len(p) \in Nat
               /\ p = <<>> <=> Len(p) = 0
               /\ s.next_notification_id \in Nat
               /\ Len(p) < s.next_notification_id
               /\ p # <<>> =>
                    /\ Head(p) = p[1]
                    /\ p[1] \in DeadManNotification
                    /\ p[1].notification_id = s.next_notification_id - Len(p)
                    /\ p[Len(p)] \in DeadManNotification
                    /\ p[Len(p)].notification_id = s.next_notification_id - 1
<1> DEFINE p == s.pending_notifications
<1>1. /\ p \in Seq(DeadManNotification)
      /\ s.next_notification_id \in Nat
      /\ s.next_notification_id >= 1
      /\ LedgerContiguous(s)
      /\ \A i \in 1..Len(p) : ValidNotification(p[i])
    BY DEF GoodStatus, DeadManStatusType, ValidStatus
<1>2. Len(p) \in Nat /\ (p = <<>> <=> Len(p) = 0)
    BY <1>1, EmptySeq
<1>3. ASSUME p # <<>>
      PROVE  /\ Head(p) = p[1]
             /\ p[1] \in DeadManNotification
             /\ p[Len(p)] \in DeadManNotification
             /\ p[1].notification_id = s.next_notification_id - Len(p)
             /\ p[Len(p)].notification_id = s.next_notification_id - 1
             /\ p[1].notification_id >= 1
    <2>1. 1 \in 1..Len(p) /\ Len(p) \in 1..Len(p)
        BY <1>2, <1>3
    <2>2. Head(p) = p[1] /\ p[1] \in DeadManNotification
                         /\ p[Len(p)] \in DeadManNotification
        BY <1>1, <1>3, <2>1
    <2>3. /\ p[1].notification_id = s.next_notification_id - 1 - Len(p) + 1
          /\ p[Len(p)].notification_id =
                s.next_notification_id - 1 - Len(p) + Len(p)
        BY <1>1, <2>1 DEF LedgerContiguous
    <2>4. p[1].notification_id >= 1
        BY <1>1, <2>1 DEF ValidNotification
    <2> HIDE DEF p
    <2> QED BY <1>1, <1>2, <2>2, <2>3, <2>4
<1>4. Len(p) < s.next_notification_id
    BY <1>1, <1>2, <1>3
<1> QED BY <1>1, <1>2, <1>3, <1>4

(* A step that leaves the file and the history alone keeps the ledger      *)
(* facts.                                                                  *)
LEMMA FileUntouched ==
    UNCHANGED <<file, history>> =>
        /\ Persisted' = Persisted
        /\ ledger' = ledger /\ chat' = chat /\ told' = told
        /\ LedgerMatchesFile => LedgerMatchesFile'
        /\ NoIntentLost => NoIntentLost'
<1> SUFFICES ASSUME UNCHANGED <<file, history>>
             PROVE  /\ Persisted' = Persisted
                    /\ ledger' = ledger /\ chat' = chat /\ told' = told
                    /\ LedgerMatchesFile => LedgerMatchesFile'
                    /\ NoIntentLost => NoIntentLost'
    OBVIOUS
<1>1. file' = file /\ ledger' = ledger /\ chat' = chat /\ told' = told
    BY DEF history
<1>2. Persisted' = Persisted
    BY <1>1 DEF Persisted
<1>3. NoIntentLost => NoIntentLost'
    BY <1>1, <1>2 DEF NoIntentLost
<1>4. LedgerMatchesFile => LedgerMatchesFile'
    BY <1>1, <1>2 DEF LedgerMatchesFile
<1> QED BY <1>1, <1>2, <1>3, <1>4

-----------------------------------------------------------------------------
(* The shape of an advance and of an acknowledgement.                      *)

(* An advance never drops or reorders what is pending.                     *)
LEMMA AdvanceGrows ==
    ASSUME NEW s, GoodStatus(s), NEW o, NEW now \in Nat
    PROVE  Grown(s, advance_deadman_status(s, o, now))
<1> DEFINE p == s.pending_notifications
           t == advance_deadman_status(s, o, now)
<1>1. /\ p \in Seq(DeadManNotification)
      /\ Len(p) \in Nat
      /\ s.next_notification_id \in Nat
      /\ s \in DeadManStatusType
      /\ s.state \in DeadManState
    BY QueueFacts DEF GoodStatus, DeadManStatusType
<1>2. \/ /\ t.pending_notifications = p
         /\ t.next_notification_id = s.next_notification_id
      \/ \E n : /\ t.pending_notifications = Append(p, n)
                /\ t.next_notification_id = s.next_notification_id + 1
    <2>1. CASE o = "HEALTHY"
        <3>1. t = advance_success(s, now)
            BY <2>1 DEF advance_deadman_status
        <3>2. CASE s.state \in {"UNKNOWN", "UP"}
            BY <1>1, <3>1, <3>2 DEF advance_success, DeadManStatusType
        <3>3. CASE s.state = "DOWN"
            BY <1>1, <3>1, <3>3
            DEF advance_success, LeaveDown, DeadManStatusType
        <3> QED BY <1>1, <3>2, <3>3 DEF DeadManState
    <2>2. CASE o # "HEALTHY"
        BY <1>1, <2>2 DEF advance_deadman_status, advance_failure,
                          EnterDown, DeadManStatusType
    <2> QED BY <2>1, <2>2
<1> HIDE DEF t
<1>3. ASSUME t.pending_notifications = p,
             t.next_notification_id = s.next_notification_id
      PROVE  Grown(s, t)
    BY <1>1, <1>3 DEF Grown
<1>4. ASSUME NEW n, t.pending_notifications = Append(p, n),
             t.next_notification_id = s.next_notification_id + 1
      PROVE  Grown(s, t)
    <2>1. /\ Len(Append(p, n)) = Len(p) + 1
          /\ \A i \in 1..Len(p) : Append(p, n)[i] = p[i]
        BY <1>1
    <2> QED BY <1>1, <1>4, <2>1 DEF Grown
<1> QED BY <1>2, <1>3, <1>4 DEF t

-----------------------------------------------------------------------------
(* The invariant holds initially.                                          *)
LEMMA InitInv == Init => Inv
<1> SUFFICES ASSUME Init PROVE Inv
    OBVIOUS
<1>1. Persisted = INITIAL_DEADMAN_STATUS /\ status = INITIAL_DEADMAN_STATUS
    BY DEF Init, Persisted
<1>2. TypeOK
    <2>1. /\ status \in DeadManStatusType
          /\ file \in DeadManStatusType \cup {NoFile}
        BY InitialGood DEF Init, GoodStatus
    <2>2. /\ ledger \in Seq(DeadManNotification)
          /\ chat \subseteq DeadManNotification
          /\ told \in Nat
        BY DEF Init
    <2>3. run \in [outcome : DeadManProbeOutcome \cup {"NONE"}, length : Nat]
        BY DEF Init, NoRun
    <2> QED BY <2>1, <2>2, <2>3 DEF Init, TypeOK
<1>3. StatusAlwaysValid
    BY <1>1, InitialGood DEF StatusAlwaysValid, GoodStatus
<1>4. MemoryTracksFile
    BY DEF Init, MemoryTracksFile
<1>5. NoIntentLost /\ LedgerMatchesFile
    BY <1>1
    DEF Init, NoIntentLost, LedgerMatchesFile, INITIAL_DEADMAN_STATUS
<1>6. ReceivedFirst
    BY DEF Init, ReceivedFirst
<1> QED BY <1>2, <1>3, <1>4, <1>5, <1>6 DEF Inv, FileInv

(* A process that ends - by itself, by an error or by a kill - leaves a    *)
(* state in which memory says nothing about the file.                      *)
LEMMA ExitKeepsInv ==
    FileInv /\ Exit /\ UNCHANGED <<file, history>> => FileInv'
<1> SUFFICES ASSUME FileInv, Exit, UNCHANGED <<file, history>>
             PROVE  FileInv'
    OBVIOUS
<1>1. Persisted' = Persisted /\ LedgerMatchesFile'
    BY FileUntouched DEF FileInv
<1>2. TypeOK'
    BY InitialGood DEF FileInv, TypeOK, Exit, history, GoodStatus
<1>3. StatusAlwaysValid'
    BY <1>1, InitialGood DEF FileInv, StatusAlwaysValid, Exit, GoodStatus
<1>4. MemoryTracksFile' /\ ReceivedFirst'
    BY DEF MemoryTracksFile, ReceivedFirst, Exit
<1> QED BY <1>1, <1>2, <1>3, <1>4 DEF FileInv

(* Storing an advanced status keeps the ledger whole: the ledger and the   *)
(* queue grow by the same intent, or neither grows.                        *)
LEMMA ReplaceAdvancedKeepsLedger ==
    ASSUME FileInv, ReplaceAdvanced
    PROVE  /\ LedgerMatchesFile'
           /\ Len(ledger') - Len(Persisted'.pending_notifications)
                = Len(ledger) - Len(Persisted.pending_notifications)
           /\ Len(ledger) <= Len(ledger')
           /\ \A i \in 1..Len(ledger) : ledger'[i] = ledger[i]
<1> DEFINE p == Persisted.pending_notifications
           q == status.pending_notifications
           k == Persisted.next_notification_id
           m == status.next_notification_id
<1>1. GoodStatus(status) /\ GoodStatus(Persisted) /\ Grown(Persisted, status)
    BY BothGood DEF FileInv, MemoryTracksFile, ReplaceAdvanced
<1>2. /\ p \in Seq(DeadManNotification) /\ Len(p) \in Nat
      /\ k \in Nat /\ Len(p) < k
      /\ q \in Seq(DeadManNotification) /\ Len(q) \in Nat
      /\ m \in Nat
      /\ q = <<>> <=> Len(q) = 0
      /\ q # <<>> => /\ q[Len(q)].notification_id = m - 1
                     /\ q[Len(q)] \in DeadManNotification
    BY <1>1, QueueFacts
<1>3. /\ m - k \in {0, 1}
      /\ Len(q) - Len(p) = m - k
      /\ \A i \in 1..Len(p) : q[i] = p[i]
    BY <1>1 DEF Grown
<1>4. /\ ledger \in Seq(DeadManNotification) /\ Len(ledger) \in Nat
      /\ k = Len(ledger) + 1
      /\ \A i \in 1..Len(p) : p[i] = ledger[Len(ledger) - Len(p) + i]
      /\ \A i \in 1..(Len(ledger) - Len(p)) : ledger[i] \in chat
    <2>1. ledger \in Seq(DeadManNotification) /\ Len(ledger) \in Nat
        BY DEF FileInv, TypeOK
    <2> QED BY <2>1 DEF FileInv, LedgerMatchesFile
<1>5. Persisted' = status /\ chat' = chat
    <2>1. status # NoFile
        BY CycleAssumption DEF FileInv, TypeOK
    <2> QED BY <2>1 DEF ReplaceAdvanced, Persisted
<1>6. CASE m = k
    <2>1. NewlyDurable(status) = <<>>
        BY <1>2, <1>4, <1>6 DEF NewlyDurable
    <2>2. ledger' = ledger
        BY <1>4, <2>1, ConcatEmptySeq DEF ReplaceAdvanced
    <2> HIDE DEF p, q, k, m
    <2>3. Len(q) = Len(p)
        BY <1>2, <1>3, <1>6
    <2>4. \A i \in 1..Len(q) : q[i] = ledger[Len(ledger) - Len(q) + i]
        BY <1>3, <1>4, <2>3
    <2>5. LedgerMatchesFile'
        BY <1>4, <1>5, <1>6, <2>2, <2>3, <2>4
        DEF LedgerMatchesFile, p, q, k, m
    <2> QED BY <1>4, <1>5, <2>2, <2>3, <2>5 DEF p, q
<1>7. CASE m = k + 1
    <2> DEFINE n == q[Len(q)]
    <2>0. Len(q) = Len(p) + 1
        <3> HIDE DEF p, q, k, m
        <3> QED BY <1>2, <1>3, <1>7
    <2>1. Len(q) = Len(p) + 1 /\ q # <<>> /\ n \in DeadManNotification
        <3> HIDE DEF p, q, k, m
        <3> QED BY <1>2, <2>0
    <2>2. NewlyDurable(status) = <<n>>
        BY <1>2, <1>4, <1>7, <2>1 DEF NewlyDurable
    <2>3. ledger' = ledger \o <<n>>
        BY <2>2 DEF ReplaceAdvanced
    <2>4. /\ Len(ledger') = Len(ledger) + 1
          /\ ledger'[Len(ledger) + 1] = n
          /\ \A i \in 1..Len(ledger) : ledger'[i] = ledger[i]
        BY <1>4, <2>1, <2>3
    <2> HIDE DEF p, q, k, m, n
    <2>5. \A i \in 1..Len(q) : q[i] = ledger'[Len(ledger') - Len(q) + i]
        <3>0. Len(ledger') - Len(q) = Len(ledger) - Len(p)
            BY <1>2, <1>4, <2>1, <2>4
        <3> SUFFICES ASSUME NEW i \in 1..Len(q)
                     PROVE  q[i] = ledger'[Len(ledger) - Len(p) + i]
            BY <3>0
        <3>1. CASE i \in 1..Len(p)
            <4>1. Len(ledger) - Len(p) + i \in 1..Len(ledger)
                BY <1>2, <1>4, <3>1
            <4> QED BY <1>3, <1>4, <2>4, <3>1, <4>1
        <3>2. CASE i = Len(p) + 1
            <4>1. Len(ledger) - Len(p) + i = Len(ledger) + 1 /\ i = Len(q)
                BY <1>2, <1>4, <2>1, <3>2
            <4> QED BY <2>4, <4>1 DEF n
        <3> QED BY <1>2, <2>1, <3>1, <3>2
    <2>6. Len(ledger') - Len(q) = Len(ledger) - Len(p)
        BY <1>2, <1>4, <2>1, <2>4
    <2>7. \A i \in 1..(Len(ledger') - Len(q)) : ledger'[i] \in chat
        <3>1. \A i \in 1..(Len(ledger) - Len(p)) : i \in 1..Len(ledger)
            BY <1>2, <1>4
        <3> QED BY <1>4, <2>4, <2>6, <3>1
    <2>8. m = Len(ledger') + 1
        BY <1>4, <1>7, <2>4
    <2>9. LedgerMatchesFile'
        BY <1>5, <2>5, <2>7, <2>8 DEF LedgerMatchesFile, p, q, m
    <2>10. Len(ledger) <= Len(ledger')
        BY <1>4, <2>4
    <2> QED BY <1>5, <2>4, <2>6, <2>9, <2>10 DEF p, q
<1> QED BY <1>2, <1>3, <1>6, <1>7

(* Storing an acknowledged status keeps the ledger whole: the head that    *)
(* leaves the queue is the intent the operator received last.              *)
LEMMA ReplaceAcknowledgedKeepsLedger ==
    ASSUME FileInv, ReplaceAcknowledged
    PROVE  /\ LedgerMatchesFile'
           /\ ledger' = ledger
           /\ Len(ledger) - Len(Persisted.pending_notifications) = told - 1
           /\ Len(ledger') - Len(Persisted'.pending_notifications) = told
<1> DEFINE p == Persisted.pending_notifications
           q == status.pending_notifications
           k == Persisted.next_notification_id
<1>1. GoodStatus(status) /\ GoodStatus(Persisted)
    BY BothGood
<1>2. /\ p # <<>>
      /\ told = Head(p).notification_id
      /\ status = acknowledge_deadman_notification(Persisted, told)
    BY DEF FileInv, MemoryTracksFile, ReplaceAcknowledged
<1>3. /\ p \in Seq(DeadManNotification) /\ Len(p) \in Nat
      /\ Len(p) # 0
      /\ k \in Nat /\ Len(p) < k
      /\ told = k - Len(p)
    BY <1>1, <1>2, QueueFacts
<1>4. q = Tail(p) /\ status.next_notification_id = k
    BY <1>1, <1>2 DEF acknowledge_deadman_notification, GoodStatus,
                      DeadManStatusType
<1>5. /\ Len(q) = Len(p) - 1
      /\ \A i \in 1..Len(q) : q[i] = p[i + 1]
    <2> HIDE DEF p, q
    <2> QED BY <1>2, <1>3, <1>4
<1>6. /\ Len(ledger) \in Nat /\ told \in Nat
      /\ ledger \in Seq(DeadManNotification)
      /\ k = Len(ledger) + 1
      /\ \A i \in 1..Len(p) : p[i] = ledger[Len(ledger) - Len(p) + i]
      /\ \A i \in 1..(Len(ledger) - Len(p)) : ledger[i] \in chat
      /\ p[1] \in chat
    <2>1. /\ ledger \in Seq(DeadManNotification) /\ Len(ledger) \in Nat
          /\ told \in Nat
        BY DEF FileInv, TypeOK
    <2>2. p[1] \in chat
        BY <1>1, <1>2, QueueFacts
        DEF FileInv, ReceivedFirst, ReplaceAcknowledged
    <2> QED BY <2>1, <2>2 DEF FileInv, LedgerMatchesFile
<1>7. Persisted' = status /\ chat' = chat /\ told' = told
    <2>1. status # NoFile
        BY CycleAssumption DEF FileInv, TypeOK
    <2> QED BY <2>1 DEF ReplaceAcknowledged, Persisted
<1>8. ledger' = ledger
    <2>1. q # <<>> => q[Len(q)].notification_id = k - 1
        BY <1>1, <1>4, QueueFacts
    <2>2. NewlyDurable(status) = <<>>
        BY <1>6, <2>1 DEF NewlyDurable
    <2> QED BY <1>6, <2>2, ConcatEmptySeq DEF ReplaceAcknowledged
<1> HIDE DEF p, q, k
<1>9. \A i \in 1..Len(q) : q[i] = ledger[Len(ledger) - Len(q) + i]
    <2> SUFFICES ASSUME NEW i \in 1..Len(q)
                 PROVE  q[i] = ledger[Len(ledger) - Len(q) + i]
        OBVIOUS
    <2>1. /\ i + 1 \in 1..Len(p)
          /\ Len(ledger) - Len(p) + (i + 1) = Len(ledger) - Len(q) + i
        BY <1>3, <1>5, <1>6
    <2> QED BY <1>5, <1>6, <2>1
<1>10. Len(ledger) - Len(p) = told - 1 /\ Len(ledger) - Len(q) = told
    BY <1>3, <1>5, <1>6
<1>11. \A i \in 1..told : ledger[i] \in chat
    <2>1. ledger[told] = p[1]
        BY <1>3, <1>6, <1>10
    <2>2. \A i \in 1..told : i = told \/ i \in 1..(told - 1)
        BY <1>6
    <2> QED BY <1>6, <1>10, <2>1, <2>2
<1>12. LedgerMatchesFile'
    BY <1>4, <1>6, <1>7, <1>8, <1>9, <1>10, <1>11
    DEF LedgerMatchesFile, q, k
<1> QED BY <1>7, <1>8, <1>10, <1>12 DEF p, q

(* A delivery brings the operator the oldest pending intent of the file,   *)
(* which is the first one of the ledger that is not acknowledged.          *)
LEMMA ReceiveKeepsLedger ==
    ASSUME FileInv, pc = "send", Receive(Head(status.pending_notifications)),
           UNCHANGED <<file, ledger>>
    PROVE  LET oldest == Head(Persisted.pending_notifications)
               pending == Persisted.pending_notifications
               acknowledged == Len(ledger) - Len(pending)
           IN  /\ LedgerMatchesFile'
               /\ Persisted' = Persisted
               /\ chat' = chat \cup {oldest}
               /\ chat' \subseteq DeadManNotification
               /\ told' \in Nat
               /\ told' = oldest.notification_id
               /\ oldest \in chat'
               /\ acknowledged \in Nat /\ acknowledged < Len(ledger)
               /\ told' = acknowledged + 1
               /\ oldest = ledger[acknowledged + 1]
<1> DEFINE p == Persisted.pending_notifications
           k == Persisted.next_notification_id
           a == Len(ledger) - Len(p)
<1>1. /\ status = Persisted /\ p # <<>>
      /\ GoodStatus(Persisted)
    BY BothGood DEF FileInv, MemoryTracksFile
<1>2. /\ Len(p) \in Nat /\ Len(p) # 0
      /\ k \in Nat /\ Len(p) < k
      /\ Head(p) = p[1]
      /\ p[1] \in DeadManNotification
      /\ p[1].notification_id = k - Len(p)
    BY <1>1, QueueFacts
<1>3. /\ Len(ledger) \in Nat
      /\ k = Len(ledger) + 1
      /\ \A i \in 1..Len(p) : p[i] = ledger[a + i]
      /\ chat \subseteq DeadManNotification
    <2>1. /\ ledger \in Seq(DeadManNotification) /\ Len(ledger) \in Nat
          /\ chat \subseteq DeadManNotification
        BY DEF FileInv, TypeOK
    <2> QED BY <2>1 DEF FileInv, LedgerMatchesFile
<1>4. chat' = chat \cup {p[1]} /\ told' = p[1].notification_id
    BY <1>1, <1>2 DEF Receive
<1>5. Persisted' = Persisted /\ ledger' = ledger
    BY DEF Persisted
<1>6. LedgerMatchesFile'
    BY <1>4, <1>5 DEF FileInv, LedgerMatchesFile
<1> HIDE DEF p, k
<1>7. /\ told' = a + 1
      /\ p[1] = ledger[a + 1]
      /\ a \in Nat /\ a < Len(ledger)
    <2>1. 1 \in 1..Len(p)
        BY <1>2
    <2> QED BY <1>2, <1>3, <1>4, <2>1
<1>8. told' \in Nat /\ chat' \subseteq DeadManNotification
    BY <1>2, <1>3, <1>4, <1>7
<1> QED BY <1>2, <1>4, <1>5, <1>6, <1>7, <1>8 DEF p

-----------------------------------------------------------------------------
(* NoIntentLost, for the three steps that touch what it speaks of.         *)

(* Storing an advanced status loses nothing.                               *)
LEMMA AdvancedLosesNothing ==
    ASSUME Inv, ReplaceAdvanced
    PROVE  NoIntentLost'
<1> DEFINE a == Len(ledger) - Len(Persisted.pending_notifications)
<1>1. /\ LedgerMatchesFile'
      /\ Len(ledger') - Len(Persisted'.pending_notifications) = a
      /\ Len(ledger) <= Len(ledger')
      /\ \A i \in 1..Len(ledger) : ledger'[i] = ledger[i]
    BY ReplaceAdvancedKeepsLedger DEF Inv
<1>2. /\ a \in {told, told - 1} /\ told <= Len(ledger)
      /\ chat = {ledger[i] : i \in 1..told}
    BY DEF Inv, NoIntentLost
<1>3. /\ Len(ledger) \in Nat /\ Len(ledger') \in Nat /\ told \in Nat
      /\ chat' = chat /\ told' = told
    <2>1. ledger \in Seq(DeadManNotification) /\ told \in Nat
        BY DEF Inv, FileInv, TypeOK
    <2>2. NewlyDurable(status) \in Seq(DeadManNotification)
        BY BothGood, QueueFacts DEF NewlyDurable, Inv
    <2>3. ledger' \in Seq(DeadManNotification)
        BY <2>1, <2>2, ConcatProperties DEF ReplaceAdvanced
    <2> QED BY <2>1, <2>3 DEF ReplaceAdvanced
<1> HIDE DEF a
<1>4. told <= Len(ledger') /\ 1..told \subseteq 1..Len(ledger)
    BY <1>1, <1>2, <1>3
<1>5. chat = {ledger'[i] : i \in 1..told}
    BY <1>1, <1>2, <1>4
<1> QED BY <1>1, <1>2, <1>3, <1>4, <1>5 DEF NoIntentLost, LedgerMatchesFile

(* Storing an acknowledged status loses nothing: the head that leaves the  *)
(* queue is the intent the operator received last.                         *)
LEMMA AcknowledgedLosesNothing ==
    ASSUME Inv, ReplaceAcknowledged
    PROVE  NoIntentLost'
<1>1. /\ LedgerMatchesFile'
      /\ ledger' = ledger
      /\ Len(ledger') - Len(Persisted'.pending_notifications) = told
    BY ReplaceAcknowledgedKeepsLedger DEF Inv
<1>2. /\ told <= Len(ledger)
      /\ chat = {ledger[i] : i \in 1..told}
    BY DEF Inv, NoIntentLost
<1>3. chat' = chat /\ told' = told
    BY DEF ReplaceAcknowledged
<1> QED BY <1>1, <1>2, <1>3 DEF NoIntentLost, LedgerMatchesFile

(* A delivery loses nothing: the operator gets the last message once more, *)
(* or the next one.                                                        *)
LEMMA ReceivedLosesNothing ==
    ASSUME Inv, pc = "send", Receive(Head(status.pending_notifications)),
           UNCHANGED <<file, ledger>>
    PROVE  NoIntentLost'
<1> DEFINE oldest == Head(Persisted.pending_notifications)
           a == Len(ledger) - Len(Persisted.pending_notifications)
<1>1. /\ LedgerMatchesFile'
      /\ Persisted' = Persisted /\ ledger' = ledger
      /\ chat' = chat \cup {oldest}
      /\ a \in Nat /\ a < Len(ledger)
      /\ told' = a + 1
      /\ oldest = ledger[a + 1]
    BY ReceiveKeepsLedger DEF Inv
<1>2. /\ a \in {told, told - 1} /\ told <= Len(ledger)
      /\ chat = {ledger[i] : i \in 1..told}
      /\ told \in Nat /\ Len(ledger) \in Nat
    <2>1. told \in Nat /\ Len(ledger) \in Nat
        BY DEF Inv, FileInv, TypeOK
    <2> QED BY <2>1 DEF Inv, NoIntentLost
<1>3. Len(ledger') - Len(Persisted'.pending_notifications) = a
    BY <1>1
<1>6. LET pending == Persisted'.pending_notifications
      IN  /\ Persisted'.next_notification_id = Len(ledger') + 1
          /\ \A i \in 1..Len(pending) :
                pending[i] = ledger'[Len(ledger') - Len(pending) + i]
    BY <1>1 DEF LedgerMatchesFile
<1> HIDE DEF oldest, a
<1>4. told' <= Len(ledger) /\ a \in {told', told' - 1}
    BY <1>1, <1>2
<1>5. chat' = {ledger[i] : i \in 1..told'}
    <2>1. CASE a = told
        <3>1. 1..told' = 1..told \cup {a + 1}
            BY <1>1, <1>2, <2>1
        <3> QED BY <1>1, <1>2, <3>1
    <2>2. CASE a = told - 1
        <3>1. a + 1 \in 1..told /\ told' = told
            BY <1>1, <1>2, <2>2
        <3> QED BY <1>1, <1>2, <3>1
    <2> QED BY <1>2, <2>1, <2>2
<1>7. ledger' = ledger
    OBVIOUS
<1> QED BY <1>3, <1>4, <1>5, <1>6, <1>7 DEF NoIntentLost

-----------------------------------------------------------------------------
(* Every step preserves what memory, file and ledger say of each other:    *)
(* one case per action.                                                    *)
LEMMA NextFileInv == FileInv /\ [Next]_vars => FileInv'
<1> SUFFICES ASSUME FileInv, [Next]_vars PROVE FileInv'
    OBVIOUS
<1>0. /\ TypeOK /\ StatusAlwaysValid /\ MemoryTracksFile /\ LedgerMatchesFile
      /\ ReceivedFirst
      /\ GoodStatus(status) /\ GoodStatus(Persisted)
      /\ Persisted \in DeadManStatusType
    BY BothGood, PersistedType DEF FileInv
<1>1. CASE Start
    <2>1. /\ UNCHANGED <<file, history>> /\ UNCHANGED <<status, outcome>>
          /\ pc' = "load"
        BY <1>1 DEF Start
    <2>2. Persisted' = Persisted /\ LedgerMatchesFile'
        BY <1>0, <2>1, FileUntouched
    <2>3. TypeOK'
        BY <1>0, <2>1 DEF TypeOK, history
    <2>4. StatusAlwaysValid' /\ MemoryTracksFile' /\ ReceivedFirst'
        BY <1>0, <2>1, <2>2
        DEF StatusAlwaysValid, MemoryTracksFile, ReceivedFirst
    <2> QED BY <2>2, <2>3, <2>4 DEF FileInv
<1>2. CASE Crash
    BY <1>2, ExitKeepsInv DEF Crash
<1>3. CASE Load
    <2>1. /\ UNCHANGED <<file, history>> /\ UNCHANGED outcome
          /\ pc' = "probe" /\ status' = Persisted
        BY <1>3 DEF Load
    <2>2. Persisted' = Persisted /\ LedgerMatchesFile'
        BY <1>0, <2>1, FileUntouched
    <2>3. TypeOK'
        BY <1>0, <2>1 DEF TypeOK, history
    <2>4. StatusAlwaysValid' /\ MemoryTracksFile' /\ ReceivedFirst'
        BY <1>0, <2>1, <2>2
        DEF StatusAlwaysValid, MemoryTracksFile, ReceivedFirst
    <2> QED BY <2>2, <2>3, <2>4 DEF FileInv
<1>4. CASE LoadFails
    BY <1>4, ExitKeepsInv DEF LoadFails
<1>5. ASSUME NEW o \in DeadManProbeOutcome, NEW now \in Time,
             ProbeAndAdvance(o, now)
      PROVE  FileInv'
    <2>1. /\ UNCHANGED <<file, history>>
          /\ pc' = "save" /\ outcome' = o
          /\ status = Persisted
          /\ status' = advance_deadman_status(status, o, now)
          /\ ~ClockBehind(status, now)
          /\ now \in Nat
        BY <1>0, <1>5, CycleAssumption DEF ProbeAndAdvance, MemoryTracksFile
    <2>2. Persisted' = Persisted /\ LedgerMatchesFile'
        BY <1>0, <2>1, FileUntouched
    <2>3. GoodStatus(status')
        BY <1>0, <2>1, AdvanceGood
    <2>4. Grown(Persisted, status')
        BY <1>0, <2>1, AdvanceGrows
    <2>5. TypeOK'
        BY <1>0, <2>1, <2>3 DEF TypeOK, history, SaveStep, GoodStatus
    <2>6. StatusAlwaysValid'
        BY <1>0, <2>2, <2>3 DEF StatusAlwaysValid, GoodStatus
    <2>7. MemoryTracksFile' /\ ReceivedFirst'
        BY <2>1, <2>2, <2>4 DEF MemoryTracksFile, ReceivedFirst, Grown
    <2> QED BY <2>2, <2>5, <2>6, <2>7 DEF FileInv
<1>6. ASSUME NEW now \in Time, AdvanceRaises(now)
      PROVE  FileInv'
    BY <1>6, ExitKeepsInv DEF AdvanceRaises
<1>7. ASSUME NEW step \in SaveStep, WriteTemporary(step)
      PROVE  FileInv'
    <2>1. /\ UNCHANGED <<file, history>> /\ UNCHANGED <<status, outcome>>
          /\ \/ pc = "save" /\ pc' = "replace"
             \/ pc = "saveAck" /\ pc' = "replaceAck"
        BY <1>7 DEF WriteTemporary, SaveStep
    <2>2. /\ Persisted' = Persisted /\ LedgerMatchesFile'
          /\ chat' = chat /\ told' = told
        BY <1>0, <2>1, FileUntouched
    <2>3. TypeOK'
        BY <1>0, <2>1 DEF TypeOK, history, ReplaceStep
    <2>4. StatusAlwaysValid' /\ MemoryTracksFile' /\ ReceivedFirst'
        BY <1>0, <2>1, <2>2
        DEF StatusAlwaysValid, MemoryTracksFile, ReceivedFirst
    <2> QED BY <2>2, <2>3, <2>4 DEF FileInv
<1>8. CASE WriteFails
    BY <1>8, ExitKeepsInv DEF WriteFails
<1>9. CASE ReplaceFails
    BY <1>9, ExitKeepsInv DEF ReplaceFails
<1>10. CASE ReplaceAdvanced
    <2>1. LedgerMatchesFile'
        BY <1>10, ReplaceAdvancedKeepsLedger
    <2>2. file' = status /\ Persisted' = status
        BY <1>0, <1>10, CycleAssumption
        DEF ReplaceAdvanced, Persisted, TypeOK
    <2>3. \/ Exit
          \/ /\ pc' = "send" /\ UNCHANGED <<status, outcome>>
             /\ status.pending_notifications # <<>>
        BY <1>10 DEF ReplaceAdvanced
    <2>4. TypeOK'
        <3>1. status' \in DeadManStatusType /\ file' \in DeadManStatusType
            BY <1>0, <2>2, <2>3, InitialGood DEF Exit, GoodStatus
        <3>2. /\ pc' \in {"idle", "send"}
              /\ outcome' \in DeadManProbeOutcome \cup {"NONE"}
            BY <1>0, <2>3 DEF Exit, TypeOK
        <3>3. ledger' \in Seq(DeadManNotification)
            <4>1. NewlyDurable(status) \in Seq(DeadManNotification)
                BY <1>0, QueueFacts DEF NewlyDurable
            <4> QED BY <1>0, <1>10, <4>1, ConcatProperties
                    DEF ReplaceAdvanced, TypeOK
        <3>4. run' \in [outcome : DeadManProbeOutcome \cup {"NONE"},
                        length : Nat]
            BY <1>0, <1>10 DEF ReplaceAdvanced, ExtendRun, TypeOK
        <3>5. UNCHANGED <<chat, told>>
            BY <1>10 DEF ReplaceAdvanced
        <3> QED BY <1>0, <3>1, <3>2, <3>3, <3>4, <3>5 DEF TypeOK
    <2>5. StatusAlwaysValid'
        BY <1>0, <2>2, <2>3, InitialGood
        DEF StatusAlwaysValid, Exit, GoodStatus
    <2>6. MemoryTracksFile' /\ ReceivedFirst'
        BY <2>2, <2>3 DEF MemoryTracksFile, ReceivedFirst, Exit
    <2> QED BY <2>1, <2>4, <2>5, <2>6 DEF FileInv
<1>11. CASE ReplaceAcknowledged
    <2>1. LedgerMatchesFile'
        BY <1>11, ReplaceAcknowledgedKeepsLedger
    <2>2. file' = status /\ Persisted' = status /\ Exit
        BY <1>0, <1>11, CycleAssumption
        DEF ReplaceAcknowledged, Persisted, TypeOK
    <2>3. TypeOK'
        <3>1. NewlyDurable(status) \in Seq(DeadManNotification)
            BY <1>0, QueueFacts DEF NewlyDurable
        <3>2. ledger' \in Seq(DeadManNotification)
            BY <1>0, <1>11, <3>1, ConcatProperties
            DEF ReplaceAcknowledged, TypeOK
        <3>3. status' \in DeadManStatusType /\ file' \in DeadManStatusType
            BY <1>0, <2>2, InitialGood DEF Exit, GoodStatus
        <3>4. UNCHANGED <<run, chat, told>>
            BY <1>11 DEF ReplaceAcknowledged
        <3> QED BY <1>0, <2>2, <3>2, <3>3, <3>4 DEF TypeOK, Exit
    <2>4. StatusAlwaysValid'
        BY <1>0, <2>2, InitialGood DEF StatusAlwaysValid, Exit, GoodStatus
    <2>5. MemoryTracksFile' /\ ReceivedFirst'
        BY <2>2 DEF MemoryTracksFile, ReceivedFirst, Exit
    <2> QED BY <2>1, <2>3, <2>4, <2>5 DEF FileInv
<1>12. CASE Send
    <2> DEFINE oldest == Head(status.pending_notifications)
    <2>1. /\ pc = "send" /\ pc' = "saveAck" /\ Receive(oldest)
          /\ UNCHANGED <<file, outcome, ledger, run>>
          /\ status' = acknowledge_deadman_notification(
                            status, oldest.notification_id)
        BY <1>12 DEF Send
    <2>2. /\ LedgerMatchesFile' /\ Persisted' = Persisted
          /\ Head(Persisted.pending_notifications) \in chat'
          /\ chat' \subseteq DeadManNotification /\ told' \in Nat
          /\ told' = Head(Persisted.pending_notifications).notification_id
        BY <2>1, ReceiveKeepsLedger
    <2>3. status = Persisted /\ Persisted.pending_notifications # <<>>
        BY <1>0, <2>1 DEF MemoryTracksFile
    <2>4. GoodStatus(status')
        BY <1>0, <2>1, <2>3, AcknowledgeGood
    <2>5. TypeOK'
        BY <1>0, <2>1, <2>2, <2>4 DEF TypeOK, SaveStep, GoodStatus
    <2>6. StatusAlwaysValid'
        BY <1>0, <2>2, <2>4 DEF StatusAlwaysValid, GoodStatus
    <2>7. MemoryTracksFile' /\ ReceivedFirst'
        BY <2>1, <2>2, <2>3 DEF MemoryTracksFile, ReceivedFirst
    <2> QED BY <2>2, <2>5, <2>6, <2>7 DEF FileInv
<1>13. CASE SendFails
    <2>1. pc = "send" /\ Exit /\ UNCHANGED <<file, ledger, run>>
        BY <1>13 DEF SendFails
    <2>2. CASE UNCHANGED <<chat, told>>
        <3>1. UNCHANGED <<file, history>>
            BY <2>1, <2>2 DEF history
        <3> QED BY <2>1, <3>1, ExitKeepsInv
    <2>3. CASE Receive(Head(status.pending_notifications))
        <3>1. /\ LedgerMatchesFile' /\ Persisted' = Persisted
              /\ chat' \subseteq DeadManNotification /\ told' \in Nat
            BY <2>1, <2>3, ReceiveKeepsLedger
        <3>2. TypeOK'
            BY <1>0, <2>1, <3>1, InitialGood DEF TypeOK, Exit, GoodStatus
        <3>3. StatusAlwaysValid'
            BY <1>0, <2>1, <3>1, InitialGood
            DEF StatusAlwaysValid, Exit, GoodStatus
        <3>4. MemoryTracksFile' /\ ReceivedFirst'
            BY <2>1 DEF MemoryTracksFile, ReceivedFirst, Exit
        <3> QED BY <3>1, <3>2, <3>3, <3>4 DEF FileInv
    <2> QED BY <1>13, <2>2, <2>3 DEF SendFails
<1>14. CASE UNCHANGED vars
    <2>1. Persisted' = Persisted
        BY <1>14 DEF vars, Persisted
    <2>2. TypeOK'
        BY <1>0, <1>14 DEF TypeOK, vars
    <2>3. StatusAlwaysValid' /\ MemoryTracksFile' /\ ReceivedFirst'
        BY <1>0, <1>14, <2>1
        DEF StatusAlwaysValid, MemoryTracksFile, ReceivedFirst, vars
    <2>4. LedgerMatchesFile'
        BY <1>0, <1>14, FileUntouched DEF vars, history
    <2> QED BY <2>2, <2>3, <2>4 DEF FileInv
<1> QED BY <1>1, <1>2, <1>3, <1>4, <1>5, <1>6, <1>7, <1>8, <1>9, <1>10,
           <1>11, <1>12, <1>13, <1>14 DEF Next, ProcessStep

(* What the operator has received stays a prefix of the ledger.            *)
LEMMA NextInv == Inv /\ [Next]_vars => Inv'
<1> SUFFICES ASSUME Inv, [Next]_vars PROVE Inv'
    OBVIOUS
<1>1. FileInv /\ NoIntentLost /\ FileInv'
    BY NextFileInv DEF Inv
<1> SUFFICES NoIntentLost'
    BY <1>1 DEF Inv
<1>2. ASSUME UNCHANGED <<file, history>>
      PROVE  NoIntentLost'
    BY <1>1, <1>2, FileUntouched
<1>3. CASE ReplaceAdvanced
    BY <1>3, AdvancedLosesNothing
<1>4. CASE ReplaceAcknowledged
    BY <1>4, AcknowledgedLosesNothing
<1>5. CASE Send
    BY <1>5, ReceivedLosesNothing DEF Send
<1>6. CASE SendFails
    <2>1. CASE UNCHANGED <<chat, told>>
        BY <1>2, <1>6, <2>1 DEF SendFails, history
    <2>2. CASE Receive(Head(status.pending_notifications))
        BY <1>6, <2>2, ReceivedLosesNothing DEF SendFails
    <2> QED BY <1>6, <2>1, <2>2 DEF SendFails
<1>7. CASE \/ Start \/ Crash \/ Load \/ LoadFails
           \/ \E o \in DeadManProbeOutcome, now \in Time :
                    ProbeAndAdvance(o, now)
           \/ \E now \in Time : AdvanceRaises(now)
           \/ \E step \in SaveStep : WriteTemporary(step)
           \/ WriteFails \/ ReplaceFails
    BY <1>2, <1>7 DEF Start, Crash, Load, LoadFails, ProbeAndAdvance,
                      AdvanceRaises, WriteTemporary, WriteFails,
                      ReplaceFails
<1>8. CASE UNCHANGED vars
    BY <1>2, <1>8 DEF vars, history
<1> QED BY <1>1, <1>3, <1>4, <1>5, <1>6, <1>7, <1>8
        DEF Next, ProcessStep

(* The inductive invariant holds throughout.                               *)
LEMMA InvAlways == Spec => []Inv
BY InitInv, NextInv, PTL DEF Spec

(* Every variable keeps its type.                                          *)
THEOREM TypeCorrect == Spec => []TypeOK
BY InvAlways, PTL DEF Inv, FileInv

(* No cycle builds, and no file holds, a status that the constructor of    *)
(* DeadManStatus would refuse.                                             *)
THEOREM NeverLockedOut == Spec => []StatusAlwaysValid
BY InvAlways, PTL DEF Inv, FileInv

(* At-least-once delivery, oldest first, of exactly the durable ledger.    *)
THEOREM AtLeastOnce == Spec => []NoIntentLost
BY InvAlways, PTL DEF Inv

(* The process delivers only what is durable and acknowledges only what    *)
(* was delivered.                                                          *)
THEOREM PersistBeforeDeliver == Spec => []MemoryTracksFile
BY InvAlways, PTL DEF Inv, FileInv

-----------------------------------------------------------------------------
(* The cycle implements the outbox.                                        *)

(* Seen from the outbox, storing an advanced status publishes one alert or *)
(* nothing.                                                                *)
LEMMA ReplaceAdvancedPublishes ==
    ASSUME FileInv, FileInv', ReplaceAdvanced
    PROVE  [Outbox!Next]_(Outbox!outbox)
<1> DEFINE p == Persisted.pending_notifications
           q == status.pending_notifications
           k == Persisted.next_notification_id
           m == status.next_notification_id
<1>1. GoodStatus(status) /\ GoodStatus(Persisted) /\ Grown(Persisted, status)
    BY BothGood DEF FileInv, MemoryTracksFile, ReplaceAdvanced
<1>2. /\ Len(p) \in Nat /\ k \in Nat /\ Len(q) \in Nat /\ m \in Nat
    BY <1>1, QueueFacts
<1>3. m - k \in {0, 1} /\ Len(q) - Len(p) = m - k
    BY <1>1 DEF Grown
<1>4. /\ ledger \in Seq(DeadManNotification) /\ Len(ledger) \in Nat
      /\ ledger' \in Seq(DeadManNotification) /\ Len(ledger') \in Nat
      /\ k = Len(ledger) + 1
    BY DEF FileInv, TypeOK, LedgerMatchesFile
<1>5. Persisted' = status /\ chat' = chat /\ told' = told
    <2>1. status # NoFile
        BY CycleAssumption DEF FileInv, TypeOK
    <2> QED BY <2>1 DEF ReplaceAdvanced, Persisted
<1>6. m = Len(ledger') + 1
    BY <1>5 DEF FileInv, LedgerMatchesFile
<1>7. Len(ledger') - Len(Persisted'.pending_notifications)
        = Len(ledger) - Len(Persisted.pending_notifications)
    <2>1. Len(ledger') - Len(q) = Len(ledger) - Len(p)
        <3> HIDE DEF p, q, k, m
        <3> QED BY <1>2, <1>3, <1>4, <1>6
    <2> QED BY <1>5, <2>1
<1>8. CASE m = k
    <2>1. NewlyDurable(status) = <<>>
        BY <1>1, <1>2, <1>4, <1>8, QueueFacts DEF NewlyDurable
    <2>2. ledger' = ledger
        BY <1>4, <2>1, ConcatEmptySeq DEF ReplaceAdvanced
    <2> QED BY <1>5, <1>7, <2>2 DEF Outbox!outbox
<1>9. CASE m = k + 1
    <2>1. Len(ledger') = Len(ledger) + 1
        BY <1>4, <1>6, <1>9
    <2>2. NewlyDurable(status) \in Seq(DeadManNotification)
        BY <1>1, QueueFacts DEF NewlyDurable
    <2>3. \A i \in 1..Len(ledger) : ledger'[i] = ledger[i]
        BY <1>4, <2>2 DEF ReplaceAdvanced
    <2>4. Outbox!Publish
        BY <1>4, <1>5, <1>7, <2>1, <2>3 DEF Outbox!Publish
    <2> QED BY <2>4 DEF Outbox!Next
<1> QED BY <1>2, <1>3, <1>8, <1>9

(* Storing an acknowledged status acknowledges one alert.                  *)
LEMMA ReplaceAcknowledgedAcknowledges ==
    ASSUME FileInv, ReplaceAcknowledged
    PROVE  Outbox!Acknowledge
<1>1. /\ ledger' = ledger
      /\ Len(ledger) - Len(Persisted.pending_notifications) = told - 1
      /\ Len(ledger') - Len(Persisted'.pending_notifications) = told
    BY ReplaceAcknowledgedKeepsLedger
<1>2. told \in Nat /\ chat' = chat /\ told' = told
    BY DEF FileInv, TypeOK, ReplaceAcknowledged
<1>3. told - 1 < told /\ told = (told - 1) + 1
    BY <1>2
<1> QED BY <1>1, <1>2, <1>3 DEF Outbox!Acknowledge

(* A message that reaches the operator is a delivery of the outbox.        *)
LEMMA ReceiveDelivers ==
    ASSUME FileInv, pc = "send", Receive(Head(status.pending_notifications)),
           UNCHANGED <<file, ledger>>
    PROVE  Outbox!Deliver
BY ReceiveKeepsLedger DEF Outbox!Deliver

(* The cycle implements the outbox: from the operator's side, a dead-man   *)
(* that crashes, retries and rewrites its file is a log whose alerts       *)
(* arrive in order and are acknowledged after they arrived.                *)
THEOREM CycleImplementsOutbox == Spec => ImplementsOutbox
<1>1. Init => Outbox!Init
    BY DEF Init, Outbox!Init, Persisted, INITIAL_DEADMAN_STATUS
<1>2. Inv /\ Inv' /\ [Next]_vars => [Outbox!Next]_(Outbox!outbox)
    <2> SUFFICES ASSUME FileInv, FileInv', [Next]_vars
                 PROVE  [Outbox!Next]_(Outbox!outbox)
        BY DEF Inv
    <2>1. ASSUME UNCHANGED <<file, history>>
          PROVE  [Outbox!Next]_(Outbox!outbox)
        BY <2>1, FileUntouched DEF Outbox!outbox
    <2>2. CASE ReplaceAdvanced
        BY <2>2, ReplaceAdvancedPublishes
    <2>3. CASE ReplaceAcknowledged
        BY <2>3, ReplaceAcknowledgedAcknowledges DEF Outbox!Next
    <2>4. CASE Send
        BY <2>4, ReceiveDelivers DEF Outbox!Next, Send
    <2>5. CASE SendFails
        <3>1. CASE UNCHANGED <<chat, told>>
            BY <2>1, <2>5, <3>1 DEF SendFails, history
        <3>2. CASE Receive(Head(status.pending_notifications))
            BY <2>5, <3>2, ReceiveDelivers DEF Outbox!Next, SendFails
        <3> QED BY <2>5, <3>1, <3>2 DEF SendFails
    <2>6. CASE \/ Start \/ Crash \/ Load \/ LoadFails
               \/ \E o \in DeadManProbeOutcome, now \in Time :
                        ProbeAndAdvance(o, now)
               \/ \E now \in Time : AdvanceRaises(now)
               \/ \E step \in SaveStep : WriteTemporary(step)
               \/ WriteFails \/ ReplaceFails
        BY <2>1, <2>6 DEF Start, Crash, Load, LoadFails, ProbeAndAdvance,
                          AdvanceRaises, WriteTemporary, WriteFails,
                          ReplaceFails
    <2>7. CASE UNCHANGED vars
        BY <2>1, <2>7 DEF vars, history
    <2> QED BY <2>2, <2>3, <2>4, <2>5, <2>6, <2>7 DEF Next, ProcessStep
<1> QED BY <1>1, <1>2, InvAlways, PTL
        DEF Spec, ImplementsOutbox, Outbox!Spec

-----------------------------------------------------------------------------
(* The story the operator is told. The properties below speak of the       *)
(* history of persisted outcomes and alerts, which MemoryTracksFile knows  *)
(* only up to the queue: the strengthening remembers which advance led to  *)
(* the status that is about to be stored, dates the ledger by the file,    *)
(* and binds a confirmed outage to the last alert.                         *)

\* The status being stored is the persisted one after one advance by this
\* cycle's outcome, at an instant that is not behind it.
OneAdvance ==
    pc \in {"save", "replace"} =>
        \E now \in Time :
            /\ ~ClockBehind(Persisted, now)
            /\ status = advance_deadman_status(Persisted, outcome, now)
            /\ outcome \in DeadManProbeOutcome

\* No alert is dated after the last transition of the persisted state.
LedgerDated ==
    \A i \in 1..Len(ledger) : ledger[i].at <= Persisted.state_changed_at

\* While the persisted state is DOWN, the last alert announces the outage.
OutageLast ==
    Persisted.state = "DOWN" =>
        Len(ledger) > 0 /\ ledger[Len(ledger)].kind = "DOWN"

StoryInv ==
    /\ OneAdvance
    /\ DebounceMatchesHistory
    /\ ChronologyPreserved
    /\ LedgerDated
    /\ OutageLast
    /\ RecoveredFollowsDown

(* An advance changes the queue only when the state flips: entering DOWN   *)
(* publishes a DOWN intent, leaving an acknowledged outage a RECOVERED     *)
(* one, both dated by the clock that flipped the state.                    *)
LEMMA AdvanceAlerts ==
    ASSUME NEW s, GoodStatus(s), NEW o, NEW now \in Nat,
           ~ClockBehind(s, now)
    PROVE  LET t == advance_deadman_status(s, o, now)
               p == s.pending_notifications
               q == t.pending_notifications
           IN  /\ s.state_changed_at \in Int /\ t.state_changed_at \in Int
               /\ s.state_changed_at <= t.state_changed_at
               /\ \/ /\ q = p
                     /\ t.next_notification_id = s.next_notification_id
                     /\ t.state = "DOWN" => s.state = "DOWN"
                  \/ \E n \in DeadManNotification :
                        /\ q = Append(p, n)
                        /\ t.next_notification_id
                                = s.next_notification_id + 1
                        /\ n.at = t.state_changed_at
                        /\ s.state_changed_at <= n.at
                        /\ \/ n.kind = "DOWN" /\ t.state = "DOWN"
                           \/ /\ n.kind = "RECOVERED" /\ t.state # "DOWN"
                              /\ s.state = "DOWN"
                              /\ s.current_down.acknowledged
<1> DEFINE p == s.pending_notifications
           t == advance_deadman_status(s, o, now)
<1>1. /\ s \in DeadManStatusType
      /\ p \in Seq(DeadManNotification)
      /\ s.state \in DeadManState
      /\ s.next_notification_id \in Nat
      /\ s.state_changed_at \in Int /\ now \in Int
      /\ s.state_changed_at <= now
      /\ s.current_down.acknowledged \in BOOLEAN
    BY DEF GoodStatus, DeadManStatusType, ClockBehind, NoTime,
           DeadManCurrentDown
<1>2. CASE o = "HEALTHY"
    <2>1. t = advance_success(s, now)
        BY <1>2 DEF advance_deadman_status
    <2>2. CASE s.state \in {"UNKNOWN", "UP"}
        BY <1>1, <2>1, <2>2 DEF advance_success, DeadManStatusType
    <2>3. CASE /\ s.state = "DOWN"
               /\ s.consecutive_successes + 1 < RECOVERY_CONFIRMATIONS
        <3>1. t = [s EXCEPT !.consecutive_failures = 0,
                            !.consecutive_successes = @ + 1]
            BY <2>1, <2>3 DEF advance_success
        <3> QED BY <1>1, <2>3, <3>1 DEF DeadManStatusType
    <2>4. CASE /\ s.state = "DOWN"
               /\ ~(s.consecutive_successes + 1 < RECOVERY_CONFIRMATIONS)
        <3>1. t = LeaveDown(s, now)
            BY <2>1, <2>4 DEF advance_success
        <3> DEFINE n == NewNotification(s, "RECOVERED", "UP", now)
        <3>2. /\ n \in DeadManNotification
              /\ n.at = now /\ n.kind = "RECOVERED"
            BY <1>1, <2>4 DEF NewNotification, DeadManNotification,
                       DeadManNotificationKind, DeadManState
        <3>3. /\ t.state = "UP" /\ t.state_changed_at = now
              /\ t.pending_notifications =
                    IF s.current_down.acknowledged THEN Append(p, n) ELSE p
              /\ t.next_notification_id =
                    IF s.current_down.acknowledged
                    THEN s.next_notification_id + 1
                    ELSE s.next_notification_id
            BY <3>1 DEF LeaveDown
        <3> HIDE DEF n, t, p
        <3> QED BY <1>1, <2>4, <3>2, <3>3 DEF p, t
    <2> QED BY <1>1, <2>2, <2>3, <2>4 DEF DeadManState
<1>3. CASE o # "HEALTHY"
    <2>1. t = advance_failure(s, now)
        BY <1>3 DEF advance_deadman_status
    <2>2. CASE \/ s.state = "DOWN"
               \/ s.consecutive_failures + 1 < DOWN_CONFIRMATIONS
        BY <1>1, <2>1, <2>2 DEF advance_failure, DeadManStatusType
    <2>3. CASE /\ s.state # "DOWN"
               /\ ~(s.consecutive_failures + 1 < DOWN_CONFIRMATIONS)
        <3>1. t = EnterDown(s, now)
            BY <2>1, <2>3 DEF advance_failure
        <3> DEFINE n == NewNotification(s, "DOWN", "DOWN", now)
        <3>2. /\ n \in DeadManNotification
              /\ n.at = now /\ n.kind = "DOWN"
            BY <1>1 DEF NewNotification, DeadManNotification,
                        DeadManNotificationKind, DeadManState
        <3>3. /\ t.state = "DOWN" /\ t.state_changed_at = now
              /\ t.pending_notifications = Append(p, n)
              /\ t.next_notification_id = s.next_notification_id + 1
            BY <3>1 DEF EnterDown
        <3> HIDE DEF n, t, p
        <3> QED BY <1>1, <3>2, <3>3 DEF p, t
    <2> QED BY <2>2, <2>3
<1> QED BY <1>2, <1>3

(* The debounce counters after an advance: the state flips exactly when    *)
(* the streak that ends in this outcome reaches its threshold, and         *)
(* otherwise the streak is one longer or starts again.                     *)
LEMMA AdvanceDebounces ==
    ASSUME NEW s, GoodStatus(s), NEW o \in DeadManProbeOutcome,
           NEW now \in Nat
    PROVE  LET t == advance_deadman_status(s, o, now)
           IN  /\ s.consecutive_failures \in Nat
               /\ s.consecutive_successes \in Nat
               /\ s.state # "DOWN" =>
                    s.consecutive_failures < DOWN_CONFIRMATIONS
               /\ s.state = "DOWN" =>
                    s.consecutive_successes < RECOVERY_CONFIRMATIONS
               /\ o = "FAILED" /\ s.state = "DOWN" =>
                    t.state = "DOWN" /\ t.consecutive_successes = 0
               /\ o = "HEALTHY" /\ s.state # "DOWN" =>
                    t.state = "UP" /\ t.consecutive_failures = 0
               /\ o = "FAILED" /\ s.state # "DOWN" =>
                    IF s.consecutive_failures + 1 = DOWN_CONFIRMATIONS
                    THEN t.state = "DOWN" /\ t.consecutive_successes = 0
                    ELSE /\ t.state # "DOWN"
                         /\ t.consecutive_failures =
                                s.consecutive_failures + 1
               /\ o = "HEALTHY" /\ s.state = "DOWN" =>
                    IF s.consecutive_successes + 1 = RECOVERY_CONFIRMATIONS
                    THEN t.state = "UP" /\ t.consecutive_failures = 0
                    ELSE /\ t.state = "DOWN"
                         /\ t.consecutive_successes =
                                s.consecutive_successes + 1
<1> DEFINE t == advance_deadman_status(s, o, now)
<1>1. /\ s \in DeadManStatusType
      /\ s.state \in DeadManState
      /\ s.consecutive_failures \in Nat
      /\ s.consecutive_successes \in Nat
      /\ s.state # "DOWN" => s.consecutive_failures < DOWN_CONFIRMATIONS
      /\ s.state = "DOWN" => s.consecutive_successes < RECOVERY_CONFIRMATIONS
    BY DEF GoodStatus, DeadManStatusType, ValidStatus, DebounceCanonical
<1>2. CASE o = "FAILED" /\ s.state = "DOWN"
    BY <1>1, <1>2 DEF advance_deadman_status, advance_failure,
                      DeadManStatusType
<1>3. CASE o = "HEALTHY" /\ s.state # "DOWN"
    BY <1>1, <1>3 DEF advance_deadman_status, advance_success,
                      DeadManStatusType, DeadManState
<1>4. CASE o = "FAILED" /\ s.state # "DOWN"
    <2>1. CASE s.consecutive_failures + 1 = DOWN_CONFIRMATIONS
        <3>1. t = EnterDown(s, now)
            BY <1>1, <1>4, <2>1, ConfirmationsAssumption
            DEF advance_deadman_status, advance_failure
        <3> QED BY <1>1, <1>4, <2>1, <3>1 DEF EnterDown
    <2>2. CASE s.consecutive_failures + 1 # DOWN_CONFIRMATIONS
        <3>1. s.consecutive_failures + 1 < DOWN_CONFIRMATIONS
            BY <1>1, <1>4, <2>2, ConfirmationsAssumption
        <3> QED BY <1>1, <1>4, <2>2, <3>1
                DEF advance_deadman_status, advance_failure, DeadManStatusType
    <2> QED BY <2>1, <2>2
<1>5. CASE o = "HEALTHY" /\ s.state = "DOWN"
    <2>1. CASE s.consecutive_successes + 1 = RECOVERY_CONFIRMATIONS
        <3>1. t = LeaveDown(s, now)
            BY <1>1, <1>5, <2>1, ConfirmationsAssumption
            DEF advance_deadman_status, advance_success
        <3> QED BY <1>1, <1>5, <2>1, <3>1 DEF LeaveDown
    <2>2. CASE s.consecutive_successes + 1 # RECOVERY_CONFIRMATIONS
        <3>1. s.consecutive_successes + 1 < RECOVERY_CONFIRMATIONS
            BY <1>1, <1>5, <2>2, ConfirmationsAssumption
        <3> QED BY <1>1, <1>5, <2>2, <3>1
                DEF advance_deadman_status, advance_success, DeadManStatusType
    <2> QED BY <2>1, <2>2
<1> QED BY <1>1, <1>2, <1>3, <1>4, <1>5 DEF DeadManProbeOutcome

(* What storing an advanced status does to the ledger: nothing, or one     *)
(* alert that tells of the flip.                                           *)
LEMMA AdvancedLedger ==
    ASSUME FileInv, OneAdvance, ReplaceAdvanced
    PROVE  /\ Persisted' = status /\ chat' = chat
           /\ run' = ExtendRun(outcome)
           /\ Persisted.state_changed_at \in Int
           /\ status.state_changed_at \in Int
           /\ Persisted.state_changed_at <= status.state_changed_at
           /\ \/ /\ ledger' = ledger
                 /\ status.state = "DOWN" => Persisted.state = "DOWN"
              \/ \E n \in DeadManNotification :
                    /\ Len(ledger') = Len(ledger) + 1
                    /\ ledger'[Len(ledger) + 1] = n
                    /\ \A i \in 1..Len(ledger) : ledger'[i] = ledger[i]
                    /\ n.at = status.state_changed_at
                    /\ Persisted.state_changed_at <= n.at
                    /\ \/ n.kind = "DOWN" /\ status.state = "DOWN"
                       \/ /\ n.kind = "RECOVERED" /\ status.state # "DOWN"
                          /\ Persisted.state = "DOWN"
                          /\ Persisted.current_down.acknowledged
<1> DEFINE p == Persisted.pending_notifications
           q == status.pending_notifications
           k == Persisted.next_notification_id
           m == status.next_notification_id
<1>1. GoodStatus(status) /\ GoodStatus(Persisted)
    BY BothGood
<1>2. PICK now \in Time :
            /\ ~ClockBehind(Persisted, now)
            /\ status = advance_deadman_status(Persisted, outcome, now)
    BY DEF OneAdvance, ReplaceAdvanced
<1>3. now \in Nat
    BY CycleAssumption
<1>4. /\ Persisted.state_changed_at \in Int
      /\ status.state_changed_at \in Int
      /\ Persisted.state_changed_at <= status.state_changed_at
      /\ \/ /\ q = p /\ m = k
            /\ status.state = "DOWN" => Persisted.state = "DOWN"
         \/ \E n \in DeadManNotification :
               /\ q = Append(p, n) /\ m = k + 1
               /\ n.at = status.state_changed_at
               /\ Persisted.state_changed_at <= n.at
               /\ \/ n.kind = "DOWN" /\ status.state = "DOWN"
                  \/ /\ n.kind = "RECOVERED" /\ status.state # "DOWN"
                     /\ Persisted.state = "DOWN"
                     /\ Persisted.current_down.acknowledged
    BY <1>1, <1>2, <1>3, AdvanceAlerts
<1>5. Persisted' = status /\ chat' = chat /\ run' = ExtendRun(outcome)
    <2>1. status # NoFile
        BY CycleAssumption DEF FileInv, TypeOK
    <2> QED BY <2>1 DEF ReplaceAdvanced, Persisted
<1>6. /\ ledger \in Seq(DeadManNotification) /\ Len(ledger) \in Nat
      /\ k = Len(ledger) + 1
      /\ p \in Seq(DeadManNotification) /\ Len(p) \in Nat
    BY <1>1, QueueFacts DEF FileInv, TypeOK, LedgerMatchesFile
<1>7. /\ ledger' = ledger \o NewlyDurable(status)
      /\ q # <<>> => q[Len(q)].notification_id = m - 1
    BY <1>1, QueueFacts DEF ReplaceAdvanced
<1>8. CASE /\ q = p /\ m = k
           /\ status.state = "DOWN" => Persisted.state = "DOWN"
    <2>1. NewlyDurable(status) = <<>>
        BY <1>6, <1>7, <1>8 DEF NewlyDurable
    <2>2. ledger' = ledger
        BY <1>6, <1>7, <2>1, ConcatEmptySeq
    <2> QED BY <1>4, <1>5, <1>8, <2>2
<1>9. ASSUME NEW n \in DeadManNotification, q = Append(p, n), m = k + 1
      PROVE  /\ Len(ledger') = Len(ledger) + 1
             /\ ledger'[Len(ledger) + 1] = n
             /\ \A i \in 1..Len(ledger) : ledger'[i] = ledger[i]
    <2>1. q # <<>> /\ q[Len(q)] = n
        <3> HIDE DEF p, q
        <3> QED BY <1>6, <1>9
    <2>2. NewlyDurable(status) = <<n>>
        <3>1. q[Len(q)].notification_id > Len(ledger)
            <4> HIDE DEF q, m, k
            <4> QED BY <1>6, <1>7, <1>9, <2>1
        <3> QED BY <2>1, <3>1 DEF NewlyDurable
    <2> QED BY <1>6, <1>7, <2>2
<1> HIDE DEF p, q, k, m
<1> QED BY <1>4, <1>5, <1>8, <1>9

(* Storing an advanced status keeps the debounce equal to the history of   *)
(* outcomes, and flips the persisted state only on the outcome that        *)
(* completes a run.                                                        *)
LEMMA AdvancedDebounces ==
    ASSUME FileInv, OneAdvance, DebounceMatchesHistory, ReplaceAdvanced
    PROVE  /\ DebounceMatchesHistory'
           /\ Persisted.state # "DOWN" /\ Persisted'.state = "DOWN" =>
                run' = [outcome |-> "FAILED", length |-> DOWN_CONFIRMATIONS]
           /\ Persisted.state = "DOWN" /\ Persisted'.state # "DOWN" =>
                run' = [outcome |-> "HEALTHY",
                        length |-> RECOVERY_CONFIRMATIONS]
<1> DEFINE s == Persisted
           t == status
           r == [outcome |-> outcome, length |-> run'.length]
<1>1. PICK now \in Time :
            /\ ~ClockBehind(s, now)
            /\ t = advance_deadman_status(s, outcome, now)
            /\ outcome \in DeadManProbeOutcome
    BY DEF OneAdvance, ReplaceAdvanced
<1>2. GoodStatus(s) /\ now \in Nat
    BY BothGood, CycleAssumption
<1>3. Persisted' = t /\ run' = ExtendRun(outcome)
    BY AdvancedLedger
<1>4. /\ run.length \in Nat
      /\ DOWN_CONFIRMATIONS \in Nat \ {0}
      /\ RECOVERY_CONFIRMATIONS \in Nat \ {0}
    BY ConfirmationsAssumption DEF FileInv, TypeOK
<1>5. /\ s.consecutive_failures \in Nat
      /\ s.consecutive_successes \in Nat
      /\ s.state # "DOWN" => s.consecutive_failures < DOWN_CONFIRMATIONS
      /\ s.state = "DOWN" => s.consecutive_successes < RECOVERY_CONFIRMATIONS
    BY <1>1, <1>2, AdvanceDebounces
<1>6. /\ s.state # "DOWN" => s.consecutive_failures =
                    IF run.outcome = "FAILED" THEN run.length ELSE 0
      /\ s.state = "DOWN" => s.consecutive_successes =
                    IF run.outcome = "HEALTHY" THEN run.length ELSE 0
    BY DEF DebounceMatchesHistory
<1>7. run' = r
    BY <1>3 DEF ExtendRun
<1>8. run'.outcome = outcome
    BY <1>7
<1>9. /\ outcome = "FAILED" /\ s.state # "DOWN" =>
            run'.length = s.consecutive_failures + 1
      /\ outcome = "HEALTHY" /\ s.state = "DOWN" =>
            run'.length = s.consecutive_successes + 1
    <2>1. run.outcome = outcome /\ run.length < RunCap =>
                run'.length = run.length + 1
        BY <1>3 DEF ExtendRun
    <2>2. run.outcome # outcome => run'.length = 1
        BY <1>3 DEF ExtendRun
    <2> HIDE DEF s
    <2> QED BY <1>4, <1>5, <1>6, <2>1, <2>2 DEF RunCap
<1>10. CASE outcome = "FAILED" /\ s.state = "DOWN"
    <2>1. t.state = "DOWN" /\ t.consecutive_successes = 0
        BY <1>1, <1>2, <1>10, AdvanceDebounces
    <2> QED BY <1>3, <1>8, <1>10, <2>1 DEF DebounceMatchesHistory
<1>11. CASE outcome = "HEALTHY" /\ s.state # "DOWN"
    <2>1. t.state = "UP" /\ t.consecutive_failures = 0
        BY <1>1, <1>2, <1>11, AdvanceDebounces
    <2> QED BY <1>3, <1>8, <1>11, <2>1 DEF DebounceMatchesHistory
<1>12. CASE outcome = "FAILED" /\ s.state # "DOWN"
    <2>1. IF s.consecutive_failures + 1 = DOWN_CONFIRMATIONS
          THEN t.state = "DOWN" /\ t.consecutive_successes = 0
          ELSE /\ t.state # "DOWN"
               /\ t.consecutive_failures = s.consecutive_failures + 1
        BY <1>1, <1>2, <1>12, AdvanceDebounces
    <2>2. DebounceMatchesHistory'
        BY <1>3, <1>4, <1>5, <1>8, <1>9, <1>12, <2>1
        DEF DebounceMatchesHistory
    <2>3. t.state = "DOWN" => run'.length = DOWN_CONFIRMATIONS
        BY <1>9, <1>12, <2>1
    <2> QED BY <1>3, <1>7, <1>12, <2>2, <2>3
<1>13. CASE outcome = "HEALTHY" /\ s.state = "DOWN"
    <2>1. IF s.consecutive_successes + 1 = RECOVERY_CONFIRMATIONS
          THEN t.state = "UP" /\ t.consecutive_failures = 0
          ELSE /\ t.state = "DOWN"
               /\ t.consecutive_successes = s.consecutive_successes + 1
        BY <1>1, <1>2, <1>13, AdvanceDebounces
    <2>2. DebounceMatchesHistory'
        BY <1>3, <1>4, <1>5, <1>8, <1>9, <1>13, <2>1
        DEF DebounceMatchesHistory
    <2>3. t.state # "DOWN" => run'.length = RECOVERY_CONFIRMATIONS
        BY <1>9, <1>13, <2>1
    <2> QED BY <1>3, <1>7, <1>13, <2>2, <2>3
<1> QED BY <1>1, <1>10, <1>11, <1>12, <1>13 DEF DeadManProbeOutcome

(* Storing an advanced status keeps the ledger in order, and a RECOVERED   *)
(* alert joins it only behind a DOWN alert the operator has received.      *)
LEMMA AdvancedStory ==
    ASSUME FileInv, StoryInv, ReplaceAdvanced
    PROVE  /\ ChronologyPreserved'
           /\ LedgerDated'
           /\ OutageLast'
           /\ RecoveredFollowsDown'
<1> DEFINE len == Len(ledger)
<1>1. /\ Persisted' = status /\ chat' = chat
      /\ Persisted.state_changed_at \in Int
      /\ status.state_changed_at \in Int
      /\ Persisted.state_changed_at <= status.state_changed_at
      /\ \/ /\ ledger' = ledger
            /\ status.state = "DOWN" => Persisted.state = "DOWN"
         \/ \E n \in DeadManNotification :
               /\ Len(ledger') = len + 1
               /\ ledger'[len + 1] = n
               /\ \A i \in 1..len : ledger'[i] = ledger[i]
               /\ n.at = status.state_changed_at
               /\ Persisted.state_changed_at <= n.at
               /\ \/ n.kind = "DOWN" /\ status.state = "DOWN"
                  \/ /\ n.kind = "RECOVERED" /\ status.state # "DOWN"
                     /\ Persisted.state = "DOWN"
                     /\ Persisted.current_down.acknowledged
    BY AdvancedLedger DEF StoryInv
<1>2. /\ len \in Nat
      /\ \A i \in 1..len : ledger[i].at \in Nat
    <2>1. ledger \in Seq(DeadManNotification)
        BY DEF FileInv, TypeOK
    <2>2. len \in Nat /\ \A i \in 1..len : ledger[i] \in DeadManNotification
        BY <2>1
    <2> QED BY <2>2 DEF DeadManNotification
<1>3. /\ \A i, j \in 1..len : i < j => ledger[i].at <= ledger[j].at
      /\ \A i \in 1..len : ledger[i].at <= Persisted.state_changed_at
      /\ Persisted.state = "DOWN" => len > 0 /\ ledger[len].kind = "DOWN"
    BY DEF StoryInv, ChronologyPreserved, LedgerDated, OutageLast
<1>4. CASE /\ ledger' = ledger
           /\ status.state = "DOWN" => Persisted.state = "DOWN"
    <2>1. ChronologyPreserved' /\ RecoveredFollowsDown'
        BY <1>1, <1>4 DEF StoryInv, ChronologyPreserved, RecoveredFollowsDown
    <2>2. LedgerDated' /\ OutageLast'
        BY <1>1, <1>2, <1>3, <1>4 DEF LedgerDated, OutageLast
    <2> QED BY <2>1, <2>2
<1>5. ASSUME NEW n \in DeadManNotification,
             Len(ledger') = len + 1,
             ledger'[len + 1] = n,
             \A i \in 1..len : ledger'[i] = ledger[i],
             n.at = status.state_changed_at,
             Persisted.state_changed_at <= n.at,
             \/ n.kind = "DOWN" /\ status.state = "DOWN"
             \/ /\ n.kind = "RECOVERED" /\ status.state # "DOWN"
                /\ Persisted.state = "DOWN"
                /\ Persisted.current_down.acknowledged
      PROVE  /\ ChronologyPreserved'
             /\ LedgerDated'
             /\ OutageLast'
             /\ RecoveredFollowsDown'
    <2>1. \A i \in 1..len : ledger'[i].at <= n.at /\ ledger'[i].at \in Nat
        BY <1>1, <1>2, <1>3, <1>5
    <2>2. n.at \in Nat
        BY DEF DeadManNotification
    <2>3. ChronologyPreserved'
        <3> SUFFICES ASSUME NEW i \in 1..(len + 1), NEW j \in 1..(len + 1),
                            i < j
                     PROVE  ledger'[i].at <= ledger'[j].at
            BY <1>5 DEF ChronologyPreserved
        <3>1. i \in 1..len
            BY <1>2
        <3>2. CASE j \in 1..len
            BY <1>3, <1>5, <3>1, <3>2
        <3>3. CASE j = len + 1
            BY <1>5, <2>1, <3>1, <3>3
        <3> QED BY <1>2, <3>2, <3>3
    <2>4. LedgerDated'
        <3> SUFFICES ASSUME NEW i \in 1..(len + 1)
                     PROVE  ledger'[i].at <= n.at
            BY <1>1, <1>5 DEF LedgerDated
        <3> QED BY <1>2, <1>5, <2>1, <2>2
    <2>5. OutageLast'
        BY <1>1, <1>2, <1>5 DEF OutageLast
    <2>6. n.kind = "RECOVERED" => len > 0 /\ ledger[len].kind = "DOWN"
                                          /\ ledger[len] \in chat
        <3> SUFFICES ASSUME n.kind = "RECOVERED"
                     PROVE  len > 0 /\ ledger[len].kind = "DOWN"
                                    /\ ledger[len] \in chat
            OBVIOUS
        <3>1. /\ Persisted.state = "DOWN"
              /\ Persisted.current_down.acknowledged
            BY <1>5
        <3>2. len > 0 /\ ledger[len].kind = "DOWN"
            BY <1>3, <3>1
        <3>3. Persisted.pending_notifications = <<>>
            BY <3>1 DEF FileInv, StatusAlwaysValid, ValidStatus, OutageBinding
        <3>4. \A i \in 1..(len - 0) : ledger[i] \in chat
            BY <3>3 DEF FileInv, LedgerMatchesFile
        <3> QED BY <1>2, <3>2, <3>4
    <2>7. RecoveredFollowsDown'
        <3> SUFFICES ASSUME NEW i \in 1..(len + 1),
                            ledger'[i].kind = "RECOVERED"
                     PROVE  /\ i > 1
                            /\ ledger'[i - 1].kind = "DOWN"
                            /\ ledger'[i - 1] \in chat
            BY <1>1, <1>5 DEF RecoveredFollowsDown
        <3>1. CASE i \in 1..len
            <4>1. /\ i > 1
                  /\ ledger[i - 1].kind = "DOWN"
                  /\ ledger[i - 1] \in chat
                BY <1>5, <3>1 DEF StoryInv, RecoveredFollowsDown
            <4>2. i - 1 \in 1..len
                BY <1>2, <3>1, <4>1
            <4> QED BY <1>5, <4>1, <4>2
        <3>2. CASE i = len + 1
            <4>1. len > 0 /\ ledger[len].kind = "DOWN" /\ ledger[len] \in chat
                BY <1>5, <2>6, <3>2
            <4>2. i > 1 /\ i - 1 = len /\ len \in 1..len
                BY <1>2, <3>2, <4>1
            <4> QED BY <1>5, <4>1, <4>2
        <3> QED BY <1>2, <3>1, <3>2
    <2> QED BY <2>3, <2>4, <2>5, <2>7
<1> QED BY <1>1, <1>4, <1>5

(* A step that stores nothing leaves the story as it was; the operator may *)
(* have received one more message.                                         *)
LEMMA StoryUntouched ==
    ASSUME StoryInv, UNCHANGED <<file, ledger, run>>, chat \subseteq chat'
    PROVE  /\ DebounceMatchesHistory'
           /\ ChronologyPreserved'
           /\ LedgerDated'
           /\ OutageLast'
           /\ RecoveredFollowsDown'
<1>1. Persisted' = Persisted
    BY DEF Persisted
<1>2. RecoveredFollowsDown'
    BY DEF StoryInv, RecoveredFollowsDown
<1>3. DebounceMatchesHistory' /\ ChronologyPreserved'
    BY <1>1 DEF StoryInv, DebounceMatchesHistory, ChronologyPreserved
<1>4. LedgerDated' /\ OutageLast'
    BY <1>1 DEF StoryInv, LedgerDated, OutageLast
<1> QED BY <1>2, <1>3, <1>4

(* Storing an acknowledged status leaves state, streaks, dates and ledger  *)
(* as they were.                                                           *)
LEMMA AcknowledgedStory ==
    ASSUME FileInv, StoryInv, ReplaceAcknowledged
    PROVE  StoryInv' /\ Persisted'.state = Persisted.state
<1>1. /\ status = acknowledge_deadman_notification(Persisted, told)
      /\ GoodStatus(Persisted)
    BY BothGood DEF FileInv, MemoryTracksFile, ReplaceAcknowledged
<1>2. Persisted' = status
    BY CycleAssumption DEF ReplaceAcknowledged, Persisted, FileInv, TypeOK
<1>3. /\ Persisted'.state = Persisted.state
      /\ Persisted'.consecutive_failures = Persisted.consecutive_failures
      /\ Persisted'.consecutive_successes = Persisted.consecutive_successes
      /\ Persisted'.state_changed_at = Persisted.state_changed_at
    BY <1>1, <1>2 DEF acknowledge_deadman_notification, GoodStatus,
                      DeadManStatusType
<1>4. ledger' = ledger
    BY ReplaceAcknowledgedKeepsLedger
<1>5. UNCHANGED <<run, chat, told>> /\ pc' = "idle"
    BY DEF ReplaceAcknowledged, Exit
<1>6. OneAdvance'
    BY <1>5 DEF OneAdvance
<1>7. DebounceMatchesHistory' /\ ChronologyPreserved'
    BY <1>3, <1>4, <1>5
    DEF StoryInv, DebounceMatchesHistory, ChronologyPreserved
<1>8. LedgerDated' /\ OutageLast'
    BY <1>3, <1>4 DEF StoryInv, LedgerDated, OutageLast
<1>9. RecoveredFollowsDown'
    BY <1>4, <1>5 DEF StoryInv, RecoveredFollowsDown
<1> QED BY <1>3, <1>6, <1>7, <1>8, <1>9 DEF StoryInv

(* The story holds initially: nothing was told.                            *)
LEMMA InitStory == Init => StoryInv
<1> SUFFICES ASSUME Init PROVE StoryInv
    OBVIOUS
<1>1. Persisted = INITIAL_DEADMAN_STATUS /\ Len(ledger) = 0
    BY DEF Init, Persisted
<1>2. OneAdvance /\ ChronologyPreserved /\ RecoveredFollowsDown
    BY <1>1 DEF Init, OneAdvance, ChronologyPreserved, RecoveredFollowsDown
<1>3. LedgerDated /\ OutageLast
    BY <1>1 DEF LedgerDated, OutageLast, INITIAL_DEADMAN_STATUS
<1>4. DebounceMatchesHistory
    BY <1>1, ConfirmationsAssumption
    DEF Init, DebounceMatchesHistory, INITIAL_DEADMAN_STATUS, NoRun
<1> QED BY <1>2, <1>3, <1>4 DEF StoryInv

(* Every step of the cycle keeps the story, and flips the persisted state  *)
(* only when a run of outcomes confirms it.                                *)
LEMMA NextStory ==
    ASSUME FileInv, StoryInv, [Next]_vars
    PROVE  /\ StoryInv'
           /\ Persisted.state # "DOWN" /\ Persisted'.state = "DOWN" =>
                run' = [outcome |-> "FAILED", length |-> DOWN_CONFIRMATIONS]
           /\ Persisted.state = "DOWN" /\ Persisted'.state # "DOWN" =>
                run' = [outcome |-> "HEALTHY",
                        length |-> RECOVERY_CONFIRMATIONS]
<1> DEFINE Goal ==
            /\ StoryInv'
            /\ Persisted.state # "DOWN" /\ Persisted'.state = "DOWN" =>
                run' = [outcome |-> "FAILED", length |-> DOWN_CONFIRMATIONS]
            /\ Persisted.state = "DOWN" /\ Persisted'.state # "DOWN" =>
                run' = [outcome |-> "HEALTHY",
                        length |-> RECOVERY_CONFIRMATIONS]
<1>1. ASSUME UNCHANGED <<file, ledger, run>>, chat \subseteq chat',
             OneAdvance'
      PROVE  Goal
    <2>1. Persisted' = Persisted
        BY <1>1 DEF Persisted
    <2> QED BY <1>1, <2>1, StoryUntouched DEF StoryInv
<1>2. ASSUME UNCHANGED <<file, history>>, pc' \notin {"save", "replace"}
      PROVE  Goal
    <2>1. OneAdvance'
        BY <1>2 DEF OneAdvance
    <2> QED BY <1>1, <1>2, <2>1 DEF history
<1>3. CASE \/ Start \/ Crash \/ Load \/ LoadFails
           \/ \E now \in Time : AdvanceRaises(now)
           \/ WriteFails \/ ReplaceFails
    <2>1. UNCHANGED <<file, history>> /\ pc' \notin {"save", "replace"}
        BY <1>3 DEF Start, Crash, Load, LoadFails, AdvanceRaises, WriteFails,
                    ReplaceFails, Exit
    <2> QED BY <1>2, <2>1
<1>4. ASSUME NEW o \in DeadManProbeOutcome, NEW now \in Time,
             ProbeAndAdvance(o, now)
      PROVE  Goal
    <2>1. /\ UNCHANGED <<file, history>>
          /\ status = Persisted /\ outcome' = o
          /\ status' = advance_deadman_status(status, o, now)
          /\ ~ClockBehind(status, now)
        BY <1>4 DEF ProbeAndAdvance, FileInv, MemoryTracksFile
    <2>2. Persisted' = Persisted
        BY <2>1, FileUntouched
    <2>3. OneAdvance'
        BY <2>1, <2>2 DEF OneAdvance
    <2> QED BY <1>1, <2>1, <2>3 DEF history
<1>5. ASSUME NEW step \in SaveStep, WriteTemporary(step)
      PROVE  Goal
    <2>1. /\ UNCHANGED <<file, history>> /\ UNCHANGED <<status, outcome>>
          /\ pc' \in {"save", "replace"} => pc = "save"
        BY <1>5 DEF WriteTemporary, SaveStep
    <2>2. Persisted' = Persisted
        BY <2>1, FileUntouched
    <2>3. OneAdvance'
        BY <2>1, <2>2 DEF OneAdvance, StoryInv
    <2> QED BY <1>1, <2>1, <2>3 DEF history
<1>6. CASE ReplaceAdvanced
    <2>1. OneAdvance'
        <3>1. pc' \in {"idle", "send"}
            BY <1>6 DEF ReplaceAdvanced, Exit
        <3> QED BY <3>1 DEF OneAdvance
    <2> QED BY <1>6, <2>1, AdvancedDebounces, AdvancedStory DEF StoryInv
<1>7. CASE ReplaceAcknowledged
    BY <1>7, AcknowledgedStory
<1>8. CASE Send \/ SendFails
    <2>1. /\ UNCHANGED <<file, ledger, run>> /\ chat \subseteq chat'
          /\ pc' \in {"idle", "saveAck"}
        BY <1>8 DEF Send, SendFails, Receive, Exit
    <2>2. OneAdvance'
        BY <2>1 DEF OneAdvance
    <2> QED BY <1>1, <2>1, <2>2
<1>9. CASE UNCHANGED vars
    <2>1. Persisted' = Persisted
        BY <1>9 DEF vars, Persisted
    <2>2. OneAdvance'
        BY <1>9, <2>1 DEF OneAdvance, StoryInv, vars
    <2> QED BY <1>1, <1>9, <2>2 DEF vars
<1> QED BY <1>3, <1>4, <1>5, <1>6, <1>7, <1>8, <1>9 DEF Next, ProcessStep

(* The strengthened story holds throughout.                                *)
LEMMA StoryAlways == Spec => []StoryInv
<1>1. Inv /\ StoryInv /\ [Next]_vars => StoryInv'
    BY NextStory DEF Inv
<1> QED BY <1>1, InvAlways, InitStory, PTL DEF Spec

(* The persisted state is the debounce of the persisted outcomes, for      *)
(* every pair of thresholds.                                               *)
THEOREM DebounceIsHistory == Spec => []DebounceMatchesHistory
BY StoryAlways, PTL DEF StoryInv

(* A RECOVERED alert follows the DOWN alert of its outage, which the       *)
(* operator has received.                                                  *)
THEOREM NoRecoveryUnannounced == Spec => []RecoveredFollowsDown
BY StoryAlways, PTL DEF StoryInv

(* Alerts are dated in the order of their ids, whatever the wall clock     *)
(* reads.                                                                  *)
THEOREM ClockNeverReorders == Spec => []ChronologyPreserved
BY StoryAlways, PTL DEF StoryInv

(* DOWN is entered and left only by the outcome that completes a run of    *)
(* confirmations.                                                          *)
THEOREM NoUnconfirmedFlip == Spec => FlipsOnlyWhenConfirmed
<1>1. Inv /\ StoryInv /\ [Next]_vars =>
        [/\ Persisted.state # "DOWN" /\ Persisted'.state = "DOWN" =>
              run' = [outcome |-> "FAILED", length |-> DOWN_CONFIRMATIONS]
         /\ Persisted.state = "DOWN" /\ Persisted'.state # "DOWN" =>
              run' = [outcome |-> "HEALTHY",
                      length |-> RECOVERY_CONFIRMATIONS]]_vars
    BY NextStory DEF Inv
<1> QED BY <1>1, InvAlways, StoryAlways, PTL DEF Spec, FlipsOnlyWhenConfirmed
=============================================================================
