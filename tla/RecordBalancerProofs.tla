------------------------ MODULE RecordBalancerProofs ------------------------
(***************************************************************************)
(* The threads of RecordBalancer only do what Outbox allows, so what is    *)
(* proved of the table in OutboxProofs holds of the bot process, for every *)
(* number of slots, rows and faults.                                       *)
(***************************************************************************)
EXTENDS RecordBalancer, OutboxProofs

\* claim() is only ever asked for the action of a pool.
LEMMA ClaimIsARowStep ==
    ASSUME NEW j \in Jobs, NEW a, Claim(a, j)
    PROVE  Next
<1>1. a = JobAction[j] /\ a \in Actions
  BY OutboxAssumption DEF OutboxAssumption, Claim, NextJob
<1> QED  BY <1>1 DEF Next, RowNext

LEMMA BalancerStep ==
    ASSUME Balancer
    PROVE  [Next]_vars
<1>1. CASE Restore
  BY <1>1 DEF Restore, Next
<1>2. CASE StartFill \/ FillReclaim \/ FillCount \/ FillFailExhausted
  BY <1>2 DEF StartFill, FillReclaim, FillCount, FillFailExhausted, Next
<1>3. ASSUME NEW ids \in mail, DispatchStalled(ids) PROVE Next
  BY <1>3 DEF DispatchStalled, Next
<1>4. ASSUME NEW s \in Slots, NEW j \in Jobs, FillClaim(s, j) PROVE Next
  BY <1>4, ClaimIsARowStep DEF FillClaim
<1>5. CASE FillNextPool
  BY <1>5 DEF FillNextPool
<1> QED  BY <1>1, <1>2, <1>3, <1>4, <1>5 DEF Balancer

LEMMA SenderStep ==
    ASSUME NEW t \in tickets, Sender(t) \/ Hang(t) \/ CallReturns(t)
    PROVE  [Next]_vars
<1>1. CASE SenderTouch(t) \/ SenderAnswer(t) \/ SenderMarkDone(t)
  BY <1>1 DEF SenderTouch, SenderAnswer, SenderMarkDone, Next, TicketNext
<1>2. ASSUME NEW terminal \in BOOLEAN, SenderFailOrRetry(t, terminal) PROVE Next
  BY <1>2 DEF SenderFailOrRetry, Next, TicketNext
<1>3. CASE SenderReturn(t)
  BY <1>3 DEF SenderReturn, Next, TicketNext
<1>4. CASE Hang(t) \/ CallReturns(t)
  BY <1>4 DEF Hang, CallReturns
<1> QED  BY <1>1, <1>2, <1>3, <1>4 DEF Sender

\* Every step of the balancer, heartbeat and sender threads is a step of the
\* table or leaves it alone.
LEMMA BalStep ==
    ASSUME [BalNext]_balVars
    PROVE  [Next]_vars
<1>1. CASE Balancer
  BY <1>1, BalancerStep
<1>2. CASE HeartbeatRelease \/ HeartbeatRenew
  BY <1>2 DEF HeartbeatRelease, HeartbeatRenew, Next
<1>3. ASSUME NEW s \in Slots, ThreadDies(s) \/ TakeJob(s) PROVE UNCHANGED vars
  BY <1>3 DEF ThreadDies, TakeJob
<1>4. ASSUME NEW t \in tickets, Sender(t) \/ Hang(t) \/ CallReturns(t)
      PROVE  [Next]_vars
  BY <1>4, SenderStep
<1>5. ASSUME NEW j \in Jobs, Caller(j) PROVE Next
  BY <1>5 DEF Caller, Next, RowNext
<1>6. ASSUME NEW j \in Jobs, Clock(j) PROVE Next
  BY <1>6 DEF Clock, QuietPasses, LeasePasses, BackoffPasses, Next, RowNext
<1>7. CASE ProcessDies
  BY <1>7 DEF ProcessDies, Next
<1>8. CASE UNCHANGED balVars
  BY <1>8 DEF balVars
<1> QED  BY <1>1, <1>2, <1>3, <1>4, <1>5, <1>6, <1>7, <1>8 DEF BalNext

\* The bot process implements the outbox specification.
THEOREM BalancerImplementsOutbox == BalSpec => ImplementsOutbox
<1>1. BalInit => Init
  BY DEF BalInit
<1> QED  BY <1>1, BalStep, PTL DEF BalSpec, ImplementsOutbox, Spec

\* So, with any threads, stalls, restarts and refused writes: one worker per user
\* and action, fenced runs, and jobs that end once.
THEOREM BalancerKeepsOutbox ==
    BalSpec => []OneLeasePerUser /\ []TicketsFenced /\ ImplementsJobQueue
BY BalancerImplementsOutbox, OneWorkerPerUser, RunsAreFenced, OutboxImplementsJobQueue,
   PTL DEF ImplementsOutbox

-----------------------------------------------------------------------------
(* Types. *)

LEMMA FaultCounted ==
    ASSUME faults \in 0..MaxFaults, NEW kind, Fault(kind)
    PROVE  faults' \in 0..MaxFaults
BY BalancerAssumption DEF BalancerAssumption, Fault

\* What the balancer thread writes of itself.
LEMMA GotoTypes ==
    ASSUME BalTypeOK, NEW pc \in {"start", "wait", "reclaim", "count", "fail", "claim"},
           Goto(pc)
    PROVE  /\ bal' \in [pc : {"start", "wait", "reclaim", "count", "fail", "claim"},
                        pool : 1..Len(Pools), todo : SUBSET Slots]
           /\ bal'.pc = pc
BY DEF BalTypeOK, Goto

LEMMA FreshTypes == FreshSlot \in Slot /\ FreshSlot.run = NoRun /\ FreshSlot.at = "idle"
BY DEF FreshSlot, Slot

LEMMA BalTypeStepBalancer ==
    ASSUME BalTypeOK, TypeOK', Balancer
    PROVE  BalTypeOK'
<1> USE DEF BalTypeOK
<1>1. CASE Restore
  <2>1. /\ bal' \in [pc : {"start", "wait", "reclaim", "count", "fail", "claim"},
                     pool : 1..Len(Pools), todo : SUBSET Slots]
        /\ faults' \in 0..MaxFaults /\ tickets' = tickets
    BY <1>1, GotoTypes, FaultCounted DEF Restore, ForceReclaim, vars
  <2> QED  BY <1>1, <2>1 DEF Restore
<1>2. CASE StartFill \/ FillReclaim \/ FillCount
  <2>1. /\ bal' \in [pc : {"start", "wait", "reclaim", "count", "fail", "claim"},
                     pool : 1..Len(Pools), todo : SUBSET Slots]
        /\ tickets' = tickets
    BY <1>2, GotoTypes DEF StartFill, FillReclaim, FillCount, ReadInFlight, Reclaim
  <2> QED  BY <1>2, <2>1 DEF StartFill, FillReclaim, FillCount
<1>3. CASE FillFailExhausted
  <2>1. bal' \in [pc : {"start", "wait", "reclaim", "count", "fail", "claim"},
                  pool : 1..Len(Pools), todo : SUBSET Slots]
    BY <1>3 DEF FillFailExhausted, Pools, IdleSlots
  <2> QED  BY <1>3, <2>1 DEF FillFailExhausted, FailExhausted
<1>4. ASSUME NEW ids \in mail, DispatchStalled(ids) PROVE BalTypeOK'
  <2>1. /\ bal' \in [pc : {"start", "wait", "reclaim", "count", "fail", "claim"},
                     pool : 1..Len(Pools), todo : SUBSET Slots]
        /\ tickets' = tickets
    BY <1>4, GotoTypes DEF DispatchStalled, ReadInFlight
  <2>2. /\ slots' \in [Slots -> Slot]
        /\ \A s \in Slots : slots'[s].run \in tickets' \cup {NoRun}
    BY <1>4, <2>1, FreshTypes DEF DispatchStalled
  <2> QED  BY <1>4, <2>1, <2>2 DEF DispatchStalled
<1>5. ASSUME NEW s \in Slots, NEW j \in Jobs, FillClaim(s, j) PROVE BalTypeOK'
  <2> DEFINE new == [run |-> <<j, rows[j].attempts + 1>>, at |-> "queued",
                     thread |-> IF slots[s].thread = "dead" THEN "starting"
                                ELSE slots[s].thread]
  <2>1. /\ tickets' = tickets \cup {<<j, rows[j].attempts + 1>>}
        /\ slots' = [slots EXCEPT ![s] = new]
    BY <1>5 DEF FillClaim, Claim
  <2>2. <<j, rows[j].attempts + 1>> \in Tickets /\ new \in Slot
    BY <2>1 DEF TypeOK, Slot
  <2>3. /\ slots' \in [Slots -> Slot]
        /\ \A r \in Slots : slots'[r].run \in tickets' \cup {NoRun}
    BY <2>1, <2>2
  <2>4. bal' \in [pc : {"start", "wait", "reclaim", "count", "fail", "claim"},
                  pool : 1..Len(Pools), todo : SUBSET Slots]
    BY <1>5 DEF FillClaim
  <2> QED  BY <1>5, <2>1, <2>3, <2>4 DEF FillClaim
<1>6. CASE FillNextPool
  <2>1. Len(Pools) = 3
    BY DEF Pools
  <2>2. IdleSlots(Pools[bal.pool + 1]) \subseteq Slots
    BY DEF IdleSlots
  <2>3. bal' \in [pc : {"start", "wait", "reclaim", "count", "fail", "claim"},
                  pool : 1..Len(Pools), todo : SUBSET Slots]
    <3> DEFINE B == [pc : {"start", "wait", "reclaim", "count", "fail", "claim"},
                     pool : 1..3, todo : SUBSET Slots]
    <3>0. bal \in B
      BY <2>1
    <3>1. ASSUME NEW b \in B
          PROVE  /\ b.pool < 3 => [b EXCEPT !.pool = @ + 1] \in B
                 /\ [b EXCEPT !.pool = 1] \in B /\ [b EXCEPT !.pc = "wait"] \in B
                 /\ \A idle \in SUBSET Slots : [b EXCEPT !.todo = idle] \in B
      OBVIOUS
    <3>2. ASSUME bal.pool < 3 PROVE bal' \in B
      <4>1. bal' = [[bal EXCEPT !.pool = @ + 1]
                      EXCEPT !.todo = IdleSlots(Pools[bal.pool + 1])]
        BY <1>6, <2>1, <3>2 DEF FillNextPool
      <4> HIDE DEF B
      <4> QED  BY <2>2, <3>0, <3>1, <3>2, <4>1
    <3>3. ASSUME ~(bal.pool < 3) PROVE bal' \in B
      <4>1. bal' = [[[bal EXCEPT !.pc = "wait"] EXCEPT !.pool = 1] EXCEPT !.todo = {}]
        BY <1>6, <2>1, <3>3 DEF FillNextPool
      <4> HIDE DEF B
      <4> QED  BY <3>0, <3>1, <4>1
    <3> QED  BY <2>1, <3>2, <3>3
  <2> QED  BY <1>6, <2>3 DEF FillNextPool, vars
<1> QED  BY <1>1, <1>2, <1>3, <1>4, <1>5, <1>6 DEF Balancer

LEMMA BalTypeStepSender ==
    ASSUME BalTypeOK, TypeOK', NEW t \in tickets, Sender(t) \/ Hang(t) \/ CallReturns(t)
    PROVE  BalTypeOK'
<1> USE DEF BalTypeOK
<1>1. CASE SenderTouch(t) \/ SenderAnswer(t) \/ SenderMarkDone(t)
  BY <1>1 DEF SenderTouch, SenderAnswer, SenderMarkDone, Touch, Answer, MarkDone, ownVars
<1>2. ASSUME NEW terminal \in BOOLEAN, SenderFailOrRetry(t, terminal) PROVE BalTypeOK'
  BY <1>2, FaultCounted DEF SenderFailOrRetry, FailOrRetry
<1>3. CASE SenderReturn(t)
  <2>1. tickets' = tickets \ {t} /\ faults' \in 0..MaxFaults
    BY <1>3, FaultCounted DEF SenderReturn, Return
  <2>2. \A s \in Slots : [slots[s] EXCEPT !.run = NoRun, !.at = "idle"] \in Slot
                         /\ [slots[s] EXCEPT !.run = NoRun, !.at = "idle"].run = NoRun
    BY DEF Slot
  <2>3. /\ slots' \in [Slots -> Slot]
        /\ \A s \in Slots : slots'[s].run \in tickets' \cup {NoRun}
    BY <1>3, <2>1, <2>2 DEF SenderReturn
  <2>4. hung' \subseteq tickets'
    BY <1>3, <2>1 DEF SenderReturn, Active
  <2> QED  BY <1>3, <2>1, <2>3, <2>4 DEF SenderReturn
<1>4. CASE Hang(t) \/ CallReturns(t)
  BY <1>4, FaultCounted DEF Hang, CallReturns, Active, vars
<1> QED  BY <1>1, <1>2, <1>3, <1>4 DEF Sender

LEMMA BalTypeStep ==
    ASSUME BalTypeOK, [BalNext]_balVars
    PROVE  BalTypeOK'
<1>0. TypeOK'
  BY BalStep, TypeStep DEF BalTypeOK
<1> USE <1>0 DEF BalTypeOK
<1>1. CASE Balancer
  BY <1>1, BalTypeStepBalancer
<1>2. CASE HeartbeatRelease \/ HeartbeatRenew
  BY <1>2 DEF HeartbeatRelease, HeartbeatRenew, ReleaseStalled, Heartbeat, TicketsOf,
              QuietIds, vars
<1>3. ASSUME NEW s \in Slots, ThreadDies(s) \/ TakeJob(s) PROVE BalTypeOK'
  <2>1. /\ slots' \in [Slots -> Slot]
        /\ \A r \in Slots : slots'[r].run = slots[r].run
    BY <1>3 DEF ThreadDies, TakeJob, Slot
  <2>2. faults' \in 0..MaxFaults
    BY <1>3, FaultCounted DEF ThreadDies, TakeJob
  <2> QED  BY <1>3, <2>1, <2>2 DEF ThreadDies, TakeJob, vars
<1>4. ASSUME NEW t \in tickets, Sender(t) \/ Hang(t) \/ CallReturns(t) PROVE BalTypeOK'
  BY <1>4, BalTypeStepSender
<1>5. ASSUME NEW j \in Jobs, Caller(j) PROVE BalTypeOK'
  BY <1>5 DEF Caller, Enqueue, DropLastRecipient, PurgeOld, ownVars
<1>6. ASSUME NEW j \in Jobs, Clock(j) PROVE BalTypeOK'
  BY <1>6, FaultCounted DEF Clock, QuietPasses, LeasePasses, BackoffPasses, GoesQuiet,
                            LeaseExpires, BackoffEnds, ownVars
<1>7. CASE ProcessDies
  <2>1. FreshBal \in [pc : {"start", "wait", "reclaim", "count", "fail", "claim"},
                      pool : 1..Len(Pools), todo : SUBSET Slots]
    BY DEF FreshBal, Pools
  <2> QED  BY <1>7, <2>1, FaultCounted, FreshTypes DEF ProcessDies, Crash
<1>8. CASE UNCHANGED balVars
  BY <1>8 DEF balVars, vars, ownVars
<1> QED  BY <1>1, <1>2, <1>3, <1>4, <1>5, <1>6, <1>7, <1>8 DEF BalNext

\* Every run a slot, a hung call or the history names is a run that is out.
THEOREM BalTypes == BalSpec => []BalTypeOK
<1>1. BalInit => BalTypeOK
  <2> SUFFICES ASSUME BalInit PROVE BalTypeOK
    OBVIOUS
  <2>1. TypeOK
    BY OutboxAssumption
       DEF OutboxAssumption, BalInit, Init, TypeOK, NoRow, Row, Statuses
  <2>2. FreshBal \in [pc : {"start", "wait", "reclaim", "count", "fail", "claim"},
                      pool : 1..Len(Pools), todo : SUBSET Slots]
    BY DEF FreshBal, Pools
  <2> QED
    BY <2>1, <2>2, FreshTypes, BalancerAssumption
       DEF BalancerAssumption, BalInit, BalTypeOK
<1> QED  BY <1>1, BalTypeStep, PTL DEF BalSpec

-----------------------------------------------------------------------------
(* The slots. *)

\* A claim's run is new to every slot: its number is ahead of every run of the
\* row that is still out.
LEMMA ClaimedRunIsNew ==
    ASSUME TypeOK, TicketsFenced, NEW a, NEW j \in Jobs, Claim(a, j)
    PROVE  /\ <<j, rows[j].attempts + 1>> \in Tickets \ tickets
           /\ rows[j].status = "pending" /\ rows[j].attempts \in Nat
           /\ tickets' = tickets \cup {<<j, rows[j].attempts + 1>>}
<1>1. rows[j].status = "pending" /\ rows[j].attempts \in 0..MaxAttempts
      /\ rows[j].attempts < MaxAttempts
  BY DEF TypeOK, Row, Claim, NextJob, Claimable
<1>2. <<j, rows[j].attempts + 1>> \in Tickets
  BY <1>1, OutboxAssumption DEF OutboxAssumption, Tickets
<1>3. <<j, rows[j].attempts + 1>> \notin tickets
  BY <1>1 DEF TicketsFenced
<1> QED  BY <1>1, <1>2, <1>3, OutboxAssumption DEF OutboxAssumption, Claim

\* A step that leaves every slot's run alone, makes no idle slot busy and gives
\* the balancer no slot that is busy.
LEMMA SlotsAlike ==
    ASSUME RunsHaveSlots,
           \A s \in Slots : slots'[s].run = slots[s].run
                            /\ (slots'[s].at = "idle" <=> slots[s].at = "idle"),
           bal'.todo \subseteq Slots,
           \A s \in bal'.todo : SlotIdle(s)
    PROVE  RunsHaveSlots'
BY DEF RunsHaveSlots, SlotIdle

LEMMA SlotStep ==
    ASSUME BalTypeOK, TicketsFenced, RunsHaveSlots, [BalNext]_balVars
    PROVE  RunsHaveSlots'
<1>0. /\ slots \in [Slots -> Slot] /\ bal.todo \subseteq Slots
      /\ \A s \in Slots : slots[s].run \in tickets \cup {NoRun}
      /\ tickets \subseteq Tickets /\ NoRun \notin Tickets
  BY BalancerAssumption DEF BalancerAssumption, BalTypeOK, TypeOK
<1>same. ASSUME slots' = slots, bal'.todo = bal.todo PROVE RunsHaveSlots'
  BY <1>0, <1>same, SlotsAlike DEF RunsHaveSlots
<1>1. CASE Restore \/ StartFill \/ FillReclaim \/ FillCount
  <2>1. PICK pc : Goto(pc)
    BY <1>1 DEF Restore, StartFill, FillReclaim, FillCount
  <2>2. slots' = slots /\ bal'.todo = bal.todo
    BY <1>1, <2>1 DEF Restore, StartFill, FillReclaim, FillCount, Goto, BalTypeOK
  <2> QED  BY <1>same, <2>2
<1>2. CASE FillFailExhausted
  <2>1. slots' = slots /\ bal'.todo = IdleSlots(Pools[1])
    BY <1>2 DEF FillFailExhausted
  <2> QED  BY <1>0, <2>1, SlotsAlike DEF IdleSlots
<1>3. CASE FillNextPool
  <2>1. /\ slots' = slots
        /\ bal'.todo \in {{}, IdleSlots(Pools[bal.pool + 1])}
    BY <1>3 DEF FillNextPool, BalTypeOK
  <2> QED  BY <1>0, <2>1, SlotsAlike DEF IdleSlots
<1>4. ASSUME NEW ids \in mail, DispatchStalled(ids) PROVE RunsHaveSlots'
  <2>1. /\ bal'.todo = bal.todo
        /\ \A s \in Slots : slots'[s] = slots[s] \/ slots'[s] = FreshSlot
    BY <1>4 DEF DispatchStalled, Goto, BalTypeOK
  <2>2. \A s \in Slots : SlotIdle(s) => slots'[s] = slots[s]
    BY <1>4 DEF DispatchStalled, SlotIdle
  <2> QED  BY <1>0, <2>1, <2>2, FreshTypes DEF RunsHaveSlots, SlotIdle
<1>5. ASSUME NEW s \in Slots, NEW j \in Jobs, FillClaim(s, j) PROVE RunsHaveSlots'
  <2>1. PICK u \in Tickets \ tickets :
           /\ slots'[s].run = u /\ slots'[s].at = "queued"
           /\ \A r \in Slots \ {s} : slots'[r] = slots[r]
    BY <1>0, <1>5, ClaimedRunIsNew DEF FillClaim, BalTypeOK
  <2>2. bal'.todo = bal.todo \ {s}
    BY <1>5 DEF FillClaim, BalTypeOK
  <2> QED  BY <1>0, <2>1, <2>2 DEF RunsHaveSlots, SlotIdle
<1>6. CASE HeartbeatRelease \/ HeartbeatRenew
  BY <1>6, <1>same DEF HeartbeatRelease, HeartbeatRenew
<1>7. ASSUME NEW s \in Slots, ThreadDies(s) \/ TakeJob(s) PROVE RunsHaveSlots'
  <2>1. /\ bal' = bal
        /\ \A r \in Slots : slots'[r].run = slots[r].run
                            /\ (slots'[r].at = "idle" <=> slots[r].at = "idle")
    BY <1>0, <1>7 DEF ThreadDies, TakeJob, Slot
  <2> QED  BY <1>0, <2>1, SlotsAlike DEF RunsHaveSlots
<1>8. ASSUME NEW t \in tickets, Sender(t) \/ Hang(t) \/ CallReturns(t)
      PROVE  RunsHaveSlots'
  <2>1. CASE SenderReturn(t)
    <3>1. bal' = bal
      BY <2>1 DEF SenderReturn
    <3>2. \A s \in Slots :
             IF slots[s].run = t THEN slots'[s].run = NoRun /\ slots'[s].at = "idle"
                                 ELSE slots'[s] = slots[s]
      BY <1>0, <2>1 DEF SenderReturn, Slot
    <3> QED  BY <1>0, <3>1, <3>2 DEF RunsHaveSlots, SlotIdle
  <2>2. CASE ~SenderReturn(t)
    BY <1>8, <1>same, <2>2 DEF Sender, SenderTouch, SenderAnswer, SenderMarkDone,
       SenderFailOrRetry, Hang, CallReturns, ownVars
  <2> QED  BY <2>1, <2>2
<1>9. ASSUME NEW j \in Jobs, Caller(j) \/ Clock(j) PROVE RunsHaveSlots'
  BY <1>9, <1>same DEF Caller, Clock, QuietPasses, LeasePasses, BackoffPasses, ownVars
<1>10. CASE ProcessDies
  <2>1. bal'.todo = {} /\ \A s \in Slots : slots'[s] = FreshSlot
    BY <1>10 DEF ProcessDies, FreshBal
  <2> QED  BY <2>1, FreshTypes DEF RunsHaveSlots, SlotIdle
<1>11. CASE UNCHANGED balVars
  BY <1>11, <1>same DEF balVars, ownVars
<1> QED
  BY <1>1, <1>2, <1>3, <1>4, <1>5, <1>6, <1>7, <1>8, <1>9, <1>10, <1>11
     DEF BalNext, Balancer

\* A job is never put on top of another one's, and no run is in two slots.
THEOREM SlotsHoldOneRun == BalSpec => []RunsHaveSlots
<1>1. BalInit => RunsHaveSlots
  BY FreshTypes DEF BalInit, RunsHaveSlots, SlotIdle, FreshBal
<1> QED  BY <1>1, SlotStep, BalTypes, BalancerKeepsOutbox, PTL DEF BalSpec

-----------------------------------------------------------------------------
(***************************************************************************)
(* Two threads on one row.  A run whose row is free to be claimed again,   *)
(* or was claimed again, had let the row go before; and a run whose id is  *)
(* not in flight, so that reclaim() may take its row, is one that          *)
(* release_stalled() let go.  Between ReadInFlight and Reclaim the ids     *)
(* that count as in flight are those that were read.                       *)
(***************************************************************************)
Outlived(t) == t \in letGo \cup gaveBack

NotInFlight(j) == inFlight[j] = "no" \/ (bal.pc = "reclaim" /\ j \notin seen)

OldRuns ==
    \A t \in tickets :
        \/ rows[t[1]].status = "pending"
        \/ rows[t[1]].status = "leased" /\ t[2] < rows[t[1]].attempts
        => Outlived(t)

LostRuns == \A t \in tickets : Holds(t) /\ NotInFlight(t[1]) => t \in letGo

\* purge_old() deletes the row and its attempts with it; a row that was not
\* inserted yet has none.
UnusedRows == \A j \in Jobs : rows[j].status = "absent" => rows[j].attempts = 0

RunInv == OldRuns /\ LostRuns /\ UnusedRows /\ DoubleRunOnlyAfterStall

\* A run in the history stays in it for as long as the run is out.
LEMMA HistoryKept ==
    ASSUME BalTypeOK, [BalNext]_balVars, NEW t \in tickets, t \in tickets'
    PROVE  /\ t \in letGo => t \in letGo'
           /\ Outlived(t) => Outlived(t)'
<1> USE DEF Outlived
<1>1. CASE Balancer
  BY <1>1 DEF Balancer, Restore, StartFill, FillReclaim, FillCount, FillFailExhausted,
     DispatchStalled, FillClaim, FillNextPool
<1>2. CASE HeartbeatRelease \/ HeartbeatRenew
  BY <1>2 DEF HeartbeatRelease, HeartbeatRenew
<1>3. ASSUME NEW s \in Slots, ThreadDies(s) \/ TakeJob(s)
      PROVE  letGo' = letGo /\ gaveBack' = gaveBack
  BY <1>3 DEF ThreadDies, TakeJob
<1>4. ASSUME NEW u \in tickets, Sender(u) \/ Hang(u) \/ CallReturns(u)
      PROVE  /\ t \in letGo => t \in letGo'
             /\ Outlived(t) => Outlived(t)'
  <2>1. CASE SenderReturn(u)
    <3>1. t # u
      BY <2>1 DEF SenderReturn, Return
    <3> QED  BY <2>1, <3>1 DEF SenderReturn
  <2>2. CASE ~SenderReturn(u)
    BY <1>4, <2>2 DEF Sender, SenderTouch, SenderAnswer, SenderMarkDone,
       SenderFailOrRetry, Hang, CallReturns, ownVars
  <2> QED  BY <2>1, <2>2
<1>5. ASSUME NEW j \in Jobs, Caller(j) \/ Clock(j)
      PROVE  letGo' = letGo /\ gaveBack' = gaveBack
  BY <1>5 DEF Caller, Clock, QuietPasses, LeasePasses, BackoffPasses, ownVars
<1>6. CASE ProcessDies
  BY <1>6 DEF ProcessDies, Crash
<1>7. CASE UNCHANGED balVars
  BY <1>7 DEF balVars, ownVars
<1> QED  BY <1>1, <1>2, <1>3, <1>4, <1>5, <1>6, <1>7 DEF BalNext

\* A run that is new was just claimed by the balancer thread, which is past its
\* reclaim.
LEMMA NewRun ==
    ASSUME BalTypeOK, TicketsFenced, [BalNext]_balVars, NEW t \in tickets', t \notin tickets
    PROVE  /\ t \in Tickets /\ rows[t[1]].status = "pending"
           /\ \A u \in tickets : u[1] = t[1] => u[2] < t[2]
           /\ tickets' = tickets \cup {t}
           /\ Holds(t)' /\ inFlight'[t[1]] = "fresh" /\ bal'.pc = "claim"
<1> USE DEF BalTypeOK, TypeOK
<1>1. PICK s \in Slots, j \in Jobs : FillClaim(s, j)
  <2>1. ASSUME NEW j \in Jobs, Caller(j) \/ Clock(j) PROVE tickets' = tickets
    BY <2>1 DEF Caller, Enqueue, DropLastRecipient, PurgeOld, Clock, QuietPasses,
       LeasePasses, BackoffPasses, GoesQuiet, LeaseExpires, BackoffEnds
  <2>2. ASSUME NEW u \in tickets, Sender(u) \/ Hang(u) \/ CallReturns(u)
        PROVE  tickets' \subseteq tickets
    BY <2>2 DEF Sender, SenderTouch, SenderAnswer, SenderMarkDone, SenderFailOrRetry,
       SenderReturn, Hang, CallReturns, Touch, Answer, MarkDone, FailOrRetry, Return, vars
  <2>3. ASSUME HeartbeatRelease \/ HeartbeatRenew PROVE tickets' = tickets
    BY <2>3 DEF HeartbeatRelease, HeartbeatRenew, ReleaseStalled, Heartbeat, vars
  <2>4. ASSUME Balancer, ~\E s \in Slots, j \in Jobs : FillClaim(s, j)
        PROVE  tickets' = tickets
    BY <2>4 DEF Balancer, Restore, StartFill, FillReclaim, FillCount, FillFailExhausted,
       DispatchStalled, FillNextPool, ForceReclaim, ReadInFlight, Reclaim, FailExhausted,
       vars
  <2>5. ASSUME NEW s \in Slots, ThreadDies(s) \/ TakeJob(s) PROVE tickets' = tickets
    BY <2>5 DEF ThreadDies, TakeJob, vars
  <2> QED
    BY <2>1, <2>2, <2>3, <2>4, <2>5 DEF BalNext, ProcessDies, Crash, balVars, vars
<1>2. /\ t = <<j, rows[j].attempts + 1>> /\ t \in Tickets
      /\ rows[j].status = "pending" /\ rows[j].attempts \in Nat
      /\ tickets' = tickets \cup {t}
  BY <1>1, ClaimedRunIsNew DEF FillClaim
<1>3. \A u \in tickets : u[1] = j => u[2] <= rows[j].attempts /\ u[2] \in Nat
  BY <1>2, TicketOfRow DEF TicketsFenced
<1>4. /\ rows'[j].status = "leased" /\ rows'[j].attempts = rows[j].attempts + 1
      /\ inFlight'[j] = "fresh" /\ bal'.pc = "claim"
  BY <1>1 DEF FillClaim, Claim, Leased, Row
<1> QED  BY <1>2, <1>3, <1>4 DEF Holds

\* A lease turns pending by its own run's failure, by a reclaim of what is not
\* in flight, or on process start.
LEMMA LeaseLost ==
    ASSUME BalTypeOK, [BalNext]_balVars, LostRuns,
           NEW t \in tickets, Holds(t), t \in tickets', rows'[t[1]].status = "pending"
    PROVE  Outlived(t)'
<1> USE DEF BalTypeOK, TypeOK, Outlived
<1>0. /\ t[1] \in Jobs /\ t = <<t[1], t[2]>>
      /\ rows[t[1]].status = "leased" /\ rows[t[1]].attempts = t[2]
      /\ rows[t[1]] \in Row
  BY TicketOfRow DEF Holds
<1>same. ASSUME rows' = rows PROVE FALSE
  BY <1>0, <1>same
<1>1. CASE Balancer
  <2>1. CASE FillReclaim
    <3>1. bal.pc = "reclaim" /\ (t[1] \notin seen \/ rows'[t[1]] = rows[t[1]])
      BY <1>0, <2>1 DEF FillReclaim, Reclaim
    <3>2. t \in letGo
      BY <1>0, <3>1 DEF LostRuns, NotInFlight
    <3> QED  BY <3>2, <1>1, HistoryKept DEF BalNext
  <2>2. CASE Restore
    BY <1>0, <1>same, <2>2 DEF Restore, ForceReclaim, vars
  <2>3. CASE FillFailExhausted
    BY <1>0, <2>3 DEF FillFailExhausted, FailExhausted, Closed, Row
  <2>4. ASSUME NEW s \in Slots, NEW j \in Jobs, FillClaim(s, j) PROVE FALSE
    <3>1. rows' = [rows EXCEPT ![j] = Leased(@)]
      BY <2>4 DEF FillClaim, Claim
    <3>2. Leased(rows[j]).status = "leased"
      BY DEF Leased, Row
    <3> QED  BY <1>0, <3>1, <3>2
  <2> QED
    BY <1>1, <1>same, <2>1, <2>2, <2>3, <2>4
       DEF Balancer, StartFill, FillCount, DispatchStalled, FillNextPool, ReadInFlight,
           queue, vars
<1>2. CASE HeartbeatRelease \/ HeartbeatRenew
  <2>1. CASE HeartbeatRelease
    BY <1>same, <2>1 DEF HeartbeatRelease, ReleaseStalled, vars
  <2>2. CASE HeartbeatRenew
    <3>1. rows'[t[1]] \in {rows[t[1]], [rows[t[1]] EXCEPT !.lease = "live"]}
      BY <1>0, <2>2 DEF HeartbeatRenew, Heartbeat
    <3> QED  BY <1>0, <3>1 DEF Row
  <2> QED  BY <1>2, <2>1, <2>2
<1>3. ASSUME NEW s \in Slots, ThreadDies(s) \/ TakeJob(s) PROVE FALSE
  BY <1>3, <1>same DEF ThreadDies, TakeJob, vars
<1>4. ASSUME NEW u \in tickets, Sender(u) \/ Hang(u) \/ CallReturns(u)
      PROVE  Outlived(t)'
  <2>1. ASSUME NEW terminal \in BOOLEAN, SenderFailOrRetry(u, terminal)
        PROVE  Outlived(t)'
    <3>1. Holds(u) /\ u[1] = t[1]
      BY <1>0, <2>1 DEF SenderFailOrRetry, FailOrRetry
    <3>2. u = t
      BY <1>0, <3>1, TicketOfRow DEF Holds
    <3> QED  BY <2>1, <3>2 DEF SenderFailOrRetry
  <2>2. CASE SenderTouch(u)
    <3>1. rows'[t[1]] \in {rows[t[1]], [rows[t[1]] EXCEPT !.lease = "live"]}
      BY <1>0, <2>2 DEF SenderTouch, Touch
    <3> QED  BY <1>0, <3>1 DEF Row
  <2>3. CASE SenderMarkDone(u)
    <3>1. rows'[t[1]] \in {rows[t[1]], Closed(rows[t[1]], "done")}
      BY <1>0, <2>3 DEF SenderMarkDone, MarkDone
    <3> QED  BY <1>0, <3>1 DEF Row, Closed
  <2>4. CASE SenderAnswer(u) \/ SenderReturn(u) \/ Hang(u) \/ CallReturns(u)
    BY <1>same, <2>4
       DEF SenderAnswer, SenderReturn, Hang, CallReturns, Answer, Return, queue, vars
  <2> QED  BY <1>4, <2>1, <2>2, <2>3, <2>4 DEF Sender
<1>5. ASSUME NEW j \in Jobs, Caller(j) PROVE FALSE
  <2>1. \/ rows'[t[1]] = rows[t[1]] \/ rows'[t[1]] = Closed(rows[t[1]], "done")
        \/ rows'[t[1]] = [NoRow EXCEPT !.status = "purged"]
    BY <1>0, <1>5 DEF Caller, Enqueue, DropLastRecipient, PurgeOld
  <2> QED  BY <1>0, <2>1 DEF Closed, Row, NoRow
<1>6. ASSUME NEW j \in Jobs, Clock(j) PROVE FALSE
  <2>1. rows'[t[1]] \in {rows[t[1]], [rows[t[1]] EXCEPT !.lease = "expired"]}
    BY <1>0, <1>6 DEF Clock, QuietPasses, LeasePasses, BackoffPasses, GoesQuiet,
                      LeaseExpires, BackoffEnds
  <2> QED  BY <1>0, <2>1 DEF Row
<1>7. CASE ProcessDies \/ UNCHANGED balVars
  BY <1>7, <1>same DEF ProcessDies, Crash, balVars, vars
<1> QED  BY <1>1, <1>2, <1>3, <1>4, <1>5, <1>6, <1>7 DEF BalNext

LEMMA UnusedStep ==
    ASSUME BalTypeOK, UnusedRows, [BalNext]_balVars
    PROVE  UnusedRows'
BY BalStep, AbsentBefore DEF BalTypeOK, UnusedRows

LEMMA OldRunsStep ==
    ASSUME BalTypeOK, TicketsFenced, OldRuns, LostRuns, UnusedRows, [BalNext]_balVars
    PROVE  OldRuns'
<1> SUFFICES ASSUME NEW t \in tickets',
                    \/ rows'[t[1]].status = "pending"
                    \/ rows'[t[1]].status = "leased" /\ t[2] < rows'[t[1]].attempts
             PROVE  Outlived(t)'
  BY DEF OldRuns
<1>0. [Next]_vars /\ TypeOK
  BY BalStep DEF BalTypeOK
<1>1. t \in tickets
  <2>1. t \in Tickets \/ t \in tickets
    BY NewRun
  <2> QED  BY <1>0, <2>1, NewRun DEF Holds, Tickets
<1>2. t[1] \in Jobs /\ t[2] \in 1..MaxAttempts /\ t \in Tickets
  BY <1>0, <1>1, TicketOfRow
<1>3. RowMove(t[1]) /\ rows[t[1]] \in Row
  BY <1>0, <1>2, RowMoves DEF TypeOK
<1>4. \/ rows[t[1]].status = "pending"
      \/ rows[t[1]].status = "leased" /\ t[2] <= rows[t[1]].attempts
  <2>1. rows[t[1]].status # "absent"
    <3>1. SUFFICES ASSUME rows[t[1]].status = "absent" PROVE FALSE
      OBVIOUS
    <3>2. rows[t[1]].attempts = 0
      BY <1>2, <3>1 DEF UnusedRows
    <3>3. t[2] <= 0
      BY <1>1, <3>1, <3>2 DEF TicketsFenced
    <3> QED  BY <1>2, <3>3
  <2>2. rows[t[1]].status \in {"pending", "leased"}
    BY <1>3, <2>1
       DEF RowMove, Kept, Entered, Taken, GivenBack, Finished, Failed, Deleted, Settled,
           Row, Statuses
  <2> QED  BY <1>1, <2>2 DEF TicketsFenced
<1>5. CASE rows[t[1]].status = "pending"
           \/ (rows[t[1]].status = "leased" /\ t[2] < rows[t[1]].attempts)
  BY <1>1, <1>5, HistoryKept DEF OldRuns
<1>6. CASE rows[t[1]].status = "leased" /\ rows[t[1]].attempts = t[2]
  <2>1. rows'[t[1]].status = "pending"
    <3>1. ~(t[2] < t[2])
      BY <1>2
    <3> QED
      BY <1>3, <1>6, <3>1
         DEF RowMove, Kept, Entered, Taken, GivenBack, Finished, Failed, Deleted, Settled
  <2> QED  BY <1>1, <1>6, <2>1, LeaseLost DEF Holds
<1>7. rows[t[1]].attempts \in Nat
  BY <1>3, OutboxAssumption DEF OutboxAssumption, Row
<1> QED  BY <1>2, <1>4, <1>5, <1>6, <1>7

\* An id leaves the in-flight set with its row settled or given back, or because
\* release_stalled() let its runs go.
LEMMA InFlightLost ==
    ASSUME BalTypeOK, [BalNext]_balVars,
           NEW t \in tickets, t \in tickets', Holds(t), Holds(t)',
           ~NotInFlight(t[1]), NotInFlight(t[1])'
    PROVE  t \in letGo'
<1> USE DEF BalTypeOK, TypeOK
<1>0. /\ t[1] \in Jobs /\ t = <<t[1], t[2]>>
      /\ rows[t[1]].status = "leased" /\ rows[t[1]].attempts = t[2]
      /\ rows'[t[1]].status = "leased" /\ rows'[t[1]].attempts = t[2]
      /\ rows[t[1]] \in Row /\ inFlight[t[1]] # "no"
  BY TicketOfRow DEF Holds, NotInFlight
<1>same. ASSUME inFlight' = inFlight, seen' = seen, bal' = bal PROVE FALSE
  BY <1>same DEF NotInFlight
<1>1. CASE Balancer
  <2>1. CASE StartFill \/ FillCount \/ \E ids \in mail : DispatchStalled(ids)
    <3>1. inFlight' = inFlight /\ seen' = InFlightIds
      BY <2>1 DEF StartFill, FillCount, DispatchStalled, ReadInFlight, queue
    <3> QED  BY <1>0, <3>1 DEF NotInFlight, InFlightIds
  <2>2. CASE Restore \/ FillReclaim \/ FillFailExhausted \/ FillNextPool
    <3>1. inFlight' = inFlight
      BY <2>2 DEF Restore, FillReclaim, FillFailExhausted, FillNextPool, ForceReclaim,
                  Reclaim, FailExhausted, vars
    <3>2. bal'.pc # "reclaim"
      <4>1. CASE Restore \/ FillReclaim
        BY <4>1, GotoTypes DEF Restore, FillReclaim
      <4>2. CASE FillFailExhausted
        BY <4>2 DEF FillFailExhausted
      <4>3. CASE FillNextPool
        BY <4>3 DEF FillNextPool
      <4> QED  BY <2>2, <4>1, <4>2, <4>3
    <3> QED  BY <1>0, <3>1, <3>2 DEF NotInFlight
  <2>3. ASSUME NEW s \in Slots, NEW j \in Jobs, FillClaim(s, j) PROVE FALSE
    <3>1. inFlight' = [inFlight EXCEPT ![j] = "fresh"] /\ bal'.pc = "claim"
      BY <2>3 DEF FillClaim, Claim
    <3> QED  BY <1>0, <3>1 DEF NotInFlight
  <2> QED  BY <1>1, <2>1, <2>2, <2>3 DEF Balancer
<1>2. CASE HeartbeatRelease \/ HeartbeatRenew
  <2>1. CASE t[1] \in QuietIds
    <3>1. letGo' = letGo \cup TicketsOf(QuietIds)
      BY <1>2, <2>1 DEF HeartbeatRelease, HeartbeatRenew
    <3> QED  BY <2>1, <3>1 DEF TicketsOf
  <2>2. CASE t[1] \notin QuietIds
    <3>1. inFlight'[t[1]] = inFlight[t[1]] /\ seen' = seen /\ bal' = bal
      BY <1>0, <1>2, <2>2
         DEF HeartbeatRelease, HeartbeatRenew, ReleaseStalled, Heartbeat, vars
    <3> QED  BY <3>1 DEF NotInFlight
  <2> QED  BY <2>1, <2>2
<1>3. ASSUME NEW s \in Slots, ThreadDies(s) \/ TakeJob(s) PROVE FALSE
  BY <1>3, <1>same DEF ThreadDies, TakeJob, vars
<1>4. ASSUME NEW u \in tickets, Sender(u) \/ Hang(u) \/ CallReturns(u) PROVE FALSE
  <2>1. seen' = seen /\ bal' = bal
    BY <1>4 DEF Sender, SenderTouch, SenderAnswer, SenderMarkDone, SenderFailOrRetry,
       SenderReturn, Hang, CallReturns, Touch, Answer, MarkDone, FailOrRetry, Return, vars,
       ownVars
  <2>2. CASE u[1] = t[1] /\ Holds(u)
    <3>1. u = t
      BY <1>0, <2>2, TicketOfRow DEF Holds
    <3>2. ASSUME NEW terminal \in BOOLEAN, SenderFailOrRetry(u, terminal) PROVE FALSE
      <4>1. rows'[t[1]] \in {Closed(rows[t[1]], "failed"),
                             [Released(rows[t[1]]) EXCEPT !.ready = FALSE]}
        BY <1>0, <3>1, <3>2 DEF SenderFailOrRetry, FailOrRetry
      <4> QED  BY <1>0, <4>1 DEF Closed, Released, Row
    <3>3. CASE SenderMarkDone(u)
      <4>1. rows'[t[1]] = Closed(rows[t[1]], "done")
        BY <1>0, <3>1, <3>3 DEF SenderMarkDone, MarkDone
      <4> QED  BY <1>0, <4>1 DEF Closed, Row
    <3>4. CASE SenderTouch(u)
      <4>1. inFlight'[t[1]] = "fresh"
        BY <1>0, <3>1, <3>4 DEF SenderTouch, Touch
      <4> QED  BY <2>1, <4>1 DEF NotInFlight
    <3>5. CASE SenderAnswer(u) \/ SenderReturn(u) \/ Hang(u) \/ CallReturns(u)
      <4>1. inFlight' = inFlight
        BY <3>5 DEF SenderAnswer, SenderReturn, Hang, CallReturns, Answer, Return, queue,
                    vars
      <4> QED  BY <1>same, <2>1, <4>1
    <3> QED  BY <1>4, <3>2, <3>3, <3>4, <3>5 DEF Sender
  <2>3. CASE ~(u[1] = t[1] /\ Holds(u))
    <3>0. u[1] \in Jobs
      BY TicketOfRow
    <3>1. inFlight'[t[1]] = inFlight[t[1]]
      <4>1. CASE \E terminal \in BOOLEAN : SenderFailOrRetry(u, terminal)
        BY <1>0, <2>3, <3>0, <4>1 DEF SenderFailOrRetry, FailOrRetry
      <4>2. CASE SenderMarkDone(u)
        BY <1>0, <2>3, <3>0, <4>2 DEF SenderMarkDone, MarkDone
      <4>3. CASE SenderTouch(u)
        BY <1>0, <2>3, <3>0, <4>3 DEF SenderTouch, Touch, queue, vars
      <4>4. CASE SenderAnswer(u) \/ SenderReturn(u) \/ Hang(u) \/ CallReturns(u)
        BY <4>4 DEF SenderAnswer, SenderReturn, Hang, CallReturns, Answer, Return, queue, vars
      <4> QED  BY <1>4, <4>1, <4>2, <4>3, <4>4 DEF Sender
    <3> QED  BY <2>1, <3>1 DEF NotInFlight
  <2> QED  BY <2>2, <2>3
<1>5. ASSUME NEW j \in Jobs, Caller(j) PROVE FALSE
  <2>1. CASE DropLastRecipient(j) /\ j = t[1]
    <3>1. rows'[t[1]] = Closed(rows[t[1]], "done")
      BY <1>0, <2>1 DEF DropLastRecipient
    <3> QED  BY <1>0, <3>1 DEF Closed, Row
  <2>2. CASE ~(DropLastRecipient(j) /\ j = t[1])
    <3>1. inFlight'[t[1]] = inFlight[t[1]] /\ seen' = seen /\ bal' = bal
      BY <1>0, <1>5, <2>2 DEF Caller, Enqueue, DropLastRecipient, PurgeOld, ownVars
    <3> QED  BY <3>1 DEF NotInFlight
  <2> QED  BY <2>1, <2>2
<1>6. ASSUME NEW j \in Jobs, Clock(j) PROVE FALSE
  <2>1. /\ inFlight'[t[1]] \in {inFlight[t[1]], "quiet"}
        /\ seen' = seen /\ bal' = bal
    BY <1>0, <1>6 DEF Clock, QuietPasses, LeasePasses, BackoffPasses, GoesQuiet,
                      LeaseExpires, BackoffEnds, ownVars
  <2> QED  BY <1>0, <2>1 DEF NotInFlight
<1>7. CASE ProcessDies
  BY <1>7 DEF ProcessDies, Crash
<1>8. CASE UNCHANGED balVars
  BY <1>8, <1>same DEF balVars, vars, ownVars
<1> QED  BY <1>1, <1>2, <1>3, <1>4, <1>5, <1>6, <1>7, <1>8 DEF BalNext

LEMMA LostRunsStep ==
    ASSUME BalTypeOK, TicketsFenced, LostRuns, [BalNext]_balVars
    PROVE  LostRuns'
<1> SUFFICES ASSUME NEW t \in tickets', Holds(t)', NotInFlight(t[1])'
             PROVE  t \in letGo'
  BY DEF LostRuns
<1>1. t \in tickets
  BY NewRun DEF NotInFlight
<1>2. Holds(t)
  BY <1>1, BalStep, StillHeld DEF BalTypeOK
<1>3. CASE NotInFlight(t[1])
  BY <1>1, <1>2, <1>3, HistoryKept DEF LostRuns
<1>4. CASE ~NotInFlight(t[1])
  BY <1>1, <1>2, <1>4, InFlightLost
<1> QED  BY <1>3, <1>4

LEMMA DoubleRunStep ==
    ASSUME BalTypeOK, TicketsFenced, OldRuns, DoubleRunOnlyAfterStall, [BalNext]_balVars
    PROVE  DoubleRunOnlyAfterStall'
<1> SUFFICES ASSUME NEW t \in tickets', NEW u \in tickets', t[1] = u[1], t[2] < u[2]
             PROVE  Outlived(t)'
  BY DEF DoubleRunOnlyAfterStall, Outlived
<1>1. TypeOK
  BY DEF BalTypeOK
<1>2. CASE t \in tickets /\ u \in tickets
  BY <1>2, HistoryKept DEF DoubleRunOnlyAfterStall, Outlived
<1>3. CASE t \in tickets /\ u \notin tickets
  <2>1. rows[t[1]].status = "pending"
    BY <1>3, NewRun
  <2> QED  BY <1>3, <2>1, HistoryKept DEF OldRuns
<1>4. CASE t \notin tickets
  <2>1. t \in Tickets /\ \A v \in tickets : v[1] = t[1] => v[2] < t[2]
    BY <1>4, NewRun
  <2>2. u \in tickets
    <3>1. tickets' = tickets \cup {t} /\ t[2] \in Nat
      BY <1>4, <2>1, NewRun DEF Tickets
    <3> QED  BY <3>1
  <2> QED  BY <1>1, <2>1, <2>2, TicketOfRow DEF Tickets
<1> QED  BY <1>2, <1>3, <1>4

\* Two threads on one row only after release_stalled() let the first run go or
\* that run gave the row back: whatever the slots, the faults and the order in
\* which the balancer and the heartbeat read and write.
THEOREM DoubleRunsComeFromStalls == BalSpec => []DoubleRunOnlyAfterStall
<1>1. BalInit => RunInv
  BY DEF BalInit, Init, NoRow, RunInv, OldRuns, LostRuns, UnusedRows,
         DoubleRunOnlyAfterStall
<1>2. RunInv /\ BalTypeOK /\ TicketsFenced /\ [BalNext]_balVars => RunInv'
  BY OldRunsStep, LostRunsStep, UnusedStep, DoubleRunStep DEF RunInv
<1>3. RunInv => DoubleRunOnlyAfterStall
  BY DEF RunInv
<1> QED  BY <1>1, <1>2, <1>3, BalTypes, BalancerKeepsOutbox, PTL DEF BalSpec
=============================================================================
