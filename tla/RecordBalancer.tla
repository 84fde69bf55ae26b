--------------------------- MODULE RecordBalancer ---------------------------
(***************************************************************************)
(* The bot process around the send_outbox table                            *)
(* (app/core/balancers/recordSender.py): the balancer thread that fills    *)
(* idle slots, the sender threads that work on what they were given, the   *)
(* heartbeat thread that releases stalled jobs and renews the other        *)
(* leases, and the death and restart of the whole process.                 *)
(*                                                                         *)
(* Every step is a step of Outbox (ImplementsOutbox), where the table's    *)
(* own operations are defined.                                             *)
(***************************************************************************)
EXTENDS Outbox, Sequences

CONSTANTS
    Slots,        \* the sender slots of all pools (threads_config)
    SlotPool,     \* which action each slot serves
    NoRun,        \* an empty slot's run
    Faults,       \* which of "hang", "crash", "death", "sqlite" may happen
    MaxFaults     \* bound: how many of them, in all

ASSUME BalancerAssumption ==
    /\ SlotPool \in [Slots -> Actions]
    /\ NoRun \notin Tickets
    /\ Faults \subseteq {"hang", "crash", "death", "sqlite"} /\ MaxFaults \in Nat

VARIABLES
    slots,        \* queues[action][i] and threads[action][i]
    bal,          \* where the balancer thread is
    beat,         \* where the heartbeat thread is
    mail,         \* the 'stalled' messages on main_queue, as sets of ids
    hung,         \* tickets whose thread is inside a call that has not returned
    letGo,        \* history: tickets release_stalled() has let go
    gaveBack,     \* history: tickets whose own fail_or_retry() has run
    faults        \* how many of them have happened

threadVars == <<slots, hung>>
ownVars == <<slots, bal, beat, mail, hung, letGo, gaveBack, faults>>
balVars == <<vars, ownVars>>

\* RecordBalancer.actions, in order.
Pools == <<"rec", "circle", "update">>

Slot == [run : Tickets \cup {NoRun}, at : {"idle", "queued", "working"},
         thread : {"starting", "up", "dead"}]
FreshSlot == [run |-> NoRun, at |-> "idle", thread |-> "starting"]

\* The queue is empty and the thread paused.
SlotIdle(s) == slots[s].at = "idle"

IdleSlots(a) == {s \in Slots : SlotPool[s] = a /\ SlotIdle(s)}

Fault(kind) == kind \in Faults /\ faults < MaxFaults /\ faults' = faults + 1

\* A thread has taken the job from its queue, and is not inside a hung call.
Active(t) ==
    /\ t \in tickets \ hung
    /\ \A s \in Slots : slots[s].run = t => slots[s].at = "working"

-----------------------------------------------------------------------------
(* The balancer thread: run(), _fill_idle(), _dispatch(). *)

Goto(pc) == bal' = [bal EXCEPT !.pc = pc]

\* run() before its loop.  The reclaim that _fill_idle() starts with finds
\* nothing right after a forced one.  If sqlite raises, the loop starts anyway.
Restore ==
    /\ bal.pc = "start"
    /\ \/ ForceReclaim /\ Goto("count") /\ UNCHANGED faults
       \/ UNCHANGED vars /\ Goto("wait") /\ Fault("sqlite")
    /\ UNCHANGED <<slots, beat, mail, hung, letGo, gaveBack>>

\* A drain message, or main_queue.get() timing out after 15 s.
StartFill ==
    /\ bal.pc = "wait"
    /\ ReadInFlight /\ Goto("reclaim")
    /\ UNCHANGED <<slots, beat, mail, hung, letGo, gaveBack, faults>>

\* _replace_stalled(): a slot working on one of the ids gets a fresh queue and
\* thread; the old thread keeps its ticket.
DispatchStalled(ids) ==
    /\ bal.pc = "wait" /\ ids \in mail
    /\ mail' = mail \ {ids}
    /\ slots' = [s \in Slots |->
                   IF slots[s].at = "working" /\ slots[s].run[1] \in ids
                   THEN FreshSlot ELSE slots[s]]
    /\ ReadInFlight /\ Goto("reclaim")
    /\ UNCHANGED <<beat, hung, letGo, gaveBack, faults>>

\* Mutant: every fill reclaims with force, as the restart does.
FillReclaimForced ==
    /\ bal.pc = "reclaim"
    /\ rows' = [j \in Jobs |-> IF rows[j].status = "leased"
                               THEN Released(rows[j]) ELSE rows[j]]
    /\ seen' = {} /\ Goto("count")
    /\ UNCHANGED <<inFlight, tickets, answered>>
    /\ UNCHANGED <<slots, beat, mail, hung, letGo, gaveBack, faults>>

FillReclaim ==
    /\ bal.pc = "reclaim"
    /\ Reclaim /\ Goto("count")
    /\ UNCHANGED <<slots, beat, mail, hung, letGo, gaveBack, faults>>

FillCount ==
    /\ bal.pc = "count"
    /\ ReadInFlight /\ Goto("fail")
    /\ UNCHANGED <<slots, beat, mail, hung, letGo, gaveBack, faults>>

FillFailExhausted ==
    /\ bal.pc = "fail"
    /\ FailExhausted
    /\ bal' = [pc |-> "claim", pool |-> 1, todo |-> IdleSlots(Pools[1])]
    /\ UNCHANGED <<slots, beat, mail, hung, letGo, gaveBack, faults>>

\* Mutant: the slot is not resumed, so it still looks idle with a job in it.
FillClaimPaused(s, j) ==
    /\ bal.pc = "claim" /\ s \in bal.todo
    /\ Claim(Pools[bal.pool], j)
    /\ slots' = [slots EXCEPT ![s].run = <<j, rows[j].attempts + 1>>]
    /\ bal' = [bal EXCEPT !.todo = @ \ {s}]
    /\ UNCHANGED <<beat, mail, hung, letGo, gaveBack, faults>>

\* claim(), _ensure_sender_alive(), resume(), queue.put().
FillClaim(s, j) ==
    /\ bal.pc = "claim" /\ s \in bal.todo
    /\ Claim(Pools[bal.pool], j)
    /\ slots' = [slots EXCEPT ![s] =
                   [run |-> <<j, rows[j].attempts + 1>>, at |-> "queued",
                    thread |-> IF @.thread = "dead" THEN "starting" ELSE @.thread]]
    /\ bal' = [bal EXCEPT !.todo = @ \ {s}]
    /\ UNCHANGED <<beat, mail, hung, letGo, gaveBack, faults>>

\* claim() returned None, or every idle slot of the pool has a job.
FillNextPool ==
    /\ bal.pc = "claim"
    /\ \/ bal.todo = {}
       \/ \A j \in Jobs : ~NextJob(Pools[bal.pool], j)
    /\ bal' = IF bal.pool < Len(Pools)
              THEN [bal EXCEPT !.pool = @ + 1, !.todo = IdleSlots(Pools[bal.pool + 1])]
              ELSE [bal EXCEPT !.pc = "wait", !.pool = 1, !.todo = {}]
    /\ UNCHANGED <<vars, slots, beat, mail, hung, letGo, gaveBack, faults>>

Balancer ==
    \/ Restore \/ StartFill \/ FillReclaim \/ FillCount \/ FillFailExhausted
    \/ \E ids \in mail : DispatchStalled(ids)
    \/ \E s \in Slots, j \in Jobs : FillClaim(s, j)
    \/ FillNextPool

-----------------------------------------------------------------------------
(* The heartbeat thread: _heartbeat_once(). *)

TicketsOf(ids) == {t \in tickets : t[1] \in ids}

HeartbeatRelease ==
    /\ beat = "sleep" /\ beat' = "renew"
    /\ IF QuietIds = {}
       THEN UNCHANGED <<vars, mail, letGo>>
       ELSE /\ ReleaseStalled
            /\ mail' = mail \cup {QuietIds}
            /\ letGo' = letGo \cup TicketsOf(QuietIds)
    /\ UNCHANGED <<slots, bal, hung, gaveBack, faults>>

\* heartbeat() calls release_stalled() a second time and keeps its answer.
HeartbeatRenew ==
    /\ beat = "renew" /\ beat' = "sleep"
    /\ Heartbeat
    /\ letGo' = letGo \cup TicketsOf(QuietIds)
    /\ UNCHANGED <<slots, bal, mail, hung, gaveBack, faults>>

-----------------------------------------------------------------------------
(* The sender threads: RecordSender.run() and process_input(). *)

\* TelegramClient.start() raised: run() ends before its loop.
ThreadDies(s) ==
    /\ slots[s].thread = "starting" /\ Fault("death")
    /\ slots' = [slots EXCEPT ![s].thread = "dead"]
    /\ UNCHANGED <<vars, bal, beat, mail, hung, letGo, gaveBack>>

\* A thread that has started once is "up" from the first job it takes.
TakeJob(s) ==
    /\ slots[s].at = "queued" /\ slots[s].thread # "dead"
    /\ slots' = [slots EXCEPT ![s].at = "working", ![s].thread = "up"]
    /\ UNCHANGED <<vars, bal, beat, mail, hung, letGo, gaveBack, faults>>

SenderTouch(t) ==
    /\ Active(t) /\ t \notin gaveBack /\ Touch(t)
    /\ UNCHANGED ownVars

SenderAnswer(t) ==
    /\ Active(t) /\ t \notin gaveBack /\ Answer(t)
    /\ UNCHANGED ownVars

SenderMarkDone(t) ==
    /\ Active(t) /\ t \notin gaveBack /\ MarkDone(t)
    /\ UNCHANGED ownVars

\* After an answer only if both mark_done() calls raised.
SenderFailOrRetry(t, terminal) ==
    /\ Active(t) /\ FailOrRetry(t, terminal)
    /\ IF t \in answered THEN Fault("sqlite") ELSE UNCHANGED faults
    /\ gaveBack' = gaveBack \cup {t}
    /\ UNCHANGED <<slots, bal, beat, mail, hung, letGo>>

\* The finally of run(): current_outbox_id = None, pause, on_idle.  A thread that
\* was replaced does the same, on a slot that is no longer its own.  The row is
\* still this run's only if sqlite refused every write about its outcome.
SenderReturn(t) ==
    /\ Active(t) /\ Return(t)
    /\ IF Holds(t) THEN Fault("sqlite") ELSE UNCHANGED faults
    /\ slots' = [s \in Slots |-> IF slots[s].run = t
                                 THEN [slots[s] EXCEPT !.run = NoRun, !.at = "idle"]
                                 ELSE slots[s]]
    /\ letGo' = letGo \ {t} /\ gaveBack' = gaveBack \ {t}
    /\ UNCHANGED <<bal, beat, mail, hung>>

Hang(t) ==
    /\ Active(t) /\ Fault("hang")
    /\ hung' = hung \cup {t}
    /\ UNCHANGED <<vars, slots, bal, beat, mail, letGo, gaveBack>>

CallReturns(t) ==
    /\ t \in hung
    /\ hung' = hung \ {t}
    /\ UNCHANGED <<vars, slots, bal, beat, mail, letGo, gaveBack, faults>>

Sender(t) ==
    \/ SenderTouch(t) \/ SenderAnswer(t) \/ SenderMarkDone(t)
    \/ \E terminal \in BOOLEAN : SenderFailOrRetry(t, terminal)
    \/ SenderReturn(t)

-----------------------------------------------------------------------------
(* Callers, time and the death of the process. *)

Caller(j) ==
    /\ Enqueue(j) \/ DropLastRecipient(j) \/ PurgeOld({j})
    /\ UNCHANGED ownVars

\* A download or upload touches its row from its progress callback: the row of
\* a thread that is neither stuck nor dead never goes quiet.
NobodyWorksOn(j) ==
    \A t \in tickets : t[1] = j /\ Holds(t) =>
        t \in hung \/ \E s \in Slots : slots[s].run = t /\ slots[s].thread = "dead"

QuietPasses(j) ==
    /\ NobodyWorksOn(j) /\ GoesQuiet(j)
    /\ UNCHANGED ownVars

\* The heartbeat renews an in-flight lease ten times before it can run out: that
\* takes five minutes of refused writes.
LeasePasses(j) ==
    /\ LeaseExpires(j)
    /\ IF inFlight[j] = "no" THEN UNCHANGED faults ELSE Fault("sqlite")
    /\ UNCHANGED <<slots, bal, beat, mail, hung, letGo, gaveBack>>

BackoffPasses(j) ==
    /\ BackoffEnds(j)
    /\ UNCHANGED ownVars

Clock(j) == QuietPasses(j) \/ LeasePasses(j) \/ BackoffPasses(j)

FreshBal == [pc |-> "start", pool |-> 1, todo |-> {}]

ProcessDies ==
    /\ Fault("crash")
    /\ Crash
    /\ slots' = [s \in Slots |-> FreshSlot]
    /\ bal' = FreshBal /\ beat' = "sleep" /\ mail' = {}
    /\ hung' = {} /\ letGo' = {} /\ gaveBack' = {}

BalInit ==
    /\ Init
    /\ slots = [s \in Slots |-> FreshSlot]
    /\ bal = FreshBal /\ beat = "sleep" /\ mail = {}
    /\ hung = {} /\ letGo = {} /\ gaveBack = {}
    /\ faults = 0

BalNext ==
    \/ Balancer
    \/ HeartbeatRelease \/ HeartbeatRenew
    \/ \E s \in Slots : ThreadDies(s) \/ TakeJob(s)
    \/ \E t \in tickets : Sender(t) \/ Hang(t) \/ CallReturns(t)
    \/ \E j \in Jobs : Caller(j) \/ Clock(j)
    \/ ProcessDies

BalSpec == BalInit /\ [][BalNext]_balVars

(***************************************************************************)
(* Fairness.  The balancer wakes at least every 15 s and reads main_queue  *)
(* in order, so a message is not passed over for ever; the heartbeat loops *)
(* with a sleep; a sender thread that is not hung or dead goes on, and its *)
(* requests have time limits; a lease, a back-off and a silence end with   *)
(* time.  No fairness for callers, for faults or for a hung call.          *)
(***************************************************************************)
SenderSettles(t) ==
    \/ SenderAnswer(t) \/ SenderMarkDone(t)
    \/ \E terminal \in BOOLEAN : SenderFailOrRetry(t, terminal)

ClockFair(j) ==
    /\ WF_balVars(QuietPasses(j)) /\ WF_balVars(BackoffPasses(j))
    /\ WF_balVars(inFlight[j] = "no" /\ LeasePasses(j))

BalFairness ==
    /\ WF_balVars(Balancer)
    /\ \A ids \in SUBSET Jobs : SF_balVars(DispatchStalled(ids))
    /\ WF_balVars(HeartbeatRelease) /\ WF_balVars(HeartbeatRenew)
    /\ \A s \in Slots : WF_balVars(TakeJob(s))
    /\ \A t \in Tickets : /\ WF_balVars(SenderSettles(t))
                          /\ WF_balVars(~Holds(t) /\ SenderReturn(t))
    /\ \A j \in Jobs : ClockFair(j)

BalFairSpec == BalSpec /\ BalFairness

-----------------------------------------------------------------------------
(* Properties. *)

BalTypeOK ==
    /\ TypeOK
    /\ slots \in [Slots -> Slot]
    /\ bal \in [pc : {"start", "wait", "reclaim", "count", "fail", "claim"},
                pool : 1..Len(Pools), todo : SUBSET Slots]
    /\ beat \in {"sleep", "renew"}
    /\ faults \in 0..MaxFaults
    /\ mail \subseteq SUBSET Jobs
    /\ \A s \in Slots : slots[s].run \in tickets \cup {NoRun}
    /\ hung \subseteq tickets /\ letGo \subseteq tickets /\ gaveBack \subseteq tickets

\* A second thread gets a job that another thread is still on only after
\* release_stalled() let the first one go or the first one gave it back: the
\* duplicate sends of at-least-once delivery come from nothing else.
DoubleRunOnlyAfterStall ==
    \A t, u \in tickets :
        t[1] = u[1] /\ t[2] < u[2] => t \in letGo \cup gaveBack

\* A slot is handed out again only when its thread is through with its run or
\* was replaced, and no run is in two slots: a slot that looks idle has no job,
\* and stays idle while _fill_idle() has yet to come to it.
RunsHaveSlots ==
    /\ \A s \in Slots : SlotIdle(s) = (slots[s].run = NoRun)
    /\ \A s, r \in Slots : slots[s].run = slots[r].run => s = r \/ SlotIdle(s)
    /\ \A s \in bal.todo : SlotIdle(s)

\* Every step of the threads is a step the queue's own specification allows.
ImplementsOutbox == Spec

\* An enqueued job ends done or failed, whatever single fault happens on the
\* way: leases, stall release, restart and MAX_ATTEMPTS leave no job behind.
EveryJobSettles ==
    \A j \in Jobs :
        rows[j].status \in {"pending", "leased"}
        ~> rows[j].status \notin {"pending", "leased"}

\* "A job silent for STALL_SECONDS is let go and retried; the balancer gives its
\* slot a fresh thread": a slot that has a job is idle again some day.
SlotsRecover == \A s \in Slots : ~SlotIdle(s) ~> SlotIdle(s)

\* "circle oldest first: one row per episode and one in flight per channel, so a
\* catch-up arrives in order and an old row is never passed by newer ones".
OldRowNeverPassed ==
    [][\A old, new \in Jobs :
          /\ old < new /\ JobUser[old] = JobUser[new]
          /\ CircleRow(old) /\ JobAction[old] = JobAction[new]
          /\ rows[old].status = "pending"
          => ~(rows[new].status = "pending" /\ rows'[new].status = "leased")]_balVars
=============================================================================
