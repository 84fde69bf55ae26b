------------------------------ MODULE Billing ------------------------------
(***************************************************************************)
(* What a user's plan and balance go through (user_tariff_cs of            *)
(* db/sqliteAdapter.py): payments, refunds, the hourly tick, free plans    *)
(* given as grants, changes of plan and awards for invited payers.         *)
(*                                                                         *)
(* A payment, a refund, a pledge, a grant's start, hold and end and each   *)
(* half of the tick are one transaction, hence one step.  A change of plan *)
(* and an award read the row, compute, and write all of it back in a later *)
(* transaction: a clerk is a thread that does one of these.                *)
(*                                                                         *)
(* A user without a row is one with no plan, balance or hours, as every    *)
(* reader treats it.  Left out: delivery quotas (RecordDelivery has them), *)
(* users who blocked the bot (the tick passes over them), changes of price *)
(* and offers below it, the subscription's days of grace, awards for an    *)
(* invited user's first use, the survey's free week, notices.              *)
(***************************************************************************)
EXTENDS Integers, FiniteSets, Functions

CONSTANTS
    Users,
    Nobody,
    InvitedBy,    \* ref_id: who invited each user, or Nobody
    Trial,        \* users who begin with the welcome trial
    Plans,        \* tariff ids
    Price,        \* cents for a Period of each plan
    Period,       \* tariff_period, in hours
    HoldHours,    \* HOLD_HOURS
    AwardHours,   \* tariff_ref_sub_period
    TrialHours,   \* tariff_new_user_period
    GrantPlan,    \* the plan a grant gives
    TopPlan,      \* getExtremeTariff('max'): what an award and the trial give
    Invoices,     \* charges and pledges that may arrive
    Payer, Amount,
    PlanSold,     \* the plan an invoice was for, 0 for a top-up
    Pledges,      \* invoices that are a Patreon month
    Clerks,
    LateChecks,   \* may the grants' hourly check miss a whole week?
    MaxTicks, MaxChanges, MaxGrants   \* bounds on how many happen

ASSUME BillingAssumption ==
    /\ Nobody \notin Users
    /\ InvitedBy \in [Users -> Users \cup {Nobody}] /\ Trial \subseteq Users
    /\ Plans \subseteq Nat \ {0} /\ {GrantPlan, TopPlan} \subseteq Plans
    /\ Price \in [Plans -> Nat \ {0}]
    /\ {Period, HoldHours, AwardHours, TrialHours} \subseteq Nat \ {0}
    /\ HoldHours < Period
    /\ IsFiniteSet(Invoices)
    /\ Payer \in [Invoices -> Users] /\ Amount \in [Invoices -> Nat \ {0}]
    /\ PlanSold \in [Invoices -> Plans \cup {0}] /\ Pledges \subseteq Invoices
    /\ \A i \in Invoices : PlanSold[i] # 0 => Amount[i] >= Price[PlanSold[i]]
    /\ LateChecks \in BOOLEAN /\ {MaxTicks, MaxChanges, MaxGrants} \subseteq Nat

VARIABLES
    subs,         \* user_tariff_cs
    grants,       \* the plan of each user's active grant, and the one it replaced
    invoices,     \* payment_history
    inviter,      \* users.ref_id
    renewed,      \* has run_tariff_tick() renewed, but not counted down yet?
    clerks,       \* threads in a change of plan or an award
    count,        \* how many ticks, changes and grants there have been
    ledger,       \* history: what each user's payments, refunds and purchases come to
    gifts,        \* history: what the free hours each user got are worth
    awarded,      \* history: awards each invited user's payments have given
    overwritten   \* history: users whose row a clerk wrote over after it, or its grant, had changed

history == <<ledger, gifts, awarded, overwritten>>
billVars == <<subs, grants, invoices, inviter, renewed, clerks, count, history>>

Sub == [tariff : Plans \cup {0}, balance : Int, time : Nat]
Grant == [plan : Plans \cup {0}, prev : Plans \cup {0}]
Jobs == {"idle", "decide", "give way", "store", "claim", "stop", "read", "award"}
Clerk == [job : Jobs, user : Users \cup {Nobody}, payer : Users \cup {Nobody},
          want : Plans \cup {0}, base : Sub, new : Sub]

NoPlan == [tariff |-> 0, balance |-> 0, time |-> 0]
NoGrant == [plan |-> 0, prev |-> 0]
Idle == [job |-> "idle", user |-> Nobody, payer |-> Nobody,
         want |-> 0, base |-> NoPlan, new |-> NoPlan]

PriceOf(p) == IF p = 0 THEN 0 ELSE Price[p]

\* Mutant: the hours that pay a debt are rounded down.
RoundDown(m, n) == m \div n
RoundUp(m, n) == (m + n - 1) \div n

\* is_subscription_active()
Running(sub) == sub.tariff > 0 /\ sub.time > 0

\* plan_grants.active(), and active_kind(): the grant's plan is on the row.
Granted(u) == grants[u].plan # 0
Held(u) == Granted(u) /\ subs[u].tariff = grants[u].plan

\* paid_for_days()
EverPaid(u) == \E i \in Invoices : Payer[i] = u /\ invoices[i] = "paid"

Put(u, sub) == subs' = [subs EXCEPT ![u] = sub]
Book(u, cents) == ledger' = [ledger EXCEPT ![u] = @ + cents]

-----------------------------------------------------------------------------
(* Payments: applyPaymentReplenishmentOnce(), credit_month(), apply_refund(). *)

\* A grant's plan gives way to an invoice that pays for a plan.
GivesWay(u, i) ==
    /\ Granted(u) /\ PlanSold[i] # 0
    /\ subs[u].balance + Amount[i] >= PriceOf(PlanSold[i])

\* A running plan is only topped up; otherwise the plan sold, or else the one on
\* the row, is turned on if the balance covers it.
Replenished(u, i) ==
    LET running == Running(subs[u]) /\ ~GivesWay(u, i)
        sold == PlanSold[i] # 0 /\ ~running
        plan == IF sold THEN PlanSold[i] ELSE subs[u].tariff
        balance == subs[u].balance + Amount[i]
    IN  IF ~sold /\ subs[u].time > 0
        THEN [subs[u] EXCEPT !.balance = balance]
        ELSE IF plan # 0 /\ balance >= PriceOf(plan)
             THEN [tariff |-> plan, balance |-> balance - PriceOf(plan), time |-> Period]
             ELSE [tariff |-> plan, balance |-> balance, time |-> 0]

\* process_successful_payment(): the invoice once, whatever is delivered again;
\* then the same thread goes on to the inviter's award.
Pay(c, i) ==
    LET u == Payer[i] IN
    /\ invoices[i] = "open" /\ i \notin Pledges /\ clerks[c] = Idle
    /\ invoices' = [invoices EXCEPT ![i] = "paid"]
    /\ Put(u, Replenished(u, i))
    /\ Book(u, subs'[u].balance - subs[u].balance)
    /\ grants' = IF GivesWay(u, i) THEN [grants EXCEPT ![u] = NoGrant] ELSE grants
    /\ clerks' = [clerks EXCEPT ![c] = [Idle EXCEPT !.job = "claim", !.payer = u]]
    /\ UNCHANGED <<inviter, renewed, count, gifts, awarded, overwritten>>

CreditMonth(i) ==
    LET u == Payer[i] IN
    /\ invoices[i] = "open" /\ i \in Pledges
    /\ invoices' = [invoices EXCEPT ![i] = "paid"]
    /\ Put(u, [subs[u] EXCEPT !.balance = @ + Amount[i]])
    /\ Book(u, Amount[i])
    /\ UNCHANGED <<grants, inviter, renewed, clerks, count, gifts, awarded, overwritten>>

\* What a debt leaves of the row: bought hours pay it, as many as it needs.
DebtPaid(sub) ==
    LET hours == IF RoundUp(-sub.balance * Period, PriceOf(sub.tariff)) < sub.time
                 THEN RoundUp(-sub.balance * Period, PriceOf(sub.tariff)) ELSE sub.time
        money == sub.balance + (hours * PriceOf(sub.tariff)) \div Period
    IN  [sub EXCEPT !.time = @ - hours, !.balance = IF money < 0 THEN money ELSE 0]

Refund(i) ==
    LET u == Payer[i]
        owing == [subs[u] EXCEPT !.balance = @ - Amount[i]]
    IN
    /\ invoices[i] = "paid" /\ i \notin Pledges
    /\ invoices' = [invoices EXCEPT ![i] = "refunded"]
    /\ Put(u, IF owing.balance < 0 /\ Running(owing) /\ ~Granted(u)
              THEN DebtPaid(owing) ELSE owing)
    /\ Book(u, subs'[u].balance - subs[u].balance)
    /\ UNCHANGED <<grants, inviter, renewed, clerks, count, gifts, awarded, overwritten>>

-----------------------------------------------------------------------------
(* The clock: run_tariff_tick(). *)

\* Mutant: the balance is not looked at.
RenewableOnCredit(u) == subs[u].tariff # 0 /\ subs[u].time <= 1 /\ ~Granted(u)

\* prolong_users(): on the last hour, from money only, never a grant's plan.
Renewable(u) ==
    /\ subs[u].tariff # 0 /\ subs[u].time <= 1
    /\ subs[u].balance >= PriceOf(subs[u].tariff) /\ ~Granted(u)

Renew ==
    /\ ~renewed /\ count.ticks < MaxTicks /\ renewed' = TRUE
    /\ subs' = [u \in Users |->
                  IF Renewable(u)
                  THEN [subs[u] EXCEPT !.time = @ + Period,
                                       !.balance = @ - PriceOf(subs[u].tariff)]
                  ELSE subs[u]]
    /\ ledger' = [u \in Users |-> ledger[u] + subs'[u].balance - subs[u].balance]
    /\ UNCHANGED <<grants, invoices, inviter, clerks, count, gifts, awarded, overwritten>>

\* Mutant: everyone is counted down, hours left or not.
CountDownAll ==
    /\ renewed /\ renewed' = FALSE
    /\ LateChecks \/ \A u \in Users : Held(u) => subs[u].time > 1
    /\ count' = [count EXCEPT !.ticks = @ + 1]
    /\ subs' = [u \in Users |-> [subs[u] EXCEPT !.time = @ - 1]]
    /\ UNCHANGED <<grants, invoices, inviter, clerks, ledger, gifts, awarded, overwritten>>

\* decrease_all_time_left().  A week of hours is held in advance: a grant's last
\* one passes only if every check of that week was missed.
CountDown ==
    /\ renewed /\ renewed' = FALSE
    /\ LateChecks \/ \A u \in Users : Held(u) => subs[u].time > 1
    /\ count' = [count EXCEPT !.ticks = @ + 1]
    /\ subs' = [u \in Users |-> IF Running(subs[u])
                                THEN [subs[u] EXCEPT !.time = @ - 1] ELSE subs[u]]
    /\ UNCHANGED <<grants, invoices, inviter, clerks, ledger, gifts, awarded, overwritten>>

\* The jobs process dies between the two.
TickDies ==
    /\ renewed /\ renewed' = FALSE
    /\ count' = [count EXCEPT !.ticks = @ + 1]
    /\ UNCHANGED <<subs, grants, invoices, inviter, clerks, history>>

-----------------------------------------------------------------------------
(* Grants: db/plan_grants.py. *)

\* end(): the grant's plan stops, if it is still on the row.
Ended(u, restore) ==
    IF Held(u)
    THEN [subs[u] EXCEPT !.time = 0, !.tariff = IF restore THEN grants[u].prev ELSE @]
    ELSE subs[u]

\* start(), for a chat that holds none and has no plan running.
StartGrant(u) ==
    /\ count.grants < MaxGrants /\ count' = [count EXCEPT !.grants = @ + 1]
    /\ ~Held(u) /\ ~Running(subs[u])
    /\ grants' = [grants EXCEPT ![u] = [plan |-> GrantPlan, prev |-> subs[u].tariff]]
    /\ Put(u, [subs[u] EXCEPT !.tariff = GrantPlan, !.time = HoldHours])
    /\ UNCHANGED <<invoices, inviter, renewed, clerks, history>>

\* hold(), from the hourly check or from start(): the days back to HOLD_HOURS, or
\* the end of a grant whose plan is not on the row any more.
HoldGrant(u) ==
    /\ Granted(u)
    /\ IF Held(u)
       THEN /\ subs[u].time < HoldHours
            /\ Put(u, [subs[u] EXCEPT !.time = HoldHours])
            /\ UNCHANGED grants
       ELSE /\ grants' = [grants EXCEPT ![u] = NoGrant]
            /\ UNCHANGED subs
    /\ UNCHANGED <<invoices, inviter, renewed, clerks, count, history>>

\* end_now(): the chat left a channel, or the owner turned the offer off.
EndGrant(u) ==
    /\ Granted(u)
    /\ grants' = [grants EXCEPT ![u] = NoGrant]
    /\ Put(u, Ended(u, TRUE))
    /\ UNCHANGED <<invoices, inviter, renewed, clerks, count, history>>

-----------------------------------------------------------------------------
(* A change of plan: choose_bot_subscription_tariff(), its question answered. *)

Working(c, job) == clerks[c].job = job
Move(c, job) == clerks' = [clerks EXCEPT ![c].job = job]
Done(c) == clerks' = [clerks EXCEPT ![c] = Idle]

\* The gate of the incoming queue: one update of a user at a time.
Served(u) ==
    \E c \in Clerks : clerks[c].user = u /\ clerks[c].job \in {"decide", "give way", "store"}

AskPlan(c, u, p) ==
    /\ clerks[c] = Idle /\ ~Served(u)
    /\ count.changes < MaxChanges /\ count' = [count EXCEPT !.changes = @ + 1]
    /\ clerks' = [clerks EXCEPT ![c] = [Idle EXCEPT !.job = "decide", !.user = u,
                                                   !.want = p, !.base = subs[u]]]
    /\ UNCHANGED <<subs, grants, invoices, inviter, renewed, history>>

\* A dearer plan takes the difference for the hours left.
Upgraded(sub, p) ==
    [sub EXCEPT !.tariff = p,
        !.balance = @ - (sub.time * (PriceOf(p) - PriceOf(sub.tariff))) \div Period]

\* Mutant: also to those who never paid.
DowngradedAnyway(sub, p, paid) ==
    LET back == ((sub.time - 1) * (PriceOf(sub.tariff) - PriceOf(p))) \div (2 * Period)
    IN  [sub EXCEPT !.tariff = p, !.balance = IF back > 0 THEN @ + back ELSE @]

\* A cheaper one gives half of it back, if anything was ever paid.
Downgraded(sub, p, paid) ==
    LET back == ((sub.time - 1) * (PriceOf(sub.tariff) - PriceOf(p))) \div (2 * Period)
    IN  [sub EXCEPT !.tariff = p, !.balance = IF paid /\ back > 0 THEN @ + back ELSE @]

Changed(sub, p, paid) ==
    IF PriceOf(sub.tariff) < PriceOf(p) THEN Upgraded(sub, p) ELSE Downgraded(sub, p, paid)

\* With no hours left the plan is bought, when the balance exceeds its price.
Bought(sub) ==
    IF sub.time = 0 /\ sub.balance > PriceOf(sub.tariff)
    THEN [sub EXCEPT !.balance = @ - PriceOf(sub.tariff), !.time = Period] ELSE sub

\* Mutant: a grant's plan is a plan like any other.
AsOnTheRow(c) == clerks[c].base

\* A grant's plan is no plan to whoever changes plans.
AsSold(c) ==
    IF Held(clerks[c].user) THEN [NoPlan EXCEPT !.balance = clerks[c].base.balance]
    ELSE clerks[c].base

Decide(c) ==
    LET u == clerks[c].user
        sub == AsSold(c)
        p == clerks[c].want
        changed == Changed(sub, p, EverPaid(u))
        off == Held(u) /\ p = 0
        new == IF off THEN sub ELSE Bought(changed)
        short == PriceOf(sub.tariff) < PriceOf(p) /\ changed.balance < 0
        refused == ~off /\ (p = sub.tariff \/ short \/ (Held(u) /\ new.time = 0))
    IN
    /\ Working(c, "decide")
    /\ IF refused THEN Done(c)
       ELSE clerks' = [clerks EXCEPT ![c].new = new,
                                     ![c].job = IF Held(u) THEN "give way" ELSE "store"]
    /\ UNCHANGED <<subs, grants, invoices, inviter, renewed, count, history>>

\* end_for_chat(): what is chosen replaces the grant.
GiveWay(c) ==
    LET u == clerks[c].user IN
    /\ Working(c, "give way")
    /\ Put(u, Ended(u, FALSE))
    /\ grants' = [grants EXCEPT ![u] = NoGrant]
    /\ clerks' = [clerks EXCEPT ![c].job = "store",
                     ![c].base = IF @ = subs[u] THEN subs'[u] ELSE @]
    /\ UNCHANGED <<invoices, inviter, renewed, count, history>>

\* Mutant: the row is written and the grant left alone.
SubscribeOnly(u, sub) == Put(u, sub) /\ UNCHANGED grants

\* subscribeUserToTariffByUid(): a write that changes a grant's plan or days ends it.
Subscribe(u, sub) ==
    /\ Put(u, sub)
    /\ grants' = IF sub.tariff # subs[u].tariff \/ sub.time # subs[u].time
                 THEN [grants EXCEPT ![u] = NoGrant] ELSE grants

\* The row is not what was read, or a grant holds it, which the clerk does not know of.
Overwrites(c, u) ==
    overwritten' = IF clerks[c].base = subs[u] /\ ~Held(u)
                   THEN overwritten ELSE overwritten \cup {u}

Store(c) ==
    LET u == clerks[c].user IN
    /\ Working(c, "store")
    /\ Subscribe(u, clerks[c].new) /\ Overwrites(c, u)
    /\ Book(u, clerks[c].new.balance - clerks[c].base.balance)
    /\ Done(c)
    /\ UNCHANGED <<invoices, inviter, renewed, count, gifts, awarded>>

-----------------------------------------------------------------------------
(* An award: award_referrer_for_payment(), giveAward(). *)

\* Mutant: the inviter is read but not taken off.
ClaimReferrerKept(c) ==
    LET payer == clerks[c].payer
        u == inviter[payer]
    IN
    /\ Working(c, "claim")
    /\ IF u \in Users \ {payer}
       THEN clerks' = [clerks EXCEPT ![c].job = "stop", ![c].user = u]
       ELSE Done(c)
    /\ UNCHANGED <<subs, grants, invoices, inviter, renewed, count, history>>

\* claim_referrer()
ClaimReferrer(c) ==
    LET payer == clerks[c].payer
        u == inviter[payer]
    IN
    /\ Working(c, "claim")
    /\ inviter' = [inviter EXCEPT ![payer] = Nobody]
    /\ IF u \in Users \ {payer}
       THEN clerks' = [clerks EXCEPT ![c].job = "stop", ![c].user = u]
       ELSE Done(c)
    /\ UNCHANGED <<subs, grants, invoices, renewed, count, history>>

\* end_plan_grant()
StopGrant(c) ==
    LET u == clerks[c].user IN
    /\ Working(c, "stop") /\ Move(c, "read")
    /\ Put(u, Ended(u, FALSE))
    /\ grants' = [grants EXCEPT ![u] = NoGrant]
    /\ UNCHANGED <<invoices, inviter, renewed, count, history>>

ReadForAward(c) ==
    /\ Working(c, "read")
    /\ clerks' = [clerks EXCEPT ![c].job = "award", ![c].base = subs[clerks[c].user]]
    /\ UNCHANGED <<subs, grants, invoices, inviter, renewed, count, history>>

\* What hours on a plan are worth, in cents times Period.
Worth(sub) == sub.time * PriceOf(sub.tariff)

Award(c) ==
    LET u == clerks[c].user
        base == clerks[c].base
        new == [base EXCEPT !.tariff = TopPlan, !.time = @ + AwardHours]
    IN
    /\ Working(c, "award")
    /\ Subscribe(u, new) /\ Overwrites(c, u)
    /\ gifts' = [gifts EXCEPT ![u] = @ + Worth(new) - Worth(base)]
    /\ awarded' = [awarded EXCEPT ![clerks[c].payer] = @ + 1]
    /\ Done(c)
    /\ UNCHANGED <<invoices, inviter, renewed, count, ledger>>

\* The thread's next call raises, or its process dies.
ClerkDies(c) ==
    /\ clerks[c] # Idle /\ Done(c)
    /\ UNCHANGED <<subs, grants, invoices, inviter, renewed, count, history>>

-----------------------------------------------------------------------------

\* giveAward(mode 'new'): the welcome trial, before anything is paid.
Welcome(u) == IF u \in Trial THEN [NoPlan EXCEPT !.tariff = TopPlan, !.time = TrialHours]
              ELSE NoPlan

BillInit ==
    /\ subs = [u \in Users |-> Welcome(u)]
    /\ grants = [u \in Users |-> NoGrant]
    /\ invoices = [i \in Invoices |-> "open"]
    /\ inviter = InvitedBy
    /\ renewed = FALSE
    /\ clerks = [c \in Clerks |-> Idle]
    /\ count = [ticks |-> 0, changes |-> 0, grants |-> 0]
    /\ ledger = [u \in Users |-> 0]
    /\ gifts = [u \in Users |-> Worth(Welcome(u))]
    /\ awarded = [u \in Users |-> 0]
    /\ overwritten = {}

Money == \E i \in Invoices : CreditMonth(i) \/ Refund(i) \/ \E c \in Clerks : Pay(c, i)

Clock == Renew \/ CountDown \/ TickDies

GrantCheck == \E u \in Users : StartGrant(u) \/ HoldGrant(u) \/ EndGrant(u)

Work(c) ==
    \/ \E u \in Users, p \in Plans \cup {0} : AskPlan(c, u, p)
    \/ Decide(c) \/ GiveWay(c) \/ Store(c)
    \/ ClaimReferrer(c) \/ StopGrant(c) \/ ReadForAward(c) \/ Award(c)
    \/ ClerkDies(c)

BillNext == Money \/ Clock \/ GrantCheck \/ \E c \in Clerks : Work(c)

BillSpec == BillInit /\ [][BillNext]_billVars

-----------------------------------------------------------------------------
(* Properties. *)

BillTypeOK ==
    /\ subs \in [Users -> Sub]
    /\ grants \in [Users -> Grant]
    /\ invoices \in [Invoices -> {"open", "paid", "refunded"}]
    /\ inviter \in [Users -> Users \cup {Nobody}]
    /\ renewed \in BOOLEAN
    /\ clerks \in [Clerks -> Clerk]
    /\ count \in [ticks : 0..MaxTicks, changes : 0..MaxChanges, grants : 0..MaxGrants]
    /\ ledger \in [Users -> Int] /\ gifts \in [Users -> Int]
    /\ awarded \in [Users -> Nat] /\ overwritten \subseteq Users

\* What the invoices of a user that were paid and not taken back come to.
Credited(u) ==
    SumFunctionOnSet(Amount, {i \in Invoices : Payer[i] = u /\ invoices[i] = "paid"})

\* Nobody ever has more than was paid and given: balance and bought hours together
\* are worth at most the user's money and gifts, through every order of payments,
\* refunds, renewals, changes of plan, grants and awards.  (Price differences are
\* rounded down to a cent per change.  Rows that were written over are excluded:
\* MoneyKept and AwardCountsFromNone are about them.)
NothingForNothing ==
    \A u \in Users \ overwritten :
        Period * subs[u].balance + (IF Held(u) THEN 0 ELSE Worth(subs[u]))
            <= Period * (Credited(u) + count.changes) + gifts[u]

\* "The welcome trial's days were not [paid], they must not become money", nor do
\* an award's or a grant's: a user with no payment ever has no balance.
UnpaidIsNoMoney ==
    \A u \in Users :
        (\A i \in Invoices : Payer[i] = u => invoices[i] = "open") => subs[u].balance = 0

\* Only a refund puts a balance below zero: no renewal, purchase or change of plan
\* does, not even one decided on a balance that is spent meanwhile.
DebtOnlyByRefund ==
    \A u \in Users :
        subs[u].balance < 0 => \E i \in Invoices : Payer[i] = u /\ invoices[i] = "refunded"

\* "The plan gives back the hours it bought, as many as the debt needs and the plan
\* has": a refund never leaves both a debt and bought hours, and takes no hour when
\* the balance covers it.
RefundTakesHours ==
    [][\A i \in Invoices :
          LET u == Payer[i] IN
          invoices[i] = "paid" /\ invoices'[i] = "refunded" =>
              /\ subs'[u].balance < 0 => ~Running(subs'[u]) \/ Granted(u)
              /\ subs'[u].time < subs[u].time =>
                    /\ ~Granted(u) /\ subs'[u].balance <= 0
                    /\ subs[u].balance < Amount[i]]_billVars

\* "Once per invitee": however many payments and threads, one award; and a user who
\* "invited" themselves gets none.
AwardedOnce ==
    \A u \in Users :
        awarded[u] <= IF InvitedBy[u] \in Users \ {u} THEN 1 ELSE 0

\* "Anything bought, given or switched to replaces it", "money never renews it": the
\* hours of a plan that a grant holds, and will take back, are only the grant's own.
GrantHoldsOnlyItsHours ==
    \A u \in Users : Held(u) => subs[u].time <= HoldHours

\* "The balance is in": what a payment credits stays credited, and what a purchase
\* costs stays paid.
MoneyKept == \A u \in Users : subs[u].balance = ledger[u]

\* "The welcome trial's days were not [paid], they must not become money": whoever
\* began with the trial has no more on the balance than payments put there.
Received(u) ==
    SumFunctionOnSet(Amount, {i \in Invoices : Payer[i] = u /\ invoices[i] # "open"})

TrialIsNoMoney ==
    \A u \in Trial \ overwritten : subs[u].balance <= Received(u)

\* "A grant's plan is no plan to an award: it ends, the award's days count from none":
\* an award that is written while a grant holds the row leaves its own hours only.
AwardCountsFromNone ==
    [][\A u \in Users : Held(u) /\ gifts'[u] # gifts[u] => subs'[u].time <= AwardHours]_billVars
=============================================================================
