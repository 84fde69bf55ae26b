--------------------------- MODULE BillingProofs ---------------------------
(***************************************************************************)
(* What holds of Billing for any users, plans, prices, invoices and        *)
(* clerks, whatever the bounds.                                            *)
(*                                                                         *)
(* None of the properties is inductive.  TypeInv adds to the types that a  *)
(* clerk at work knows its user (Assigned).  MoneyInv says which balances  *)
(* a user's invoices allow (Allowed), of the row and of every copy of it a *)
(* clerk has read or will write: a stale write is then as good as a fresh  *)
(* one.  AwardInv makes the inviter a token that is on the payer's row, in *)
(* one clerk's hands, spent, or lost with a clerk.  GrantInv keeps a       *)
(* grant's plan and hours on the row as long as the grant is active.       *)
(* ValueInv counts money and hours together, of the rows and of the copies *)
(* clerks will write, and the cent a change of plan under way may round.   *)
(***************************************************************************)
EXTENDS Billing, Counting

(* Arithmetic, and what the operators on a row return. *)

LEMMA Products ==
    /\ \A a, b \in Int : a * b \in Int
    /\ \A a, b \in Nat : a * b \in Nat
  OBVIOUS

LEMMA Quotients ==
    ASSUME NEW n \in Nat \ {0}
    PROVE  /\ \A a \in Int : a \div n \in Int
           /\ \A a \in Nat : a \div n \in Nat
  OBVIOUS

LEMMA PricesAreNat == \A p \in Plans \cup {0} : PriceOf(p) \in Nat
  BY BillingAssumption DEF BillingAssumption, PriceOf

LEMMA PricesArePositive == \A p \in Plans : PriceOf(p) \in Nat \ {0}
  BY BillingAssumption DEF BillingAssumption, PriceOf

LEMMA PeriodIsPositive == Period \in Nat \ {0} /\ 2 * Period \in Nat \ {0}
  BY BillingAssumption DEF BillingAssumption

LEMMA NoPlanIsSub == NoPlan \in Sub
  BY DEF NoPlan, Sub

\* What a payment leaves on the row: the plan as it was and more money, or a plan
\* bought from the money, or a plan without hours.
LEMMA ReplenishedCases ==
    ASSUME BillTypeOK, NEW i \in Invoices, NEW u \in Users, u = Payer[i]
    PROVE  \E plan \in Plans \cup {0} :
             \/ Replenished(u, i) = [subs[u] EXCEPT !.balance = subs[u].balance + Amount[i]]
             \/ /\ plan # 0 /\ subs[u].balance + Amount[i] >= PriceOf(plan)
                /\ Replenished(u, i) = [tariff |-> plan, time |-> Period,
                                        balance |-> (subs[u].balance + Amount[i]) - PriceOf(plan)]
             \/ Replenished(u, i) = [tariff |-> plan, time |-> 0,
                                     balance |-> subs[u].balance + Amount[i]]
<1> DEFINE sold == PlanSold[i] # 0 /\ ~(Running(subs[u]) /\ ~GivesWay(u, i))
           plan == IF sold THEN PlanSold[i] ELSE subs[u].tariff
<1>1. plan \in Plans \cup {0}
  BY BillingAssumption DEF BillingAssumption, BillTypeOK, Sub
<1>2. Replenished(u, i) =
        IF ~sold /\ subs[u].time > 0
        THEN [subs[u] EXCEPT !.balance = subs[u].balance + Amount[i]]
        ELSE IF plan # 0 /\ subs[u].balance + Amount[i] >= PriceOf(plan)
             THEN [tariff |-> plan, balance |-> (subs[u].balance + Amount[i]) - PriceOf(plan),
                   time |-> Period]
             ELSE [tariff |-> plan, balance |-> subs[u].balance + Amount[i], time |-> 0]
  BY Zenon DEF Replenished
<1> HIDE DEF sold, plan
<1> WITNESS plan \in Plans \cup {0}
<1> QED  BY <1>2

LEMMA ReplenishedType ==
    ASSUME BillTypeOK, NEW i \in Invoices, NEW u \in Users, u = Payer[i]
    PROVE  Replenished(u, i) \in Sub
<1>1. Amount[i] \in Nat /\ Period \in Nat /\ subs[u] \in Sub
  BY BillingAssumption DEF BillingAssumption, BillTypeOK
<1> QED  BY <1>1, ReplenishedCases, PricesAreNat DEF Sub

LEMMA DebtPaidType ==
    ASSUME NEW sub \in Sub, sub.balance < 0, sub.tariff # 0
    PROVE  DebtPaid(sub) \in Sub
<1> DEFINE price == PriceOf(sub.tariff)
           need == RoundUp(-sub.balance * Period, price)
           hours == IF need < sub.time THEN need ELSE sub.time
           worth == (hours * price) \div Period
<1>1. price \in Nat \ {0} /\ Period \in Nat \ {0}
  BY PricesArePositive, BillingAssumption DEF BillingAssumption, Sub
<1>2. -sub.balance \in Nat /\ sub.time \in Nat /\ sub.balance \in Int
  BY DEF Sub
<1>3. -sub.balance * Period \in Nat
  BY <1>1, <1>2, Products
<1>4. -sub.balance * Period + price - 1 \in Nat
  BY <1>1, <1>3
<1>5. need \in Nat
  BY <1>1, <1>4, Quotients DEF RoundUp
<1>6. hours \in Nat /\ sub.time - hours \in Nat
  BY <1>2, <1>5
<1> HIDE DEF hours, price
<1>7. worth \in Int
  BY <1>1, <1>6, Products, Quotients
<1> HIDE DEF worth
<1> DEFINE money == IF sub.balance + worth < 0 THEN sub.balance + worth ELSE 0
<1>8. DebtPaid(sub) = [sub EXCEPT !.time = sub.time - hours, !.balance = money]
  BY Zenon DEF DebtPaid, hours, price, worth
<1>9. money \in Int
  BY <1>2, <1>7
<1> HIDE DEF money
<1> QED  BY <1>6, <1>8, <1>9 DEF Sub

\* A change of plan keeps the hours; a dearer plan never adds money, a cheaper one
\* never takes any, and gives none to who never paid.
LEMMA ChangedFacts ==
    ASSUME NEW sub \in Sub, NEW p \in Plans \cup {0}, NEW paid \in BOOLEAN
    PROVE  /\ Changed(sub, p, paid) \in Sub
           /\ PriceOf(sub.tariff) < PriceOf(p) => Changed(sub, p, paid).balance <= sub.balance
           /\ ~(PriceOf(sub.tariff) < PriceOf(p)) => Changed(sub, p, paid).balance >= sub.balance
           /\ ~(PriceOf(sub.tariff) < PriceOf(p)) /\ ~paid
                => Changed(sub, p, paid).balance = sub.balance
<1> DEFINE old == PriceOf(sub.tariff)
           fresh == PriceOf(p)
           due == (sub.time * (fresh - old)) \div Period
           back == ((sub.time - 1) * (old - fresh)) \div (2 * Period)
<1>1. /\ old \in Nat /\ fresh \in Nat /\ Period \in Nat \ {0} /\ 2 * Period \in Nat \ {0}
      /\ sub.time \in Nat /\ sub.time - 1 \in Int /\ sub.balance \in Int
  BY PricesAreNat, PeriodIsPositive DEF Sub
<1> HIDE DEF old, fresh
<1>2. CASE old < fresh
  <2>1. fresh - old \in Nat
    BY <1>1, <1>2
  <2>2. sub.time * (fresh - old) \in Nat
    BY <1>1, <2>1, Products
  <2>3. due \in Nat
    BY <1>1, <2>2, Quotients
  <2> HIDE DEF due
  <2> DEFINE money == sub.balance - due
  <2>4. Changed(sub, p, paid) = [sub EXCEPT !.tariff = p, !.balance = money]
    BY <1>2 DEF Changed, Upgraded, old, fresh, due
  <2>5. money \in Int /\ money <= sub.balance
    BY <1>1, <2>3
  <2> HIDE DEF money
  <2>6. Changed(sub, p, paid) \in Sub /\ Changed(sub, p, paid).balance = money
    BY <2>4, <2>5 DEF Sub
  <2> QED  BY <1>2, <2>5, <2>6 DEF old, fresh
<1>3. CASE ~(old < fresh)
  <2>1. back \in Int
    <3>1. old - fresh \in Int
      BY <1>1
    <3>2. (sub.time - 1) * (old - fresh) \in Int
      BY <1>1, <3>1, Products
    <3> QED  BY <1>1, <3>2, Quotients
  <2> HIDE DEF back
  <2> DEFINE money == IF paid /\ back > 0 THEN sub.balance + back ELSE sub.balance
  <2>2. Changed(sub, p, paid) = [sub EXCEPT !.tariff = p, !.balance = money]
    BY <1>3, Zenon DEF Changed, Downgraded, old, fresh, back
  <2>3. money \in Int /\ money >= sub.balance /\ (~paid => money = sub.balance)
    BY <1>1, <2>1
  <2> HIDE DEF money
  <2>4. Changed(sub, p, paid) \in Sub /\ Changed(sub, p, paid).balance = money
    BY <2>2, <2>3 DEF Sub
  <2> QED  BY <1>3, <2>3, <2>4 DEF old, fresh
<1> QED  BY <1>2, <1>3

\* A purchase is paid from money that is there.
LEMMA BoughtFacts ==
    ASSUME NEW sub \in Sub
    PROVE  /\ Bought(sub) \in Sub
           /\ sub.balance >= 0 => Bought(sub).balance >= 0
           /\ sub.balance = 0 => Bought(sub).balance = 0
<1>1. PriceOf(sub.tariff) \in Nat /\ Period \in Nat
  BY PricesAreNat, BillingAssumption DEF BillingAssumption, Sub
<1>2. CASE sub.time = 0 /\ sub.balance > PriceOf(sub.tariff)
  <2> DEFINE money == sub.balance - PriceOf(sub.tariff)
  <2>1. Bought(sub) = [sub EXCEPT !.balance = money, !.time = Period]
    BY <1>2 DEF Bought
  <2>2. money \in Int /\ money >= 0 /\ sub.balance # 0
    BY <1>1, <1>2 DEF Sub
  <2> HIDE DEF money
  <2>3. Bought(sub) \in Sub /\ Bought(sub).balance = money
    BY <1>1, <2>1, <2>2 DEF Sub
  <2> QED  BY <2>2, <2>3
<1>3. CASE ~(sub.time = 0 /\ sub.balance > PriceOf(sub.tariff))
  BY <1>3 DEF Bought
<1> QED  BY <1>2, <1>3

\* What a decided change of plan is about to write: nothing, or a row with no debt
\* if there was none, and with no money if there was none and nothing was paid.
LEMMA DecideCases ==
    ASSUME BillTypeOK, NEW c \in Clerks, NEW u \in Users, u = clerks[c].user, Decide(c)
    PROVE  \/ clerks' = [clerks EXCEPT ![c] = Idle]
           \/ \E new \in Sub, job \in {"give way", "store"} :
                /\ clerks' = [clerks EXCEPT ![c].new = new, ![c].job = job]
                /\ clerks[c].base.balance >= 0 => new.balance >= 0
                /\ clerks[c].base.balance = 0 /\ ~EverPaid(u) => new.balance = 0
<1> DEFINE sub == AsSold(c)
           p == clerks[c].want
           paid == EverPaid(u)
           changed == Changed(sub, p, paid)
           off == Held(u) /\ p = 0
           new == IF off THEN sub ELSE Bought(changed)
           short == PriceOf(sub.tariff) < PriceOf(p) /\ changed.balance < 0
           refused == ~off /\ (p = sub.tariff \/ short \/ (Held(u) /\ new.time = 0))
           job == IF Held(u) THEN "give way" ELSE "store"
<1>1. clerks[c].base \in Sub /\ p \in Plans \cup {0} /\ paid \in BOOLEAN
  BY DEF BillTypeOK, Clerk, EverPaid
<1>2. sub \in Sub /\ sub.balance = clerks[c].base.balance
  BY <1>1 DEF AsSold, NoPlan, Sub
<1>3. IF refused THEN clerks' = [clerks EXCEPT ![c] = Idle]
      ELSE clerks' = [clerks EXCEPT ![c].new = new, ![c].job = job]
  BY Zenon DEF Decide, Done
<1> HIDE DEF sub, p, paid
<1>4. changed \in Sub
  BY <1>1, <1>2, ChangedFacts
<1>5. new \in Sub
  BY <1>2, <1>4, BoughtFacts
<1>6. ASSUME ~refused, sub.balance >= 0 PROVE new.balance >= 0
  <2>1. CASE off
    BY <1>6, <2>1
  <2>2. CASE ~off
    <3>1. changed.balance >= 0
      <4>1. ~short
        BY <1>6, <2>2
      <4>2. CASE PriceOf(sub.tariff) < PriceOf(p)
        BY <1>4, <4>1, <4>2 DEF Sub
      <4>3. CASE ~(PriceOf(sub.tariff) < PriceOf(p))
        <5>1. changed.balance >= sub.balance
          BY <1>1, <1>2, <4>3, ChangedFacts
        <5> HIDE DEF changed
        <5> QED  BY <1>2, <1>4, <1>6, <5>1 DEF Sub
      <4> QED  BY <4>2, <4>3
    <3> QED  BY <1>4, <2>2, <3>1, BoughtFacts
  <2> QED  BY <2>1, <2>2
<1>7. ASSUME ~refused, sub.balance = 0, ~paid PROVE new.balance = 0
  <2>1. CASE off
    BY <1>7, <2>1
  <2>2. CASE ~off
    <3>1. changed.balance = 0
      <4>1. ~short
        BY <1>7, <2>2
      <4>2. CASE PriceOf(sub.tariff) < PriceOf(p)
        <5>1. changed.balance <= sub.balance
          BY <1>1, <1>2, <4>2, ChangedFacts
        <5>2. ~(changed.balance < 0)
          BY <4>1, <4>2
        <5> HIDE DEF changed
        <5> QED  BY <1>4, <1>7, <5>1, <5>2 DEF Sub
      <4>3. CASE ~(PriceOf(sub.tariff) < PriceOf(p))
        <5>1. changed.balance = sub.balance
          BY <1>1, <1>2, <1>7, <4>3, ChangedFacts
        <5> QED  BY <1>7, <5>1
      <4> QED  BY <4>2, <4>3
    <3> QED  BY <1>4, <2>2, <3>1, BoughtFacts
  <2> QED  BY <2>1, <2>2
<1>8. job \in {"give way", "store"}
  OBVIOUS
<1> HIDE DEF new, refused, job
<1>9. CASE refused
  BY <1>3, <1>9
<1>10. CASE ~refused
  <2>1. clerks' = [clerks EXCEPT ![c].new = new, ![c].job = job]
    BY <1>3, <1>10
  <2>2. clerks[c].base.balance >= 0 => new.balance >= 0
    BY <1>2, <1>6, <1>10
  <2>3. clerks[c].base.balance = 0 /\ ~EverPaid(u) => new.balance = 0
    BY <1>2, <1>7, <1>10 DEF paid
  <2> QED  BY <1>5, <1>8, <2>1, <2>2, <2>3, Zenon
<1> QED  BY <1>9, <1>10

-----------------------------------------------------------------------------
(* Types. *)

\* Who a clerk works for, by what it is at.
Assigned ==
    \A c \in Clerks :
        /\ clerks[c].job \in Jobs \ {"idle", "claim"} => clerks[c].user \in Users
        /\ clerks[c].job \in {"claim", "stop", "read", "award"} => clerks[c].payer \in Users

TickBound == renewed => count.ticks < MaxTicks

TypeInv == BillTypeOK /\ Assigned /\ TickBound

LEMMA IdleIsClerk == Idle \in Clerk
  BY NoPlanIsSub DEF Idle, Clerk, Jobs

\* Ending a grant or subscribing keeps the row's shape.
LEMMA EndedType ==
    ASSUME BillTypeOK, NEW u \in Users, NEW restore \in BOOLEAN
    PROVE  Ended(u, restore) \in Sub /\ Ended(u, restore).balance = subs[u].balance
<1> DEFINE plan == IF restore THEN grants[u].prev ELSE subs[u].tariff
<1>1. subs[u] \in Sub /\ grants[u] \in Grant
  BY DEF BillTypeOK
<1>2. plan \in Plans \cup {0}
  BY <1>1 DEF Sub, Grant
<1>3. Ended(u, restore) = subs[u] \/ Ended(u, restore) = [subs[u] EXCEPT !.time = 0, !.tariff = plan]
  BY Zenon DEF Ended
<1> HIDE DEF plan
<1>4. [subs[u] EXCEPT !.time = 0, !.tariff = plan] \in Sub
  BY <1>1, <1>2 DEF Sub
<1>5. [subs[u] EXCEPT !.time = 0, !.tariff = plan].balance = subs[u].balance
  BY <1>1 DEF Sub
<1> QED  BY <1>1, <1>3, <1>4, <1>5

LEMMA NoGrantIsGrant == NoGrant \in Grant
  BY DEF NoGrant, Grant

\* Money actions keep the types.
LEMMA TypeMoney ==
    ASSUME TypeInv, NEW i \in Invoices,
           CreditMonth(i) \/ Refund(i) \/ \E c \in Clerks : Pay(c, i)
    PROVE  TypeInv'
<1> DEFINE u == Payer[i]
<1>1. u \in Users /\ Amount[i] \in Nat
  BY BillingAssumption DEF BillingAssumption
<1>2. subs[u] \in Sub /\ ledger[u] \in Int
  BY <1>1 DEF TypeInv, BillTypeOK
<1>3. ASSUME NEW sub \in Sub, Put(u, sub) PROVE subs' \in [Users -> Sub] /\ subs'[u] = sub
  BY <1>1, <1>3 DEF Put, TypeInv, BillTypeOK
<1>4. ASSUME NEW cents \in Int, Book(u, cents) PROVE ledger' \in [Users -> Int]
  BY <1>1, <1>2, <1>4 DEF Book, TypeInv, BillTypeOK
<1> HIDE DEF u
<1>5. ASSUME NEW c \in Clerks, Pay(c, i) PROVE TypeInv'
  <2>1. Replenished(u, i) \in Sub
    BY <1>1, ReplenishedType DEF u, TypeInv
  <2>2. subs' \in [Users -> Sub] /\ subs'[u] \in Sub
    BY <1>3, <1>5, <2>1 DEF Pay, u
  <2>3. subs'[u].balance - subs[u].balance \in Int
    BY <1>2, <2>2 DEF Sub
  <2>4. ledger' \in [Users -> Int]
    BY <1>4, <1>5, <2>3 DEF Pay, u
  <2>5. grants' \in [Users -> Grant]
    BY <1>1, <1>5, NoGrantIsGrant DEF Pay, u, TypeInv, BillTypeOK
  <2>6. [Idle EXCEPT !.job = "claim", !.payer = u] \in Clerk
    BY <1>1, IdleIsClerk DEF Clerk, Jobs
  <2>7. clerks' = [clerks EXCEPT ![c] = [Idle EXCEPT !.job = "claim", !.payer = u]]
    BY <1>5 DEF Pay, u
  <2>8. clerks' \in [Clerks -> Clerk]
    BY <2>6, <2>7 DEF TypeInv, BillTypeOK
  <2>9. Assigned'
    BY <1>1, <2>7 DEF TypeInv, BillTypeOK, Assigned, Idle
  <2>10. invoices' \in [Invoices -> {"open", "paid", "refunded"}]
    BY <1>5 DEF Pay, TypeInv, BillTypeOK
  <2> QED
    BY <1>5, <2>2, <2>4, <2>5, <2>8, <2>9, <2>10 DEF Pay, TypeInv, BillTypeOK, TickBound
<1>6. CASE CreditMonth(i)
  <2> DEFINE new == [subs[u] EXCEPT !.balance = subs[u].balance + Amount[i]]
  <2>1. new \in Sub
    BY <1>1, <1>2 DEF Sub
  <2>2. subs' \in [Users -> Sub]
    BY <1>3, <1>6, <2>1 DEF CreditMonth, u
  <2>3. ledger' \in [Users -> Int]
    BY <1>1, <1>4, <1>6 DEF CreditMonth, u
  <2>4. invoices' \in [Invoices -> {"open", "paid", "refunded"}]
    BY <1>6 DEF CreditMonth, TypeInv, BillTypeOK
  <2> QED
    BY <1>6, <2>2, <2>3, <2>4 DEF CreditMonth, TypeInv, BillTypeOK, Assigned, TickBound
<1>7. CASE Refund(i)
  <2> DEFINE owing == [subs[u] EXCEPT !.balance = subs[u].balance - Amount[i]]
             new == IF owing.balance < 0 /\ Running(owing) /\ ~Granted(u)
                    THEN DebtPaid(owing) ELSE owing
  <2>1. owing \in Sub
    BY <1>1, <1>2 DEF Sub
  <2>2. Put(u, new)
    BY <1>7, Zenon DEF Refund, u
  <2> HIDE DEF owing
  <2>3. new \in Sub
    BY <2>1, DebtPaidType DEF Running, Sub
  <2> HIDE DEF new
  <2>4. subs' \in [Users -> Sub] /\ subs'[u] \in Sub
    BY <1>3, <2>2, <2>3
  <2>5. subs'[u].balance - subs[u].balance \in Int
    BY <1>2, <2>4 DEF Sub
  <2>6. ledger' \in [Users -> Int]
    BY <1>4, <1>7, <2>5 DEF Refund, u
  <2>7. invoices' \in [Invoices -> {"open", "paid", "refunded"}]
    BY <1>7 DEF Refund, TypeInv, BillTypeOK
  <2> QED
    BY <1>7, <2>4, <2>6, <2>7 DEF Refund, TypeInv, BillTypeOK, Assigned, TickBound
<1> QED  BY <1>5, <1>6, <1>7

\* So does the clock, and a tick is counted once.
LEMMA TypeClock ==
    ASSUME TypeInv, Clock
    PROVE  TypeInv'
<1> USE DEF TypeInv, BillTypeOK
<1>1. \A u \in Users : subs[u] \in Sub /\ subs[u].time \in Nat /\ subs[u].balance \in Int
  BY DEF Sub
<1>2. MaxTicks \in Nat
  BY BillingAssumption DEF BillingAssumption
<1>3. CASE Renew
  <2>1. ASSUME NEW u \in Users
        PROVE  subs'[u] \in Sub /\ ledger[u] + subs'[u].balance - subs[u].balance \in Int
    <3> DEFINE new == [subs[u] EXCEPT !.time = subs[u].time + Period,
                                     !.balance = subs[u].balance - PriceOf(subs[u].tariff)]
    <3>1. subs'[u] = IF Renewable(u) THEN new ELSE subs[u]
      BY <1>3, <2>1 DEF Renew
    <3>2. PriceOf(subs[u].tariff) \in Nat /\ Period \in Nat
      BY <1>1, <2>1, PricesAreNat, PeriodIsPositive DEF Sub
    <3>3. subs[u].time + Period \in Nat /\ subs[u].balance - PriceOf(subs[u].tariff) \in Int
      BY <1>1, <2>1, <3>2
    <3>4. new \in Sub
      BY <1>1, <2>1, <3>3 DEF Sub
    <3> HIDE DEF new
    <3>5. subs'[u] \in Sub
      BY <1>1, <2>1, <3>1, <3>4
    <3>6. subs'[u].balance \in Int /\ ledger[u] \in Int
      BY <2>1, <3>5 DEF Sub
    <3> QED  BY <1>1, <2>1, <3>5, <3>6
  <2>2. subs' \in [Users -> Sub]
    BY <1>3, <2>1 DEF Renew
  <2>3. ledger' \in [Users -> Int]
    BY <1>3, <2>1 DEF Renew
  <2> QED  BY <1>3, <2>2, <2>3 DEF Renew, Assigned, TickBound
<1>4. ASSUME count' = [count EXCEPT !.ticks = count.ticks + 1], renewed
      PROVE  count' \in [ticks : 0..MaxTicks, changes : 0..MaxChanges, grants : 0..MaxGrants]
  <2>1. count.ticks + 1 \in 0..MaxTicks
    BY <1>2, <1>4 DEF TickBound
  <2> QED  BY <1>4, <2>1
<1>5. CASE CountDown
  <2>1. ASSUME NEW u \in Users PROVE subs'[u] \in Sub
    <3>1. subs'[u] = IF Running(subs[u]) THEN [subs[u] EXCEPT !.time = subs[u].time - 1] ELSE subs[u]
      BY <1>5, <2>1 DEF CountDown
    <3>2. Running(subs[u]) => subs[u].time - 1 \in Nat
      BY <1>1, <2>1 DEF Running
    <3> QED  BY <1>1, <2>1, <3>1, <3>2 DEF Sub
  <2>2. subs' \in [Users -> Sub]
    BY <1>5, <2>1 DEF CountDown
  <2> QED  BY <1>4, <1>5, <2>2 DEF CountDown, Assigned, TickBound
<1>6. CASE TickDies
  BY <1>4, <1>6 DEF TickDies, history, Assigned, TickBound
<1> QED  BY <1>3, <1>5, <1>6 DEF Clock

\* So do the grants.
LEMMA TypeGrants ==
    ASSUME TypeInv, NEW u \in Users, StartGrant(u) \/ HoldGrant(u) \/ EndGrant(u)
    PROVE  TypeInv'
<1>1. subs[u] \in Sub /\ subs[u].tariff \in Plans \cup {0}
  BY DEF TypeInv, BillTypeOK, Sub
<1>2. HoldHours \in Nat /\ GrantPlan \in Plans \cup {0} /\ MaxGrants \in Nat
  BY BillingAssumption DEF BillingAssumption
<1>3. ASSUME NEW sub \in Sub, Put(u, sub) PROVE subs' \in [Users -> Sub]
  BY <1>3 DEF Put, TypeInv, BillTypeOK
<1>4. CASE StartGrant(u)
  <2>1. [subs[u] EXCEPT !.tariff = GrantPlan, !.time = HoldHours] \in Sub
    BY <1>1, <1>2 DEF Sub
  <2>2. subs' \in [Users -> Sub]
    BY <1>3, <1>4, <2>1 DEF StartGrant
  <2>3. [plan |-> GrantPlan, prev |-> subs[u].tariff] \in Grant
    BY <1>1, <1>2 DEF Grant
  <2>4. grants' \in [Users -> Grant]
    BY <1>4, <2>3 DEF StartGrant, TypeInv, BillTypeOK
  <2>5. count' \in [ticks : 0..MaxTicks, changes : 0..MaxChanges, grants : 0..MaxGrants]
        /\ count'.ticks = count.ticks
    <3>1. count.grants + 1 \in 0..MaxGrants
      BY <1>2, <1>4 DEF StartGrant, TypeInv, BillTypeOK
    <3> QED  BY <1>4, <3>1 DEF StartGrant, TypeInv, BillTypeOK
  <2> QED
    BY <1>4, <2>2, <2>4, <2>5 DEF StartGrant, history, TypeInv, BillTypeOK, Assigned, TickBound
<1>5. CASE HoldGrant(u)
  <2>1. subs' \in [Users -> Sub] /\ grants' \in [Users -> Grant]
    <3>1. [subs[u] EXCEPT !.time = HoldHours] \in Sub
      BY <1>1, <1>2 DEF Sub
    <3>2. CASE Held(u)
      BY <1>3, <1>5, <3>1, <3>2 DEF HoldGrant, TypeInv, BillTypeOK
    <3>3. CASE ~Held(u)
      BY <1>5, <3>3, NoGrantIsGrant DEF HoldGrant, TypeInv, BillTypeOK
    <3> QED  BY <3>2, <3>3
  <2> QED  BY <1>5, <2>1 DEF HoldGrant, history, TypeInv, BillTypeOK, Assigned, TickBound
<1>6. CASE EndGrant(u)
  <2>1. subs' \in [Users -> Sub]
    BY <1>3, <1>6, EndedType DEF EndGrant, TypeInv
  <2>2. grants' \in [Users -> Grant]
    BY <1>6, NoGrantIsGrant DEF EndGrant, TypeInv, BillTypeOK
  <2> QED  BY <1>6, <2>1, <2>2 DEF EndGrant, history, TypeInv, BillTypeOK, Assigned, TickBound
<1> QED  BY <1>4, <1>5, <1>6

\* So does a change of plan, at each of its steps.
LEMMA TypeChange ==
    ASSUME TypeInv, NEW c \in Clerks,
           \/ \E u \in Users, p \in Plans \cup {0} : AskPlan(c, u, p)
           \/ Decide(c) \/ GiveWay(c) \/ Store(c) \/ ClerkDies(c)
    PROVE  TypeInv'
<1> DEFINE u == clerks[c].user
<1>1. clerks[c] \in Clerk /\ clerks[c].base \in Sub /\ clerks[c].new \in Sub
  BY DEF TypeInv, BillTypeOK, Clerk
<1>2. MaxChanges \in Nat
  BY BillingAssumption DEF BillingAssumption
<1>3. ASSUME clerks' = [clerks EXCEPT ![c] = Idle]
      PROVE  clerks' \in [Clerks -> Clerk] /\ Assigned'
  BY <1>3, IdleIsClerk DEF TypeInv, BillTypeOK, Assigned, Idle
<1>4. ASSUME NEW w \in Users, NEW p \in Plans \cup {0}, AskPlan(c, w, p) PROVE TypeInv'
  <2> DEFINE clerk == [Idle EXCEPT !.job = "decide", !.user = w, !.want = p, !.base = subs[w]]
  <2>1. clerk \in Clerk /\ clerk.job = "decide" /\ clerk.user = w
    <3>1. subs[w] \in Sub
      BY <1>4 DEF TypeInv, BillTypeOK
    <3> DEFINE asked == [Idle EXCEPT !.job = "decide", !.user = w]
    <3>2. asked \in Clerk /\ asked.job = "decide" /\ asked.user = w
      BY IdleIsClerk DEF Clerk, Jobs
    <3>3. clerk = [asked EXCEPT !.want = p, !.base = subs[w]]
      OBVIOUS
    <3> HIDE DEF asked, clerk
    <3> QED  BY <1>4, <3>1, <3>2, <3>3 DEF Clerk
  <2>2. clerks' = [clerks EXCEPT ![c] = clerk]
    BY <1>4 DEF AskPlan
  <2> HIDE DEF clerk
  <2>3. clerks' \in [Clerks -> Clerk] /\ Assigned'
    BY <1>4, <2>1, <2>2 DEF TypeInv, BillTypeOK, Assigned
  <2>4. count' \in [ticks : 0..MaxTicks, changes : 0..MaxChanges, grants : 0..MaxGrants]
        /\ count'.ticks = count.ticks
    <3>1. count.changes < MaxChanges /\ count' = [count EXCEPT !.changes = count.changes + 1]
      BY <1>4 DEF AskPlan
    <3>2. count.changes + 1 \in 0..MaxChanges
      BY <1>2, <3>1 DEF TypeInv, BillTypeOK
    <3> QED  BY <3>1, <3>2 DEF TypeInv, BillTypeOK
  <2> QED  BY <1>4, <2>3, <2>4 DEF AskPlan, history, TypeInv, BillTypeOK, TickBound
<1>5. CASE Decide(c)
  <2>1. u \in Users
    BY <1>5 DEF Decide, Working, TypeInv, Assigned, Jobs
  <2>2. clerks' \in [Clerks -> Clerk] /\ Assigned'
    <3>1. CASE clerks' = [clerks EXCEPT ![c] = Idle]
      BY <1>3, <3>1
    <3>2. ASSUME NEW new \in Sub, NEW job \in {"give way", "store"},
                 clerks' = [clerks EXCEPT ![c].new = new, ![c].job = job]
          PROVE  clerks' \in [Clerks -> Clerk] /\ Assigned'
      <4>1. [clerks[c] EXCEPT !.new = new, !.job = job] \in Clerk
        BY <1>1 DEF Clerk, Jobs
      <4>2. clerks' = [clerks EXCEPT ![c] = [clerks[c] EXCEPT !.new = new, !.job = job]]
        BY <3>2 DEF TypeInv, BillTypeOK
      <4>3. [clerks[c] EXCEPT !.new = new, !.job = job].user = u
            /\ [clerks[c] EXCEPT !.new = new, !.job = job].job = job
        BY <1>1 DEF Clerk
      <4> QED  BY <2>1, <4>1, <4>2, <4>3 DEF TypeInv, BillTypeOK, Assigned
    <3> QED  BY <1>5, <2>1, <3>1, <3>2, DecideCases DEF TypeInv
  <2> QED  BY <1>5, <2>2 DEF Decide, history, TypeInv, BillTypeOK, TickBound
<1>6. CASE GiveWay(c)
  <2>1. u \in Users
    BY <1>6 DEF GiveWay, Working, TypeInv, Assigned, Jobs
  <2>2. Ended(u, FALSE) \in Sub
    BY <2>1, EndedType DEF TypeInv
  <2>3. subs' \in [Users -> Sub] /\ grants' \in [Users -> Grant]
    BY <1>6, <2>1, <2>2, NoGrantIsGrant DEF GiveWay, Put, TypeInv, BillTypeOK
  <2> DEFINE base == IF clerks[c].base = subs[u] THEN subs'[u] ELSE clerks[c].base
             clerk == [clerks[c] EXCEPT !.job = "store", !.base = base]
  <2>4. base \in Sub
    BY <1>1, <2>1, <2>3
  <2>5. clerks' = [clerks EXCEPT ![c] = clerk]
    BY <1>1, <1>6 DEF GiveWay, TypeInv, BillTypeOK, Clerk
  <2> HIDE DEF base
  <2>6. clerk \in Clerk /\ clerk.user = u /\ clerk.job = "store"
    BY <1>1, <2>4 DEF Clerk, Jobs
  <2> HIDE DEF clerk
  <2>7. clerks' \in [Clerks -> Clerk] /\ Assigned'
    BY <2>1, <2>5, <2>6 DEF TypeInv, BillTypeOK, Assigned
  <2> QED  BY <1>6, <2>3, <2>7 DEF GiveWay, history, TypeInv, BillTypeOK, TickBound
<1>7. CASE Store(c)
  <2>1. u \in Users
    BY <1>7 DEF Store, Working, TypeInv, Assigned, Jobs
  <2>2. subs' \in [Users -> Sub] /\ grants' \in [Users -> Grant]
    BY <1>1, <1>7, <2>1, NoGrantIsGrant DEF Store, Subscribe, Put, TypeInv, BillTypeOK
  <2>3. clerks[c].new.balance - clerks[c].base.balance \in Int
    BY <1>1 DEF Sub
  <2>4. ledger' \in [Users -> Int]
    BY <1>7, <2>1, <2>3 DEF Store, Book, TypeInv, BillTypeOK
  <2>5. overwritten' \subseteq Users
    BY <1>7, <2>1 DEF Store, Overwrites, TypeInv, BillTypeOK
  <2>6. clerks' \in [Clerks -> Clerk] /\ Assigned'
    BY <1>3, <1>7 DEF Store, Done
  <2> QED
    BY <1>7, <2>2, <2>4, <2>5, <2>6 DEF Store, TypeInv, BillTypeOK, TickBound
<1>8. CASE ClerkDies(c)
  BY <1>3, <1>8 DEF ClerkDies, Done, history, TypeInv, BillTypeOK, TickBound
<1> QED  BY <1>4, <1>5, <1>6, <1>7, <1>8

\* So does an award.
LEMMA TypeAward ==
    ASSUME TypeInv, NEW c \in Clerks,
           ClaimReferrer(c) \/ StopGrant(c) \/ ReadForAward(c) \/ Award(c)
    PROVE  TypeInv'
<1> DEFINE u == clerks[c].user
           payer == clerks[c].payer
<1>1. clerks[c] \in Clerk /\ clerks[c].base \in Sub
  BY DEF TypeInv, BillTypeOK, Clerk
<1>2. ASSUME clerks' = [clerks EXCEPT ![c] = Idle]
      PROVE  clerks' \in [Clerks -> Clerk] /\ Assigned'
  BY <1>2, IdleIsClerk DEF TypeInv, BillTypeOK, Assigned, Idle
<1>3. ASSUME NEW clerk \in Clerk, clerk.user \in Users, clerk.payer \in Users,
             clerks' = [clerks EXCEPT ![c] = clerk]
      PROVE  clerks' \in [Clerks -> Clerk] /\ Assigned'
  BY <1>3 DEF TypeInv, BillTypeOK, Assigned
<1>4. CASE ClaimReferrer(c)
  <2>1. payer \in Users /\ inviter[payer] \in Users \cup {Nobody}
    BY <1>4 DEF ClaimReferrer, Working, TypeInv, BillTypeOK, Assigned
  <2>2. inviter' \in [Users -> Users \cup {Nobody}]
    BY <1>4, <2>1 DEF ClaimReferrer, TypeInv, BillTypeOK
  <2>3. clerks' \in [Clerks -> Clerk] /\ Assigned'
    <3>1. CASE inviter[payer] \in Users \ {payer}
      <4> DEFINE clerk == [clerks[c] EXCEPT !.job = "stop", !.user = inviter[payer]]
      <4>1. clerk \in Clerk /\ clerk.user \in Users /\ clerk.payer \in Users
        BY <1>1, <2>1, <3>1 DEF Clerk, Jobs
      <4>2. clerks' = [clerks EXCEPT ![c] = clerk]
        BY <1>4, <3>1 DEF ClaimReferrer, TypeInv, BillTypeOK
      <4> HIDE DEF clerk
      <4> QED  BY <1>3, <4>1, <4>2
    <3>2. CASE ~(inviter[payer] \in Users \ {payer})
      BY <1>2, <1>4, <3>2 DEF ClaimReferrer, Done
    <3> QED  BY <3>1, <3>2
  <2> QED  BY <1>4, <2>2, <2>3 DEF ClaimReferrer, history, TypeInv, BillTypeOK, TickBound
<1>5. CASE StopGrant(c)
  <2>1. u \in Users /\ payer \in Users
    BY <1>5 DEF StopGrant, Working, TypeInv, Assigned, Jobs
  <2>2. subs' \in [Users -> Sub] /\ grants' \in [Users -> Grant]
    BY <1>5, <2>1, EndedType, NoGrantIsGrant DEF StopGrant, Put, TypeInv, BillTypeOK
  <2> DEFINE clerk == [clerks[c] EXCEPT !.job = "read"]
  <2>3. clerk \in Clerk /\ clerk.user \in Users /\ clerk.payer \in Users
    BY <1>1, <2>1 DEF Clerk, Jobs
  <2>4. clerks' = [clerks EXCEPT ![c] = clerk]
    BY <1>5 DEF StopGrant, Move, TypeInv, BillTypeOK
  <2> HIDE DEF clerk
  <2>5. clerks' \in [Clerks -> Clerk] /\ Assigned'
    BY <1>3, <2>3, <2>4
  <2> QED  BY <1>5, <2>2, <2>5 DEF StopGrant, history, TypeInv, BillTypeOK, TickBound
<1>6. CASE ReadForAward(c)
  <2>1. u \in Users /\ payer \in Users /\ subs[u] \in Sub
    BY <1>6 DEF ReadForAward, Working, TypeInv, BillTypeOK, Assigned, Jobs
  <2> DEFINE clerk == [clerks[c] EXCEPT !.job = "award", !.base = subs[u]]
  <2>2. clerk \in Clerk /\ clerk.user \in Users /\ clerk.payer \in Users
    BY <1>1, <2>1 DEF Clerk, Jobs
  <2>3. clerks' = [clerks EXCEPT ![c] = clerk]
    BY <1>6 DEF ReadForAward, TypeInv, BillTypeOK
  <2> HIDE DEF clerk
  <2>4. clerks' \in [Clerks -> Clerk] /\ Assigned'
    BY <1>3, <2>2, <2>3
  <2> QED  BY <1>6, <2>4 DEF ReadForAward, history, TypeInv, BillTypeOK, TickBound
<1>7. CASE Award(c)
  <2> DEFINE base == clerks[c].base
             new == [base EXCEPT !.tariff = TopPlan, !.time = base.time + AwardHours]
  <2>1. u \in Users /\ payer \in Users
    BY <1>7 DEF Award, Working, TypeInv, Assigned, Jobs
  <2>2. new \in Sub
    <3>1. TopPlan \in Plans /\ AwardHours \in Nat
      BY BillingAssumption DEF BillingAssumption
    <3> DEFINE time == base.time + AwardHours
    <3>2. base \in Sub /\ time \in Nat
      BY <1>1, <3>1 DEF Sub
    <3> HIDE DEF base, time
    <3>3. [base EXCEPT !.tariff = TopPlan, !.time = time] \in Sub
      BY <3>1, <3>2 DEF Sub
    <3> QED  BY <3>3 DEF time
  <2> HIDE DEF new
  <2>3. Subscribe(u, new) /\ Overwrites(c, u)
        /\ gifts' = [gifts EXCEPT ![u] = gifts[u] + Worth(new) - Worth(base)]
        /\ awarded' = [awarded EXCEPT ![payer] = awarded[payer] + 1]
    BY <1>7 DEF Award, new
  <2>4. subs' \in [Users -> Sub] /\ grants' \in [Users -> Grant]
    BY <2>1, <2>2, <2>3, NoGrantIsGrant DEF Subscribe, Put, TypeInv, BillTypeOK
  <2>5. Worth(new) \in Int /\ Worth(base) \in Int
    BY <1>1, <2>2, PricesAreNat, Products DEF Worth, Sub
  <2>6. gifts' \in [Users -> Int] /\ awarded' \in [Users -> Nat]
    BY <2>1, <2>3, <2>5 DEF TypeInv, BillTypeOK
  <2>7. overwritten' \subseteq Users
    BY <2>1, <2>3 DEF Overwrites, TypeInv, BillTypeOK
  <2>8. clerks' \in [Clerks -> Clerk] /\ Assigned'
    BY <1>2, <1>7 DEF Award, Done
  <2> QED
    BY <1>7, <2>4, <2>6, <2>7, <2>8 DEF Award, TypeInv, BillTypeOK, TickBound
<1> QED  BY <1>4, <1>5, <1>6, <1>7

LEMMA TypeStep ==
    ASSUME TypeInv, [BillNext]_billVars
    PROVE  TypeInv'
<1>1. CASE Money
  BY <1>1, TypeMoney DEF Money
<1>2. CASE Clock
  BY <1>2, TypeClock
<1>3. CASE GrantCheck
  BY <1>3, TypeGrants DEF GrantCheck
<1>4. ASSUME NEW c \in Clerks, Work(c) PROVE TypeInv'
  BY <1>4, TypeChange, TypeAward DEF Work
<1>5. CASE UNCHANGED billVars
  BY <1>5 DEF billVars, history, TypeInv, BillTypeOK, Assigned, TickBound
<1> QED  BY <1>1, <1>2, <1>3, <1>4, <1>5 DEF BillNext

LEMMA TypeStart == BillInit => TypeInv
<1> SUFFICES ASSUME BillInit PROVE TypeInv
  OBVIOUS
<1>1. ASSUME NEW u \in Users PROVE Welcome(u) \in Sub /\ Worth(Welcome(u)) \in Int
  <2>1. Welcome(u) \in Sub
    BY NoPlanIsSub, BillingAssumption DEF Welcome, Sub, BillingAssumption
  <2> QED  BY <2>1, PricesAreNat, Products DEF Worth, Sub
<1>2. MaxTicks \in Nat /\ MaxChanges \in Nat /\ MaxGrants \in Nat
      /\ InvitedBy \in [Users -> Users \cup {Nobody}]
  BY BillingAssumption DEF BillingAssumption
<1>3. clerks \in [Clerks -> Clerk] /\ Assigned
  BY IdleIsClerk DEF BillInit, Assigned, Idle
<1>4. subs \in [Users -> Sub] /\ gifts \in [Users -> Int]
  BY <1>1 DEF BillInit
<1>5. count \in [ticks : 0..MaxTicks, changes : 0..MaxChanges, grants : 0..MaxGrants]
  BY <1>2 DEF BillInit
<1>6. /\ grants \in [Users -> Grant] /\ invoices \in [Invoices -> {"open", "paid", "refunded"}]
      /\ inviter \in [Users -> Users \cup {Nobody}] /\ renewed = FALSE
      /\ ledger \in [Users -> Int] /\ awarded \in [Users -> Nat] /\ overwritten \subseteq Users
  BY <1>2, NoGrantIsGrant DEF BillInit
<1> QED  BY <1>3, <1>4, <1>5, <1>6 DEF TypeInv, BillTypeOK, TickBound

\* Through every order of payments, ticks, grants, changes and awards, no row has
\* negative hours (nobody is counted down twice past the end), no balance is
\* anything but cents, and no counter passes its bound.
THEOREM BillTypeCorrect == BillSpec => []BillTypeOK
<1>1. BillSpec => []TypeInv
  BY TypeStart, TypeStep, PTL DEF BillSpec
<1>2. TypeInv => BillTypeOK
  BY DEF TypeInv
<1> QED  BY <1>1, <1>2, PTL

-----------------------------------------------------------------------------
(* Balances: what a user's invoices allow on the row, and in the hands of  *)
(* the clerks that are about to write it.                                  *)

Refunded(u) == \E i \in Invoices : Payer[i] = u /\ invoices[i] = "refunded"
Touched(u) == \E i \in Invoices : Payer[i] = u /\ invoices[i] # "open"

Allowed(u) == IF Refunded(u) THEN Int ELSE IF Touched(u) THEN Nat ELSE {0}

ClerkAllowed(c) == /\ clerks[c].base.balance \in Allowed(clerks[c].user)
                   /\ clerks[c].new.balance \in Allowed(clerks[c].user)

MoneyInv == /\ \A u \in Users : subs[u].balance \in Allowed(u)
            /\ \A c \in Clerks : ClerkAllowed(c)

LEMMA AllowedSets ==
    ASSUME NEW u
    PROVE  0 \in Allowed(u) /\ Allowed(u) \subseteq Int
  BY DEF Allowed

LEMMA AllowedKept ==
    ASSUME NEW u, NEW before \in Allowed(u), NEW after \in Int,
           before >= 0 => after >= 0,
           before = 0 /\ ~Touched(u) => after = 0
    PROVE  after \in Allowed(u)
<1>1. CASE Refunded(u)
  BY <1>1 DEF Allowed
<1>2. CASE ~Refunded(u) /\ Touched(u)
  BY <1>2 DEF Allowed
<1>3. CASE ~Refunded(u) /\ ~Touched(u)
  BY <1>3 DEF Allowed
<1> QED  BY <1>1, <1>2, <1>3

\* An invoice never opens again, and a refund is for good.
LEMMA AllowedGrows ==
    ASSUME TypeInv, [BillNext]_billVars, NEW u
    PROVE  Allowed(u) \subseteq Allowed(u)'
<1>1. ASSUME NEW i \in Invoices
      PROVE  /\ invoices[i] # "open" => invoices'[i] # "open"
             /\ invoices[i] = "refunded" => invoices'[i] = "refunded"
  <2>1. CASE UNCHANGED invoices
    BY <2>1
  <2>2. ASSUME NEW j \in Invoices, Refund(j) \/ CreditMonth(j) \/ \E c \in Clerks : Pay(c, j)
        PROVE  /\ invoices[i] # "open" => invoices'[i] # "open"
               /\ invoices[i] = "refunded" => invoices'[i] = "refunded"
    BY <2>2 DEF Refund, CreditMonth, Pay, TypeInv, BillTypeOK
  <2>3. Clock \/ GrantCheck \/ UNCHANGED billVars => UNCHANGED invoices
    BY DEF Clock, Renew, CountDown, TickDies, GrantCheck, StartGrant, HoldGrant, EndGrant, billVars
  <2>4. ASSUME NEW c \in Clerks, Work(c) PROVE UNCHANGED invoices
    BY <2>4 DEF Work, AskPlan, Decide, GiveWay, Store, ClaimReferrer, StopGrant, ReadForAward,
                Award, ClerkDies
  <2> QED  BY <2>1, <2>2, <2>3, <2>4 DEF BillNext, Money
<1>2. (Refunded(u) => Refunded(u)') /\ (Touched(u) => Touched(u)')
  BY <1>1 DEF Refunded, Touched
<1>3. Refunded(u) => Touched(u)
  BY DEF Refunded, Touched
<1> QED  BY <1>2, <1>3 DEF Allowed

\* Only the clerk that takes a step changes, and only the row it writes.
LEMMA AllowedUpdate ==
    ASSUME TypeInv, MoneyInv, [BillNext]_billVars,
           NEW c \in Clerks, NEW clerk, NEW u \in Users, NEW sub,
           clerk.base.balance \in Allowed(clerk.user)', clerk.new.balance \in Allowed(clerk.user)',
           sub.balance \in Allowed(u)',
           clerks' = [clerks EXCEPT ![c] = clerk],
           subs' = [subs EXCEPT ![u] = sub]
    PROVE  MoneyInv'
<1>1. ASSUME NEW w \in Users PROVE subs'[w].balance \in Allowed(w)'
  <2>1. CASE w = u
    BY <2>1 DEF TypeInv, BillTypeOK
  <2>2. CASE w # u
    BY <2>2, AllowedGrows DEF TypeInv, BillTypeOK, MoneyInv
  <2> QED  BY <2>1, <2>2
<1>2. ASSUME NEW d \in Clerks PROVE ClerkAllowed(d)'
  <2>1. CASE d = c
    BY <2>1 DEF TypeInv, BillTypeOK, ClerkAllowed
  <2>2. CASE d # c
    <3>1. clerks'[d] = clerks[d]
      BY <2>2 DEF TypeInv, BillTypeOK
    <3> QED  BY <3>1, AllowedGrows DEF MoneyInv, ClerkAllowed
  <2> QED  BY <2>1, <2>2
<1> QED  BY <1>1, <1>2 DEF MoneyInv

LEMMA AllowedClerk ==
    ASSUME TypeInv, MoneyInv, [BillNext]_billVars,
           NEW c \in Clerks, NEW clerk,
           clerk.base.balance \in Allowed(clerk.user)', clerk.new.balance \in Allowed(clerk.user)',
           clerks' = [clerks EXCEPT ![c] = clerk], UNCHANGED subs
    PROVE  MoneyInv'
<1>1. ASSUME NEW w \in Users PROVE subs'[w].balance \in Allowed(w)'
  BY AllowedGrows DEF MoneyInv
<1>2. ASSUME NEW d \in Clerks PROVE ClerkAllowed(d)'
  <2>1. CASE d = c
    BY <2>1 DEF TypeInv, BillTypeOK, ClerkAllowed
  <2>2. CASE d # c
    <3>1. clerks'[d] = clerks[d]
      BY <2>2 DEF TypeInv, BillTypeOK
    <3> QED  BY <3>1, AllowedGrows DEF MoneyInv, ClerkAllowed
  <2> QED  BY <2>1, <2>2
<1> QED  BY <1>1, <1>2 DEF MoneyInv

\* Steps of the tick, the grants and the money of Patreon touch no clerk.
LEMMA AllowedRows ==
    ASSUME TypeInv, MoneyInv, [BillNext]_billVars, UNCHANGED clerks,
           \A u \in Users : subs'[u].balance \in Allowed(u)'
    PROVE  MoneyInv'
<1>1. ASSUME NEW d \in Clerks PROVE ClerkAllowed(d)'
  BY AllowedGrows DEF MoneyInv, ClerkAllowed
<1> QED  BY <1>1 DEF MoneyInv

LEMMA AllowedIdle ==
    ASSUME NEW u
    PROVE  Idle.base.balance \in Allowed(u)' /\ Idle.new.balance \in Allowed(u)'
  BY DEF Idle, NoPlan, Allowed

LEMMA MoneyPay ==
    ASSUME TypeInv, MoneyInv, [BillNext]_billVars, NEW i \in Invoices,
           CreditMonth(i) \/ Refund(i) \/ \E c \in Clerks : Pay(c, i)
    PROVE  MoneyInv'
<1> DEFINE u == Payer[i]
<1>1. u \in Users /\ Amount[i] \in Nat
  BY BillingAssumption DEF BillingAssumption
<1>2. subs[u] \in Sub /\ subs[u].balance \in Int /\ subs[u].balance \in Allowed(u)
  BY <1>1 DEF TypeInv, BillTypeOK, Sub, MoneyInv
<1>3. ASSUME NEW sub \in Sub, invoices' = [invoices EXCEPT ![i] = "paid"],
             subs[u].balance >= 0 => sub.balance >= 0
      PROVE  sub.balance \in Allowed(u)'
  <2>1. invoices'[i] = "paid" /\ Touched(u)'
    BY <1>3 DEF TypeInv, BillTypeOK, Touched
  <2>2. CASE Refunded(u)'
    BY <2>2 DEF Allowed, Sub
  <2>3. CASE ~Refunded(u)'
    <3>1. Allowed(u)' = Nat
      BY <2>1, <2>3 DEF Allowed
    <3>2. subs[u].balance \in Nat
      BY <1>2, <3>1, AllowedGrows
    <3> QED  BY <1>3, <3>1, <3>2 DEF Sub
  <2> QED  BY <2>2, <2>3
<1> HIDE DEF u
<1>4. ASSUME NEW c \in Clerks, Pay(c, i) PROVE MoneyInv'
  <2>1. Replenished(u, i) \in Sub
    BY <1>1, ReplenishedType DEF u, TypeInv
  <2>2. subs[u].balance >= 0 => Replenished(u, i).balance >= 0
    <3>1. ASSUME NEW plan \in Plans, subs[u].balance + Amount[i] >= PriceOf(plan)
          PROVE  (subs[u].balance + Amount[i]) - PriceOf(plan) >= 0
      BY <1>1, <1>2, <3>1, PricesAreNat
    <3>2. subs[u].balance >= 0 => subs[u].balance + Amount[i] >= 0
      BY <1>1, <1>2
    <3> QED  BY <1>1, <1>2, <3>1, <3>2, ReplenishedCases DEF u, TypeInv, Sub
  <2>3. Replenished(u, i).balance \in Allowed(u)'
    BY <1>3, <1>4, <2>1, <2>2 DEF Pay
  <2> DEFINE clerk == [Idle EXCEPT !.job = "claim", !.payer = u]
  <2>4. clerk.base.balance \in Allowed(clerk.user)' /\ clerk.new.balance \in Allowed(clerk.user)'
    BY AllowedIdle DEF Idle
  <2>5. clerks' = [clerks EXCEPT ![c] = clerk] /\ subs' = [subs EXCEPT ![u] = Replenished(u, i)]
    BY <1>4 DEF Pay, Put, u
  <2> HIDE DEF clerk
  <2> QED  BY <1>1, <2>3, <2>4, <2>5, AllowedUpdate
<1>5. ASSUME NEW sub, Put(u, sub), sub.balance \in Allowed(u)', UNCHANGED clerks PROVE MoneyInv'
  <2>1. ASSUME NEW w \in Users PROVE subs'[w].balance \in Allowed(w)'
    <3>1. CASE w = u
      BY <1>5, <3>1 DEF Put, TypeInv, BillTypeOK
    <3>2. CASE w # u
      BY <1>5, <3>2, AllowedGrows DEF Put, TypeInv, BillTypeOK, MoneyInv
    <3> QED  BY <3>1, <3>2
  <2> QED  BY <1>5, <2>1, AllowedRows
<1>6. CASE CreditMonth(i)
  <2> DEFINE new == [subs[u] EXCEPT !.balance = subs[u].balance + Amount[i]]
  <2>1. new \in Sub /\ (subs[u].balance >= 0 => new.balance >= 0)
    BY <1>1, <1>2 DEF Sub
  <2>2. Put(u, new) /\ invoices' = [invoices EXCEPT ![i] = "paid"] /\ UNCHANGED clerks
    BY <1>6 DEF CreditMonth, u
  <2> HIDE DEF new
  <2> QED  BY <1>3, <1>5, <2>1, <2>2
<1>7. CASE Refund(i)
  <2>1. Allowed(u)' = Int
    <3>1. invoices'[i] = "refunded"
      BY <1>7 DEF Refund, TypeInv, BillTypeOK
    <3> QED  BY <3>1 DEF Allowed, Refunded, u
  <2>2. TypeInv'
    BY <1>7, TypeMoney
  <2>3. subs'[u].balance \in Allowed(u)'
    BY <1>1, <2>1, <2>2 DEF TypeInv, BillTypeOK, Sub
  <2>4. PICK sub : Put(u, sub)
    BY <1>7, Zenon DEF Refund, u
  <2>5. subs'[u] = sub
    BY <1>1, <2>4 DEF Put, TypeInv, BillTypeOK
  <2> QED  BY <1>5, <1>7, <2>3, <2>4, <2>5 DEF Refund
<1> QED  BY <1>4, <1>6, <1>7

LEMMA MoneyClock ==
    ASSUME TypeInv, MoneyInv, [BillNext]_billVars, Clock
    PROVE  MoneyInv'
<1>1. ASSUME NEW u \in Users, subs'[u].balance = subs[u].balance
      PROVE  subs'[u].balance \in Allowed(u)'
  BY <1>1, AllowedGrows DEF MoneyInv
<1>2. ASSUME NEW u \in Users PROVE subs[u] \in Sub
  BY <1>2 DEF TypeInv, BillTypeOK
<1>3. CASE Renew
  <2>1. ASSUME NEW u \in Users PROVE subs'[u].balance \in Allowed(u)'
    <3> DEFINE price == PriceOf(subs[u].tariff)
               money == subs[u].balance - price
               new == [subs[u] EXCEPT !.time = subs[u].time + Period, !.balance = money]
    <3>1. subs'[u] = IF Renewable(u) THEN new ELSE subs[u]
      BY <1>3, <2>1 DEF Renew
    <3>2. CASE Renewable(u)
      <4>1. price \in Nat \ {0} /\ subs[u].balance \in Int /\ subs[u].balance >= price
        BY <1>2, <2>1, <3>2, PricesArePositive DEF Renewable, Sub
      <4>2. money \in Nat /\ subs[u].balance # 0
        BY <4>1
      <4>3. money \in Allowed(u)
        BY <2>1, <4>2 DEF MoneyInv, Allowed
      <4> HIDE DEF money
      <4>4. new.balance = money
        BY <1>2, <2>1 DEF Sub
      <4> HIDE DEF new
      <4> QED  BY <2>1, <3>1, <3>2, <4>3, <4>4, AllowedGrows
    <3>3. CASE ~Renewable(u)
      BY <1>1, <2>1, <3>1, <3>3
    <3> QED  BY <3>2, <3>3
  <2> QED  BY <1>3, <2>1, AllowedRows DEF Renew
<1>4. CASE CountDown
  <2>1. ASSUME NEW u \in Users PROVE subs'[u].balance = subs[u].balance
    <3>1. subs'[u] = IF Running(subs[u]) THEN [subs[u] EXCEPT !.time = subs[u].time - 1] ELSE subs[u]
      BY <1>4, <2>1 DEF CountDown
    <3> QED  BY <1>2, <2>1, <3>1 DEF Sub
  <2> QED  BY <1>1, <1>4, <2>1, AllowedRows DEF CountDown
<1>5. CASE TickDies
  BY <1>1, <1>5, AllowedRows DEF TickDies
<1> QED  BY <1>3, <1>4, <1>5 DEF Clock

LEMMA MoneyGrants ==
    ASSUME TypeInv, MoneyInv, [BillNext]_billVars,
           NEW u \in Users, StartGrant(u) \/ HoldGrant(u) \/ EndGrant(u)
    PROVE  MoneyInv'
<1>1. subs[u] \in Sub
  BY DEF TypeInv, BillTypeOK
<1>2. subs' = subs \/ \E sub : Put(u, sub) /\ sub.balance = subs[u].balance
  <2>1. CASE StartGrant(u)
    <3> DEFINE new == [subs[u] EXCEPT !.tariff = GrantPlan, !.time = HoldHours]
    <3>1. Put(u, new)
      BY <2>1 DEF StartGrant
    <3>2. new.balance = subs[u].balance
      BY <1>1 DEF Sub
    <3> QED  BY <3>1, <3>2, Zenon
  <2>2. CASE HoldGrant(u)
    <3> DEFINE new == [subs[u] EXCEPT !.time = HoldHours]
    <3>1. Put(u, new) \/ subs' = subs
      BY <2>2 DEF HoldGrant
    <3>2. new.balance = subs[u].balance
      BY <1>1 DEF Sub
    <3> QED  BY <3>1, <3>2, Zenon
  <2>3. CASE EndGrant(u)
    BY <2>3, EndedType DEF EndGrant, TypeInv
  <2> QED  BY <2>1, <2>2, <2>3
<1>3. ASSUME NEW w \in Users PROVE subs'[w].balance = subs[w].balance
  BY <1>2, <1>3 DEF Put, TypeInv, BillTypeOK
<1>4. ASSUME NEW w \in Users PROVE subs'[w].balance \in Allowed(w)'
  BY <1>3, <1>4, AllowedGrows DEF MoneyInv
<1>5. UNCHANGED clerks
  BY DEF StartGrant, HoldGrant, EndGrant
<1> QED  BY <1>4, <1>5, AllowedRows

LEMMA MoneyChange ==
    ASSUME TypeInv, MoneyInv, [BillNext]_billVars, NEW c \in Clerks,
           NEW u, u = clerks[c].user,
           \/ \E w \in Users, p \in Plans \cup {0} : AskPlan(c, w, p)
           \/ Decide(c) \/ GiveWay(c) \/ Store(c) \/ ClerkDies(c)
    PROVE  MoneyInv'
<1> DEFINE base == clerks[c].base
<1>1. clerks[c] \in Clerk /\ base \in Sub /\ clerks[c].new \in Sub
  BY DEF TypeInv, BillTypeOK, Clerk
<1>2. base.balance \in Allowed(u)' /\ clerks[c].new.balance \in Allowed(u)'
      /\ base.balance \in Allowed(u)
  BY AllowedGrows DEF MoneyInv, ClerkAllowed
<1>3. ASSUME clerks' = [clerks EXCEPT ![c] = Idle], UNCHANGED subs PROVE MoneyInv'
  BY <1>3, AllowedIdle, AllowedClerk
<1>4. ASSUME NEW w \in Users, NEW p \in Plans \cup {0}, AskPlan(c, w, p) PROVE MoneyInv'
  <2> DEFINE asked == [Idle EXCEPT !.job = "decide", !.user = w]
             clerk == [asked EXCEPT !.want = p, !.base = subs[w]]
  <2>1. asked \in Clerk /\ asked.user = w /\ asked.new = NoPlan
    BY IdleIsClerk DEF Clerk, Jobs, Idle
  <2>2. clerks' = [clerks EXCEPT ![c] = clerk] /\ UNCHANGED subs
    BY <1>4 DEF AskPlan
  <2> HIDE DEF asked
  <2>3. clerk.user = w /\ clerk.base = subs[w] /\ clerk.new = NoPlan
    BY <2>1 DEF Clerk
  <2> HIDE DEF clerk
  <2>4. subs[w].balance \in Allowed(w)'
    BY AllowedGrows DEF MoneyInv
  <2>5. NoPlan.balance \in Allowed(w)'
    BY DEF NoPlan, Allowed
  <2> QED  BY <2>2, <2>3, <2>4, <2>5, AllowedClerk
<1>5. CASE Decide(c)
  <2>1. u \in Users /\ UNCHANGED <<subs, invoices>>
    BY <1>5 DEF Decide, Working, TypeInv, Assigned, Jobs
  <2>2. ASSUME NEW new \in Sub, NEW job \in {"give way", "store"},
               clerks' = [clerks EXCEPT ![c].new = new, ![c].job = job],
               base.balance >= 0 => new.balance >= 0,
               base.balance = 0 /\ ~EverPaid(u) => new.balance = 0
        PROVE  MoneyInv'
    <3>1. new.balance \in Allowed(u)
      <4>1. ~Touched(u) => ~EverPaid(u)
        BY DEF Touched, EverPaid
      <4>2. base.balance \in Int /\ new.balance \in Int
        BY <1>1, <2>2 DEF Sub
      <4>3. base.balance \in Allowed(u)
        BY <1>2
      <4> HIDE DEF base
      <4> QED  BY <2>2, <4>1, <4>2, <4>3, AllowedKept
    <3> DEFINE clerk == [clerks[c] EXCEPT !.new = new, !.job = job]
    <3>2. clerk.user = u /\ clerk.base = base /\ clerk.new = new
      BY <1>1 DEF Clerk
    <3>3. clerks' = [clerks EXCEPT ![c] = clerk]
      BY <2>2 DEF TypeInv, BillTypeOK
    <3>4. new.balance \in Allowed(u)'
      BY <3>1, AllowedGrows
    <3> HIDE DEF clerk
    <3> QED  BY <1>2, <2>1, <3>2, <3>3, <3>4, AllowedClerk
  <2> QED  BY <1>3, <1>5, <2>1, <2>2, DecideCases DEF TypeInv
<1>6. CASE GiveWay(c)
  <2>1. u \in Users
    BY <1>6 DEF GiveWay, Working, TypeInv, Assigned, Jobs
  <2>2. subs' = [subs EXCEPT ![u] = Ended(u, FALSE)] /\ subs'[u] = Ended(u, FALSE)
    BY <1>6, <2>1 DEF GiveWay, Put, TypeInv, BillTypeOK
  <2>3. Ended(u, FALSE).balance \in Allowed(u)'
    BY <2>1, EndedType, AllowedGrows DEF TypeInv, MoneyInv
  <2> DEFINE fresh == IF base = subs[u] THEN subs'[u] ELSE base
             clerk == [clerks[c] EXCEPT !.job = "store", !.base = fresh]
  <2>4. fresh.balance \in Allowed(u)'
    BY <1>2, <2>2, <2>3
  <2>5. clerks' = [clerks EXCEPT ![c] = clerk]
    BY <1>1, <1>6 DEF GiveWay, TypeInv, BillTypeOK, Clerk
  <2> HIDE DEF fresh
  <2>6. clerk.user = u /\ clerk.base = fresh /\ clerk.new = clerks[c].new
    BY <1>1 DEF Clerk
  <2> HIDE DEF clerk
  <2> QED  BY <1>2, <2>1, <2>2, <2>3, <2>4, <2>5, <2>6, AllowedUpdate
<1>7. CASE Store(c)
  <2>1. u \in Users
    BY <1>7 DEF Store, Working, TypeInv, Assigned, Jobs
  <2>2. subs' = [subs EXCEPT ![u] = clerks[c].new] /\ clerks' = [clerks EXCEPT ![c] = Idle]
    BY <1>7 DEF Store, Subscribe, Put, Done
  <2> QED  BY <1>2, <2>1, <2>2, AllowedIdle, AllowedUpdate
<1>8. CASE ClerkDies(c)
  BY <1>3, <1>8 DEF ClerkDies, Done
<1> QED  BY <1>4, <1>5, <1>6, <1>7, <1>8

LEMMA MoneyAward ==
    ASSUME TypeInv, MoneyInv, [BillNext]_billVars, NEW c \in Clerks,
           NEW u, u = clerks[c].user,
           ClaimReferrer(c) \/ StopGrant(c) \/ ReadForAward(c) \/ Award(c),
           clerks[c].job = "claim" => clerks[c].base = NoPlan /\ clerks[c].new = NoPlan
    PROVE  MoneyInv'
<1> DEFINE base == clerks[c].base
<1>1. clerks[c] \in Clerk /\ base \in Sub
  BY DEF TypeInv, BillTypeOK, Clerk
<1>2. base.balance \in Allowed(u)' /\ clerks[c].new.balance \in Allowed(u)'
  BY AllowedGrows DEF MoneyInv, ClerkAllowed
<1>3. CASE ClaimReferrer(c)
  <2> DEFINE clerk == [clerks[c] EXCEPT !.job = "stop", !.user = inviter[clerks[c].payer]]
  <2>1. (clerks' = [clerks EXCEPT ![c] = clerk] \/ clerks' = [clerks EXCEPT ![c] = Idle])
        /\ UNCHANGED subs
    BY <1>3 DEF ClaimReferrer, Done, TypeInv, BillTypeOK
  <2>2. PICK w : w = inviter[clerks[c].payer]
    OBVIOUS
  <2>3. clerk.user = w /\ clerk.base = NoPlan /\ clerk.new = NoPlan
    BY <1>1, <1>3, <2>2 DEF ClaimReferrer, Working, Clerk
  <2> HIDE DEF clerk
  <2>4. NoPlan.balance \in Allowed(w)'
    BY DEF NoPlan, Allowed
  <2> QED  BY <2>1, <2>3, <2>4, AllowedIdle, AllowedClerk
<1>4. CASE StopGrant(c)
  <2>1. u \in Users
    BY <1>4 DEF StopGrant, Working, TypeInv, Assigned, Jobs
  <2>2. Ended(u, FALSE).balance \in Allowed(u)'
    BY <2>1, EndedType, AllowedGrows DEF TypeInv, MoneyInv
  <2> DEFINE clerk == [clerks[c] EXCEPT !.job = "read"]
  <2>3. clerk.user = u /\ clerk.base = base /\ clerk.new = clerks[c].new
    BY <1>1 DEF Clerk
  <2>4. clerks' = [clerks EXCEPT ![c] = clerk] /\ subs' = [subs EXCEPT ![u] = Ended(u, FALSE)]
    BY <1>4 DEF StopGrant, Move, Put, TypeInv, BillTypeOK
  <2> HIDE DEF clerk
  <2> QED  BY <1>2, <2>1, <2>2, <2>3, <2>4, AllowedUpdate
<1>5. CASE ReadForAward(c)
  <2>1. u \in Users
    BY <1>5 DEF ReadForAward, Working, TypeInv, Assigned, Jobs
  <2> DEFINE clerk == [clerks[c] EXCEPT !.job = "award", !.base = subs[u]]
  <2>2. clerk.user = u /\ clerk.base = subs[u] /\ clerk.new = clerks[c].new
    BY <1>1 DEF Clerk
  <2>3. clerks' = [clerks EXCEPT ![c] = clerk] /\ UNCHANGED subs
    BY <1>5 DEF ReadForAward, TypeInv, BillTypeOK
  <2> HIDE DEF clerk
  <2>4. subs[u].balance \in Allowed(u)'
    BY <2>1, AllowedGrows DEF MoneyInv
  <2> QED  BY <1>2, <2>2, <2>3, <2>4, AllowedClerk
<1>6. CASE Award(c)
  <2> DEFINE time == base.time + AwardHours
             new == [base EXCEPT !.tariff = TopPlan, !.time = time]
  <2>1. u \in Users
    BY <1>6 DEF Award, Working, TypeInv, Assigned, Jobs
  <2>2. subs' = [subs EXCEPT ![u] = new] /\ clerks' = [clerks EXCEPT ![c] = Idle]
    BY <1>6 DEF Award, Subscribe, Put, Done
  <2> HIDE DEF time
  <2>3. new.balance = base.balance
    BY <1>1 DEF Sub
  <2> HIDE DEF new
  <2> QED  BY <1>2, <2>1, <2>2, <2>3, AllowedIdle, AllowedUpdate
<1> QED  BY <1>3, <1>4, <1>5, <1>6

\* A payment's thread comes to the inviter with nothing in its hands.
FreshClaim ==
    \A c \in Clerks : clerks[c].job = "claim" => clerks[c].base = NoPlan /\ clerks[c].new = NoPlan

LEMMA FreshClaimStep ==
    ASSUME TypeInv, FreshClaim, [BillNext]_billVars
    PROVE  FreshClaim'
<1>1. ASSUME NEW c \in Clerks, NEW clerk, clerks' = [clerks EXCEPT ![c] = clerk],
             clerk.job = "claim" => clerk.base = NoPlan /\ clerk.new = NoPlan
      PROVE  FreshClaim'
  BY <1>1 DEF FreshClaim, TypeInv, BillTypeOK
<1>2. ASSUME UNCHANGED clerks PROVE FreshClaim'
  BY <1>2 DEF FreshClaim
<1>3. ASSUME NEW c \in Clerks, clerks' = [clerks EXCEPT ![c] = Idle] PROVE FreshClaim'
  BY <1>1, <1>3 DEF Idle
<1>4. ASSUME NEW c \in Clerks, NEW clerk, clerks' = [clerks EXCEPT ![c] = clerk], clerk.job # "claim"
      PROVE  FreshClaim'
  BY <1>1, <1>4
<1>5. ASSUME NEW i \in Invoices, NEW c \in Clerks, Pay(c, i) PROVE FreshClaim'
  <2> DEFINE clerk == [Idle EXCEPT !.job = "claim", !.payer = Payer[i]]
  <2>1. clerk.base = NoPlan /\ clerk.new = NoPlan
    BY DEF Idle
  <2>2. clerks' = [clerks EXCEPT ![c] = clerk]
    BY <1>5 DEF Pay
  <2> HIDE DEF clerk
  <2> QED  BY <1>1, <2>1, <2>2
<1>6. ASSUME NEW c \in Clerks, NEW w \in Users, NEW p \in Plans \cup {0}, AskPlan(c, w, p)
      PROVE  FreshClaim'
  <2> DEFINE clerk == [Idle EXCEPT !.job = "decide", !.user = w, !.want = p, !.base = subs[w]]
  <2>1. clerk.job # "claim"
    BY DEF Idle
  <2>2. clerks' = [clerks EXCEPT ![c] = clerk]
    BY <1>6 DEF AskPlan
  <2> HIDE DEF clerk
  <2> QED  BY <1>4, <2>1, <2>2
<1>7. ASSUME NEW c \in Clerks, Decide(c) PROVE FreshClaim'
  <2>1. PICK u \in Users : u = clerks[c].user
    BY <1>7 DEF Decide, Working, TypeInv, Assigned, Jobs
  <2>2. ASSUME NEW new \in Sub, NEW job \in {"give way", "store"},
               clerks' = [clerks EXCEPT ![c].new = new, ![c].job = job]
        PROVE  FreshClaim'
    <3>1. clerks' = [clerks EXCEPT ![c] = [clerks[c] EXCEPT !.new = new, !.job = job]]
      BY <2>2 DEF TypeInv, BillTypeOK
    <3>2. [clerks[c] EXCEPT !.new = new, !.job = job].job # "claim"
      BY DEF TypeInv, BillTypeOK, Clerk
    <3> QED  BY <1>4, <3>1, <3>2
  <2> QED  BY <1>3, <1>7, <2>1, <2>2, DecideCases DEF TypeInv
<1>8. ASSUME NEW c \in Clerks, GiveWay(c) \/ ClaimReferrer(c) \/ StopGrant(c) \/ ReadForAward(c)
      PROVE  FreshClaim'
  <2>1. ASSUME NEW d \in Clerks, clerks'[d].job = "claim" PROVE clerks'[d] = clerks[d]
    <3>1. CASE GiveWay(c)
      <4> DEFINE u == clerks[c].user
                 base == IF clerks[c].base = subs[u] THEN subs'[u] ELSE clerks[c].base
                 clerk == [clerks[c] EXCEPT !.job = "store", !.base = base]
      <4>1. clerks' = [clerks EXCEPT ![c] = clerk] /\ clerks \in [Clerks -> Clerk]
        BY <3>1 DEF GiveWay, TypeInv, BillTypeOK
      <4> HIDE DEF base
      <4>2. clerk.job = "store"
        BY <4>1 DEF Clerk
      <4> HIDE DEF clerk
      <4> QED  BY <2>1, <4>1, <4>2
    <3>2. CASE ClaimReferrer(c)
      BY <2>1, <3>2 DEF ClaimReferrer, Done, Idle, TypeInv, BillTypeOK, Clerk
    <3>3. CASE StopGrant(c)
      BY <2>1, <3>3 DEF StopGrant, Move, TypeInv, BillTypeOK, Clerk
    <3>4. CASE ReadForAward(c)
      BY <2>1, <3>4 DEF ReadForAward, TypeInv, BillTypeOK, Clerk
    <3> QED  BY <1>8, <3>1, <3>2, <3>3, <3>4
  <2> QED  BY <2>1 DEF FreshClaim
<1>9. ASSUME NEW c \in Clerks, Store(c) \/ Award(c) \/ ClerkDies(c) PROVE FreshClaim'
  BY <1>3, <1>9 DEF Store, Award, ClerkDies, Done
<1>10. ASSUME NEW c \in Clerks, Work(c) PROVE FreshClaim'
  BY <1>6, <1>7, <1>8, <1>9, <1>10 DEF Work
<1>11. CASE Money
  BY <1>2, <1>5, <1>11 DEF Money, CreditMonth, Refund
<1>12. CASE Clock \/ GrantCheck \/ UNCHANGED billVars
  BY <1>2, <1>12 DEF Clock, Renew, CountDown, TickDies, GrantCheck, StartGrant, HoldGrant,
                     EndGrant, billVars
<1> QED  BY <1>10, <1>11, <1>12 DEF BillNext

LEMMA MoneyStep ==
    ASSUME TypeInv, FreshClaim, MoneyInv, [BillNext]_billVars
    PROVE  MoneyInv'
<1>1. CASE Money
  BY <1>1, MoneyPay DEF Money
<1>2. CASE Clock
  BY <1>2, MoneyClock
<1>3. CASE GrantCheck
  BY <1>3, MoneyGrants DEF GrantCheck
<1>4. ASSUME NEW c \in Clerks, Work(c) PROVE MoneyInv'
  <2>1. PICK u : u = clerks[c].user
    OBVIOUS
  <2>2. clerks[c].job = "claim" => clerks[c].base = NoPlan /\ clerks[c].new = NoPlan
    BY DEF FreshClaim
  <2> QED  BY <1>4, <2>1, <2>2, MoneyChange, MoneyAward DEF Work
<1>5. CASE UNCHANGED billVars
  BY <1>5, AllowedGrows, AllowedRows DEF billVars, MoneyInv
<1> QED  BY <1>1, <1>2, <1>3, <1>4, <1>5 DEF BillNext

LEMMA MoneyStart == BillInit => MoneyInv /\ FreshClaim
<1> SUFFICES ASSUME BillInit PROVE MoneyInv /\ FreshClaim
  OBVIOUS
<1>1. \A u \in Users : subs[u].balance = 0
  BY DEF BillInit, Welcome, NoPlan
<1>2. \A c \in Clerks : ClerkAllowed(c)
  BY AllowedSets DEF BillInit, Idle, NoPlan, ClerkAllowed
<1>3. MoneyInv
  BY <1>1, <1>2, AllowedSets DEF MoneyInv
<1> QED  BY <1>3 DEF FreshClaim, BillInit, Idle

LEMMA MoneyInvariant == BillSpec => [](TypeInv /\ MoneyInv)
<1> DEFINE Inv == TypeInv /\ FreshClaim /\ MoneyInv
<1>1. BillInit => Inv
  BY TypeStart, MoneyStart
<1>2. Inv /\ [BillNext]_billVars => Inv'
  BY TypeStep, FreshClaimStep, MoneyStep
<1>3. Inv => TypeInv /\ MoneyInv
  OBVIOUS
<1> HIDE DEF Inv
<1> QED  BY <1>1, <1>2, <1>3, PTL DEF BillSpec

\* Only a refund puts a balance below zero: no renewal, purchase, change of plan or
\* award does, whatever other transactions come between its read and its write.
THEOREM DebtNeedsRefund == BillSpec => []DebtOnlyByRefund
<1>1. TypeInv /\ MoneyInv => DebtOnlyByRefund
  <2> SUFFICES ASSUME TypeInv, MoneyInv, NEW u \in Users, subs[u].balance < 0
               PROVE  \E i \in Invoices : Payer[i] = u /\ invoices[i] = "refunded"
    BY DEF DebtOnlyByRefund
  <2>1. Refunded(u)
    BY DEF MoneyInv, Allowed
  <2> QED  BY <2>1 DEF Refunded
<1> QED  BY <1>1, MoneyInvariant, PTL

\* Whoever never paid has an empty balance: neither the welcome trial's hours nor
\* those of a grant or an award are turned into money.
THEOREM UnpaidHasNoMoney == BillSpec => []UnpaidIsNoMoney
<1>1. TypeInv /\ MoneyInv => UnpaidIsNoMoney
  <2> SUFFICES ASSUME TypeInv, MoneyInv, NEW u \in Users,
                      \A i \in Invoices : Payer[i] = u => invoices[i] = "open"
               PROVE  subs[u].balance = 0
    BY DEF UnpaidIsNoMoney
  <2>1. ~Refunded(u) /\ ~Touched(u)
    BY DEF Refunded, Touched
  <2> QED  BY <2>1 DEF MoneyInv, Allowed
<1> QED  BY <1>1, MoneyInvariant, PTL

-----------------------------------------------------------------------------
(* Awards: the inviter is the token, and one clerk at most has it. *)

Awarding(c, u) == clerks[c].payer = u /\ clerks[c].job \in {"stop", "read", "award"}

AwardInv ==
    \A u \in Users :
        /\ inviter[u] \in {InvitedBy[u], Nobody}
        /\ awarded[u] \in {0, 1}
        /\ \A c, d \in Clerks : Awarding(c, u) /\ Awarding(d, u) => c = d
        /\ \A c \in Clerks : Awarding(c, u) \/ awarded[u] = 1 =>
               inviter[u] = Nobody /\ InvitedBy[u] \in Users \ {u}
        /\ awarded[u] = 1 => \A c \in Clerks : ~Awarding(c, u)
        /\ awarded[u] = 1 => inviter[u] = Nobody /\ InvitedBy[u] \in Users \ {u}

LEMMA AwardKept ==
    ASSUME AwardInv, UNCHANGED <<inviter, awarded>>,
           \A c \in Clerks, u \in Users : Awarding(c, u)' => Awarding(c, u)
    PROVE  AwardInv'
  BY DEF AwardInv

LEMMA AwardStep ==
    ASSUME TypeInv, AwardInv, [BillNext]_billVars
    PROVE  AwardInv'
<1>1. ASSUME UNCHANGED <<clerks, inviter, awarded>> PROVE AwardInv'
  BY <1>1, AwardKept DEF Awarding
<1>2. ASSUME NEW c \in Clerks, NEW clerk, clerks' = [clerks EXCEPT ![c] = clerk],
             clerk.job # "stop", clerk.job # "read", clerk.job # "award",
             UNCHANGED <<inviter, awarded>>
      PROVE  AwardInv'
  <2>1. ASSUME NEW d \in Clerks, NEW u \in Users, Awarding(d, u)' PROVE Awarding(d, u)
    BY <1>2, <2>1 DEF Awarding, TypeInv, BillTypeOK
  <2> QED  BY <1>2, <2>1, AwardKept
<1>3. ASSUME NEW i \in Invoices, NEW c \in Clerks, Pay(c, i) PROVE AwardInv'
  <2> DEFINE clerk == [Idle EXCEPT !.job = "claim", !.payer = Payer[i]]
  <2>1. clerk.job = "claim"
    BY DEF Idle
  <2>2. clerks' = [clerks EXCEPT ![c] = clerk] /\ UNCHANGED <<inviter, awarded>>
    BY <1>3 DEF Pay
  <2> HIDE DEF clerk
  <2>3. clerk.job # "stop" /\ clerk.job # "read" /\ clerk.job # "award"
    BY <2>1
  <2> QED  BY <1>2, <2>2, <2>3
<1>4. ASSUME NEW c \in Clerks, NEW w \in Users, NEW p \in Plans \cup {0}, AskPlan(c, w, p)
      PROVE  AwardInv'
  <2> DEFINE clerk == [Idle EXCEPT !.job = "decide", !.user = w, !.want = p, !.base = subs[w]]
  <2>1. clerk.job = "decide"
    BY DEF Idle
  <2>2. clerks' = [clerks EXCEPT ![c] = clerk] /\ UNCHANGED <<inviter, awarded>>
    BY <1>4 DEF AskPlan, history
  <2> HIDE DEF clerk
  <2>3. clerk.job # "stop" /\ clerk.job # "read" /\ clerk.job # "award"
    BY <2>1
  <2> QED  BY <1>2, <2>2, <2>3
<1>5. ASSUME NEW c \in Clerks, Decide(c) PROVE AwardInv'
  <2>1. PICK u \in Users : u = clerks[c].user
    BY <1>5 DEF Decide, Working, TypeInv, Assigned, Jobs
  <2>2. UNCHANGED <<inviter, awarded>>
    BY <1>5 DEF Decide, history
  <2>3. CASE clerks' = [clerks EXCEPT ![c] = Idle]
    <3>1. Idle.job # "stop" /\ Idle.job # "read" /\ Idle.job # "award"
      BY DEF Idle
    <3> QED  BY <1>2, <2>2, <2>3, <3>1
  <2>4. ASSUME NEW new \in Sub, NEW job \in {"give way", "store"},
               clerks' = [clerks EXCEPT ![c].new = new, ![c].job = job]
        PROVE  AwardInv'
    <3>1. clerks' = [clerks EXCEPT ![c] = [clerks[c] EXCEPT !.new = new, !.job = job]]
      BY <2>4 DEF TypeInv, BillTypeOK
    <3> DEFINE clerk == [clerks[c] EXCEPT !.new = new, !.job = job]
    <3>2. clerk.job = job
      BY DEF TypeInv, BillTypeOK, Clerk
    <3>3. clerk.job # "stop" /\ clerk.job # "read" /\ clerk.job # "award"
      BY <2>4, <3>2
    <3> HIDE DEF clerk
    <3> QED  BY <1>2, <2>2, <3>1, <3>3 DEF clerk
  <2> QED  BY <1>5, <2>1, <2>3, <2>4, DecideCases DEF TypeInv
<1>6. ASSUME NEW c \in Clerks, GiveWay(c) \/ StopGrant(c) \/ ReadForAward(c) PROVE AwardInv'
  <2>1. UNCHANGED <<inviter, awarded>>
    BY <1>6 DEF GiveWay, StopGrant, ReadForAward, history
  <2>2. ASSUME NEW d \in Clerks, NEW u \in Users, Awarding(d, u)' PROVE Awarding(d, u)
    <3>1. CASE GiveWay(c)
      <4>1. clerks'[c].job = "store" \/ d # c
        BY <3>1 DEF GiveWay, TypeInv, BillTypeOK, Clerk
      <4>2. d # c => clerks'[d] = clerks[d]
        BY <3>1 DEF GiveWay, TypeInv, BillTypeOK
      <4> QED  BY <2>2, <4>1, <4>2 DEF Awarding
    <3>2. CASE StopGrant(c)
      BY <2>2, <3>2 DEF StopGrant, Move, Working, Awarding, TypeInv, BillTypeOK, Clerk
    <3>3. CASE ReadForAward(c)
      BY <2>2, <3>3 DEF ReadForAward, Working, Awarding, TypeInv, BillTypeOK, Clerk
    <3> QED  BY <1>6, <3>1, <3>2, <3>3
  <2> QED  BY <2>1, <2>2, AwardKept
<1>7. ASSUME NEW c \in Clerks, Store(c) \/ ClerkDies(c) PROVE AwardInv'
  <2>1. clerks' = [clerks EXCEPT ![c] = Idle] /\ UNCHANGED <<inviter, awarded>>
    BY <1>7 DEF Store, ClerkDies, Done, history
  <2>2. Idle.job # "stop" /\ Idle.job # "read" /\ Idle.job # "award"
    BY DEF Idle
  <2> QED  BY <1>2, <2>1, <2>2
<1>8. ASSUME NEW c \in Clerks, ClaimReferrer(c) PROVE AwardInv'
  <2>1. PICK payer \in Users : payer = clerks[c].payer
    BY <1>8 DEF ClaimReferrer, Working, TypeInv, Assigned
  <2>2. clerks[c].job = "claim" /\ UNCHANGED awarded
        /\ inviter' = [inviter EXCEPT ![payer] = Nobody]
    BY <1>8, <2>1 DEF ClaimReferrer, Working, history
  <2>3. CASE inviter[payer] \in Users \ {payer}
    <3>1. clerks' = [clerks EXCEPT ![c] = [clerks[c] EXCEPT !.job = "stop", !.user = inviter[payer]]]
      BY <1>8, <2>1, <2>3 DEF ClaimReferrer, TypeInv, BillTypeOK
    <3>2. InvitedBy[payer] \in Users \ {payer} /\ inviter[payer] # Nobody
      BY <2>1, <2>3, BillingAssumption DEF BillingAssumption, AwardInv
    <3>3. awarded[payer] = 0 /\ \A d \in Clerks : ~Awarding(d, payer)
      BY <2>1, <3>2 DEF AwardInv
    <3>4. \A d \in Clerks, u \in Users :
            Awarding(d, u)' <=> IF u = payer THEN d = c ELSE Awarding(d, u)
      <4>1. clerks'[c].payer = payer /\ clerks'[c].job = "stop"
        BY <2>1, <3>1 DEF TypeInv, BillTypeOK, Clerk
      <4>2. \A d \in Clerks : d # c => clerks'[d] = clerks[d]
        BY <3>1 DEF TypeInv, BillTypeOK
      <4> QED  BY <2>1, <2>2, <3>3, <4>1, <4>2 DEF Awarding
    <3>5. \A u \in Users : inviter'[u] = IF u = payer THEN Nobody ELSE inviter[u]
      BY <2>2 DEF TypeInv, BillTypeOK
    <3>6. ASSUME NEW u \in Users
          PROVE  /\ inviter'[u] \in {InvitedBy[u], Nobody}
                 /\ awarded'[u] \in {0, 1}
                 /\ \A a, b \in Clerks : Awarding(a, u)' /\ Awarding(b, u)' => a = b
                 /\ \A a \in Clerks : Awarding(a, u)' \/ awarded'[u] = 1 =>
                       inviter'[u] = Nobody /\ InvitedBy[u] \in Users \ {u}
                 /\ awarded'[u] = 1 => \A a \in Clerks : ~Awarding(a, u)'
                 /\ awarded'[u] = 1 => inviter'[u] = Nobody /\ InvitedBy[u] \in Users \ {u}
      <4>1. CASE u = payer
        BY <2>2, <3>2, <3>3, <3>4, <3>5, <4>1
      <4>2. CASE u # payer
        BY <2>2, <3>4, <3>5, <4>2 DEF AwardInv
      <4> QED  BY <4>1, <4>2
    <3> QED  BY <3>6 DEF AwardInv
  <2>4. CASE ~(inviter[payer] \in Users \ {payer})
    <3>1. clerks' = [clerks EXCEPT ![c] = Idle]
      BY <1>8, <2>1, <2>4 DEF ClaimReferrer, Done
    <3>2. \A d \in Clerks, u \in Users : Awarding(d, u)' => Awarding(d, u)
      BY <3>1 DEF Awarding, Idle, TypeInv, BillTypeOK
    <3>3. \A u \in Users : inviter'[u] \in {inviter[u], Nobody}
      BY <2>2 DEF TypeInv, BillTypeOK
    <3> QED  BY <2>2, <3>2, <3>3 DEF AwardInv
  <2> QED  BY <2>3, <2>4
<1>9. ASSUME NEW c \in Clerks, Award(c) PROVE AwardInv'
  <2>1. PICK payer \in Users : payer = clerks[c].payer
    BY <1>9 DEF Award, Working, TypeInv, Assigned
  <2>2. /\ Awarding(c, payer) /\ UNCHANGED inviter
        /\ awarded' = [awarded EXCEPT ![payer] = awarded[payer] + 1]
        /\ clerks' = [clerks EXCEPT ![c] = Idle]
    BY <1>9, <2>1 DEF Award, Awarding, Working, Done
  <2>3. awarded[payer] = 0
    BY <2>1, <2>2 DEF AwardInv
  <2>4. \A u \in Users : awarded'[u] = IF u = payer THEN 1 ELSE awarded[u]
    BY <2>1, <2>2, <2>3 DEF TypeInv, BillTypeOK
  <2>5. \A d \in Clerks, u \in Users : Awarding(d, u)' => Awarding(d, u) /\ d # c
    BY <2>2 DEF Awarding, Idle, TypeInv, BillTypeOK
  <2>6. \A d \in Clerks : ~Awarding(d, payer)'
    BY <2>1, <2>2, <2>5 DEF AwardInv
  <2> QED  BY <2>2, <2>4, <2>5, <2>6 DEF AwardInv
<1>10. ASSUME NEW c \in Clerks, Work(c) PROVE AwardInv'
  BY <1>4, <1>5, <1>6, <1>7, <1>8, <1>9, <1>10 DEF Work
<1>11. CASE Money
  BY <1>1, <1>3, <1>11 DEF Money, CreditMonth, Refund
<1>12. CASE Clock \/ GrantCheck \/ UNCHANGED billVars
  BY <1>1, <1>12 DEF Clock, Renew, CountDown, TickDies, GrantCheck, StartGrant, HoldGrant,
                     EndGrant, billVars, history
<1> QED  BY <1>10, <1>11, <1>12 DEF BillNext

\* "Once per invitee": however often a payment is delivered, however many payments
\* and threads there are and whenever they die, an invited user brings at most one
\* award, and one who invited themselves none.
THEOREM InviterAwardedOnce == BillSpec => []AwardedOnce
<1> DEFINE Inv == TypeInv /\ AwardInv
<1>1. BillInit => AwardInv
  BY BillingAssumption DEF BillInit, AwardInv, Awarding, Idle
<1>2. BillInit => Inv
  BY <1>1, TypeStart
<1>3. Inv /\ [BillNext]_billVars => Inv'
  BY TypeStep, AwardStep
<1>4. Inv => AwardedOnce
  BY DEF AwardInv, AwardedOnce
<1> HIDE DEF Inv
<1> QED  BY <1>2, <1>3, <1>4, PTL DEF BillSpec

-----------------------------------------------------------------------------
(* Grants: their plan stays on the row, with at most the hours held. *)

Own(sub, grant) == sub.tariff = grant.plan /\ sub.time \in 1..HoldHours

GrantInv == \A u \in Users : Granted(u) => Own(subs[u], grants[u])

\* Enough that one row changes, with or without its grant, to one of three.
LEMMA GrantRow ==
    ASSUME TypeInv, GrantInv, NEW u \in Users, NEW sub, NEW grant,
           subs' = [subs EXCEPT ![u] = sub], grants' = [grants EXCEPT ![u] = grant],
           \/ grant = NoGrant
           \/ Own(sub, grant)
           \/ grant = grants[u] /\ sub.tariff = subs[u].tariff /\ sub.time = subs[u].time
    PROVE  GrantInv'
<1>1. \A w \in Users : w # u => subs'[w] = subs[w] /\ grants'[w] = grants[w]
  BY DEF TypeInv, BillTypeOK
<1>2. subs'[u] = sub /\ grants'[u] = grant
  BY DEF TypeInv, BillTypeOK
<1>3. Granted(u)' => Own(subs'[u], grants'[u])
  BY <1>2 DEF Granted, NoGrant, GrantInv, Own
<1>4. ASSUME NEW w \in Users, w # u, Granted(w)' PROVE Own(subs'[w], grants'[w])
  BY <1>1, <1>4 DEF Granted, GrantInv
<1> QED  BY <1>3, <1>4 DEF GrantInv

LEMMA GrantKept ==
    ASSUME GrantInv, UNCHANGED grants,
           \A u \in Users : Granted(u) => Own(subs'[u], grants[u])
    PROVE  GrantInv'
  BY DEF GrantInv, Granted

LEMMA GrantStep ==
    ASSUME TypeInv, GrantInv, ~LateChecks, [BillNext]_billVars
    PROVE  GrantInv'
<1>1. ASSUME UNCHANGED <<subs, grants>> PROVE GrantInv'
  BY <1>1, GrantKept DEF GrantInv
<1>2. ASSUME NEW u \in Users, NEW sub, subs' = [subs EXCEPT ![u] = sub], UNCHANGED grants,
             Granted(u) => Own(sub, grants[u])
      PROVE  GrantInv'
  <2>1. \A w \in Users : subs'[w] = IF w = u THEN sub ELSE subs[w]
    BY <1>2 DEF TypeInv, BillTypeOK
  <2> QED  BY <1>2, <2>1, GrantKept DEF GrantInv
<1>3. ASSUME NEW u \in Users, NEW sub, subs' = [subs EXCEPT ![u] = sub],
             grants' = [grants EXCEPT ![u] = NoGrant]
      PROVE  GrantInv'
  BY <1>3, GrantRow
<1>4. \A u \in Users : Granted(u) => Running(subs[u])
  <2> SUFFICES ASSUME NEW u \in Users, Granted(u) PROVE Running(subs[u])
    OBVIOUS
  <2>1. grants[u].plan \in Nat \ {0}
    BY BillingAssumption DEF BillingAssumption, Granted, TypeInv, BillTypeOK, Grant
  <2>2. HoldHours \in Nat
    BY BillingAssumption DEF BillingAssumption
  <2> QED  BY <2>1, <2>2 DEF GrantInv, Own, Running
<1>5. ASSUME NEW i \in Invoices, NEW c \in Clerks, Pay(c, i) PROVE GrantInv'
  <2>1. PICK u \in Users : u = Payer[i]
    BY BillingAssumption DEF BillingAssumption
  <2> DEFINE new == Replenished(u, i)
  <2>2. subs' = [subs EXCEPT ![u] = new]
        /\ grants' = IF GivesWay(u, i) THEN [grants EXCEPT ![u] = NoGrant] ELSE grants
    BY <1>5, <2>1 DEF Pay, Put
  <2>3. CASE GivesWay(u, i)
    <3> HIDE DEF new
    <3> QED  BY <1>3, <2>2, <2>3
  <2>4. CASE ~GivesWay(u, i)
    <3>1. ASSUME Granted(u) PROVE Own(new, grants[u])
      <4>1. Running(subs[u]) /\ Own(subs[u], grants[u])
        BY <1>4, <3>1 DEF GrantInv
      <4>2. new = [subs[u] EXCEPT !.balance = subs[u].balance + Amount[i]]
        BY <2>4, <4>1 DEF Replenished, Running
      <4>3. new.tariff = subs[u].tariff /\ new.time = subs[u].time
        BY <4>2 DEF TypeInv, BillTypeOK, Sub
      <4> QED  BY <4>1, <4>3 DEF Own
    <3> HIDE DEF new
    <3> QED  BY <1>2, <2>2, <2>4, <3>1
  <2> QED  BY <2>3, <2>4
<1>6. ASSUME NEW i \in Invoices, CreditMonth(i) \/ Refund(i) PROVE GrantInv'
  <2>1. PICK u \in Users : u = Payer[i]
    BY BillingAssumption DEF BillingAssumption
  <2>2. PICK sub : subs' = [subs EXCEPT ![u] = sub]
                   /\ (Granted(u) => \E m : sub = [subs[u] EXCEPT !.balance = m])
    <3>1. CASE CreditMonth(i)
      BY <2>1, <3>1 DEF CreditMonth, Put
    <3>2. CASE Refund(i)
      <4> DEFINE owing == [subs[u] EXCEPT !.balance = subs[u].balance - Amount[i]]
                 new == IF owing.balance < 0 /\ Running(owing) /\ ~Granted(u)
                        THEN DebtPaid(owing) ELSE owing
      <4>1. subs' = [subs EXCEPT ![u] = new]
        BY <2>1, <3>2 DEF Refund, Put
      <4>2. Granted(u) => new = owing
        OBVIOUS
      <4> HIDE DEF new
      <4> QED  BY <4>1, <4>2
    <3> QED  BY <1>6, <3>1, <3>2
  <2>3. Granted(u) => Own(sub, grants[u])
    BY <2>2 DEF GrantInv, Own, TypeInv, BillTypeOK, Sub
  <2>4. UNCHANGED grants
    BY <1>6 DEF CreditMonth, Refund
  <2> QED  BY <1>2, <2>2, <2>3, <2>4
<1>7. CASE Clock
  <2>1. CASE Renew
    <3>1. \A u \in Users : Granted(u) => subs'[u] = subs[u]
      BY <2>1 DEF Renew, Renewable
    <3> QED  BY <2>1, <3>1, GrantKept DEF Renew, GrantInv
  <2>2. CASE CountDown
    <3>1. ASSUME NEW u \in Users, Granted(u) PROVE Own(subs'[u], grants[u])
      <4>1. Own(subs[u], grants[u]) /\ Running(subs[u])
        BY <1>4, <3>1 DEF GrantInv
      <4>2. subs[u].time > 1
        BY <2>2, <3>1, <4>1 DEF CountDown, Held, Own
      <4>3. subs'[u] = [subs[u] EXCEPT !.time = subs[u].time - 1]
        BY <2>2, <4>1 DEF CountDown
      <4>4. HoldHours \in Nat
        BY BillingAssumption DEF BillingAssumption
      <4>5. subs'[u].tariff = subs[u].tariff /\ subs'[u].time = subs[u].time - 1
        BY <4>3 DEF TypeInv, BillTypeOK, Sub
      <4> QED  BY <4>1, <4>2, <4>4, <4>5 DEF Own
    <3> QED  BY <2>2, <3>1, GrantKept DEF CountDown
  <2>3. CASE TickDies
    BY <1>1, <2>3 DEF TickDies
  <2> QED  BY <1>7, <2>1, <2>2, <2>3 DEF Clock
<1>8. ASSUME NEW u \in Users, StartGrant(u) \/ HoldGrant(u) \/ EndGrant(u) PROVE GrantInv'
  <2>1. HoldHours \in 1..HoldHours
    BY BillingAssumption DEF BillingAssumption
  <2>2. CASE StartGrant(u)
    <3> DEFINE sub == [subs[u] EXCEPT !.tariff = GrantPlan, !.time = HoldHours]
               grant == [plan |-> GrantPlan, prev |-> subs[u].tariff]
    <3>1. subs' = [subs EXCEPT ![u] = sub] /\ grants' = [grants EXCEPT ![u] = grant]
      BY <2>2 DEF StartGrant, Put
    <3>2. Own(sub, grant)
      BY <2>1 DEF Own, TypeInv, BillTypeOK, Sub
    <3> HIDE DEF sub, grant
    <3> QED  BY <3>1, <3>2, GrantRow
  <2>3. CASE HoldGrant(u)
    <3> DEFINE sub == [subs[u] EXCEPT !.time = HoldHours]
    <3>1. Held(u) /\ UNCHANGED grants /\ subs' = [subs EXCEPT ![u] = sub]
      BY <2>3 DEF HoldGrant, Put, Held, GrantInv, Own
    <3>2. Own(sub, grants[u])
      BY <2>1, <3>1 DEF Own, Held, TypeInv, BillTypeOK, Sub
    <3> HIDE DEF sub
    <3> QED  BY <1>2, <3>1, <3>2
  <2>4. CASE EndGrant(u)
    BY <1>3, <2>4 DEF EndGrant, Put
  <2> QED  BY <1>8, <2>2, <2>3, <2>4
<1>9. ASSUME NEW u \in Users, NEW sub, Subscribe(u, sub) PROVE GrantInv'
  <2>1. subs' = [subs EXCEPT ![u] = sub]
    BY <1>9 DEF Subscribe, Put
  <2>2. CASE sub.tariff # subs[u].tariff \/ sub.time # subs[u].time
    BY <1>3, <1>9, <2>1, <2>2 DEF Subscribe
  <2>3. CASE sub.tariff = subs[u].tariff /\ sub.time = subs[u].time
    <3>1. UNCHANGED grants
      BY <1>9, <2>3 DEF Subscribe
    <3>2. Granted(u) => Own(sub, grants[u])
      BY <2>3 DEF GrantInv, Own
    <3> QED  BY <1>2, <2>1, <3>1, <3>2
  <2> QED  BY <2>2, <2>3
<1>10. ASSUME NEW c \in Clerks, Work(c) PROVE GrantInv'
  <2>1. CASE \/ \E u \in Users, p \in Plans \cup {0} : AskPlan(c, u, p)
             \/ Decide(c) \/ ClaimReferrer(c) \/ ReadForAward(c) \/ ClerkDies(c)
    BY <1>1, <2>1 DEF AskPlan, Decide, ClaimReferrer, ReadForAward, ClerkDies
  <2>2. CASE GiveWay(c) \/ StopGrant(c)
    <3>1. PICK u \in Users : u = clerks[c].user
      BY <2>2 DEF GiveWay, StopGrant, Working, TypeInv, Assigned, Jobs
    <3> DEFINE sub == Ended(u, FALSE)
    <3>2. subs' = [subs EXCEPT ![u] = sub] /\ grants' = [grants EXCEPT ![u] = NoGrant]
      BY <2>2, <3>1 DEF GiveWay, StopGrant, Put
    <3> HIDE DEF sub
    <3> QED  BY <1>3, <3>2
  <2>3. CASE Store(c)
    BY <1>9, <2>3 DEF Store, Working, TypeInv, Assigned, Jobs
  <2>4. CASE Award(c)
    BY <1>9, <2>4 DEF Award, Working, TypeInv, Assigned, Jobs
  <2> QED  BY <1>10, <2>1, <2>2, <2>3, <2>4 DEF Work
<1>11. CASE Money
  BY <1>5, <1>6, <1>11 DEF Money
<1>12. CASE GrantCheck
  BY <1>8, <1>12 DEF GrantCheck
<1>13. CASE UNCHANGED billVars
  BY <1>1, <1>13 DEF billVars
<1> QED  BY <1>7, <1>10, <1>11, <1>12, <1>13 DEF BillNext

\* As long as the hourly check does not miss a whole week, the plan of a grant has no
\* more hours than the check holds for it: bought, given and changed plans replace
\* the grant, and renewals pass it by.
THEOREM GrantsHoldTheirHours ==
    ASSUME ~LateChecks
    PROVE  BillSpec => []GrantHoldsOnlyItsHours
<1> DEFINE Inv == TypeInv /\ GrantInv
<1>1. BillInit => Inv
  <2>1. BillInit => GrantInv
    BY DEF BillInit, GrantInv, Granted, NoGrant
  <2> QED  BY <2>1, TypeStart
<1>2. Inv /\ [BillNext]_billVars => Inv'
  BY TypeStep, GrantStep
<1>3. Inv => GrantHoldsOnlyItsHours
  <2> SUFFICES ASSUME TypeInv, GrantInv, NEW u \in Users, Held(u)
               PROVE  subs[u].time <= HoldHours
    BY DEF GrantHoldsOnlyItsHours
  <2> QED  BY DEF Held, GrantInv, Own
<1> HIDE DEF Inv
<1> QED  BY <1>1, <1>2, <1>3, PTL DEF BillSpec

-----------------------------------------------------------------------------
(* Refunds. *)

\* The hours that pay a debt are rounded up, so they cover it.
LEMMA RoundedUpCovers ==
    ASSUME NEW debt \in Nat, NEW price \in Nat \ {0}, NEW n \in Nat \ {0}
    PROVE  (RoundUp(debt * n, price) * price) \div n >= debt
<1> DEFINE m == debt * n
           hours == RoundUp(m, price)
           worth == hours * price
<1>1. m \in Nat
  BY Products
<1> HIDE DEF m
<1>2. m + price - 1 \in Nat
  BY <1>1
<1>3. hours \in Nat /\ worth \in Nat
  <2>1. hours \in Nat
    BY <1>2, Quotients DEF RoundUp
  <2> HIDE DEF hours
  <2> QED  BY <2>1, Products
<1>4. worth >= m
  BY <1>1, <1>2 DEF RoundUp
<1> HIDE DEF worth
<1>5. worth >= debt * n
  BY <1>4 DEF m
<1>6. worth \div n >= debt
  BY <1>3, <1>5
<1> QED  BY <1>6 DEF worth, m

LEMMA DebtPaidFacts ==
    ASSUME NEW sub \in Sub, sub.balance < 0, sub.tariff # 0
    PROVE  /\ DebtPaid(sub).balance <= 0
           /\ DebtPaid(sub).balance < 0 => DebtPaid(sub).time = 0
<1> DEFINE price == PriceOf(sub.tariff)
           need == RoundUp(-sub.balance * Period, price)
           hours == IF need < sub.time THEN need ELSE sub.time
           worth == (hours * price) \div Period
           money == IF sub.balance + worth < 0 THEN sub.balance + worth ELSE 0
<1>1. price \in Nat \ {0} /\ Period \in Nat \ {0}
  BY PricesArePositive, BillingAssumption DEF BillingAssumption, Sub
<1>2. -sub.balance \in Nat /\ sub.time \in Nat /\ sub.balance \in Int
  BY DEF Sub
<1> HIDE DEF price
<1>3. -sub.balance * Period \in Nat /\ -sub.balance * Period = (-sub.balance) * Period
  <2>1. (-sub.balance) * Period \in Nat
    BY <1>1, <1>2, Products
  <2>2. -sub.balance * Period = (-sub.balance) * Period
    BY <1>1, <1>2
  <2> QED  BY <2>1, <2>2
<1>4. /\ need \in Nat /\ (need * price) \div Period \in Nat
      /\ (need * price) \div Period >= -sub.balance
  <2>1. -sub.balance * Period + price - 1 \in Nat
    BY <1>1, <1>3
  <2>2. need \in Nat
    BY <1>1, <2>1, Quotients DEF RoundUp
  <2>3. need = RoundUp((-sub.balance) * Period, price)
    BY <1>3
  <2>4. (need * price) \div Period >= -sub.balance
    <3> DEFINE debt == -sub.balance
    <3>1. debt \in Nat /\ need = RoundUp(debt * Period, price)
      BY <1>2, <2>3
    <3> HIDE DEF debt, need
    <3>2. (need * price) \div Period >= debt
      BY <1>1, <3>1, RoundedUpCovers
    <3> QED  BY <3>2 DEF debt
  <2>5. need * price \in Nat
    <3> HIDE DEF need
    <3> QED  BY <1>1, <2>2, Products
  <2>6. (need * price) \div Period \in Nat
    <3> HIDE DEF need
    <3> QED  BY <1>1, <2>5, Quotients
  <2> QED  BY <2>2, <2>4, <2>6
<1>5. hours = sub.time \/ (worth >= -sub.balance /\ worth \in Nat)
  <2>1. CASE need < sub.time
    <3>1. hours = need
      BY <2>1
    <3>2. worth = (need * price) \div Period
      BY <3>1
    <3> HIDE DEF worth
    <3> QED  BY <1>4, <3>2
  <2>2. CASE ~(need < sub.time)
    BY <2>2
  <2> QED  BY <2>1, <2>2
<1>6. DebtPaid(sub) = [sub EXCEPT !.time = sub.time - hours, !.balance = money]
  BY Zenon DEF DebtPaid, price
<1>7. hours \in Nat /\ worth \in Int
  <2>1. hours \in Nat
    BY <1>2, <1>4
  <2> HIDE DEF hours
  <2> QED  BY <1>1, <2>1, Products, Quotients
<1> HIDE DEF hours, worth
<1>8. money <= 0 /\ (money < 0 => hours = sub.time)
  BY <1>2, <1>5, <1>7
<1> HIDE DEF money
<1> QED  BY <1>2, <1>6, <1>8 DEF Sub

TakesHours ==
    \A i \in Invoices :
        LET u == Payer[i] IN
        invoices[i] = "paid" /\ invoices'[i] = "refunded" =>
            /\ subs'[u].balance < 0 => ~Running(subs'[u]) \/ Granted(u)
            /\ subs'[u].time < subs[u].time =>
                  /\ ~Granted(u) /\ subs'[u].balance <= 0
                  /\ subs[u].balance < Amount[i]

LEMMA TakesHoursStep ==
    ASSUME BillTypeOK, [BillNext]_billVars, NEW i \in Invoices, NEW u \in Users, u = Payer[i],
           invoices[i] = "paid", invoices'[i] = "refunded"
    PROVE  /\ subs'[u].balance < 0 => ~Running(subs'[u]) \/ Granted(u)
           /\ subs'[u].time < subs[u].time =>
                 /\ ~Granted(u) /\ subs'[u].balance <= 0
                 /\ subs[u].balance < Amount[i]
<1> DEFINE owing == [subs[u] EXCEPT !.balance = subs[u].balance - Amount[i]]
           paying == owing.balance < 0 /\ Running(owing) /\ ~Granted(u)
           new == IF paying THEN DebtPaid(owing) ELSE owing
<1>1. Refund(i)
  <2>1. invoices' # invoices
    OBVIOUS
  <2>2. PICK j \in Invoices : CreditMonth(j) \/ Refund(j) \/ \E c \in Clerks : Pay(c, j)
    <3>1. ~Clock /\ ~GrantCheck /\ \A c \in Clerks : ~Work(c)
      BY <2>1 DEF Clock, Renew, CountDown, TickDies, GrantCheck, StartGrant, HoldGrant, EndGrant,
                  Work, AskPlan, Decide, GiveWay, Store, ClaimReferrer, StopGrant, ReadForAward,
                  Award, ClerkDies
    <3> QED  BY <2>1, <3>1 DEF BillNext, billVars, Money
  <2>3. i = j /\ Refund(j)
    BY <2>2 DEF CreditMonth, Refund, Pay, BillTypeOK
  <2> QED  BY <2>3
<1>2. subs' = [subs EXCEPT ![u] = new]
  BY <1>1 DEF Refund, Put
<1>3. subs'[u] = new
  <2> HIDE DEF new
  <2> QED  BY <1>2 DEF BillTypeOK
<1>4. Amount[i] \in Nat /\ subs[u] \in Sub
  BY BillingAssumption DEF BillingAssumption, BillTypeOK
<1>5. owing \in Sub /\ owing.time = subs[u].time /\ owing.balance = subs[u].balance - Amount[i]
  BY <1>4 DEF Sub
<1> HIDE DEF owing
<1>6. CASE paying
  <2>1. owing.balance < 0 /\ owing.tariff # 0 /\ ~Granted(u)
    BY <1>5, <1>6 DEF Running, Sub
  <2>2. new = DebtPaid(owing) /\ DebtPaid(owing) \in Sub
    BY <1>5, <1>6, <2>1, DebtPaidType
  <2>3. subs[u].balance < Amount[i]
    BY <1>4, <1>5, <2>1 DEF Sub
  <2> HIDE DEF new
  <2> QED  BY <1>3, <1>5, <2>1, <2>2, <2>3, DebtPaidFacts DEF Running, Sub
<1>7. CASE ~paying
  <2>1. new = owing /\ (owing.balance < 0 => ~Running(owing) \/ Granted(u))
    BY <1>7
  <2> HIDE DEF new
  <2> QED  BY <1>3, <1>4, <1>5, <2>1 DEF Sub
<1> QED  BY <1>6, <1>7

\* A refund that leaves a debt leaves no bought hours, and takes hours only when the
\* balance does not cover it, for any prices and any period.
THEOREM RefundsTakeHours == BillSpec => RefundTakesHours
<1>1. BillTypeOK /\ [BillNext]_billVars => [TakesHours]_billVars
  <2> SUFFICES ASSUME BillTypeOK, [BillNext]_billVars PROVE TakesHours
    OBVIOUS
  <2>1. \A i \in Invoices : Payer[i] \in Users
    BY BillingAssumption DEF BillingAssumption
  <2> QED  BY <2>1, TakesHoursStep DEF TakesHours
<1>2. RefundTakesHours <=> [][TakesHours]_billVars
  BY DEF RefundTakesHours, TakesHours
<1> QED  BY <1>1, <1>2, BillTypeCorrect, PTL DEF BillSpec

-----------------------------------------------------------------------------
(* Nothing for nothing. *)

\* What a row is worth, in cents times Period, if its hours were bought.
Value(sub) == Period * sub.balance + Worth(sub)

\* What of a row is the user's: a grant's hours are not.
Kept(sub, held) == Period * sub.balance + (IF held THEN 0 ELSE Worth(sub))

Holding(u) == Kept(subs[u], Held(u))

\* A change of plan under way may still round a difference down.
Rounding(u) == IF Served(u) THEN Period ELSE 0

MayHave(u) == Period * (Credited(u) + count.changes) + gifts[u]

Earned(u) == Holding(u) + Rounding(u) <= MayHave(u)

\* What a clerk is about to write is worth what it read and the rounding.
CopyEarned(clerk) ==
    /\ clerk.job = "give way" => Value(clerk.new) <= Period * clerk.base.balance + Period
    /\ clerk.job = "store" => Value(clerk.new) <= Value(clerk.base) + Period

Changing == {"decide", "give way", "store"}

OneChange ==
    \A c, d \in Clerks :
        /\ clerks[c].job \in Changing /\ clerks[d].job \in Changing
        /\ clerks[c].user = clerks[d].user
        => c = d

ValueInv ==
    /\ \A u \in Users \ overwritten : Earned(u)
    /\ \A c \in Clerks : CopyEarned(clerks[c])
    /\ OneChange

LEMMA Floors ==
    ASSUME NEW n \in Nat \ {0}, NEW a \in Int
    PROVE  /\ a \div n \in Int
           /\ n * (a \div n) <= a /\ a < n * (a \div n) + n
  OBVIOUS

LEMMA Distributes ==
    ASSUME NEW a \in Int, NEW b \in Int, NEW c \in Int
    PROVE  /\ a * (b + c) = a * b + a * c /\ a * (b - c) = a * b - a * c
           /\ (b + c) * a = b * a + c * a /\ (b - c) * a = b * a - c * a
  OBVIOUS

LEMMA WorthIsNat ==
    ASSUME NEW sub \in Sub
    PROVE  /\ Worth(sub) \in Nat /\ Worth(sub) = sub.time * PriceOf(sub.tariff)
           /\ Period * sub.balance \in Int /\ Value(sub) \in Int
           /\ Period * sub.balance <= Value(sub)
<1>1. /\ PriceOf(sub.tariff) \in Nat /\ sub.time \in Nat /\ sub.balance \in Int
      /\ Period \in Int
  BY PricesAreNat, PeriodIsPositive DEF Sub
<1>2. Worth(sub) \in Nat /\ Period * sub.balance \in Int
  BY <1>1, Products DEF Worth
<1> QED  BY <1>2 DEF Value, Worth

\* A row without a plan or without hours is worth its balance.
LEMMA IdleRowsAreMoney ==
    ASSUME NEW sub \in Sub, ~Running(sub)
    PROVE  Worth(sub) = 0
<1>1. /\ PriceOf(sub.tariff) \in Nat /\ sub.time \in Nat /\ sub.tariff \in Nat
      /\ (sub.tariff = 0 => PriceOf(sub.tariff) = 0)
  BY PricesAreNat, BillingAssumption DEF Sub, PriceOf, BillingAssumption
<1>2. sub.time = 0 \/ PriceOf(sub.tariff) = 0
  BY <1>1 DEF Running
<1> QED  BY <1>1, <1>2 DEF Worth

-----------------------------------------------------------------------------
(* What the operators on a row make of its value. *)

\* A change of plan rounds at most one cent down.
LEMMA ChangedValue ==
    ASSUME NEW sub \in Sub, NEW p \in Plans \cup {0}, NEW paid \in BOOLEAN
    PROVE  Value(Changed(sub, p, paid)) <= Value(sub) + Period
<1> DEFINE old == PriceOf(sub.tariff)
           fresh == PriceOf(p)
           t == sub.time
           b == sub.balance
           n == Period
           diff == fresh - old
           save == old - fresh
           x == t * diff
           y == (t - 1) * save
           due == x \div n
           back == y \div (2 * n)
<1>1. /\ old \in Nat /\ fresh \in Nat /\ n \in Nat \ {0} /\ 2 * n \in Nat \ {0}
      /\ t \in Nat /\ t - 1 \in Int /\ b \in Int
  BY PricesAreNat, PeriodIsPositive DEF Sub
<1>2. Value(sub) = n * b + t * old
  BY DEF Value, Worth
<1>3. diff \in Int /\ save \in Int
  BY <1>1
<1>4. x \in Int /\ y \in Int /\ t * old \in Nat /\ t * fresh \in Nat /\ n * b \in Int
  <2> HIDE DEF old, fresh, t, b, n, diff, save
  <2>1. t - 1 \in Int
    BY <1>1
  <2> QED  BY <1>1, <1>3, <2>1, Products
<1>5. x = t * fresh - t * old
  <2> HIDE DEF old, fresh, t
  <2> QED  BY <1>1, Distributes
<1>6. ASSUME NEW m \in Int
      PROVE  LET new == [sub EXCEPT !.tariff = p, !.balance = m]
             IN  Value(new) = n * m + t * fresh
  BY <1>6 DEF Value, Worth, Sub
<1>7. CASE old < fresh
  <2>1. due \in Int /\ n * due <= x /\ x < n * due + n
    <3> HIDE DEF x, n
    <3> QED  BY <1>1, <1>4, Floors
  <2>2. Changed(sub, p, paid) = [sub EXCEPT !.tariff = p, !.balance = b - due]
    BY <1>7 DEF Changed, Upgraded
  <2> HIDE DEF due
  <2>3. b - due \in Int
    BY <1>1, <2>1
  <2>4. Value(Changed(sub, p, paid)) = n * (b - due) + t * fresh
    BY <1>6, <2>2, <2>3
  <2>5. n * (b - due) = n * b - n * due /\ n * due \in Int
    <3> HIDE DEF n, b
    <3> QED  BY <1>1, <2>1, Distributes, Products
  <2> HIDE DEF x
  <2> DEFINE nb == n * b
             nd == n * due
             to == t * old
             tf == t * fresh
  <2>6. Value(Changed(sub, p, paid)) = nb - nd + tf /\ Value(sub) = nb + to
    BY <1>2, <2>4, <2>5
  <2>7. x < nd + n /\ x = tf - to /\ nb \in Int /\ nd \in Int /\ to \in Nat /\ tf \in Nat /\ x \in Int
        /\ n \in Nat
    BY <1>1, <1>4, <1>5, <2>1, <2>5
  <2> HIDE DEF nb, nd, to, tf, n
  <2>8. Value(Changed(sub, p, paid)) <= Value(sub) + n
    BY <2>6, <2>7
  <2> QED  BY <2>8 DEF n
<1>8. CASE ~(old < fresh)
  <2>1. back \in Int /\ (2 * n) * back <= y
    <3> HIDE DEF y, n
    <3> QED  BY <1>1, <1>4, Floors
  <2> DEFINE m == IF paid /\ back > 0 THEN b + back ELSE b
  <2>2. Changed(sub, p, paid) = [sub EXCEPT !.tariff = p, !.balance = m]
    BY <1>8, Zenon DEF Changed, Downgraded
  <2>3. save \in Nat /\ t * save \in Nat /\ y = t * save - save
    <3>1. save \in Nat
      BY <1>1, <1>8
    <3> HIDE DEF old, fresh, t, save
    <3>2. y = t * save - 1 * save
      BY <1>1, <3>1, Distributes
    <3> QED  BY <1>1, <3>1, <3>2, Products
  <2>4. t * save = t * old - t * fresh
    <3> HIDE DEF old, fresh, t
    <3> QED  BY <1>1, Distributes
  <2> HIDE DEF back
  <2>5. m \in Int /\ n * m <= n * b + t * save
    <3> HIDE DEF y, n, t, save, b
    <3>1. n * b \in Int /\ n * back \in Int
      BY <1>1, <2>1, Products
    <3>2. (2 * n) * back = n * back + n * back
      BY <1>1, <2>1
    <3>3. CASE paid /\ back > 0
      <4>1. m = b + back /\ n * m = n * b + n * back
        BY <1>1, <2>1, <3>3, Distributes
      <4>2. n * back >= 0
        <5>1. back \in Nat
          BY <2>1, <3>3
        <5>2. n * back \in Nat
          BY <1>1, <5>1, Products
        <5> QED  BY <5>2
      <4> DEFINE nk == n * back
                 nb == n * b
                 ts == t * save
      <4>3. nk + nk <= y /\ y = ts - save /\ nk >= 0 /\ n * m = nb + nk
        BY <2>1, <2>3, <3>2, <4>1, <4>2
      <4>4. nk \in Int /\ nb \in Int /\ ts \in Nat /\ save \in Nat
        BY <2>3, <3>1
      <4>5. m \in Int
        BY <1>1, <2>1, <4>1
      <4> HIDE DEF nk, ts, m
      <4>6. nk <= ts
        BY <1>4, <4>3, <4>4
      <4> HIDE DEF nb
      <4>7. n * m <= nb + ts
        BY <4>3, <4>4, <4>6
      <4> QED  BY <4>5, <4>7 DEF nb, ts
    <3>4. CASE ~(paid /\ back > 0)
      <4>1. m = b
        BY <3>4
      <4> HIDE DEF m
      <4> QED  BY <1>1, <2>3, <3>1, <4>1
    <3> QED  BY <3>3, <3>4
  <2> HIDE DEF m
  <2>6. Value(Changed(sub, p, paid)) = n * m + t * fresh
    BY <1>6, <2>2, <2>5
  <2> DEFINE nm == n * m
             nb == n * b
             to == t * old
             tf == t * fresh
  <2>7. /\ Value(Changed(sub, p, paid)) = nm + tf /\ Value(sub) = nb + to
        /\ nm <= nb + (to - tf)
    BY <1>2, <2>4, <2>5, <2>6
  <2>8. nm \in Int /\ nb \in Int /\ to \in Nat /\ tf \in Nat /\ n \in Nat
    <3>1. nm \in Int
      <4> HIDE DEF n
      <4> QED  BY <1>1, <2>5, Products
    <3> QED  BY <1>1, <1>4, <3>1
  <2> HIDE DEF nm, nb, to, tf, n
  <2>9. Value(Changed(sub, p, paid)) <= Value(sub) + n
    BY <2>7, <2>8
  <2> QED  BY <2>9 DEF n
<1> QED  BY <1>7, <1>8

\* A purchase turns money into hours at the plan's price.
LEMMA BoughtValue ==
    ASSUME NEW sub \in Sub
    PROVE  Value(Bought(sub)) = Value(sub)
<1> DEFINE price == PriceOf(sub.tariff)
           m == sub.balance - price
<1>1. price \in Nat /\ Period \in Nat /\ sub.balance \in Int /\ sub.time \in Nat
  BY PricesAreNat, PeriodIsPositive DEF Sub
<1>2. CASE sub.time = 0 /\ sub.balance > price
  <2>1. Bought(sub) = [sub EXCEPT !.balance = m, !.time = Period]
    BY <1>2 DEF Bought
  <2>2. m \in Int /\ Period * m = Period * sub.balance - Period * price
    <3> HIDE DEF price
    <3> QED  BY <1>1, Distributes
  <2>3. Period * price \in Nat /\ Period * sub.balance \in Int
    <3> HIDE DEF price
    <3> QED  BY <1>1, Products
  <2> HIDE DEF m
  <2>4. Value(Bought(sub)) = Period * m + Period * price
    BY <2>1, <2>2 DEF Value, Worth, Sub
  <2>5. Value(sub) = Period * sub.balance + 0
    <3>1. 0 * price = 0
      BY <1>1
    <3> QED  BY <1>2, <3>1 DEF Value, Worth
  <2> DEFINE pb == Period * sub.balance
             pp == Period * price
  <2>6. Value(Bought(sub)) = (pb - pp) + pp /\ Value(sub) = pb + 0
    BY <2>2, <2>4, <2>5
  <2>7. pb \in Int /\ pp \in Nat
    BY <2>3
  <2> HIDE DEF pb, pp
  <2> QED  BY <2>6, <2>7
<1>3. CASE ~(sub.time = 0 /\ sub.balance > price)
  BY <1>3 DEF Bought
<1> QED  BY <1>2, <1>3

\* A debt takes hours for at least what they are worth.
LEMMA DebtPaidValue ==
    ASSUME NEW sub \in Sub, sub.balance < 0, sub.tariff # 0
    PROVE  Value(DebtPaid(sub)) <= Value(sub)
<1> DEFINE price == PriceOf(sub.tariff)
           need == RoundUp(-sub.balance * Period, price)
           hours == IF need < sub.time THEN need ELSE sub.time
           x == hours * price
           worth == x \div Period
           b == sub.balance
           m == IF b + worth < 0 THEN b + worth ELSE 0
<1>1. price \in Nat \ {0} /\ Period \in Nat \ {0} /\ b \in Int /\ sub.time \in Nat
  BY PricesArePositive, PeriodIsPositive DEF Sub
<1>2. hours \in Nat
  <2>1. -b \in Nat
    BY <1>1
  <2>2. -b * Period \in Nat
    BY <1>1, <2>1, Products
  <2>3. -b * Period + price - 1 \in Nat
    BY <1>1, <2>2
  <2>4. need \in Nat
    BY <1>1, <2>3, Quotients DEF RoundUp
  <2> QED  BY <1>1, <2>4
<1>3. DebtPaid(sub) = [sub EXCEPT !.time = sub.time - hours, !.balance = m]
  BY Zenon DEF DebtPaid
<1>4. DebtPaid(sub) \in Sub
  BY DebtPaidType
<1> HIDE DEF hours
<1>5. x \in Nat /\ sub.time * price \in Nat
  <2> HIDE DEF price
  <2> QED  BY <1>1, <1>2, Products
<1>6. worth \in Int /\ Period * worth <= x
  <2> HIDE DEF x
  <2> QED  BY <1>1, <1>5, Floors
<1>7. worth >= 0
  <2> HIDE DEF x
  <2>1. worth \in Nat
    BY <1>1, <1>5, Quotients
  <2> QED  BY <2>1
<1> HIDE DEF worth
<1>8. m \in Int /\ m <= b + worth
  BY <1>1, <1>6
<1> HIDE DEF m
<1>9. Period * m <= Period * b + Period * worth /\ Period * m \in Int
  <2> HIDE DEF b
  <2>1. (b + worth) - m \in Nat
    BY <1>1, <1>6, <1>8
  <2>2. Period * ((b + worth) - m) \in Nat
    BY <1>1, <2>1, Products
  <2>3. /\ Period * ((b + worth) - m) = Period * (b + worth) - Period * m
        /\ Period * (b + worth) = Period * b + Period * worth
    BY <1>1, <1>6, <1>8, Distributes
  <2>4. Period * m \in Int /\ Period * b \in Int /\ Period * worth \in Int
    BY <1>1, <1>6, <1>8, Products
  <2> DEFINE pm == Period * m
             pb == Period * b
             pw == Period * worth
  <2>5. (pb + pw) - pm \in Nat
    BY <2>2, <2>3
  <2> HIDE DEF pm, pb, pw
  <2>6. pm <= pb + pw
    BY <2>4, <2>5 DEF pm, pb, pw
  <2> QED  BY <2>4, <2>6 DEF pm, pb, pw
<1>10. Value(DebtPaid(sub)) = Period * m + (sub.time - hours) * price
  BY <1>3, <1>4 DEF Value, Worth, Sub
<1>11. (sub.time - hours) * price = sub.time * price - x
  <2> HIDE DEF price
  <2> QED  BY <1>1, <1>2, Distributes
<1>12. Value(sub) = Period * b + sub.time * price
  BY DEF Value, Worth
<1>13. Period * b \in Int /\ Period * worth \in Int
  <2> HIDE DEF b
  <2> QED  BY <1>1, <1>6, Products
<1> HIDE DEF x
<1> DEFINE pm == Period * m
           pb == Period * b
           pw == Period * worth
           tp == sub.time * price
<1>14. /\ Value(DebtPaid(sub)) = pm + (tp - x) /\ Value(sub) = pb + tp
       /\ pm <= pb + pw /\ pw <= x
  BY <1>6, <1>9, <1>10, <1>11, <1>12
<1>15. pm \in Int /\ pb \in Int /\ pw \in Int /\ tp \in Nat /\ x \in Nat
  BY <1>5, <1>9, <1>13
<1> HIDE DEF pm, pb, pw, tp
<1> QED  BY <1>14, <1>15

\* A row that a grant may hold: what is the user's of it.
LEMMA KeptBounds ==
    ASSUME NEW sub \in Sub, NEW held \in BOOLEAN
    PROVE  /\ Kept(sub, held) \in Int
           /\ Period * sub.balance <= Kept(sub, held) /\ Kept(sub, held) <= Value(sub)
           /\ held => Kept(sub, held) = Period * sub.balance
           /\ ~held => Kept(sub, held) = Value(sub)
<1>1. Worth(sub) \in Nat /\ Period * sub.balance \in Int /\ Value(sub) = Period * sub.balance + Worth(sub)
  BY WorthIsNat DEF Value
<1> DEFINE pb == Period * sub.balance
           w == Worth(sub)
<1>2. w \in Nat /\ pb \in Int /\ Value(sub) = pb + w /\ Kept(sub, held) = pb + (IF held THEN 0 ELSE w)
  BY <1>1 DEF Kept
<1> HIDE DEF pb, w
<1>3. /\ Kept(sub, held) \in Int /\ pb <= Kept(sub, held) /\ Kept(sub, held) <= Value(sub)
      /\ held => Kept(sub, held) = pb
      /\ ~held => Kept(sub, held) = Value(sub)
  BY <1>2
<1> QED  BY <1>3 DEF pb

LEMMA MoneyMoved ==
    ASSUME NEW sub \in Sub, NEW a \in Int, NEW new,
           new = [sub EXCEPT !.balance = sub.balance + a]
    PROVE  /\ new \in Sub /\ new.tariff = sub.tariff /\ new.time = sub.time
           /\ new.balance = sub.balance + a
           /\ Value(new) = Value(sub) + Period * a
           /\ \A held \in BOOLEAN : Kept(new, held) = Kept(sub, held) + Period * a
<1> DEFINE b == sub.balance + a
<1>1. sub.balance \in Int /\ Period \in Int /\ b \in Int
  BY PeriodIsPositive DEF Sub
<1>2. Period * b = Period * sub.balance + Period * a /\ Period * sub.balance \in Int /\ Period * a \in Int
  BY <1>1, Distributes, Products
<1>3. new = [sub EXCEPT !.balance = b]
  OBVIOUS
<1>4. b = sub.balance + a
  OBVIOUS
<1> HIDE DEF b
<1>5. new \in Sub /\ new.tariff = sub.tariff /\ new.time = sub.time /\ new.balance = b
  BY <1>1, <1>3 DEF Sub
<1>6. Worth(new) = Worth(sub) /\ Worth(sub) \in Nat
  BY <1>5, WorthIsNat DEF Worth
<1> DEFINE pb == Period * sub.balance
           pa == Period * a
           pn == Period * new.balance
<1>7. pn = pb + pa /\ pb \in Int /\ pa \in Int
  BY <1>2, <1>5
<1>8. Value(new) = pn + Worth(new) /\ Value(sub) = pb + Worth(sub)
  BY DEF Value
<1>9. \A held \in BOOLEAN : /\ Kept(new, held) = pn + (IF held THEN 0 ELSE Worth(new))
                            /\ Kept(sub, held) = pb + (IF held THEN 0 ELSE Worth(sub))
  BY DEF Kept
<1> HIDE DEF pb, pa, pn
<1>10. Value(new) = Value(sub) + pa
  BY <1>6, <1>7, <1>8
<1>11. \A held \in BOOLEAN : Kept(new, held) = Kept(sub, held) + pa
  BY <1>6, <1>7, <1>9
<1> QED  BY <1>4, <1>5, <1>10, <1>11 DEF pa

\* A payment adds itself: to the row, or to money of which a plan is bought.
LEMMA ReplenishedValue ==
    ASSUME BillTypeOK, NEW i \in Invoices, NEW u \in Users, u = Payer[i]
    PROVE  \/ /\ ~GivesWay(u, i)
              /\ Replenished(u, i) = [subs[u] EXCEPT !.balance = subs[u].balance + Amount[i]]
           \/ Value(Replenished(u, i)) = Period * (subs[u].balance + Amount[i])
<1> DEFINE sold == PlanSold[i] # 0 /\ ~(Running(subs[u]) /\ ~GivesWay(u, i))
           plan == IF sold THEN PlanSold[i] ELSE subs[u].tariff
           price == PriceOf(plan)
           m == subs[u].balance + Amount[i]
<1>1. plan \in Plans \cup {0} /\ m \in Int
  BY BillingAssumption DEF BillingAssumption, BillTypeOK, Sub
<1>2. Replenished(u, i) =
        IF ~sold /\ subs[u].time > 0
        THEN [subs[u] EXCEPT !.balance = m]
        ELSE IF plan # 0 /\ m >= price
             THEN [tariff |-> plan, balance |-> m - price, time |-> Period]
             ELSE [tariff |-> plan, balance |-> m, time |-> 0]
  BY Zenon DEF Replenished
<1>3. price \in Nat /\ Period \in Nat
  BY <1>1, PricesAreNat, PeriodIsPositive
<1>4. GivesWay(u, i) => sold
  BY DEF GivesWay
<1> HIDE DEF sold, m
<1>5. CASE ~sold /\ subs[u].time > 0
  BY <1>2, <1>4, <1>5 DEF m
<1>6. CASE ~(~sold /\ subs[u].time > 0) /\ plan # 0 /\ m >= price
  <2> DEFINE left == m - price
  <2>1. left \in Int /\ Period * left = Period * m - Period * price
    <3> HIDE DEF price
    <3> QED  BY <1>1, <1>3, Distributes
  <2>2. Replenished(u, i) = [tariff |-> plan, balance |-> left, time |-> Period]
    BY <1>2, <1>6
  <2> HIDE DEF left
  <2>3. Value(Replenished(u, i)) = Period * left + Period * price
    BY <2>2 DEF Value, Worth
  <2>4. Period * m \in Int /\ Period * price \in Int
    <3> HIDE DEF price
    <3> QED  BY <1>1, <1>3, Products
  <2> DEFINE pm == Period * m
             pp == Period * price
  <2>5. Value(Replenished(u, i)) = (pm - pp) + pp /\ pm \in Int /\ pp \in Int
    BY <2>1, <2>3, <2>4
  <2> HIDE DEF pm, pp
  <2>6. Value(Replenished(u, i)) = pm
    BY <2>5
  <2> QED  BY <2>6 DEF pm, m
<1>7. CASE ~(~sold /\ subs[u].time > 0) /\ ~(plan # 0 /\ m >= price)
  <2>1. Replenished(u, i) = [tariff |-> plan, balance |-> m, time |-> 0]
    BY <1>2, <1>7
  <2>2. Value(Replenished(u, i)) = Period * m + 0 * price
    BY <2>1 DEF Value, Worth
  <2>3. 0 * price = 0 /\ Period * m \in Int
    <3> HIDE DEF price
    <3> QED  BY <1>1, <1>3, Products
  <2> DEFINE pm == Period * m
  <2>4. Value(Replenished(u, i)) = pm + 0 /\ pm \in Int
    BY <2>2, <2>3
  <2> HIDE DEF pm
  <2>5. Value(Replenished(u, i)) = pm
    BY <2>4
  <2> QED  BY <2>5 DEF pm, m
<1> QED  BY <1>5, <1>6, <1>7

\* Ending a grant takes nothing that is the user's, and leaves nothing that is not.
LEMMA EndedValue ==
    ASSUME BillTypeOK, NEW u \in Users, NEW restore \in BOOLEAN
    PROVE  Value(Ended(u, restore)) <= Holding(u)
<1>1. subs[u] \in Sub /\ Ended(u, restore) \in Sub /\ Ended(u, restore).balance = subs[u].balance
  BY EndedType DEF BillTypeOK
<1>2. Held(u) \in BOOLEAN
  BY DEF Held, Granted
<1>3. CASE Held(u)
  <2>1. Ended(u, restore).time = 0
    BY <1>1, <1>3 DEF Ended, Sub
  <2>2. Worth(Ended(u, restore)) = 0
    BY <1>1, <2>1, IdleRowsAreMoney DEF Running
  <2>3. Holding(u) = Period * subs[u].balance
    BY <1>1, <1>2, <1>3, KeptBounds DEF Holding
  <2>4. Period * subs[u].balance \in Int
    BY <1>1, WorthIsNat
  <2>5. Value(Ended(u, restore)) = Period * subs[u].balance + 0
    BY <1>1, <2>2 DEF Value
  <2> DEFINE pb == Period * subs[u].balance
  <2>6. Value(Ended(u, restore)) = pb + 0 /\ Holding(u) = pb /\ pb \in Int
    BY <2>3, <2>4, <2>5
  <2> HIDE DEF pb
  <2> QED  BY <2>6
<1>4. CASE ~Held(u)
  <2>1. Ended(u, restore) = subs[u]
    BY <1>4 DEF Ended
  <2>2. Holding(u) = Value(subs[u]) /\ Value(subs[u]) \in Int
    BY <1>1, <1>2, <1>4, KeptBounds, WorthIsNat DEF Holding
  <2> QED  BY <2>1, <2>2
<1> QED  BY <1>3, <1>4

\* What is decided is worth what was read, or only its money if a grant held the row.
LEMMA DecideValue ==
    ASSUME BillTypeOK, NEW c \in Clerks, NEW u \in Users, u = clerks[c].user, Decide(c)
    PROVE  \/ clerks' = [clerks EXCEPT ![c] = Idle]
           \/ \E new \in Sub, job \in {"give way", "store"} :
                /\ clerks' = [clerks EXCEPT ![c].new = new, ![c].job = job]
                /\ job = "give way" => Value(new) <= Period * clerks[c].base.balance + Period
                /\ job = "store" => Value(new) <= Value(clerks[c].base) + Period
<1> DEFINE sub == AsSold(c)
           p == clerks[c].want
           paid == EverPaid(u)
           changed == Changed(sub, p, paid)
           off == Held(u) /\ p = 0
           new == IF off THEN sub ELSE Bought(changed)
           short == PriceOf(sub.tariff) < PriceOf(p) /\ changed.balance < 0
           refused == ~off /\ (p = sub.tariff \/ short \/ (Held(u) /\ new.time = 0))
           job == IF Held(u) THEN "give way" ELSE "store"
           base == clerks[c].base
<1>1. base \in Sub /\ p \in Plans \cup {0} /\ paid \in BOOLEAN
  BY DEF BillTypeOK, Clerk, EverPaid
<1>2. sub \in Sub /\ sub.balance = base.balance
  BY <1>1 DEF AsSold, NoPlan, Sub
<1>3. IF refused THEN clerks' = [clerks EXCEPT ![c] = Idle]
      ELSE clerks' = [clerks EXCEPT ![c].new = new, ![c].job = job]
  BY Zenon DEF Decide, Done
<1>4. Held(u) => ~Running(sub)
  BY <1>1 DEF AsSold, NoPlan, Running, Sub
<1>5. ~Held(u) => sub = base
  BY DEF AsSold
<1> HIDE DEF sub, p, paid
<1>6. changed \in Sub
  BY <1>1, <1>2, ChangedFacts
<1>7. new \in Sub
  BY <1>2, <1>6, BoughtFacts
<1>8. Value(new) <= Value(sub) + Period
  <2>1. Value(sub) \in Int /\ Period \in Nat
    BY <1>2, WorthIsNat, PeriodIsPositive
  <2>2. CASE off
    <3>1. new = sub
      BY <2>2
    <3> HIDE DEF new
    <3> QED  BY <2>1, <3>1
  <2>3. CASE ~off
    <3>1. Value(changed) <= Value(sub) + Period
      BY <1>1, <1>2, ChangedValue
    <3>2. new = Bought(changed)
      BY <2>3
    <3> HIDE DEF new, changed
    <3>3. Value(new) = Value(changed)
      BY <1>6, <3>2, BoughtValue
    <3> QED  BY <3>1, <3>3
  <2> QED  BY <2>2, <2>3
<1>9. Held(u) => Value(sub) = Period * base.balance
  <2>1. ASSUME Held(u) PROVE Worth(sub) = 0
    BY <1>2, <1>4, <2>1, IdleRowsAreMoney
  <2>2. Value(sub) = Period * base.balance + Worth(sub) /\ Period * base.balance \in Int
    BY <1>1, <1>2, WorthIsNat DEF Value
  <2> DEFINE pb == Period * base.balance
  <2>3. Value(sub) = pb + Worth(sub) /\ pb \in Int
    BY <2>2
  <2> HIDE DEF pb
  <2>4. Held(u) => Value(sub) = pb
    BY <2>1, <2>3
  <2> QED  BY <2>4 DEF pb
<1>10. /\ job \in {"give way", "store"}
       /\ job = "give way" => Held(u)
       /\ job = "store" => ~Held(u)
  OBVIOUS
<1> HIDE DEF new, refused, job, base
<1>11. job = "give way" => Value(new) <= Period * base.balance + Period
  <2> SUFFICES ASSUME job = "give way" PROVE Value(new) <= Period * base.balance + Period
    OBVIOUS
  <2>1. Value(sub) = Period * base.balance
    BY <1>9, <1>10
  <2> QED  BY <1>8, <2>1
<1>12. job = "store" => Value(new) <= Value(base) + Period
  BY <1>5, <1>8, <1>10
<1>13. CASE refused
  BY <1>3, <1>13
<1>14. CASE ~refused
  <2>1. clerks' = [clerks EXCEPT ![c].new = new, ![c].job = job]
    BY <1>3, <1>14
  <2>2. /\ job = "give way" => Value(new) <= Period * clerks[c].base.balance + Period
        /\ job = "store" => Value(new) <= Value(clerks[c].base) + Period
    BY <1>11, <1>12 DEF base
  <2> QED  BY <1>7, <1>10, <2>1, <2>2, Zenon
<1> QED  BY <1>13, <1>14

-----------------------------------------------------------------------------
(* How a step moves what a user has and may have. *)

LEMMA CreditedIsInt ==
    ASSUME BillTypeOK, NEW u \in Users
    PROVE  Credited(u) \in Int
<1> DEFINE S == {j \in Invoices : Payer[j] = u /\ invoices[j] = "paid"}
<1>1. S \in SUBSET Invoices /\ IsFiniteSet(Invoices) /\ \A j \in S : Amount[j] \in Int
  BY BillingAssumption DEF BillingAssumption
<1>2. IsFiniteSet(S)
  BY <1>1, FS_Subset
<1> HIDE DEF S
<1>3. SumFunctionOnSet(Amount, S) \in Int
  BY <1>1, <1>2, SumIsInt
<1> QED  BY <1>3 DEF Credited, S

LEMMA CreditedMoves ==
    ASSUME BillTypeOK, NEW i \in Invoices, NEW u \in Users, NEW state,
           invoices' = [invoices EXCEPT ![i] = state]
    PROVE  /\ Payer[i] # u => Credited(u)' = Credited(u)
           /\ Payer[i] = u /\ invoices[i] # "paid" /\ state = "paid" =>
                Credited(u)' = Credited(u) + Amount[i]
           /\ Payer[i] = u /\ invoices[i] = "paid" /\ state # "paid" =>
                Credited(u)' = Credited(u) - Amount[i]
<1> DEFINE S == {j \in Invoices : Payer[j] = u /\ invoices[j] = "paid"}
           T == {j \in Invoices : Payer[j] = u /\ invoices'[j] = "paid"}
<1>1. /\ S \in SUBSET Invoices /\ T \in SUBSET Invoices /\ IsFiniteSet(Invoices)
      /\ \A j \in Invoices : Amount[j] \in Int
  BY BillingAssumption DEF BillingAssumption
<1>2. IsFiniteSet(S) /\ IsFiniteSet(T)
  BY <1>1, FS_Subset
<1>3. invoices'[i] = state /\ \A j \in Invoices \ {i} : invoices'[j] = invoices[j]
  BY DEF BillTypeOK
<1>4. Credited(u) = SumFunctionOnSet(Amount, S) /\ Credited(u)' = SumFunctionOnSet(Amount, T)
  BY DEF Credited
<1>5. Payer[i] # u => S = T
  BY <1>3
<1>6. Payer[i] = u /\ invoices[i] # "paid" /\ state = "paid" => i \in T /\ S = T \ {i}
  BY <1>3
<1>7. Payer[i] = u /\ invoices[i] = "paid" /\ state # "paid" => i \in S /\ T = S \ {i}
  BY <1>3
<1> HIDE DEF S, T
<1>8. ASSUME i \in T, S = T \ {i} PROVE Credited(u)' = Credited(u) + Amount[i]
  <2>1. SumFunctionOnSet(Amount, T) = Amount[i] + SumFunctionOnSet(Amount, T \ {i})
    BY <1>1, <1>2, <1>8, SumWithout
  <2>2. SumFunctionOnSet(Amount, S) \in Int
    BY <1>1, <1>2, SumIsInt
  <2> QED  BY <1>1, <1>4, <1>8, <2>1, <2>2
<1>9. ASSUME i \in S, T = S \ {i} PROVE Credited(u)' = Credited(u) - Amount[i]
  <2>1. SumFunctionOnSet(Amount, S) = Amount[i] + SumFunctionOnSet(Amount, S \ {i})
    BY <1>1, <1>2, <1>9, SumWithout
  <2>2. SumFunctionOnSet(Amount, T) \in Int
    BY <1>1, <1>2, SumIsInt
  <2> QED  BY <1>1, <1>4, <1>9, <2>1, <2>2
<1> QED  BY <1>4, <1>5, <1>6, <1>7, <1>8, <1>9

Amounts == \A u \in Users : Holding(u) \in Int /\ Rounding(u) \in 0..Period /\ MayHave(u) \in Int

LEMMA AmountsAreInt == BillTypeOK => Amounts
<1> SUFFICES ASSUME BillTypeOK, NEW u \in Users
             PROVE  Holding(u) \in Int /\ Rounding(u) \in 0..Period /\ MayHave(u) \in Int
  BY DEF Amounts
<1>1. Holding(u) \in Int
  <2>1. subs[u] \in Sub /\ Held(u) \in BOOLEAN
    BY DEF BillTypeOK, Held, Granted
  <2> QED  BY <2>1, KeptBounds DEF Holding
<1>2. Rounding(u) \in 0..Period
  BY PeriodIsPositive DEF Rounding
<1>3. MayHave(u) \in Int
  <2>1. Credited(u) + count.changes \in Int /\ gifts[u] \in Int /\ Period \in Int
    BY CreditedIsInt, PeriodIsPositive DEF BillTypeOK
  <2>2. Period * (Credited(u) + count.changes) \in Int
    BY <2>1, Products
  <2> QED  BY <2>1, <2>2 DEF MayHave
<1> QED  BY <1>1, <1>2, <1>3

LEMMA AmountsStayInt == BillTypeOK' => Amounts'
  BY AmountsAreInt, PTL

\* What is added to a row is added to what the user may have.
LEMMA EarnedMoves ==
    ASSUME BillTypeOK, BillTypeOK', NEW u \in Users, Earned(u), NEW a \in Int,
           Served(u)' => Served(u),
           Holding(u)' <= Holding(u) + a, MayHave(u) + a <= MayHave(u)'
    PROVE  Earned(u)'
<1>1. /\ Holding(u) \in Int /\ Rounding(u) \in Int /\ MayHave(u) \in Int
      /\ Holding(u)' \in Int /\ Rounding(u)' \in Int /\ MayHave(u)' \in Int
  BY AmountsAreInt, AmountsStayInt, PeriodIsPositive DEF Amounts
<1>2. Rounding(u)' <= Rounding(u)
  BY PeriodIsPositive DEF Rounding
<1>3. Holding(u) + Rounding(u) <= MayHave(u)
  BY DEF Earned
<1>4. Holding(u)' + Rounding(u)' <= MayHave(u)'
  BY <1>1, <1>2, <1>3
<1> QED  BY <1>4 DEF Earned

LEMMA MayHaveMoves ==
    ASSUME BillTypeOK, BillTypeOK', NEW u \in Users, NEW a \in Int,
           Credited(u)' = Credited(u) + a, count'.changes = count.changes, gifts'[u] = gifts[u]
    PROVE  MayHave(u)' = MayHave(u) + Period * a
<1> DEFINE x == Credited(u) + count.changes
           y == Credited(u)' + count'.changes
<1>1. x \in Int /\ Credited(u) \in Int /\ count.changes \in Int /\ gifts[u] \in Int /\ Period \in Int
  BY CreditedIsInt, PeriodIsPositive DEF BillTypeOK
<1>2. y = x + a
  BY <1>1
<1>3. MayHave(u) = Period * x + gifts[u] /\ MayHave(u)' = Period * y + gifts[u]
  BY DEF MayHave
<1> HIDE DEF x, y
<1>4. Period * y = Period * x + Period * a
  BY <1>1, <1>2, Distributes
<1>5. Period * x \in Int /\ Period * a \in Int
  BY <1>1, Products
<1> QED  BY <1>1, <1>3, <1>4, <1>5

LEMMA MayHaveKept ==
    ASSUME NEW u \in Users,
           invoices' = invoices, count'.changes = count.changes, gifts'[u] = gifts[u]
    PROVE  MayHave(u)' = MayHave(u)
  BY DEF MayHave, Credited

LEMMA HoldingKept ==
    ASSUME NEW u \in Users, subs'[u] = subs[u], grants'[u] = grants[u]
    PROVE  Holding(u)' = Holding(u)
  BY DEF Holding, Held, Granted

\* Nothing the user has or may have is touched.
LEMMA EarnedKept ==
    ASSUME BillTypeOK, BillTypeOK', NEW u \in Users, Earned(u),
           subs'[u] = subs[u], grants'[u] = grants[u],
           invoices' = invoices, count'.changes = count.changes, gifts'[u] = gifts[u],
           Served(u)' => Served(u)
    PROVE  Earned(u)'
<1>1. Holding(u)' = Holding(u) /\ MayHave(u)' = MayHave(u)
  BY HoldingKept, MayHaveKept
<1>2. Holding(u) \in Int /\ MayHave(u) \in Int
  BY AmountsAreInt DEF Amounts
<1>3. Holding(u)' <= Holding(u) + 0 /\ MayHave(u) + 0 <= MayHave(u)'
  BY <1>1, <1>2
<1> QED  BY <1>3, EarnedMoves

\* A clerk moves on, stays with its user or is done.
LEMMA ClerkMoves ==
    ASSUME NEW c \in Clerks, \A d \in Clerks \ {c} : clerks'[d] = clerks[d],
           clerks'[c].job \in Changing =>
             clerks[c].job \in Changing /\ clerks'[c].user = clerks[c].user,
           OneChange, \A d \in Clerks : CopyEarned(clerks[d]), CopyEarned(clerks'[c])
    PROVE  /\ \A u \in Users : Served(u)' => Served(u)
           /\ \A u \in Users : clerks[c].user = u /\ clerks[c].job \in Changing
                /\ clerks'[c].job \notin Changing => ~Served(u)'
           /\ OneChange'
           /\ (\A d \in Clerks : CopyEarned(clerks[d]))'
<1>1. \A d \in Clerks : clerks'[d].job \in Changing =>
        clerks[d].job \in Changing /\ clerks'[d].user = clerks[d].user
  OBVIOUS
<1>2. OneChange'
  BY <1>1 DEF OneChange
<1>3. (\A d \in Clerks : CopyEarned(clerks[d]))'
  <2>1. \A d \in Clerks : CopyEarned(clerks'[d])
    OBVIOUS
  <2> QED  BY <2>1
<1>4. ASSUME NEW u \in Users, Served(u)' PROVE Served(u)
  BY <1>1, <1>4 DEF Served, Changing
<1>5. ASSUME NEW u \in Users, clerks[c].user = u, clerks[c].job \in Changing,
             clerks'[c].job \notin Changing, Served(u)'
      PROVE  FALSE
  <2>1. PICK d \in Clerks : clerks'[d].user = u /\ clerks'[d].job \in Changing
    BY <1>5 DEF Served, Changing
  <2>2. d # c /\ clerks[d].user = u /\ clerks[d].job \in Changing
    BY <1>1, <1>5, <2>1
  <2> QED  BY <1>5, <2>2 DEF OneChange
<1> QED  BY <1>2, <1>3, <1>4, <1>5

LEMMA IdleEarned ==
    ASSUME NEW clerk, clerk = Idle
    PROVE  CopyEarned(clerk) /\ clerk.job \notin Changing
  BY DEF CopyEarned, Idle, Changing

LEMMA ClerksKept ==
    ASSUME ValueInv, clerks' = clerks
    PROVE  /\ \A u \in Users : Served(u)' => Served(u)
           /\ OneChange'
           /\ (\A d \in Clerks : CopyEarned(clerks[d]))'
  BY DEF ValueInv, Served, OneChange

-----------------------------------------------------------------------------
(* Each kind of step. *)

LEMMA ValueMoney ==
    ASSUME BillTypeOK, BillTypeOK', ValueInv, NEW i \in Invoices,
           NEW u \in Users, u = Payer[i],
           CreditMonth(i) \/ Refund(i) \/ \E c \in Clerks : Pay(c, i)
    PROVE  ValueInv'
<1> DEFINE Goal == ValueInv'
<1> SUFFICES Goal
  OBVIOUS
<1>1. u \in Users /\ Amount[i] \in Nat /\ Period \in Nat
  BY BillingAssumption DEF BillingAssumption
<1>2. subs[u] \in Sub /\ subs'[u] \in Sub /\ Held(u) \in BOOLEAN /\ Held(u)' \in BOOLEAN
  BY <1>1 DEF BillTypeOK, Held, Granted
<1>3. ASSUME NEW a \in Int, Credited(u)' = Credited(u) + a,
             \A v \in Users \ {u} : Credited(v)' = Credited(v) + 0,
             Holding(u)' <= Holding(u) + Period * a,
             \A v \in Users \ {u} : subs'[v] = subs[v] /\ grants'[v] = grants[v],
             count' = count, gifts' = gifts, overwritten' = overwritten,
             \A v \in Users : Served(v)' => Served(v),
             OneChange', (\A d \in Clerks : CopyEarned(clerks[d]))'
      PROVE  Goal
  <2>1. ASSUME NEW v \in Users \ overwritten PROVE Earned(v)'
    <3>1. Earned(v) /\ (Served(v)' => Served(v))
      BY <1>3, <2>1 DEF ValueInv
    <3>2. CASE v = u
      <4>1. MayHave(v)' = MayHave(v) + Period * a
        BY <1>3, <3>2, MayHaveMoves
      <4>2. MayHave(v) \in Int /\ Period * a \in Int
        BY <1>1, <1>3, Products, AmountsAreInt DEF Amounts
      <4>3. MayHave(v) + Period * a <= MayHave(v)' /\ Holding(v)' <= Holding(v) + Period * a
        <5>1. MayHave(v) + Period * a <= MayHave(v)'
          BY <4>1, <4>2
        <5> QED  BY <1>3, <3>2, <5>1
      <4> QED  BY <3>1, <4>2, <4>3, EarnedMoves
    <3>3. CASE v # u
      <4>1. MayHave(v)' = MayHave(v) + Period * 0
        BY <1>3, <3>3, MayHaveMoves
      <4>2. Holding(v)' = Holding(v)
        BY <1>3, <3>3, HoldingKept
      <4>3. MayHave(v) \in Int /\ Holding(v) \in Int
        BY AmountsAreInt DEF Amounts
      <4>4. MayHave(v) + 0 <= MayHave(v)' /\ Holding(v)' <= Holding(v) + 0
        BY <1>1, <4>1, <4>2, <4>3
      <4> QED  BY <3>1, <4>4, EarnedMoves
    <3> QED  BY <3>2, <3>3
  <2> QED  BY <1>3, <2>1 DEF ValueInv
<1>4. ASSUME NEW sub, Put(u, sub)
      PROVE  subs'[u] = sub /\ \A v \in Users \ {u} : subs'[v] = subs[v]
  BY <1>1, <1>4 DEF Put, BillTypeOK
<1>5. ASSUME NEW a \in Int, subs'[u] = [subs[u] EXCEPT !.balance = subs[u].balance + a],
             grants'[u] = grants[u]
      PROVE  Holding(u)' <= Holding(u) + Period * a
  <2>1. subs'[u].tariff = subs[u].tariff
        /\ \A held \in BOOLEAN : Kept(subs'[u], held) = Kept(subs[u], held) + Period * a
    BY <1>2, <1>5, MoneyMoved
  <2>2. Held(u)' = Held(u)
    BY <1>5, <2>1 DEF Held, Granted
  <2>3. Holding(u)' = Holding(u) + Period * a
    BY <1>2, <2>1, <2>2 DEF Holding
  <2>4. Holding(u) \in Int /\ Period * a \in Int
    BY <1>1, <1>5, Products, AmountsAreInt DEF Amounts
  <2> QED  BY <2>3, <2>4
<1> HIDE DEF Goal
<1>6. ASSUME NEW v \in Users \ {u}, NEW state, invoices' = [invoices EXCEPT ![i] = state]
         PROVE  Credited(v)' = Credited(v) + 0
  <2>1. Credited(v)' = Credited(v) /\ Credited(v) \in Int
    BY <1>6, CreditedMoves, CreditedIsInt
  <2> QED  BY <2>1
<1>7. CASE CreditMonth(i)
  <2>1. Put(u, [subs[u] EXCEPT !.balance = subs[u].balance + Amount[i]])
    BY <1>7 DEF CreditMonth
  <2>2. Holding(u)' <= Holding(u) + Period * Amount[i]
    BY <1>1, <1>4, <1>5, <1>7, <2>1 DEF CreditMonth
  <2>3. /\ Credited(u)' = Credited(u) + Amount[i]
        /\ \A v \in Users \ {u} : Credited(v)' = Credited(v) + 0
    BY <1>1, <1>7, <1>6, CreditedMoves DEF CreditMonth
  <2>4. \A v \in Users \ {u} : subs'[v] = subs[v] /\ grants'[v] = grants[v]
    BY <1>4, <1>7, <2>1 DEF CreditMonth
  <2>5. /\ count' = count /\ gifts' = gifts /\ overwritten' = overwritten /\ clerks' = clerks
    BY <1>7 DEF CreditMonth
  <2>6. /\ \A v \in Users : Served(v)' => Served(v)
        /\ OneChange' /\ (\A d \in Clerks : CopyEarned(clerks[d]))'
    BY <2>5, ClerksKept
  <2> QED  BY <1>1, <1>3, <2>2, <2>3, <2>4, <2>5, <2>6
<1>8. CASE Refund(i)
  <2> DEFINE a == -Amount[i]
             owing == [subs[u] EXCEPT !.balance = subs[u].balance - Amount[i]]
             paying == owing.balance < 0 /\ Running(owing) /\ ~Granted(u)
             new == IF paying THEN DebtPaid(owing) ELSE owing
  <2>1. Put(u, new)
    BY <1>8, Zenon DEF Refund
  <2>2. subs'[u] = new /\ \A v \in Users \ {u} : subs'[v] = subs[v]
    <3> HIDE DEF new
    <3> QED  BY <1>4, <2>1
  <2>3. /\ grants' = grants /\ count' = count /\ gifts' = gifts /\ overwritten' = overwritten
        /\ clerks' = clerks
    BY <1>8 DEF Refund
  <2>4. a \in Int /\ owing = [subs[u] EXCEPT !.balance = subs[u].balance + a]
    <3>1. a \in Int /\ subs[u].balance + a = subs[u].balance - Amount[i]
      BY <1>1, <1>2 DEF Sub
    <3> QED  BY <3>1
  <2>5. /\ Credited(u)' = Credited(u) + a
        /\ \A v \in Users \ {u} : Credited(v)' = Credited(v) + 0
    <3>1. Credited(u)' = Credited(u) - Amount[i] /\ Credited(u) \in Int
      BY <1>1, <1>8, CreditedMoves, CreditedIsInt DEF Refund
    <3>2. \A v \in Users \ {u} : Credited(v)' = Credited(v) + 0
      BY <1>8, <1>6 DEF Refund
    <3> QED  BY <1>1, <3>1, <3>2
  <2> HIDE DEF a
  <2>6. Holding(u)' <= Holding(u) + Period * a
    <3>1. CASE paying
      <4>1. /\ owing \in Sub /\ owing.tariff = subs[u].tariff
            /\ Value(owing) = Value(subs[u]) + Period * a
        <5> HIDE DEF owing
        <5> QED  BY <1>2, <2>4, MoneyMoved
      <4> HIDE DEF owing
      <4>2. owing.balance < 0 /\ owing.tariff # 0 /\ ~Granted(u)
        BY <3>1, <4>1 DEF Running, Sub
      <4>3. Value(DebtPaid(owing)) <= Value(owing) /\ subs'[u] = DebtPaid(owing)
        BY <2>2, <3>1, <4>1, <4>2, DebtPaidValue
      <4>4. Holding(u) = Value(subs[u])
        BY <1>2, <4>2, KeptBounds DEF Holding, Held
      <4>5. Holding(u)' <= Value(subs'[u]) /\ Holding(u)' \in Int
        BY <1>2, KeptBounds DEF Holding
      <4>6. Value(subs'[u]) \in Int /\ Value(owing) \in Int
        BY <1>2, <4>1, WorthIsNat
      <4>7. Value(owing) = Holding(u) + Period * a
        BY <4>1, <4>4
      <4> QED  BY <4>3, <4>5, <4>6, <4>7
    <3>2. CASE ~paying
      <4>1. subs'[u] = [subs[u] EXCEPT !.balance = subs[u].balance + a]
        BY <2>2, <2>4, <3>2
      <4> QED  BY <1>5, <2>3, <2>4, <4>1
    <3> QED  BY <3>1, <3>2
  <2>7. /\ \A v \in Users : Served(v)' => Served(v)
        /\ OneChange' /\ (\A d \in Clerks : CopyEarned(clerks[d]))'
    BY <2>3, ClerksKept
  <2>8. a \in Int
    BY <2>4
  <2> HIDE DEF new
  <2> QED  BY <1>3, <2>2, <2>3, <2>5, <2>6, <2>7, <2>8
<1>9. ASSUME NEW c \in Clerks, Pay(c, i) PROVE Goal
  <2>1. Put(u, Replenished(u, i)) /\ clerks[c] = Idle
    BY <1>9 DEF Pay
  <2>2. subs'[u] = Replenished(u, i) /\ \A v \in Users \ {u} : subs'[v] = subs[v]
    BY <1>4, <2>1
  <2>3. /\ grants' = IF GivesWay(u, i) THEN [grants EXCEPT ![u] = NoGrant] ELSE grants
        /\ count' = count /\ gifts' = gifts /\ overwritten' = overwritten
        /\ clerks' = [clerks EXCEPT ![c] = [Idle EXCEPT !.job = "claim", !.payer = u]]
    BY <1>9 DEF Pay
  <2>4. /\ \A v \in Users \ {u} : grants'[v] = grants[v]
        /\ ~GivesWay(u, i) => grants'[u] = grants[u]
    BY <2>3 DEF BillTypeOK
  <2>5. /\ Credited(u)' = Credited(u) + Amount[i]
        /\ \A v \in Users \ {u} : Credited(v)' = Credited(v) + 0
    BY <1>1, <1>9, <1>6, CreditedMoves DEF Pay
  <2>6. Holding(u)' <= Holding(u) + Period * Amount[i]
    <3>1. CASE ~GivesWay(u, i)
               /\ Replenished(u, i) = [subs[u] EXCEPT !.balance = subs[u].balance + Amount[i]]
      BY <1>1, <1>5, <2>2, <2>4, <3>1
    <3>2. CASE Value(Replenished(u, i)) = Period * (subs[u].balance + Amount[i])
      <4> DEFINE b == subs[u].balance
                 pb == Period * b
                 pa == Period * Amount[i]
      <4>1. b \in Int
        BY <1>2 DEF Sub
      <4>2. Period * (b + Amount[i]) = pb + pa /\ pb \in Int /\ pa \in Int
        <5> HIDE DEF b
        <5> QED  BY <1>1, <4>1, Distributes, Products
      <4>3. pb <= Holding(u) /\ Holding(u) \in Int
        BY <1>2, KeptBounds DEF Holding
      <4>4. Holding(u)' <= Value(subs'[u]) /\ Holding(u)' \in Int
        BY <1>2, KeptBounds DEF Holding
      <4>5. Value(subs'[u]) = pb + pa
        BY <2>2, <3>2, <4>2
      <4> HIDE DEF pb, pa
      <4>6. Holding(u)' <= Holding(u) + pa
        BY <4>2, <4>3, <4>4, <4>5
      <4> QED  BY <4>6 DEF pa
    <3> QED  BY <1>1, <3>1, <3>2, ReplenishedValue
  <2>7. /\ clerks'[c].job = "claim" /\ \A d \in Clerks \ {c} : clerks'[d] = clerks[d]
    BY <2>3 DEF BillTypeOK, Idle
  <2>8. /\ \A v \in Users : Served(v)' => Served(v)
        /\ OneChange' /\ (\A d \in Clerks : CopyEarned(clerks[d]))'
    <3>1. CopyEarned(clerks'[c])
      BY <2>7 DEF CopyEarned
    <3>2. clerks'[c].job \notin Changing
      BY <2>7 DEF Changing
    <3>3. OneChange /\ \A d \in Clerks : CopyEarned(clerks[d])
      BY DEF ValueInv
    <3> QED  BY <2>7, <3>1, <3>2, <3>3, ClerkMoves
  <2> QED  BY <1>1, <1>3, <2>2, <2>3, <2>4, <2>5, <2>6, <2>8
<1> QED  BY <1>7, <1>8, <1>9

LEMMA ValueClock ==
    ASSUME BillTypeOK, BillTypeOK', ValueInv, Clock
    PROVE  ValueInv'
<1>1. /\ invoices' = invoices /\ grants' = grants /\ gifts' = gifts
      /\ overwritten' = overwritten /\ clerks' = clerks /\ count'.changes = count.changes
  BY DEF Clock, Renew, CountDown, TickDies, history, BillTypeOK
<1>2. /\ \A v \in Users : Served(v)' => Served(v)
      /\ OneChange' /\ (\A d \in Clerks : CopyEarned(clerks[d]))'
  BY <1>1, ClerksKept
<1>3. ASSUME NEW u \in Users PROVE Holding(u)' <= Holding(u)
  <2> DEFINE price == PriceOf(subs[u].tariff)
             t == subs[u].time
             b == subs[u].balance
  <2>1. /\ subs[u] \in Sub /\ subs'[u] \in Sub /\ Held(u) \in BOOLEAN /\ Held(u)' \in BOOLEAN
        /\ price \in Nat /\ Period \in Nat /\ t \in Nat /\ b \in Int
    BY PricesAreNat, PeriodIsPositive DEF BillTypeOK, Held, Granted, Sub
  <2>2. /\ Holding(u) \in Int /\ Holding(u)' \in Int /\ Holding(u)' <= Value(subs'[u])
        /\ Value(subs'[u]) \in Int
    BY <2>1, KeptBounds, WorthIsNat DEF Holding
  <2>3. CASE subs'[u] = subs[u]
    <3>1. Holding(u)' = Holding(u)
      BY <1>1, <2>3, HoldingKept
    <3> QED  BY <2>2, <3>1
  <2>4. CASE Renew /\ Renewable(u)
    <3> DEFINE later == t + Period
               left == b - price
    <3>1. subs'[u] = [subs[u] EXCEPT !.time = later, !.balance = left]
      BY <2>4 DEF Renew
    <3>2. ~Held(u)
      BY <2>4 DEF Renewable, Held
    <3>3. Holding(u) = Value(subs[u])
      BY <2>1, <3>2, KeptBounds DEF Holding
    <3>4. later \in Nat /\ left \in Int
      BY <2>1
    <3>5. Period * left = Period * b - Period * price /\ later * price = t * price + Period * price
      <4> HIDE DEF price, t, b
      <4> QED  BY <2>1, Distributes
    <3> HIDE DEF later, left
    <3>6. Value(subs'[u]) = Period * left + later * price /\ Value(subs[u]) = Period * b + t * price
      BY <2>1, <3>1, <3>4 DEF Value, Worth, Sub
    <3>7. Period * b \in Int /\ Period * price \in Int /\ t * price \in Int
      <4> HIDE DEF price, t, b
      <4> QED  BY <2>1, Products
    <3> DEFINE pb == Period * b
               pp == Period * price
               tp == t * price
    <3>8. Value(subs'[u]) = (pb - pp) + (tp + pp) /\ Value(subs[u]) = pb + tp
      BY <3>5, <3>6
    <3>9. pb \in Int /\ pp \in Int /\ tp \in Int
      BY <3>7
    <3> HIDE DEF pb, pp, tp
    <3> QED  BY <2>2, <3>3, <3>8, <3>9
  <2>5. CASE CountDown /\ Running(subs[u])
    <3> DEFINE less == t - 1
    <3>1. subs'[u] = [subs[u] EXCEPT !.time = less]
      BY <2>5 DEF CountDown
    <3>2. less \in Int
      BY <2>1
    <3>3. less * price = t * price - 1 * price
      <4> HIDE DEF price, t
      <4> QED  BY <2>1, Distributes
    <3> HIDE DEF less
    <3>4. subs'[u].tariff = subs[u].tariff /\ subs'[u].balance = b /\ subs'[u].time = less
      BY <2>1, <3>1 DEF Sub
    <3>5. Held(u)' = Held(u)
      BY <1>1, <3>4 DEF Held, Granted
    <3> DEFINE pb == Period * b
               tp == t * price
    <3>6. pb \in Int /\ tp \in Int
      <4> HIDE DEF price, t, b
      <4> QED  BY <2>1, Products
    <3>7. Worth(subs[u]) = tp /\ Worth(subs'[u]) = tp - 1 * price
      BY <3>3, <3>4 DEF Worth
    <3>8. /\ Holding(u) = pb + (IF Held(u) THEN 0 ELSE Worth(subs[u]))
          /\ Holding(u)' = pb + (IF Held(u) THEN 0 ELSE Worth(subs'[u]))
      BY <3>4, <3>5 DEF Holding, Kept
    <3> HIDE DEF pb, tp
    <3> QED  BY <2>1, <3>6, <3>7, <3>8
  <2> QED  BY <2>3, <2>4, <2>5 DEF Clock, Renew, CountDown, TickDies
<1>4. ASSUME NEW u \in Users \ overwritten PROVE Earned(u)'
  <2>1. Earned(u) /\ MayHave(u)' = MayHave(u) /\ (Served(u)' => Served(u))
    BY <1>1, <1>2, <1>4, MayHaveKept DEF ValueInv
  <2>2. Holding(u) \in Int /\ MayHave(u) \in Int
    BY AmountsAreInt DEF Amounts
  <2>3. Holding(u)' <= Holding(u) + 0 /\ MayHave(u) + 0 <= MayHave(u)'
    BY <1>3, <2>1, <2>2
  <2> QED  BY <2>1, <2>3, EarnedMoves
<1> QED  BY <1>1, <1>2, <1>4 DEF ValueInv

LEMMA ValueGrants ==
    ASSUME BillTypeOK, BillTypeOK', ValueInv, NEW w \in Users,
           StartGrant(w) \/ HoldGrant(w) \/ EndGrant(w)
    PROVE  ValueInv'
<1>1. /\ invoices' = invoices /\ gifts' = gifts
      /\ overwritten' = overwritten /\ clerks' = clerks /\ count'.changes = count.changes
  BY DEF StartGrant, HoldGrant, EndGrant, history, BillTypeOK
<1>2. /\ \A v \in Users : Served(v)' => Served(v)
      /\ OneChange' /\ (\A d \in Clerks : CopyEarned(clerks[d]))'
  BY <1>1, ClerksKept
<1>3. \A v \in Users \ {w} : subs'[v] = subs[v] /\ grants'[v] = grants[v]
  BY DEF StartGrant, HoldGrant, EndGrant, Put, BillTypeOK
<1>4. /\ subs[w] \in Sub /\ subs'[w] \in Sub /\ Held(w) \in BOOLEAN /\ Held(w)' \in BOOLEAN
      /\ Holding(w) \in Int /\ Holding(w)' \in Int
      /\ Holding(w)' <= Value(subs'[w]) /\ Value(subs'[w]) \in Int
      /\ Period * subs[w].balance <= Holding(w) /\ Period * subs[w].balance \in Int
  <2>1. subs[w] \in Sub /\ subs'[w] \in Sub /\ Held(w) \in BOOLEAN /\ Held(w)' \in BOOLEAN
    BY DEF BillTypeOK, Held, Granted
  <2> QED  BY <2>1, KeptBounds, WorthIsNat DEF Holding
<1>5. Holding(w)' <= Holding(w)
  <2>1. ASSUME Held(w)', subs'[w].balance = subs[w].balance PROVE Holding(w)' <= Holding(w)
    <3>1. Holding(w)' = Period * subs[w].balance
      BY <1>4, <2>1, KeptBounds DEF Holding
    <3> QED  BY <1>4, <3>1
  <2>2. CASE StartGrant(w)
    <3>1. /\ grants'[w] = [plan |-> GrantPlan, prev |-> subs[w].tariff]
          /\ subs'[w] = [subs[w] EXCEPT !.tariff = GrantPlan, !.time = HoldHours]
      BY <2>2 DEF StartGrant, Put, BillTypeOK
    <3>2. Held(w)' /\ subs'[w].balance = subs[w].balance
      BY <1>4, <3>1, BillingAssumption DEF Held, Granted, Sub, BillingAssumption
    <3> QED  BY <2>1, <3>2
  <2>3. CASE HoldGrant(w) /\ Held(w)
    <3>1. subs'[w] = [subs[w] EXCEPT !.time = HoldHours] /\ grants' = grants
      BY <2>3 DEF HoldGrant, Put, BillTypeOK
    <3>2. Held(w)' /\ subs'[w].balance = subs[w].balance
      BY <1>4, <2>3, <3>1 DEF Held, Granted, Sub
    <3> QED  BY <2>1, <3>2
  <2>4. CASE HoldGrant(w) /\ ~Held(w)
    <3>1. subs'[w] = subs[w]
      BY <2>4 DEF HoldGrant
    <3>2. Holding(w) = Value(subs[w])
      BY <1>4, <2>4, KeptBounds DEF Holding
    <3> QED  BY <1>4, <3>1, <3>2
  <2>5. CASE EndGrant(w)
    <3>1. subs'[w] = Ended(w, TRUE)
      BY <2>5 DEF EndGrant, Put, BillTypeOK
    <3>2. Value(Ended(w, TRUE)) <= Holding(w)
      BY EndedValue
    <3>3. Value(subs'[w]) <= Holding(w)
      BY <3>1, <3>2
    <3> QED  BY <1>4, <3>3
  <2> QED  BY <2>2, <2>3, <2>4, <2>5
<1>6. ASSUME NEW u \in Users \ overwritten PROVE Earned(u)'
  <2>1. Earned(u) /\ MayHave(u)' = MayHave(u) /\ (Served(u)' => Served(u))
    BY <1>1, <1>2, <1>6, MayHaveKept DEF ValueInv
  <2>2. Holding(u) \in Int /\ MayHave(u) \in Int
    BY AmountsAreInt DEF Amounts
  <2>3. Holding(u)' <= Holding(u)
    <3>1. CASE u = w
      BY <1>5, <3>1
    <3>2. CASE u # w
      <4>1. Holding(u)' = Holding(u)
        BY <1>3, <3>2, HoldingKept
      <4> QED  BY <2>2, <4>1
    <3> QED  BY <3>1, <3>2
  <2>4. Holding(u)' <= Holding(u) + 0 /\ MayHave(u) + 0 <= MayHave(u)'
    BY <2>1, <2>2, <2>3
  <2> QED  BY <2>1, <2>4, EarnedMoves
<1> QED  BY <1>1, <1>2, <1>6 DEF ValueInv

\* A clerk's step that leaves the rows alone.
LEMMA ValueClerk ==
    ASSUME BillTypeOK, BillTypeOK', ValueInv, NEW c \in Clerks,
           subs' = subs, grants' = grants, invoices' = invoices, gifts' = gifts,
           count' = count, overwritten' = overwritten,
           \A d \in Clerks \ {c} : clerks'[d] = clerks[d],
           clerks'[c].job \in Changing =>
             clerks[c].job \in Changing /\ clerks'[c].user = clerks[c].user,
           CopyEarned(clerks'[c])
    PROVE  ValueInv'
<1>1. /\ \A u \in Users : Served(u)' => Served(u)
      /\ OneChange' /\ (\A d \in Clerks : CopyEarned(clerks[d]))'
  BY ClerkMoves DEF ValueInv
<1>2. ASSUME NEW u \in Users \ overwritten PROVE Earned(u)'
  <2>1. Earned(u) /\ (Served(u)' => Served(u))
    BY <1>1, <1>2 DEF ValueInv
  <2> QED  BY <2>1, EarnedKept
<1> QED  BY <1>1, <1>2 DEF ValueInv

LEMMA ValueAsk ==
    ASSUME BillTypeOK, BillTypeOK', ValueInv, NEW c \in Clerks, NEW w \in Users,
           NEW p \in Plans \cup {0}, AskPlan(c, w, p)
    PROVE  ValueInv'
<1> DEFINE clerk == [Idle EXCEPT !.job = "decide", !.user = w, !.want = p, !.base = subs[w]]
<1>1. /\ clerks' = [clerks EXCEPT ![c] = clerk] /\ clerks[c] = Idle /\ ~Served(w)
      /\ subs' = subs /\ grants' = grants /\ invoices' = invoices /\ gifts' = gifts
      /\ overwritten' = overwritten
  BY DEF AskPlan, history
<1>2. clerk.job = "decide" /\ clerk.user = w
  BY DEF Idle
<1> HIDE DEF clerk
<1>3. clerks'[c] = clerk /\ \A d \in Clerks \ {c} : clerks'[d] = clerks[d]
  BY <1>1 DEF BillTypeOK
<1>4. (\A d \in Clerks : CopyEarned(clerks[d]))'
  <2>1. \A d \in Clerks : CopyEarned(clerks'[d])
    BY <1>2, <1>3 DEF ValueInv, CopyEarned
  <2> QED  BY <2>1
<1>5. OneChange'
  <2>1. \A d \in Clerks \ {c} : ~(clerks'[d].job \in Changing /\ clerks'[d].user = w)
    BY <1>1, <1>3 DEF Served, Changing
  <2> QED  BY <1>2, <1>3, <2>1 DEF ValueInv, OneChange
<1>6. count'.changes = count.changes + 1
  BY DEF AskPlan, BillTypeOK
<1>7. ASSUME NEW u \in Users \ overwritten PROVE Earned(u)'
  <2>1. Holding(u) + Rounding(u) <= MayHave(u) /\ Holding(u)' = Holding(u)
    BY <1>1, <1>7, HoldingKept DEF ValueInv, Earned
  <2>2. /\ Holding(u) \in Int /\ Rounding(u) \in 0..Period /\ MayHave(u) \in Int
        /\ Rounding(u)' \in 0..Period /\ Period \in Nat
    BY AmountsAreInt, AmountsStayInt, PeriodIsPositive DEF Amounts
  <2>3. MayHave(u)' = MayHave(u) + Period
    <3> DEFINE x == Credited(u) + count.changes
               y == Credited(u) + count'.changes
    <3>1. x \in Int /\ y = x + 1 /\ gifts[u] \in Int
      BY <1>6, CreditedIsInt DEF BillTypeOK
    <3>2. MayHave(u) = Period * x + gifts[u] /\ MayHave(u)' = Period * y + gifts[u]
      BY <1>1 DEF MayHave, Credited
    <3> HIDE DEF x, y
    <3>3. Period * y = Period * x + Period * 1 /\ Period * x \in Int
      BY <2>2, <3>1, Distributes, Products
    <3> QED  BY <2>2, <3>1, <3>2, <3>3
  <2>4. Holding(u)' + Rounding(u)' <= MayHave(u)'
    BY <2>1, <2>2, <2>3
  <2> QED  BY <2>4 DEF Earned
<1> QED  BY <1>1, <1>4, <1>5, <1>7 DEF ValueInv

\* A grant gives way to a clerk: the other rows and what everyone may have stay.
LEMMA ValueEnding ==
    ASSUME BillTypeOK, BillTypeOK', ValueInv, NEW c \in Clerks, NEW w \in Users,
           subs' = [subs EXCEPT ![w] = Ended(w, FALSE)],
           grants' = [grants EXCEPT ![w] = NoGrant],
           invoices' = invoices, gifts' = gifts, count' = count, overwritten' = overwritten,
           \A d \in Clerks \ {c} : clerks'[d] = clerks[d],
           clerks'[c].job \in Changing =>
             clerks[c].job \in Changing /\ clerks'[c].user = clerks[c].user,
           CopyEarned(clerks'[c])
    PROVE  ValueInv'
<1>1. /\ \A u \in Users : Served(u)' => Served(u)
      /\ OneChange' /\ (\A d \in Clerks : CopyEarned(clerks[d]))'
  BY ClerkMoves DEF ValueInv
<1>2. Holding(w)' <= Holding(w)
  <2>1. subs'[w] \in Sub /\ Held(w)' \in BOOLEAN
    BY DEF BillTypeOK, Held, Granted
  <2>2. Holding(w)' \in Int /\ Holding(w)' <= Value(subs'[w]) /\ Value(subs'[w]) \in Int
    BY <2>1, KeptBounds, WorthIsNat DEF Holding
  <2>3. subs'[w] = Ended(w, FALSE)
    BY DEF BillTypeOK
  <2>4. Value(Ended(w, FALSE)) <= Holding(w) /\ Holding(w) \in Int
    BY EndedValue, AmountsAreInt DEF Amounts
  <2>5. Value(subs'[w]) <= Holding(w)
    BY <2>3, <2>4
  <2> DEFINE later == Holding(w)'
             row == Value(subs'[w])
             now == Holding(w)
  <2>6. /\ later \in Int /\ row \in Int /\ now \in Int
        /\ later <= row /\ row <= now
    BY <2>2, <2>4, <2>5
  <2> HIDE DEF later, row, now
  <2>7. later <= now
    BY <2>6
  <2> QED  BY <2>7 DEF later, now
<1>3. ASSUME NEW u \in Users \ overwritten PROVE Earned(u)'
  <2>1. Earned(u) /\ (Served(u)' => Served(u))
    BY <1>1, <1>3 DEF ValueInv
  <2>2. CASE u = w
    <3>1. MayHave(u)' = MayHave(u) /\ MayHave(u) \in Int /\ Holding(u) \in Int
      BY MayHaveKept, AmountsAreInt DEF Amounts
    <3>2. Holding(u)' <= Holding(u) + 0 /\ MayHave(u) + 0 <= MayHave(u)'
      BY <1>2, <2>2, <3>1
    <3> QED  BY <2>1, <3>2, EarnedMoves
  <2>3. CASE u # w
    <3>1. subs'[u] = subs[u] /\ grants'[u] = grants[u]
      BY <2>3 DEF BillTypeOK
    <3> QED  BY <2>1, <3>1, EarnedKept
  <2> QED  BY <2>2, <2>3
<1> QED  BY <1>1, <1>3 DEF ValueInv

LEMMA ValueGiveWay ==
    ASSUME TypeInv, BillTypeOK', ValueInv, NEW c \in Clerks, GiveWay(c)
    PROVE  ValueInv'
<1> DEFINE w == clerks[c].user
           base == IF clerks[c].base = subs[w] THEN subs'[w] ELSE clerks[c].base
<1>1. w \in Users /\ BillTypeOK /\ clerks[c].job = "give way" /\ clerks[c] \in Clerk
  BY DEF GiveWay, Working, TypeInv, Assigned, Jobs, BillTypeOK
<1>2. /\ subs' = [subs EXCEPT ![w] = Ended(w, FALSE)] /\ grants' = [grants EXCEPT ![w] = NoGrant]
      /\ clerks' = [clerks EXCEPT ![c].job = "store", ![c].base = base]
      /\ invoices' = invoices /\ gifts' = gifts /\ count' = count /\ overwritten' = overwritten
  BY DEF GiveWay, Put, history
<1>3. base \in Sub /\ base.balance = clerks[c].base.balance
  <2>1. subs'[w] = Ended(w, FALSE)
    BY <1>1, <1>2 DEF BillTypeOK
  <2>2. Ended(w, FALSE) \in Sub /\ Ended(w, FALSE).balance = subs[w].balance
    BY <1>1, EndedType
  <2>3. clerks[c].base \in Sub
    BY <1>1 DEF Clerk
  <2> QED  BY <2>1, <2>2, <2>3
<1> HIDE DEF base
<1>4. /\ \A d \in Clerks \ {c} : clerks'[d] = clerks[d]
      /\ clerks'[c].job = "store" /\ clerks'[c].user = w
      /\ clerks'[c].base = base /\ clerks'[c].new = clerks[c].new
  BY <1>1, <1>2 DEF BillTypeOK, Clerk
<1>5. CopyEarned(clerks'[c])
  <2>1. Value(clerks[c].new) <= Period * base.balance + Period
    BY <1>1, <1>3 DEF ValueInv, CopyEarned
  <2>2. /\ Period * base.balance <= Value(base) /\ Period * base.balance \in Int
        /\ Value(base) \in Int /\ Value(clerks[c].new) \in Int /\ Period \in Nat
    BY <1>1, <1>3, WorthIsNat, PeriodIsPositive DEF Clerk
  <2>3. Value(clerks[c].new) <= Value(base) + Period
    BY <2>1, <2>2
  <2> QED  BY <1>4, <2>3 DEF CopyEarned
<1>6. clerks[c].job \in Changing /\ clerks'[c].user = clerks[c].user
  BY <1>1, <1>4 DEF Changing
<1> HIDE DEF w
<1> QED  BY <1>1, <1>2, <1>4, <1>5, <1>6, ValueEnding

LEMMA ValueStopGrant ==
    ASSUME TypeInv, BillTypeOK', ValueInv, NEW c \in Clerks, StopGrant(c)
    PROVE  ValueInv'
<1> DEFINE w == clerks[c].user
<1>1. w \in Users /\ BillTypeOK /\ clerks[c] \in Clerk
  BY DEF StopGrant, Working, TypeInv, Assigned, Jobs, BillTypeOK
<1>2. /\ subs' = [subs EXCEPT ![w] = Ended(w, FALSE)] /\ grants' = [grants EXCEPT ![w] = NoGrant]
      /\ clerks' = [clerks EXCEPT ![c].job = "read"]
      /\ invoices' = invoices /\ gifts' = gifts /\ count' = count /\ overwritten' = overwritten
  BY DEF StopGrant, Put, Move, history
<1>3. /\ \A d \in Clerks \ {c} : clerks'[d] = clerks[d]
      /\ clerks'[c].job = "read"
  BY <1>1, <1>2 DEF BillTypeOK, Clerk
<1>4. CopyEarned(clerks'[c]) /\ clerks'[c].job \notin Changing
  BY <1>3 DEF CopyEarned, Changing
<1> HIDE DEF w
<1> QED  BY <1>1, <1>2, <1>3, <1>4, ValueEnding

\* A clerk writes a whole row: who was not written over gets what was read, and more only
\* if it is booked.
LEMMA ValueWrite ==
    ASSUME BillTypeOK, BillTypeOK', ValueInv, NEW c \in Clerks, NEW w \in Users, w = clerks[c].user,
           NEW new \in Sub, NEW a \in Int,
           Subscribe(w, new), Overwrites(c, w),
           invoices' = invoices, count' = count, clerks' = [clerks EXCEPT ![c] = Idle],
           gifts'[w] = gifts[w] + a, \A v \in Users \ {w} : gifts'[v] = gifts[v],
           \/ a = 0 /\ clerks[c].job = "store" /\ Value(new) <= Value(clerks[c].base) + Period
           \/ Value(new) <= Value(clerks[c].base) + a
    PROVE  ValueInv'
<1>1. /\ subs'[w] = new /\ \A v \in Users \ {w} : subs'[v] = subs[v] /\ grants'[v] = grants[v]
  BY DEF Subscribe, Put, BillTypeOK
<1>2. clerks'[c] = Idle /\ \A d \in Clerks \ {c} : clerks'[d] = clerks[d]
  BY DEF BillTypeOK
<1>3. clerks'[c].job \notin Changing /\ CopyEarned(clerks'[c])
  BY <1>2, IdleEarned
<1>4. /\ \A u \in Users : Served(u)' => Served(u)
      /\ clerks[c].job \in Changing => ~Served(w)'
      /\ OneChange' /\ (\A d \in Clerks : CopyEarned(clerks[d]))'
  BY <1>2, <1>3, ClerkMoves DEF ValueInv
<1>5. overwritten \subseteq overwritten'
      /\ (w \notin overwritten' => clerks[c].base = subs[w] /\ ~Held(w))
  BY DEF Overwrites
<1>6. ASSUME w \notin overwritten' PROVE Earned(w)'
  <2>1. Earned(w) /\ clerks[c].base = subs[w] /\ ~Held(w)
    BY <1>5, <1>6 DEF ValueInv
  <2>2. /\ Holding(w) \in Int /\ Rounding(w) \in 0..Period /\ MayHave(w) \in Int
        /\ Holding(w)' \in Int /\ Rounding(w)' \in 0..Period /\ MayHave(w)' \in Int
        /\ Period \in Nat /\ gifts[w] \in Int
    BY AmountsAreInt, AmountsStayInt, PeriodIsPositive DEF Amounts, BillTypeOK
  <2>3. Holding(w) = Value(subs[w])
    <3>1. subs[w] \in Sub /\ Held(w) \in BOOLEAN
      BY DEF BillTypeOK, Held, Granted
    <3> QED  BY <2>1, <3>1, KeptBounds DEF Holding
  <2>4. Holding(w)' <= Value(new) /\ Value(new) \in Int
    <3>1. Held(w)' \in BOOLEAN
      BY DEF Held, Granted
    <3> QED  BY <1>1, <3>1, KeptBounds, WorthIsNat DEF Holding
  <2>5. MayHave(w)' = MayHave(w) + a
    <3> DEFINE x == Period * (Credited(w) + count.changes)
    <3>1. MayHave(w) = x + gifts[w] /\ MayHave(w)' = x + gifts'[w]
      BY DEF MayHave, Credited
    <3>2. x \in Int
      BY CreditedIsInt, PeriodIsPositive, Products DEF BillTypeOK
    <3> HIDE DEF x
    <3> QED  BY <2>2, <3>1, <3>2
  <2>6. Holding(w) + Rounding(w) <= MayHave(w)
    BY <2>1 DEF Earned
  <2>7. CASE a = 0 /\ clerks[c].job = "store" /\ Value(new) <= Value(clerks[c].base) + Period
    <3>1. Served(w) /\ ~Served(w)'
      BY <1>4, <2>7 DEF Served, Changing
    <3>2. Rounding(w) = Period /\ Rounding(w)' = 0
      BY <3>1 DEF Rounding
    <3>3. Value(new) <= Holding(w) + Period
      BY <2>1, <2>3, <2>7
    <3>4. Holding(w)' + Rounding(w)' <= MayHave(w)'
      BY <2>2, <2>4, <2>5, <2>6, <2>7, <3>2, <3>3
    <3> QED  BY <3>4 DEF Earned
  <2>8. CASE Value(new) <= Value(clerks[c].base) + a
    <3>1. Holding(w)' <= Holding(w) + a /\ MayHave(w) + a <= MayHave(w)'
      BY <2>1, <2>2, <2>3, <2>4, <2>5, <2>8
    <3> QED  BY <1>4, <2>1, <3>1, EarnedMoves
  <2> QED  BY <2>7, <2>8
<1>7. ASSUME NEW u \in Users \ overwritten', u # w PROVE Earned(u)'
  <2>1. Earned(u) /\ (Served(u)' => Served(u)) /\ subs'[u] = subs[u] /\ grants'[u] = grants[u]
    BY <1>1, <1>4, <1>5, <1>7 DEF ValueInv
  <2>2. count'.changes = count.changes /\ gifts'[u] = gifts[u]
    BY <1>7
  <2> QED  BY <2>1, <2>2, EarnedKept
<1>8. \A u \in Users \ overwritten' : Earned(u)'
  BY <1>6, <1>7
<1> QED  BY <1>4, <1>8 DEF ValueInv

LEMMA ValueStore ==
    ASSUME TypeInv, BillTypeOK', ValueInv, NEW c \in Clerks, Store(c)
    PROVE  ValueInv'
<1> DEFINE w == clerks[c].user
           new == clerks[c].new
<1>1. w \in Users /\ BillTypeOK /\ clerks[c].job = "store" /\ new \in Sub
  BY DEF Store, Working, TypeInv, Assigned, Jobs, BillTypeOK, Clerk
<1>2. /\ Subscribe(w, new) /\ Overwrites(c, w)
      /\ invoices' = invoices /\ count' = count /\ clerks' = [clerks EXCEPT ![c] = Idle]
      /\ gifts' = gifts
  BY DEF Store, Done
<1>3. Value(new) <= Value(clerks[c].base) + Period
  BY <1>1 DEF ValueInv, CopyEarned
<1>4. gifts'[w] = gifts[w] + 0 /\ \A v \in Users \ {w} : gifts'[v] = gifts[v]
  BY <1>1, <1>2 DEF BillTypeOK
<1> DEFINE a == 0
<1>5. w = clerks[c].user /\ a \in Int /\ a = 0
  OBVIOUS
<1>6. gifts'[w] = gifts[w] + a
  BY <1>4
<1> HIDE DEF w, new, a
<1> QED  BY <1>1, <1>2, <1>3, <1>4, <1>5, <1>6, ValueWrite

LEMMA ValueAward ==
    ASSUME TypeInv, BillTypeOK', ValueInv, NEW c \in Clerks, Award(c)
    PROVE  ValueInv'
<1> DEFINE w == clerks[c].user
           base == clerks[c].base
           new == [base EXCEPT !.tariff = TopPlan, !.time = base.time + AwardHours]
           a == Worth(new) - Worth(base)
<1>1. w \in Users /\ BillTypeOK /\ clerks[c] \in Clerk
  BY DEF Award, Working, TypeInv, Assigned, Jobs, BillTypeOK
<1>2. base \in Sub
  BY <1>1 DEF Clerk
<1>3. new \in Sub /\ new.balance = base.balance
  <2> DEFINE time == base.time + AwardHours
  <2>1. TopPlan \in Plans /\ time \in Nat
    BY <1>2, BillingAssumption DEF BillingAssumption, Sub
  <2>2. new = [base EXCEPT !.tariff = TopPlan, !.time = time]
    OBVIOUS
  <2> HIDE DEF time, new, base
  <2> QED  BY <1>2, <2>1, <2>2 DEF Sub
<1>4. /\ Subscribe(w, new) /\ Overwrites(c, w)
      /\ gifts' = [gifts EXCEPT ![w] = gifts[w] + Worth(new) - Worth(base)]
      /\ invoices' = invoices /\ count' = count /\ clerks' = [clerks EXCEPT ![c] = Idle]
  BY DEF Award, Done
<1>5. w = clerks[c].user /\ base = clerks[c].base
  OBVIOUS
<1> HIDE DEF w, base, new
<1>6. Worth(new) \in Nat /\ Worth(base) \in Nat /\ Period * base.balance \in Int
  BY <1>2, <1>3, WorthIsNat
<1>7. a \in Int /\ gifts'[w] = gifts[w] + a /\ \A v \in Users \ {w} : gifts'[v] = gifts[v]
  BY <1>1, <1>4, <1>6 DEF BillTypeOK
<1>8. Value(new) <= Value(base) + a
  <2> DEFINE pb == Period * base.balance
  <2>1. Value(new) = pb + Worth(new) /\ Value(base) = pb + Worth(base) /\ pb \in Int
    BY <1>3, <1>6 DEF Value
  <2> HIDE DEF pb
  <2> QED  BY <1>6, <2>1
<1> HIDE DEF a
<1> QED  BY <1>1, <1>3, <1>4, <1>5, <1>7, <1>8, ValueWrite

LEMMA ValueWork ==
    ASSUME TypeInv, BillTypeOK', ValueInv, NEW c \in Clerks, Work(c)
    PROVE  ValueInv'
<1> DEFINE Goal == ValueInv'
<1> SUFFICES Goal
  OBVIOUS
<1>1. BillTypeOK /\ clerks[c] \in Clerk
  BY DEF TypeInv, BillTypeOK
<1>2. CopyEarned(Idle) /\ Idle.job \notin Changing
  BY IdleEarned
<1>3. ASSUME NEW clerk, clerks' = [clerks EXCEPT ![c] = clerk], CopyEarned(clerk),
             clerk.job \in Changing => clerks[c].job \in Changing /\ clerk.user = clerks[c].user,
             subs' = subs, grants' = grants, invoices' = invoices, gifts' = gifts,
             count' = count, overwritten' = overwritten
      PROVE  Goal
  <2>1. clerks'[c] = clerk /\ \A d \in Clerks \ {c} : clerks'[d] = clerks[d]
    BY <1>1, <1>3 DEF BillTypeOK
  <2> QED  BY <1>1, <1>3, <2>1, ValueClerk
<1> HIDE DEF Goal
<1>4. ASSUME NEW u \in Users, NEW p \in Plans \cup {0}, AskPlan(c, u, p) PROVE Goal
  BY <1>1, <1>4, ValueAsk DEF Goal
<1>5. CASE Decide(c)
  <2>1. clerks[c].user \in Users /\ clerks[c].job = "decide"
    BY <1>5 DEF Decide, Working, TypeInv, Assigned, Jobs
  <2>2. /\ subs' = subs /\ grants' = grants /\ invoices' = invoices /\ gifts' = gifts
        /\ count' = count /\ overwritten' = overwritten
    BY <1>5 DEF Decide, history
  <2>3. CASE clerks' = [clerks EXCEPT ![c] = Idle]
    BY <1>2, <1>3, <2>2, <2>3
  <2>4. ASSUME NEW new \in Sub, NEW job \in {"give way", "store"},
               clerks' = [clerks EXCEPT ![c].new = new, ![c].job = job],
               job = "give way" => Value(new) <= Period * clerks[c].base.balance + Period,
               job = "store" => Value(new) <= Value(clerks[c].base) + Period
        PROVE  Goal
    <3> DEFINE clerk == [clerks[c] EXCEPT !.new = new, !.job = job]
    <3>1. clerks' = [clerks EXCEPT ![c] = clerk]
      BY <1>1, <2>4 DEF BillTypeOK
    <3>2. clerk.job = job /\ clerk.new = new /\ clerk.base = clerks[c].base
          /\ clerk.user = clerks[c].user
      BY <1>1 DEF Clerk
    <3> HIDE DEF clerk
    <3>3. CopyEarned(clerk)
      BY <2>4, <3>2 DEF CopyEarned
    <3>4. clerks[c].job \in Changing
      BY <2>1 DEF Changing
    <3> QED  BY <1>3, <2>2, <3>1, <3>2, <3>3, <3>4
  <2> QED  BY <1>1, <1>5, <2>1, <2>3, <2>4, DecideValue
<1>6. CASE ClaimReferrer(c)
  <2>1. /\ subs' = subs /\ grants' = grants /\ invoices' = invoices /\ gifts' = gifts
        /\ count' = count /\ overwritten' = overwritten
    BY <1>6 DEF ClaimReferrer, history
  <2>2. CASE clerks' = [clerks EXCEPT ![c] = Idle]
    BY <1>2, <1>3, <2>1, <2>2
  <2>3. ASSUME NEW u, clerks' = [clerks EXCEPT ![c].job = "stop", ![c].user = u] PROVE Goal
    <3> DEFINE clerk == [clerks[c] EXCEPT !.job = "stop", !.user = u]
    <3>1. clerks' = [clerks EXCEPT ![c] = clerk] /\ clerk.job = "stop"
      BY <1>1, <2>3 DEF BillTypeOK, Clerk
    <3> HIDE DEF clerk
    <3>2. CopyEarned(clerk) /\ clerk.job \notin Changing
      BY <3>1 DEF CopyEarned, Changing
    <3> QED  BY <1>3, <2>1, <3>1, <3>2
  <2> QED  BY <1>6, <2>2, <2>3 DEF ClaimReferrer, Done
<1>7. CASE ReadForAward(c)
  <2> DEFINE clerk == [clerks[c] EXCEPT !.job = "award", !.base = subs[clerks[c].user]]
  <2>1. /\ subs' = subs /\ grants' = grants /\ invoices' = invoices /\ gifts' = gifts
        /\ count' = count /\ overwritten' = overwritten
    BY <1>7 DEF ReadForAward, history
  <2>2. clerks' = [clerks EXCEPT ![c] = clerk] /\ clerk.job = "award"
    BY <1>1, <1>7 DEF ReadForAward, BillTypeOK, Clerk
  <2> HIDE DEF clerk
  <2>3. CopyEarned(clerk) /\ clerk.job \notin Changing
    BY <2>2 DEF CopyEarned, Changing
  <2> QED  BY <1>3, <2>1, <2>2, <2>3
<1>8. CASE ClerkDies(c)
  <2>1. /\ subs' = subs /\ grants' = grants /\ invoices' = invoices /\ gifts' = gifts
        /\ count' = count /\ overwritten' = overwritten /\ clerks' = [clerks EXCEPT ![c] = Idle]
    BY <1>8 DEF ClerkDies, Done, history
  <2> QED  BY <1>2, <1>3, <2>1
<1>9. CASE GiveWay(c) \/ StopGrant(c) \/ Store(c) \/ Award(c)
  BY <1>9, ValueGiveWay, ValueStopGrant, ValueStore, ValueAward DEF Goal
<1> QED  BY <1>4, <1>5, <1>6, <1>7, <1>8, <1>9 DEF Work

LEMMA ValueStutter ==
    ASSUME ValueInv, UNCHANGED billVars
    PROVE  ValueInv'
<1>1. /\ subs' = subs /\ grants' = grants /\ invoices' = invoices /\ gifts' = gifts
      /\ count' = count /\ overwritten' = overwritten /\ clerks' = clerks
  BY DEF billVars, history
<1>2. OneChange' /\ (\A d \in Clerks : CopyEarned(clerks[d]))'
  BY <1>1, ClerksKept
<1>3. ASSUME NEW u \in Users \ overwritten PROVE Earned(u)'
  <2>1. Holding(u)' = Holding(u) /\ MayHave(u)' = MayHave(u)
    BY <1>1, HoldingKept, MayHaveKept
  <2>2. Rounding(u)' = Rounding(u)
    BY <1>1 DEF Rounding, Served
  <2> QED  BY <1>3, <2>1, <2>2 DEF ValueInv, Earned
<1> QED  BY <1>1, <1>2, <1>3 DEF ValueInv

LEMMA ValueStep ==
    ASSUME TypeInv, BillTypeOK', ValueInv, [BillNext]_billVars
    PROVE  ValueInv'
<1>1. BillTypeOK
  BY DEF TypeInv
<1>2. CASE Money
  BY <1>1, <1>2, ValueMoney, BillingAssumption DEF Money, BillingAssumption
<1>3. CASE Clock
  BY <1>1, <1>3, ValueClock
<1>4. CASE GrantCheck
  BY <1>1, <1>4, ValueGrants DEF GrantCheck
<1>5. CASE \E c \in Clerks : Work(c)
  BY <1>5, ValueWork
<1>6. CASE UNCHANGED billVars
  BY <1>6, ValueStutter
<1> QED  BY <1>2, <1>3, <1>4, <1>5, <1>6 DEF BillNext

LEMMA ValueStart ==
    ASSUME BillInit, BillTypeOK
    PROVE  ValueInv
<1>1. /\ \A c \in Clerks : clerks[c] = Idle
      /\ \A i \in Invoices : invoices[i] = "open"
      /\ count.changes = 0
      /\ \A u \in Users : gifts[u] = Worth(subs[u]) /\ subs[u].balance = 0 /\ subs[u] \in Sub
  BY DEF BillInit, BillTypeOK, Welcome, NoPlan
<1>2. \A c \in Clerks : CopyEarned(clerks[c]) /\ clerks[c].job \notin Changing
  BY <1>1, IdleEarned
<1>3. OneChange /\ \A c \in Clerks : CopyEarned(clerks[c])
  BY <1>2 DEF OneChange
<1>4. ASSUME NEW u \in Users PROVE Earned(u)
  <2>1. Credited(u) = 0
    <3>1. {j \in Invoices : Payer[j] = u /\ invoices[j] = "paid"} = {}
      BY <1>1
    <3>2. SumFunctionOnSet(Amount, {}) = 0
      BY SumTakesOne, FS_EmptySet
    <3> QED  BY <3>1, <3>2 DEF Credited
  <2>2. Worth(subs[u]) \in Nat /\ Period \in Nat
    BY <1>1, WorthIsNat, PeriodIsPositive
  <2>3. MayHave(u) = Worth(subs[u])
    BY <1>1, <2>1, <2>2 DEF MayHave
  <2>4. Rounding(u) = 0
    BY <1>2 DEF Rounding, Served, Changing
  <2>5. Holding(u) \in Int /\ Holding(u) <= Worth(subs[u])
    BY <1>1, <2>2 DEF Holding, Kept
  <2>6. Holding(u) + Rounding(u) <= MayHave(u)
    BY <2>2, <2>3, <2>4, <2>5
  <2> QED  BY <2>6 DEF Earned
<1> QED  BY <1>3, <1>4 DEF ValueInv

\* Balance and bought hours together are never worth more than was paid and given, for
\* any prices, periods, users and clerks and in every order of payments, refunds,
\* renewals, changes of plan, grants and awards; a row that was written over is not meant.
THEOREM NothingComesOfNothing == BillSpec => []NothingForNothing
<1> DEFINE Inv == TypeInv /\ ValueInv
<1>1. BillInit => Inv
  <2> SUFFICES ASSUME BillInit PROVE Inv
    OBVIOUS
  <2>1. TypeInv
    BY TypeStart
  <2>2. BillTypeOK
    BY <2>1 DEF TypeInv
  <2> QED  BY <2>1, <2>2, ValueStart
<1>2. Inv /\ [BillNext]_billVars => Inv'
  <2> SUFFICES ASSUME TypeInv, ValueInv, [BillNext]_billVars PROVE Inv'
    OBVIOUS
  <2>1. TypeInv'
    BY TypeStep
  <2>2. BillTypeOK'
    BY <2>1 DEF TypeInv
  <2> QED  BY <2>1, <2>2, ValueStep
<1>3. Inv => NothingForNothing
  <2> SUFFICES ASSUME TypeInv, ValueInv, NEW u \in Users \ overwritten
               PROVE  Period * subs[u].balance + (IF Held(u) THEN 0 ELSE Worth(subs[u]))
                        <= Period * (Credited(u) + count.changes) + gifts[u]
    BY DEF NothingForNothing
  <2>1. Holding(u) + Rounding(u) <= MayHave(u)
    BY DEF ValueInv, Earned
  <2>2. Holding(u) \in Int /\ Rounding(u) \in 0..Period /\ MayHave(u) \in Int /\ Period \in Nat
    BY AmountsAreInt, PeriodIsPositive DEF Amounts, TypeInv
  <2>3. Holding(u) <= MayHave(u)
    BY <2>1, <2>2
  <2> QED  BY <2>3 DEF Holding, Kept, MayHave
<1> HIDE DEF Inv
<1> QED  BY <1>1, <1>2, <1>3, PTL DEF BillSpec

=============================================================================
