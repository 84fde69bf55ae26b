------------------------ MODULE RecordDeliveryProofs ------------------------
(***************************************************************************)
(* Proofs about RecordDelivery, for every set of rows, chats, tariffs and  *)
(* faults: what a run does to its row is what Outbox allows; nobody is     *)
(* charged twice (ChargeInv), forgotten (OwedInv) or, while nothing fails, *)
(* sent a second copy (QuietInv).                                          *)
(***************************************************************************)
EXTENDS RecordDelivery, OutboxProofs

\* What a Sender does with its ticket.
LEMMA RunStep ==
    ASSUME NEW t \in tickets, Run(t)
    PROVE  [Next]_vars
<1>1. CASE Breaks(t) \/ BeginPass(t) \/ PassEnds(t) \/ ChargesEnd(t) \/ Tell(t)
  BY <1>1 DEF Breaks, BeginPass, PassEnds, ChargesEnd, Tell
<1>2. ASSUME NEW c \in Chats, SendOne(t, c) \/ Charge(t, c) PROVE [Next]_vars
  BY <1>2 DEF SendOne, Charge, MayTouch, Next, TicketNext
<1>3. CASE Flood(t)
  BY <1>3 DEF Flood, MayTouch, Next, TicketNext
<1>4. ASSUME NEW final \in BOOLEAN, DeliverEnds(t, final) PROVE [Next]_vars
  BY <1>4 DEF DeliverEnds
<1>5. CASE Sync(t)
  BY <1>5 DEF Sync, Next, TicketNext
<1>6. CASE Close(t) \/ SecondMark(t)
  BY <1>6 DEF Close, SecondMark, TryMarkDone, Next, TicketNext
<1>7. ASSUME NEW terminal \in BOOLEAN, Retry(t, terminal) PROVE [Next]_vars
  BY <1>7 DEF Retry, Next, TicketNext
<1>8. CASE EndRun(t)
  BY <1>8 DEF EndRun, Next, TicketNext
<1> QED  BY <1>1, <1>2, <1>3, <1>4, <1>5, <1>6, <1>7, <1>8 DEF Run

LEMMA DeliveryStep ==
    ASSUME [DeliveryNext]_deliveryVars
    PROVE  [Next]_vars
<1>1. ASSUME NEW j \in Jobs, Submit(j) \/ StartRun(j) \/ Stall(j) PROVE Next
  BY <1>1 DEF Submit, StartRun, Stall, Next, RowNext
<1>2. ASSUME NEW j \in Jobs, NEW c \in Chats, Click(j, c) PROVE [Next]_vars
  BY <1>2 DEF Click, Next, RowNext
<1>3. ASSUME NEW t \in tickets, Run(t) PROVE [Next]_vars
  BY <1>3, RunStep
<1>4. CASE Keeper
  BY <1>4 DEF Keeper, Next, RowNext
<1>5. CASE ProcessCrash
  BY <1>5 DEF ProcessCrash, Next
<1>6. CASE UNCHANGED deliveryVars
  BY <1>6 DEF deliveryVars
<1> QED  BY <1>1, <1>2, <1>3, <1>4, <1>5, <1>6 DEF DeliveryNext

\* Delivering a row implements the outbox specification.
THEOREM DeliveryRefinesOutbox == DeliverySpec => DeliveryImplementsOutbox
<1>1. DeliveryInit => Init
  BY DEF DeliveryInit
<1> QED
  BY <1>1, DeliveryStep, PTL DEF DeliverySpec, DeliveryImplementsOutbox, Spec

-----------------------------------------------------------------------------
(* Types. *)

\* What a Sender turns into is a Sender.
LEMMA SenderTypes ==
    ASSUME NEW at \in Steps, NEW chats \in SUBSET Chats
    PROVE  NewSender(at, chats) \in Sender /\ NewSender(at, chats).at = at
BY DeliveryAssumption DEF DeliveryAssumption, NewSender, Sender

\* A fault is counted, and there are never more than MaxFaults.
LEMMA FaultTypes ==
    ASSUME happened \in [Kinds -> 0..MaxFaults], NEW kind \in Kinds, Fault(kind)
    PROVE  happened' \in [Kinds -> 0..MaxFaults]
BY DeliveryAssumption DEF DeliveryAssumption, Fault, Total, Kinds

\* A run that goes on keeps its ticket.
LEMMA RunTypeStep ==
    ASSUME DeliveryTypeOK, TypeOK', NEW t \in tickets, Run(t)
    PROVE  DeliveryTypeOK'
<1> USE DEF DeliveryTypeOK
<1> DEFINE Goes(s) == s \in Sender /\ s.at # "none" /\ Set(t, s) /\ tickets' = tickets
<1>0. t \in Tickets /\ t[1] \in Jobs /\ runs[t] \in Sender /\ runs[t].at # "none"
  BY DEF TypeOK, Tickets
<1>1. ASSUME NEW s, Goes(s)
      PROVE  /\ runs' \in [Tickets -> Sender]
             /\ \A u \in Tickets : (u \in tickets') = (runs'[u].at # "none")
  BY <1>0, <1>1 DEF Set
<1>2. \A at \in Steps : NewSender(at, {}) \in Sender /\ NewSender(at, {}).at = at
  BY SenderTypes
<1>3. CASE Breaks(t)
  <2>1. Goes(NewSender("broken", {}))
    BY <1>2, <1>3 DEF Breaks, vars, Steps
  <2> QED  BY <1>1, <1>3, <2>1 DEF Breaks, ledger, fates
<1>4. CASE BeginPass(t)
  <2> DEFINE s == [runs[t] EXCEPT !.at = "send", !.pass = @ + 1, !.todo = Remaining(runs[t])]
  <2>1. runs[t].pass + 1 \in 0..MaxPasses /\ Remaining(runs[t]) \in SUBSET Chats
    BY <1>0, <1>4, DeliveryAssumption DEF DeliveryAssumption, BeginPass, Sender, Remaining
  <2>2. Goes(s)
    BY <1>0, <1>4, <2>1 DEF BeginPass, vars, Steps, Sender
  <2> QED  BY <1>1, <1>4, <2>2 DEF BeginPass, ledger, fates
<1>5. CASE Flood(t)
  <2> DEFINE s == [runs[t] EXCEPT !.at = "sync", !.loop = {}, !.todo = {}]
  <2>1. Goes(s)
    BY <1>0, <1>5 DEF Flood, MayTouch, Touch, vars, Steps, Sender
  <2>2. happened' \in [Kinds -> 0..MaxFaults]
    BY <1>5, FaultTypes DEF Flood, Kinds
  <2> QED  BY <1>1, <1>5, <2>1, <2>2 DEF Flood, ledger, fates
<1>6. CASE PassEnds(t)
  <2> DEFINE s == [runs[t] EXCEPT !.at = "pass", !.sent = @ \cup runs[t].loop, !.loop = {}]
  <2>1. Goes(s)
    BY <1>0, <1>6 DEF PassEnds, vars, Steps, Sender
  <2> QED  BY <1>1, <1>6, <2>1 DEF PassEnds, ledger, fates
<1>7. ASSUME NEW c \in Chats, SendOne(t, c) PROVE DeliveryTypeOK'
  <2>1. <<t[1], c>> \in Pairs
    BY <1>0 DEF Pairs
  <2>2. tickets' = tickets
    BY <1>7 DEF SendOne, MayTouch, Touch, vars
  <2>3. got' \in [Pairs -> 0..2] /\ blockedBy' \subseteq Pairs
    BY <1>7, <2>1 DEF SendOne, More
  <2>4. PICK s \in Sender : s.at # "none" /\ Set(t, s)
    <3> DEFINE sent == [runs[t] EXCEPT !.loop = @ \cup {c}, !.todo = @ \ {c}]
               blocked == [runs[t] EXCEPT !.blocked = @ \cup {c}, !.todo = @ \ {c}]
               skipped(rest) == [runs[t] EXCEPT !.todo = rest]
    <3>1. sent \in Sender /\ blocked \in Sender
          /\ sent.at = runs[t].at /\ blocked.at = runs[t].at
      BY <1>0 DEF Sender
    <3>2. \A rest \in {{}, runs[t].todo \ {c}} :
             skipped(rest) \in Sender /\ skipped(rest).at = runs[t].at
      BY <1>0 DEF Sender
    <3> HIDE DEF sent, blocked, skipped
    <3>3. \/ Set(t, sent) \/ Set(t, blocked)
          \/ \E rest \in {{}, runs[t].todo \ {c}} : Set(t, skipped(rest))
      BY <1>7 DEF SendOne, sent, blocked, skipped
    <3> QED  BY <1>0, <3>1, <3>2, <3>3
  <2>5. Goes(s)
    BY <2>2, <2>4
  <2> QED  BY <1>1, <1>7, <2>3, <2>5 DEF SendOne, ledger
<1>8. ASSUME NEW c \in Chats, Charge(t, c) PROVE DeliveryTypeOK'
  <2> DEFINE s == [runs[t] EXCEPT !.todo = @ \ {c}]
  <2>1. <<t[1], c>> \in Pairs /\ Billed[c] \in Chats
    BY <1>0, DeliveryAssumption DEF DeliveryAssumption, Pairs
  <2>2. Goes(s)
    BY <1>0, <1>8 DEF Charge, vars, Sender
  <2>3. /\ left' \in [Chats -> Nat] /\ charged' \in [Pairs -> 0..2]
        /\ notices' \in [Chats -> 0..2]
    BY <1>8, <2>1 DEF Charge, More, ledger
  <2>4. happened' \in [Kinds -> 0..MaxFaults]
    BY <1>8, FaultTypes DEF Charge, Kinds
  <2> QED  BY <1>1, <1>8, <2>2, <2>3, <2>4 DEF Charge, fates
<1>9. ASSUME NEW final \in BOOLEAN, DeliverEnds(t, final) PROVE DeliveryTypeOK'
  <2> DEFINE s == [runs[t] EXCEPT !.at = "sync", !.final = final]
  <2>1. Goes(s)
    BY <1>0, <1>9 DEF DeliverEnds, vars, Steps, Sender
  <2> QED  BY <1>1, <1>9, <2>1 DEF DeliverEnds, ledger, fates
<1>10. CASE Sync(t)
  <2>1. tickets' = tickets
    BY <1>10 DEF Sync, Answer, vars
  <2>2. payload' \in [Jobs -> SUBSET Chats]
    BY <1>0, <1>10 DEF Sync, Remaining, Sender
  <2>3. happened' \in [Kinds -> 0..MaxFaults]
    BY <1>10, FaultTypes DEF Sync, Kinds
  <2>4. PICK s \in Sender : s.at # "none" /\ Set(t, s)
    <3>1. /\ [runs[t] EXCEPT !.at = "charge", !.todo = runs[t].sent] \in Sender
          /\ [runs[t] EXCEPT !.at = "charge", !.todo = runs[t].sent].at = "charge"
          /\ [runs[t] EXCEPT !.at = "close"] \in Sender
          /\ [runs[t] EXCEPT !.at = "close"].at = "close"
      BY <1>0 DEF Sender, Steps
    <3> QED  BY <1>10, <3>1 DEF Sync
  <2>5. Goes(s)
    BY <2>1, <2>4
  <2> QED  BY <1>1, <1>10, <2>2, <2>3, <2>5 DEF Sync, ledger, fates
<1>11. CASE ChargesEnd(t)
  <2> DEFINE s == [runs[t] EXCEPT !.at = "close"]
  <2>1. Goes(s)
    BY <1>0, <1>11 DEF ChargesEnd, vars, Steps, Sender
  <2> QED  BY <1>1, <1>11, <2>1 DEF ChargesEnd, ledger, fates
<1>12. CASE Close(t)
  <2> DEFINE s == [runs[t] EXCEPT !.at = "tell"]
  <2>1. Goes(s)
    BY <1>0, <1>12 DEF Close, TryMarkDone, MarkDone, vars, Steps, Sender
  <2>2. happened' \in [Kinds -> 0..MaxFaults]
    BY <1>12, FaultTypes DEF Close, Kinds
  <2> QED  BY <1>1, <1>12, <2>1, <2>2 DEF Close, ledger, fates
<1>13. CASE Tell(t)
  <2>1. Goes(NewSender("second", {})) \/ Goes(NewSender("raised", {}))
    BY <1>2, <1>13 DEF Tell, vars, Steps
  <2>2. told' \subseteq Pairs
    BY <1>0, <1>13 DEF Tell, Pairs, Remaining, Sender
  <2> QED  BY <1>1, <1>13, <2>1, <2>2 DEF Tell, ledger
<1>14. CASE SecondMark(t)
  <2>1. Goes(NewSender("ended", {})) \/ Goes(NewSender("raised", {}))
    BY <1>2, <1>14 DEF SecondMark, TryMarkDone, MarkDone, vars, Steps
  <2>2. happened' \in [Kinds -> 0..MaxFaults]
    BY <1>14, FaultTypes DEF SecondMark, Kinds
  <2> QED  BY <1>1, <1>14, <2>1, <2>2 DEF SecondMark, ledger, fates
<1>15. ASSUME NEW terminal \in BOOLEAN, Retry(t, terminal) PROVE DeliveryTypeOK'
  <2>1. Goes(NewSender("ended", {}))
    BY <1>2, <1>15 DEF Retry, FailOrRetry, vars, Steps
  <2>2. told' \subseteq Pairs
    BY <1>0, <1>15 DEF Retry, Pairs
  <2>3. happened' \in [Kinds -> 0..MaxFaults]
    BY <1>15, FaultTypes DEF Retry, Kinds
  <2> QED  BY <1>1, <1>15, <2>1, <2>2, <2>3 DEF Retry, ledger
<1>16. CASE EndRun(t)
  <2>1. NoSender \in Sender /\ NoSender.at = "none"
    BY SenderTypes DEF NoSender, Steps
  <2>2. /\ runs' \in [Tickets -> Sender]
        /\ \A u \in Tickets : (u \in tickets') = (runs'[u].at # "none")
    BY <1>0, <1>16, <2>1 DEF EndRun, Set, Return
  <2> QED  BY <1>16, <2>2 DEF EndRun, ledger, fates
<1> QED
  BY <1>3, <1>4, <1>5, <1>6, <1>7, <1>8, <1>9, <1>10, <1>11, <1>12, <1>13,
     <1>14, <1>15, <1>16 DEF Run

LEMMA DeliveryTypeStep ==
    ASSUME DeliveryTypeOK, [DeliveryNext]_deliveryVars
    PROVE  DeliveryTypeOK'
<1>0. TypeOK'
  BY DeliveryStep, TypeStep DEF DeliveryTypeOK
<1> USE DEF DeliveryTypeOK
<1>1. ASSUME NEW j \in Jobs, Submit(j) PROVE DeliveryTypeOK'
  BY <1>0, <1>1, DeliveryAssumption DEF DeliveryAssumption, Submit, Enqueue, ledger, fates
<1>2. ASSUME NEW j \in Jobs, StartRun(j) PROVE DeliveryTypeOK'
  <2> DEFINE u == <<j, rows[j].attempts + 1>>
  <2>1. tickets' = tickets \cup {u}
    BY <1>2 DEF StartRun, Claim
  <2>2. u \in Tickets
    BY <1>0, <2>1 DEF TypeOK
  <2>3. NewSender("pass", payload[j]) \in Sender /\ NewSender("pass", payload[j]).at = "pass"
    BY SenderTypes DEF Steps
  <2>4. /\ runs' \in [Tickets -> Sender]
        /\ \A v \in Tickets : (v \in tickets') = (runs'[v].at # "none")
    BY <1>2, <2>1, <2>2, <2>3 DEF StartRun, Set
  <2> QED  BY <1>0, <1>2, <2>4 DEF StartRun, ledger, fates
<1>3. ASSUME NEW j \in Jobs, Stall(j) PROVE DeliveryTypeOK'
  <2>1. happened' \in [Kinds -> 0..MaxFaults]
    BY <1>3, FaultTypes DEF Stall, Kinds
  <2> QED  BY <1>0, <1>3, <2>1 DEF Stall, GoesQuiet, ledger, fates
<1>4. ASSUME NEW j \in Jobs, NEW c \in Chats, Click(j, c) PROVE DeliveryTypeOK'
  <2>1. tickets' = tickets
    BY <1>4 DEF Click, DropLastRecipient, vars
  <2>2. payload' \in [Jobs -> SUBSET Chats] /\ clicked' \subseteq Pairs
    BY <1>4 DEF Click, Pairs
  <2> QED  BY <1>0, <1>4, <2>1, <2>2 DEF Click, ledger
<1>5. ASSUME NEW t \in tickets, Run(t) PROVE DeliveryTypeOK'
  BY <1>0, <1>5, RunTypeStep
<1>6. CASE Keeper
  <2>1. tickets' = tickets
    BY <1>6 DEF Keeper, ReadInFlight, Reclaim, ForceReclaim, FailExhausted,
                ReleaseStalled, Heartbeat, BackoffEnds, LeaseExpires, queue
  <2> QED  BY <1>0, <1>6, <2>1 DEF Keeper, own, ledger, fates
<1>7. CASE ProcessCrash
  <2>1. NoSender \in Sender /\ NoSender.at = "none"
    BY SenderTypes DEF NoSender, Steps
  <2>2. happened' \in [Kinds -> 0..MaxFaults]
    BY <1>7, FaultTypes DEF ProcessCrash, Kinds
  <2> QED  BY <1>0, <1>7, <2>1, <2>2 DEF ProcessCrash, Crash, ledger, fates
<1>8. CASE UNCHANGED deliveryVars
  BY <1>0, <1>8 DEF deliveryVars, vars, own, ledger, fates
<1> QED  BY <1>1, <1>2, <1>3, <1>4, <1>5, <1>6, <1>7, <1>8 DEF DeliveryNext

\* A Sender lives exactly as long as its ticket, and no count leaves its range.
THEOREM DeliveryTypes == DeliverySpec => []DeliveryTypeOK
<1>1. DeliveryInit => DeliveryTypeOK
  <2> SUFFICES ASSUME DeliveryInit PROVE DeliveryTypeOK
    OBVIOUS
  <2>1. TypeOK
    BY OutboxAssumption
       DEF OutboxAssumption, DeliveryInit, Init, TypeOK, NoRow, Row, Statuses
  <2>2. NoSender \in Sender /\ NoSender.at = "none"
    BY SenderTypes DEF NoSender, Steps
  <2> QED
    BY <2>1, <2>2, DeliveryAssumption
       DEF DeliveryAssumption, DeliveryInit, DeliveryTypeOK, Init
<1> QED  BY <1>1, DeliveryTypeStep, PTL DEF DeliverySpec

-----------------------------------------------------------------------------
(***************************************************************************)
(* A chat is charged once per row.  A chat is Paying when it was charged   *)
(* or a run is about to: from Sync() on, the payload and every run that    *)
(* still holds the row have let go of it, so no later run sends to it.     *)
(***************************************************************************)
Working == {"pass", "send", "sync"}

\* What a Sender's lists say of the chats: it believes only what Telegram took,
\* and it charges only what it believes delivered.
Books(t) ==
    /\ runs[t].sent \cup runs[t].loop \subseteq runs[t].chats
    /\ \A c \in runs[t].sent \cup runs[t].loop : got[<<t[1], c>>] > 0
    /\ \A c \in runs[t].blocked : <<t[1], c>> \in blockedBy
    /\ runs[t].at = "send" => runs[t].todo \subseteq runs[t].chats
    /\ runs[t].at # "send" => runs[t].loop = {}
    /\ runs[t].at = "charge" => runs[t].todo \subseteq runs[t].sent

Charging(t, c) == At(t, "charge") /\ c \in runs[t].todo

Paying(j, c) ==
    \/ charged[<<j, c>>] > 0
    \/ \E t \in tickets : t[1] = j /\ Charging(t, c)

OffRow(t, c) ==
    Holds(t) => /\ c \notin Remaining(runs[t])
                /\ runs[t].at \in Working => c \notin runs[t].chats

BooksKept == \A t \in tickets : Books(t)

\* A row that is not there yet has cost nothing.
Untouched ==
    \A j \in Jobs : rows[j].status = "absent" =>
        rows[j].attempts = 0 /\ \A c \in Chats : charged[<<j, c>>] = 0

PaidIsOff ==
    \A j \in Jobs, c \in Chats : Paying(j, c) =>
        c \notin payload[j] /\ \A t \in tickets : t[1] = j => OffRow(t, c)

\* A charge still to come is the first and only one of its chat.
OneCharge ==
    \A t \in tickets, c \in Chats : Charging(t, c) =>
        /\ charged[<<t[1], c>>] = 0
        /\ \A u \in tickets \ {t} : u[1] = t[1] => ~Charging(u, c)

ChargedHasIt == \A p \in Pairs : charged[p] <= 1 /\ charged[p] <= got[p]

ChargeInv == BooksKept /\ Untouched /\ PaidIsOff /\ OneCharge /\ ChargedHasIt

\* The invariants below are about a typed state whose tickets are fenced.
Sound == DeliveryTypeOK /\ TicketsFenced

LEMMA SoundStep ==
    ASSUME Sound, [DeliveryNext]_deliveryVars
    PROVE  Sound'
BY DeliveryTypeStep, DeliveryStep, FenceStep DEF Sound, DeliveryTypeOK

LEMMA TicketParts ==
    ASSUME DeliveryTypeOK, NEW t \in tickets
    PROVE  /\ t \in Tickets /\ t[1] \in Jobs /\ t[2] \in 1..MaxAttempts
           /\ t = <<t[1], t[2]>> /\ runs[t] \in Sender
BY TicketOfRow DEF DeliveryTypeOK

\* No run gets a row back that it lost.
LEMMA HoldsOn ==
    ASSUME Sound, [Next]_vars, NEW t \in tickets, Holds(t)'
    PROVE  Holds(t)
BY StillHeld DEF Sound, DeliveryTypeOK

LEMMA AbsentWas ==
    ASSUME Sound, [Next]_vars, NEW j \in Jobs, rows'[j].status = "absent"
    PROVE  rows[j].status = "absent" /\ rows'[j].attempts = rows[j].attempts
BY AbsentBefore DEF Sound, DeliveryTypeOK

\* A step that charges nobody, writes no new chat to a payload, starts no run
\* and starts no charge keeps the invariant.
LEMMA ChargeKept ==
    ASSUME Sound, ChargeInv, [Next]_vars, charged' = charged,
           \A j \in Jobs : payload'[j] \subseteq payload[j],
           \A p \in Pairs : got[p] <= got'[p], got' \in [Pairs -> 0..2],
           tickets' \subseteq tickets, BooksKept',
           \A t \in tickets', c \in Chats : Charging(t, c)' => Charging(t, c),
           \A t \in tickets', c \in Chats : OffRow(t, c) => OffRow(t, c)'
    PROVE  ChargeInv'
<1>1. Untouched'
  BY AbsentWas DEF ChargeInv, Untouched
<1>2. ASSUME NEW j \in Jobs, NEW c \in Chats, Paying(j, c)' PROVE Paying(j, c)
  BY <1>2 DEF Paying
<1>3. PaidIsOff'
  BY <1>2 DEF ChargeInv, PaidIsOff
<1>4. OneCharge'
  BY DEF ChargeInv, OneCharge
<1>5. ChargedHasIt'
  BY DEF ChargeInv, ChargedHasIt, Sound, DeliveryTypeOK
<1> QED  BY <1>1, <1>3, <1>4, <1>5 DEF ChargeInv

\* So does a step of one run that neither starts a charge nor takes chats on.
LEMMA ChargeKeptByRun ==
    ASSUME Sound, ChargeInv, [Next]_vars, NEW t \in tickets, NEW s, Set(t, s),
           charged' = charged, payload' = payload, tickets' = tickets,
           \A p \in Pairs : got[p] <= got'[p], got' \in [Pairs -> 0..2],
           blockedBy \subseteq blockedBy', Books(t)',
           s.at = "charge" => runs[t].at = "charge" /\ s.todo \subseteq runs[t].todo,
           Remaining(s) \subseteq Remaining(runs[t]),
           s.at \in Working => runs[t].at \in Working /\ s.chats \subseteq runs[t].chats
    PROVE  ChargeInv'
<1>0. t \in Tickets
  BY TicketParts DEF Sound
<1>1. runs'[t] = s /\ \A u \in tickets \ {t} : runs'[u] = runs[u]
  BY <1>0 DEF Set, Sound, DeliveryTypeOK, TypeOK
<1>2. ASSUME NEW u \in tickets, u # t PROVE Books(u)'
  <2>1. runs'[u] = runs[u] /\ u[1] \in Jobs /\ runs[u] \in Sender
    BY <1>1, <1>2, TicketParts DEF Sound
  <2>2. \A c \in Chats : /\ <<u[1], c>> \in Pairs
                         /\ got[<<u[1], c>>] \in Nat /\ got'[<<u[1], c>>] \in Nat
    BY <2>1 DEF Pairs, Sound, DeliveryTypeOK
  <2>3. Books(u)
    BY DEF ChargeInv, BooksKept
  <2> QED  BY <2>1, <2>2, <2>3 DEF Books, Sender
<1>3. BooksKept'
  BY <1>2 DEF BooksKept
<1>4. ASSUME NEW u \in tickets, NEW c \in Chats, Charging(u, c)' PROVE Charging(u, c)
  BY <1>1, <1>4 DEF Charging, At
<1>5. ASSUME NEW u \in tickets, NEW c \in Chats, OffRow(u, c) PROVE OffRow(u, c)'
  BY <1>1, <1>5, HoldsOn DEF OffRow
<1> QED  BY <1>3, <1>4, <1>5, ChargeKept

\* What all of the steps below know of the run that takes them.
RunKnown(t) ==
    /\ t \in Tickets /\ t[1] \in Jobs /\ runs[t] \in Sender
    /\ Books(t) /\ (\A c \in Chats : <<t[1], c>> \in Pairs)
    /\ got \in [Pairs -> 0..2] /\ charged \in [Pairs -> 0..2]

LEMMA KnowRun ==
    ASSUME Sound, ChargeInv, NEW t \in tickets
    PROVE  RunKnown(t) /\ runs \in [Tickets -> Sender]
BY TicketParts DEF RunKnown, Sound, ChargeInv, BooksKept, DeliveryTypeOK, Pairs

LEMMA ChargeRunStep ==
    ASSUME Sound, ChargeInv, Sound', [Next]_vars, NEW t \in tickets, Run(t)
    PROVE  ChargeInv'
<1>0. RunKnown(t) /\ runs \in [Tickets -> Sender]
  BY KnowRun
<1>1. got' \in [Pairs -> 0..2]
  BY DEF Sound, DeliveryTypeOK
<1> DEFINE Same == /\ charged' = charged /\ payload' = payload /\ tickets' = tickets
                   /\ got' = got /\ blockedBy' = blockedBy
           Idle(s) == s.at \notin Working \cup {"charge"} /\ s.loop = {}
           Less(s) == s.chats = {} /\ s.sent = {} /\ s.loop = {} /\ s.blocked = {}
           Keeps(s) == /\ s.chats = runs[t].chats /\ s.sent = runs[t].sent
                       /\ s.blocked = runs[t].blocked
<1>2. ASSUME NEW s, Same, Set(t, s), Idle(s), Less(s) \/ Keeps(s) PROVE ChargeInv'
  <2>1. Books(t)'
    BY <1>0, <1>2 DEF RunKnown, Books, Set, Working
  <2>2. Remaining(s) \subseteq Remaining(runs[t])
    BY <1>2 DEF Remaining
  <2>3. \A p \in Pairs : got[p] <= got'[p]
    BY <1>1, <1>2
  <2> QED
    BY <1>1, <1>2, <2>1, <2>2, <2>3, ChargeKeptByRun
<1>3. \A at \in Steps \ (Working \cup {"charge"}) :
         Idle(NewSender(at, {})) /\ Less(NewSender(at, {}))
  BY DEF NewSender
<1>4. CASE Breaks(t) \/ Tell(t) \/ SecondMark(t)
  <2>1. Same
    BY <1>4 DEF Breaks, Tell, SecondMark, TryMarkDone, MarkDone, vars, ledger, fates
  <2>2. PICK at \in {"broken", "second", "raised", "ended"} : Set(t, NewSender(at, {}))
    BY <1>4 DEF Breaks, Tell, SecondMark
  <2>3. at \in Steps \ (Working \cup {"charge"})
    BY DEF Steps, Working
  <2> HIDE DEF Same, Idle, Less, Keeps
  <2> QED  BY <1>2, <1>3, <2>1, <2>2, <2>3
<1>5. ASSUME NEW terminal \in BOOLEAN, Retry(t, terminal) PROVE ChargeInv'
  <2>1. Same
    BY <1>5 DEF Retry, FailOrRetry, vars, ledger
  <2>2. Set(t, NewSender("ended", {})) /\ "ended" \in Steps \ (Working \cup {"charge"})
    BY <1>5 DEF Retry, Steps, Working
  <2> HIDE DEF Same, Idle, Less, Keeps
  <2> QED  BY <1>2, <1>3, <2>1, <2>2
<1>6. ASSUME NEW at \in {"close", "tell"}, Same, Set(t, [runs[t] EXCEPT !.at = at]),
             runs[t].at # "send"
      PROVE  ChargeInv'
  <2>1. /\ Idle([runs[t] EXCEPT !.at = at]) /\ Keeps([runs[t] EXCEPT !.at = at])
    BY <1>0, <1>6 DEF RunKnown, Sender, Books, Working
  <2> QED  BY <1>2, <1>6, <2>1
<1>7. CASE ChargesEnd(t) \/ Close(t)
  <2>1. Same /\ runs[t].at # "send"
    BY <1>7 DEF ChargesEnd, Close, At, TryMarkDone, MarkDone, vars, ledger, fates
  <2>2. \E at \in {"close", "tell"} : Set(t, [runs[t] EXCEPT !.at = at])
    BY <1>7 DEF ChargesEnd, Close
  <2> QED  BY <1>6, <2>1, <2>2
<1>8. ASSUME NEW s, s \in Sender, Set(t, s), charged' = charged, payload' = payload,
             tickets' = tickets, runs[t].at \in Working, s.at \in Working,
             \/ got' = got
             \/ \E c \in Chats : got' = [got EXCEPT ![<<t[1], c>>] = More(@)],
             blockedBy \subseteq blockedBy', s.chats = runs[t].chats,
             runs[t].sent \subseteq s.sent, runs[t].blocked \subseteq s.blocked,
             Books(t)'
      PROVE  ChargeInv'
  <2>1. ASSUME NEW p \in Pairs PROVE got[p] <= got'[p]
    <3>1. got[p] \in 0..2
      BY <1>0 DEF RunKnown
    <3>2. got'[p] = got[p] \/ got'[p] = More(got[p])
      BY <1>0, <1>8 DEF RunKnown
    <3> QED  BY <3>1, <3>2 DEF More
  <2>2. Remaining(s) \subseteq Remaining(runs[t])
    BY <1>8 DEF Remaining
  <2>3. s.at # "charge"
    BY <1>8 DEF Working
  <2> QED  BY <1>1, <1>8, <2>1, <2>2, <2>3, ChargeKeptByRun
<1>9. CASE BeginPass(t)
  <2> DEFINE s == [runs[t] EXCEPT !.at = "send", !.pass = @ + 1, !.todo = Remaining(runs[t])]
  <2>1. runs' = [runs EXCEPT ![t] = s] /\ s \in Sender
    BY <1>0, <1>9, DeliveryTypeStep DEF BeginPass, Set, Sound, DeliveryTypeOK, RunKnown
  <2>2. /\ s.at = "send" /\ s.chats = runs[t].chats /\ s.sent = runs[t].sent
        /\ s.loop = {} /\ s.blocked = runs[t].blocked /\ s.todo \subseteq s.chats
    BY <1>0, <1>9 DEF RunKnown, Books, Sender, BeginPass, At, Remaining
  <2> HIDE DEF s
  <2>3. Books(t)'
    BY <1>0, <1>9, <2>1, <2>2 DEF RunKnown, Books, BeginPass, fates
  <2> QED
    BY <1>8, <1>9, <2>1, <2>2, <2>3 DEF BeginPass, Set, At, Working, vars, ledger, fates
<1>10. CASE Flood(t)
  <2> DEFINE s == [runs[t] EXCEPT !.at = "sync", !.loop = {}, !.todo = {}]
  <2>1. runs' = [runs EXCEPT ![t] = s] /\ s \in Sender
    BY <1>0, <1>10 DEF Flood, Set, Sound, DeliveryTypeOK, RunKnown
  <2>2. /\ s.at = "sync" /\ s.chats = runs[t].chats /\ s.sent = runs[t].sent
        /\ s.loop = {} /\ s.blocked = runs[t].blocked
    BY <1>0 DEF RunKnown, Sender
  <2> HIDE DEF s
  <2>3. Books(t)'
    BY <1>0, <1>10, <2>1, <2>2 DEF RunKnown, Books, Flood, fates
  <2> QED
    BY <1>8, <1>10, <2>1, <2>2, <2>3
       DEF Flood, Set, At, Working, MayTouch, Touch, vars, ledger, fates
<1>11. CASE PassEnds(t)
  <2> DEFINE s == [runs[t] EXCEPT !.at = "pass", !.sent = @ \cup runs[t].loop, !.loop = {}]
  <2>1. runs' = [runs EXCEPT ![t] = s] /\ s \in Sender
    BY <1>0, <1>11 DEF PassEnds, Set, Sound, DeliveryTypeOK, RunKnown
  <2>2. /\ s.at = "pass" /\ s.chats = runs[t].chats
        /\ s.sent = runs[t].sent \cup runs[t].loop
        /\ s.loop = {} /\ s.blocked = runs[t].blocked
    BY <1>0 DEF RunKnown, Sender
  <2> HIDE DEF s
  <2>3. Books(t)'
    BY <1>0, <1>11, <2>1, <2>2 DEF RunKnown, Books, PassEnds, fates
  <2> QED
    BY <1>8, <1>11, <2>1, <2>2, <2>3 DEF PassEnds, Set, At, Working, vars, ledger, fates
<1>12. ASSUME NEW final \in BOOLEAN, DeliverEnds(t, final) PROVE ChargeInv'
  <2> DEFINE s == [runs[t] EXCEPT !.at = "sync", !.final = final]
  <2>1. runs' = [runs EXCEPT ![t] = s] /\ s \in Sender
    BY <1>0, <1>12 DEF DeliverEnds, Set, Sound, DeliveryTypeOK, RunKnown
  <2>2. /\ s.at = "sync" /\ s.chats = runs[t].chats /\ s.sent = runs[t].sent
        /\ s.loop = {} /\ s.blocked = runs[t].blocked
    BY <1>0, <1>12 DEF RunKnown, Sender, Books, DeliverEnds, At
  <2> HIDE DEF s
  <2>3. Books(t)'
    BY <1>0, <1>12, <2>1, <2>2 DEF RunKnown, Books, DeliverEnds, fates
  <2> QED
    BY <1>8, <1>12, <2>1, <2>2, <2>3 DEF DeliverEnds, Set, At, Working, vars, ledger, fates
<1>13. ASSUME NEW c \in Chats, SendOne(t, c) PROVE ChargeInv'
  <2> DEFINE Accepted(s) ==
               /\ s.loop = runs[t].loop \cup {c} /\ s.blocked = runs[t].blocked
               /\ got' = [got EXCEPT ![<<t[1], c>>] = More(@)] /\ blockedBy' = blockedBy
             Blocked(s) ==
               /\ s.loop = runs[t].loop /\ s.blocked = runs[t].blocked \cup {c}
               /\ got' = got /\ blockedBy' = blockedBy \cup {<<t[1], c>>}
             Skipped(s) ==
               /\ s.loop = runs[t].loop /\ s.blocked = runs[t].blocked
               /\ got' = got /\ blockedBy' = blockedBy
             Goes(s) == /\ s.at = "send" /\ s.chats = runs[t].chats
                        /\ s.sent = runs[t].sent /\ s.todo \subseteq runs[t].todo
  <2>1. PICK s : Set(t, s) /\ s \in Sender /\ Goes(s)
                 /\ (Accepted(s) \/ Blocked(s) \/ Skipped(s))
    <3> DEFINE r1 == [runs[t] EXCEPT !.loop = @ \cup {c}, !.todo = @ \ {c}]
               r2 == [runs[t] EXCEPT !.blocked = @ \cup {c}, !.todo = @ \ {c}]
               r3(rest) == [runs[t] EXCEPT !.todo = rest]
    <3>1. CASE Set(t, r1) /\ got' = [got EXCEPT ![<<t[1], c>>] = More(@)]
               /\ blockedBy' = blockedBy
      <4>1. Goes(r1) /\ Accepted(r1) /\ r1 \in Sender
        BY <1>0, <1>13, <3>1 DEF SendOne, At, RunKnown, Sender
      <4> QED  BY <3>1, <4>1
    <3>2. CASE Set(t, r2) /\ got' = got /\ blockedBy' = blockedBy \cup {<<t[1], c>>}
      <4>1. Goes(r2) /\ Blocked(r2) /\ r2 \in Sender
        BY <1>0, <1>13, <3>2 DEF SendOne, At, RunKnown, Sender
      <4> QED  BY <3>2, <4>1
    <3>3. ASSUME NEW rest \in {{}, runs[t].todo \ {c}}, Set(t, r3(rest)),
                 got' = got, blockedBy' = blockedBy
          PROVE  Set(t, r3(rest)) /\ r3(rest) \in Sender /\ Goes(r3(rest))
                 /\ Skipped(r3(rest))
      BY <1>0, <1>13, <3>3 DEF SendOne, At, RunKnown, Sender
    <3> QED  BY <1>13, <3>1, <3>2, <3>3 DEF SendOne
  <2>2. runs'[t] = s
    BY <1>0, <2>1 DEF Set, RunKnown
  <2>3. c \in runs[t].chats
    BY <1>0, <1>13 DEF RunKnown, Books, SendOne, At
  <2>4. ASSUME NEW d \in s.sent \cup s.loop PROVE got'[<<t[1], d>>] > 0
    <3>1. d \in Chats /\ (got[<<t[1], d>>] > 0 \/ (d = c /\ Accepted(s)))
      BY <1>0, <2>1 DEF RunKnown, Books, Sender
    <3>2. <<t[1], d>> \in Pairs /\ got[<<t[1], d>>] \in 0..2
      BY <1>0, <3>1 DEF RunKnown
    <3>3. \/ got'[<<t[1], d>>] = got[<<t[1], d>>] /\ got[<<t[1], d>>] > 0
          \/ got'[<<t[1], d>>] = More(got[<<t[1], d>>])
      BY <1>0, <2>1, <3>1, <3>2 DEF RunKnown
    <3> QED  BY <3>2, <3>3 DEF More
  <2>5. Books(t)'
    <3>1. \A d \in s.blocked : <<t[1], d>> \in blockedBy'
      BY <1>0, <2>1 DEF RunKnown, Books
    <3>2. s.sent \cup s.loop \subseteq s.chats /\ s.todo \subseteq s.chats
      BY <1>0, <1>13, <2>1, <2>3 DEF RunKnown, Books, SendOne, At
    <3> QED  BY <2>1, <2>2, <2>4, <3>1, <3>2 DEF Books
  <2> QED
    BY <1>8, <1>13, <2>1, <2>5
       DEF SendOne, Set, At, Working, MayTouch, Touch, vars, ledger, fates
<1>14. CASE Sync(t)
  <2>1. /\ runs[t].at = "sync" /\ tickets' = tickets /\ rows' = rows
        /\ charged' = charged /\ got' = got /\ blockedBy' = blockedBy
    BY <1>14 DEF Sync, At, Answer, vars, queue, ledger, fates
  <2>2. CASE Set(t, [runs[t] EXCEPT !.at = "close"]) /\ UNCHANGED payload
    BY <1>6, <2>1, <2>2
  <2>3. CASE /\ Holds(t) /\ payload' = [payload EXCEPT ![t[1]] = Remaining(runs[t])]
             /\ Set(t, [runs[t] EXCEPT !.at = "charge", !.todo = runs[t].sent])
    <3>1. /\ runs'[t].at = "charge" /\ runs'[t].todo = runs[t].sent
          /\ runs'[t].chats = runs[t].chats /\ runs'[t].sent = runs[t].sent
          /\ runs'[t].loop = runs[t].loop /\ runs'[t].blocked = runs[t].blocked
          /\ \A u \in tickets \ {t} : runs'[u] = runs[u]
      BY <1>0, <2>3 DEF Set, RunKnown, Sender, Sound, DeliveryTypeOK, TypeOK
    <3>2. BooksKept'
      BY <1>0, <2>1, <3>1 DEF RunKnown, BooksKept, Books, ChargeInv
    <3>3. \A u \in tickets : u[1] = t[1] /\ Holds(u) => u = t
      BY <2>3, TicketParts DEF Holds, Sound
    <3>4. \A c \in runs[t].sent : ~Paying(t[1], c)
      BY <1>0, <2>1, <2>3 DEF RunKnown, Books, Sender, ChargeInv, PaidIsOff, OffRow, Working
    <3>5. \A u \in tickets, c \in Chats :
             Charging(u, c)' <=> Charging(u, c) \/ (u = t /\ c \in runs[t].sent)
      BY <1>0, <2>1, <3>1 DEF Charging, At, RunKnown, Sender
    <3>6. \A j \in Jobs, c \in Chats :
             Paying(j, c)' => Paying(j, c) \/ (j = t[1] /\ c \in runs[t].sent)
      BY <2>1, <3>5 DEF Paying
    <3>7. Remaining(runs[t])' = Remaining(runs[t]) /\ Remaining(runs[t]) \cap runs[t].sent = {}
      BY <3>1 DEF Remaining
    <3>8. PaidIsOff'
      <4> SUFFICES ASSUME NEW j \in Jobs, NEW c \in Chats, Paying(j, c)'
                   PROVE  /\ c \notin payload'[j]
                          /\ \A u \in tickets : u[1] = j => OffRow(u, c)'
        BY <2>1 DEF PaidIsOff
      <4>1. CASE j # t[1]
        <5>1. Paying(j, c)
          BY <3>6, <4>1
        <5>2. \A u \in tickets : u[1] = j => OffRow(u, c)' = OffRow(u, c)
          BY <2>1, <3>1, <4>1 DEF OffRow, Holds
        <5>3. payload'[j] = payload[j]
          BY <2>3, <4>1 DEF Sound, DeliveryTypeOK
        <5> QED  BY <5>1, <5>2, <5>3 DEF ChargeInv, PaidIsOff
      <4>2. CASE j = t[1]
        <5>1. payload'[j] = Remaining(runs[t])
          BY <1>0, <2>3, <4>2 DEF Sound, DeliveryTypeOK
        <5>2. c \notin Remaining(runs[t])
          BY <2>3, <3>6, <3>7, <4>2 DEF ChargeInv, PaidIsOff, OffRow
        <5>3. OffRow(t, c)'
          BY <3>1, <3>7, <5>2 DEF OffRow, Working
        <5>4. \A u \in tickets : u[1] = j /\ u # t => OffRow(u, c)'
          BY <2>1, <3>3, <4>2 DEF OffRow, Holds
        <5> QED  BY <5>1, <5>2, <5>3, <5>4
      <4> QED  BY <4>1, <4>2
    <3>9. OneCharge'
      <4> SUFFICES ASSUME NEW u \in tickets, NEW c \in Chats, Charging(u, c)'
                   PROVE  /\ charged[<<u[1], c>>] = 0
                          /\ \A v \in tickets \ {u} : v[1] = u[1] => ~Charging(v, c)'
        BY <2>1 DEF OneCharge
      <4>1. CASE u = t /\ c \in runs[t].sent
        <5>1. ~Paying(t[1], c)
          BY <3>4, <4>1
        <5>2. charged[<<t[1], c>>] \in 0..2
          BY <1>0 DEF RunKnown
        <5> QED  BY <3>5, <4>1, <5>1, <5>2 DEF Paying
      <4>2. CASE Charging(u, c)
        <5>1. Paying(u[1], c)
          BY <4>2 DEF Paying
        <5> QED  BY <3>4, <3>5, <4>2, <5>1 DEF ChargeInv, OneCharge
      <4> QED  BY <3>5, <4>1, <4>2
    <3>10. Untouched' /\ ChargedHasIt'
      BY <2>1 DEF ChargeInv, Untouched, ChargedHasIt
    <3> QED  BY <3>2, <3>8, <3>9, <3>10 DEF ChargeInv
  <2> QED  BY <1>14, <2>2, <2>3 DEF Sync
<1>15. ASSUME NEW c \in Chats, Charge(t, c) PROVE ChargeInv'
  <2>1. /\ runs[t].at = "charge" /\ c \in runs[t].todo /\ tickets' = tickets
        /\ rows' = rows /\ payload' = payload /\ got' = got /\ blockedBy' = blockedBy
        /\ runs' = [runs EXCEPT ![t] = [runs[t] EXCEPT !.todo = @ \ {c}]]
    BY <1>15 DEF Charge, Set, At, vars, fates
  <2>2. /\ runs'[t].at = "charge" /\ runs'[t].todo = runs[t].todo \ {c}
        /\ runs'[t].chats = runs[t].chats /\ runs'[t].sent = runs[t].sent
        /\ runs'[t].loop = runs[t].loop /\ runs'[t].blocked = runs[t].blocked
        /\ \A u \in tickets \ {t} : runs'[u] = runs[u]
    BY <1>0, <2>1 DEF RunKnown, Sender, Sound, DeliveryTypeOK, TypeOK
  <2>3. BooksKept'
    BY <1>0, <2>1, <2>2 DEF RunKnown, BooksKept, Books, ChargeInv
  <2>4. Charging(t, c) /\ Paying(t[1], c) /\ charged[<<t[1], c>>] = 0
        /\ got[<<t[1], c>>] > 0
    BY <1>0, <2>1 DEF Charging, At, Paying, ChargeInv, OneCharge, RunKnown, Books
  <2>5. \A u \in tickets, d \in Chats :
           Charging(u, d)' => Charging(u, d) /\ ~(u[1] = t[1] /\ d = c)
    BY <2>1, <2>2, <2>4 DEF Charging, At, ChargeInv, OneCharge
  <2>6. charged' = charged \/ charged' = [charged EXCEPT ![<<t[1], c>>] = 1]
    BY <1>0, <1>15, <2>4 DEF Charge, ledger, More, RunKnown
  <2>7. \A j \in Jobs, d \in Chats : Paying(j, d)' => Paying(j, d)
    <3>1. \A j \in Jobs, d \in Chats :
             charged'[<<j, d>>] = charged[<<j, d>>] \/ (j = t[1] /\ d = c)
      BY <1>0, <2>6 DEF RunKnown, Pairs
    <3> QED  BY <2>1, <2>4, <2>5, <3>1 DEF Paying
  <2>8. \A u \in tickets, d \in Chats : OffRow(u, d) => OffRow(u, d)'
    <3>1. Remaining(runs[t])' = Remaining(runs[t])
      BY <2>2 DEF Remaining
    <3> QED  BY <2>1, <2>2, <3>1 DEF OffRow, Holds, Working
  <2>9. PaidIsOff'
    BY <2>1, <2>7, <2>8 DEF ChargeInv, PaidIsOff
  <2>10. OneCharge'
    <3> SUFFICES ASSUME NEW u \in tickets, NEW d \in Chats, Charging(u, d)'
                 PROVE  /\ charged'[<<u[1], d>>] = 0
                        /\ \A v \in tickets \ {u} : v[1] = u[1] => ~Charging(v, d)'
      BY <2>1 DEF OneCharge
    <3>1. charged[<<u[1], d>>] = 0
          /\ \A v \in tickets \ {u} : v[1] = u[1] => ~Charging(v, d)
      BY <2>5 DEF ChargeInv, OneCharge
    <3>2. <<u[1], d>> # <<t[1], c>> /\ <<u[1], d>> \in Pairs
      BY <2>5, TicketParts DEF Pairs, Sound
    <3> QED  BY <1>0, <2>5, <2>6, <3>1, <3>2 DEF RunKnown
  <2>11. ChargedHasIt'
    BY <1>0, <2>1, <2>4, <2>6 DEF ChargeInv, ChargedHasIt, RunKnown
  <2>12. Untouched'
    <3>1. rows[t[1]].status # "absent"
      <4>1. t[2] <= rows[t[1]].attempts \/ rows[t[1]].status = "purged"
        BY DEF Sound, TicketsFenced
      <4>2. t[2] \in 1..MaxAttempts
        BY TicketParts DEF Sound
      <4> QED
        BY <1>0, <4>1, <4>2 DEF RunKnown, ChargeInv, Untouched
    <3> QED  BY <1>0, <2>1, <2>6, <3>1 DEF ChargeInv, Untouched, RunKnown, Pairs
  <2> QED  BY <2>3, <2>9, <2>10, <2>11, <2>12 DEF ChargeInv
<1>16. CASE EndRun(t)
  <2>1. /\ tickets' = tickets \ {t} /\ charged' = charged /\ payload' = payload
        /\ got' = got /\ blockedBy' = blockedBy
        /\ \A u \in tickets' : runs'[u] = runs[u]
    BY <1>0, <1>16 DEF EndRun, Return, Set, ledger, fates, Sound, DeliveryTypeOK, TypeOK
  <2>2. BooksKept'
    BY <2>1 DEF ChargeInv, BooksKept, Books
  <2>3. \A p \in Pairs : got[p] <= got'[p]
    BY <1>0, <2>1 DEF RunKnown
  <2>4. \A u \in tickets', c \in Chats : /\ Charging(u, c)' => Charging(u, c)
                                         /\ OffRow(u, c) => OffRow(u, c)'
    BY <2>1, HoldsOn DEF Charging, At, OffRow
  <2> QED  BY <1>1, <2>1, <2>2, <2>3, <2>4, ChargeKept
<1> QED
  BY <1>4, <1>5, <1>7, <1>9, <1>10, <1>11, <1>12, <1>13, <1>14, <1>15, <1>16 DEF Run

\* What the queue's keeper, a stall and a crash leave alone.
LEMMA KeeperLeaves ==
    ASSUME Keeper \/ (\E j \in Jobs : Stall(j))
    PROVE  /\ tickets' = tickets /\ answered' = answered
           /\ payload' = payload /\ runs' = runs /\ got' = got /\ charged' = charged
           /\ left' = left /\ notices' = notices /\ told' = told
           /\ blockedBy' = blockedBy /\ clicked' = clicked
BY DEF Keeper, ReadInFlight, Reclaim, ForceReclaim, FailExhausted, ReleaseStalled,
       Heartbeat, BackoffEnds, LeaseExpires, GoesQuiet, Stall, queue, own, ledger, fates

\* claim() gives the new run a number no run has had.
LEMMA NewTicket ==
    ASSUME Sound, NEW j \in Jobs, StartRun(j)
    PROVE  LET u == <<j, rows[j].attempts + 1>> IN
           /\ u \notin tickets /\ tickets' = tickets \cup {u} /\ u \in Tickets
           /\ rows[j].status = "pending"
           /\ runs' = [runs EXCEPT ![u] = NewSender("pass", payload[j])]
           /\ runs'[u] = NewSender("pass", payload[j])
           /\ \A v \in tickets : runs'[v] = runs[v] /\ ~(v[1] = j /\ Holds(v)')
<1> DEFINE u == <<j, rows[j].attempts + 1>>
<1> USE DEF Sound, DeliveryTypeOK
<1>1. /\ tickets' = tickets \cup {u} /\ rows[j].status = "pending"
      /\ rows'[j].attempts = rows[j].attempts + 1
      /\ runs' = [runs EXCEPT ![u] = NewSender("pass", payload[j])]
  BY DEF StartRun, Claim, NextJob, Claimable, Set, Leased, TypeOK, Row
<1>2. rows[j].attempts \in Nat /\ rows[j].attempts < MaxAttempts
  BY DEF StartRun, Claim, NextJob, Claimable, TypeOK, Row
<1>3. u \in Tickets
  BY <1>2, OutboxAssumption DEF OutboxAssumption, Tickets
<1>4. \A v \in tickets : v[1] = j => v[2] <= rows[j].attempts /\ v[2] \in Nat
  BY <1>1, TicketParts DEF TicketsFenced
<1>5. u \notin tickets
  BY <1>2, <1>4
<1>6. \A v \in tickets : ~(v[1] = j /\ Holds(v)')
  BY <1>1, <1>2, <1>4 DEF Holds
<1> QED  BY <1>1, <1>3, <1>5, <1>6 DEF TypeOK

LEMMA ChargeStep ==
    ASSUME Sound, ChargeInv, [DeliveryNext]_deliveryVars
    PROVE  ChargeInv'
<1>0. Sound' /\ [Next]_vars
  BY SoundStep, DeliveryStep
<1> DEFINE NoCharge == /\ charged' = charged /\ got' = got /\ blockedBy' = blockedBy
<1>1. ASSUME NoCharge, runs' = runs, tickets' = tickets,
             \A j \in Jobs : payload'[j] \subseteq payload[j]
      PROVE  ChargeInv'
  <2>1. BooksKept'
    BY <1>1 DEF ChargeInv, BooksKept, Books
  <2>2. \A u \in tickets', c \in Chats : /\ Charging(u, c)' => Charging(u, c)
                                         /\ OffRow(u, c) => OffRow(u, c)'
    BY <1>0, <1>1, HoldsOn DEF Charging, At, OffRow
  <2>3. got' \in [Pairs -> 0..2] /\ \A p \in Pairs : got[p] <= got'[p]
    BY <1>1 DEF Sound, DeliveryTypeOK
  <2> QED  BY <1>0, <1>1, <2>1, <2>2, <2>3, ChargeKept
<1>2. ASSUME NEW j \in Jobs, Submit(j) PROVE ChargeInv'
  <2>1. /\ rows[j].status = "absent" /\ NoCharge /\ runs' = runs /\ tickets' = tickets
        /\ rows'[j].status = "pending" /\ \A k \in Jobs \ {j} : rows'[k] = rows[k]
        /\ payload' = [payload EXCEPT ![j] = Recipients[j]]
    BY <1>2 DEF Submit, Enqueue, ledger, fates, Sound, DeliveryTypeOK, TypeOK, Row
  <2>2. \A t \in tickets : t[1] # j
    BY <2>1, TicketParts DEF ChargeInv, Untouched, Sound, TicketsFenced
  <2>3. \A c \in Chats : ~Paying(j, c)
    BY <2>1, <2>2 DEF Paying, ChargeInv, Untouched
  <2>4. \A t \in tickets, c \in Chats : /\ Charging(t, c)' = Charging(t, c)
                                        /\ OffRow(t, c)' = OffRow(t, c)
    BY <2>1, <2>2, TicketParts DEF Charging, At, OffRow, Holds, Sound
  <2>5. \A k \in Jobs, c \in Chats : Paying(k, c)' = Paying(k, c)
    BY <2>1 DEF Paying, Charging, At
  <2>6. PaidIsOff'
    <3>1. \A k \in Jobs \ {j} : payload'[k] = payload[k]
      BY <2>1 DEF Sound, DeliveryTypeOK
    <3> QED  BY <2>1, <2>3, <2>4, <2>5, <3>1 DEF ChargeInv, PaidIsOff
  <2>7. BooksKept' /\ ChargedHasIt'
    BY <2>1 DEF ChargeInv, BooksKept, Books, ChargedHasIt
  <2>8. OneCharge'
    BY <2>1 DEF ChargeInv, OneCharge, Charging, At
  <2>9. Untouched'
    BY <1>0, <2>1, AbsentWas DEF ChargeInv, Untouched
  <2> QED  BY <2>6, <2>7, <2>8, <2>9 DEF ChargeInv
<1>3. ASSUME NEW j \in Jobs, StartRun(j) PROVE ChargeInv'
  <2> DEFINE s == NewSender("pass", payload[j])
  <2>1. PICK u :
        /\ u \notin tickets /\ tickets' = tickets \cup {u} /\ u[1] = j
        /\ rows[j].status = "pending" /\ runs'[u] = s
        /\ \A v \in tickets : runs'[v] = runs[v] /\ ~(v[1] = j /\ Holds(v)')
    BY <1>3, NewTicket
  <2>2. NoCharge /\ payload' = payload
    BY <1>3 DEF StartRun, ledger, fates
  <2>3. s.at = "pass" /\ s.chats = payload[j] /\ s.sent = {} /\ s.loop = {} /\ s.blocked = {}
    BY DEF NewSender
  <2> HIDE DEF s
  <2>4. BooksKept'
    BY <2>1, <2>2, <2>3 DEF ChargeInv, BooksKept, Books
  <2>5. \A v \in tickets', c \in Chats : Charging(v, c)' => v \in tickets /\ Charging(v, c)
    BY <2>1, <2>3 DEF Charging, At
  <2>6. \A k \in Jobs, c \in Chats : Paying(k, c)' => Paying(k, c)
    BY <2>2, <2>5 DEF Paying, Charging, At
  <2>7. PaidIsOff'
    <3> SUFFICES ASSUME NEW k \in Jobs, NEW c \in Chats, Paying(k, c)
                 PROVE  \A v \in tickets' : v[1] = k => OffRow(v, c)'
      BY <2>2, <2>6 DEF ChargeInv, PaidIsOff
    <3>1. c \notin payload[k]
      BY DEF ChargeInv, PaidIsOff
    <3>2. \A v \in tickets : v[1] = k => OffRow(v, c)'
      BY <1>0, <2>1, HoldsOn DEF ChargeInv, PaidIsOff, OffRow
    <3>3. u[1] = k => OffRow(u, c)'
      BY <2>1, <2>3, <3>1 DEF OffRow, Remaining
    <3> QED  BY <2>1, <3>2, <3>3
  <2>8. OneCharge'
    BY <2>2, <2>5 DEF ChargeInv, OneCharge
  <2>9. Untouched' /\ ChargedHasIt'
    BY <1>0, <2>2, AbsentWas DEF ChargeInv, Untouched, ChargedHasIt
  <2> QED  BY <2>4, <2>7, <2>8, <2>9 DEF ChargeInv
<1>4. ASSUME NEW j \in Jobs, NEW c \in Chats, Click(j, c) PROVE ChargeInv'
  <2>1. NoCharge /\ runs' = runs /\ tickets' = tickets
    BY <1>4 DEF Click, DropLastRecipient, vars, ledger
  <2>2. \A k \in Jobs : payload'[k] \subseteq payload[k]
    BY <1>4 DEF Click, Sound, DeliveryTypeOK
  <2> QED  BY <1>1, <2>1, <2>2
<1>5. ASSUME NEW t \in tickets, Run(t) PROVE ChargeInv'
  BY <1>0, <1>5, ChargeRunStep
<1>6. CASE Keeper \/ (\E j \in Jobs : Stall(j))
  BY <1>1, <1>6, KeeperLeaves
<1>7. CASE ProcessCrash
  <2>1. NoCharge /\ payload' = payload /\ tickets' = {}
    BY <1>7 DEF ProcessCrash, Crash, ledger, fates
  <2>2. BooksKept'
    BY <2>1 DEF BooksKept
  <2>3. got' \in [Pairs -> 0..2] /\ \A p \in Pairs : got[p] <= got'[p]
    BY <2>1 DEF Sound, DeliveryTypeOK
  <2> QED  BY <1>0, <2>1, <2>2, <2>3, ChargeKept
<1>8. CASE UNCHANGED deliveryVars
  BY <1>1, <1>8 DEF deliveryVars, vars, own, ledger, fates
<1> QED  BY <1>2, <1>3, <1>4, <1>5, <1>6, <1>7, <1>8 DEF DeliveryNext

LEMMA Charges == DeliverySpec => [](Sound /\ ChargeInv)
<1>1. DeliveryInit => TicketsFenced
  BY DEF DeliveryInit, Init, TicketsFenced
<1>2. DeliveryInit => ChargeInv
  BY OutboxAssumption
     DEF OutboxAssumption, DeliveryInit, Init, NoRow, ChargeInv, BooksKept, Untouched,
         PaidIsOff, OneCharge, ChargedHasIt, Paying, Pairs
<1>3. TicketsFenced /\ DeliveryTypeOK => Sound
  BY DEF Sound
<1>4. Sound /\ ChargeInv /\ [DeliveryNext]_deliveryVars => (Sound /\ ChargeInv)'
  BY SoundStep, ChargeStep
<1> QED  BY <1>1, <1>2, <1>3, <1>4, DeliveryTypes, PTL DEF DeliverySpec

\* However a row is retried, taken over, restarted or clicked at, no chat is
\* charged twice for it, nor for audio Telegram did not take.
THEOREM ChatsChargedOnce == DeliverySpec => []ChargedOnce
<1>1. ChargeInv => ChargedOnce
  BY DEF ChargeInv, ChargedHasIt, ChargedOnce
<1> QED  BY <1>1, Charges, PTL

\* A charged chat is off the row and off every run that can still write the row.
THEOREM ChargedLeavesTheRow == DeliverySpec => []ChargedIsForgotten
<1>1. Sound /\ ChargeInv => ChargedIsForgotten
  <2> SUFFICES ASSUME Sound, ChargeInv, NEW j \in Jobs, NEW c \in Chats,
                      charged[<<j, c>>] > 0
               PROVE  /\ c \notin payload[j]
                      /\ \A t \in tickets : t[1] = j /\ Holds(t) =>
                            c \notin Remaining(runs[t]) /\ c \notin runs[t].loop
    BY DEF ChargedIsForgotten
  <2>1. Paying(j, c)
    BY DEF Paying
  <2>2. ASSUME NEW t \in tickets, t[1] = j, Holds(t)
        PROVE  c \notin Remaining(runs[t]) /\ c \notin runs[t].loop
    BY <2>1, <2>2 DEF ChargeInv, PaidIsOff, OffRow, BooksKept, Books, Working
  <2> QED  BY <2>1, <2>2 DEF ChargeInv, PaidIsOff
<1> QED  BY <1>1, Charges, PTL

-----------------------------------------------------------------------------
(* The tariff. *)

LEMMA QuotaStep ==
    ASSUME DeliveryTypeOK, QuotaAccounted, [DeliveryNext]_deliveryVars
    PROVE  QuotaAccounted'
<1>1. CASE left' = left /\ notices' = notices
  BY <1>1 DEF QuotaAccounted
<1>2. ASSUME NEW t \in tickets, NEW c \in Chats, Charge(t, c),
             ~(left' = left /\ notices' = notices)
      PROVE  QuotaAccounted'
  <2> DEFINE o == Billed[c]
  <2>1. o \in Chats /\ \A d \in Chats : Quota[d] \in Nat
    BY DeliveryAssumption DEF DeliveryAssumption
  <2>2. /\ left[o] > 0 /\ left' = [left EXCEPT ![o] = @ - 1]
        /\ notices' = IF left[o] = 1 THEN [notices EXCEPT ![o] = More(@)] ELSE notices
    BY <1>2 DEF Charge, ledger
  <2> HIDE DEF o
  <2>3. notices[o] = 0 /\ left[o] <= Quota[o] /\ left[o] \in Nat
    BY <2>1, <2>2 DEF QuotaAccounted, DeliveryTypeOK
  <2>4. /\ left'[o] = left[o] - 1
        /\ notices'[o] = IF left[o] = 1 THEN 1 ELSE 0
        /\ \A d \in Chats \ {o} : left'[d] = left[d] /\ notices'[d] = notices[d]
    BY <2>1, <2>2, <2>3 DEF DeliveryTypeOK, More
  <2> QED  BY <2>1, <2>2, <2>3, <2>4 DEF QuotaAccounted
<1>3. \/ left' = left /\ notices' = notices
      \/ \E t \in tickets, c \in Chats : Charge(t, c)
  <2>1. ASSUME NEW t \in tickets, Run(t), \A c \in Chats : ~Charge(t, c)
        PROVE  left' = left /\ notices' = notices
    BY <2>1 DEF Run, Breaks, BeginPass, Flood, PassEnds, SendOne, DeliverEnds, Sync,
                ChargesEnd, Close, Tell, SecondMark, Retry, EndRun, ledger
  <2>2. CASE Keeper \/ (\E j \in Jobs : Stall(j))
    BY <2>2, KeeperLeaves
  <2> QED
    BY <2>1, <2>2 DEF DeliveryNext, Submit, StartRun, Click, ProcessCrash,
                      deliveryVars, own, ledger
<1> QED  BY <1>1, <1>2, <1>3

\* Every notification taken is paid for by the tariff of the chat billed, and its
\* owner hears that it is used up exactly once.
THEOREM QuotaIsAccounted == DeliverySpec => []QuotaAccounted
<1>1. DeliveryInit => QuotaAccounted
  BY DeliveryAssumption DEF DeliveryAssumption, DeliveryInit, QuotaAccounted
<1> QED  BY <1>1, QuotaStep, DeliveryTypes, PTL DEF DeliverySpec


-----------------------------------------------------------------------------
(***************************************************************************)
(* Nobody is forgotten.  A recipient that has neither the audio nor a      *)
(* reason is owed one: it is on the payload of an open row, on the list of *)
(* the run that holds it, and after mark_done() on the list of the run     *)
(* that is about to send the notices.                                      *)
(***************************************************************************)
Accounted(j, c) == got[<<j, c>>] > 0 \/ <<j, c>> \in blockedBy \cup clicked \cup told

OwedBy(t, c) ==
    /\ runs[t].at # "second"
    /\ runs[t].at \in Working \cup {"charge", "close", "tell"} => c \in Remaining(runs[t])

Telling(t, c) == At(t, "tell") /\ Complete(t) /\ c \in Remaining(runs[t])

Owed(j, c) ==
    /\ rows[j].status \in {"pending", "leased"} => c \in payload[j]
    /\ \A t \in tickets : t[1] = j /\ Holds(t) => OwedBy(t, c)
    /\ rows[j].status = "done" => \E t \in tickets : t[1] = j /\ Telling(t, c)

OwedInv ==
    happened["crash"] = 0 =>
        \A j \in Jobs : \A c \in Recipients[j] : Accounted(j, c) \/ Owed(j, c)

\* Nothing that happened to a chat is undone.
FatesGrow ==
    /\ \A p \in Pairs : got[p] > 0 => got'[p] > 0
    /\ blockedBy \subseteq blockedBy' /\ clicked \subseteq clicked' /\ told \subseteq told'
    /\ \A k \in Kinds : happened[k] <= happened'[k]

LEMMA FaultCounts ==
    ASSUME DeliveryTypeOK, NEW kind \in Kinds, Fault(kind)
    PROVE  /\ \A k \in Kinds : happened[k] <= happened'[k]
           /\ happened'[kind] > 0
BY DEF DeliveryTypeOK, Fault

LEMMA FatesStep ==
    ASSUME DeliveryTypeOK, [DeliveryNext]_deliveryVars
    PROVE  FatesGrow
<1> USE DEF FatesGrow
<1>0. \A k \in Kinds : happened[k] \in Nat
  BY DEF DeliveryTypeOK
<1>1. CASE /\ got' = got /\ blockedBy' = blockedBy /\ clicked \subseteq clicked'
           /\ told \subseteq told'
           /\ happened' = happened \/ \E kind \in Kinds : Fault(kind)
  BY <1>0, <1>1, FaultCounts
<1>2. ASSUME NEW t \in tickets, NEW c \in Chats, SendOne(t, c) PROVE FatesGrow
  <2>1. blockedBy \subseteq blockedBy' /\ told' = told /\ clicked' = clicked
        /\ happened' = happened
    BY <1>2 DEF SendOne
  <2>2. got' = got \/ got' = [got EXCEPT ![<<t[1], c>>] = More(@)]
    BY <1>2 DEF SendOne
  <2>3. ASSUME NEW p \in Pairs, got[p] > 0 PROVE got'[p] > 0
    <3>1. got[p] \in 0..2 /\ (got'[p] = got[p] \/ got'[p] = More(got[p]))
      BY <2>2 DEF DeliveryTypeOK
    <3> QED  BY <2>3, <3>1 DEF More
  <2> QED  BY <1>0, <2>1, <2>3
<1>3. ASSUME NEW t \in tickets, Run(t), \A c \in Chats : ~SendOne(t, c) PROVE FatesGrow
  <2>1. /\ got' = got /\ blockedBy' = blockedBy /\ clicked' = clicked
        /\ told \subseteq told'
    BY <1>3 DEF Run, Breaks, BeginPass, Flood, PassEnds, Charge, DeliverEnds, Sync,
                ChargesEnd, Close, Tell, SecondMark, Retry, EndRun, fates
  <2>2. happened' = happened \/ \E kind \in Kinds : Fault(kind)
    BY <1>3 DEF Run, Breaks, BeginPass, Flood, PassEnds, Charge, DeliverEnds, Sync,
                ChargesEnd, Close, Tell, SecondMark, Retry, EndRun, Kinds
  <2> QED  BY <1>1, <2>1, <2>2
<1>4. CASE Keeper \/ (\E j \in Jobs : Stall(j))
  <2>1. happened' = happened \/ \E kind \in Kinds : Fault(kind)
    BY <1>4 DEF Keeper, own, Stall, Kinds
  <2> QED  BY <1>1, <1>4, <2>1, KeeperLeaves
<1>5. CASE ProcessCrash
  BY <1>1, <1>5 DEF ProcessCrash, fates, Kinds
<1>6. CASE \/ \E j \in Jobs : Submit(j) \/ StartRun(j)
           \/ \E j \in Jobs, c \in Chats : Click(j, c)
           \/ UNCHANGED deliveryVars
  BY <1>1, <1>6 DEF Submit, StartRun, Click, fates, deliveryVars, own
<1> QED  BY <1>2, <1>3, <1>4, <1>5, <1>6 DEF DeliveryNext

LEMMA AccountedStays ==
    ASSUME FatesGrow, NEW j \in Jobs, NEW c \in Chats, Accounted(j, c)
    PROVE  Accounted(j, c)'
BY DEF FatesGrow, Accounted, Pairs

\* What is still owed after a step was owed before it, and the step dropped
\* nobody from the list of the run that took it.
LEMMA OwedByRun ==
    ASSUME Sound, ChargeInv, NEW t \in tickets, Run(t), t \in tickets',
           NEW c \in Chats, ~Accounted(t[1], c), ~Accounted(t[1], c)', OwedBy(t, c)
    PROVE  OwedBy(t, c)'
<1>0. RunKnown(t) /\ runs \in [Tickets -> Sender]
  BY KnowRun
<1> USE <1>0 DEF RunKnown, Set, At, Sender, OwedBy, Remaining, Working
<1>1. CASE Breaks(t) \/ SecondMark(t) \/ (\E terminal \in BOOLEAN : Retry(t, terminal))
  BY <1>1 DEF Breaks, SecondMark, Retry, NewSender
<1>2. CASE Tell(t)
  BY <1>2 DEF Tell, NewSender, Accounted
<1>4. CASE BeginPass(t) \/ Flood(t) \/ (\E final \in BOOLEAN : DeliverEnds(t, final))
           \/ Sync(t) \/ ChargesEnd(t) \/ Close(t)
  <2>1. /\ runs'[t].chats = runs[t].chats /\ runs'[t].at # "second"
        /\ runs'[t].sent = runs[t].sent /\ runs'[t].blocked = runs[t].blocked
    <3>1. CASE BeginPass(t)
      BY <3>1 DEF BeginPass
    <3>2. CASE Flood(t)
      BY <3>2 DEF Flood
    <3>3. CASE \E final \in BOOLEAN : DeliverEnds(t, final)
      BY <3>3 DEF DeliverEnds
    <3>4. CASE Sync(t)
      <4>1. \/ runs' = [runs EXCEPT ![t] = [runs[t] EXCEPT !.at = "close"]]
            \/ runs' = [runs EXCEPT ![t] =
                           [runs[t] EXCEPT !.at = "charge", !.todo = runs[t].sent]]
        BY <3>4 DEF Sync
      <4>2. CASE runs' = [runs EXCEPT ![t] = [runs[t] EXCEPT !.at = "close"]]
        BY <4>2
      <4>3. CASE runs' = [runs EXCEPT ![t] = [runs[t] EXCEPT !.at = "charge", !.todo = runs[t].sent]]
        BY <4>3
      <4> QED  BY <4>1, <4>2, <4>3
    <3>5. CASE ChargesEnd(t) \/ Close(t)
      BY <3>5 DEF ChargesEnd, Close
    <3> QED  BY <1>4, <3>1, <3>2, <3>3, <3>4, <3>5
  <2>2. runs[t].at \in Working \cup {"charge", "close", "tell"}
    BY <1>4 DEF BeginPass, Flood, DeliverEnds, Sync, ChargesEnd, Close
  <2> QED  BY <2>1, <2>2
<1>5. CASE PassEnds(t)
  <2> DEFINE r == [runs[t] EXCEPT !.at = "pass", !.sent = @ \cup runs[t].loop, !.loop = {}]
  <2>1. c \notin runs[t].loop
    BY DEF Books, Accounted
  <2>2. /\ r.at = "pass" /\ r.chats = runs[t].chats /\ r.blocked = runs[t].blocked
        /\ r.sent = runs[t].sent \cup runs[t].loop
    OBVIOUS
  <2> HIDE DEF r
  <2> QED  BY <1>5, <2>1, <2>2 DEF PassEnds, r
<1>6. ASSUME NEW d \in Chats, SendOne(t, d) PROVE OwedBy(t, c)'
  <2>1. ~(d = c /\ blockedBy' = blockedBy \cup {<<t[1], d>>})
    BY DEF Accounted
  <2>2. PICK r : /\ Set(t, r) /\ r.chats = runs[t].chats /\ r.at = "send"
                 /\ r.sent = runs[t].sent
                 /\ \/ r.blocked = runs[t].blocked
                    \/ /\ r.blocked = runs[t].blocked \cup {d}
                       /\ blockedBy' = blockedBy \cup {<<t[1], d>>}
    BY <1>6 DEF SendOne
  <2>3. runs[t].at = "send" /\ c \notin r.blocked
    BY <1>6, <2>1, <2>2 DEF SendOne
  <2> QED  BY <2>2, <2>3
<1>7. ASSUME NEW d \in Chats, Charge(t, d) PROVE OwedBy(t, c)'
  BY <1>7 DEF Charge
<1>8. ~EndRun(t)
  BY DEF EndRun, Return
<1> QED  BY <1>1, <1>2, <1>4, <1>5, <1>6, <1>7, <1>8 DEF Run

\* A run marks its row done only while it still has its notices to send, or when
\* it has sent them.
LEMMA DoneByRun ==
    ASSUME Sound, NEW t \in tickets, Run(t), NEW j \in Jobs,
           rows[j].status # "done", rows'[j].status = "done"
    PROVE  /\ j = t[1] /\ Holds(t)
           /\ \/ runs[t].at = "second"
              \/ Close(t) /\ Complete(t)
<1>0. t[1] \in Jobs /\ rows \in [Jobs -> Row]
  BY TicketParts DEF Sound, DeliveryTypeOK, TypeOK
<1>1. ASSUME NEW terminal \in BOOLEAN, FailOrRetry(t, terminal) PROVE FALSE
  BY <1>0, <1>1 DEF FailOrRetry, Closed, Released, Row
<1>2. ASSUME MarkDone(t) PROVE j = t[1] /\ Holds(t)
  BY <1>0, <1>2 DEF MarkDone
<1>3. CASE Touch(t)
  BY <1>0, <1>3 DEF Touch, Row
<1>4. CASE rows' = rows
  BY <1>4
<1>5. ASSUME Close(t), MarkDone(t) PROVE Complete(t)
  <2>1. rows' # rows
    BY <1>0
  <2> QED  BY <1>5, <2>1 DEF Close, vars
<1> QED
  BY <1>1, <1>2, <1>3, <1>4, <1>5
     DEF Run, Breaks, BeginPass, Flood, PassEnds, SendOne, Charge, DeliverEnds, Sync, Answer,
         ChargesEnd, Close, Tell, SecondMark, Retry, EndRun, Return, TryMarkDone, MayTouch,
         At, vars, queue

LEMMA OwedRunStep ==
    ASSUME Sound, ChargeInv, [Next]_vars, FatesGrow, NEW t \in tickets, Run(t),
           NEW j \in Jobs, NEW c \in Recipients[j], Owed(j, c),
           ~Accounted(j, c), ~Accounted(j, c)'
    PROVE  Owed(j, c)'
<1>0. /\ RunKnown(t) /\ c \in Chats /\ t \in Tickets
      /\ \A u \in tickets \ {t} : runs'[u] = runs[u]
      /\ tickets' \subseteq tickets
  <2>1. tickets' \subseteq tickets
    BY DEF Run, Breaks, BeginPass, Flood, PassEnds, SendOne, Charge, DeliverEnds, Sync,
           Answer, ChargesEnd, Close, Tell, SecondMark, Retry, EndRun, Return, TryMarkDone,
           MarkDone, FailOrRetry, MayTouch, Touch, vars, queue
  <2>2. \E s : Set(t, s)
    BY DEF Run, Breaks, BeginPass, Flood, PassEnds, SendOne, Charge, DeliverEnds, Sync,
           ChargesEnd, Close, Tell, SecondMark, Retry, EndRun
  <2>3. \A u \in tickets \ {t} : runs'[u] = runs[u]
    BY <2>2 DEF Set, Sound, DeliveryTypeOK, TypeOK
  <2> QED  BY <2>1, <2>3, KnowRun, TicketParts, DeliveryAssumption DEF DeliveryAssumption, Sound
<1>1. ASSUME NEW u \in tickets', u[1] = j, Holds(u)' PROVE OwedBy(u, c)'
  <2>1. u \in tickets /\ Holds(u) /\ OwedBy(u, c)
    BY <1>0, <1>1, HoldsOn DEF Owed
  <2>2. CASE u = t
    BY <1>0, <1>1, <2>1, <2>2, OwedByRun
  <2>3. CASE u # t
    BY <1>0, <2>1, <2>3 DEF OwedBy
  <2> QED  BY <2>2, <2>3
<1>2. ASSUME rows'[j].status \in {"pending", "leased"} PROVE c \in payload'[j]
  <2>1. rows[j].status \in {"pending", "leased"}
    <3>1. RowMove(j) /\ rows[j].status # "absent"
      <4>1. rows[j].status = "absent" => rows'[j].status = "absent"
        BY <1>0 DEF RunKnown, Run, Breaks, BeginPass, Flood, PassEnds, SendOne, Charge,
           DeliverEnds, Sync, Answer, ChargesEnd, Close, Tell, SecondMark, Retry, EndRun,
           Return, TryMarkDone, MarkDone, FailOrRetry, MayTouch, Touch, Holds, vars, queue,
           Sound, DeliveryTypeOK, TypeOK
      <4> QED  BY <1>2, <4>1, RowMoves DEF Sound, DeliveryTypeOK
    <3> QED
      BY <1>2, <3>1 DEF RowMove, Kept, Entered, Taken, GivenBack, Finished, Failed, Deleted
  <2>2. c \in payload[j]
    BY <2>1 DEF Owed
  <2>3. \/ payload' = payload
        \/ /\ Sync(t) /\ Holds(t)
           /\ payload' = [payload EXCEPT ![t[1]] = Remaining(runs[t])]
    BY DEF Run, Breaks, BeginPass, Flood, PassEnds, SendOne, Charge, DeliverEnds, Sync,
           ChargesEnd, Close, Tell, SecondMark, Retry, EndRun
  <2>4. Sync(t) /\ Holds(t) /\ t[1] = j => c \in Remaining(runs[t])
    BY DEF Owed, OwedBy, Sync, At, Working
  <2> QED  BY <2>2, <2>3, <2>4 DEF Sound, DeliveryTypeOK
<1>3. ASSUME rows'[j].status = "done" PROVE \E u \in tickets' : u[1] = j /\ Telling(u, c)'
  <2>1. CASE rows[j].status = "done"
    <3>1. PICK u \in tickets : u[1] = j /\ Telling(u, c)
      BY <2>1 DEF Owed
    <3>2. CASE u = t
      <4>1. Tell(t)
        BY <3>1, <3>2
           DEF Telling, At, Run, Breaks, BeginPass, Flood, PassEnds, SendOne, Charge,
               DeliverEnds, Sync, ChargesEnd, Close, SecondMark, Retry, EndRun
      <4>2. <<j, c>> \in told'
        BY <3>1, <3>2, <4>1 DEF Tell, Telling
      <4> QED  BY <4>2 DEF Accounted
    <3>3. CASE u # t
      <4>1. u \in tickets'
        BY <3>3 DEF Run, Breaks, BeginPass, Flood, PassEnds, SendOne, Charge, DeliverEnds,
           Sync, Answer, ChargesEnd, Close, Tell, SecondMark, Retry, EndRun, Return,
           TryMarkDone, MarkDone, FailOrRetry, MayTouch, Touch, vars, queue
      <4> QED  BY <1>0, <3>1, <3>3, <4>1 DEF Telling, At, Complete
    <3> QED  BY <3>2, <3>3
  <2>2. CASE rows[j].status # "done"
    <3>1. /\ j = t[1] /\ Holds(t)
          /\ runs[t].at = "second" \/ (Close(t) /\ Complete(t))
      BY <1>3, <2>2, DoneByRun
    <3>2. OwedBy(t, c)
      BY <3>1 DEF Owed
    <3>3. Close(t) /\ Complete(t)
      BY <3>1, <3>2 DEF OwedBy
    <3>4. c \in Remaining(runs[t])
      BY <3>2, <3>3 DEF OwedBy, Close, At
    <3>5. t \in tickets' /\ runs' = [runs EXCEPT ![t] = [runs[t] EXCEPT !.at = "tell"]]
      BY <3>3 DEF Close, Set, TryMarkDone, MarkDone, vars
    <3>6. /\ runs'[t].at = "tell" /\ runs'[t].final = runs[t].final
          /\ Remaining(runs'[t]) = Remaining(runs[t])
      BY <1>0, <3>5 DEF RunKnown, Sender, Remaining, Sound, DeliveryTypeOK
    <3>7. Telling(t, c)'
      BY <3>3, <3>4, <3>5, <3>6 DEF Telling, At, Complete
    <3> QED  BY <3>1, <3>5, <3>7
  <2> QED  BY <2>1, <2>2
<1> QED  BY <1>1, <1>2, <1>3 DEF Owed

LEMMA OwedStep ==
    ASSUME Sound, ChargeInv, OwedInv, [DeliveryNext]_deliveryVars
    PROVE  OwedInv'
<1>0. [Next]_vars /\ FatesGrow
  BY DeliveryStep, FatesStep DEF Sound
<1> SUFFICES ASSUME happened'["crash"] = 0, NEW j \in Jobs, NEW c \in Recipients[j],
                    ~Accounted(j, c)'
             PROVE  Owed(j, c)'
  BY DEF OwedInv
<1>1. c \in Chats /\ ~Accounted(j, c)
  BY <1>0, AccountedStays, DeliveryAssumption DEF DeliveryAssumption
<1>2. happened["crash"] = 0 /\ ~ProcessCrash
  <2>1. happened["crash"] \in Nat /\ happened["crash"] <= happened'["crash"]
    BY <1>0 DEF Sound, DeliveryTypeOK, FatesGrow, Kinds
  <2>2. ~ProcessCrash
    BY FaultCounts DEF ProcessCrash, Kinds, Sound
  <2> QED  BY <2>1, <2>2
<1>3. Owed(j, c)
  BY <1>1, <1>2 DEF OwedInv
<1>4. ASSUME runs' = runs, tickets' = tickets, c \in payload[j] => c \in payload'[j],
             rows'[j].status \in {"pending", "leased"} =>
                rows[j].status \in {"pending", "leased"},
             rows'[j].status = "done" => rows[j].status = "done"
      PROVE  Owed(j, c)'
  <2>1. \A t \in tickets : t[1] = j /\ Holds(t)' => OwedBy(t, c)'
    BY <1>0, <1>3, <1>4, HoldsOn DEF Owed, OwedBy
  <2>2. \A t \in tickets : Telling(t, c) => Telling(t, c)'
    BY <1>4 DEF Telling, At, Complete
  <2> QED  BY <1>3, <1>4, <2>1, <2>2 DEF Owed
<1>5. ASSUME NEW k \in Jobs, Submit(k) PROVE Owed(j, c)'
  <2>1. /\ runs' = runs /\ tickets' = tickets
        /\ rows'[k].status = "pending" /\ \A i \in Jobs \ {k} : rows'[i] = rows[i]
        /\ payload'[k] = Recipients[k]
        /\ \A i \in Jobs \ {k} : payload'[i] = payload[i]
    BY <1>5, DeliveryAssumption
       DEF DeliveryAssumption, Submit, Enqueue, Sound, DeliveryTypeOK, TypeOK, Row
  <2>2. CASE k = j
    <3>1. \A t \in tickets : t[1] = j /\ Holds(t)' => OwedBy(t, c)'
      BY <2>1, <2>2 DEF Holds
    <3> QED  BY <2>1, <2>2, <3>1 DEF Owed
  <2>3. CASE k # j
    BY <1>4, <2>1, <2>3
  <2> QED  BY <2>2, <2>3
<1>6. ASSUME NEW k \in Jobs, StartRun(k) PROVE Owed(j, c)'
  <2> DEFINE s == NewSender("pass", payload[k])
  <2>1. PICK u :
        /\ u \notin tickets /\ tickets' = tickets \cup {u} /\ u[1] = k
        /\ rows[k].status = "pending" /\ runs'[u] = s
        /\ \A v \in tickets : runs'[v] = runs[v] /\ ~(v[1] = k /\ Holds(v)')
    BY <1>6, NewTicket
  <2>2. /\ payload' = payload /\ rows'[k].status = "leased"
        /\ \A i \in Jobs \ {k} : rows'[i] = rows[i]
    BY <1>6 DEF StartRun, Claim, Leased, Sound, DeliveryTypeOK, TypeOK, Row
  <2>3. s.at = "pass" /\ Remaining(s) = payload[k]
    BY DEF NewSender, Remaining
  <2> HIDE DEF s
  <2>4. ASSUME NEW v \in tickets', v[1] = j, Holds(v)' PROVE OwedBy(v, c)'
    <3>1. CASE v = u
      BY <1>3, <2>1, <2>3, <2>4, <3>1 DEF Owed, OwedBy
    <3>2. CASE v \in tickets
      BY <1>0, <1>3, <2>1, <2>4, <3>2, HoldsOn DEF Owed, OwedBy
    <3> QED  BY <2>1, <3>1, <3>2
  <2>5. rows'[j].status = "done" => \E t \in tickets' : t[1] = j /\ Telling(t, c)'
    BY <1>3, <2>1, <2>2 DEF Owed, Telling, At, Complete
  <2>6. rows'[j].status \in {"pending", "leased"} => c \in payload'[j]
    BY <1>3, <2>1, <2>2 DEF Owed
  <2> QED  BY <2>4, <2>5, <2>6 DEF Owed
<1>7. ASSUME NEW k \in Jobs, NEW d \in Chats, Click(k, d) PROVE Owed(j, c)'
  <2>1. runs' = runs /\ tickets' = tickets /\ clicked' = clicked \cup {<<k, d>>}
    BY <1>7 DEF Click, DropLastRecipient, vars
  <2>2. <<j, c>> # <<k, d>>
    BY <2>1 DEF Accounted
  <2>3. c \in payload[j] => c \in payload'[j]
    BY <1>7, <2>2 DEF Click, Sound, DeliveryTypeOK
  <2>4. CASE rows' = rows
    BY <1>4, <2>1, <2>3, <2>4
  <2>5. CASE payload[k] = {d} /\ DropLastRecipient(k)
    <3>1. /\ rows[k].status \in {"pending", "leased"} /\ rows'[k].status = "done"
          /\ \A i \in Jobs \ {k} : rows'[i] = rows[i]
      BY <2>5 DEF DropLastRecipient, Closed, Sound, DeliveryTypeOK, TypeOK, Row
    <3>2. j # k
      BY <1>3, <2>2, <2>5, <3>1 DEF Owed
    <3> QED  BY <1>4, <2>1, <2>3, <3>1, <3>2
  <2> QED  BY <1>7, <2>4, <2>5 DEF Click, vars
<1>8. ASSUME NEW t \in tickets, Run(t) PROVE Owed(j, c)'
  BY <1>0, <1>1, <1>3, <1>8, OwedRunStep
<1>9. CASE Keeper \/ (\E k \in Jobs : Stall(k))
  <2>1. rows \in [Jobs -> Row]
    BY DEF Sound, DeliveryTypeOK, TypeOK
  <2>2. /\ rows'[j].status \in {"pending", "leased"} =>
              rows[j].status \in {"pending", "leased"}
        /\ rows'[j].status = "done" => rows[j].status = "done"
    <3>1. CASE Reclaim \/ ForceReclaim
      <4>1. rows'[j] \in {rows[j], Released(rows[j])}
            /\ (rows'[j] # rows[j] => rows[j].status = "leased")
        BY <3>1 DEF Reclaim, ForceReclaim, Expired
      <4> QED  BY <2>1, <4>1 DEF Released, Row
    <3>2. CASE FailExhausted
      BY <2>1, <3>2 DEF FailExhausted, Closed, Exhausted, Row
    <3>3. CASE Heartbeat
      BY <2>1, <3>3 DEF Heartbeat, Row
    <3>4. ASSUME NEW k \in Jobs, BackoffEnds(k) \/ LeaseExpires(k)
          PROVE  rows'[j].status = rows[j].status
      BY <2>1, <3>4 DEF BackoffEnds, LeaseExpires, Row
    <3>5. ReadInFlight \/ ReleaseStalled \/ (\E k \in Jobs : Stall(k)) => rows' = rows
      BY DEF ReadInFlight, ReleaseStalled, Stall, GoesQuiet, queue
    <3> QED  BY <1>9, <3>1, <3>2, <3>3, <3>4, <3>5 DEF Keeper
  <2> QED  BY <1>4, <1>9, <2>2, KeeperLeaves
<1>10. CASE UNCHANGED deliveryVars
  BY <1>4, <1>10 DEF deliveryVars, vars, own
<1> QED
  BY <1>2, <1>5, <1>6, <1>7, <1>8, <1>9, <1>10 DEF DeliveryNext

\* A row is done only when every chat it was made for has the episode, blocked the
\* bot, asked for it itself, or is told, whoever closed the row.
THEOREM DoneRowsAreAccounted == DeliverySpec => []DoneAccountsForAll
<1>1. DeliveryInit => OwedInv
  <2> SUFFICES ASSUME DeliveryInit, NEW j \in Jobs, NEW c \in Recipients[j] PROVE Owed(j, c)
    BY DEF OwedInv
  <2>1. rows[j].status = "absent" /\ tickets = {}
    BY DEF DeliveryInit, Init, NoRow
  <2> QED  BY <2>1 DEF Owed
<1>2. Sound /\ ChargeInv /\ OwedInv /\ [DeliveryNext]_deliveryVars => OwedInv'
  BY OwedStep
<1>3. OwedInv => DoneAccountsForAll
  BY DEF OwedInv, Owed, Accounted, Telling, At, DoneAccountsForAll
<1> QED  BY <1>1, <1>2, <1>3, Charges, PTL DEF DeliverySpec

-----------------------------------------------------------------------------
(***************************************************************************)
(* One copy while nothing fails.  Without a fault a row has at most one    *)
(* run that is still at work, a leased row has exactly one and its lease   *)
(* does not run out, and what that run or the payload still lists, Telegram *)
(* has not taken.                                                          *)
(***************************************************************************)
Over == Settled \cup {"purged"}

Live(t) == runs[t].at # "ended"

QuietRows ==
    \A j \in Jobs : rows[j].status = "leased" =>
        /\ inFlight[j] = "fresh" /\ rows[j].lease = "live"
        /\ \E t \in tickets : t[1] = j /\ Live(t) /\ Holds(t)

QuietLive ==
    \A t \in tickets : Live(t) =>
        /\ Holds(t) \/ rows[t[1]].status \in Over
        /\ \A u \in tickets : Live(u) /\ u[1] = t[1] => u = t

Reached(j, c) == got[<<j, c>>] > 0

NoRepeat(t, c) ==
    /\ runs[t].at \in Working /\ c \in runs[t].chats => c \in runs[t].sent \cup runs[t].loop
    /\ runs[t].at = "send" => c \notin runs[t].todo
    /\ runs[t].at \notin Working \cup {"ended"} /\ Holds(t) => c \notin payload[t[1]]

QuietRuns == \A t \in tickets, c \in Chats : Reached(t[1], c) => NoRepeat(t, c)

\* A run has sent nothing before its first pass, and starts from the whole payload.
Started(t) ==
    /\ runs[t].at = "pass" /\ runs[t].pass = 0 => runs[t].sent = {}
    /\ runs[t].at = "send" => runs[t].pass > 0
    /\ runs[t].at \in Working /\ Holds(t) => payload[t[1]] \subseteq runs[t].chats

QuietStarts == \A t \in tickets : Started(t)

QuietRest ==
    \A j \in Jobs, c \in Chats : Reached(j, c) =>
        /\ rows[j].status # "absent"
        /\ rows[j].status = "pending" => c \notin payload[j]

QuietOnce == \A p \in Pairs : got[p] <= 1

QuietAll == QuietRows /\ QuietLive /\ QuietRuns /\ QuietStarts /\ QuietRest /\ QuietOnce

QuietInv == Happened = {} => QuietAll

LEMMA NoFault ==
    ASSUME DeliveryTypeOK, [DeliveryNext]_deliveryVars, Happened' = {}
    PROVE  Happened = {} /\ \A kind \in Kinds : ~Fault(kind)
<1>1. \A k \in Kinds : happened'[k] = 0 /\ happened[k] \in Nat
  <2>1. \A k \in Kinds : happened[k] \in Nat /\ happened'[k] \in Nat
    BY DeliveryTypeStep DEF DeliveryTypeOK
  <2> QED  BY <2>1 DEF Happened
<1>2. \A k \in Kinds : happened[k] = 0
  BY <1>1, FatesStep DEF FatesGrow
<1> QED  BY <1>1, <1>2, FaultCounts DEF Happened

\* Who works on which row: a step that starts no run.
LEMMA QuietKept ==
    ASSUME Sound, QuietRows, QuietLive, [Next]_vars, tickets' \subseteq tickets,
           \A u \in tickets' : Live(u)' => Live(u),
           \A u \in tickets : Live(u) /\ Holds(u)' => u \in tickets' /\ Live(u)',
           \A j \in Jobs : rows'[j].status = "leased" =>
              /\ rows[j].status = "leased"
              /\ inFlight'[j] = "fresh" /\ rows'[j].lease = "live",
           \A j \in Jobs : rows[j].status = "leased" /\ rows'[j].status = "pending" =>
              \A u \in tickets' : u[1] = j => ~Live(u)'
    PROVE  QuietRows' /\ QuietLive'
<1>0. \A j \in Jobs : RowMove(j)
  BY RowMoves DEF Sound, DeliveryTypeOK
<1>1. \A u \in tickets : u[1] \in Jobs
  BY TicketParts DEF Sound
<1>2. ASSUME NEW u \in tickets', Live(u)' PROVE Holds(u)' \/ rows'[u[1]].status \in Over
  <2>1. RowMove(u[1]) /\ (Holds(u) \/ rows[u[1]].status \in Over)
    BY <1>0, <1>1, <1>2 DEF QuietLive
  <2>2. CASE rows[u[1]].status \in Over
    BY <2>1, <2>2 DEF RowMove, Kept, Entered, Taken, GivenBack, Finished, Failed, Deleted,
                      Over, Settled
  <2>3. CASE Holds(u)
    BY <1>1, <1>2, <2>1, <2>3
       DEF RowMove, Kept, Entered, Taken, GivenBack, Finished, Failed, Deleted, Over,
           Settled, Holds
  <2> QED  BY <2>1, <2>2, <2>3
<1>3. QuietLive'
  BY <1>2 DEF QuietLive
<1>4. ASSUME NEW j \in Jobs, rows'[j].status = "leased"
      PROVE  \E t \in tickets' : t[1] = j /\ Live(t)' /\ Holds(t)'
  <2>1. PICK t \in tickets : t[1] = j /\ Live(t) /\ Holds(t)
    BY <1>4 DEF QuietRows
  <2>2. Kept(j)
    BY <1>0, <1>4 DEF RowMove, Entered, Taken, GivenBack, Finished, Failed, Deleted
  <2>3. Holds(t)'
    BY <2>1, <2>2 DEF Kept, Holds
  <2> QED  BY <2>1, <2>3
<1>5. QuietRows'
  BY <1>4 DEF QuietRows
<1> QED  BY <1>3, <1>5

LEMMA QuietControlByRun ==
    ASSUME Sound, QuietRows, QuietLive, [Next]_vars, \A kind \in Kinds : ~Fault(kind),
           NEW t \in tickets, Run(t)
    PROVE  QuietRows' /\ QuietLive'
<1>0. t \in Tickets /\ t[1] \in Jobs /\ rows \in [Jobs -> Row]
      /\ inFlight \in [Jobs -> {"no", "fresh", "quiet"}]
      /\ runs \in [Tickets -> Sender] /\ tickets \subseteq Tickets
  BY TicketParts DEF Sound, DeliveryTypeOK, TypeOK
<1>1. \A u \in tickets \ {t} : runs'[u] = runs[u]
  BY <1>0 DEF Set, Run, Breaks, BeginPass, Flood, PassEnds, SendOne, Charge, DeliverEnds,
              Sync, ChargesEnd, Close, Tell, SecondMark, Retry, EndRun
<1>2. \/ Touch(t) \/ MarkDone(t) \/ (rows' = rows /\ inFlight' = inFlight)
      => \A j \in Jobs :
            /\ rows'[j].status = "leased" =>
                  /\ rows[j].status = "leased"
                  /\ inFlight'[j] = "fresh" /\ rows'[j].lease = "live"
            /\ ~(rows[j].status = "leased" /\ rows'[j].status = "pending")
  <2>1. CASE Touch(t)
    BY <1>0, <2>1 DEF Touch, Holds, QuietRows, Row
  <2>2. CASE MarkDone(t)
    BY <1>0, <2>2 DEF MarkDone, Closed, QuietRows, Row
  <2>3. CASE rows' = rows /\ inFlight' = inFlight
    BY <2>3 DEF QuietRows
  <2> QED  BY <2>1, <2>2, <2>3
<1>3. ASSUME runs[t].at # "ended", runs'[t].at # "ended", tickets' = tickets,
             Touch(t) \/ MarkDone(t) \/ (rows' = rows /\ inFlight' = inFlight)
      PROVE  QuietRows' /\ QuietLive'
  BY <1>1, <1>2, <1>3, QuietKept DEF Live
<1>4. CASE \/ Breaks(t) \/ BeginPass(t) \/ PassEnds(t) \/ ChargesEnd(t) \/ Tell(t)
           \/ Sync(t) \/ Close(t)
  <2>1. runs[t].at # "ended" /\ runs'[t].at # "ended"
    <3>1. CASE Breaks(t) \/ Tell(t)
      BY <1>0, <3>1 DEF Breaks, Tell, At, Set, NewSender
    <3>2. CASE BeginPass(t)
      BY <1>0, <3>2 DEF BeginPass, At, Set, Sender
    <3>3. CASE PassEnds(t)
      BY <1>0, <3>3 DEF PassEnds, At, Set, Sender
    <3>4. CASE ChargesEnd(t) \/ Close(t)
      BY <1>0, <3>4 DEF ChargesEnd, Close, At, Set, Sender
    <3>5. CASE Sync(t)
      <4>1. \/ runs' = [runs EXCEPT ![t] = [runs[t] EXCEPT !.at = "close"]]
            \/ runs' = [runs EXCEPT ![t] =
                           [runs[t] EXCEPT !.at = "charge", !.todo = runs[t].sent]]
        BY <3>5 DEF Sync, Set
      <4> QED  BY <1>0, <3>5, <4>1 DEF Sync, At, Sender
    <3> QED  BY <1>4, <3>1, <3>2, <3>3, <3>4, <3>5
  <2>2. /\ tickets' = tickets
        /\ MarkDone(t) \/ (rows' = rows /\ inFlight' = inFlight)
    BY <1>4 DEF Breaks, BeginPass, PassEnds, ChargesEnd, Tell, Sync, Close, Answer,
                TryMarkDone, MarkDone, vars, queue
  <2> QED  BY <1>3, <2>1, <2>2
<1>5. ASSUME NEW c \in Chats, SendOne(t, c) \/ Charge(t, c) PROVE QuietRows' /\ QuietLive'
  <2>1. runs[t].at \in {"send", "charge"} /\ runs'[t].at = runs[t].at
    <3>1. CASE SendOne(t, c)
      <4>1. runs[t].at = "send"
        BY <3>1 DEF SendOne, At
      <4>2. \/ Set(t, [runs[t] EXCEPT !.loop = @ \cup {c}, !.todo = @ \ {c}])
            \/ Set(t, [runs[t] EXCEPT !.blocked = @ \cup {c}, !.todo = @ \ {c}])
            \/ \E rest : Set(t, [runs[t] EXCEPT !.todo = rest])
        BY <3>1 DEF SendOne
      <4>3. PICK s : Set(t, s) /\ s.at = runs[t].at
        <5> DEFINE r == runs[t]
        <5>1. PICK C, D : \/ Set(t, [r EXCEPT !.loop = C, !.todo = D])
                          \/ Set(t, [r EXCEPT !.blocked = C, !.todo = D])
                          \/ Set(t, [r EXCEPT !.todo = D])
          BY <4>2
        <5>2. r \in Sender
          BY <1>0
        <5> HIDE DEF r
        <5>3. /\ [r EXCEPT !.loop = C, !.todo = D].at = r.at
              /\ [r EXCEPT !.blocked = C, !.todo = D].at = r.at
              /\ [r EXCEPT !.todo = D].at = r.at
          BY <5>2 DEF Sender
        <5> QED  BY <5>1, <5>3 DEF r
      <4>4. runs'[t].at = runs[t].at
        BY <1>0, <4>3 DEF Set
      <4> QED  BY <4>1, <4>4
    <3>2. CASE Charge(t, c)
      BY <1>0, <3>2 DEF Charge, At, Set, Sender
    <3> QED  BY <1>5, <3>1, <3>2
  <2>2. /\ tickets' = tickets
        /\ Touch(t) \/ (rows' = rows /\ inFlight' = inFlight)
    BY <1>5 DEF SendOne, Charge, MayTouch, Touch, vars
  <2> QED  BY <1>3, <2>1, <2>2
<1>6. ASSUME NEW final \in BOOLEAN, DeliverEnds(t, final) PROVE QuietRows' /\ QuietLive'
  <2>1. runs[t].at = "pass" /\ runs'[t].at = "sync"
    BY <1>0, <1>6 DEF DeliverEnds, At, Set, Sender
  <2>2. tickets' = tickets /\ rows' = rows /\ inFlight' = inFlight
    BY <1>6 DEF DeliverEnds, vars
  <2> QED  BY <1>3, <2>1, <2>2
<1>7. ~Flood(t)
  BY DEF Flood, Kinds
<1>8. ASSUME runs[t].at # "ended", runs'[t].at = "ended", tickets' = tickets, ~Holds(t)',
             \A j \in Jobs : rows'[j].status = "leased" =>
                /\ rows[j].status = "leased"
                /\ inFlight'[j] = "fresh" /\ rows'[j].lease = "live",
             \A j \in Jobs :
                rows[j].status = "leased" /\ rows'[j].status = "pending" => j = t[1]
      PROVE  QuietRows' /\ QuietLive'
  <2>1. \A j \in Jobs : rows[j].status = "leased" /\ rows'[j].status = "pending" =>
           \A u \in tickets' : u[1] = j => ~Live(u)'
    BY <1>1, <1>8 DEF QuietLive, Live
  <2> QED  BY <1>1, <1>8, <2>1, QuietKept DEF Live
<1>9. CASE SecondMark(t)
  <2>1. TryMarkDone(t) /\ Set(t, NewSender("ended", {})) /\ runs[t].at = "second"
    BY <1>9 DEF SecondMark, Kinds, At
  <2>2. runs'[t].at = "ended" /\ runs[t].at # "ended"
    BY <1>0, <2>1 DEF Set, NewSender
  <2>3. tickets' = tickets
        /\ (MarkDone(t) \/ (rows' = rows /\ inFlight' = inFlight)) /\ ~Holds(t)'
    <3>1. CASE MarkDone(t)
      <4>1. rows'[t[1]].status = "done"
        BY <1>0, <3>1 DEF MarkDone, Closed, Row
      <4> QED  BY <3>1, <4>1 DEF MarkDone, Holds
    <3>2. CASE ~Holds(t) /\ UNCHANGED vars
      BY <3>2 DEF vars, Holds
    <3> QED  BY <2>1, <3>1, <3>2 DEF TryMarkDone
  <2> QED  BY <1>2, <1>8, <2>2, <2>3
<1>10. ASSUME NEW terminal \in BOOLEAN, Retry(t, terminal) PROVE QuietRows' /\ QuietLive'
  <2>1. runs'[t].at = "ended" /\ runs[t].at # "ended"
    BY <1>0, <1>10 DEF Retry, At, Set, NewSender
  <2>2. CASE ~Holds(t) /\ UNCHANGED vars
    <3>1. tickets' = tickets /\ rows' = rows /\ inFlight' = inFlight /\ ~Holds(t)'
      BY <2>2 DEF vars, Holds
    <3> QED  BY <1>2, <1>8, <2>1, <3>1
  <2>3. CASE FailOrRetry(t, terminal)
    <3>1. /\ rows'[t[1]].status \in {"failed", "pending"} /\ tickets' = tickets
          /\ \A j \in Jobs \ {t[1]} : rows'[j] = rows[j] /\ inFlight'[j] = inFlight[j]
      BY <1>0, <2>3 DEF FailOrRetry, Closed, Released, Row
    <3>2. ~Holds(t)'
      BY <3>1 DEF Holds
    <3> QED  BY <1>8, <2>1, <3>1, <3>2 DEF QuietRows
  <2> QED  BY <1>10, <2>2, <2>3 DEF Retry, Kinds
<1>11. CASE EndRun(t)
  <2>1. /\ runs[t].at = "ended" /\ tickets' = tickets \ {t}
        /\ rows' = rows /\ inFlight' = inFlight
    BY <1>11 DEF EndRun, At, Return, queue
  <2> QED  BY <1>1, <1>2, <2>1, QuietKept DEF Live
<1> QED
  BY <1>4, <1>5, <1>6, <1>7, <1>9, <1>10, <1>11 DEF Run

LEMMA QuietControlStep ==
    ASSUME Sound, QuietRows, QuietLive, [DeliveryNext]_deliveryVars,
           \A kind \in Kinds : ~Fault(kind)
    PROVE  QuietRows' /\ QuietLive'
<1>0. [Next]_vars /\ rows \in [Jobs -> Row]
      /\ inFlight \in [Jobs -> {"no", "fresh", "quiet"}]
  BY DeliveryStep DEF Sound, DeliveryTypeOK, TypeOK
<1>1. ASSUME tickets' = tickets, runs' = runs,
             \A j \in Jobs : rows'[j].status = "leased" =>
                /\ rows[j].status = "leased"
                /\ inFlight'[j] = "fresh" /\ rows'[j].lease = "live",
             \A j \in Jobs : ~(rows[j].status = "leased" /\ rows'[j].status = "pending")
      PROVE  QuietRows' /\ QuietLive'
  BY <1>0, <1>1, QuietKept DEF Live
<1>2. ASSUME NEW j \in Jobs, Submit(j) PROVE QuietRows' /\ QuietLive'
  <2>1. /\ tickets' = tickets /\ runs' = runs /\ inFlight' = inFlight
        /\ rows[j].status = "absent" /\ rows'[j].status = "pending"
        /\ \A k \in Jobs \ {j} : rows'[k] = rows[k]
    BY <1>0, <1>2 DEF Submit, Enqueue, Row
  <2> QED  BY <1>1, <2>1 DEF QuietRows
<1>3. ASSUME NEW j \in Jobs, StartRun(j) PROVE QuietRows' /\ QuietLive'
  <2>1. PICK u \in Tickets :
        /\ u = <<j, rows[j].attempts + 1>> /\ u \notin tickets /\ tickets' = tickets \cup {u}
        /\ rows[j].status = "pending" /\ runs'[u] = NewSender("pass", payload[j])
        /\ \A v \in tickets : runs'[v] = runs[v] /\ ~(v[1] = j /\ Holds(v)')
    BY <1>3, NewTicket
  <2>2. /\ rows'[j].status = "leased" /\ rows'[j].attempts = rows[j].attempts + 1
        /\ rows'[j].lease = "live" /\ inFlight'[j] = "fresh"
        /\ \A k \in Jobs \ {j} : rows'[k] = rows[k] /\ inFlight'[k] = inFlight[k]
    BY <1>0, <1>3 DEF StartRun, Claim, Leased, Row
  <2>3. Holds(u)' /\ Live(u)' /\ u[1] = j
    BY <2>1, <2>2 DEF Holds, Live, NewSender
  <2>4. \A v \in tickets : v[1] = j => ~Live(v)
    BY <2>1 DEF QuietLive, Holds, Over, Settled
  <2>5. \A v \in tickets : Live(v)' = Live(v)
    BY <2>1 DEF Live
  <2>6. \A v \in tickets : v[1] # j => Holds(v)' = Holds(v) /\ rows'[v[1]] = rows[v[1]]
    BY <2>2, TicketParts DEF Holds, Sound
  <2>7. QuietLive'
    BY <2>1, <2>3, <2>4, <2>5, <2>6 DEF QuietLive
  <2>8. QuietRows'
    BY <2>1, <2>2, <2>3, <2>5, <2>6 DEF QuietRows
  <2> QED  BY <2>7, <2>8
<1>4. ASSUME NEW j \in Jobs, NEW c \in Chats, Click(j, c) PROVE QuietRows' /\ QuietLive'
  <2>1. /\ tickets' = tickets /\ runs' = runs
        /\ \/ rows' = rows /\ inFlight' = inFlight
           \/ /\ rows'[j].status = "done"
              /\ \A k \in Jobs \ {j} : rows'[k] = rows[k] /\ inFlight'[k] = inFlight[k]
    <3>1. tickets' = tickets /\ runs' = runs
      BY <1>4 DEF Click, DropLastRecipient, vars
    <3>2. CASE DropLastRecipient(j)
      BY <1>0, <3>1, <3>2 DEF DropLastRecipient, Closed
    <3>3. CASE ~DropLastRecipient(j)
      BY <1>4, <3>1, <3>3 DEF Click, vars
    <3> QED  BY <3>2, <3>3
  <2> QED  BY <1>1, <2>1 DEF QuietRows
<1>5. ASSUME NEW t \in tickets, Run(t) PROVE QuietRows' /\ QuietLive'
  BY <1>0, <1>5, QuietControlByRun
<1>6. CASE Keeper
  <2>1. tickets' = tickets /\ runs' = runs
    BY <1>6, KeeperLeaves
  <2>2. ASSUME NEW j \in Jobs
        PROVE  /\ rows'[j].status = "leased" =>
                    /\ rows[j].status = "leased"
                    /\ inFlight'[j] = "fresh" /\ rows'[j].lease = "live"
               /\ ~(rows[j].status = "leased" /\ rows'[j].status = "pending")
    <3> USE <1>0 DEF QuietRows, Row
    <3>1. CASE ReadInFlight \/ ReleaseStalled
      BY <3>1 DEF ReadInFlight, ReleaseStalled, QuietIds, queue
    <3>2. CASE Reclaim
      BY <3>2 DEF Reclaim, Expired, Released
    <3>3. CASE ForceReclaim
      BY <3>3 DEF ForceReclaim, Released
    <3>4. CASE FailExhausted
      <4>1. rows'[j] \in {rows[j], Closed(rows[j], "failed")} /\ inFlight' = inFlight
        BY <3>4 DEF FailExhausted
      <4>2. Closed(rows[j], "failed").status = "failed"
        BY DEF Closed
      <4> QED  BY <4>1, <4>2
    <3>5. CASE Heartbeat
      BY <3>5 DEF Heartbeat, QuietIds
    <3>6. ASSUME NEW k \in Jobs, BackoffEnds(k)
          PROVE  /\ rows'[j].status = rows[j].status /\ rows'[j].lease = rows[j].lease
                 /\ inFlight' = inFlight
      BY <3>6 DEF BackoffEnds
    <3>7. ASSUME NEW k \in Jobs PROVE ~(inFlight[k] = "no" /\ LeaseExpires(k))
      BY DEF LeaseExpires
    <3> QED  BY <1>6, <3>1, <3>2, <3>3, <3>4, <3>5, <3>6, <3>7 DEF Keeper
  <2> QED  BY <1>1, <2>1, <2>2
<1>7. ~(\E j \in Jobs : Stall(j)) /\ ~ProcessCrash
  BY DEF Stall, ProcessCrash, Kinds
<1>8. CASE UNCHANGED deliveryVars
  BY <1>1, <1>8 DEF deliveryVars, vars, own, QuietRows
<1> QED
  BY <1>2, <1>3, <1>4, <1>5, <1>6, <1>7, <1>8 DEF DeliveryNext

\* What was Reached stays off the lists: the run that takes the step.
LEMMA QuietDataByRun ==
    ASSUME Sound, ChargeInv, Sound', [Next]_vars, QuietAll, \A kind \in Kinds : ~Fault(kind),
           NEW t \in tickets, Run(t), ~EndRun(t)
    PROVE  /\ Started(t)' /\ QuietOnce'
           /\ \A c \in Chats : Reached(t[1], c)' => NoRepeat(t, c)'
<1>0. RunKnown(t) /\ runs \in [Tickets -> Sender] /\ got' \in [Pairs -> 0..2]
      /\ payload \in [Jobs -> SUBSET Chats]
  BY KnowRun DEF Sound, DeliveryTypeOK
<1>1. /\ Holds(t)' => Holds(t)
      /\ \A c \in Chats : Reached(t[1], c) => NoRepeat(t, c)
      /\ Started(t) /\ QuietOnce
  BY HoldsOn DEF QuietAll, QuietRuns, QuietStarts
<1> DEFINE Goal == /\ Started(t)' /\ QuietOnce'
                   /\ \A c \in Chats : Reached(t[1], c)' => NoRepeat(t, c)'
<1>2. ASSUME got' = got, payload' = payload, runs'[t].at \notin Working,
             runs[t].at \notin Working \cup {"ended"}
      PROVE  Goal
  BY <1>1, <1>2 DEF Started, NoRepeat, Reached, QuietOnce, Working
<1>3. CASE \/ ChargesEnd(t) \/ Close(t) \/ Tell(t) \/ SecondMark(t)
           \/ (\E c \in Chats : Charge(t, c)) \/ (\E terminal \in BOOLEAN : Retry(t, terminal))
  <2>1. got' = got /\ payload' = payload /\ runs[t].at \notin Working \cup {"ended"}
    BY <1>3 DEF ChargesEnd, Close, Tell, SecondMark, Charge, Retry, At, Working, fates
  <2>2. runs'[t].at \notin Working
    <3>1. CASE Tell(t) \/ SecondMark(t) \/ (\E terminal \in BOOLEAN : Retry(t, terminal))
      BY <1>0, <3>1 DEF Tell, SecondMark, Retry, Set, NewSender, Working, RunKnown
    <3>2. CASE ChargesEnd(t) \/ Close(t)
      BY <1>0, <3>2 DEF ChargesEnd, Close, Set, Sender, Working, RunKnown
    <3>3. CASE \E c \in Chats : Charge(t, c)
      BY <1>0, <3>3 DEF Charge, At, Set, Sender, Working, RunKnown
    <3> QED  BY <1>3, <3>1, <3>2, <3>3
  <2> QED  BY <1>2, <2>1, <2>2
<1>4. CASE Breaks(t)
  <2>1. /\ runs[t].at = "pass" /\ runs[t].pass = 0 /\ got' = got /\ payload' = payload
        /\ runs'[t].at = "broken"
    BY <1>0, <1>4 DEF Breaks, At, Set, NewSender, fates, RunKnown
  <2>2. runs[t].sent = {} /\ runs[t].loop = {}
    BY <1>0, <1>1, <2>1 DEF Started, RunKnown, Books
  <2>3. \A c \in Chats : Reached(t[1], c) /\ Holds(t) => c \notin payload[t[1]]
    BY <1>1, <2>1, <2>2 DEF NoRepeat, Started, Working
  <2> QED  BY <1>1, <2>1, <2>3 DEF Started, NoRepeat, Reached, QuietOnce, Working
<1>5. CASE BeginPass(t)
  <2> DEFINE r == [runs[t] EXCEPT !.at = "send", !.pass = @ + 1, !.todo = Remaining(runs[t])]
  <2>1. /\ runs[t].at = "pass" /\ got' = got /\ payload' = payload /\ runs'[t] = r
        /\ runs[t].pass \in Nat /\ runs[t].loop = {}
    BY <1>0, <1>5 DEF BeginPass, At, Set, fates, RunKnown, Sender, Books
  <2>2. /\ r.at = "send" /\ r.pass = runs[t].pass + 1 /\ r.chats = runs[t].chats
        /\ r.sent = runs[t].sent /\ r.loop = {} /\ r.todo = Remaining(runs[t])
    BY <1>0, <2>1 DEF RunKnown, Sender
  <2> HIDE DEF r
  <2>3. Started(t)' /\ QuietOnce'
    BY <1>1, <2>1, <2>2 DEF Started, QuietOnce, Working
  <2>4. ASSUME NEW c \in Chats, Reached(t[1], c)' PROVE NoRepeat(t, c)'
    <3>1. c \in runs[t].chats => c \in runs[t].sent
      BY <1>1, <2>1, <2>4 DEF Reached, NoRepeat, Working
    <3> QED  BY <2>1, <2>2, <3>1 DEF NoRepeat, Working, Remaining
  <2> QED  BY <2>3, <2>4
<1>6. CASE PassEnds(t)
  <2> DEFINE r == [runs[t] EXCEPT !.at = "pass", !.sent = @ \cup runs[t].loop, !.loop = {}]
  <2>1. /\ runs[t].at = "send" /\ got' = got /\ payload' = payload /\ runs'[t] = r
    BY <1>0, <1>6 DEF PassEnds, At, Set, fates, RunKnown
  <2>2. /\ r.at = "pass" /\ r.pass = runs[t].pass /\ r.chats = runs[t].chats
        /\ r.sent = runs[t].sent \cup runs[t].loop /\ r.loop = {}
    BY <1>0 DEF RunKnown, Sender
  <2> HIDE DEF r
  <2>3. Started(t)' /\ QuietOnce'
    BY <1>1, <2>1, <2>2 DEF Started, QuietOnce, Working
  <2>4. ASSUME NEW c \in Chats, Reached(t[1], c)' PROVE NoRepeat(t, c)'
    BY <1>1, <2>1, <2>2, <2>4 DEF Reached, NoRepeat, Working
  <2> QED  BY <2>3, <2>4
<1>7. ASSUME NEW final \in BOOLEAN, DeliverEnds(t, final) PROVE Goal
  <2> DEFINE r == [runs[t] EXCEPT !.at = "sync", !.final = final]
  <2>1. /\ runs[t].at = "pass" /\ got' = got /\ payload' = payload /\ runs'[t] = r
    BY <1>0, <1>7 DEF DeliverEnds, At, Set, fates, RunKnown
  <2>2. /\ r.at = "sync" /\ r.chats = runs[t].chats
        /\ r.sent = runs[t].sent /\ r.loop = runs[t].loop
    BY <1>0 DEF RunKnown, Sender
  <2> HIDE DEF r
  <2>3. Started(t)' /\ QuietOnce'
    BY <1>1, <2>1, <2>2 DEF Started, QuietOnce, Working
  <2>4. ASSUME NEW c \in Chats, Reached(t[1], c)' PROVE NoRepeat(t, c)'
    BY <1>1, <2>1, <2>2, <2>4 DEF Reached, NoRepeat, Working
  <2> QED  BY <2>3, <2>4
<1>8. CASE Sync(t)
  <2>1. runs[t].at = "sync" /\ got' = got /\ Holds(t)' = Holds(t) /\ runs[t].loop = {}
    BY <1>0, <1>8 DEF Sync, At, Answer, Holds, vars, queue, fates, RunKnown, Books
  <2>2. CASE /\ Holds(t) /\ payload' = [payload EXCEPT ![t[1]] = Remaining(runs[t])]
             /\ Set(t, [runs[t] EXCEPT !.at = "charge", !.todo = runs[t].sent])
    <3>1. runs'[t].at = "charge" /\ payload'[t[1]] = Remaining(runs[t])
      BY <1>0, <2>2 DEF Set, RunKnown, Sender
    <3>2. \A c \in Chats : Reached(t[1], c) => c \notin Remaining(runs[t])
      BY <1>1, <2>1 DEF NoRepeat, Working, Remaining
    <3> QED  BY <1>1, <2>1, <3>1, <3>2 DEF Started, NoRepeat, Reached, QuietOnce, Working
  <2>3. CASE ~Holds(t) /\ Set(t, [runs[t] EXCEPT !.at = "close"])
    <3>1. runs'[t].at = "close"
      BY <1>0, <2>3 DEF Set, RunKnown, Sender
    <3> QED  BY <1>1, <2>1, <2>3, <3>1 DEF Started, NoRepeat, Reached, QuietOnce, Working
  <2> QED  BY <1>8, <2>2, <2>3 DEF Sync, Kinds
<1>9. ASSUME NEW d \in Chats, SendOne(t, d) PROVE Goal
  <2>1. /\ runs[t].at = "send" /\ d \in runs[t].todo /\ payload' = payload
        /\ ~Reached(t[1], d)
    BY <1>1, <1>9 DEF SendOne, At, NoRepeat
  <2>2. /\ runs'[t].at = "send" /\ runs'[t].pass = runs[t].pass
        /\ runs'[t].chats = runs[t].chats /\ runs'[t].sent = runs[t].sent
        /\ runs'[t].todo \subseteq runs[t].todo /\ runs[t].loop \subseteq runs'[t].loop
        /\ \/ got' = got
           \/ /\ got' = [got EXCEPT ![<<t[1], d>>] = More(@)]
              /\ d \in runs'[t].loop /\ d \notin runs'[t].todo
    <3>1. CASE /\ got' = [got EXCEPT ![<<t[1], d>>] = More(@)]
               /\ Set(t, [runs[t] EXCEPT !.loop = @ \cup {d}, !.todo = @ \ {d}])
      BY <1>0, <2>1, <3>1 DEF Set, RunKnown, Sender
    <3>2. CASE /\ got' = got
               /\ Set(t, [runs[t] EXCEPT !.blocked = @ \cup {d}, !.todo = @ \ {d}])
      BY <1>0, <2>1, <3>2 DEF Set, RunKnown, Sender
    <3>3. CASE /\ got' = got
               /\ \E rest \in {{}, runs[t].todo \ {d}} : Set(t, [runs[t] EXCEPT !.todo = rest])
      <4>1. PICK rest \in {{}, runs[t].todo \ {d}} : Set(t, [runs[t] EXCEPT !.todo = rest])
        BY <3>3
      <4>2. runs'[t] = [runs[t] EXCEPT !.todo = rest] /\ rest \subseteq runs[t].todo
        BY <1>0, <4>1 DEF Set, RunKnown
      <4> QED  BY <1>0, <2>1, <3>3, <4>2 DEF RunKnown, Sender
    <3> QED  BY <1>9, <3>1, <3>2, <3>3 DEF SendOne
  <2>3. \A p \in Pairs : got'[p] = got[p] \/ (p = <<t[1], d>> /\ got'[p] = 1 /\ got' # got)
    <3>1. got[<<t[1], d>>] = 0 /\ <<t[1], d>> \in Pairs
      BY <1>0, <2>1 DEF Reached, RunKnown
    <3> QED  BY <1>0, <2>2, <3>1 DEF RunKnown, More
  <2>4. Started(t)' /\ QuietOnce'
    BY <1>1, <2>1, <2>2, <2>3 DEF Started, QuietOnce, Working
  <2>5. ASSUME NEW c \in Chats, Reached(t[1], c)' PROVE NoRepeat(t, c)'
    <3>1. Reached(t[1], c) \/ (c = d /\ got' # got)
      BY <1>0, <2>3, <2>5 DEF Reached, RunKnown
    <3> QED  BY <1>1, <2>1, <2>2, <3>1 DEF NoRepeat, Working
  <2> QED  BY <2>4, <2>5
<1>10. ~Flood(t)
  BY DEF Flood, Kinds
<1> QED
  BY <1>3, <1>4, <1>5, <1>6, <1>7, <1>8, <1>9, <1>10 DEF Run

\* A row that has cost nothing yet has no run, so nobody was sent its episode.
LEMMA QuietDataStep ==
    ASSUME Sound, ChargeInv, QuietAll, [DeliveryNext]_deliveryVars,
           \A kind \in Kinds : ~Fault(kind)
    PROVE  QuietRuns' /\ QuietStarts' /\ QuietRest' /\ QuietOnce'
<1>0. [Next]_vars /\ rows \in [Jobs -> Row] /\ Sound'
  BY DeliveryStep, SoundStep DEF Sound, DeliveryTypeOK, TypeOK
<1> DEFINE Goal == QuietRuns' /\ QuietStarts' /\ QuietRest' /\ QuietOnce'
<1>1. ASSUME got' = got, tickets' = tickets, runs' = runs,
             \A j \in Jobs : payload'[j] \subseteq payload[j],
             \A j \in Jobs : /\ rows'[j].status = "absent" => rows[j].status = "absent"
                             /\ rows'[j].status = "pending" => rows[j].status = "pending"
      PROVE  Goal
  <2>1. \A t \in tickets : (Holds(t)' => Holds(t)) /\ t[1] \in Jobs
    BY <1>0, HoldsOn, TicketParts DEF Sound
  <2>2. QuietRuns' /\ QuietStarts'
    BY <1>1, <2>1 DEF QuietAll, QuietRuns, QuietStarts, NoRepeat, Started, Reached
  <2>3. QuietRest' /\ QuietOnce'
    BY <1>1 DEF QuietAll, QuietRest, QuietOnce, Reached
  <2> QED  BY <2>2, <2>3
<1>2. ASSUME NEW j \in Jobs, Submit(j) PROVE Goal
  <2>1. /\ tickets' = tickets /\ runs' = runs /\ got' = got
        /\ rows[j].status = "absent" /\ rows'[j].status = "pending"
        /\ \A k \in Jobs \ {j} : rows'[k] = rows[k] /\ payload'[k] = payload[k]
    BY <1>0, <1>2 DEF Submit, Enqueue, Row, fates, Sound, DeliveryTypeOK
  <2>2. \A t \in tickets : t[1] # j /\ t[1] \in Jobs
    BY <2>1, TicketParts DEF ChargeInv, Untouched, Sound, TicketsFenced
  <2>3. \A t \in tickets : Holds(t)' = Holds(t) /\ payload'[t[1]] = payload[t[1]]
    BY <2>1, <2>2 DEF Holds
  <2>4. QuietRuns' /\ QuietStarts'
    BY <2>1, <2>3 DEF QuietAll, QuietRuns, QuietStarts, NoRepeat, Started, Reached
  <2>5. QuietRest' /\ QuietOnce'
    BY <2>1 DEF QuietAll, QuietRest, QuietOnce, Reached
  <2> QED  BY <2>4, <2>5
<1>3. ASSUME NEW j \in Jobs, StartRun(j) PROVE Goal
  <2> DEFINE s == NewSender("pass", payload[j])
  <2>1. PICK u :
        /\ u \notin tickets /\ tickets' = tickets \cup {u} /\ u[1] = j
        /\ rows[j].status = "pending" /\ runs'[u] = s
        /\ \A v \in tickets : runs'[v] = runs[v]
    BY <1>3, NewTicket
  <2>2. /\ payload' = payload /\ got' = got /\ rows'[j].status = "leased"
        /\ \A k \in Jobs \ {j} : rows'[k] = rows[k]
    BY <1>0, <1>3 DEF StartRun, Claim, Leased, Row, fates
  <2>3. s.at = "pass" /\ s.chats = payload[j] /\ s.sent = {} /\ s.loop = {}
    BY DEF NewSender
  <2> HIDE DEF s
  <2>4. \A c \in Chats : Reached(j, c) => c \notin payload[j]
    BY <2>1 DEF QuietAll, QuietRest
  <2>5. \A v \in tickets : Holds(v)' => Holds(v)
    BY <1>0, HoldsOn
  <2>6. QuietRuns'
    <3>1. \A c \in Chats : Reached(u[1], c)' => NoRepeat(u, c)'
      BY <2>1, <2>2, <2>3, <2>4 DEF NoRepeat, Reached, Working
    <3>2. \A v \in tickets, c \in Chats : Reached(v[1], c)' => NoRepeat(v, c)'
      BY <2>1, <2>2, <2>5 DEF QuietAll, QuietRuns, NoRepeat, Reached
    <3> QED  BY <2>1, <3>1, <3>2 DEF QuietRuns
  <2>7. QuietStarts'
    <3>1. Started(u)'
      BY <2>1, <2>2, <2>3 DEF Started, Working
    <3>2. \A v \in tickets : Started(v)'
      BY <2>1, <2>2, <2>5 DEF QuietAll, QuietStarts, Started
    <3> QED  BY <2>1, <3>1, <3>2 DEF QuietStarts
  <2>8. QuietRest' /\ QuietOnce'
    BY <2>1, <2>2 DEF QuietAll, QuietRest, QuietOnce, Reached
  <2> QED  BY <2>6, <2>7, <2>8
<1>4. ASSUME NEW j \in Jobs, NEW c \in Chats, Click(j, c) PROVE Goal
  <2>1. /\ got' = got /\ tickets' = tickets /\ runs' = runs
        /\ \A k \in Jobs : payload'[k] \subseteq payload[k]
        /\ \/ rows' = rows
           \/ /\ rows'[j].status = "done"
              /\ \A k \in Jobs \ {j} : rows'[k] = rows[k]
    <3>1. DropLastRecipient(j) =>
             /\ rows'[j].status = "done" /\ tickets' = tickets
             /\ \A k \in Jobs \ {j} : rows'[k] = rows[k]
      BY <1>0 DEF DropLastRecipient, Closed, Row
    <3>2. \A k \in Jobs : payload'[k] \subseteq payload[k]
      BY <1>4 DEF Click, Sound, DeliveryTypeOK
    <3> QED  BY <1>4, <3>1, <3>2 DEF Click, vars
  <2> QED  BY <1>1, <2>1
<1>5. ASSUME NEW t \in tickets, Run(t) PROVE Goal
  <2>0. /\ RunKnown(t) /\ t \in Tickets
        /\ \A u \in tickets \ {t} : runs'[u] = runs[u]
        /\ tickets' \subseteq tickets
    <3>1. tickets' \subseteq tickets
      BY <1>5 DEF Run, Breaks, BeginPass, Flood, PassEnds, SendOne, Charge, DeliverEnds,
             Sync, Answer, ChargesEnd, Close, Tell, SecondMark, Retry, EndRun, Return,
             TryMarkDone, MarkDone, FailOrRetry, MayTouch, Touch, vars, queue
    <3>2. \E s : Set(t, s)
      BY <1>5 DEF Run, Breaks, BeginPass, Flood, PassEnds, SendOne, Charge, DeliverEnds,
             Sync, ChargesEnd, Close, Tell, SecondMark, Retry, EndRun
    <3>3. \A u \in tickets \ {t} : runs'[u] = runs[u]
      BY <3>2 DEF Set, Sound, DeliveryTypeOK, TypeOK
    <3> QED  BY <3>1, <3>3, KnowRun, TicketParts DEF Sound
  <2>1. CASE EndRun(t)
    <3>1. /\ got' = got /\ payload' = payload /\ rows' = rows /\ tickets' = tickets \ {t}
      BY <2>1 DEF EndRun, Return, queue, fates
    <3>2. \A u \in tickets' : runs'[u] = runs[u] /\ Holds(u)' = Holds(u)
      BY <2>0, <3>1 DEF Holds
    <3>3. QuietRuns' /\ QuietStarts'
      BY <3>1, <3>2 DEF QuietAll, QuietRuns, QuietStarts, NoRepeat, Started, Reached
    <3>4. QuietRest' /\ QuietOnce'
      BY <3>1 DEF QuietAll, QuietRest, QuietOnce, Reached
    <3> QED  BY <3>3, <3>4
  <2>2. CASE ~EndRun(t)
    <3>1. /\ Started(t)' /\ QuietOnce'
          /\ \A c \in Chats : Reached(t[1], c)' => NoRepeat(t, c)'
      BY <1>0, <1>5, <2>2, QuietDataByRun
    <3>2. /\ \A j \in Jobs : j # t[1] => payload'[j] = payload[j] /\ rows'[j] = rows[j]
          /\ \A j \in Jobs, c \in Chats : j # t[1] => Reached(j, c)' = Reached(j, c)
      <4>1. \/ payload' = payload \/ payload' = [payload EXCEPT ![t[1]] = Remaining(runs[t])]
        BY <1>5 DEF Run, Breaks, BeginPass, Flood, PassEnds, SendOne, Charge, DeliverEnds,
               Sync, ChargesEnd, Close, Tell, SecondMark, Retry, EndRun
      <4>2. \/ got' = got \/ \E c \in Chats : got' = [got EXCEPT ![<<t[1], c>>] = More(@)]
        BY <1>5 DEF Run, Breaks, BeginPass, Flood, PassEnds, SendOne, Charge, DeliverEnds,
               Sync, ChargesEnd, Close, Tell, SecondMark, Retry, EndRun, fates
      <4>3. \/ rows' = rows \/ Touch(t) \/ MarkDone(t)
            \/ \E terminal \in BOOLEAN : FailOrRetry(t, terminal)
        BY <1>5 DEF Run, Breaks, BeginPass, Flood, PassEnds, SendOne, Charge, DeliverEnds,
               Sync, Answer, ChargesEnd, Close, Tell, SecondMark, Retry, EndRun, Return,
               TryMarkDone, MayTouch, vars, queue
      <4>4. \A j \in Jobs : j # t[1] => rows'[j] = rows[j]
        BY <1>0, <4>3 DEF Touch, MarkDone, FailOrRetry
      <4>5. \A j \in Jobs : j # t[1] => payload'[j] = payload[j]
        BY <2>0, <4>1 DEF RunKnown, Sound, DeliveryTypeOK
      <4>6. ASSUME NEW j \in Jobs, NEW c \in Chats, j # t[1] PROVE got'[<<j, c>>] = got[<<j, c>>]
        <5>1. <<j, c>> \in Pairs /\ \A d : <<j, c>> # <<t[1], d>>
          BY <4>6 DEF Pairs
        <5> QED  BY <2>0, <4>2, <5>1 DEF RunKnown
      <4> QED  BY <4>4, <4>5, <4>6 DEF Reached
    <3>3. ASSUME NEW u \in tickets', u # t
          PROVE  Started(u)' /\ \A c \in Chats : Reached(u[1], c)' => NoRepeat(u, c)'
      <4>1. /\ u \in tickets /\ u[1] \in Jobs /\ runs'[u] = runs[u] /\ (Holds(u)' => Holds(u))
            /\ Started(u) /\ \A c \in Chats : Reached(u[1], c) => NoRepeat(u, c)
        BY <1>0, <2>0, <3>3, HoldsOn, TicketParts DEF QuietAll, QuietRuns, QuietStarts, Sound
      <4>2. CASE u[1] # t[1]
        BY <3>2, <4>1, <4>2 DEF Started, NoRepeat
      <4>3. CASE u[1] = t[1]
        <5>1. Live(t)
          BY <1>5, <2>2 DEF Live, Run, Breaks, BeginPass, Flood, PassEnds, SendOne, Charge,
             DeliverEnds, Sync, ChargesEnd, Close, Tell, SecondMark, Retry, At
        <5>2. ~Live(u)
          BY <3>3, <4>1, <4>3, <5>1 DEF QuietAll, QuietLive
        <5> QED  BY <4>1, <5>2 DEF Live, Started, NoRepeat, Working
      <4> QED  BY <4>2, <4>3
    <3>4. QuietRuns' /\ QuietStarts'
      BY <3>1, <3>3 DEF QuietRuns, QuietStarts
    <3>5. QuietRest'
      <4> SUFFICES ASSUME NEW j \in Jobs, NEW c \in Chats, Reached(j, c)'
                   PROVE  /\ rows'[j].status # "absent"
                          /\ rows'[j].status = "pending" => c \notin payload'[j]
        BY DEF QuietRest
      <4>1. CASE j # t[1]
        BY <3>2, <4>1 DEF QuietAll, QuietRest
      <4>2. CASE j = t[1]
        <5>1. rows[j].status # "absent" /\ (Live(t) => rows[j].status # "pending")
          <6>1. rows[j].status = "absent" => FALSE
            BY <2>0, <4>2, TicketParts
               DEF RunKnown, ChargeInv, Untouched, Sound, TicketsFenced
          <6> QED  BY <4>2, <6>1 DEF QuietAll, QuietLive, Holds, Over, Settled
        <5>2. Live(t)
          BY <1>5, <2>2 DEF Live, Run, Breaks, BeginPass, Flood, PassEnds, SendOne, Charge,
             DeliverEnds, Sync, ChargesEnd, Close, Tell, SecondMark, Retry, At
        <5>3. rows'[j].status # "absent"
          BY <1>0, <5>1, AbsentWas
        <5>4. ASSUME rows'[j].status = "pending" PROVE c \notin payload'[j]
          <6>1. RowMove(j)
            BY <1>0, RowMoves DEF Sound, DeliveryTypeOK
          <6>2. GivenBack(j) /\ Holds(t)
            BY <4>2, <5>1, <5>2, <5>4, <6>1
               DEF RowMove, Kept, Entered, Taken, GivenBack, Finished, Failed, Deleted,
                   QuietAll, QuietLive, Holds, Over, Settled
          <6>3. \E terminal \in BOOLEAN : Retry(t, terminal)
            <7>1. \A r \in Row : [r EXCEPT !.lease = "live"].status = r.status
              BY DEF Row
            <7>2. Touch(t) => rows'[j].status = rows[j].status
              BY <1>0, <4>2, <7>1 DEF Touch, Row
            <7>3. MarkDone(t) => rows'[j].status = "done"
              BY <1>0, <4>2 DEF MarkDone, Closed, Row
            <7>4. rows' # rows /\ ~Touch(t) /\ ~MarkDone(t)
              BY <5>4, <6>2, <7>2, <7>3 DEF GivenBack
            <7> QED
              BY <1>5, <7>4 DEF Run, Breaks, BeginPass, Flood, PassEnds, SendOne, Charge,
                 DeliverEnds, Sync, Answer, ChargesEnd, Close, Tell, SecondMark, EndRun,
                 Return, TryMarkDone, MayTouch, vars, queue
          <6>4. /\ runs[t].at \in {"raised", "broken"} /\ payload' = payload /\ got' = got
            BY <6>3 DEF Retry, At
          <6> QED
            BY <4>2, <6>2, <6>4
               DEF QuietAll, QuietRuns, NoRepeat, Reached, Working
        <5> QED  BY <5>3, <5>4
      <4> QED  BY <4>1, <4>2
    <3> QED  BY <3>1, <3>4, <3>5
  <2> QED  BY <2>1, <2>2
<1>6. CASE Keeper
  <2>1. ASSUME NEW j \in Jobs
        PROVE  /\ rows'[j].status = "absent" => rows[j].status = "absent"
               /\ rows'[j].status = "pending" => rows[j].status = "pending"
    <3>0. rows'[j].status = "absent" => rows[j].status = "absent"
      BY <1>0, AbsentWas
    <3> USE <1>0 DEF QuietAll, QuietRows, Row
    <3>1. CASE ReadInFlight \/ ReleaseStalled
      BY <3>1 DEF ReadInFlight, ReleaseStalled, queue
    <3>2. CASE Reclaim
      BY <3>0, <3>2 DEF Reclaim, Expired, Released
    <3>3. CASE ForceReclaim
      BY <3>0, <3>3 DEF ForceReclaim, Released
    <3>4. CASE FailExhausted
      <4>1. rows'[j] \in {rows[j], Closed(rows[j], "failed")}
        BY <3>4 DEF FailExhausted
      <4>2. Closed(rows[j], "failed").status = "failed"
        BY DEF Closed
      <4> QED  BY <4>1, <4>2
    <3>5. CASE Heartbeat
      BY <3>0, <3>5 DEF Heartbeat
    <3>6. ASSUME NEW k \in Jobs, BackoffEnds(k) PROVE rows'[j].status = rows[j].status
      BY <3>6 DEF BackoffEnds
    <3>7. ASSUME NEW k \in Jobs PROVE ~(inFlight[k] = "no" /\ LeaseExpires(k))
      BY DEF LeaseExpires
    <3> QED  BY <1>6, <3>1, <3>2, <3>3, <3>4, <3>5, <3>6, <3>7 DEF Keeper
  <2> QED  BY <1>1, <1>6, <2>1, KeeperLeaves
<1>7. ~(\E j \in Jobs : Stall(j)) /\ ~ProcessCrash
  BY DEF Stall, ProcessCrash, Kinds
<1>8. CASE UNCHANGED deliveryVars
  BY <1>1, <1>8 DEF deliveryVars, vars, own, fates
<1> QED
  BY <1>2, <1>3, <1>4, <1>5, <1>6, <1>7, <1>8 DEF DeliveryNext

LEMMA QuietStep ==
    ASSUME Sound, ChargeInv, QuietInv, [DeliveryNext]_deliveryVars
    PROVE  QuietInv'
<1> SUFFICES ASSUME Happened' = {} PROVE QuietAll'
  BY DEF QuietInv
<1>1. QuietAll /\ \A kind \in Kinds : ~Fault(kind)
  BY NoFault DEF QuietInv, Sound
<1> QED  BY <1>1, QuietControlStep, QuietDataStep DEF QuietAll

\* While no fault strikes, no chat gets an episode twice, whatever clicks, failed
\* sends, further transports and retries of the row do.
THEOREM OneCopyIfNothingFails == DeliverySpec => []OneCopyWithoutFaults
<1>1. DeliveryInit => QuietInv
  BY DEF DeliveryInit, Init, NoRow, QuietInv, QuietAll, QuietRows, QuietLive, QuietRuns,
         QuietStarts, QuietRest, QuietOnce, Reached, Pairs
<1>2. Sound /\ ChargeInv /\ QuietInv /\ [DeliveryNext]_deliveryVars => QuietInv'
  BY QuietStep
<1>3. QuietInv => OneCopyWithoutFaults
  BY DEF QuietInv, QuietAll, QuietOnce, OneCopyWithoutFaults
<1> QED  BY <1>1, <1>2, <1>3, Charges, PTL DEF DeliverySpec
=============================================================================
