---------------------------- MODULE OutboxProofs ----------------------------
(***************************************************************************)
(* Proofs about Outbox for every set of rows, users and actions and every  *)
(* MAX_ATTEMPTS: what TLC checks on two rows and two attempts holds for    *)
(* the table the bot runs.                                                 *)
(*                                                                         *)
(* The inductive invariant is IInv.  TypeOK is inductive by itself; the    *)
(* other properties rest on it, because a record update says something     *)
(* about a row only when the row is known to be a record.                  *)
(***************************************************************************)
EXTENDS Outbox, TLAPS

\* The types of the rows that the helpers return.
LEMMA RowTypes ==
    ASSUME NEW r \in Row
    PROVE  /\ r.attempts < MaxAttempts => Leased(r) \in Row
           /\ Released(r) \in Row
           /\ [Released(r) EXCEPT !.ready = FALSE] \in Row
           /\ \A status \in Statuses : Closed(r, status) \in Row
           /\ NoRow \in Row /\ [NoRow EXCEPT !.status = "purged"] \in Row
<1>1. ASSUME r.attempts < MaxAttempts PROVE Leased(r) \in Row
  <2>1. r.attempts + 1 \in 0..MaxAttempts
    BY <1>1, OutboxAssumption DEF OutboxAssumption, Row
  <2>2. [r EXCEPT !.status = "leased", !.attempts = r.attempts + 1] \in Row
    BY <2>1 DEF Row, Statuses
  <2> QED  BY <2>2 DEF Row, Leased
<1>2. Released(r) \in Row /\ [Released(r) EXCEPT !.ready = FALSE] \in Row
  BY DEF Row, Released, Statuses
<1>3. \A status \in Statuses : Closed(r, status) \in Row
  BY DEF Row, Closed
<1>4. NoRow \in Row
  BY OutboxAssumption DEF OutboxAssumption, Row, NoRow, Statuses
<1>5. [NoRow EXCEPT !.status = "purged"] \in Row
  BY <1>4 DEF Row, Statuses
<1> QED  BY <1>1, <1>2, <1>3, <1>4, <1>5

\* Every step keeps every variable in its type: attempts never pass
\* MAX_ATTEMPTS, whichever of retry, reclaim and claim meet, and an answer
\* never outlives its run.
LEMMA TypeStep ==
    ASSUME TypeOK, [Next]_vars
    PROVE  TypeOK'
<1> USE OutboxAssumption DEF OutboxAssumption
<1>1. ASSUME NEW j \in Jobs, Enqueue(j) PROVE TypeOK'
  <2> DEFINE r == [rows[j] EXCEPT !.status = "pending", !.ready = TRUE]
  <2>1. rows' = [rows EXCEPT ![j] = r] /\ rows \in [Jobs -> Row]
    BY <1>1 DEF TypeOK, Enqueue
  <2>2. r \in Row
    BY <2>1 DEF Row, Statuses
  <2> HIDE DEF r
  <2>3. rows' \in [Jobs -> Row]
    BY <2>1, <2>2
  <2> QED  BY <1>1, <2>3 DEF TypeOK, Enqueue
<1>2. ASSUME NEW j \in Jobs, NEW a \in Actions, Claim(a, j) PROVE TypeOK'
  <2>1. rows' \in [Jobs -> Row]
    BY <1>2, RowTypes DEF TypeOK, Claim, NextJob, Claimable
  <2>2. rows[j].attempts + 1 \in 1..MaxAttempts
    BY <1>2 DEF TypeOK, Claim, NextJob, Claimable, Row
  <2>3. tickets' \subseteq Tickets
    BY <1>2, <2>2 DEF TypeOK, Claim, Tickets
  <2> QED  BY <1>2, <2>1, <2>3 DEF TypeOK, Claim
<1>3. ASSUME NEW j \in Jobs, DropLastRecipient(j) PROVE TypeOK'
  <2>1. rows' \in [Jobs -> Row]
    BY <1>3, RowTypes DEF TypeOK, DropLastRecipient, Statuses
  <2> QED  BY <1>3, <2>1 DEF TypeOK, DropLastRecipient
<1>4. ASSUME NEW j \in Jobs, LeaseExpires(j) \/ BackoffEnds(j) \/ GoesQuiet(j)
      PROVE  TypeOK'
  <2>1. CASE LeaseExpires(j)
    BY <2>1 DEF TypeOK, LeaseExpires, Row
  <2>2. CASE BackoffEnds(j)
    BY <2>2 DEF TypeOK, BackoffEnds, Row
  <2>3. CASE GoesQuiet(j)
    BY <2>3 DEF TypeOK, GoesQuiet
  <2> QED  BY <1>4, <2>1, <2>2, <2>3
<1>5. ASSUME NEW t \in tickets, Touch(t) PROVE TypeOK'
  <2>1. t[1] \in Jobs
    BY DEF TypeOK, Tickets
  <2> QED  BY <1>5, <2>1 DEF TypeOK, Touch, Row
<1>6. ASSUME NEW t \in tickets, Answer(t) \/ Return(t) PROVE TypeOK'
  BY <1>6 DEF TypeOK, Answer, Return, queue
<1>7. ASSUME NEW t \in tickets, MarkDone(t) PROVE TypeOK'
  <2>1. t[1] \in Jobs
    BY DEF TypeOK, Tickets
  <2>2. rows' \in [Jobs -> Row]
    BY <1>7, <2>1, RowTypes DEF TypeOK, MarkDone, Statuses
  <2> QED  BY <1>7, <2>1, <2>2 DEF TypeOK, MarkDone
<1>8. ASSUME NEW t \in tickets, NEW terminal \in BOOLEAN, FailOrRetry(t, terminal)
      PROVE  TypeOK'
  <2>1. t[1] \in Jobs
    BY DEF TypeOK, Tickets
  <2>2. rows' \in [Jobs -> Row]
    BY <1>8, <2>1, RowTypes DEF TypeOK, FailOrRetry, Statuses
  <2> QED  BY <1>8, <2>1, <2>2 DEF TypeOK, FailOrRetry
<1>9. CASE ReadInFlight
  BY <1>9 DEF TypeOK, ReadInFlight, InFlightIds, queue
<1>10. CASE Reclaim \/ ForceReclaim
  <2>1. \A j \in Jobs : Released(rows[j]) \in Row
    BY RowTypes DEF TypeOK
  <2>2. rows' \in [Jobs -> Row]
    BY <1>10, <2>1 DEF TypeOK, Reclaim, ForceReclaim
  <2> QED  BY <1>10, <2>2 DEF TypeOK, Reclaim, ForceReclaim
<1>11. CASE FailExhausted
  BY <1>11, RowTypes DEF TypeOK, FailExhausted, Statuses
<1>12. CASE ReleaseStalled \/ Crash
  BY <1>12 DEF TypeOK, ReleaseStalled, Crash
<1>13. CASE Heartbeat
  BY <1>13 DEF TypeOK, Heartbeat, Row
<1>14. ASSUME NEW old \in SUBSET Jobs, PurgeOld(old) PROVE TypeOK'
  BY <1>14, RowTypes DEF TypeOK, PurgeOld
<1>15. CASE UNCHANGED vars
  BY <1>15 DEF TypeOK, vars
<1> QED
  BY <1>1, <1>2, <1>3, <1>4, <1>5, <1>6, <1>7, <1>8, <1>9, <1>10, <1>11,
     <1>12, <1>13, <1>14, <1>15 DEF Next, RowNext, TicketNext

\* No call, in any order and across restarts, takes a row out of its type or
\* its attempts over MAX_ATTEMPTS.
THEOREM TypeCorrect == Spec => []TypeOK
<1>1. Init => TypeOK
  BY OutboxAssumption DEF OutboxAssumption, Init, TypeOK, NoRow, Row, Statuses
<1> QED  BY <1>1, TypeStep, PTL DEF Spec

-----------------------------------------------------------------------------
(***************************************************************************)
(* The seven things a step can do to a row.  Every property of the table's *)
(* steps below is read off this list.                                      *)
(***************************************************************************)
Kept(j) ==
    /\ rows'[j].status = rows[j].status
    /\ rows'[j].attempts = rows[j].attempts

Entered(j) ==
    /\ rows[j].status = "absent" /\ rows'[j].status = "pending"
    /\ rows'[j].attempts = rows[j].attempts

Taken(j) ==
    /\ rows[j].status = "pending" /\ rows'[j].status = "leased"
    /\ rows'[j].attempts = rows[j].attempts + 1
    /\ ~UserBusy(j)
    /\ \A k \in Jobs \ {j} : rows'[k] = rows[k]

GivenBack(j) ==
    /\ rows[j].status = "leased" /\ rows'[j].status = "pending"
    /\ rows'[j].attempts = rows[j].attempts
    /\ rows[j].lease = "expired" \/ ~rows'[j].ready \/ tickets = {}

Finished(j) ==
    /\ rows[j].status \in {"pending", "leased"} /\ rows'[j].status = "done"
    /\ rows'[j].attempts = rows[j].attempts
    /\ Droppable(j) \/ <<j, rows[j].attempts>> \in answered

Failed(j) ==
    /\ rows[j].status \in {"pending", "leased"} /\ rows'[j].status = "failed"
    /\ rows'[j].attempts = rows[j].attempts

Deleted(j) == rows[j].status \in Settled /\ rows'[j].status = "purged"

RowMove(j) ==
    \/ Kept(j) \/ Entered(j) \/ Taken(j) \/ GivenBack(j)
    \/ Finished(j) \/ Failed(j) \/ Deleted(j)

LEMMA RowMoves ==
    ASSUME TypeOK, [Next]_vars
    PROVE  \A j \in Jobs : RowMove(j)
<1> USE DEF TypeOK, Row
<1>1. ASSUME NEW j \in Jobs, Enqueue(j) PROVE \A k \in Jobs : RowMove(k)
  BY <1>1 DEF Enqueue, RowMove, Kept, Entered
<1>2. ASSUME NEW j \in Jobs, NEW a \in Actions, Claim(a, j)
      PROVE  \A k \in Jobs : RowMove(k)
  <2>1. Taken(j)
    BY <1>2 DEF Claim, NextJob, Claimable, Leased, Taken
  <2>2. \A k \in Jobs \ {j} : Kept(k)
    BY <1>2 DEF Claim, Kept
  <2> QED  BY <2>1, <2>2 DEF RowMove
<1>3. ASSUME NEW j \in Jobs, DropLastRecipient(j)
      PROVE  \A k \in Jobs : RowMove(k)
  BY <1>3 DEF DropLastRecipient, Closed, RowMove, Kept, Finished
<1>4. ASSUME NEW j \in Jobs, LeaseExpires(j) \/ BackoffEnds(j) \/ GoesQuiet(j)
      PROVE  \A k \in Jobs : RowMove(k)
  BY <1>4 DEF LeaseExpires, BackoffEnds, GoesQuiet, RowMove, Kept
<1>5. ASSUME NEW t \in tickets, Touch(t) PROVE \A k \in Jobs : RowMove(k)
  BY <1>5 DEF Touch, RowMove, Kept, Tickets
<1>6. ASSUME NEW t \in tickets, Answer(t) \/ Return(t)
      PROVE  \A k \in Jobs : RowMove(k)
  BY <1>6 DEF Answer, Return, queue, RowMove, Kept
<1>7. ASSUME NEW t \in tickets, MarkDone(t) PROVE \A k \in Jobs : RowMove(k)
  <2>1. t[1] \in Jobs /\ t = <<t[1], rows[t[1]].attempts>>
    BY <1>7 DEF MarkDone, Holds, Tickets
  <2>2. Finished(t[1])
    BY <1>7, <2>1 DEF MarkDone, Holds, Closed, Finished
  <2>3. \A k \in Jobs \ {t[1]} : Kept(k)
    BY <1>7 DEF MarkDone, Kept
  <2> QED  BY <2>1, <2>2, <2>3 DEF RowMove
<1>8. ASSUME NEW t \in tickets, NEW terminal \in BOOLEAN, FailOrRetry(t, terminal)
      PROVE  \A k \in Jobs : RowMove(k)
  <2>1. t[1] \in Jobs
    BY DEF Tickets
  <2>2. Failed(t[1]) \/ GivenBack(t[1])
    BY <1>8, <2>1 DEF FailOrRetry, Holds, Closed, Released, Failed, GivenBack
  <2>3. \A k \in Jobs \ {t[1]} : Kept(k)
    BY <1>8 DEF FailOrRetry, Kept
  <2> QED  BY <2>1, <2>2, <2>3 DEF RowMove
<1>9. CASE ReadInFlight \/ ReleaseStalled \/ Crash \/ UNCHANGED vars
  <2>1. rows' = rows
    BY <1>9 DEF ReadInFlight, ReleaseStalled, Crash, vars, queue
  <2> QED  BY <2>1 DEF RowMove, Kept
<1>10. CASE Reclaim \/ ForceReclaim
  <2>1. CASE Reclaim
    BY <2>1 DEF Reclaim, Expired, Released, RowMove, Kept, GivenBack
  <2>2. CASE ForceReclaim
    BY <2>2 DEF ForceReclaim, Released, RowMove, Kept, GivenBack
  <2> QED  BY <1>10, <2>1, <2>2
<1>11. CASE FailExhausted
  BY <1>11 DEF FailExhausted, Exhausted, Closed, RowMove, Kept, Failed
<1>12. CASE Heartbeat
  BY <1>12 DEF Heartbeat, RowMove, Kept
<1>13. ASSUME NEW old \in SUBSET Jobs, PurgeOld(old)
       PROVE  \A k \in Jobs : RowMove(k)
  BY <1>13 DEF PurgeOld, NoRow, RowMove, Kept, Deleted
<1> QED
  BY <1>1, <1>2, <1>3, <1>4, <1>5, <1>6, <1>7, <1>8, <1>9, <1>10, <1>11,
     <1>12, <1>13 DEF Next, RowNext, TicketNext

-----------------------------------------------------------------------------
(* Properties of every step. *)

\* A row is marked done only by the run that holds its current attempt and was
\* answered, or by the click that takes a channel row's last recipient.
THEOREM DoneOnlyByOwnRun == Spec => DoneByOwnRun
<1>1. ASSUME TypeOK, [Next]_vars
      PROVE  \A j \in Jobs :
                rows[j].status # "done" /\ rows'[j].status = "done"
                => Droppable(j) \/ <<j, rows[j].attempts>> \in answered
  BY <1>1, RowMoves DEF RowMove, Kept, Entered, Taken, GivenBack, Finished, Failed, Deleted
<1> QED  BY <1>1, TypeCorrect, PTL DEF Spec, DoneByOwnRun

\* No late write, click, reclaim or restart reopens a finished row or turns its
\* verdict; it can only be deleted.
THEOREM VerdictsAreFinal == Spec => SettledIsFinal
<1>1. ASSUME TypeOK, [Next]_vars
      PROVE  \A j \in Jobs :
                rows[j].status \in Settled
                => rows'[j].status \in {rows[j].status, "purged"}
  BY <1>1, RowMoves DEF RowMove, Kept, Entered, Taken, GivenBack, Finished, Failed,
                        Deleted, Settled
<1> QED  BY <1>1, TypeCorrect, PTL DEF Spec, SettledIsFinal

\* A lease that has not run out ends only with its own run's failure, a verdict,
\* or a restart.
THEOREM LiveLeasesAreKept == Spec => LiveLeaseKept
<1>1. ASSUME TypeOK, [Next]_vars
      PROVE  \A j \in Jobs :
                /\ rows[j].status = "leased" /\ rows[j].lease = "live"
                /\ rows'[j].status = "pending"
                => ~rows'[j].ready \/ tickets = {}
  BY <1>1, RowMoves DEF RowMove, Kept, Entered, Taken, GivenBack, Finished, Failed, Deleted
<1> QED  BY <1>1, TypeCorrect, PTL DEF Spec, LiveLeaseKept

-----------------------------------------------------------------------------
(* The invariants. *)

\* Two rows of one user and action are never leased together: claim() reads the
\* busy row in the transaction that leases, and only claim() leases.
LEMMA OneLeaseStep ==
    ASSUME TypeOK, OneLeasePerUser, [Next]_vars
    PROVE  OneLeasePerUser'
<1> SUFFICES ASSUME NEW j \in Jobs, NEW k \in Jobs, j # k,
                    JobUser[j] = JobUser[k], JobAction[j] = JobAction[k],
                    rows'[j].status = "leased", rows'[k].status = "leased"
             PROVE  FALSE
  BY DEF OneLeasePerUser
<1>1. /\ Kept(j) \/ Taken(j)
      /\ Kept(k) \/ Taken(k)
  BY RowMoves DEF RowMove, Entered, GivenBack, Finished, Failed, Deleted
<1>2. CASE Kept(j) /\ Kept(k)
  BY <1>2 DEF Kept, OneLeasePerUser
<1>3. CASE Taken(j)
  BY <1>3 DEF Taken, UserBusy
<1>4. CASE Taken(k)
  BY <1>4 DEF Taken, UserBusy
<1> QED  BY <1>1, <1>2, <1>3, <1>4

\* A run is numbered by the claim that starts it and the number never comes back:
\* attempts only grow, and a deleted row is not reused.
LEMMA FenceStep ==
    ASSUME TypeOK, TicketsFenced, [Next]_vars
    PROVE  TicketsFenced'
<1>1. ASSUME NEW j \in Jobs, rows'[j].status # "purged"
      PROVE  rows[j].status # "purged" /\ rows[j].attempts <= rows'[j].attempts
  <2>1. RowMove(j)
    BY RowMoves
  <2>2. rows[j].attempts \in Nat
    BY DEF TypeOK, Row
  <2>3. rows[j].attempts <= rows'[j].attempts
    BY <1>1, <2>1, <2>2 DEF RowMove, Kept, Entered, Taken, GivenBack, Finished,
                            Failed, Deleted
  <2>4. rows[j].status # "purged"
    BY <1>1, <2>1 DEF RowMove, Kept, Entered, Taken, GivenBack, Finished, Failed, Deleted
  <2> QED  BY <2>3, <2>4
<1>2. \A t \in tickets : t[1] \in Jobs /\ t[2] \in Nat
  BY OutboxAssumption DEF OutboxAssumption, TypeOK, Tickets
<1>3. \A j \in Jobs : rows[j].attempts \in Nat /\ rows'[j].attempts \in Nat
  BY TypeStep DEF TypeOK, Row
<1>4. CASE tickets' \subseteq tickets
  BY <1>1, <1>2, <1>3, <1>4 DEF TicketsFenced
<1>5. ASSUME NEW j \in Jobs, NEW a \in Actions, Claim(a, j)
      PROVE  TicketsFenced'
  <2>1. rows'[j].attempts = rows[j].attempts + 1
    BY <1>5 DEF Claim, Leased, TypeOK, Row
  <2>2. tickets' = tickets \cup {<<j, rows[j].attempts + 1>>}
    BY <1>5 DEF Claim
  <2> QED  BY <1>1, <1>2, <1>3, <2>1, <2>2 DEF TicketsFenced
<1>6. \/ tickets' \subseteq tickets
      \/ \E j \in Jobs, a \in Actions : Claim(a, j)
  BY DEF Next, RowNext, TicketNext, vars, queue, Enqueue, DropLastRecipient,
         LeaseExpires, BackoffEnds, GoesQuiet, Touch, Answer, MarkDone,
         FailOrRetry, Return, ReadInFlight, Reclaim, ForceReclaim,
         FailExhausted, ReleaseStalled, Heartbeat, PurgeOld, Crash
<1> QED  BY <1>4, <1>5, <1>6

\* The inductive invariant: both facts, and the types they are stated over.
IInv == TypeOK /\ OneLeasePerUser /\ TicketsFenced

THEOREM Invariance == Spec => []IInv
<1>1. Init => IInv
  <2>1. Init => TypeOK
    BY OutboxAssumption DEF OutboxAssumption, Init, TypeOK, NoRow, Row, Statuses
  <2>2. Init => OneLeasePerUser /\ TicketsFenced
    BY DEF Init, NoRow, OneLeasePerUser, TicketsFenced
  <2> QED  BY <2>1, <2>2 DEF IInv
<1>2. IInv /\ [Next]_vars => IInv'
  BY TypeStep, OneLeaseStep, FenceStep DEF IInv
<1> QED  BY <1>1, <1>2, PTL DEF Spec

\* What a ticket says.
LEMMA TicketOfRow ==
    ASSUME TypeOK, NEW t \in tickets
    PROVE  /\ t \in Tickets /\ t[1] \in Jobs /\ t[2] \in 1..MaxAttempts
           /\ t = <<t[1], t[2]>>
BY DEF TypeOK, Tickets

\* No run gets a row back that it lost.
LEMMA StillHeld ==
    ASSUME TypeOK, TicketsFenced, [Next]_vars, NEW t \in tickets, Holds(t)'
    PROVE  Holds(t)
<1>1. t[1] \in Jobs /\ t[2] \in Nat
  BY TicketOfRow
<1>2. RowMove(t[1])
  BY <1>1, RowMoves
<1>3. ~Taken(t[1])
  BY <1>1 DEF Holds, Taken, TicketsFenced, TypeOK, Row
<1> QED
  BY <1>2, <1>3 DEF RowMove, Holds, Kept, Entered, GivenBack, Finished, Failed, Deleted

\* A row that is not there yet was not there before.
LEMMA AbsentBefore ==
    ASSUME TypeOK, [Next]_vars, NEW j \in Jobs, rows'[j].status = "absent"
    PROVE  rows[j].status = "absent" /\ rows'[j].attempts = rows[j].attempts
BY RowMoves DEF RowMove, Kept, Entered, Taken, GivenBack, Finished, Failed, Deleted

\* One user never holds two workers of a pool, for any number of rows.
THEOREM OneWorkerPerUser == Spec => []OneLeasePerUser
BY Invariance, PTL DEF IInv

\* A stuck worker's attempts are never those of a later claim, so its late
\* mark_done() and fail_or_retry() cannot touch the retry.
THEOREM RunsAreFenced == Spec => []TicketsFenced
BY Invariance, PTL DEF IInv

-----------------------------------------------------------------------------
(***************************************************************************)
(* The table keeps JobQueue's promise.  phases and counts are the state    *)
(* functions the refinement mapping substitutes for phase and tries.       *)
(***************************************************************************)
phases == [j \in Jobs |-> Phase(rows[j])]
counts == [j \in Jobs |-> rows[j].attempts]

\* A step on one row changes one phase and one count.
LEMMA OneRowChanges ==
    ASSUME NEW j \in Jobs, \A k \in Jobs \ {j} : rows'[k] = rows[k]
    PROVE  /\ phases' = [phases EXCEPT ![j] = Phase(rows'[j])]
           /\ counts' = [counts EXCEPT ![j] = rows'[j].attempts]
  BY DEF phases, counts, Phase

LEMMA RefinementStep ==
    ASSUME TypeOK, [Next]_vars
    PROVE  [Promise!Next]_(Promise!vars)
<1> DEFINE Same == phases' = phases /\ counts' = counts
<1>0. Same => UNCHANGED Promise!vars
  BY DEF Promise!vars, phases, counts
<1>1. ASSUME NEW j \in Jobs, Enqueue(j) PROVE Promise!Submit(j)
  <2>1. rows[j].status = "absent" /\ rows'[j].status = "pending"
        /\ rows'[j].attempts = rows[j].attempts
        /\ \A k \in Jobs \ {j} : rows'[k] = rows[k]
    BY <1>1 DEF Enqueue, TypeOK, Row
  <2>2. phases' = [phases EXCEPT ![j] = "waiting"] /\ counts' = counts
    BY <2>1, OneRowChanges DEF Phase, counts
  <2> QED  BY <2>1, <2>2 DEF Promise!Submit, phases, counts, Phase
<1>2. ASSUME NEW j \in Jobs, NEW a \in Actions, Claim(a, j) PROVE Promise!Start(j)
  <2>1. /\ rows[j].status = "pending" /\ rows[j].attempts < MaxAttempts /\ ~UserBusy(j)
        /\ rows'[j].status = "leased" /\ rows'[j].attempts = rows[j].attempts + 1
        /\ \A k \in Jobs \ {j} : rows'[k] = rows[k]
    BY <1>2 DEF Claim, NextJob, Claimable, Leased, TypeOK, Row
  <2>2. /\ phases' = [phases EXCEPT ![j] = "running"]
        /\ counts' = [counts EXCEPT ![j] = @ + 1]
    BY <2>1, OneRowChanges DEF Phase, counts
  <2>3. \A k \in Jobs :
           JobUser[k] = JobUser[j] /\ JobAction[k] = JobAction[j]
           => Phase(rows[k]) # "running"
    BY <2>1 DEF UserBusy, Phase, TypeOK, Row, Statuses
  <2> QED  BY <2>1, <2>2, <2>3 DEF Promise!Start, phases, counts, Phase
<1>3. ASSUME NEW j \in Jobs, DropLastRecipient(j) PROVE Promise!Withdraw(j)
  <2>1. /\ Droppable(j) /\ rows[j].status \in {"pending", "leased"}
        /\ rows'[j].status = "done" /\ rows'[j].attempts = rows[j].attempts
        /\ \A k \in Jobs \ {j} : rows'[k] = rows[k]
    BY <1>3 DEF DropLastRecipient, Closed, TypeOK, Row
  <2>2. phases' = [phases EXCEPT ![j] = "done"] /\ counts' = counts
    BY <2>1, OneRowChanges DEF Phase, counts
  <2> QED  BY <2>1, <2>2 DEF Promise!Withdraw, phases, counts, Phase
<1>4. ASSUME NEW j \in Jobs, LeaseExpires(j) \/ BackoffEnds(j) \/ GoesQuiet(j)
      PROVE  Same
  <2>1. \A k \in Jobs : rows'[k].status = rows[k].status
                       /\ rows'[k].attempts = rows[k].attempts
    BY <1>4 DEF LeaseExpires, BackoffEnds, GoesQuiet, TypeOK, Row
  <2> QED  BY <2>1 DEF phases, counts, Phase
<1>5. ASSUME NEW t \in tickets, Touch(t) PROVE Same
  <2>1. \A k \in Jobs : rows'[k].status = rows[k].status
                       /\ rows'[k].attempts = rows[k].attempts
    BY <1>5 DEF Touch, TypeOK, Row, Tickets
  <2> QED  BY <2>1 DEF phases, counts, Phase
<1>6. ASSUME NEW t \in tickets, MarkDone(t) PROVE Promise!End(t[1], "done")
  <2>1. /\ t[1] \in Jobs /\ rows[t[1]].status = "leased"
        /\ rows'[t[1]].status = "done" /\ rows'[t[1]].attempts = rows[t[1]].attempts
        /\ \A k \in Jobs \ {t[1]} : rows'[k] = rows[k]
    BY <1>6 DEF MarkDone, Holds, Closed, TypeOK, Row, Tickets
  <2>2. phases' = [phases EXCEPT ![t[1]] = "done"] /\ counts' = counts
    BY <2>1, OneRowChanges DEF Phase, counts
  <2> QED  BY <2>1, <2>2 DEF Promise!End, phases, counts, Phase
<1>7. ASSUME NEW t \in tickets, NEW terminal \in BOOLEAN, FailOrRetry(t, terminal)
      PROVE  Promise!End(t[1], "failed") \/ Promise!GiveBack({t[1]})
  <2>1. /\ t[1] \in Jobs /\ rows[t[1]].status = "leased"
        /\ rows'[t[1]].status \in {"failed", "pending"}
        /\ rows'[t[1]].attempts = rows[t[1]].attempts
        /\ \A k \in Jobs \ {t[1]} : rows'[k] = rows[k]
    BY <1>7 DEF FailOrRetry, Holds, Closed, Released, TypeOK, Row, Tickets
  <2>2. counts' = counts
    BY <2>1, OneRowChanges DEF counts
  <2>3. CASE rows'[t[1]].status = "failed"
    <3>1. phases' = [phases EXCEPT ![t[1]] = "failed"]
      BY <2>1, <2>3, OneRowChanges DEF Phase
    <3> QED  BY <2>1, <2>2, <3>1 DEF Promise!End, phases, counts, Phase
  <2>4. CASE rows'[t[1]].status = "pending"
    <3>1. phases' = [phases EXCEPT ![t[1]] = "waiting"]
      BY <2>1, <2>4, OneRowChanges DEF Phase
    <3> QED  BY <2>1, <2>2, <3>1 DEF Promise!GiveBack, phases, counts, Phase
  <2> QED  BY <2>1, <2>3, <2>4
<1>8. ASSUME Reclaim \/ ForceReclaim
      PROVE  \E S \in SUBSET Jobs : Promise!GiveBack(S)
  <2> DEFINE S == {j \in Jobs : rows'[j].status # rows[j].status}
  <2>1. /\ \A j \in S : rows[j].status = "leased" /\ rows'[j].status = "pending"
        /\ \A j \in Jobs : rows'[j].attempts = rows[j].attempts
    <3>1. CASE Reclaim
      BY <3>1 DEF Reclaim, Expired, Released, TypeOK, Row
    <3>2. CASE ForceReclaim
      BY <3>2 DEF ForceReclaim, Released, TypeOK, Row
    <3> QED  BY <1>8, <3>1, <3>2
  <2>2. counts' = counts
    BY <2>1 DEF counts
  <2>3. phases' = [j \in Jobs |-> IF j \in S THEN "waiting" ELSE phases[j]]
    BY <2>1 DEF phases, Phase
  <2>4. Promise!GiveBack(S)
    BY <2>1, <2>2, <2>3 DEF Promise!GiveBack, phases, counts, Phase
  <2> QED  BY <2>4
<1>9. ASSUME FailExhausted PROVE \E S \in SUBSET Jobs : Promise!GiveUp(S)
  <2> DEFINE S == {j \in Jobs : rows'[j].status # rows[j].status}
  <2>1. /\ \A j \in S : /\ rows[j].status \in {"pending", "leased"}
                        /\ rows[j].attempts >= MaxAttempts
                        /\ rows'[j].status = "failed"
        /\ \A j \in Jobs : rows'[j].attempts = rows[j].attempts
    BY <1>9 DEF FailExhausted, Exhausted, Closed, TypeOK, Row
  <2>2. \A j \in S : rows[j].attempts = MaxAttempts
    BY <2>1, OutboxAssumption DEF OutboxAssumption, TypeOK, Row
  <2>3. counts' = counts
    BY <2>1 DEF counts
  <2>4. phases' = [j \in Jobs |-> IF j \in S THEN "failed" ELSE phases[j]]
    BY <2>1 DEF phases, Phase
  <2>5. Promise!GiveUp(S)
    BY <2>1, <2>2, <2>3, <2>4 DEF Promise!GiveUp, phases, counts, Phase
  <2> QED  BY <2>5
<1>10. ASSUME Heartbeat PROVE Same
  <2>1. \A k \in Jobs : rows'[k].status = rows[k].status
                       /\ rows'[k].attempts = rows[k].attempts
    BY <1>10 DEF Heartbeat, TypeOK, Row
  <2> QED  BY <2>1 DEF phases, counts, Phase
<1>11. ASSUME NEW old \in SUBSET Jobs, PurgeOld(old) PROVE Promise!Forget(old)
  <2>1. /\ \A j \in old : /\ rows[j].status \in Settled
                          /\ rows'[j].status = "purged" /\ rows'[j].attempts = 0
        /\ \A j \in Jobs \ old : rows'[j] = rows[j]
    BY <1>11 DEF PurgeOld, NoRow
  <2>2. /\ phases' = [j \in Jobs |-> IF j \in old THEN "purged" ELSE phases[j]]
        /\ counts' = [j \in Jobs |-> IF j \in old THEN 0 ELSE counts[j]]
    BY <2>1 DEF phases, counts, Phase
  <2> QED  BY <2>1, <2>2 DEF Promise!Forget, phases, counts, Phase, Settled
<1>12. ASSUME rows' = rows PROVE Same
  BY <1>12 DEF phases, counts, Phase
<1>13. \/ \E j \in Jobs : \/ Promise!Submit(j) \/ Promise!Start(j)
                         \/ Promise!Withdraw(j)
                         \/ \E v \in {"done", "failed"} : Promise!End(j, v)
       \/ \E S \in SUBSET Jobs :
             Promise!GiveBack(S) \/ Promise!GiveUp(S) \/ Promise!Forget(S)
       \/ Same
  <2>1. \A t \in tickets : t[1] \in Jobs
    BY DEF TypeOK, Tickets
  <2>2. ReadInFlight \/ ReleaseStalled \/ Crash \/ UNCHANGED vars => rows' = rows
    BY DEF ReadInFlight, ReleaseStalled, Crash, vars, queue
  <2>3. \A t \in tickets : Answer(t) \/ Return(t) => rows' = rows
    BY DEF Answer, Return, queue
  <2> QED
    BY <2>1, <2>2, <2>3, <1>1, <1>2, <1>3, <1>4, <1>5, <1>6, <1>7, <1>8, <1>9,
       <1>10, <1>11, <1>12 DEF Next, RowNext, TicketNext
<1> QED  BY <1>0, <1>13 DEF Promise!Next

\* The outbox keeps its promise: whatever leases, retries, stalls and restarts
\* do, callers see jobs that run one per user and action, at most MAX_ATTEMPTS
\* times, and end once.
THEOREM OutboxImplementsJobQueue == Spec => ImplementsJobQueue
<1>1. Init => Promise!Init
  BY DEF Init, NoRow, Promise!Init, Phase
<1> QED
  BY <1>1, RefinementStep, TypeCorrect, PTL DEF Spec, ImplementsJobQueue, Promise!Spec
=============================================================================
