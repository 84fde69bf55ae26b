------------------------------- MODULE Outbox -------------------------------
(***************************************************************************)
(* The durable send queue of app/core/sender/outbox.py: the send_outbox    *)
(* table, the process's in-flight set, and the runs ("tickets") the queue  *)
(* has handed to worker threads.  One action per function; each database   *)
(* transaction is BEGIN IMMEDIATE, hence one atomic step.  What workers do *)
(* with a ticket is left open here: RecordBalancer adds the threads.       *)
(*                                                                         *)
(* Time is abstracted to what the code compares: a lease is live or        *)
(* expired, a pending row is ready or backing off, an in-flight job is     *)
(* fresh or quiet (no touch for STALL_SECONDS).                            *)
(***************************************************************************)
EXTENDS Naturals

CONSTANTS
    Jobs,         \* row ids, in order of insertion
    Users,        \* values of user_id
    ChannelUsers, \* those that start with "c": a podcast channel, not a person
    JobUser,      \* user_id of each row
    JobAction,    \* action of each row
    MaxAttempts   \* MAX_ATTEMPTS

\* Outbox.ACTIONS
Actions == {"rec", "circle", "update"}

ASSUME OutboxAssumption ==
    /\ Jobs \subseteq Nat /\ ChannelUsers \subseteq Users
    /\ JobUser \in [Jobs -> Users]
    /\ JobAction \in [Jobs -> Actions]
    /\ MaxAttempts \in Nat \ {0}

VARIABLES
    rows,         \* the send_outbox table
    inFlight,     \* _in_flight: which ids this process holds, and their progress
    tickets,      \* <<id, attempts>> of every run a worker thread still has
    answered,     \* the tickets whose send got Telegram's ACK or a terminal answer
    seen          \* in-flight ids read before reclaim's / fail_exhausted's transaction

queue == <<rows, inFlight>>
vars == <<rows, inFlight, tickets, answered, seen>>

Tickets == Jobs \X (1..MaxAttempts)
Statuses == {"absent", "pending", "leased", "done", "failed", "purged"}
Row == [status : Statuses, attempts : 0..MaxAttempts,
        lease : {"none", "live", "expired"}, ready : BOOLEAN]

NoRow == [status |-> "absent", attempts |-> 0, lease |-> "none", ready |-> FALSE]

Settled == {"done", "failed"}
InFlightIds == {j \in Jobs : inFlight[j] # "no"}
QuietIds == {j \in Jobs : inFlight[j] = "quiet"}

-----------------------------------------------------------------------------
(* What the SQL conditions say of one row. *)

\* Mutant: a row whose lease ran out no longer keeps its user busy.
UserBusyLive(j) ==
    \E k \in Jobs : /\ rows[k].status = "leased" /\ rows[k].lease = "live"
                    /\ JobUser[k] = JobUser[j]
                    /\ JobAction[k] = JobAction[j]

\* claim()'s NOT EXISTS: the row's user has a leased row of the same action.
UserBusy(j) ==
    \E k \in Jobs : /\ rows[k].status = "leased"
                    /\ JobUser[k] = JobUser[j]
                    /\ JobAction[k] = JobAction[j]

\* Mutant: claim() does not look at the attempts already used.
ClaimableForEver(j) == rows[j].status = "pending" /\ rows[j].ready /\ ~UserBusy(j)

Claimable(j) ==
    /\ rows[j].status = "pending"
    /\ rows[j].ready
    /\ rows[j].attempts < MaxAttempts
    /\ ~UserBusy(j)

\* _CIRCLE_ROW: clicks were once queued for channels too (legacy "c*" rec rows).
CircleRow(j) == JobAction[j] = "circle" \/ JobUser[j] \in ChannelUsers

\* ORDER BY: clicks first and newest first, then circle rows oldest first.
Before(j, k) ==
    \/ ~CircleRow(j) /\ (CircleRow(k) \/ k < j)
    \/ CircleRow(j) /\ CircleRow(k) /\ j < k

NextJob(a, j) ==
    /\ Claimable(j) /\ JobAction[j] = a
    /\ \A k \in Jobs \ {j} : Claimable(k) /\ JobAction[k] = a => Before(j, k)

\* drop_circle_recipient()'s WHERE.
Droppable(j) == JobAction[j] \in {"circle", "rec"} /\ JobUser[j] \in ChannelUsers

\* Mutant: the writes of a worker are not fenced by its attempts.
HoldsAnyAttempt(t) == rows[t[1]].status = "leased"

\* "status = 'leased' AND attempts = ?": the row is still this run's.
Holds(t) == rows[t[1]].status = "leased" /\ rows[t[1]].attempts = t[2]

\* Mutant: reclaim() takes every lease, as on process start.
ExpiredOrNot(j) == rows[j].status = "leased"

Expired(j) == rows[j].status = "leased" /\ rows[j].lease = "expired"

\* Mutants: one attempt too early; one too late.
ExhaustedEarly(j) ==
    rows[j].status \in {"pending", "leased"} /\ rows[j].attempts + 1 >= MaxAttempts
ExhaustedLate(j) ==
    rows[j].status \in {"pending", "leased"} /\ rows[j].attempts > MaxAttempts

Exhausted(j) ==
    rows[j].status \in {"pending", "leased"} /\ rows[j].attempts >= MaxAttempts

Leased(r) == [r EXCEPT !.status = "leased", !.attempts = @ + 1, !.lease = "live"]
Released(r) == [r EXCEPT !.status = "pending", !.lease = "none"]
Closed(r, status) == [r EXCEPT !.status = status, !.lease = "none"]

-----------------------------------------------------------------------------
(* The functions of outbox.py. *)

\* Row ids grow, so rows are inserted in the order of Jobs.
Enqueue(j) ==
    /\ rows[j].status = "absent"
    /\ \A k \in Jobs : k < j => rows[k].status # "absent"
    /\ rows' = [rows EXCEPT ![j].status = "pending", ![j].ready = TRUE]
    /\ UNCHANGED <<inFlight, tickets, answered, seen>>

Claim(a, j) ==
    /\ NextJob(a, j)
    /\ rows' = [rows EXCEPT ![j] = Leased(@)]
    /\ inFlight' = [inFlight EXCEPT ![j] = "fresh"]
    /\ tickets' = tickets \cup {<<j, rows[j].attempts + 1>>}
    /\ UNCHANGED <<answered, seen>>

\* A no-op on a row that is no longer this run's, as the next two are.
Touch(t) ==
    /\ t \in tickets /\ Holds(t)
    /\ rows' = [rows EXCEPT ![t[1]].lease = "live"]
    /\ inFlight' = [inFlight EXCEPT ![t[1]] = "fresh"]
    /\ UNCHANGED <<tickets, answered, seen>>

MarkDone(t) ==
    /\ t \in answered /\ Holds(t)
    /\ rows' = [rows EXCEPT ![t[1]] = Closed(@, "done")]
    /\ inFlight' = [inFlight EXCEPT ![t[1]] = "no"]
    /\ UNCHANGED <<tickets, answered, seen>>

\* `terminal`: the error says the audio source is gone (_is_terminal_rec_error).
FailOrRetry(t, terminal) ==
    /\ t \in tickets /\ Holds(t)
    /\ rows' = [rows EXCEPT ![t[1]] =
                   IF rows[t[1]].attempts >= MaxAttempts \/ terminal
                   THEN Closed(@, "failed")
                   ELSE [Released(@) EXCEPT !.ready = FALSE]]
    /\ inFlight' = [inFlight EXCEPT ![t[1]] = "no"]
    /\ UNCHANGED <<tickets, answered, seen>>

\* drop_circle_recipient() taking the last chat off a circle row.  Taking any
\* other chat leaves what this module keeps of the row unchanged.
DropLastRecipient(j) ==
    /\ Droppable(j)
    /\ rows[j].status \in {"pending", "leased"}
    /\ rows' = [rows EXCEPT ![j] = Closed(@, "done")]
    /\ inFlight' = [inFlight EXCEPT ![j] = "no"]
    /\ UNCHANGED <<tickets, answered, seen>>

\* reclaim() and fail_exhausted() read the in-flight ids before BEGIN IMMEDIATE;
\* the snapshot is gone with the call.
ReadInFlight ==
    /\ seen' = InFlightIds
    /\ UNCHANGED <<queue, tickets, answered>>

\* Mutant: reclaim() trusts the lease alone, without the in-flight belt.
ReclaimWithoutBelt ==
    /\ rows' = [j \in Jobs |-> IF Expired(j) THEN Released(rows[j]) ELSE rows[j]]
    /\ seen' = {}
    /\ UNCHANGED <<inFlight, tickets, answered>>

Reclaim ==
    /\ rows' = [j \in Jobs |-> IF Expired(j) /\ j \notin seen
                               THEN Released(rows[j]) ELSE rows[j]]
    /\ seen' = {}
    /\ UNCHANGED <<inFlight, tickets, answered>>

\* reclaim(force=True): only on process start, before any claim of this process.
ForceReclaim ==
    /\ tickets = {}
    /\ rows' = [j \in Jobs |-> IF rows[j].status = "leased"
                               THEN Released(rows[j]) ELSE rows[j]]
    /\ UNCHANGED <<inFlight, tickets, answered, seen>>

FailExhausted ==
    /\ rows' = [j \in Jobs |-> IF Exhausted(j) /\ j \notin seen
                               THEN Closed(rows[j], "failed") ELSE rows[j]]
    /\ seen' = {}
    /\ UNCHANGED <<inFlight, tickets, answered>>

ReleaseStalled ==
    /\ QuietIds # {}
    /\ inFlight' = [j \in Jobs |-> IF j \in QuietIds THEN "no" ELSE inFlight[j]]
    /\ UNCHANGED <<rows, tickets, answered, seen>>

\* heartbeat() releases what stalled meanwhile, then renews the rest.
Heartbeat ==
    /\ inFlight' = [j \in Jobs |-> IF j \in QuietIds THEN "no" ELSE inFlight[j]]
    /\ rows' = [j \in Jobs |->
                  IF inFlight[j] = "fresh" /\ rows[j].status = "leased"
                  THEN [rows[j] EXCEPT !.lease = "live"] ELSE rows[j]]
    /\ UNCHANGED <<tickets, answered, seen>>

PurgeOld(old) ==
    /\ old # {} /\ \A j \in old : rows[j].status \in Settled
    /\ rows' = [j \in Jobs |-> IF j \in old
                               THEN [NoRow EXCEPT !.status = "purged"] ELSE rows[j]]
    /\ UNCHANGED <<inFlight, tickets, answered, seen>>

-----------------------------------------------------------------------------
(* The worker's side of a ticket, time, and the death of the process. *)

Answer(t) ==
    /\ t \in tickets \ answered
    /\ answered' = answered \cup {t}
    /\ UNCHANGED <<queue, tickets, seen>>

\* The thread is through with the job.  The row is normally settled or retried
\* by then; it is still leased if both of process_input()'s writes raised.
Return(t) ==
    /\ t \in tickets
    /\ tickets' = tickets \ {t}
    /\ answered' = answered \ {t}
    /\ UNCHANGED <<queue, seen>>

LeaseExpires(j) ==
    /\ rows[j].status = "leased" /\ rows[j].lease = "live"
    /\ rows' = [rows EXCEPT ![j].lease = "expired"]
    /\ UNCHANGED <<inFlight, tickets, answered, seen>>

BackoffEnds(j) ==
    /\ rows[j].status = "pending" /\ ~rows[j].ready
    /\ rows' = [rows EXCEPT ![j].ready = TRUE]
    /\ UNCHANGED <<inFlight, tickets, answered, seen>>

GoesQuiet(j) ==
    /\ inFlight[j] = "fresh"
    /\ inFlight' = [inFlight EXCEPT ![j] = "quiet"]
    /\ UNCHANGED <<rows, tickets, answered, seen>>

Crash ==
    /\ inFlight' = [j \in Jobs |-> "no"]
    /\ tickets' = {} /\ answered' = {} /\ seen' = {}
    /\ UNCHANGED rows

-----------------------------------------------------------------------------

Init ==
    /\ rows = [j \in Jobs |-> NoRow]
    /\ inFlight = [j \in Jobs |-> "no"]
    /\ tickets = {} /\ answered = {} /\ seen = {}

RowNext(j) ==
    \/ Enqueue(j)
    \/ \E a \in Actions : Claim(a, j)
    \/ DropLastRecipient(j)
    \/ LeaseExpires(j) \/ BackoffEnds(j) \/ GoesQuiet(j)

TicketNext(t) ==
    \/ Touch(t) \/ Answer(t) \/ MarkDone(t)
    \/ \E terminal \in BOOLEAN : FailOrRetry(t, terminal)
    \/ Return(t)

Next ==
    \/ \E j \in Jobs : RowNext(j)
    \/ \E t \in tickets : TicketNext(t)
    \/ ReadInFlight \/ Reclaim \/ ForceReclaim \/ FailExhausted
    \/ ReleaseStalled \/ Heartbeat
    \/ \E old \in SUBSET Jobs : PurgeOld(old)
    \/ Crash

Spec == Init /\ [][Next]_vars

-----------------------------------------------------------------------------
(* Properties. *)

TypeOK ==
    /\ rows \in [Jobs -> Row]
    /\ inFlight \in [Jobs -> {"no", "fresh", "quiet"}]
    /\ tickets \subseteq Tickets
    /\ answered \subseteq tickets
    /\ seen \subseteq Jobs

\* "One user occupies at most one worker per action": whatever the order of
\* claims, reclaims, retries and restarts, two leased rows never share a user
\* and an action.
OneLeasePerUser ==
    \A j, k \in Jobs :
        /\ rows[j].status = "leased" /\ rows[k].status = "leased"
        /\ JobUser[j] = JobUser[k] /\ JobAction[j] = JobAction[k]
        => j = k

\* Every run still out was numbered by a claim of its row: no ticket is ahead of
\* the row's attempts, so the next claim's number is new to every worker.
TicketsFenced ==
    \A t \in tickets :
        rows[t[1]].status # "purged" => t[2] <= rows[t[1]].attempts

\* "done is Telegram ACK": a row turns done only by the run that holds its
\* current attempt, after that very run was answered (or, for a channel's row,
\* because its last recipient was taken off by a click).  A stuck worker that
\* wakes up after its row was retried cannot close the retry.
DoneByOwnRun ==
    [][\A j \in Jobs :
          rows[j].status # "done" /\ rows'[j].status = "done"
          => Droppable(j) \/ <<j, rows[j].attempts>> \in answered]_vars

\* A finished row is final: late marks, retries, reclaims and clicks never
\* reopen it or change its verdict; purge_old() only deletes it.
SettledIsFinal ==
    [][\A j \in Jobs :
          rows[j].status \in Settled
          => rows'[j].status \in {rows[j].status, "purged"}]_vars

\* A lease in the future is never taken back: such a row is pending again only
\* with a back-off, which its own worker's failure sets, or after a restart.
LiveLeaseKept ==
    [][\A j \in Jobs :
          /\ rows[j].status = "leased" /\ rows[j].lease = "live"
          /\ rows'[j].status = "pending"
          => ~rows'[j].ready \/ tickets = {}]_vars

-----------------------------------------------------------------------------
(* What the table promises its callers. *)

Phase(r) == CASE r.status = "absent" -> "new"
              [] r.status = "pending" -> "waiting"
              [] r.status = "leased" -> "running"
              [] OTHER -> r.status

Promise == INSTANCE JobQueue WITH
    Key <- [j \in Jobs |-> <<JobUser[j], JobAction[j]>>],
    Withdrawable <- {j \in Jobs : Droppable(j)},
    MaxTries <- MaxAttempts,
    phase <- [j \in Jobs |-> Phase(rows[j])],
    tries <- [j \in Jobs |-> rows[j].attempts]

\* The table implements JobQueue.
ImplementsJobQueue == Promise!Spec
=============================================================================
