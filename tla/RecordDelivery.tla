--------------------------- MODULE RecordDelivery ---------------------------
(***************************************************************************)
(* How one run of a circle row reaches its chats: Sender.send_record() of  *)
(* app/core/sender/send_record_helper.py on the payload the row had when   *)
(* it was claimed, process_input() around it, and the clicks that take     *)
(* chats off the same payload meanwhile.  The row's own life is Outbox's.  *)
(*                                                                         *)
(* A send attempt is abstracted to its outcome, and the URL, Bot API and   *)
(* agent transports to passes over the chats not reached yet.              *)
(***************************************************************************)
EXTENDS Outbox

CONSTANTS
    Chats,
    Recipients,   \* chat_ids of each row when it is enqueued
    Billed,       \* based_on_user_id of a connected channel, else the chat itself
    Quota,        \* notify_count of each billed chat's tariff
    MaxPasses,    \* bound: transports tried in one run
    Faults,       \* which of "flood", "stall", "crash", "sqlite" may happen
    MaxFaults     \* bound: how many of them, in all

Kinds == {"flood", "stall", "crash", "sqlite"}

ASSUME DeliveryAssumption ==
    /\ Recipients \in [Jobs -> SUBSET Chats]
    /\ Billed \in [Chats -> Chats] /\ Quota \in [Chats -> Nat]
    /\ MaxPasses \in Nat \ {0} /\ Faults \subseteq Kinds /\ MaxFaults \in Nat

VARIABLES
    payload,      \* func_params.chat_ids of each row
    runs,         \* the Sender object of each ticket
    got,          \* per row and chat: copies Telegram accepted (2: more than one)
    charged,      \* per row and chat: notifications taken for it (2: more than one)
    left,         \* notify_count
    notices,      \* limit notices sent to a billed chat
    told,         \* row and chat pairs that heard why there is no audio
    blockedBy,    \* row and chat pairs that blocked the bot
    clicked,      \* row and chat pairs whose user asked for the episode
    happened      \* which faults have happened, and how often

ledger == <<charged, left, notices>>
fates == <<got, told, blockedBy, clicked>>
own == <<payload, runs, ledger, fates, happened>>
deliveryVars == <<vars, own>>

Pairs == Jobs \X Chats
Steps == {"none", "pass", "send", "sync", "charge", "close", "tell", "second",
          "broken", "raised", "ended"}

Sender == [at : Steps, chats : SUBSET Chats, todo : SUBSET Chats, loop : SUBSET Chats,
           sent : SUBSET Chats, blocked : SUBSET Chats,
           final : BOOLEAN, pass : 0..MaxPasses]

NewSender(at, chats) ==
    [at |-> at, chats |-> chats, todo |-> {}, loop |-> {}, sent |-> {}, blocked |-> {},
     final |-> FALSE, pass |-> 0]

NoSender == NewSender("none", {})

More(n) == IF n < 2 THEN n + 1 ELSE n

Happened == {k \in Kinds : happened[k] > 0}
Total == happened["flood"] + happened["stall"] + happened["crash"] + happened["sqlite"]

Fault(kind) ==
    /\ kind \in Faults /\ Total < MaxFaults
    /\ happened' = [happened EXCEPT ![kind] = @ + 1]

At(t, step) == t \in tickets /\ runs[t].at = step
Set(t, sender) == runs' = [runs EXCEPT ![t] = sender]

-----------------------------------------------------------------------------
(* What the Sender asks of itself. *)

\* _remaining_chats()
Remaining(r) == r.chats \ (r.sent \cup r.blocked)

\* _outbox_job_complete(): `final` is __too_big_notice or __record_gone.
Complete(t) ==
    \/ runs[t].final
    \/ t[2] >= MaxAttempts
    \/ Remaining(runs[t]) = {}

\* _touch_outbox() writes at most once in 15 s, and only on a row still held.
MayTouch(t) == Touch(t) \/ UNCHANGED vars

-----------------------------------------------------------------------------
(* The row and its payload. *)

Submit(j) ==
    /\ Enqueue(j)
    /\ payload' = [payload EXCEPT ![j] = Recipients[j]]
    /\ UNCHANGED <<runs, ledger, fates, happened>>

\* claim() reads the payload in the transaction that leases the row.
StartRun(j) ==
    /\ \E a \in Actions : Claim(a, j)
    /\ Set(<<j, rows[j].attempts + 1>>, NewSender("pass", payload[j]))
    /\ UNCHANGED <<payload, ledger, fates, happened>>

\* Mutant: the click closes the circle row whatever its status.
ClickAnyRow(j, c) ==
    /\ Billed[c] = c
    /\ <<j, c>> \notin clicked /\ rows[j].status # "absent"
    /\ clicked' = clicked \cup {<<j, c>>}
    /\ payload' = [payload EXCEPT ![j] = @ \ {c}]
    /\ IF payload[j] = {c}
       THEN /\ rows' = [rows EXCEPT ![j] = Closed(@, "done")]
            /\ inFlight' = [inFlight EXCEPT ![j] = "no"]
            /\ UNCHANGED <<tickets, answered, seen>>
       ELSE UNCHANGED vars
    /\ UNCHANGED <<runs, ledger, got, told, blockedBy, happened>>

\* enqueue_user_rec(): drop_circle_recipient(), then a row of the user's own,
\* which is not followed here.
Click(j, c) ==
    /\ Billed[c] = c   \* channels have no clicks: the bot ignores their buttons
    /\ <<j, c>> \notin clicked /\ rows[j].status # "absent"
    /\ clicked' = clicked \cup {<<j, c>>}
    /\ IF Droppable(j) /\ rows[j].status \in {"pending", "leased"} /\ c \in payload[j]
       THEN /\ payload' = [payload EXCEPT ![j] = @ \ {c}]
            /\ IF payload[j] = {c} THEN DropLastRecipient(j) ELSE UNCHANGED vars
       ELSE UNCHANGED <<payload, vars>>
    /\ UNCHANGED <<runs, ledger, got, told, blockedBy, happened>>

-----------------------------------------------------------------------------
(* _deliver() and _send_each(). *)

\* Sender() or the thread raises before the first send.
Breaks(t) ==
    /\ At(t, "pass") /\ runs[t].pass = 0
    /\ Set(t, NewSender("broken", {}))
    /\ UNCHANGED <<vars, payload, ledger, fates, happened>>

BeginPass(t) ==
    /\ At(t, "pass") /\ runs[t].pass < MaxPasses /\ Remaining(runs[t]) # {}
    /\ Set(t, [runs[t] EXCEPT !.at = "send", !.pass = @ + 1,
                              !.todo = Remaining(runs[t])])
    /\ UNCHANGED <<vars, payload, ledger, fates, happened>>

\* One chat of _send_each(): send_one() delivers, or error_reactions() finds that
\* the chat blocked the bot, or the chat is skipped, or the file itself is refused
\* and the loop ends.
SendOne(t, c) ==
    /\ At(t, "send") /\ c \in runs[t].todo
    /\ MayTouch(t)
    /\ \/ /\ got' = [got EXCEPT ![<<t[1], c>>] = More(@)]
          /\ Set(t, [runs[t] EXCEPT !.loop = @ \cup {c}, !.todo = @ \ {c}])
          /\ UNCHANGED blockedBy
       \/ /\ blockedBy' = blockedBy \cup {<<t[1], c>>}
          /\ Set(t, [runs[t] EXCEPT !.blocked = @ \cup {c}, !.todo = @ \ {c}])
          /\ UNCHANGED got
       \/ /\ \E rest \in {{}, runs[t].todo \ {c}} :
                Set(t, [runs[t] EXCEPT !.todo = rest])
          /\ UNCHANGED <<got, blockedBy>>
    /\ UNCHANGED <<payload, ledger, told, clicked, happened>>

\* _sleep_or_release_flood() raises through _send_each(): what the loop had
\* delivered was only in its local list.
Flood(t) ==
    /\ At(t, "send") /\ runs[t].todo # {} /\ Fault("flood")
    /\ MayTouch(t)
    /\ Set(t, [runs[t] EXCEPT !.at = "sync", !.loop = {}, !.todo = {}])
    /\ UNCHANGED <<payload, ledger, fates>>

\* Mutant: the delivered chats of a transport are not remembered for the next.
PassEndsForgetful(t) ==
    /\ At(t, "send") /\ runs[t].todo = {}
    /\ Set(t, [runs[t] EXCEPT !.at = "pass", !.loop = {}])
    /\ UNCHANGED <<vars, payload, ledger, fates, happened>>

PassEnds(t) ==
    /\ At(t, "send") /\ runs[t].todo = {}
    /\ Set(t, [runs[t] EXCEPT !.at = "pass", !.sent = @ \cup runs[t].loop, !.loop = {}])
    /\ UNCHANGED <<vars, payload, ledger, fates, happened>>

\* Nobody is left, or a terminal answer (too big, gone, host cooling), or an
\* exception that leaves the rest to a retry (no disk space, agent down).
DeliverEnds(t, final) ==
    /\ At(t, "pass")
    /\ final => Remaining(runs[t]) # {}
    /\ Set(t, [runs[t] EXCEPT !.at = "sync", !.final = final])
    /\ UNCHANGED <<vars, payload, ledger, fates, happened>>

-----------------------------------------------------------------------------
(* The rest of send_record(), and process_input(). *)

\* Mutant: the delivered chats are charged also when the payload was not written.
SyncChargesAnyway(t) ==
    /\ At(t, "sync")
    /\ IF Complete(t) THEN Answer(t) ELSE UNCHANGED vars
    /\ Set(t, [runs[t] EXCEPT !.at = "charge", !.todo = runs[t].sent])
    /\ \/ /\ Holds(t)
          /\ payload' = [payload EXCEPT ![t[1]] = Remaining(runs[t])]
          /\ UNCHANGED happened
       \/ /\ IF Holds(t) THEN Fault("sqlite") ELSE UNCHANGED happened
          /\ UNCHANGED payload
    /\ UNCHANGED <<ledger, fates>>

\* _sync_outbox_recipients() up to the charges: update_rec_recipients() writes what
\* this Sender still has to do, and nothing is charged unless it was written.
Sync(t) ==
    /\ At(t, "sync")
    /\ IF Complete(t) THEN Answer(t) ELSE UNCHANGED vars
    /\ \/ /\ Holds(t)
          /\ payload' = [payload EXCEPT ![t[1]] = Remaining(runs[t])]
          /\ Set(t, [runs[t] EXCEPT !.at = "charge", !.todo = runs[t].sent])
          /\ UNCHANGED happened
       \/ /\ IF Holds(t) THEN Fault("sqlite") ELSE UNCHANGED happened
          /\ Set(t, [runs[t] EXCEPT !.at = "close"])
          /\ UNCHANGED payload
    /\ UNCHANGED <<ledger, fates>>

\* Mutant: the limit notice goes out with every charge.
ChargeTellsEveryTime(t, c) ==
    /\ At(t, "charge") /\ c \in runs[t].todo
    /\ Set(t, [runs[t] EXCEPT !.todo = @ \ {c}])
    /\ IF left[Billed[c]] > 0
       THEN /\ left' = [left EXCEPT ![Billed[c]] = @ - 1]
            /\ charged' = [charged EXCEPT ![<<t[1], c>>] = More(@)]
            /\ notices' = [notices EXCEPT ![Billed[c]] = More(@)]
       ELSE UNCHANGED ledger
    /\ UNCHANGED <<vars, payload, fates, happened>>

\* _charge_circle_notify(): the billed user hears of the charge that takes the last.
Charge(t, c) ==
    /\ At(t, "charge") /\ c \in runs[t].todo
    /\ Set(t, [runs[t] EXCEPT !.todo = @ \ {c}])
    /\ IF left[Billed[c]] > 0
       THEN \/ /\ left' = [left EXCEPT ![Billed[c]] = @ - 1]
               /\ charged' = [charged EXCEPT ![<<t[1], c>>] = More(@)]
               /\ notices' = IF left[Billed[c]] = 1
                             THEN [notices EXCEPT ![Billed[c]] = More(@)] ELSE notices
               /\ UNCHANGED happened
            \/ Fault("sqlite") /\ UNCHANGED ledger
       ELSE UNCHANGED <<ledger, happened>>
    /\ UNCHANGED <<vars, payload, fates>>

ChargesEnd(t) ==
    /\ At(t, "charge") /\ runs[t].todo = {}
    /\ Set(t, [runs[t] EXCEPT !.at = "close"])
    /\ UNCHANGED <<vars, payload, ledger, fates, happened>>

\* mark_done(), which does nothing to a row that is no longer this run's.
TryMarkDone(t) == IF Holds(t) THEN MarkDone(t) ELSE UNCHANGED vars

\* _mark_outbox_done_after_send() swallows its exception.
Close(t) ==
    /\ At(t, "close")
    /\ Set(t, [runs[t] EXCEPT !.at = "tell"])
    /\ \/ Complete(t) /\ TryMarkDone(t) /\ UNCHANGED happened
       \/ Complete(t) /\ Holds(t) /\ Fault("sqlite") /\ UNCHANGED vars
       \/ ~Complete(t) /\ UNCHANGED <<vars, happened>>
    /\ UNCHANGED <<payload, ledger, fates>>

\* Mutant: only a terminal answer is told, not the last attempt's failure.
TellOnlyFinal(t) ==
    /\ At(t, "tell")
    /\ told' = IF runs[t].final THEN told \cup ({t[1]} \X Remaining(runs[t])) ELSE told
    /\ Set(t, NewSender(IF Complete(t) THEN "second" ELSE "raised", {}))
    /\ UNCHANGED <<vars, payload, ledger, got, blockedBy, clicked, happened>>

\* Undelivered chats hear "too big" or "unavailable", unless the row is retried:
\* then send_record() raises.
Tell(t) ==
    /\ At(t, "tell")
    /\ IF Complete(t)
       THEN /\ told' = told \cup ({t[1]} \X Remaining(runs[t]))
            /\ Set(t, NewSender("second", {}))
       ELSE /\ Set(t, NewSender("raised", {}))
            /\ UNCHANGED told
    /\ UNCHANGED <<vars, payload, ledger, got, blockedBy, clicked, happened>>

\* process_input() marks the row done again in case the first write failed.
SecondMark(t) ==
    /\ At(t, "second")
    /\ \/ /\ TryMarkDone(t)
          /\ Set(t, NewSender("ended", {}))
          /\ UNCHANGED happened
       \/ /\ Holds(t) /\ Fault("sqlite")
          /\ Set(t, NewSender("raised", {}))
          /\ UNCHANGED vars
    /\ UNCHANGED <<payload, ledger, fates>>

\* fail_or_retry().  A row that fails tells the chats still on it.  Only an error
\* raised before the first send can be terminal: send_record() keeps the others.
Retry(t, terminal) ==
    /\ IF terminal THEN At(t, "broken") ELSE At(t, "raised") \/ At(t, "broken")
    /\ Set(t, NewSender("ended", {}))
    /\ \/ /\ FailOrRetry(t, terminal)
          /\ told' = IF rows'[t[1]].status = "failed"
                     THEN told \cup ({t[1]} \X payload[t[1]]) ELSE told
          /\ UNCHANGED happened
       \/ /\ IF Holds(t) THEN Fault("sqlite") ELSE UNCHANGED happened
          /\ UNCHANGED <<vars, told>>
    /\ UNCHANGED <<payload, ledger, got, blockedBy, clicked>>

EndRun(t) ==
    /\ At(t, "ended") /\ Return(t)
    /\ Set(t, NoSender)
    /\ UNCHANGED <<payload, ledger, fates, happened>>

Run(t) ==
    \/ Breaks(t) \/ BeginPass(t) \/ Flood(t) \/ PassEnds(t)
    \/ \E c \in Chats : SendOne(t, c) \/ Charge(t, c)
    \/ \E final \in BOOLEAN : DeliverEnds(t, final)
    \/ Sync(t) \/ ChargesEnd(t) \/ Close(t) \/ Tell(t) \/ SecondMark(t)
    \/ \E terminal \in BOOLEAN : Retry(t, terminal)
    \/ EndRun(t)

-----------------------------------------------------------------------------
(* The keeper of the table, time and crashes. *)

Keeper ==
    /\ \/ ReadInFlight \/ Reclaim \/ ForceReclaim \/ FailExhausted
       \/ ReleaseStalled \/ Heartbeat
       \/ \E j \in Jobs : BackoffEnds(j) \/ (inFlight[j] = "no" /\ LeaseExpires(j))
    /\ UNCHANGED own

\* A run that makes no progress for STALL_SECONDS; it may go on after that.
Stall(j) ==
    /\ GoesQuiet(j) /\ Fault("stall")
    /\ UNCHANGED <<payload, runs, ledger, fates>>

ProcessCrash ==
    /\ Crash /\ Fault("crash")
    /\ runs' = [t \in Tickets |-> NoSender]
    /\ UNCHANGED <<payload, ledger, fates>>

DeliveryInit ==
    /\ Init
    /\ payload = [j \in Jobs |-> {}]
    /\ runs = [t \in Tickets |-> NoSender]
    /\ got = [p \in Pairs |-> 0] /\ charged = [p \in Pairs |-> 0]
    /\ left = Quota /\ notices = [c \in Chats |-> 0]
    /\ told = {} /\ blockedBy = {} /\ clicked = {}
    /\ happened = [k \in Kinds |-> 0]

DeliveryNext ==
    \/ \E j \in Jobs : Submit(j) \/ StartRun(j) \/ Stall(j)
    \/ \E j \in Jobs, c \in Chats : Click(j, c)
    \/ \E t \in tickets : Run(t)
    \/ Keeper \/ ProcessCrash

DeliverySpec == DeliveryInit /\ [][DeliveryNext]_deliveryVars

-----------------------------------------------------------------------------
(* Properties. *)

DeliveryTypeOK ==
    /\ TypeOK
    /\ payload \in [Jobs -> SUBSET Chats]
    /\ runs \in [Tickets -> Sender]
    /\ \A t \in Tickets : (t \in tickets) = (runs[t].at # "none")
    /\ got \in [Pairs -> 0..2] /\ charged \in [Pairs -> 0..2]
    /\ left \in [Chats -> Nat] /\ notices \in [Chats -> 0..2]
    /\ told \cup blockedBy \cup clicked \subseteq Pairs
    /\ happened \in [Kinds -> 0..MaxFaults]

\* However often a row is retried, stalls, crashes or is sent twice, an episode
\* takes one notification per chat, and only for audio the chat has.
ChargedOnce == \A p \in Pairs : charged[p] <= 1 /\ charged[p] <= got[p]

\* Why: once a chat is charged it is off the row for good, and off every run that
\* can still write the row.
ChargedIsForgotten ==
    \A j \in Jobs, c \in Chats :
        charged[<<j, c>>] > 0 =>
            /\ c \notin payload[j]
            /\ \A t \in tickets : t[1] = j /\ Holds(t) =>
                  c \notin Remaining(runs[t]) /\ c \notin runs[t].loop

\* A charge never adds to the tariff, and the notice that it is used up is sent
\* exactly once, with the step to zero.
QuotaAccounted ==
    \A o \in Chats :
        /\ left[o] <= Quota[o]
        /\ notices[o] = IF left[o] = 0 /\ Quota[o] > 0 THEN 1 ELSE 0

\* A row is not done before every chat it was made for has the audio, blocked the
\* bot, asked for the episode itself, or hears that it does not come.  (A crash
\* between mark_done() and the notices loses the notices.)
DoneAccountsForAll ==
    happened["crash"] = 0 =>
        \A j \in Jobs : rows[j].status = "done" =>
            \A c \in Recipients[j] :
                \/ got[<<j, c>>] > 0
                \/ <<j, c>> \in blockedBy \cup clicked \cup told
                \/ \E t \in tickets : t[1] = j /\ runs[t].at = "tell"

\* Without a flood, a stall, a crash or a refused write, no chat gets the episode
\* twice, however many attempts and transports its row needs.
OneCopyWithoutFaults ==
    Happened = {} => \A p \in Pairs : got[p] <= 1

\* Every step is a step of the outbox.
DeliveryImplementsOutbox == Spec

\* "Call after a partial Telegram ACK so a retry does not resend to chats that
\* already got the episode" (update_rec_recipients): neither does a retry after 429.
RetryDoesNotResend == \A p \in Pairs : got[p] <= 1

\* "circle should not send the same file again after that click"
\* (drop_circle_recipient).
CircleLeavesClicks ==
    [][\A p \in clicked : got'[p] = got[p]]_deliveryVars
=============================================================================
