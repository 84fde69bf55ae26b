------------------------------- MODULE Digest -------------------------------
(***************************************************************************)
(* The weekly reminder of those who have no plan.  The updater flags a new *)
(* episode of a show for its free listeners (db/listening.py) and queues   *)
(* their chats (app/jobs/digest_outbox.py); the digest watcher, a thread   *)
(* of the jobs process, leases one chat at a time, reads whether it may be *)
(* told and of what, sends one message, and acknowledges what it said      *)
(* (app/jobs/digest_watcher.py).                                           *)
(*                                                                         *)
(* One action per transaction or Telegram call.  Time is what the code     *)
(* compares: a lease has run out or not, a row is ready or backs off, the  *)
(* seven days since a chat's last digest are over or not.                  *)
(***************************************************************************)
EXTENDS Integers, FiniteSets

CONSTANTS
    Users,        \* chats
    Shows,        \* channels.id
    Connections,  \* <<chat, show>>: the subscriptions, user_channel_cs
    MaxAttempts,  \* MAX_ATTEMPTS of send_outbox, used here too
    Limit,        \* the most episodes of one digest
    News,         \* bound: episodes of each show
    MaxEp,        \* the most of them
    MaxRev,       \* bound: how often the updater flags
    MaxEvents     \* bound: stops, errors, and changes of a chat's mind or plan

ASSUME DigestAssumption ==
    /\ Users \subseteq Nat \ {0} /\ Shows \subseteq Nat \ {0} /\ IsFiniteSet(Users) /\ IsFiniteSet(Shows)
    /\ Connections \subseteq Users \X Shows
    /\ MaxAttempts \in Nat \ {0} /\ Limit \in Nat \ {0}
    /\ MaxEp \in Nat /\ News \in [Shows -> 0..MaxEp] /\ MaxRev \in Nat /\ MaxEvents \in Nat

VARIABLES
    latest,       \* channels.last_guid
    cursor,       \* user_channel_cs.last_guid
    follows,      \* <<chat, show>>: user_channel_cs with notify = 1
    standing,     \* "free", "muted" (digest turned off) or "paid"
    due,          \* chats whose nosub_digest_sent_at is more than a week ago
    entries,      \* digest_episodes: the episode (0 is no row) and its revision
    rev,          \* revisions given so far
    row,          \* digest_outbox
    older,        \* created_at: the chats whose rows are older than a chat's
    inFlight,     \* _in_flight of the jobs process
    updater,      \* a visit's flag_nosubs_for_digest()
    worker,       \* digest_watcher()
    flagged,      \* the newest episode of each show a chat was flagged for: history
    told,         \* the newest it was told of: history
    messages,     \* digests a chat got in this week: history
    twice,        \* chats told of an episode again: history
    cut,          \* chats where a step between a message and its ACK was lost: history
    events        \* the bound's counter

people == <<follows, standing, due>>
table == <<row, older>>
history == <<flagged, told, messages, twice, cut>>
vars == <<latest, cursor, people, entries, rev, table, inFlight, updater, worker, history, events>>

Episodes == 0..MaxEp
NoRow == [status |-> "absent", attempts |-> 0, lease |-> "none", ready |-> TRUE]
NoVisit == [show |-> 0, head |-> 0, flags |-> {}, todo |-> {}, queued |-> {}]
Idle == [pc |-> "loop", u |-> 0, attempts |-> 0, snap |-> << >>]
Down == [Idle EXCEPT !.pc = "down"]

At(pc) == worker.pc = pc
Go(pc) == worker' = [worker EXCEPT !.pc = pc]

-----------------------------------------------------------------------------
(* The updater: flag_nosubs_for_digest(). *)

Behind(s) == {u \in Users : <<u, s>> \in follows /\ standing[u] # "paid" /\ cursor[u][s] < latest[s]}

Publish(s) ==
    /\ latest[s] < News[s]
    /\ latest' = [latest EXCEPT ![s] = @ + 1]
    /\ UNCHANGED <<cursor, people, entries, rev, table, inFlight, updater, worker, history, events>>

\* A visit reads who is behind.
Visit(s) ==
    /\ updater.show = 0 /\ Behind(s) # {}
    /\ updater' = [show |-> s, head |-> latest[s], flags |-> Behind(s), todo |-> Behind(s), queued |-> {}]
    /\ UNCHANGED <<latest, cursor, people, entries, rev, table, inFlight, worker, history, events>>

\* listening.flag_digest(): one transaction for all of them, one revision each.
FlagDigest ==
    /\ updater.flags # {} /\ rev < MaxRev
    /\ rev' = rev + 1
    /\ entries' = [u \in Users |->
            IF u \in updater.flags
            THEN [entries[u] EXCEPT ![updater.show] = [ep |-> updater.head, rev |-> rev + 1]]
            ELSE entries[u]]
    /\ flagged' = [u \in Users |-> IF u \in updater.flags
                                   THEN [flagged[u] EXCEPT ![updater.show] = updater.head]
                                   ELSE flagged[u]]
    /\ updater' = [updater EXCEPT !.flags = {}]
    /\ UNCHANGED <<latest, cursor, people, table, inFlight, worker, told, messages, twice, cut, events>>

\* Its failure is logged; the chats are queued all the same, with the generic text.
FlagFails ==
    /\ updater.flags # {} /\ events < MaxEvents
    /\ events' = events + 1 /\ updater' = [updater EXCEPT !.flags = {}]
    /\ UNCHANGED <<latest, cursor, people, entries, rev, table, inFlight, worker, history>>

\* The chats that have a row.
Queued == {u \in Users : row[u].status # "absent"}

\* digest_outbox.enqueue(): an open row stays as it is, a settled one starts anew.
Enqueue(u) ==
    /\ updater.flags = {} /\ u \in updater.todo \ updater.queued
    /\ IF row[u].status \in {"pending", "leased"} THEN UNCHANGED table
       ELSE /\ row' = [row EXCEPT ![u] = [NoRow EXCEPT !.status = "pending"]]
            /\ older' = [v \in Users |-> IF v = u THEN Queued \ {u} ELSE older[v] \ {u}]
    /\ updater' = [updater EXCEPT !.queued = @ \cup {u}]
    /\ UNCHANGED <<latest, cursor, people, entries, rev, inFlight, worker, history, events>>

\* Mutant: who was flagged is not moved on.
MoveCursorKept(u) ==
    /\ u \in updater.queued
    /\ updater' = IF updater.todo = {u} THEN NoVisit
                  ELSE [updater EXCEPT !.todo = @ \ {u}, !.queued = @ \ {u}]
    /\ UNCHANGED <<latest, cursor, people, entries, rev, table, inFlight, worker, history, events>>

\* update_sub_last_guid_and_date()
MoveCursor(u) ==
    /\ u \in updater.queued
    /\ cursor' = [cursor EXCEPT ![u][updater.show] = updater.head]
    /\ updater' = IF updater.todo = {u} THEN NoVisit
                  ELSE [updater EXCEPT !.todo = @ \ {u}, !.queued = @ \ {u}]
    /\ UNCHANGED <<latest, people, entries, rev, table, inFlight, worker, history, events>>

\* The updater is stopped, or enqueue() raises: the cursors left behind stay behind.
UpdaterStops ==
    /\ updater.show # 0 /\ events < MaxEvents
    /\ updater' = NoVisit /\ events' = events + 1
    /\ cut' = IF updater.flags = {} THEN cut \cup updater.todo ELSE cut
    /\ UNCHANGED <<latest, cursor, people, entries, rev, table, inFlight, worker, flagged, told, messages, twice>>

UpdaterStep == FlagDigest \/ \E u \in Users : Enqueue(u) \/ MoveCursor(u)

-----------------------------------------------------------------------------
(* The watcher: digest_watcher() and send_digest_to_user(). *)

Closed(r, status) == [r EXCEPT !.status = status, !.lease = "none"]
LeasedRows == {u \in Users : row[u].status = "leased"}
Released(S) == [u \in Users |-> IF u \in S THEN Closed(row[u], "pending") ELSE row[u]]

\* The jobs process starts and takes every leased row back: reclaim(force=True).
Start ==
    /\ At("down")
    /\ Go("loop") /\ row' = Released(LeasedRows)
    /\ UNCHANGED <<latest, cursor, people, entries, rev, older, inFlight, updater, history, events>>

\* It raised, and was logged.
StartUnreclaimed ==
    /\ At("down") /\ events < MaxEvents
    /\ Go("loop") /\ events' = events + 1
    /\ UNCHANGED <<latest, cursor, people, entries, rev, table, inFlight, updater, history>>

\* reclaim(force=False), at the top of the loop.
Reclaim ==
    /\ At("loop")
    /\ Go("claim") /\ row' = Released({u \in LeasedRows \ inFlight : row[u].lease = "expired"})
    /\ UNCHANGED <<latest, cursor, people, entries, rev, older, inFlight, updater, history, events>>

Ready(u) == row[u].status = "pending" /\ row[u].ready

\* claim(): the oldest that is ready, however often it was tried.
Claim ==
    /\ At("claim")
    /\ \E u \in Users :
       /\ Ready(u) /\ \A v \in older[u] : ~Ready(v)
       /\ row' = [row EXCEPT ![u].status = "leased", ![u].attempts = @ + 1, ![u].lease = "live"]
       /\ inFlight' = inFlight \cup {u}
       /\ worker' = [Idle EXCEPT !.pc = "check", !.u = u, !.attempts = row[u].attempts + 1]
    /\ UNCHANGED <<latest, cursor, people, entries, rev, older, updater, history, events>>

Sleep ==
    /\ At("claim") /\ ~\E u \in Users : Ready(u)
    /\ worker' = Idle
    /\ UNCHANGED <<latest, cursor, people, entries, rev, table, inFlight, updater, history, events>>

\* should_send_nosub_digest(), at the time of sending.
MayHear(u) == standing[u] = "free" /\ u \in due

Check ==
    /\ At("check")
    /\ Go(IF MayHear(worker.u) THEN "read" ELSE "close")
    /\ UNCHANGED <<latest, cursor, people, entries, rev, table, inFlight, updater, history, events>>

\* listening.digest(): the newest flags of the shows still followed.
Wanted(u) == {s \in Shows : entries[u][s].ep # 0 /\ <<u, s>> \in follows}
Newest(u) == {s \in Wanted(u) :
                Cardinality({o \in Wanted(u) : entries[u][o].rev > entries[u][s].rev}) < Limit}

\* has_digest(): flags of shows nobody follows any more are not replaced by a generic text.
ReadEntries ==
    LET u == worker.u IN
    /\ At("read")
    /\ worker' = [worker EXCEPT
            !.snap = [s \in Newest(u) |-> entries[u][s]],
            !.pc = IF Newest(u) = {} /\ \E s \in Shows : entries[u][s].ep # 0
                   THEN "close" ELSE "send"]
    /\ UNCHANGED <<latest, cursor, people, entries, rev, table, inFlight, updater, history, events>>

Hear(u) ==
    /\ told' = [told EXCEPT ![u] = [s \in Shows |->
            IF s \in DOMAIN worker.snap /\ worker.snap[s].ep > told[u][s]
            THEN worker.snap[s].ep ELSE told[u][s]]]
    /\ messages' = [messages EXCEPT ![u] = IF @ = 2 THEN 2 ELSE @ + 1]
    /\ twice' = IF \E s \in DOMAIN worker.snap : worker.snap[s].ep <= told[u][s]
                THEN twice \cup {u} ELSE twice

\* outer_sender() returned the message.
Send ==
    /\ At("send") /\ Go("mark") /\ Hear(worker.u)
    /\ UNCHANGED <<latest, cursor, people, entries, rev, table, inFlight, updater, flagged, cut, events>>

\* Too many requests: the row is tried again.
Flooded ==
    /\ At("send") /\ Go("retry")
    /\ UNCHANGED <<latest, cursor, people, entries, rev, table, inFlight, updater, history, events>>

\* Blocked, or the call failed: nothing is marked, and the row is done.  A call that
\* timed out may have arrived.
NotSent ==
    /\ At("send") /\ events < MaxEvents
    /\ Go("close") /\ events' = events + 1
    /\ \/ UNCHANGED history
       \/ Hear(worker.u) /\ cut' = cut \cup {worker.u} /\ UNCHANGED flagged
    /\ UNCHANGED <<latest, cursor, people, entries, rev, table, inFlight, updater>>

\* Mutant: a generic reminder does not count as this week's.
MarkSentWithEpisodes ==
    /\ At("mark") /\ Go("ack")
    /\ due' = IF worker.snap = << >> THEN due ELSE due \ {worker.u}
    /\ UNCHANGED <<latest, cursor, follows, standing, entries, rev, table, inFlight, updater, history, events>>

\* mark_nosub_digest_sent()
MarkSent ==
    /\ At("mark") /\ Go("ack")
    /\ due' = due \ {worker.u}
    /\ UNCHANGED <<latest, cursor, follows, standing, entries, rev, table, inFlight, updater, history, events>>

\* Mutant: the revision is not compared.
SaidOfShow(s) == s \in DOMAIN worker.snap

\* "user_telegram_id=? AND channel_id=? AND revision=?"
Said(s) == s \in DOMAIN worker.snap /\ entries[worker.u][s].rev = worker.snap[s].rev

\* ack_digest()
AckDigest ==
    /\ At("ack") /\ Go("close")
    /\ entries' = [entries EXCEPT ![worker.u] =
            [s \in Shows |-> IF Said(s) THEN [ep |-> 0, rev |-> 0] ELSE @[s]]]
    /\ UNCHANGED <<latest, cursor, people, rev, table, inFlight, updater, history, events>>

Holds == row[worker.u].status = "leased" /\ row[worker.u].attempts = worker.attempts

MarkDone ==
    /\ At("close") /\ worker' = Idle
    /\ row' = IF Holds THEN [row EXCEPT ![worker.u] = Closed(@, "done")] ELSE row
    /\ inFlight' = inFlight \ {worker.u}
    /\ UNCHANGED <<latest, cursor, people, entries, rev, older, updater, history, events>>

\* Mutant: a row that is tried again has all its attempts again.
RetryAfresh ==
    /\ At("retry") /\ worker' = Idle
    /\ Holds
    /\ row' = [row EXCEPT ![worker.u] = [Closed(@, "pending") EXCEPT !.ready = FALSE, !.attempts = 0]]
    /\ inFlight' = inFlight \ {worker.u}
    /\ UNCHANGED <<latest, cursor, people, entries, rev, older, updater, history, events>>

\* Mutant: one attempt too many.
RetryLate ==
    /\ At("retry") /\ worker' = Idle
    /\ Holds
    /\ row' = IF row[worker.u].attempts > MaxAttempts
              THEN [row EXCEPT ![worker.u] = Closed(@, "failed")]
              ELSE [row EXCEPT ![worker.u] = [Closed(@, "pending") EXCEPT !.ready = FALSE]]
    /\ inFlight' = inFlight \ {worker.u}
    /\ UNCHANGED <<latest, cursor, people, entries, rev, older, updater, history, events>>

FailOrRetry ==
    /\ At("retry") /\ worker' = Idle
    /\ row' = IF ~Holds THEN row
              ELSE IF row[worker.u].attempts >= MaxAttempts
              THEN [row EXCEPT ![worker.u] = Closed(@, "failed")]
              ELSE [row EXCEPT ![worker.u] = [Closed(@, "pending") EXCEPT !.ready = FALSE]]
    /\ inFlight' = IF Holds THEN inFlight \ {worker.u} ELSE inFlight
    /\ UNCHANGED <<latest, cursor, people, entries, rev, older, updater, history, events>>

\* A step raises.  Inside send_digest_to_user() the row is tried again; closing it or
\* trying it again raises to the loop, which leaves it leased and in flight.
Lost(u) == cut' = IF At("mark") \/ At("ack") THEN cut \cup {u} ELSE cut
StepRaises ==
    /\ ~At("down") /\ ~At("loop") /\ ~At("claim") /\ ~At("send") /\ events < MaxEvents
    /\ events' = events + 1
    /\ worker' = IF At("close") \/ At("retry") THEN Idle ELSE [worker EXCEPT !.pc = "retry"]
    /\ Lost(worker.u)
    /\ UNCHANGED <<latest, cursor, people, entries, rev, table, inFlight, updater, flagged, told, messages, twice>>

\* The jobs process stops: a deploy, a crash, or another of its threads died.
Stop ==
    /\ ~At("down") /\ events < MaxEvents
    /\ events' = events + 1 /\ worker' = Down /\ inFlight' = {}
    /\ Lost(worker.u)
    /\ UNCHANGED <<latest, cursor, people, entries, rev, table, updater, flagged, told, messages, twice>>

WorkerStep ==
    \/ Start \/ Reclaim \/ Claim \/ Sleep \/ Check \/ ReadEntries \/ Send \/ Flooded
    \/ MarkSent \/ AckDigest \/ MarkDone \/ FailOrRetry

-----------------------------------------------------------------------------
(* Time, and people. *)

\* Nobody looks at the lease of the row the watcher is at: only its own loop reclaims.
LeaseExpires(u) ==
    /\ row[u].status = "leased" /\ row[u].lease = "live" /\ worker.u # u
    /\ row' = [row EXCEPT ![u].lease = "expired"]
    /\ UNCHANGED <<latest, cursor, people, entries, rev, older, inFlight, updater, worker, history, events>>

BackoffEnds(u) ==
    /\ row[u].status = "pending" /\ ~row[u].ready
    /\ row' = [row EXCEPT ![u].ready = TRUE]
    /\ UNCHANGED <<latest, cursor, people, entries, rev, older, inFlight, updater, worker, history, events>>

\* purge_old()
Purge(u) ==
    /\ row[u].status \in {"done", "failed"}
    /\ row' = [row EXCEPT ![u] = NoRow] /\ older' = [v \in Users |-> older[v] \ {u}]
    /\ UNCHANGED <<latest, cursor, people, entries, rev, inFlight, updater, worker, history, events>>

\* The seven days are over.
WeekEnds(u) ==
    /\ u \notin due
    /\ due' = due \cup {u} /\ messages' = [messages EXCEPT ![u] = 0]
    /\ UNCHANGED <<latest, cursor, follows, standing, entries, rev, table, inFlight, updater, worker, flagged, told, twice, cut, events>>

\* Buys a plan or loses it, turns digests off or on.
Change(u) ==
    /\ events < MaxEvents /\ events' = events + 1
    /\ \E new \in {"free", "muted", "paid"} \ {standing[u]} : standing' = [standing EXCEPT ![u] = new]
    /\ UNCHANGED <<latest, cursor, follows, due, entries, rev, table, inFlight, updater, worker, history>>

\* Turns the notifications of a show off or on.
TurnNotify(u, s) ==
    /\ events < MaxEvents /\ events' = events + 1
    /\ follows' = IF <<u, s>> \in follows THEN follows \ {<<u, s>>} ELSE follows \cup {<<u, s>>}
    /\ UNCHANGED <<latest, cursor, standing, due, entries, rev, table, inFlight, updater, worker, history>>

-----------------------------------------------------------------------------
Init ==
    /\ latest = [s \in Shows |-> 0] /\ cursor = [u \in Users |-> latest]
    /\ follows = Connections
    /\ standing = [u \in Users |-> "free"] /\ due = Users
    /\ entries = [u \in Users |-> [s \in Shows |-> [ep |-> 0, rev |-> 0]]] /\ rev = 0
    /\ row = [u \in Users |-> NoRow] /\ older = [u \in Users |-> {}] /\ inFlight = {}
    /\ updater = NoVisit /\ worker = Down
    /\ flagged = cursor /\ told = cursor /\ messages = [u \in Users |-> 0] /\ twice = {} /\ cut = {}
    /\ events = 0

Next ==
    \/ \E s \in Shows : Publish(s) \/ Visit(s)
    \/ UpdaterStep \/ FlagFails \/ UpdaterStops
    \/ WorkerStep \/ StartUnreclaimed \/ NotSent \/ StepRaises \/ Stop
    \/ \E u \in Users : LeaseExpires(u) \/ BackoffEnds(u) \/ Purge(u) \/ WeekEnds(u) \/ Change(u)
    \/ \E c \in Connections : TurnNotify(c[1], c[2])

Spec == Init /\ [][Next]_vars

\* The watcher runs, supervised, and time goes on.  Nothing makes floods end.
Fairness ==
    /\ WF_vars(WorkerStep)
    /\ WF_vars(\E u \in Users : LeaseExpires(u) \/ BackoffEnds(u))

FairSpec == Spec /\ Fairness

-----------------------------------------------------------------------------
DigestTypeOK ==
    /\ latest \in [Shows -> Episodes] /\ cursor \in [Users -> [Shows -> Episodes]]
    /\ follows \subseteq Connections
    /\ standing \in [Users -> {"free", "muted", "paid"}] /\ due \subseteq Users
    /\ entries \in [Users -> [Shows -> [ep : Episodes, rev : 0..MaxRev]]] /\ rev \in 0..MaxRev
    /\ row \in [Users -> [status : {"absent", "pending", "leased", "done", "failed"}, attempts : 0..(MaxAttempts + MaxEvents),
                          lease : {"none", "live", "expired"}, ready : BOOLEAN]]
    /\ older \in [Users -> SUBSET Queued]
    /\ inFlight \subseteq Users
    /\ updater.todo \subseteq Users /\ updater.queued \subseteq updater.todo
    /\ worker.u \in Users \cup {0}

\* A flagged episode stands in the table until a message told its chat of it or of a
\* newer one of the show, whatever the updater flags between the watcher's read and its
\* ACK, and whoever stops ("survives ACK of an older snapshot sent concurrently").
NothingForgotten ==
    \A u \in Users, s \in Shows :
        flagged[u][s] > told[u][s] => entries[u][s].ep = flagged[u][s]

\* One digest a week: a chat gets two only if a step between a message and its marks was
\* lost, however often the row is requeued, reclaimed or tried again.
OneInAWeek == \A u \in Users : messages[u] <= 1 \/ u \in cut

\* A chat is told of an episode again for the same reasons only.
ToldOnce == twice \subseteq cut

\* A row the watcher left leased and in flight when closing it raised: nothing takes it
\* back before the process restarts, as digest_outbox has no release_stalled().
Stuck(u) == row[u].status = "leased" /\ u \in inFlight /\ worker.u # u

\* Every chat in line gets its digest, is found to want none, or is given up after
\* MAX_ATTEMPTS, though Telegram may answer "too many requests" for ever.
RowIsSettled ==
    \A u \in Users :
        row[u].status = "pending" ~> row[u].status \in {"done", "failed"} \/ Stuck(u)
=============================================================================
