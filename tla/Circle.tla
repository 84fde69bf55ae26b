------------------------------- MODULE Circle -------------------------------
(***************************************************************************)
(* The circle: the updater process walks the podcasts, compares every      *)
(* listener's cursor with the feed and queues what is new (podcastsUpdater *)
(* .py), while a person's "refresh" runs the same code for one chat in     *)
(* another process, a deploy stops the whole group and the supervisor      *)
(* (process_supervisor.py) restarts what died.                             *)
(*                                                                         *)
(* One action per database transaction or feed request, so the two visits  *)
(* interleave between any two of them.  An episode is its number in the    *)
(* feed, a cursor the number it stands at, a feed version (ETag, Last-     *)
(* Modified) the number of its newest episode.  A feed that answers late   *)
(* with an error, or is skipped in its dead cooldown, is a failed fetch.   *)
(***************************************************************************)
EXTENDS Integers, FiniteSets

CONSTANTS
    Podcasts,     \* channels.id
    Users,        \* people, by number: the order of the rows
    TgChats,      \* Telegram channels that repost podcasts, numbered after the people
    Owner,        \* the person each of them is billed to
    Paid,         \* people with a running tariff
    Subs,         \* <<person, podcast>>: user_channel_cs with notify = 1
    Posts,        \* <<Telegram channel, podcast>> of an active connection
    Left0,        \* notify_count at the start, -1 is unlimited
    Unparsed,     \* podcasts whose feed never gave an episode: their cursors are "__"
    MaxEp,        \* bound: the most episodes of a podcast
    News,         \* bound: episodes of each podcast
    Window,       \* MAX_EPISODES_PER_PODCAST + 1, the items one parse reads
    Killer,       \* podcasts whose feed kills the process that parses it
    StopPoints,   \* where in a visit a process may be stopped or an error strike
    Deploys,      \* whether the group is redeployed
    MaxEvents     \* bound: deploys, crashes, errors, refreshes, lists opened, new subscriptions

Empty == -1       \* EMPTY_CURSOR "__", and NULL
Episodes == 1..MaxEp
Cursors == -1..MaxEp
Chats == Users \cup TgChats
Actors == {"circle", "refresh"}

\* The person whose tariff and whose user_channel_cs row a chat goes by.
Bill(ch) == IF ch \in TgChats THEN Owner[ch] ELSE ch

ASSUME CircleAssumption ==
    /\ Podcasts \subseteq Nat \ {0} /\ IsFiniteSet(Podcasts)
    /\ Users \subseteq Nat \ {0} /\ TgChats \subseteq Nat \ {0} /\ IsFiniteSet(Chats)
    /\ \A u \in Users, t \in TgChats : u < t
    /\ Owner \in [TgChats -> Users]
    /\ Paid \subseteq Users
    /\ Subs \subseteq Users \X Podcasts /\ Posts \subseteq TgChats \X Podcasts
    /\ Left0 \in [Users -> Nat \cup {-1}]
    /\ Unparsed \subseteq Podcasts /\ Killer \subseteq Podcasts
    /\ MaxEp \in Nat \ {0} /\ Window \in Nat \ {0}
    /\ Deploys \in BOOLEAN /\ MaxEvents \in Nat
    /\ News \in [Podcasts -> 0..MaxEp]

VARIABLES
    feed,         \* the newest episode of each feed
    latest,       \* channels.last_guid, last_date
    etag,         \* channels.http_etag, http_last_modified
    refetched,    \* KV feed_refetch_<id>
    cursor,       \* user_channel_cs.last_guid, last_date of every person and podcast
    left,         \* user_tariff_cs.notify_count
    queued,       \* how often an episode was put in the send queue for a chat
    flagged,      \* the digest flags: the newest episode a free listener was told of
    kv,           \* KV last_channel_id, last_channel_restarted, updater_clean_stop
    crashFile,    \* db/updater_crash.flag
    proc,         \* the updater process
    clean,        \* its stopped_cleanly
    visit,        \* send_new_records_by_channel(), once per actor
    sup,          \* the supervisor's loop
    stopping,     \* SIGTERM was sent to the group
    events,       \* how much has happened to the system: the bound's counter
    mixed         \* what disturbed the visits: history, for the properties

tables == <<latest, etag, refetched, cursor, left>>
outputs == <<queued, flagged>>
process == <<kv, crashFile, proc, clean>>
group == <<sup, stopping>>
vars == <<feed, tables, outputs, process, visit, group, events, mixed>>

NoVisit == [pc |-> "off", p |-> 0, to |-> << >>, free |-> << >>, latest |-> Empty,
            etag |-> Empty, left |-> << >>, head |-> 0, next |-> 0, todo |-> {}]

VisitPoints == {"off", "target", "fetch", "persist", "queue", "free", "cursors", "done"}

-----------------------------------------------------------------------------
(* Who a podcast goes to: get_uccs_by_channel(), getTgChannelSub...(). *)

\* "notify_count != 0 AND time_left > 0 AND tariff_id > 0"
PaidNow(u) == u \in Paid /\ left[u] # 0

Listeners(p) == {u \in Users : <<u, p>> \in Subs}
Reposts(p) == {t \in TgChats : <<t, p>> \in Posts}
Targets(p) == {ch \in Listeners(p) \cup Reposts(p) : PaidNow(Bill(ch))}
FreeOf(p) == {u \in Listeners(p) : ~PaidNow(u)}

\* _live_notify_recipient_exists_sql
Polled(p) == Targets(p) \cup FreeOf(p) # {}

\* _get_channel_to_poll: the first such podcast from id n on, 0 is none.
NextPolled(n) ==
    LET from == {p \in Podcasts : p >= n /\ Polled(p)}
    IN  IF from = {} THEN 0 ELSE CHOOSE p \in from : \A q \in from : p <= q

-----------------------------------------------------------------------------
(* What one visit works out from its snapshot. *)

V(a) == visit[a]
Sought(a) == DOMAIN V(a).to
At(a, pc) == V(a).pc = pc

\* An empty cursor at a known latest: "has seen what the podcast had".
Seen(a, ch) == IF V(a).to[ch] = Empty THEN V(a).latest ELSE V(a).to[ch]

\* quiet_start: never while a person waits for a refresh.
Quiet(a) == IF a = "refresh" THEN {} ELSE {ch \in Sought(a) : Seen(a, ch) = Empty}

Items(a) == {e \in Episodes : e <= V(a).head /\ e > V(a).head - Window}
Wants(a, e) == {ch \in Sought(a) \ Quiet(a) : Seen(a, ch) < e}
HasNews(a) == \E e \in Items(a) : Wants(a, e) # {}

\* Mutant: every chat draws from a budget of its own.
ReceiveEach(a, e) == {ch \in Wants(a, e) : V(a).left[Bill(ch)] # 0}

\* Mutant: -1 is a number like any other.
ReceiveCounted(a, e) ==
    {ch \in Wants(a, e) :
        a = "refresh"
        \/ Cardinality({o \in Wants(a, e) : o < ch /\ Bill(o) = Bill(ch)}) < V(a).left[Bill(ch)]}

\* notify_left_tg: an owner and all their channels draw from one budget, in order.
Receive(a, e) ==
    {ch \in Wants(a, e) :
        \/ a = "refresh" \/ V(a).left[Bill(ch)] < 0
        \/ Cardinality({o \in Wants(a, e) : o < ch /\ Bill(o) = Bill(ch)}) < V(a).left[Bill(ch)]}

LeftAfter(a, to) ==
    [u \in DOMAIN V(a).left |->
        IF V(a).left[u] < 0 \/ a = "refresh" THEN V(a).left[u]
        ELSE V(a).left[u] - Cardinality({ch \in to : Bill(ch) = u})]

\* paid_targets_behind(): whom a 304 would leave without an episode.
Behind(a) ==
    IF V(a).latest = Empty THEN Sought(a)
    ELSE {ch \in Sought(a) : V(a).to[ch] \notin {Empty, V(a).latest}}

\* Mutant: the cursors of the people only, a channel's owner is left behind.
RowsOfPeople(a) == Sought(a) \cap Users
\* The cursor rows to write: an owner stands for a channel.
Rows(a) == IF HasNews(a) \/ Quiet(a) # {} THEN {Bill(ch) : ch \in Sought(a)} ELSE {}

-----------------------------------------------------------------------------
(* The steps of send_new_records_by_channel(). *)

Go(a, pc) == visit' = [visit EXCEPT ![a].pc = pc]

\* The whole feed is parsed: it is not this version, or a target is behind
\* and this version was not fetched in full for a 304 before.
Full(a, head) ==
    \/ V(a).etag # head
    \/ Behind(a) # {} /\ refetched[V(a).p] # head

\* fetch_channel_feed(), and note_refetched() after the second one.
Fetch(a) ==
    LET p == V(a).p IN
    /\ At(a, "fetch") /\ feed[p] >= 1 /\ Full(a, feed[p])
    /\ refetched' = IF V(a).etag = feed[p] THEN [refetched EXCEPT ![p] = feed[p]] ELSE refetched
    /\ visit' = [visit EXCEPT ![a].pc = "persist", ![a].head = feed[p]]
    /\ UNCHANGED <<feed, latest, etag, cursor, left, outputs, process, group, events, mixed>>

\* Mutant: after a 304 nobody is compared with anything.
NotModifiedIsNoNews(a) ==
    /\ At(a, "fetch") /\ feed[V(a).p] >= 1 /\ ~Full(a, feed[V(a).p])
    /\ Go(a, "done")
    /\ UNCHANGED <<feed, tables, outputs, process, group, events, mixed>>

\* A 304 that is believed: the free listeners are compared with channels.last_*.
NotModified(a) ==
    LET p == V(a).p IN
    /\ At(a, "fetch") /\ feed[p] >= 1 /\ ~Full(a, feed[p])
    /\ visit' = [visit EXCEPT ![a].pc = IF V(a).latest = Empty THEN "done" ELSE "free",
                              ![a].head = V(a).latest, ![a].to = << >>]
    /\ UNCHANGED <<feed, tables, outputs, process, group, events, mixed>>

\* Unavailable, parsed to no items, or in its dead cooldown.
FetchFails(a) ==
    /\ At(a, "fetch")
    /\ Go(a, "done")
    /\ UNCHANGED <<feed, tables, outputs, process, group, events, mixed>>

\* _persist_channel_http_validators(): what differs from the snapshot is written.
Persist(a) ==
    /\ At(a, "persist")
    /\ etag' = IF V(a).etag = V(a).head THEN etag ELSE [etag EXCEPT ![V(a).p] = V(a).head]
    /\ visit' = [visit EXCEPT ![a].pc = "queue", ![a].next = 1, ![a].todo = Rows(a)]
    /\ UNCHANGED <<feed, latest, refetched, cursor, left, outputs, process, group, events, mixed>>

\* outbox.enqueue(): one row for an episode and all who receive it, oldest first.
Enqueue(a) ==
    LET p == V(a).p
        e == V(a).next
        to == IF e \in Items(a) THEN Receive(a, e) ELSE {}
    IN
    /\ At(a, "queue") /\ e <= V(a).head
    /\ queued' = [ch \in Chats |->
            IF ch \in to THEN [queued[ch] EXCEPT ![p][e] = IF @ = 2 THEN 2 ELSE @ + 1]
            ELSE queued[ch]]
    /\ visit' = [visit EXCEPT ![a].next = e + 1, ![a].left = LeftAfter(a, to)]
    /\ UNCHANGED <<feed, tables, flagged, process, group, events, mixed>>

\* update_channel_last_guid_date()
SetLatest(a) ==
    /\ At(a, "queue") /\ V(a).next > V(a).head
    /\ latest' = [latest EXCEPT ![V(a).p] = V(a).head]
    /\ Go(a, "free")
    /\ UNCHANGED <<feed, etag, refetched, cursor, left, outputs, process, group, events, mixed>>

\* flag_nosubs_for_digest(): a flag for who is behind, then the cursor.
FlagFree(a, u) ==
    LET p == V(a).p
        h == V(a).head
    IN
    /\ At(a, "free") /\ u \in DOMAIN V(a).free
    /\ flagged' = IF V(a).free[u] \in 0..(h - 1) THEN [flagged EXCEPT ![u][p] = h] ELSE flagged
    /\ cursor' = IF V(a).free[u] < h THEN [cursor EXCEPT ![u][p] = h] ELSE cursor
    /\ visit' = [visit EXCEPT ![a].free = [o \in DOMAIN @ \ {u} |-> @[o]]]
    /\ UNCHANGED <<feed, latest, etag, refetched, left, queued, process, group, events, mixed>>

FreeDone(a) ==
    /\ At(a, "free") /\ DOMAIN V(a).free = {}
    /\ Go(a, IF V(a).todo = {} THEN "done" ELSE "cursors")
    /\ UNCHANGED <<feed, tables, outputs, process, group, events, mixed>>

\* update_sub_last_guid_and_date(), a transaction per row.
MoveCursor(a, u) ==
    /\ At(a, "cursors") /\ u \in V(a).todo
    /\ cursor' = [cursor EXCEPT ![u][V(a).p] = V(a).head]
    /\ visit' = [visit EXCEPT ![a].todo = @ \ {u},
                              ![a].pc = IF V(a).todo = {u} THEN "done" ELSE "cursors"]
    /\ UNCHANGED <<feed, latest, etag, refetched, left, outputs, process, group, events, mixed>>

\* An exception ends the visit where it is: a locked database, a bad row.
Fault(a) ==
    /\ events < MaxEvents
    /\ V(a).pc \in StopPoints \ {"off", "done", "target"}
    /\ Go(a, "done")
    /\ events' = events + 1
    /\ mixed' = mixed \cup {V(a).p}
    /\ UNCHANGED <<feed, tables, outputs, process, group>>

VisitStep(a) ==
    \/ Fetch(a) \/ NotModified(a) \/ Persist(a) \/ Enqueue(a) \/ SetLatest(a) \/ FreeDone(a)
    \/ \E u \in Users : FlagFree(a, u) \/ MoveCursor(a, u)

-----------------------------------------------------------------------------
(* podcastsUpdater.main(): the loop over the podcasts. *)

\* The channel row is read when the walk moves on to it, the connections after.
Facing(p) == IF p = 0 THEN NoVisit
             ELSE [NoVisit EXCEPT !.pc = "target", !.p = p, !.latest = latest[p], !.etag = etag[p]]

\* run_updater() and consume_clean_stop()
Boot ==
    /\ proc = "boot"
    /\ proc' = "top" /\ crashFile' = FALSE /\ clean' = kv.stop
    /\ kv' = [kv EXCEPT !.restarted = @ \/ crashFile, !.stop = FALSE]
    /\ UNCHANGED <<feed, tables, outputs, visit, group, events, mixed>>

\* Mutant: a crash is not told from a clean stop, the podcast is tried again.
ResumeSame == IF clean \/ kv.restarted THEN kv.last ELSE IF kv.last = 1 THEN 1 ELSE kv.last + 1

\* resume_point()
Resume ==
    IF kv.restarted THEN kv.last + 1
    ELSE IF clean \/ kv.last = 1 THEN kv.last ELSE kv.last + 1

StartCircle ==
    /\ proc = "top"
    /\ proc' = "walk" /\ clean' = FALSE
    /\ kv' = [kv EXCEPT !.restarted = FALSE]
    /\ visit' = [visit EXCEPT !["circle"] = Facing(NextPolled(Resume))]
    /\ UNCHANGED <<feed, tables, outputs, crashFile, group, events, mixed>>

\* The connections of one podcast, and set_last_channel_id().
ReadTargets ==
    LET p == V("circle").p IN
    /\ At("circle", "target")
    /\ kv' = [kv EXCEPT !.last = p]
    /\ visit' = [visit EXCEPT !["circle"] =
            [@ EXCEPT !.pc = IF Targets(p) \cup FreeOf(p) = {} THEN "done" ELSE "fetch",
                      !.to = [ch \in Targets(p) |-> cursor[Bill(ch)][p]],
                      !.free = [u \in FreeOf(p) |-> cursor[u][p]],
                      !.left = [u \in {Bill(ch) : ch \in Targets(p)} |-> left[u]]]]
    /\ mixed' = IF V("refresh").p = p THEN mixed \cup {p} ELSE mixed
    /\ UNCHANGED <<feed, tables, outputs, crashFile, proc, clean, group, events>>

NextPodcast ==
    /\ At("circle", "done")
    /\ visit' = [visit EXCEPT !["circle"] = Facing(NextPolled(V("circle").p + 1))]
    /\ UNCHANGED <<feed, tables, outputs, process, group, events, mixed>>

EndCircle ==
    /\ proc = "walk" /\ At("circle", "off")
    /\ proc' = "top"
    /\ kv' = [kv EXCEPT !.last = 1, !.restarted = FALSE]
    /\ UNCHANGED <<feed, tables, outputs, crashFile, clean, visit, group, events, mixed>>

\* An exception outside a visit ends the circle; the cursor stays where it is.
CutCircle ==
    /\ events < MaxEvents
    /\ proc = "walk" /\ V("circle").pc \in {"off", "target", "done"}
    /\ proc' = "top" /\ visit' = [visit EXCEPT !["circle"] = NoVisit]
    /\ events' = events + 1
    /\ UNCHANGED <<feed, tables, outputs, kv, crashFile, clean, group, mixed>>

CircleStep == Boot \/ StartCircle \/ ReadTargets \/ NextPodcast \/ EndCircle

-----------------------------------------------------------------------------
(* update_feed_thread(): the same visit for one person, in the bot process. *)

Asked(u, p) ==
    /\ At("refresh", "off") /\ events < MaxEvents /\ sup # "off"
    /\ <<u, p>> \in Subs
    /\ visit' = [visit EXCEPT !["refresh"] =
            [NoVisit EXCEPT !.pc = "target", !.p = p, !.to = [ch \in {u} |-> cursor[u][p]],
                            !.left = [o \in {u} |-> left[u]]]]
    /\ events' = events + 1
    /\ mixed' = IF V("circle").p = p /\ ~At("circle", "target") THEN mixed \cup {p} ELSE mixed
    /\ UNCHANGED <<feed, tables, outputs, process, group>>

\* get_channel(), long after the connections were read.
ReadChannel ==
    /\ At("refresh", "target")
    /\ visit' = [visit EXCEPT !["refresh"] = [@ EXCEPT !.pc = "fetch",
                        !.latest = latest[V("refresh").p], !.etag = etag[V("refresh").p]]]
    /\ UNCHANGED <<feed, tables, outputs, process, group, events, mixed>>

Answered ==
    /\ At("refresh", "done")
    /\ visit' = [visit EXCEPT !["refresh"] = NoVisit]
    /\ UNCHANGED <<feed, tables, outputs, process, group, events, mixed>>

\* The bot goes down with the group; the send queue asks again after the restart.
RefreshDies ==
    /\ stopping /\ V("refresh").pc \in StopPoints \cup {"target", "done"}
    /\ visit' = [visit EXCEPT !["refresh"] = NoVisit]
    /\ mixed' = mixed \cup {V("refresh").p}
    /\ UNCHANGED <<feed, tables, outputs, process, group, events>>

-----------------------------------------------------------------------------
(* Deaths, the supervisor and deploys. *)

Died == proc' = "down" /\ visit' = [visit EXCEPT !["circle"] = NoVisit]
Running == proc # "down" /\ V("circle").pc \in StopPoints \cup {"off", "target", "done"}

Crash ==
    /\ Running /\ events < MaxEvents
    /\ Died /\ events' = events + 1
    /\ mixed' = mixed \cup {V("circle").p}
    /\ UNCHANGED <<feed, tables, outputs, kv, crashFile, clean, group>>

\* A feed that takes the process down whenever it is parsed.
KillerCrash ==
    /\ At("circle", "fetch") /\ V("circle").p \in Killer
    /\ Died
    /\ UNCHANGED <<feed, tables, outputs, kv, crashFile, clean, group, events, mixed>>

\* The shutdown handler: mark_clean_stop(), sys.exit(0).
Terminated ==
    /\ stopping /\ Running
    /\ Died /\ kv' = [kv EXCEPT !.stop = TRUE]
    /\ mixed' = mixed \cup {V("circle").p}
    /\ UNCHANGED <<feed, tables, outputs, crashFile, clean, group, events>>

\* SIGTERM to the group, which may meet the supervisor in the middle of a pass: the
\* bot is polled (and waited for, up to its backoff) before the updater.
Deploy ==
    /\ Deploys /\ ~stopping /\ events < MaxEvents
    /\ stopping' = TRUE /\ events' = events + 1
    /\ sup' \in IF sup = "idle" THEN {"idle", "pass"} ELSE {sup}
    /\ UNCHANGED <<feed, tables, outputs, process, visit, mixed>>

\* reap_and_restart() of a dead updater, whatever its exit code.
Reap ==
    /\ sup = "idle" /\ ~stopping /\ proc = "down"
    /\ sup' = "backoff" /\ crashFile' = TRUE
    /\ UNCHANGED <<feed, tables, outputs, kv, proc, clean, visit, stopping, events, mixed>>

\* The rest of the pass the signal came in: the updater may have left by now.
FinishPass ==
    /\ sup = "pass"
    /\ sup' = "idle" /\ crashFile' = (crashFile \/ proc = "down")
    /\ UNCHANGED <<feed, tables, outputs, kv, proc, clean, visit, stopping, events, mixed>>

Respawn ==
    /\ sup = "backoff"
    /\ sup' = "idle" /\ proc' = IF stopping THEN "down" ELSE "boot"
    /\ UNCHANGED <<feed, tables, outputs, kv, crashFile, clean, visit, stopping, events, mixed>>

\* terminate_all(): the children are down, the supervisor leaves.
Leave ==
    /\ sup = "idle" /\ stopping /\ proc = "down" /\ At("refresh", "off")
    /\ sup' = "off"
    /\ UNCHANGED <<feed, tables, outputs, process, visit, stopping, events, mixed>>

\* supervisord starts the new version: start_all().
Start ==
    /\ sup = "off"
    /\ sup' = "idle" /\ stopping' = FALSE /\ proc' = "boot"
    /\ UNCHANGED <<feed, tables, outputs, kv, crashFile, clean, visit, events, mixed>>

SupervisorStep == Reap \/ FinishPass \/ Respawn \/ Leave \/ Start

-----------------------------------------------------------------------------
(* The world around. *)

Publish(p) ==
    /\ feed[p] < News[p] /\ feed' = [feed EXCEPT ![p] = @ + 1]
    /\ UNCHANGED <<tables, outputs, process, visit, group, events, mixed>>

\* Mutant: the last notification is charged twice.
ChargeAnyway(u) ==
    /\ left[u] > -2
    /\ \E ch \in Chats, p \in Podcasts, e \in Episodes : Bill(ch) = u /\ queued[ch][p][e] > 0
    /\ left' = [left EXCEPT ![u] = @ - 1]
    /\ UNCHANGED <<feed, latest, etag, refetched, cursor, outputs, process, visit, group, events, mixed>>

\* A delivered episode is charged to its person (record_deliveries()).
Charge(u) ==
    /\ left[u] > 0
    /\ \E ch \in Chats, p \in Podcasts, e \in Episodes : Bill(ch) = u /\ queued[ch][p][e] > 0
    /\ left' = [left EXCEPT ![u] = @ - 1]
    /\ UNCHANGED <<feed, latest, etag, refetched, cursor, outputs, process, visit, group, events, mixed>>

\* mark_sub_seen(): the episode list, for whoever gets no files.
MarkSeen(u, p) ==
    /\ events < MaxEvents /\ <<u, p>> \in Subs /\ ~PaidNow(u) /\ latest[p] # Empty
    /\ cursor' = [cursor EXCEPT ![u][p] = latest[p]]
    /\ events' = events + 1
    /\ UNCHANGED <<feed, latest, etag, refetched, left, outputs, process, visit, group, mixed>>

\* add_sub() of somebody else writes channels.last_* from the list he saw.
StrangerSubscribes(p) ==
    /\ events < MaxEvents /\ latest[p] < feed[p]
    /\ latest' = [latest EXCEPT ![p] = feed[p]]
    /\ events' = events + 1
    /\ UNCHANGED <<feed, etag, refetched, cursor, left, outputs, process, visit, group, mixed>>

Environment ==
    \/ \E p \in Podcasts : Publish(p) \/ StrangerSubscribes(p)
    \/ \E u \in Users : Charge(u) \/ \E p \in Podcasts : MarkSeen(u, p) \/ Asked(u, p)

-----------------------------------------------------------------------------
Init ==
    /\ feed = [p \in Podcasts |-> IF p \in Unparsed THEN 1 ELSE 0]
    /\ latest = [p \in Podcasts |-> IF p \in Unparsed THEN Empty ELSE 0]
    /\ etag = [p \in Podcasts |-> IF p \in Unparsed THEN 1 ELSE 0]
    /\ refetched = [p \in Podcasts |-> Empty]
    /\ cursor = [u \in Users |-> latest]
    /\ left = Left0
    /\ queued = [ch \in Chats |-> [p \in Podcasts |-> [e \in Episodes |-> 0]]]
    /\ flagged = [u \in Users |-> [p \in Podcasts |-> 0]]
    /\ kv = [last |-> 1, restarted |-> FALSE, stop |-> FALSE]
    /\ crashFile = FALSE /\ proc = "boot" /\ clean = FALSE
    /\ visit = [a \in Actors |-> NoVisit]
    /\ sup = "idle" /\ stopping = FALSE
    /\ events = 0
    /\ mixed = {}

Next ==
    \/ \E a \in Actors : VisitStep(a) \/ FetchFails(a) \/ Fault(a)
    \/ CircleStep \/ CutCircle
    \/ ReadChannel \/ Answered \/ RefreshDies
    \/ Crash \/ KillerCrash \/ Terminated \/ Deploy
    \/ SupervisorStep
    \/ Environment

Spec == Init /\ [][Next]_vars

\* Threads run, the supervisor polls, supervisord restarts; a host that is asked
\* for ever answers in the end, unless its feed is a killer.
Fairness ==
    /\ \A a \in Actors : WF_vars(VisitStep(a) \/ FetchFails(a))
    /\ WF_vars(CircleStep) /\ WF_vars(SupervisorStep) /\ WF_vars(ReadChannel \/ Answered)
    /\ WF_vars(Terminated) /\ WF_vars(RefreshDies)
    /\ \A p \in Podcasts \ Killer : SF_vars(V("circle").p = p /\ (Fetch("circle") \/ NotModified("circle")))

FairSpec == Spec /\ Fairness

-----------------------------------------------------------------------------
CircleTypeOK ==
    /\ feed \in [Podcasts -> 0..MaxEp] /\ latest \in [Podcasts -> Cursors]
    /\ etag \in [Podcasts -> Cursors] /\ refetched \in [Podcasts -> Cursors]
    /\ cursor \in [Users -> [Podcasts -> Cursors]]
    /\ left \in [Users -> Nat \cup {-1}]
    /\ queued \in [Chats -> [Podcasts -> [Episodes -> 0..2]]]
    /\ flagged \in [Users -> [Podcasts -> 0..MaxEp]]
    /\ kv \in [last : Podcasts \cup {1}, restarted : BOOLEAN, stop : BOOLEAN]
    /\ crashFile \in BOOLEAN /\ clean \in BOOLEAN /\ stopping \in BOOLEAN
    /\ proc \in {"down", "boot", "top", "walk"}
    /\ sup \in {"idle", "pass", "backoff", "off"}
    /\ \A a \in Actors : V(a).pc \in VisitPoints /\ V(a).p \in Podcasts \cup {0}

\* People whose notifications never run out: what is theirs is not a matter of a budget.
Unlimited == {u \in Paid : Left0[u] = -1}

\* A cursor never stands on an episode its person was not sent, whatever refreshes,
\* stops and errors came between reading the cursor and writing it.
NothingSkipped ==
    \A u \in Unlimited, p \in Podcasts \ Unparsed, e \in Episodes :
        <<u, p>> \in Subs /\ e <= cursor[u][p] /\ e > feed[p] - Window => queued[u][p][e] > 0

\* An episode is put in the queue twice for a chat only where a visit was cut short
\* or two visits of its podcast overlapped.
TwiceForCause ==
    \A ch \in Chats, p \in Podcasts :
        (\E e \in Episodes : queued[ch][p][e] > 1) => p \in mixed

\* News of every podcast but a killer reaches the paying listeners' queue, though a
\* killer takes the process down on every circle and it goes on behind the killer.
NewsReachPayers ==
    \A u \in Unlimited, p \in Podcasts \ (Killer \cup Unparsed), e \in Episodes :
        <<u, p>> \in Subs =>
            (feed[p] = e ~> queued[u][p][e] > 0 \/ feed[p] > e \/ p \in mixed)

\* The same where a visit was cut short: what a restart promises.
RestartLosesNothing ==
    \A u \in Unlimited, p \in Podcasts \ (Killer \cup Unparsed), e \in Episodes :
        <<u, p>> \in Subs => (feed[p] = e ~> queued[u][p][e] > 0 \/ feed[p] > e)

\* Whoever has no notifications left is told of a new episode by a digest flag, or
\* was sent it before.
NewsReachFree ==
    \A u \in Users, p \in Podcasts \ (Killer \cup Unparsed), e \in Episodes :
        <<u, p>> \in Subs =>
            (feed[p] = e /\ ~PaidNow(u) ~> flagged[u][p] >= e \/ cursor[u][p] >= e \/ feed[p] > e
                                          \/ p \in mixed)

\* An owner and all their channels draw from one budget: a visit never reserves more
\* notifications than were left when it read them.
OneBudget ==
    \A a \in Actors : \A u \in DOMAIN V(a).left : Left0[u] >= 0 => V(a).left[u] >= 0

=============================================================================
