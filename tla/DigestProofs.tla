---------------------------- MODULE DigestProofs ----------------------------
(***************************************************************************)
(* Proofs about Digest, for any number of chats, shows, revisions, stops   *)
(* and errors: the types, that nothing flagged is forgotten, and that a    *)
(* chat hears once a week, and once of an episode, unless a step between a *)
(* message and its marks was lost.                                         *)
(***************************************************************************)
EXTENDS Digest, Sequences, TLAPS

-----------------------------------------------------------------------------
(***************************************************************************)
(* Types.  Beside those of DigestTypeOK: the watcher has a chat in every   *)
(* step from its claim to its last write, and that chat's row is leased    *)
(* with its attempts; and a row is tried more than MAX_ATTEMPTS times only *)
(* as often as something was stopped or raised.                            *)
(***************************************************************************)
Entry == [ep : Episodes, rev : 0..MaxRev]
Snaps == UNION {[D -> Entry] : D \in SUBSET Shows}

Pcs == {"down", "loop", "claim", "check", "read", "send", "mark", "ack", "close", "retry"}

RowSet == [status : {"absent", "pending", "leased", "done", "failed"},
           attempts : 0..(MaxAttempts + MaxEvents),
           lease : {"none", "live", "expired"}, ready : BOOLEAN]

WorkerOK ==
    /\ worker \in [pc : Pcs, u : Users \cup {0}, attempts : 0..(MaxAttempts + MaxEvents),
                   snap : Snaps]
    /\ worker.u = 0 <=> worker.pc \in {"down", "loop", "claim"}

UpdaterOK ==
    /\ updater \in [show : Shows \cup {0}, head : Episodes, flags : SUBSET Users,
                    todo : SUBSET Users, queued : SUBSET Users]
    /\ updater.flags = {} \/ (updater.flags = updater.todo /\ updater.queued = {})
    /\ updater.queued \subseteq updater.todo
    /\ updater.show = 0 => updater.todo = {}

HistoryOK ==
    /\ events \in 0..MaxEvents
    /\ flagged \in [Users -> [Shows -> Episodes]] /\ told \in [Users -> [Shows -> Episodes]]
    /\ messages \in [Users -> 0..2] /\ twice \subseteq Users /\ cut \subseteq Users

WorkedOn ==
    worker.u # 0 => /\ row[worker.u].status = "leased"
                    /\ row[worker.u].attempts = worker.attempts

TriesCounted ==
    \A u \in Users :
        /\ row[u].attempts <= MaxAttempts + events
        /\ \/ row[u].status = "pending"
           \/ row[u].status = "leased" /\ worker.u # u
           => row[u].attempts < MaxAttempts + events

Shape == DigestTypeOK /\ WorkerOK /\ UpdaterOK /\ HistoryOK /\ WorkedOn /\ TriesCounted

LEMMA Numbers ==
    /\ MaxAttempts \in Nat \ {0} /\ MaxEp \in Nat /\ MaxRev \in Nat /\ MaxEvents \in Nat
    /\ 0 \notin Users /\ 0 \notin Shows
    /\ 0 \in Episodes /\ Episodes \subseteq Nat
BY DigestAssumption DEF DigestAssumption, Episodes

LEMMA EmptySnap == << >> \in Snaps
<1>1. << >> \in Seq(Entry) /\ Len(<< >>) = 0
  OBVIOUS
<1>2. << >> \in [1..0 -> Entry] /\ 1..0 = {}
  BY <1>1
<1> QED  BY <1>2 DEF Snaps

LEMMA SnapShows ==
    ASSUME NEW f \in Snaps
    PROVE  DOMAIN f \subseteq Shows /\ \A s \in DOMAIN f : f[s] \in Entry
BY DEF Snaps

LEMMA RowTypes ==
    ASSUME NEW r \in RowSet
    PROVE  /\ NoRow \in RowSet /\ [NoRow EXCEPT !.status = "pending"] \in RowSet
           /\ \A status \in {"pending", "done", "failed"} :
                 /\ Closed(r, status) \in RowSet
                 /\ Closed(r, status).status = status
                 /\ Closed(r, status).attempts = r.attempts
           /\ [Closed(r, "pending") EXCEPT !.ready = FALSE] \in RowSet
           /\ [Closed(r, "pending") EXCEPT !.ready = FALSE].status = "pending"
           /\ [Closed(r, "pending") EXCEPT !.ready = FALSE].attempts = r.attempts
<1>1. NoRow \in RowSet /\ [NoRow EXCEPT !.status = "pending"] \in RowSet
  <2>1. 0 \in 0..(MaxAttempts + MaxEvents)
    BY Numbers
  <2>2. NoRow \in RowSet
    BY <2>1 DEF RowSet, NoRow
  <2> QED  BY <2>2 DEF RowSet
<1>2. ASSUME NEW status \in {"pending", "done", "failed"}
      PROVE  /\ Closed(r, status) \in RowSet
             /\ Closed(r, status).status = status
             /\ Closed(r, status).attempts = r.attempts
  BY DEF RowSet, Closed
<1>3. /\ [Closed(r, "pending") EXCEPT !.ready = FALSE] \in RowSet
      /\ [Closed(r, "pending") EXCEPT !.ready = FALSE].status = "pending"
      /\ [Closed(r, "pending") EXCEPT !.ready = FALSE].attempts = r.attempts
  <2>1. Closed(r, "pending") \in RowSet
    BY <1>2
  <2>2. \A q \in RowSet : /\ [q EXCEPT !.ready = FALSE] \in RowSet
                          /\ [q EXCEPT !.ready = FALSE].status = q.status
                          /\ [q EXCEPT !.ready = FALSE].attempts = q.attempts
    BY DEF RowSet
  <2> QED  BY <1>2, <2>1, <2>2
<1> QED  BY <1>1, <1>2, <1>3

\* claim()'s UPDATE.
LEMMA TakenRow ==
    ASSUME NEW r \in RowSet, r.attempts + 1 \in 0..(MaxAttempts + MaxEvents)
    PROVE  LET q == [r EXCEPT !.status = "leased", !.attempts = @ + 1, !.lease = "live"] IN
           q \in RowSet /\ q.status = "leased" /\ q.attempts = r.attempts + 1
BY DEF RowSet

LEMMA WorkerTypes ==
    ASSUME WorkerOK, NEW pc \in Pcs
    PROVE  LET w == [worker EXCEPT !.pc = pc] IN
           /\ w \in [pc : Pcs, u : Users \cup {0}, attempts : 0..(MaxAttempts + MaxEvents),
                     snap : Snaps]
           /\ w.pc = pc /\ w.u = worker.u /\ w.attempts = worker.attempts
           /\ w.snap = worker.snap
BY DEF WorkerOK

LEMMA IdleTypes ==
    ASSUME NEW w \in {Idle, Down}
    PROVE  /\ w \in [pc : Pcs, u : Users \cup {0}, attempts : 0..(MaxAttempts + MaxEvents),
                     snap : Snaps]
           /\ w.u = 0 /\ w.pc \in {"loop", "down"}
<1>1. 0 \in 0..(MaxAttempts + MaxEvents)
  BY Numbers
<1> QED  BY <1>1, EmptySnap DEF Idle, Down, Pcs

\* A step that leaves the table and the watcher alone may only raise `events`.
LEMMA TableAlike ==
    ASSUME Shape, UNCHANGED <<table, worker, inFlight>>,
           events' \in 0..MaxEvents, events <= events'
    PROVE  /\ row' \in [Users -> RowSet] /\ older' \in [Users -> SUBSET Queued']
           /\ WorkerOK' /\ WorkedOn' /\ TriesCounted'
<1>1. row \in [Users -> RowSet] /\ older \in [Users -> SUBSET Queued] /\ events \in Nat
  BY Numbers DEF Shape, DigestTypeOK, RowSet, HistoryOK
<1>2. row' = row /\ older' = older /\ worker' = worker /\ Queued' = Queued
  BY DEF table, Queued
<1>3. events' \in Nat
  BY Numbers
<1>4. \A u \in Users : row[u].attempts \in Nat
  BY <1>1, Numbers DEF RowSet
<1> QED
  BY <1>1, <1>2, <1>3, <1>4, Numbers DEF Shape, WorkerOK, WorkedOn, TriesCounted

LEMMA ShapeUpdater ==
    ASSUME Shape, UpdaterStep \/ FlagFails \/ UpdaterStops
    PROVE  Shape'
<1> USE Numbers DEF Shape, DigestTypeOK, UpdaterOK, HistoryOK
<1>0. row \in [Users -> RowSet] /\ older \in [Users -> SUBSET Queued]
  BY DEF RowSet
<1>1. CASE FlagDigest
  <2>1. rev + 1 \in 0..MaxRev
    BY <1>1 DEF FlagDigest
  <2>2. updater.show \in Shows
    BY <1>1 DEF FlagDigest
  <2>3. [ep |-> updater.head, rev |-> rev + 1] \in Entry
    BY <2>1 DEF Entry
  <2>4. entries' \in [Users -> [Shows -> Entry]] /\ flagged' \in [Users -> [Shows -> Episodes]]
    <3>1. \A u \in Users : entries[u] \in [Shows -> Entry]
      BY DEF Entry
    <3>2. \A u \in Users :
             [entries[u] EXCEPT ![updater.show] = [ep |-> updater.head, rev |-> rev + 1]]
               \in [Shows -> Entry]
      BY <2>2, <2>3, <3>1
    <3>3. entries' \in [Users -> [Shows -> Entry]]
      BY <1>1, <3>1, <3>2 DEF FlagDigest
    <3>4. flagged' \in [Users -> [Shows -> Episodes]]
      BY <1>1 DEF FlagDigest
    <3> QED  BY <3>3, <3>4
  <2>5. updater' = [updater EXCEPT !.flags = {}]
    BY <1>1 DEF FlagDigest
  <2>6. UpdaterOK'
    BY <2>5
  <2>7. /\ row' \in [Users -> RowSet] /\ older' \in [Users -> SUBSET Queued']
        /\ WorkerOK' /\ WorkedOn' /\ TriesCounted'
    BY <1>1, TableAlike DEF FlagDigest
  <2> QED
    BY <1>1, <2>1, <2>4, <2>6, <2>7
       DEF FlagDigest, people, table, RowSet, Entry, WorkerOK
<1>2. CASE FlagFails \/ UpdaterStops \/ \E u \in Users : MoveCursor(u)
  <2>1. UpdaterOK'
    <3>1. CASE FlagFails
      <4>1. updater' = [updater EXCEPT !.flags = {}]
        BY <3>1 DEF FlagFails
      <4> QED  BY <4>1
    <3>2. CASE UpdaterStops
      BY <3>2 DEF UpdaterStops, NoVisit
    <3>3. ASSUME NEW u \in Users, MoveCursor(u) PROVE UpdaterOK'
      <4>1. CASE updater.todo = {u}
        BY <3>3, <4>1 DEF MoveCursor, NoVisit
      <4>2. CASE updater.todo # {u}
        <5>1. updater' = [updater EXCEPT !.todo = @ \ {u}, !.queued = @ \ {u}]
          BY <3>3, <4>2 DEF MoveCursor
        <5>2. updater.flags = {}
          BY <3>3 DEF MoveCursor
        <5> QED  BY <5>1, <5>2
      <4> QED  BY <4>1, <4>2
    <3> QED  BY <1>2, <3>1, <3>2, <3>3
  <2>2. events' \in 0..MaxEvents /\ events <= events'
    <3>1. \/ events' = events + 1 /\ events < MaxEvents
          \/ events' = events
      BY <1>2 DEF FlagFails, UpdaterStops, MoveCursor
    <3> QED  BY <3>1
  <2>3. UNCHANGED <<table, worker, inFlight, latest, people, entries, rev, flagged, told,
                    messages, twice>>
    BY <1>2 DEF FlagFails, UpdaterStops, MoveCursor, history
  <2>4. cursor' \in [Users -> [Shows -> Episodes]] /\ cut' \subseteq Users
    <3>1. CASE FlagFails \/ UpdaterStops
      BY <3>1 DEF FlagFails, UpdaterStops, history
    <3>2. ASSUME NEW u \in Users, MoveCursor(u)
          PROVE  cursor' \in [Users -> [Shows -> Episodes]] /\ cut' \subseteq Users
      BY <3>2 DEF MoveCursor, history
    <3> QED  BY <1>2, <3>1, <3>2
  <2>5. /\ row' \in [Users -> RowSet] /\ older' \in [Users -> SUBSET Queued']
        /\ WorkerOK' /\ WorkedOn' /\ TriesCounted'
    BY <2>2, <2>3, TableAlike
  <2> QED  BY <2>1, <2>2, <2>3, <2>4, <2>5 DEF people, RowSet, WorkerOK
<1>3. ASSUME NEW u \in Users, Enqueue(u) PROVE Shape'
  <2>1. UpdaterOK'
    <3>1. /\ updater' = [updater EXCEPT !.queued = @ \cup {u}]
          /\ u \in updater.todo /\ updater.flags = {}
      BY <1>3 DEF Enqueue
    <3> QED  BY <3>1
  <2>2. UNCHANGED <<worker, inFlight, latest, cursor, people, entries, rev, history, events>>
    BY <1>3 DEF Enqueue
  <2>3. CASE UNCHANGED table
    <3>1. /\ row' \in [Users -> RowSet] /\ older' \in [Users -> SUBSET Queued']
          /\ WorkerOK' /\ WorkedOn' /\ TriesCounted'
      BY <2>2, <2>3, TableAlike
    <3> QED  BY <2>1, <2>2, <3>1 DEF people, history, RowSet, WorkerOK
  <2>4. CASE ~UNCHANGED table
    <3> DEFINE new == [NoRow EXCEPT !.status = "pending"]
    <3>1. /\ row[u].status \notin {"pending", "leased"}
          /\ row' = [row EXCEPT ![u] = new]
          /\ older' = [v \in Users |-> IF v = u THEN Queued \ {u} ELSE older[v] \ {u}]
      BY <1>3, <2>4 DEF Enqueue
    <3>2. new \in RowSet /\ new.status = "pending" /\ new.attempts = 0
      BY <1>0, RowTypes DEF NoRow
    <3> HIDE DEF new
    <3>3. row' \in [Users -> RowSet]
      BY <1>0, <3>1, <3>2
    <3>4. Queued' = Queued \cup {u}
      BY <1>0, <3>1, <3>2 DEF Queued
    <3>5. older' \in [Users -> SUBSET Queued']
      BY <1>0, <3>1, <3>4 DEF Queued
    <3>6. WorkerOK' /\ WorkedOn'
      BY <1>0, <2>2, <3>1 DEF WorkerOK, WorkedOn
    <3>7. TriesCounted'
      BY <1>0, <2>2, <3>1, <3>2 DEF TriesCounted
    <3> QED  BY <2>1, <2>2, <3>3, <3>5, <3>6, <3>7 DEF people, history, RowSet, WorkerOK
  <2> QED  BY <2>3, <2>4
<1> QED  BY <1>1, <1>2, <1>3 DEF UpdaterStep

\* A step of the watcher that leaves the table alone and keeps its chat, or lets
\* it go at the price of an event.
LEMMA WatcherAlike ==
    ASSUME Shape, UNCHANGED table, WorkerOK',
           events' \in 0..MaxEvents, events <= events',
           \/ worker'.u = worker.u /\ worker'.attempts = worker.attempts
           \/ worker'.u = 0 /\ (worker.u = 0 \/ events < events')
    PROVE  /\ row' \in [Users -> RowSet] /\ older' \in [Users -> SUBSET Queued']
           /\ WorkedOn' /\ TriesCounted'
<1>1. /\ row \in [Users -> RowSet] /\ older \in [Users -> SUBSET Queued]
      /\ events \in Nat /\ events' \in Nat
  BY Numbers DEF Shape, DigestTypeOK, RowSet, HistoryOK
<1>2. row' = row /\ older' = older /\ Queued' = Queued
  BY DEF table, Queued
<1>3. WorkedOn'
  BY <1>2 DEF Shape, WorkedOn
<1>4. ASSUME NEW u \in Users
      PROVE  /\ row[u].attempts <= MaxAttempts + events'
             /\ \/ row[u].status = "pending"
                \/ row[u].status = "leased" /\ worker'.u # u
                => row[u].attempts < MaxAttempts + events'
  <2>1. row[u].attempts \in Nat
    BY <1>1, Numbers DEF RowSet
  <2>2. u # 0
    BY Numbers
  <2>3. row[u].attempts <= MaxAttempts + events
    BY DEF Shape, TriesCounted
  <2>4. CASE row[u].status = "pending" \/ (row[u].status = "leased" /\ worker.u # u)
    BY <1>1, <2>1, <2>3, <2>4, Numbers DEF Shape, TriesCounted
  <2>5. CASE row[u].status = "leased" /\ worker.u = u
    BY <1>1, <2>1, <2>2, <2>3, <2>5, Numbers
  <2> QED  BY <1>1, <2>1, <2>3, <2>4, <2>5, Numbers
<1> QED  BY <1>1, <1>2, <1>3, <1>4 DEF TriesCounted

\* The watcher's steps that write nothing but where it is and what it heard.
LEMMA ShapeWatcherReads ==
    ASSUME Shape,
           \/ Sleep \/ Check \/ ReadEntries \/ Send \/ Flooded \/ MarkSent \/ AckDigest
           \/ NotSent \/ StepRaises \/ Stop \/ StartUnreclaimed
    PROVE  Shape'
<1> USE Numbers DEF Shape, DigestTypeOK
<1>0. worker.u \in Users \cup {0}
  OBVIOUS
<1>1. events' \in 0..MaxEvents /\ events <= events'
  <2>1. \/ events' = events + 1 /\ events < MaxEvents
        \/ events' = events
    BY DEF Sleep, Check, ReadEntries, Send, Flooded, MarkSent, AckDigest, NotSent, StepRaises,
           Stop, StartUnreclaimed
  <2> QED  BY <2>1 DEF HistoryOK
<1>2. /\ UNCHANGED <<table, latest, cursor, rev, updater, follows, standing, flagged>>
      /\ inFlight' \subseteq Users
  BY DEF Sleep, Check, ReadEntries, Send, Flooded, MarkSent, AckDigest, NotSent, StepRaises,
         Stop, StartUnreclaimed, Hear, people, history
<1>3. /\ WorkerOK'
      /\ \/ worker'.u = worker.u /\ worker'.attempts = worker.attempts
         \/ worker'.u = 0 /\ (worker.u = 0 \/ events < events')
  <2>1. ASSUME NEW pc \in Pcs, Go(pc), worker.u = 0 <=> pc \in {"down", "loop", "claim"}
        PROVE  WorkerOK' /\ worker'.u = worker.u /\ worker'.attempts = worker.attempts
    BY <2>1, WorkerTypes DEF Go, WorkerOK
  <2>2. ASSUME worker' \in {Idle, Down}
        PROVE  WorkerOK' /\ worker'.u = 0
    BY <2>2, IdleTypes DEF WorkerOK
  <2>3. CASE Check \/ Send \/ Flooded \/ MarkSent \/ AckDigest \/ NotSent
    <3>1. PICK pc \in Pcs \ {"down", "loop", "claim"} : Go(pc)
      BY <2>3 DEF Check, Send, Flooded, MarkSent, AckDigest, NotSent, Pcs
    <3>2. worker.u # 0
      BY <2>3 DEF Check, Send, Flooded, MarkSent, AckDigest, NotSent, At, WorkerOK
    <3> QED  BY <2>1, <3>1, <3>2
  <2>4. CASE Sleep \/ Stop
    <3>1. worker' \in {Idle, Down} /\ (worker.u = 0 \/ events' = events + 1)
      BY <2>4 DEF Sleep, Stop, At, WorkerOK
    <3> QED  BY <2>2, <3>1 DEF HistoryOK
  <2>5. CASE StartUnreclaimed
    BY <2>1, <2>5 DEF StartUnreclaimed, At, WorkerOK, Pcs
  <2>6. CASE StepRaises
    <3>1. CASE At("close") \/ At("retry")
      <4>1. worker' = Idle /\ events' = events + 1
        BY <2>6, <3>1 DEF StepRaises
      <4> QED  BY <2>2, <4>1 DEF HistoryOK
    <3>2. CASE ~(At("close") \/ At("retry"))
      <4>1. Go("retry") /\ worker.u # 0
        BY <2>6, <3>2 DEF StepRaises, Go, At, WorkerOK
      <4> QED  BY <2>1, <4>1 DEF Pcs
    <3> QED  BY <3>1, <3>2
  <2>7. CASE ReadEntries
    <3> DEFINE snap == [s \in Newest(worker.u) |-> entries[worker.u][s]]
               pc == IF Newest(worker.u) = {}
                        /\ \E s \in Shows : entries[worker.u][s].ep # 0
                     THEN "close" ELSE "send"
    <3>1. worker' = [worker EXCEPT !.snap = snap, !.pc = pc] /\ worker.u # 0
      BY <2>7 DEF ReadEntries, At, WorkerOK
    <3>2. snap \in Snaps
      <4>1. Newest(worker.u) \subseteq Shows
        BY DEF Newest, Wanted
      <4>2. worker.u \in Users
        BY <3>1
      <4>3. \A s \in Newest(worker.u) : entries[worker.u][s] \in Entry
        BY <4>1, <4>2 DEF Entry
      <4>4. snap \in [Newest(worker.u) -> Entry]
        BY <4>3
      <4> HIDE DEF snap
      <4> QED  BY <4>1, <4>4 DEF Snaps
    <3>3. pc \in Pcs \ {"down", "loop", "claim"}
      BY DEF Pcs
    <3> HIDE DEF snap, pc
    <3> QED  BY <3>1, <3>2, <3>3 DEF WorkerOK
  <2> QED  BY <2>3, <2>4, <2>5, <2>6, <2>7
<1>4. /\ row' \in [Users -> RowSet] /\ older' \in [Users -> SUBSET Queued']
      /\ WorkedOn' /\ TriesCounted'
  BY <1>1, <1>2, <1>3, WatcherAlike
<1>5. entries' \in [Users -> [Shows -> [ep : Episodes, rev : 0..MaxRev]]]
  <2>1. CASE AckDigest
    <3>1. worker.u \in Users
      BY <2>1 DEF AckDigest, At, WorkerOK
    <3>2. [ep |-> 0, rev |-> 0] \in Entry
      BY DEF Entry
    <3>3. [s \in Shows |-> IF Said(s) THEN [ep |-> 0, rev |-> 0] ELSE entries[worker.u][s]]
            \in [Shows -> Entry]
      BY <3>1, <3>2 DEF Entry
    <3>4. entries' \in [Users -> [Shows -> Entry]]
      BY <2>1, <3>1, <3>3 DEF AckDigest, Entry
    <3> QED  BY <3>4 DEF Entry
  <2>2. CASE ~AckDigest
    BY <2>2 DEF Sleep, Check, ReadEntries, Send, Flooded, MarkSent, NotSent, StepRaises,
           Stop, StartUnreclaimed
  <2> QED  BY <2>1, <2>2
<1>6. due' \subseteq Users
  BY DEF Sleep, Check, ReadEntries, Send, Flooded, MarkSent, AckDigest, NotSent, StepRaises,
         Stop, StartUnreclaimed, people
<1>7. HistoryOK'
  <2>1. ASSUME NEW u \in Users, Hear(u), worker.u = u
        PROVE  /\ told' \in [Users -> [Shows -> Episodes]] /\ messages' \in [Users -> 0..2]
               /\ twice' \subseteq Users
    <3>1. \A s \in DOMAIN worker.snap : worker.snap[s].ep \in Episodes
      BY SnapShows DEF WorkerOK, Entry
    <3>2. [s \in Shows |-> IF s \in DOMAIN worker.snap /\ worker.snap[s].ep > told[u][s]
                           THEN worker.snap[s].ep ELSE told[u][s]] \in [Shows -> Episodes]
      BY <3>1 DEF HistoryOK
    <3>3. told' \in [Users -> [Shows -> Episodes]]
      BY <2>1, <3>2 DEF Hear, HistoryOK
    <3>4. messages' \in [Users -> 0..2]
      <4>1. (IF messages[u] = 2 THEN 2 ELSE messages[u] + 1) \in 0..2
        <5>1. messages[u] \in 0..2
          BY DEF HistoryOK
        <5> QED  BY <5>1
      <4> QED  BY <2>1, <4>1 DEF Hear, HistoryOK
    <3>5. twice' \subseteq Users
      BY <2>1 DEF Hear, HistoryOK
    <3> QED  BY <3>3, <3>4, <3>5
  <2>2. worker.u # 0 => worker.u \in Users
    OBVIOUS
  <2>3. CASE Send \/ NotSent
    <3>1. worker.u \in Users
      BY <2>3 DEF Send, NotSent, At, WorkerOK
    <3>2. \/ UNCHANGED history
          \/ Hear(worker.u) /\ cut' \in {cut, cut \cup {worker.u}}
      BY <2>3 DEF Send, NotSent
    <3> QED  BY <1>1, <1>2, <2>1, <3>1, <3>2 DEF HistoryOK, history
  <2>4. CASE StepRaises \/ Stop
    <3>1. cut' = cut \/ (worker.u # 0 /\ cut' = cut \cup {worker.u})
      BY <2>4 DEF StepRaises, Stop, Lost, At, WorkerOK
    <3>2. UNCHANGED <<told, messages, twice>>
      BY <2>4 DEF StepRaises, Stop
    <3> QED  BY <1>1, <1>2, <2>2, <3>1, <3>2 DEF HistoryOK
  <2>5. CASE ~(Send \/ NotSent \/ StepRaises \/ Stop)
    <3>1. UNCHANGED history
      BY <2>5 DEF Sleep, Check, ReadEntries, Flooded, MarkSent, AckDigest, StartUnreclaimed
    <3> QED  BY <1>1, <3>1 DEF HistoryOK, history
  <2> QED  BY <2>3, <2>4, <2>5
<1>8. UpdaterOK'
  BY <1>2 DEF UpdaterOK
<1> QED  BY <1>1, <1>2, <1>3, <1>4, <1>5, <1>6, <1>7, <1>8 DEF WorkerOK, RowSet

\* What a step of the watcher that writes its row leaves alone.
LEMMA TableOnly ==
    ASSUME Shape, UNCHANGED <<latest, cursor, people, entries, rev, updater, history, events>>,
           inFlight' \subseteq Users, row' \in [Users -> RowSet],
           older' \in [Users -> SUBSET Queued'], WorkerOK', WorkedOn', TriesCounted'
    PROVE  Shape'
BY DEF Shape, DigestTypeOK, UpdaterOK, HistoryOK, WorkerOK, RowSet, people, history

LEMMA ReleasedRows ==
    ASSUME Shape, NEW S \in SUBSET LeasedRows, row' = Released(S), older' = older,
           worker.u = 0, worker'.u = 0, events' = events
    PROVE  /\ row' \in [Users -> RowSet] /\ older' \in [Users -> SUBSET Queued']
           /\ WorkedOn' /\ TriesCounted'
<1>1. row \in [Users -> RowSet] /\ older \in [Users -> SUBSET Queued]
  BY DEF Shape, DigestTypeOK, RowSet
<1>2. \A u \in Users : IF u \in S THEN row'[u] = Closed(row[u], "pending")
                                  ELSE row'[u] = row[u]
  BY DEF Released
<1>3. row' \in [Users -> RowSet]
  BY <1>1, RowTypes DEF Released
<1>4. \A u \in Users : /\ row'[u].attempts = row[u].attempts
                       /\ u \in S => row[u].status = "leased"
                       /\ u \in S => row'[u].status = "pending"
  <2> SUFFICES ASSUME NEW u \in Users
               PROVE  /\ row'[u].attempts = row[u].attempts
                      /\ u \in S => row[u].status = "leased"
                      /\ u \in S => row'[u].status = "pending"
    OBVIOUS
  <2>1. /\ Closed(row[u], "pending").attempts = row[u].attempts
        /\ Closed(row[u], "pending").status = "pending"
    BY <1>1, RowTypes
  <2> QED  BY <1>2, <2>1 DEF LeasedRows
<1>5. Queued' = Queued
  BY <1>2, <1>4 DEF Queued
<1>6. TriesCounted'
  <2>1. 0 \notin Users
    BY Numbers
  <2> QED  BY <1>2, <1>4, <2>1 DEF Shape, TriesCounted
<1> QED  BY <1>1, <1>3, <1>5, <1>6 DEF WorkedOn

LEMMA ShapeWatcherWrites ==
    ASSUME Shape, Start \/ Reclaim \/ Claim \/ MarkDone \/ FailOrRetry
    PROVE  Shape'
<1> USE Numbers
<1>0. /\ row \in [Users -> RowSet] /\ older \in [Users -> SUBSET Queued]
      /\ inFlight \subseteq Users /\ events \in 0..MaxEvents
  BY DEF Shape, DigestTypeOK, RowSet, HistoryOK
<1>1. CASE Start \/ Reclaim
  <2>1. PICK pc \in {"loop", "claim"} : Go(pc)
    BY <1>1 DEF Start, Reclaim
  <2>2. worker.u = 0
    BY <1>1 DEF Start, Reclaim, Shape, WorkerOK, At
  <2>3. WorkerOK' /\ worker'.u = 0
    BY <2>1, <2>2, WorkerTypes DEF Go, Shape, WorkerOK, Pcs
  <2>4. PICK S \in SUBSET LeasedRows : row' = Released(S)
    BY <1>1 DEF Start, Reclaim
  <2>5. UNCHANGED <<latest, cursor, people, entries, rev, older, inFlight, updater, history,
                    events>>
    BY <1>1 DEF Start, Reclaim
  <2> QED  BY <1>0, <2>2, <2>3, <2>4, <2>5, ReleasedRows, TableOnly
<1>2. CASE Claim
  <2>1. PICK u \in Users :
           /\ Ready(u)
           /\ row' = [row EXCEPT ![u].status = "leased", ![u].attempts = @ + 1,
                                 ![u].lease = "live"]
           /\ inFlight' = inFlight \cup {u}
           /\ worker' = [Idle EXCEPT !.pc = "check", !.u = u, !.attempts = row[u].attempts + 1]
    BY <1>2 DEF Claim
  <2>2. /\ worker.u = 0
        /\ UNCHANGED <<latest, cursor, people, entries, rev, older, updater, history, events>>
    BY <1>2 DEF Claim, At, Shape, WorkerOK
  <2>3. /\ row[u] \in RowSet /\ row[u].status = "pending"
        /\ row[u].attempts \in Nat /\ row[u].attempts < MaxAttempts + events
    BY <1>0, <2>1 DEF Ready, Shape, TriesCounted, RowSet
  <2>4. row[u].attempts + 1 \in 0..(MaxAttempts + MaxEvents)
    BY <1>0, <2>3
  <2> DEFINE new == [row[u] EXCEPT !.status = "leased", !.attempts = @ + 1, !.lease = "live"]
  <2>5. /\ new \in RowSet /\ new.status = "leased" /\ new.attempts = row[u].attempts + 1
        /\ row' = [row EXCEPT ![u] = new]
    BY <2>1, <2>3, <2>4, TakenRow
  <2> HIDE DEF new
  <2>6. row' \in [Users -> RowSet]
    BY <1>0, <2>5
  <2>7. Queued' = Queued
    BY <1>0, <2>3, <2>5 DEF Queued
  <2>8. /\ WorkerOK' /\ worker'.u = u /\ worker'.attempts = row[u].attempts + 1
    <3>1. worker' = [pc |-> "check", u |-> u, attempts |-> row[u].attempts + 1,
                     snap |-> << >>]
      BY <2>1 DEF Idle
    <3> QED  BY <2>4, <3>1, EmptySnap DEF WorkerOK, Pcs
  <2>9. WorkedOn' /\ TriesCounted'
    <3>1. WorkedOn'
      BY <1>0, <2>5, <2>8 DEF WorkedOn
    <3>2. \A v \in Users \ {u} : row'[v] = row[v]
      BY <1>0, <2>5
    <3>3. row'[u] = new
      BY <1>0, <2>5
    <3>4. row[u].attempts + 1 <= MaxAttempts + events
      BY <1>0, <2>3
    <3>5. ASSUME NEW v \in Users
          PROVE  /\ row'[v].attempts <= MaxAttempts + events
                 /\ row'[v].status = "pending" \/ (row'[v].status = "leased" /\ u # v)
                    => row'[v].attempts < MaxAttempts + events
      <4>1. CASE v = u
        BY <2>5, <3>3, <3>4, <4>1
      <4>2. CASE v # u
        BY <2>2, <3>2, <4>2 DEF Shape, TriesCounted
      <4> QED  BY <4>1, <4>2
    <3> QED  BY <2>2, <2>8, <3>1, <3>5 DEF TriesCounted
  <2>10. inFlight' \subseteq Users /\ older' \in [Users -> SUBSET Queued']
    BY <1>0, <2>1, <2>2, <2>7
  <2> QED  BY <2>2, <2>6, <2>8, <2>9, <2>10, TableOnly
<1>3. CASE MarkDone \/ FailOrRetry
  <2> DEFINE u == worker.u
  <2>1. u \in Users /\ row[u] \in RowSet
    BY <1>0, <1>3 DEF MarkDone, FailOrRetry, At, Shape, WorkerOK
  <2>2. row[u].status = "leased" /\ Holds
    BY <2>1 DEF Shape, WorkedOn, Holds
  <2>3. /\ worker' = Idle /\ inFlight' \subseteq Users
        /\ UNCHANGED <<latest, cursor, people, entries, rev, older, updater, history, events>>
    BY <1>0, <1>3 DEF MarkDone, FailOrRetry
  <2>4. WorkerOK' /\ worker'.u = 0
    BY <2>3, IdleTypes DEF WorkerOK
  <2>5. PICK new \in RowSet :
           /\ row' = [row EXCEPT ![u] = new]
           /\ new.status \in {"pending", "done", "failed"} /\ new.attempts = row[u].attempts
           /\ new.status = "pending" => row[u].attempts < MaxAttempts
    <3>0. /\ \A status \in {"done", "failed"} :
                /\ Closed(row[u], status) \in RowSet
                /\ Closed(row[u], status).status = status
                /\ Closed(row[u], status).attempts = row[u].attempts
          /\ [Closed(row[u], "pending") EXCEPT !.ready = FALSE] \in RowSet
          /\ [Closed(row[u], "pending") EXCEPT !.ready = FALSE].status = "pending"
          /\ [Closed(row[u], "pending") EXCEPT !.ready = FALSE].attempts = row[u].attempts
          /\ row[u].attempts \in Nat
      BY <2>1, RowTypes DEF RowSet
    <3>1. CASE MarkDone
      <4>1. row' = [row EXCEPT ![u] = Closed(row[u], "done")]
        BY <2>2, <3>1 DEF MarkDone
      <4> QED  BY <3>0, <4>1
    <3>2. CASE FailOrRetry /\ row[u].attempts >= MaxAttempts
      <4>1. row' = [row EXCEPT ![u] = Closed(row[u], "failed")]
        BY <2>2, <3>2 DEF FailOrRetry
      <4> QED  BY <3>0, <4>1
    <3>3. CASE FailOrRetry /\ ~(row[u].attempts >= MaxAttempts)
      <4>1. row' = [row EXCEPT ![u] = [Closed(row[u], "pending") EXCEPT !.ready = FALSE]]
        BY <2>2, <3>3 DEF FailOrRetry
      <4>2. row[u].attempts < MaxAttempts
        BY <3>0, <3>3
      <4> QED  BY <3>0, <4>1, <4>2
    <3> QED  BY <1>3, <3>1, <3>2, <3>3
  <2> HIDE DEF u
  <2>6. row'[u] = new /\ (\A v \in Users \ {u} : row'[v] = row[v])
        /\ row' \in [Users -> RowSet]
    BY <1>0, <2>1, <2>5
  <2>7. Queued' = Queued
    BY <2>1, <2>2, <2>5, <2>6 DEF Queued
  <2>8. TriesCounted'
    <3>1. row[u].attempts \in Nat /\ events \in Nat /\ row[u].attempts <= MaxAttempts + events
      BY <1>0, <2>1 DEF Shape, TriesCounted, RowSet
    <3>2. ASSUME NEW v \in Users
          PROVE  /\ row'[v].attempts <= MaxAttempts + events
                 /\ row'[v].status = "pending" \/ row'[v].status = "leased"
                    => row'[v].attempts < MaxAttempts + events
      <4>1. CASE v = u
        BY <2>5, <2>6, <3>1, <4>1
      <4>2. CASE v # u
        BY <2>6, <4>2 DEF Shape, TriesCounted, u
      <4> QED  BY <4>1, <4>2
    <3> QED  BY <2>3, <3>2 DEF TriesCounted
  <2>9. WorkedOn'
    BY <2>4 DEF WorkedOn
  <2>10. older' \in [Users -> SUBSET Queued']
    BY <1>0, <2>3, <2>7
  <2> QED  BY <2>3, <2>4, <2>6, <2>8, <2>9, <2>10, TableOnly
<1> QED  BY <1>1, <1>2, <1>3

\* Time and purge_old() write a row without giving it back or trying it.
LEMMA ShapeRowTime ==
    ASSUME Shape, NEW u \in Users, LeaseExpires(u) \/ BackoffEnds(u) \/ Purge(u)
    PROVE  Shape'
<1>0. /\ row \in [Users -> RowSet] /\ older \in [Users -> SUBSET Queued]
      /\ inFlight \subseteq Users /\ row[u] \in RowSet
      /\ events \in Nat /\ MaxAttempts + events \in Nat \ {0}
  BY Numbers DEF Shape, DigestTypeOK, RowSet, HistoryOK
<1>1. UNCHANGED <<latest, cursor, people, entries, rev, updater, worker, inFlight, history,
                  events>>
  BY DEF LeaseExpires, BackoffEnds, Purge
<1>2. WorkerOK'
  BY <1>1 DEF Shape, WorkerOK
<1>3. CASE LeaseExpires(u) \/ BackoffEnds(u)
  <2>1. PICK new \in RowSet :
           /\ row' = [row EXCEPT ![u] = new]
           /\ new.status = row[u].status /\ new.attempts = row[u].attempts
    <3>1. CASE LeaseExpires(u)
      <4>1. row' = [row EXCEPT ![u] = [row[u] EXCEPT !.lease = "expired"]]
        BY <3>1 DEF LeaseExpires
      <4>2. \A r \in RowSet : /\ [r EXCEPT !.lease = "expired"] \in RowSet
                              /\ [r EXCEPT !.lease = "expired"].status = r.status
                              /\ [r EXCEPT !.lease = "expired"].attempts = r.attempts
        BY DEF RowSet
      <4> QED  BY <1>0, <4>1, <4>2
    <3>2. CASE BackoffEnds(u)
      <4>1. row' = [row EXCEPT ![u] = [row[u] EXCEPT !.ready = TRUE]]
        BY <3>2 DEF BackoffEnds
      <4>2. \A r \in RowSet : /\ [r EXCEPT !.ready = TRUE] \in RowSet
                              /\ [r EXCEPT !.ready = TRUE].status = r.status
                              /\ [r EXCEPT !.ready = TRUE].attempts = r.attempts
        BY DEF RowSet
      <4> QED  BY <1>0, <4>1, <4>2
    <3> QED  BY <1>3, <3>1, <3>2
  <2>2. /\ \A v \in Users : /\ row'[v].status = row[v].status
                            /\ row'[v].attempts = row[v].attempts
        /\ row' \in [Users -> RowSet]
    BY <1>0, <2>1
  <2>3. WorkedOn' /\ TriesCounted'
    BY <1>1, <2>2 DEF Shape, WorkedOn, TriesCounted, WorkerOK
  <2>4. older' = older /\ Queued' = Queued
    BY <1>3, <2>2 DEF LeaseExpires, BackoffEnds, Queued
  <2> QED  BY <1>0, <1>1, <1>2, <2>2, <2>3, <2>4, TableOnly
<1>4. CASE Purge(u)
  <2>1. /\ row' = [row EXCEPT ![u] = NoRow] /\ older' = [v \in Users |-> older[v] \ {u}]
        /\ row[u].status \in {"done", "failed"}
    BY <1>4 DEF Purge
  <2>2. NoRow \in RowSet /\ NoRow.status = "absent" /\ NoRow.attempts = 0
    BY <1>0, RowTypes DEF NoRow
  <2>3. /\ row' \in [Users -> RowSet] /\ row'[u] = NoRow
        /\ \A v \in Users \ {u} : row'[v] = row[v]
    BY <1>0, <2>1, <2>2
  <2>4. Queued' = Queued \ {u}
    BY <2>2, <2>3 DEF Queued
  <2>5. older' \in [Users -> SUBSET Queued']
    BY <1>0, <2>1, <2>4
  <2>6. WorkedOn'
    BY <1>1, <2>1, <2>3 DEF Shape, WorkedOn, WorkerOK
  <2>7. TriesCounted'
    BY <1>0, <1>1, <2>2, <2>3 DEF Shape, TriesCounted
  <2> QED  BY <1>0, <1>1, <1>2, <2>3, <2>5, <2>6, <2>7, TableOnly
<1> QED  BY <1>3, <1>4

LEMMA ShapePeople ==
    ASSUME Shape,
           \/ \E s \in Shows : Publish(s) \/ Visit(s)
           \/ \E u \in Users : WeekEnds(u) \/ Change(u)
           \/ \E c \in Connections : TurnNotify(c[1], c[2])
    PROVE  Shape'
<1> USE Numbers DEF Shape, DigestTypeOK, HistoryOK
<1>1. UNCHANGED <<table, worker, inFlight, cursor, entries, rev, flagged, told, twice, cut>>
  BY DEF Publish, Visit, WeekEnds, Change, TurnNotify, people, history
<1>2. events' \in 0..MaxEvents /\ events <= events'
  <2>1. \/ events' = events + 1 /\ events < MaxEvents
        \/ events' = events
    BY DEF Publish, Visit, WeekEnds, Change, TurnNotify
  <2> QED  BY <2>1
<1>3. /\ row' \in [Users -> RowSet] /\ older' \in [Users -> SUBSET Queued']
      /\ WorkerOK' /\ WorkedOn' /\ TriesCounted'
  BY <1>1, <1>2, TableAlike
<1>4. ASSUME NEW s \in Shows, Publish(s) PROVE Shape'
  <2>1. latest[s] + 1 \in Episodes
    <3>1. latest[s] \in Nat /\ News[s] \in 0..MaxEp
      BY DigestAssumption DEF DigestAssumption
    <3>2. latest[s] < News[s]
      BY <1>4 DEF Publish
    <3> QED  BY <3>1, <3>2 DEF Episodes
  <2>2. latest' \in [Shows -> Episodes]
    BY <1>4, <2>1 DEF Publish
  <2>3. UNCHANGED <<updater, people, history>>
    BY <1>4 DEF Publish
  <2> QED
    BY <1>1, <1>2, <1>3, <2>2, <2>3 DEF RowSet, WorkerOK, UpdaterOK, people, history
<1>5. ASSUME NEW s \in Shows, Visit(s) PROVE Shape'
  <2>1. Behind(s) \subseteq Users
    BY DEF Behind
  <2>2. UpdaterOK'
    BY <1>5, <2>1 DEF Visit, UpdaterOK
  <2>3. UNCHANGED <<latest, people, history>>
    BY <1>5 DEF Visit
  <2> QED
    BY <1>1, <1>2, <1>3, <2>2, <2>3 DEF RowSet, WorkerOK, UpdaterOK, people, history
<1>6. ASSUME NEW u \in Users, WeekEnds(u) \/ Change(u) PROVE Shape'
  <2>1. /\ standing' \in [Users -> {"free", "muted", "paid"}] /\ due' \subseteq Users
        /\ messages' \in [Users -> 0..2]
    <3>1. CASE WeekEnds(u)
      BY <3>1 DEF WeekEnds
    <3>2. CASE Change(u)
      BY <3>2 DEF Change, history
    <3> QED  BY <1>6, <3>1, <3>2
  <2>2. UNCHANGED <<latest, updater, follows>>
    BY <1>6 DEF WeekEnds, Change
  <2> QED  BY <1>1, <1>2, <1>3, <2>1, <2>2 DEF RowSet, WorkerOK, UpdaterOK
<1>7. ASSUME NEW c \in Connections, TurnNotify(c[1], c[2]) PROVE Shape'
  <2>1. c = <<c[1], c[2]>>
    BY DigestAssumption DEF DigestAssumption
  <2>2. follows' \subseteq Connections
    BY <1>7, <2>1 DEF TurnNotify
  <2>3. UNCHANGED <<latest, updater, standing, due, history>>
    BY <1>7 DEF TurnNotify
  <2> QED  BY <1>1, <1>2, <1>3, <2>2, <2>3 DEF RowSet, WorkerOK, UpdaterOK, history
<1> QED  BY <1>4, <1>5, <1>6, <1>7

LEMMA ShapeStep ==
    ASSUME Shape, [Next]_vars
    PROVE  Shape'
<1>1. CASE UNCHANGED vars
  <2>1. UNCHANGED <<latest, cursor, people, entries, rev, updater, worker, table, inFlight,
                    history, events>>
    BY <1>1 DEF vars
  <2> QED
    BY <2>1 DEF Shape, DigestTypeOK, WorkerOK, UpdaterOK, HistoryOK, WorkedOn, TriesCounted,
       Queued, people, table, history
<1>2. CASE Next
  BY <1>2, ShapeUpdater, ShapeWatcherReads, ShapeWatcherWrites, ShapeRowTime, ShapePeople
     DEF Next, WorkerStep
<1> QED  BY <1>1, <1>2

LEMMA ShapeInit ==
    ASSUME Init
    PROVE  Shape
<1> USE Numbers DEF Init
<1>1. DigestTypeOK
  <2>1. /\ latest \in [Shows -> Episodes] /\ cursor \in [Users -> [Shows -> Episodes]]
        /\ entries \in [Users -> [Shows -> [ep : Episodes, rev : 0..MaxRev]]]
        /\ rev \in 0..MaxRev
    OBVIOUS
  <2>2. 0 \in 0..(MaxAttempts + MaxEvents)
    OBVIOUS
  <2>3. row \in [Users -> RowSet]
    BY <2>2 DEF RowSet, NoRow
  <2> QED
    BY <2>1, <2>3, IdleTypes
       DEF DigestTypeOK, RowSet, NoVisit
<1>2. WorkerOK
  BY IdleTypes DEF WorkerOK
<1>3. UpdaterOK
  BY DEF UpdaterOK, NoVisit
<1>4. HistoryOK
  BY <1>1 DEF HistoryOK, DigestTypeOK
<1>5. WorkedOn
  BY IdleTypes DEF WorkedOn
<1>6. TriesCounted
  BY DEF TriesCounted, NoRow
<1> QED  BY <1>1, <1>2, <1>3, <1>4, <1>5, <1>6 DEF Shape

\* The watcher and the updater keep the table's rows, attempts and order.
THEOREM DigestTypes == Spec => []DigestTypeOK
<1>1. Spec => []Shape
  BY ShapeInit, ShapeStep, PTL DEF Spec
<1> QED  BY <1>1, PTL DEF Shape

-----------------------------------------------------------------------------
(* What each step can change. *)

Updating ==
    \/ \E s \in Shows : Visit(s)
    \/ FlagDigest \/ FlagFails \/ UpdaterStops
    \/ \E u \in Users : Enqueue(u) \/ MoveCursor(u)

LEMMA Frames ==
    ASSUME [Next]_vars
    PROVE  /\ FlagDigest \/ AckDigest \/ entries' = entries
           /\ FlagDigest \/ (rev' = rev /\ flagged' = flagged)
           /\ Send \/ NotSent \/ (told' = told /\ twice' = twice)
           /\ Send \/ NotSent \/ messages' = messages \/ \E u \in Users : WeekEnds(u)
           /\ MarkSent \/ due' = due \/ \E u \in Users : WeekEnds(u)
           /\ cut \subseteq cut'
           /\ cursor' = cursor \/ \E u \in Users : MoveCursor(u)
           /\ latest' = latest \/ \E s \in Shows : Publish(s)
           /\ Updating \/ updater' = updater
<1> DEFINE Goal ==
           /\ FlagDigest \/ AckDigest \/ entries' = entries
           /\ FlagDigest \/ (rev' = rev /\ flagged' = flagged)
           /\ Send \/ NotSent \/ (told' = told /\ twice' = twice)
           /\ Send \/ NotSent \/ messages' = messages \/ \E u \in Users : WeekEnds(u)
           /\ MarkSent \/ due' = due \/ \E u \in Users : WeekEnds(u)
           /\ cut \subseteq cut'
           /\ cursor' = cursor \/ \E u \in Users : MoveCursor(u)
           /\ latest' = latest \/ \E s \in Shows : Publish(s)
           /\ Updating \/ updater' = updater
<1>1. ASSUME NEW s \in Shows, Publish(s) \/ Visit(s) PROVE Goal
  BY <1>1 DEF Publish, Visit, Updating, people, history
<1>2. ASSUME FlagDigest \/ FlagFails \/ UpdaterStops PROVE Goal
  BY <1>2 DEF FlagDigest, FlagFails, UpdaterStops, Updating, people, history
<1>3. ASSUME NEW u \in Users, Enqueue(u) \/ MoveCursor(u) PROVE Goal
  BY <1>3 DEF Enqueue, MoveCursor, Updating, people, history
<1>4. ASSUME Start \/ Reclaim \/ Claim \/ Sleep \/ Check \/ ReadEntries \/ Flooded
             \/ MarkDone \/ FailOrRetry \/ StartUnreclaimed
      PROVE  Goal
  BY <1>4 DEF Start, Reclaim, Claim, Sleep, Check, ReadEntries, Flooded, MarkDone,
              FailOrRetry, StartUnreclaimed, people, history
<1>5. ASSUME Send \/ MarkSent \/ AckDigest PROVE Goal
  BY <1>5 DEF Send, MarkSent, AckDigest, people, history
<1>6. ASSUME NotSent PROVE Goal
  BY <1>6 DEF NotSent, people, history
<1>7. ASSUME StepRaises \/ Stop PROVE Goal
  BY <1>7 DEF StepRaises, Stop, Lost, people
<1>8. ASSUME NEW u \in Users,
             LeaseExpires(u) \/ BackoffEnds(u) \/ Purge(u) \/ WeekEnds(u) \/ Change(u)
      PROVE  Goal
  BY <1>8 DEF LeaseExpires, BackoffEnds, Purge, WeekEnds, Change, people, history
<1>9. ASSUME NEW c \in Connections, TurnNotify(c[1], c[2]) PROVE Goal
  BY <1>9 DEF TurnNotify, history
<1>10. ASSUME UNCHANGED vars PROVE Goal
  BY <1>10 DEF vars, people, history
<1> HIDE DEF Goal
<1>11. Goal
  BY <1>1, <1>2, <1>3, <1>4, <1>5, <1>6, <1>7, <1>8, <1>9, <1>10
     DEF Next, UpdaterStep, WorkerStep
<1> QED  BY <1>11 DEF Goal

\* How the watcher gets to the steps where a message is at stake.
LEMMA WatcherAt ==
    ASSUME Shape, [Next]_vars
    PROVE  \/ worker' = worker
           \/ worker'.pc \notin {"read", "send", "mark", "ack"}
           \/ Check /\ MayHear(worker.u) /\ worker'.pc = "read" /\ worker'.u = worker.u
           \/ ReadEntries /\ worker'.pc = "send" /\ worker'.u = worker.u
              /\ worker'.snap = [s \in Newest(worker.u) |-> entries[worker.u][s]]
           \/ Send /\ worker'.pc = "mark" /\ worker'.u = worker.u
              /\ worker'.snap = worker.snap
           \/ MarkSent /\ worker'.pc = "ack" /\ worker'.u = worker.u
              /\ worker'.snap = worker.snap
<1>0. WorkerOK
  BY DEF Shape
<1>1. CASE Updating \/ (\E s \in Shows : Publish(s)) \/ (\E c \in Connections : TurnNotify(c[1], c[2]))
  BY <1>1 DEF Updating, Visit, FlagDigest, FlagFails, UpdaterStops, Enqueue, MoveCursor,
              Publish, TurnNotify
<1>2. ASSUME NEW u \in Users,
             LeaseExpires(u) \/ BackoffEnds(u) \/ Purge(u) \/ WeekEnds(u) \/ Change(u)
      PROVE  worker' = worker
  BY <1>2 DEF LeaseExpires, BackoffEnds, Purge, WeekEnds, Change
<1>3. CASE Sleep \/ MarkDone \/ FailOrRetry \/ Stop
  BY <1>3, IdleTypes DEF Sleep, MarkDone, FailOrRetry, Stop
<1>4. CASE Start \/ Reclaim \/ Flooded \/ AckDigest \/ NotSent \/ StartUnreclaimed
  BY <1>0, <1>4, WorkerTypes
     DEF Start, Reclaim, Flooded, AckDigest, NotSent, StartUnreclaimed, Go, Pcs
<1>5. CASE StepRaises
  <2>1. worker' = Idle \/ Go("retry")
    BY <1>5 DEF StepRaises, Go
  <2> QED  BY <1>0, <2>1, IdleTypes, WorkerTypes DEF Go, Pcs
<1>6. CASE Claim
  <2>1. PICK u \in Users :
           worker' = [Idle EXCEPT !.pc = "check", !.u = u, !.attempts = row[u].attempts + 1]
    BY <1>6 DEF Claim
  <2> QED  BY <2>1 DEF Idle
<1>7. CASE Check
  BY <1>0, <1>7, WorkerTypes DEF Check, Go, Pcs
<1>8. CASE ReadEntries
  <2> DEFINE snap == [s \in Newest(worker.u) |-> entries[worker.u][s]]
             pc == IF Newest(worker.u) = {}
                      /\ \E s \in Shows : entries[worker.u][s].ep # 0
                   THEN "close" ELSE "send"
  <2>1. worker' = [worker EXCEPT !.snap = snap, !.pc = pc]
    BY <1>8 DEF ReadEntries
  <2>2. pc \in {"close", "send"}
    OBVIOUS
  <2> HIDE DEF pc
  <2>3. worker'.pc = pc /\ worker'.u = worker.u /\ worker'.snap = snap
    <3> HIDE DEF snap
    <3> QED  BY <1>0, <2>1 DEF WorkerOK
  <2> QED  BY <1>8, <2>2, <2>3
<1>9. CASE Send \/ MarkSent
  BY <1>0, <1>9, WorkerTypes DEF Send, MarkSent, Go, Pcs
<1>10. CASE UNCHANGED vars
  BY <1>10 DEF vars
<1> QED
  BY <1>1, <1>2, <1>3, <1>4, <1>5, <1>6, <1>7, <1>8, <1>9, <1>10
     DEF Next, UpdaterStep, WorkerStep, Updating

\* What the writers of flags, of acknowledgements and of what was heard do.
LEMMA FlagWrites ==
    ASSUME Shape, FlagDigest, NEW u \in Users, NEW s \in Shows
    PROVE  /\ rev' = rev + 1
           /\ IF u \in updater.flags /\ s = updater.show
              THEN /\ entries'[u][s] = [ep |-> updater.head, rev |-> rev + 1]
                   /\ flagged'[u][s] = updater.head
              ELSE entries'[u][s] = entries[u][s] /\ flagged'[u][s] = flagged[u][s]
<1>1. /\ entries[u] = [t \in Shows |-> entries[u][t]]
      /\ flagged[u] = [t \in Shows |-> flagged[u][t]]
  BY DEF Shape, DigestTypeOK, HistoryOK
<1>2. /\ entries'[u] = IF u \in updater.flags
                       THEN [entries[u] EXCEPT ![updater.show] =
                               [ep |-> updater.head, rev |-> rev + 1]]
                       ELSE entries[u]
      /\ flagged'[u] = IF u \in updater.flags
                       THEN [flagged[u] EXCEPT ![updater.show] = updater.head]
                       ELSE flagged[u]
      /\ rev' = rev + 1
  BY DEF FlagDigest
<1> QED  BY <1>1, <1>2

LEMMA AckWrites ==
    ASSUME Shape, AckDigest, NEW u \in Users, NEW s \in Shows
    PROVE  IF u = worker.u /\ Said(s) THEN entries'[u][s] = [ep |-> 0, rev |-> 0]
                                      ELSE entries'[u][s] = entries[u][s]
BY DEF AckDigest, Shape, DigestTypeOK

LEMMA HearWrites ==
    ASSUME Shape, Hear(worker.u), worker.u # 0, NEW u \in Users, NEW s \in Shows
    PROVE  IF u = worker.u /\ s \in DOMAIN worker.snap /\ worker.snap[s].ep > told[u][s]
           THEN told'[u][s] = worker.snap[s].ep
           ELSE told'[u][s] = told[u][s]
<1>1. worker.u \in Users /\ told \in [Users -> [Shows -> Episodes]]
  BY DEF Shape, WorkerOK, HistoryOK
<1>2. told'[u] = IF u = worker.u
                 THEN [t \in Shows |->
                         IF t \in DOMAIN worker.snap /\ worker.snap[t].ep > told[u][t]
                         THEN worker.snap[t].ep ELSE told[u][t]]
                 ELSE told[u]
  BY <1>1 DEF Hear
<1> QED  BY <1>1, <1>2

LEMMA HearCounts ==
    ASSUME Shape, Hear(worker.u), worker.u # 0, NEW u \in Users
    PROVE  /\ u # worker.u => messages'[u] = messages[u]
           /\ messages[u] = 0 => messages'[u] \in {0, 1}
<1>1. worker.u \in Users /\ messages \in [Users -> 0..2]
  BY DEF Shape, WorkerOK, HistoryOK
<1>2. messages'[u] = IF u = worker.u THEN (IF messages[u] = 2 THEN 2 ELSE messages[u] + 1)
                     ELSE messages[u]
  BY <1>1 DEF Hear
<1> QED  BY <1>1, <1>2

\* Who hears something is the chat of a message.
LEMMA WhoHears ==
    ASSUME Shape, Send \/ NotSent
    PROVE  /\ worker.pc = "send" /\ worker.u \in Users
           /\ \/ Hear(worker.u) /\ (Send \/ worker.u \in cut')
              \/ told' = told /\ twice' = twice /\ messages' = messages
<1>1. worker.pc = "send" /\ worker.u \in Users
  BY DEF Send, NotSent, At, Shape, WorkerOK
<1>2. CASE Send
  BY <1>1, <1>2 DEF Send
<1>3. CASE NotSent
  BY <1>1, <1>3 DEF NotSent, history
<1> QED  BY <1>2, <1>3

-----------------------------------------------------------------------------
(***************************************************************************)
(* Nothing is forgotten.  Revisions are never given twice, so an           *)
(* acknowledgement finds the revision it read only if the episode is still *)
(* the one the message told of; and whoever acknowledges was answered.     *)
(***************************************************************************)
Telling == worker.pc \in {"send", "mark", "ack"}

RevsSpent ==
    \A u \in Users, s \in Shows :
        /\ entries[u][s].rev <= rev
        /\ entries[u][s].ep # 0 => entries[u][s].rev # 0

SnapIsOld ==
    Telling => \A s \in DOMAIN worker.snap :
        /\ worker.snap[s].rev \in 1..rev
        /\ entries[worker.u][s].rev = worker.snap[s].rev
           => entries[worker.u][s].ep = worker.snap[s].ep

SnapHeard ==
    worker.pc \in {"mark", "ack"} =>
        \A s \in DOMAIN worker.snap : told[worker.u][s] >= worker.snap[s].ep

ForgetInv == RevsSpent /\ SnapIsOld /\ SnapHeard /\ NothingForgotten

\* The numbers of a pair.
LEMMA PairTypes ==
    ASSUME Shape, NEW u \in Users, NEW s \in Shows
    PROVE  /\ entries[u][s].ep \in Nat /\ entries[u][s].rev \in Nat
           /\ flagged[u][s] \in Nat /\ told[u][s] \in Nat /\ cursor[u][s] \in Nat
           /\ latest[s] \in Nat /\ rev \in Nat /\ updater.head \in Nat
<1>1. entries[u][s] \in [ep : Episodes, rev : 0..MaxRev]
  BY DEF Shape, DigestTypeOK
<1>2. /\ flagged[u][s] \in Episodes /\ told[u][s] \in Episodes /\ cursor[u][s] \in Episodes
      /\ latest[s] \in Episodes /\ rev \in 0..MaxRev /\ updater.head \in Episodes
  BY DEF Shape, DigestTypeOK, HistoryOK, UpdaterOK
<1> QED  BY <1>1, <1>2 DEF Episodes

\* The watcher's chat and what it read for it.
LEMMA ReadTypes ==
    ASSUME Shape, Telling, NEW s \in DOMAIN worker.snap
    PROVE  /\ worker.u \in Users /\ s \in Shows
           /\ worker.snap[s].ep \in Nat /\ worker.snap[s].rev \in Nat
<1>1. worker.u \in Users /\ worker.snap \in Snaps
  BY DEF Shape, WorkerOK, Telling
<1>2. s \in Shows /\ worker.snap[s] \in Entry
  BY <1>1, SnapShows
<1>3. worker.snap[s].ep \in Episodes /\ worker.snap[s].rev \in 0..MaxRev
  BY <1>2 DEF Entry
<1> QED  BY <1>1, <1>2, <1>3 DEF Episodes

LEMMA RevsStep ==
    ASSUME Shape, RevsSpent, [Next]_vars
    PROVE  RevsSpent'
<1> SUFFICES ASSUME NEW u \in Users, NEW s \in Shows
             PROVE  /\ entries'[u][s].rev <= rev'
                    /\ entries'[u][s].ep # 0 => entries'[u][s].rev # 0
  BY DEF RevsSpent
<1>0. /\ entries[u][s].rev <= rev /\ (entries[u][s].ep # 0 => entries[u][s].rev # 0)
      /\ rev \in Nat /\ entries[u][s].rev \in Nat
  BY PairTypes DEF RevsSpent
<1>1. CASE FlagDigest
  BY <1>0, <1>1, FlagWrites
<1>2. CASE AckDigest /\ ~FlagDigest
  BY <1>0, <1>2, AckWrites, Frames
<1>3. CASE ~AckDigest /\ ~FlagDigest
  BY <1>0, <1>3, Frames
<1> QED  BY <1>1, <1>2, <1>3

LEMMA ReadEntriesSnap ==
    ASSUME Shape, ReadEntries,
           worker'.snap = [s \in Newest(worker.u) |-> entries[worker.u][s]],
           NEW s \in DOMAIN worker'.snap
    PROVE  /\ worker.u \in Users /\ s \in Shows
           /\ worker'.snap[s] = entries[worker.u][s] /\ entries[worker.u][s].ep # 0
           /\ entries' = entries /\ rev' = rev /\ told' = told /\ flagged' = flagged
<1>1. s \in Newest(worker.u) /\ worker'.snap[s] = entries[worker.u][s]
  OBVIOUS
<1>2. s \in Shows /\ entries[worker.u][s].ep # 0
  BY <1>1 DEF Newest, Wanted
<1>3. worker.u \in Users
  BY DEF ReadEntries, At, Shape, WorkerOK
<1> QED  BY <1>1, <1>2, <1>3 DEF ReadEntries, history

LEMMA SnapIsOldStep ==
    ASSUME Shape, Shape', RevsSpent, SnapIsOld, [Next]_vars
    PROVE  SnapIsOld'
<1> SUFFICES ASSUME Telling', NEW s \in DOMAIN worker'.snap
             PROVE  /\ worker'.snap[s].rev \in 1..rev'
                    /\ entries'[worker'.u][s].rev = worker'.snap[s].rev
                       => entries'[worker'.u][s].ep = worker'.snap[s].ep
  BY DEF SnapIsOld
<1>1. CASE ReadEntries /\ worker'.u = worker.u
           /\ worker'.snap = [t \in Newest(worker.u) |-> entries[worker.u][t]]
  <2>1. /\ worker.u \in Users /\ s \in Shows
        /\ worker'.snap[s] = entries[worker.u][s] /\ entries[worker.u][s].ep # 0
        /\ entries' = entries /\ rev' = rev
    BY <1>1, ReadEntriesSnap
  <2>2. /\ entries[worker.u][s].rev <= rev /\ entries[worker.u][s].rev # 0
        /\ entries[worker.u][s].rev \in Nat /\ rev \in Nat
    BY <2>1, PairTypes DEF RevsSpent
  <2> QED  BY <1>1, <2>1, <2>2
<1>2. CASE Telling /\ worker'.u = worker.u /\ worker'.snap = worker.snap
  <2>0. /\ worker.u \in Users /\ s \in Shows /\ s \in DOMAIN worker.snap
        /\ worker.snap[s].rev \in 1..rev /\ rev \in Nat
        /\ entries[worker.u][s].rev = worker.snap[s].rev
           => entries[worker.u][s].ep = worker.snap[s].ep
    BY <1>2, ReadTypes, PairTypes DEF SnapIsOld
  <2>1. CASE FlagDigest
    BY <1>2, <2>0, <2>1, FlagWrites
  <2>2. CASE AckDigest /\ ~FlagDigest
    <3>1. rev' = rev /\ entries'[worker.u][s] \in {entries[worker.u][s], [ep |-> 0, rev |-> 0]}
      BY <2>0, <2>2, Frames, AckWrites
    <3> QED  BY <1>2, <2>0, <3>1
  <2>3. CASE ~AckDigest /\ ~FlagDigest
    BY <1>2, <2>0, <2>3, Frames
  <2> QED  BY <2>1, <2>2, <2>3
<1> QED
  BY <1>1, <1>2, WatcherAt DEF Telling, Send, MarkSent, At

LEMMA SnapHeardStep ==
    ASSUME Shape, Shape', SnapHeard, [Next]_vars
    PROVE  SnapHeard'
<1> SUFFICES ASSUME worker'.pc \in {"mark", "ack"}, NEW s \in DOMAIN worker'.snap
             PROVE  told'[worker'.u][s] >= worker'.snap[s].ep
  BY DEF SnapHeard
<1>1. CASE Send /\ worker'.u = worker.u /\ worker'.snap = worker.snap
  <2>1. /\ Telling /\ worker.u \in Users /\ s \in Shows /\ worker.u # 0
        /\ worker.snap[s].ep \in Nat /\ told[worker.u][s] \in Nat
    BY <1>1, ReadTypes, PairTypes, Numbers DEF Telling, Send, At
  <2>2. Hear(worker.u)
    BY <1>1 DEF Send
  <2> QED  BY <1>1, <2>1, <2>2, HearWrites
<1>2. CASE worker.pc \in {"mark", "ack"} /\ worker'.u = worker.u
           /\ worker'.snap = worker.snap
  <2>1. told' = told
    BY <1>2, Frames DEF Send, NotSent, At
  <2> QED  BY <1>2, <2>1 DEF SnapHeard
<1> QED  BY <1>1, <1>2, WatcherAt DEF MarkSent, At

LEMMA ForgottenStep ==
    ASSUME Shape, SnapIsOld, SnapHeard, NothingForgotten, [Next]_vars
    PROVE  NothingForgotten'
<1> SUFFICES ASSUME NEW u \in Users, NEW s \in Shows, flagged'[u][s] > told'[u][s]
             PROVE  entries'[u][s].ep = flagged'[u][s]
  BY DEF NothingForgotten
<1>0. /\ flagged[u][s] \in Nat /\ told[u][s] \in Nat
      /\ flagged[u][s] > told[u][s] => entries[u][s].ep = flagged[u][s]
  BY PairTypes DEF NothingForgotten
<1>1. CASE FlagDigest
  <2>1. told' = told
    BY <1>1 DEF FlagDigest
  <2> QED  BY <1>0, <1>1, <2>1, FlagWrites
<1>2. CASE AckDigest /\ ~FlagDigest
  <2>1. told' = told /\ flagged' = flagged
    BY <1>2 DEF AckDigest, history
  <2>2. CASE u = worker.u /\ Said(s)
    <3>1. s \in DOMAIN worker.snap /\ entries[u][s].rev = worker.snap[s].rev /\ Telling
      BY <1>2, <2>2 DEF Said, AckDigest, At, Telling
    <3>2. entries[u][s].ep = worker.snap[s].ep /\ told[u][s] >= worker.snap[s].ep
      BY <1>2, <2>2, <3>1 DEF SnapIsOld, SnapHeard, AckDigest, At
    <3> QED  BY <1>0, <2>1, <3>2
  <2>3. CASE ~(u = worker.u /\ Said(s))
    BY <1>0, <1>2, <2>1, <2>3, AckWrites
  <2> QED  BY <2>2, <2>3
<1>3. CASE ~AckDigest /\ ~FlagDigest
  <2>1. entries' = entries /\ flagged' = flagged
    BY <1>3, Frames
  <2>2. told'[u][s] >= told[u][s]
    <3>1. CASE Send \/ NotSent
      <4>1. CASE Hear(worker.u)
        <5>1. worker.u # 0 /\ (u = worker.u /\ s \in DOMAIN worker.snap
                               => worker.snap[s].ep \in Nat)
          BY <3>1, WhoHears, Numbers, ReadTypes DEF Telling
        <5> QED  BY <1>0, <4>1, <5>1, HearWrites
      <4> QED  BY <1>0, <3>1, <4>1, WhoHears
    <3>2. CASE ~(Send \/ NotSent)
      BY <1>0, <3>2, Frames
    <3> QED  BY <3>1, <3>2
  <2>3. told'[u][s] \in Nat
    <3>1. told' \in [Users -> [Shows -> Episodes]]
      BY ShapeStep DEF Shape, HistoryOK
    <3> QED  BY <3>1, Numbers
  <2> QED  BY <1>0, <2>1, <2>2, <2>3
<1> QED  BY <1>1, <1>2, <1>3

\* An episode that was flagged for a chat stands until the chat was told of it, or
\* of a newer one: also if it was flagged again after the watcher had read the old
\* flag and before it acknowledged that one.
THEOREM FlagsAreNotForgotten == Spec => []NothingForgotten
<1>1. Init => ForgetInv
  <2> SUFFICES ASSUME Init PROVE ForgetInv
    OBVIOUS
  <2>1. worker.pc = "down"
    BY DEF Init, Down, Idle
  <2>2. \A u \in Users, s \in Shows : entries[u][s] = [ep |-> 0, rev |-> 0] /\ rev = 0
                                      /\ flagged[u][s] = 0 /\ told[u][s] = 0
    BY DEF Init
  <2> QED
    BY <2>1, <2>2
       DEF ForgetInv, RevsSpent, SnapIsOld, SnapHeard, NothingForgotten, Telling
<1>2. ForgetInv /\ Shape /\ [Next]_vars => ForgetInv' /\ Shape'
  BY ShapeStep, RevsStep, SnapIsOldStep, SnapHeardStep, ForgottenStep DEF ForgetInv
<1>3. ForgetInv => NothingForgotten
  BY DEF ForgetInv
<1> QED  BY <1>1, <1>2, <1>3, ShapeInit, PTL DEF Spec

-----------------------------------------------------------------------------
(***************************************************************************)
(* One digest a week.  A chat with a message is not due, unless its        *)
(* message is still to be marked or the step that would have marked it was *)
(* lost; and a chat that the watcher found due is due until it is marked.  *)
(***************************************************************************)
WeekMarked ==
    \A u \in Users :
        messages[u] >= 1 => \/ u \notin due \/ u \in cut
                            \/ worker.pc = "mark" /\ worker.u = u

DueStill == worker.pc \in {"read", "send"} => worker.u \in due

WeekInv == WeekMarked /\ DueStill /\ OneInAWeek

\* Between a message and the last of its marks the watcher goes on or leaves a trace.
LEMMA MarksOrCut ==
    ASSUME Shape, [Next]_vars, worker.pc \in {"mark", "ack"}
    PROVE  worker' = worker \/ MarkSent \/ AckDigest \/ worker.u \in cut'
<1>1. CASE Updating \/ (\E s \in Shows : Publish(s))
           \/ \E c \in Connections : TurnNotify(c[1], c[2])
  BY <1>1 DEF Updating, Visit, FlagDigest, FlagFails, UpdaterStops, Enqueue, MoveCursor,
              Publish, TurnNotify
<1>2. CASE \E u \in Users :
             LeaseExpires(u) \/ BackoffEnds(u) \/ Purge(u) \/ WeekEnds(u) \/ Change(u)
  BY <1>2 DEF LeaseExpires, BackoffEnds, Purge, WeekEnds, Change
<1>3. CASE StepRaises \/ Stop
  BY <1>3 DEF StepRaises, Stop, Lost, At
<1>4. ASSUME \/ Sleep \/ Start \/ Reclaim \/ Claim \/ Check \/ ReadEntries \/ Send \/ Flooded
             \/ MarkDone \/ FailOrRetry \/ NotSent \/ StartUnreclaimed
      PROVE  FALSE
  BY <1>4 DEF Sleep, Start, Reclaim, Claim, Check, ReadEntries, Send, Flooded, MarkDone,
              FailOrRetry, NotSent, StartUnreclaimed, At
<1>5. CASE UNCHANGED vars
  BY <1>5 DEF vars
<1> QED
  BY <1>1, <1>2, <1>3, <1>4, <1>5 DEF Next, UpdaterStep, WorkerStep, Updating

\* Who may hear again, and who no longer.
LEMMA DueMoves ==
    ASSUME Shape, [Next]_vars, NEW u \in Users
    PROVE  \/ due' = due
           \/ MarkSent /\ due' = due \ {worker.u}
           \/ /\ due \subseteq due'
              /\ \/ u \in due' <=> u \in due
                 \/ messages'[u] = 0
              /\ \E v \in Users : WeekEnds(v)
<1>1. CASE MarkSent
  BY <1>1 DEF MarkSent
<1>2. ASSUME NEW v \in Users, WeekEnds(v)
      PROVE  due \subseteq due' /\ (messages'[u] = 0 \/ (u \in due' <=> u \in due))
  BY <1>2 DEF WeekEnds, Shape, HistoryOK
<1> QED  BY <1>1, <1>2, Frames

LEMMA DueStep ==
    ASSUME Shape, Shape', DueStill, [Next]_vars
    PROVE  DueStill'
<1> SUFFICES ASSUME worker'.pc \in {"read", "send"} PROVE worker'.u \in due'
  BY DEF DueStill
<1>1. CASE Check /\ MayHear(worker.u) /\ worker'.u = worker.u
  BY <1>1 DEF Check, MayHear, people
<1>2. CASE ReadEntries /\ worker'.u = worker.u
  BY <1>2 DEF ReadEntries, DueStill, At, people
<1>3. CASE worker' = worker
  <2>1. worker.u \in due /\ worker.u \in Users /\ ~MarkSent
    BY <1>3 DEF DueStill, MarkSent, At, Shape, WorkerOK
  <2> QED  BY <1>3, <2>1, DueMoves
<1> QED  BY <1>1, <1>2, <1>3, WatcherAt

LEMMA WeekStep ==
    ASSUME Shape, WeekMarked, DueStill, OneInAWeek, [Next]_vars
    PROVE  WeekMarked' /\ OneInAWeek'
<1> SUFFICES ASSUME NEW u \in Users
             PROVE  /\ messages'[u] >= 1 => \/ u \notin due' \/ u \in cut'
                                            \/ worker'.pc = "mark" /\ worker'.u = u
                    /\ messages'[u] <= 1 \/ u \in cut'
  BY DEF WeekMarked, OneInAWeek
<1>0. /\ messages[u] >= 1 => u \notin due \/ u \in cut \/ (worker.pc = "mark" /\ worker.u = u)
      /\ messages[u] <= 1 \/ u \in cut
      /\ cut \subseteq cut' /\ messages[u] \in Nat
  BY Frames DEF WeekMarked, OneInAWeek, Shape, HistoryOK
<1>1. CASE (Send \/ (NotSent /\ worker.u \in cut')) /\ Hear(worker.u)
  <2>1. worker.pc = "send" /\ worker.u \in Users /\ worker.u # 0
    BY <1>1, WhoHears, Numbers
  <2>2. CASE u = worker.u
    <3>1. u \in due
      BY <2>1, <2>2 DEF DueStill
    <3>2. messages[u] = 0 \/ u \in cut
      BY <1>0, <2>1, <3>1
    <3>3. messages[u] = 0 => messages'[u] \in {0, 1}
      BY <1>1, <2>1, HearCounts
    <3>4. u \in cut' \/ (worker'.pc = "mark" /\ worker'.u = u)
      <4>1. CASE Send
        <5>1. WorkerOK /\ "mark" \in Pcs
          BY DEF Shape, Pcs
        <5> QED  BY <2>2, <4>1, <5>1, WorkerTypes DEF Send, Go
      <4> QED  BY <1>1, <2>2, <4>1
    <3> QED  BY <1>0, <3>2, <3>3, <3>4
  <2>3. CASE u # worker.u
    <3>1. messages'[u] = messages[u]
      BY <1>1, <2>1, <2>3, HearCounts
    <3>2. due' = due
      BY <1>1 DEF Send, NotSent, people
    <3> QED  BY <1>0, <2>3, <3>1, <3>2
  <2> QED  BY <2>2, <2>3
<1>2. CASE ~((Send \/ (NotSent /\ worker.u \in cut')) /\ Hear(worker.u))
  <2>1. messages'[u] = messages[u] \/ messages'[u] = 0
    <3>1. ASSUME NEW v \in Users, WeekEnds(v)
          PROVE  messages'[u] = messages[u] \/ messages'[u] = 0
      BY <3>1 DEF WeekEnds, Shape, HistoryOK
    <3> QED  BY <1>2, <3>1, WhoHears, Frames
  <2>2. CASE messages'[u] = 0
    BY <2>2
  <2>3. CASE messages'[u] = messages[u] /\ messages[u] >= 1 /\ messages'[u] # 0
    <3>1. CASE u \notin due
      BY <1>0, <2>3, <3>1, DueMoves
    <3>2. CASE u \in cut
      BY <1>0, <3>2
    <3>3. CASE worker.pc = "mark" /\ worker.u = u /\ u \in due
      <4>1. CASE MarkSent
        <5>1. u \notin due'
          BY <3>3, <4>1 DEF MarkSent
        <5> QED  BY <1>0, <2>3, <5>1
      <4>2. CASE ~MarkSent
        BY <1>0, <2>3, <3>3, <4>2, MarksOrCut DEF AckDigest, At
      <4> QED  BY <4>1, <4>2
    <3> QED  BY <1>0, <2>3, <3>1, <3>2, <3>3
  <2> QED  BY <1>0, <2>1, <2>2, <2>3
<1> QED  BY <1>1, <1>2

\* A chat gets a second digest in a week only if the watcher was stopped, raised
\* or timed out between a message and its marks.
THEOREM OneDigestAWeek == Spec => []OneInAWeek
<1>1. Init => WeekInv
  <2> SUFFICES ASSUME Init PROVE WeekInv
    OBVIOUS
  <2>1. worker.pc = "down" /\ \A u \in Users : messages[u] = 0
    BY DEF Init, Down, Idle
  <2> QED  BY <2>1 DEF WeekInv, WeekMarked, DueStill, OneInAWeek
<1>2. WeekInv /\ Shape /\ [Next]_vars => WeekInv' /\ Shape'
  BY ShapeStep, WeekStep, DueStep DEF WeekInv
<1>3. WeekInv => OneInAWeek
  BY DEF WeekInv
<1> QED  BY <1>1, <1>2, <1>3, ShapeInit, PTL DEF Spec

-----------------------------------------------------------------------------
(***************************************************************************)
(* An episode is told once.  What a visit found is newer than the chat's   *)
(* cursor, and the cursor is at least where the chat was last flagged      *)
(* unless the updater was stopped; so a new flag is newer than anything    *)
(* that was told.  A flag that stands is news, or is being acknowledged.   *)
(***************************************************************************)
VisitNews ==
    \A u \in updater.todo :
        /\ cursor[u][updater.show] < updater.head
        /\ flagged[u][updater.show] <= updater.head
        /\ updater.head <= latest[updater.show]

FlagsPublished ==
    \A u \in Users, s \in Shows :
        flagged[u][s] <= latest[s] /\ told[u][s] <= flagged[u][s]
        /\ entries[u][s].ep <= flagged[u][s]

CursorMoves ==
    \A u \in Users, s \in Shows :
        \/ flagged[u][s] <= cursor[u][s] \/ u \in cut
        \/ updater.show = s /\ updater.flags = {} /\ u \in updater.todo

SnapFlagged ==
    Telling => \A s \in DOMAIN worker.snap : worker.snap[s].ep <= flagged[worker.u][s]

BeingAcked(u, s) ==
    /\ worker.u = u /\ worker.pc \in {"mark", "ack"} /\ s \in DOMAIN worker.snap
    /\ entries[u][s].rev = worker.snap[s].rev

StandingIsNews ==
    \A u \in Users, s \in Shows :
        \/ entries[u][s].ep = 0 \/ entries[u][s].ep > told[u][s]
        \/ u \in cut \/ BeingAcked(u, s)

SnapIsNews ==
    worker.pc = "send" /\ worker.u \notin cut =>
        \A s \in DOMAIN worker.snap :
            /\ worker.snap[s].ep > told[worker.u][s]
            /\ \/ entries[worker.u][s].rev = worker.snap[s].rev
               \/ entries[worker.u][s].ep > worker.snap[s].ep

OnceInv ==
    /\ VisitNews /\ FlagsPublished /\ CursorMoves /\ SnapFlagged
    /\ StandingIsNews /\ SnapIsNews /\ ToldOnce

\* A chat whose cursor was moved on is through with the visit.
LEMMA MovedOn ==
    ASSUME Shape, NEW u \in Users, MoveCursor(u)
    PROVE  /\ updater'.todo = updater.todo \ {u}
           /\ updater'.todo # {} => /\ updater'.show = updater.show
                                    /\ updater'.head = updater.head
<1>1. CASE updater.todo = {u}
  BY <1>1 DEF MoveCursor, NoVisit
<1>2. CASE updater.todo # {u}
  <2>1. updater' = [updater EXCEPT !.todo = @ \ {u}, !.queued = @ \ {u}]
    BY <1>2 DEF MoveCursor
  <2> QED  BY <2>1 DEF Shape, UpdaterOK
<1> QED  BY <1>1, <1>2

\* Where a step takes a chat of the visit.
LEMMA VisitGoesOn ==
    ASSUME Shape, [Next]_vars, NEW u \in updater'.todo
    PROVE  \/ /\ updater'.show = updater.show /\ updater'.head = updater.head
              /\ u \in updater.todo /\ u \in Users /\ updater.show \in Shows
              /\ ~MoveCursor(u)
           \/ \E s \in Shows : Visit(s)
<1>0. UpdaterOK
  BY DEF Shape
<1> DEFINE Same == /\ updater'.show = updater.show /\ updater'.head = updater.head
                   /\ u \in updater.todo
<1>1. ASSUME FlagDigest \/ FlagFails PROVE Same
  <2>1. updater' = [updater EXCEPT !.flags = {}]
    BY <1>1 DEF FlagDigest, FlagFails
  <2> QED  BY <1>0, <2>1 DEF UpdaterOK
<1>2. ASSUME UpdaterStops PROVE FALSE
  BY <1>2 DEF UpdaterStops, NoVisit
<1>3. ASSUME NEW v \in Users, Enqueue(v) PROVE Same
  <2>1. updater' = [updater EXCEPT !.queued = @ \cup {v}]
    BY <1>3 DEF Enqueue
  <2> QED  BY <1>0, <2>1 DEF UpdaterOK
<1>4. ASSUME NEW v \in Users, MoveCursor(v) PROVE Same
  BY <1>4, MovedOn
<1>5. ASSUME updater' = updater PROVE Same
  BY <1>5
<1>6. ASSUME Same
      PROVE  u \in Users /\ updater.show \in Shows /\ ~MoveCursor(u)
  BY <1>0, <1>6, MovedOn DEF UpdaterOK
<1> HIDE DEF Same
<1>7. Same \/ \E s \in Shows : Visit(s)
  BY <1>1, <1>2, <1>3, <1>4, <1>5, Frames DEF Updating
<1> QED  BY <1>6, <1>7 DEF Same

LEMMA LatestGrows ==
    ASSUME Shape, [Next]_vars, NEW s \in Shows
    PROVE  latest'[s] \in Nat /\ latest[s] <= latest'[s]
<1>1. latest \in [Shows -> Episodes] /\ latest[s] \in Nat
  BY Numbers DEF Shape, DigestTypeOK
<1>2. ASSUME NEW t \in Shows, Publish(t) PROVE latest'[s] \in {latest[s], latest[s] + 1}
  BY <1>1, <1>2 DEF Publish
<1> QED  BY <1>1, <1>2, Frames

LEMMA CursorStays ==
    ASSUME Shape, [Next]_vars, NEW u \in Users, NEW s \in Shows
    PROVE  \/ cursor'[u][s] = cursor[u][s]
           \/ MoveCursor(u) /\ s = updater.show /\ cursor'[u][s] = updater.head
<1>1. cursor \in [Users -> [Shows -> Episodes]]
  BY DEF Shape, DigestTypeOK
<1>2. ASSUME NEW v \in Users, MoveCursor(v)
      PROVE  \/ cursor'[u][s] = cursor[u][s]
             \/ MoveCursor(u) /\ s = updater.show /\ cursor'[u][s] = updater.head
  <2>1. cursor' = [cursor EXCEPT ![v][updater.show] = updater.head]
    BY <1>2 DEF MoveCursor
  <2> QED  BY <1>1, <1>2, <2>1
<1> QED  BY <1>1, <1>2, Frames

\* A flag is only ever replaced by a newer one.
LEMMA FlagGrows ==
    ASSUME Shape, VisitNews, [Next]_vars, NEW u \in Users, NEW s \in Shows
    PROVE  \/ flagged'[u][s] = flagged[u][s] /\ entries'[u][s].ep \in {entries[u][s].ep, 0}
           \/ /\ FlagDigest /\ u \in updater.flags /\ s = updater.show
              /\ flagged'[u][s] = updater.head /\ flagged[u][s] <= updater.head
              /\ entries'[u][s].ep = updater.head /\ updater.head <= latest[s]
              /\ cursor[u][s] < updater.head
<1>1. CASE FlagDigest
  <2>1. u \in updater.flags => u \in updater.todo
    BY DEF Shape, UpdaterOK
  <2> QED  BY <1>1, <2>1, FlagWrites DEF VisitNews
<1>2. CASE AckDigest /\ ~FlagDigest
  BY <1>2, AckWrites, Frames
<1>3. CASE ~AckDigest /\ ~FlagDigest
  BY <1>3, Frames
<1> QED  BY <1>1, <1>2, <1>3

LEMMA VisitStep ==
    ASSUME Shape, VisitNews, FlagsPublished, [Next]_vars
    PROVE  VisitNews'
<1> SUFFICES ASSUME NEW u \in updater'.todo
             PROVE  /\ cursor'[u][updater'.show] < updater'.head
                    /\ flagged'[u][updater'.show] <= updater'.head
                    /\ updater'.head <= latest'[updater'.show]
  BY DEF VisitNews
<1>1. ASSUME NEW s \in Shows, Visit(s)
      PROVE  /\ cursor'[u][updater'.show] < updater'.head
             /\ flagged'[u][updater'.show] <= updater'.head
             /\ updater'.head <= latest'[updater'.show]
  <2>1. /\ updater'.show = s /\ updater'.head = latest[s] /\ u \in Behind(s)
        /\ latest' = latest /\ cursor' = cursor /\ flagged' = flagged
    BY <1>1 DEF Visit, history
  <2>2. u \in Users /\ cursor[u][s] < latest[s]
    BY <2>1 DEF Behind
  <2> QED  BY <1>1, <2>1, <2>2, PairTypes DEF FlagsPublished
<1>2. CASE /\ updater'.show = updater.show /\ updater'.head = updater.head
           /\ u \in updater.todo /\ u \in Users /\ updater.show \in Shows
           /\ ~MoveCursor(u)
  <2>1. /\ cursor[u][updater.show] < updater.head
        /\ flagged[u][updater.show] <= updater.head
        /\ updater.head <= latest[updater.show]
    BY <1>2 DEF VisitNews
  <2>2. cursor'[u][updater.show] = cursor[u][updater.show]
    BY <1>2, CursorStays
  <2>3. flagged'[u][updater.show] \in {flagged[u][updater.show], updater.head}
    BY <1>2, FlagGrows
  <2>4. /\ latest[updater.show] <= latest'[updater.show]
        /\ latest'[updater.show] \in Nat /\ latest[updater.show] \in Nat
        /\ updater.head \in Nat
    BY <1>2, LatestGrows, PairTypes
  <2> QED  BY <1>2, <2>1, <2>2, <2>3, <2>4
<1> QED  BY <1>1, <1>2, VisitGoesOn

\* What a chat was told of after a step.
LEMMA ToldMoves ==
    ASSUME Shape, [Next]_vars, NEW u \in Users, NEW s \in Shows
    PROVE  \/ told'[u][s] = told[u][s]
           \/ /\ worker.pc = "send" /\ worker.u = u /\ s \in DOMAIN worker.snap
              /\ told'[u][s] = worker.snap[s].ep
<1>1. CASE (Send \/ NotSent) /\ Hear(worker.u)
  <2>1. worker.pc = "send" /\ worker.u # 0
    BY <1>1, WhoHears, Numbers
  <2> QED  BY <1>1, <2>1, HearWrites
<1>2. CASE ~((Send \/ NotSent) /\ Hear(worker.u))
  BY <1>2, WhoHears, Frames
<1> QED  BY <1>1, <1>2

LEMMA PublishedStep ==
    ASSUME Shape, VisitNews, FlagsPublished, SnapFlagged, [Next]_vars
    PROVE  FlagsPublished'
<1> SUFFICES ASSUME NEW u \in Users, NEW s \in Shows
             PROVE  flagged'[u][s] <= latest'[s] /\ told'[u][s] <= flagged'[u][s]
                    /\ entries'[u][s].ep <= flagged'[u][s]
  BY DEF FlagsPublished
<1>0. /\ flagged[u][s] <= latest[s] /\ told[u][s] <= flagged[u][s]
      /\ entries[u][s].ep <= flagged[u][s]
      /\ latest[s] <= latest'[s] /\ latest'[s] \in Nat
      /\ flagged[u][s] \in Nat /\ told[u][s] \in Nat /\ latest[s] \in Nat
      /\ entries[u][s].ep \in Nat /\ updater.head \in Nat
  BY LatestGrows, PairTypes DEF FlagsPublished
<1>1. /\ flagged[u][s] <= flagged'[u][s] /\ flagged'[u][s] <= latest'[s]
      /\ entries'[u][s].ep <= flagged'[u][s] /\ flagged'[u][s] \in Nat
  BY <1>0, FlagGrows
<1>2. told'[u][s] <= flagged[u][s] /\ told'[u][s] \in Nat
  <2>1. CASE told'[u][s] = told[u][s]
    BY <1>0, <2>1
  <2>2. CASE /\ worker.pc = "send" /\ worker.u = u /\ s \in DOMAIN worker.snap
             /\ told'[u][s] = worker.snap[s].ep
    BY <2>2, ReadTypes DEF SnapFlagged, Telling
  <2> QED  BY <2>1, <2>2, ToldMoves
<1> QED  BY <1>0, <1>1, <1>2

LEMMA CursorStep ==
    ASSUME Shape, VisitNews, CursorMoves, [Next]_vars
    PROVE  CursorMoves'
<1> SUFFICES ASSUME NEW u \in Users, NEW s \in Shows
             PROVE  \/ flagged'[u][s] <= cursor'[u][s] \/ u \in cut'
                    \/ updater'.show = s /\ updater'.flags = {} /\ u \in updater'.todo
  BY DEF CursorMoves
<1>0. /\ flagged[u][s] \in Nat /\ cursor[u][s] \in Nat /\ updater.head \in Nat
      /\ cut \subseteq cut' /\ UpdaterOK
  BY PairTypes, Frames DEF Shape
<1>1. CASE FlagDigest /\ u \in updater.flags /\ s = updater.show
  <2>1. updater' = [updater EXCEPT !.flags = {}]
    BY <1>1 DEF FlagDigest
  <2> QED  BY <1>0, <1>1, <2>1 DEF UpdaterOK
<1>2. CASE ~(FlagDigest /\ u \in updater.flags /\ s = updater.show)
  <2>1. flagged'[u][s] = flagged[u][s]
    BY <1>2, FlagGrows
  <2>2. CASE MoveCursor(u) /\ s = updater.show
    <3>1. u \in updater.todo
      <4>1. u \in updater.queued
        BY <2>2 DEF MoveCursor
      <4> QED  BY <1>0, <4>1 DEF UpdaterOK
    <3>2. cursor'[u][s] = updater.head
      <4>1. cursor \in [Users -> [Shows -> Episodes]]
        BY DEF Shape, DigestTypeOK
      <4>2. cursor' = [cursor EXCEPT ![u][s] = updater.head]
        BY <2>2 DEF MoveCursor
      <4> QED  BY <4>1, <4>2
    <3> QED  BY <1>0, <2>1, <2>2, <3>1, <3>2 DEF VisitNews
  <2>3. CASE ~(MoveCursor(u) /\ s = updater.show)
    <3>1. cursor'[u][s] = cursor[u][s]
      BY <2>3, CursorStays
    <3>2. CASE flagged[u][s] <= cursor[u][s] \/ u \in cut
      BY <1>0, <2>1, <3>1, <3>2
    <3>3. CASE updater.show = s /\ updater.flags = {} /\ u \in updater.todo
      <4>1. CASE UpdaterStops
        BY <3>3, <4>1 DEF UpdaterStops
      <4>2. ASSUME NEW v \in Users, Enqueue(v)
            PROVE  updater'.show = s /\ updater'.flags = {} /\ u \in updater'.todo
        <5>1. updater' = [updater EXCEPT !.queued = @ \cup {v}]
          BY <4>2 DEF Enqueue
        <5> QED  BY <1>0, <3>3, <5>1 DEF UpdaterOK
      <4>3. ASSUME NEW v \in Users, MoveCursor(v)
            PROVE  updater'.show = s /\ updater'.flags = {} /\ u \in updater'.todo
        <5>1. u # v
          BY <2>3, <3>3, <4>3
        <5>2. updater' = [updater EXCEPT !.todo = @ \ {v}, !.queued = @ \ {v}]
          BY <3>3, <4>3, <5>1 DEF MoveCursor
        <5> QED  BY <1>0, <3>3, <5>1, <5>2 DEF UpdaterOK
      <4>4. ASSUME FlagDigest \/ FlagFails \/ \E t \in Shows : Visit(t)
            PROVE  FALSE
        BY <1>0, <3>3, <4>4, Numbers DEF FlagDigest, FlagFails, Visit
      <4> QED  BY <3>3, <4>1, <4>2, <4>3, <4>4, Frames DEF Updating
    <3> QED  BY <3>2, <3>3 DEF CursorMoves
  <2> QED  BY <2>2, <2>3
<1> QED  BY <1>1, <1>2

LEMMA SnapFlaggedStep ==
    ASSUME Shape, Shape', VisitNews, FlagsPublished, SnapFlagged, [Next]_vars
    PROVE  SnapFlagged'
<1> SUFFICES ASSUME Telling', NEW s \in DOMAIN worker'.snap
             PROVE  worker'.snap[s].ep <= flagged'[worker'.u][s]
  BY DEF SnapFlagged
<1>1. CASE ReadEntries /\ worker'.u = worker.u
           /\ worker'.snap = [t \in Newest(worker.u) |-> entries[worker.u][t]]
  BY <1>1, ReadEntriesSnap DEF FlagsPublished
<1>2. CASE Telling /\ worker'.u = worker.u /\ worker'.snap = worker.snap
  <2>1. /\ worker.u \in Users /\ s \in Shows /\ worker.snap[s].ep \in Nat
        /\ worker.snap[s].ep <= flagged[worker.u][s]
    BY <1>2, ReadTypes DEF SnapFlagged
  <2>2. /\ flagged'[worker.u][s] \in {flagged[worker.u][s], updater.head}
        /\ flagged'[worker.u][s] = updater.head => flagged[worker.u][s] <= updater.head
        /\ flagged[worker.u][s] \in Nat /\ updater.head \in Nat
    BY <2>1, FlagGrows, PairTypes
  <2> QED  BY <1>2, <2>1, <2>2
<1> QED  BY <1>1, <1>2, WatcherAt DEF Telling, Send, MarkSent, At

\* A flag that was just set is of an episode the chat was not told of.
LEMMA FlagIsNews ==
    ASSUME Shape, VisitNews, FlagsPublished, CursorMoves,
           FlagDigest, NEW u \in updater.flags
    PROVE  LET s == updater.show IN
           /\ u \in Users /\ s \in Shows /\ entries'[u][s].ep = updater.head
           /\ u \in cut \/ (flagged[u][s] < updater.head /\ told[u][s] < updater.head)
<1> DEFINE s == updater.show
<1>1. u \in Users /\ s \in Shows /\ u \in updater.todo
  BY DEF Shape, UpdaterOK
<1>2. cursor[u][s] < updater.head /\ told[u][s] <= flagged[u][s]
  BY <1>1 DEF VisitNews, FlagsPublished
<1>3. flagged[u][s] <= cursor[u][s] \/ u \in cut
  BY <1>1 DEF CursorMoves
<1>4. /\ cursor[u][s] \in Nat /\ told[u][s] \in Nat /\ flagged[u][s] \in Nat
      /\ updater.head \in Nat
  BY <1>1, PairTypes
<1>5. entries'[u][s].ep = updater.head
  BY <1>1, FlagWrites
<1> QED  BY <1>1, <1>2, <1>3, <1>4, <1>5

LEMMA StandingStep ==
    ASSUME Shape, VisitNews, FlagsPublished, CursorMoves, StandingIsNews, SnapIsNews,
           [Next]_vars
    PROVE  StandingIsNews'
<1> SUFFICES ASSUME NEW u \in Users, NEW s \in Shows, u \notin cut'
             PROVE  \/ entries'[u][s].ep = 0 \/ entries'[u][s].ep > told'[u][s]
                    \/ BeingAcked(u, s)'
  BY DEF StandingIsNews
<1>0. /\ u \notin cut
      /\ entries[u][s].ep = 0 \/ entries[u][s].ep > told[u][s] \/ BeingAcked(u, s)
  BY Frames DEF StandingIsNews
<1>1. CASE FlagDigest
  <2>1. told' = told /\ worker' = worker
    BY <1>1 DEF FlagDigest
  <2>2. CASE u \in updater.flags /\ s = updater.show
    BY <1>0, <1>1, <2>1, <2>2, FlagIsNews, PairTypes
  <2>3. CASE ~(u \in updater.flags /\ s = updater.show)
    <3>1. entries'[u][s] = entries[u][s]
      BY <1>1, <2>3, FlagWrites
    <3> QED  BY <1>0, <2>1, <3>1 DEF BeingAcked
  <2> QED  BY <2>2, <2>3
<1>2. CASE AckDigest /\ ~FlagDigest
  <2>1. told' = told
    BY <1>2 DEF AckDigest, history
  <2>2. CASE u = worker.u /\ Said(s)
    BY <1>2, <2>2, AckWrites
  <2>3. CASE ~(u = worker.u /\ Said(s))
    <3>1. entries'[u][s] = entries[u][s]
      BY <1>2, <2>3, AckWrites
    <3> QED  BY <1>0, <2>1, <2>3, <3>1 DEF BeingAcked, Said
  <2> QED  BY <2>2, <2>3
<1>3. CASE ~AckDigest /\ ~FlagDigest
  <2>1. entries' = entries
    BY <1>3, Frames
  <2>2. CASE told'[u][s] = told[u][s]
    <3>1. CASE BeingAcked(u, s)
      <4>1. worker' = worker \/ MarkSent
        BY <1>3, <3>1, MarksOrCut DEF BeingAcked
      <4>2. CASE MarkSent
        <5>1. worker'.pc = "ack" /\ worker'.u = worker.u /\ worker'.snap = worker.snap
          <6>1. WorkerOK /\ "ack" \in Pcs
            BY DEF Shape, Pcs
          <6> QED  BY <4>2, <6>1, WorkerTypes DEF MarkSent, Go
        <5> QED  BY <2>1, <3>1, <5>1 DEF BeingAcked
      <4> QED  BY <2>1, <3>1, <4>1, <4>2 DEF BeingAcked
    <3> QED  BY <1>0, <2>1, <2>2, <3>1
  <2>3. CASE /\ worker.pc = "send" /\ worker.u = u /\ s \in DOMAIN worker.snap
             /\ told'[u][s] = worker.snap[s].ep /\ told'[u][s] # told[u][s]
    <3>1. Send
      <4>1. Send \/ NotSent
        BY <2>3, Frames
      <4>2. NotSent => told' = told \/ u \in cut'
        BY <2>3, WhoHears DEF Send, NotSent, history
      <4>3. ~(NotSent /\ ~Send)
        BY <2>3, <4>2, WhoHears
      <4> QED  BY <4>1, <4>3
    <3>2. \/ entries[u][s].rev = worker.snap[s].rev
          \/ entries[u][s].ep > worker.snap[s].ep
      BY <1>0, <2>3 DEF SnapIsNews
    <3>3. worker'.pc = "mark" /\ worker'.u = u /\ worker'.snap = worker.snap
      <4>1. WorkerOK /\ "mark" \in Pcs
        BY DEF Shape, Pcs
      <4> QED  BY <2>3, <3>1, <4>1, WorkerTypes DEF Send, Go
    <3> QED  BY <2>1, <2>3, <3>2, <3>3 DEF BeingAcked
  <2> QED  BY <2>2, <2>3, ToldMoves
<1> QED  BY <1>1, <1>2, <1>3

LEMMA SnapIsNewsStep ==
    ASSUME Shape, Shape', VisitNews, FlagsPublished, CursorMoves, SnapFlagged,
           StandingIsNews, SnapIsNews, [Next]_vars
    PROVE  SnapIsNews'
<1> SUFFICES ASSUME worker'.pc = "send", worker'.u \notin cut', NEW s \in DOMAIN worker'.snap
             PROVE  /\ worker'.snap[s].ep > told'[worker'.u][s]
                    /\ \/ entries'[worker'.u][s].rev = worker'.snap[s].rev
                       \/ entries'[worker'.u][s].ep > worker'.snap[s].ep
  BY DEF SnapIsNews
<1>0. worker'.u \notin cut
  BY Frames
<1>1. CASE ReadEntries /\ worker'.u = worker.u
           /\ worker'.snap = [t \in Newest(worker.u) |-> entries[worker.u][t]]
  <2>1. /\ worker.u \in Users /\ s \in Shows
        /\ worker'.snap[s] = entries[worker.u][s] /\ entries[worker.u][s].ep # 0
        /\ entries' = entries /\ told' = told
    BY <1>1, ReadEntriesSnap
  <2>2. ~BeingAcked(worker.u, s)
    BY <1>1 DEF BeingAcked, ReadEntries, At
  <2>3. entries[worker.u][s].ep > told[worker.u][s]
    BY <1>0, <1>1, <2>1, <2>2 DEF StandingIsNews
  <2> QED  BY <1>1, <2>1, <2>3
<1>2. CASE worker' = worker
  <2>1. /\ worker.u \in Users /\ s \in Shows /\ worker.snap[s].ep \in Nat
        /\ worker.snap[s].ep <= flagged[worker.u][s]
        /\ worker.snap[s].ep > told[worker.u][s]
        /\ \/ entries[worker.u][s].rev = worker.snap[s].rev
           \/ entries[worker.u][s].ep > worker.snap[s].ep
    BY <1>0, <1>2, ReadTypes DEF SnapFlagged, SnapIsNews, Telling
  <2>2. told' = told /\ ~AckDigest
    <3>1. worker.pc = "send" /\ WorkerOK
      BY <1>2 DEF Shape
    <3>2. ~Send /\ ~NotSent /\ ~AckDigest
      BY <1>2, <3>1, WorkerTypes DEF Send, NotSent, AckDigest, Go, At, Pcs
    <3> QED  BY <3>2, Frames
  <2>3. CASE FlagDigest /\ worker.u \in updater.flags /\ s = updater.show
    <3>1. flagged[worker.u][s] < updater.head /\ entries'[worker.u][s].ep = updater.head
      BY <1>0, <1>2, <2>3, FlagIsNews
    <3>2. flagged[worker.u][s] \in Nat /\ updater.head \in Nat
      BY <2>1, PairTypes
    <3> QED  BY <1>2, <2>1, <2>2, <3>1, <3>2
  <2>4. CASE ~(FlagDigest /\ worker.u \in updater.flags /\ s = updater.show)
    <3>1. entries'[worker.u][s] = entries[worker.u][s]
      BY <2>1, <2>2, <2>4, FlagWrites, Frames
    <3> QED  BY <1>2, <2>1, <2>2, <3>1
  <2> QED  BY <2>3, <2>4
<1> QED  BY <1>1, <1>2, WatcherAt

LEMMA ToldOnceStep ==
    ASSUME Shape, SnapIsNews, ToldOnce, [Next]_vars
    PROVE  ToldOnce'
<1>0. cut \subseteq cut' /\ twice \subseteq cut
  BY Frames DEF ToldOnce
<1>1. CASE (Send \/ (NotSent /\ worker.u \in cut')) /\ Hear(worker.u)
  <2>1. CASE worker.u \in cut'
    <3>1. twice' \subseteq twice \cup {worker.u}
      BY <1>1 DEF Hear
    <3> QED  BY <1>0, <2>1, <3>1 DEF ToldOnce
  <2>2. CASE worker.u \notin cut'
    <3>1. worker.pc = "send" /\ worker.u \notin cut
      BY <1>0, <1>1, <2>2, WhoHears
    <3>2. \A s \in DOMAIN worker.snap : worker.snap[s].ep > told[worker.u][s]
      BY <3>1 DEF SnapIsNews
    <3>3. ASSUME NEW s \in DOMAIN worker.snap, worker.snap[s].ep <= told[worker.u][s]
          PROVE  FALSE
      <4>1. worker.u \in Users /\ s \in Shows /\ worker.snap[s].ep \in Nat
        BY <3>1, ReadTypes DEF Telling
      <4> QED  BY <3>2, <3>3, <4>1, PairTypes
    <3>4. twice' = twice
      BY <1>1, <3>3 DEF Hear
    <3> QED  BY <1>0, <3>4 DEF ToldOnce
  <2> QED  BY <2>1, <2>2
<1>2. CASE ~((Send \/ (NotSent /\ worker.u \in cut')) /\ Hear(worker.u))
  <2>1. twice' = twice
    BY <1>2, WhoHears, Frames
  <2> QED  BY <1>0, <2>1 DEF ToldOnce
<1> QED  BY <1>1, <1>2

\* A chat hears of an episode twice only if a step between a message and its marks
\* was lost, or the updater was stopped before it moved the chat's cursor.
THEOREM EpisodesAreToldOnce == Spec => []ToldOnce
<1>1. Init => OnceInv
  <2> SUFFICES ASSUME Init PROVE OnceInv
    OBVIOUS
  <2>1. worker.pc = "down" /\ updater.todo = {} /\ twice = {}
    BY DEF Init, Down, Idle, NoVisit
  <2>2. \A u \in Users, s \in Shows : /\ entries[u][s].ep = 0 /\ flagged[u][s] = 0
                                      /\ told[u][s] = 0 /\ cursor[u][s] = 0 /\ latest[s] = 0
    BY DEF Init
  <2> QED
    BY <2>1, <2>2
       DEF OnceInv, VisitNews, FlagsPublished, CursorMoves, SnapFlagged, Telling,
           StandingIsNews, SnapIsNews, ToldOnce
<1>2. OnceInv /\ Shape /\ [Next]_vars => OnceInv' /\ Shape'
  BY ShapeStep, VisitStep, PublishedStep, CursorStep, SnapFlaggedStep, StandingStep,
     SnapIsNewsStep, ToldOnceStep DEF OnceInv
<1>3. OnceInv => ToldOnce
  BY DEF OnceInv
<1> QED  BY <1>1, <1>2, <1>3, ShapeInit, PTL DEF Spec
=============================================================================
