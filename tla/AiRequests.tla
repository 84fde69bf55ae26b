----------------------------- MODULE AiRequests -----------------------------
(***************************************************************************)
(* AI requests: a summary or a transcript of an episode, and a person's    *)
(* collection of voice recordings (db/ai.py, db/voice.py).  Taps and the   *)
(* senders put requests in one table; the bot downloads recordings         *)
(* (app/service/ai/voice.py) and the jobs process works the table off, one *)
(* request at a time (app/jobs/ai_watcher.py).  Either process may stop    *)
(* between two transactions.                                               *)
(*                                                                         *)
(* One podcast episode, whose feed has no transcript, and one collection   *)
(* stand for all; summaries are in one language; nobody has the paid       *)
(* models; nothing is older than the days it is kept; nobody taps below    *)
(* the result of a recording.                                              *)
(***************************************************************************)
EXTENDS Integers, FiniteSets, SequencesExt

CONSTANTS
    Chats,        \* chats
    Sender,       \* the one that sends recordings
    Voices,       \* recordings, by the reference of their file
    Episode,      \* the podcast episode
    Batch,        \* the reference of the collection
    Claimed,      \* seconds of audio as the feed or Telegram says
    Real,         \* seconds as measured
    Limit,        \* quota.check().limit of each chat
    Outputs,      \* what collections are asked for: "summary", "transcript"
    Modes,        \* "each" recording or "all" together
    MaxAttempts,  \* MAX_ATTEMPTS
    MaxItems,     \* bound: recordings of the collection
    MaxReqs,      \* bound: requests and taps
    MaxTaps,      \* bound: taps on the episode and deliveries of it
    MaxEvents     \* bound: stops, failed downloads, calls and deliveries

Refs == Voices \cup {Episode, Batch}
None == 0

ASSUME AiAssumption ==
    /\ IsFiniteSet(Chats) /\ Sender \in Chats /\ IsFiniteSet(Voices)
    /\ Episode \notin Voices /\ Batch \notin Voices \cup {Episode}
    /\ Claimed \in [Voices \cup {Episode} -> Nat \ {0}] /\ Real \in [Voices \cup {Episode} -> Nat \ {0}]
    /\ Limit \in [Chats -> Nat]
    /\ Outputs \subseteq {"summary", "transcript"} /\ Modes \subseteq {"each", "all"}
    /\ MaxAttempts \in Nat \ {0}
    /\ MaxItems \in Nat /\ MaxReqs \in Nat /\ MaxTaps \in Nat /\ MaxEvents \in Nat

VARIABLES
    reqs,         \* ai_requests, by id
    transcripts,  \* refs in ai_transcripts
    summaries,    \* refs in ai_summaries
    files,        \* refs with a file at audio_path(), a download cut short included
    items,        \* voice_items of the collection, in the order of the messages
    card,         \* the preview on the person's screen
    asking,       \* taps and deliveries between quota.check() and enqueue()
    loader,       \* _download_chat() of the sender's chat, in the bot process
    worker,       \* ai_watcher(), in the jobs process
    blamed,       \* collections' final requests a fault got in the way of: history
    taps, events  \* the bounds' counters

store == <<transcripts, summaries, files>>
voice == <<items, card>>
counters == <<taps, events>>
vars == <<reqs, store, voice, asking, loader, worker, blamed, counters>>

Open == {"uploading", "pending", "working"}
OnTheWay == Open \cup {"done"}
Final == {"finish", "summary_all", "text_all"}
Kinds == {"summary", "transcript", "voice_part"} \cup Final

\* `run` is the final request a recording's request belongs to, `item` its recording,
\* `old` tells that the request is over an hour old.
Request == [kind : Kinds, chat : Chats, ref : Refs, secs : Nat, auto : BOOLEAN, item : 0..MaxItems,
            run : Nat, status : OnTheWay \cup {"failed"}, attempts : Nat, leased : BOOLEAN, old : BOOLEAN]

NewRequest == [kind |-> "summary", chat |-> Sender, ref |-> Episode, secs |-> 0, auto |-> FALSE,
               item |-> 0, run |-> 0, status |-> "pending", attempts |-> 0, leased |-> FALSE, old |-> FALSE]

Ids == DOMAIN reqs
Finals == {i \in Ids : reqs[i].kind \in Final}
Parts(f) == {i \in Ids : reqs[i].run = f}
Uploading == {i \in Ids : reqs[i].status = "uploading" /\ reqs[i].run # 0}
Running == \E f \in Finals : reqs[f].status \in Open
Total(S) == SumFunctionOnSet([i \in Ids |-> reqs[i].secs], S)

Set(i, status) == reqs' = [reqs EXCEPT ![i].status = status]
Fault == events < MaxEvents /\ events' = events + 1

\* seconds_used(): done and on their way.
Used(c) == Total({i \in Ids : reqs[i].chat = c /\ reqs[i].status \in OnTheWay})

\* quota.check(): a chat without hours gets nothing.
Fits(c, needed) == Limit[c] > 0 /\ Used(c) + needed <= Limit[c]

\* audio_paid(): another request of the chat was charged this audio.
PaidBy(c, ref, statuses, except) ==
    \E i \in Ids \ {except} :
        reqs[i].chat = c /\ reqs[i].ref = ref /\ reqs[i].secs > 0 /\ reqs[i].status \in statuses

-----------------------------------------------------------------------------
(* A tap on an episode, and a delivery to a chat that wants every summary. *)

Wish == [chat : Chats, kind : {"summary", "transcript"}, auto : BOOLEAN, secs : Nat]

Up == loader.pc # "down"

\* The bound.
Room(n) == Len(reqs) + taps + n <= MaxReqs

\* A summary or a transcript already made is sent at once.
Tap(c, kind) ==
    LET needed == IF PaidBy(c, Episode, OnTheWay, None) THEN 0 ELSE Claimed[Episode] IN
    /\ Up /\ taps < MaxTaps /\ Room(1)
    /\ Episode \notin (IF kind = "summary" THEN summaries ELSE transcripts)
    /\ Fits(c, needed)
    /\ asking' = asking \cup {[chat |-> c, kind |-> kind, auto |-> FALSE, secs |-> needed]}
    /\ taps' = taps + 1
    /\ UNCHANGED <<reqs, store, voice, loader, worker, blamed, events>>

Delivered(c) ==
    /\ taps < MaxTaps /\ Room(1) /\ Fits(c, Claimed[Episode])
    /\ asking' = asking \cup {[chat |-> c, kind |-> "summary", auto |-> TRUE, secs |-> Claimed[Episode]]}
    /\ taps' = taps + 1
    /\ UNCHANGED <<reqs, store, voice, loader, worker, blamed, events>>

\* enqueue(): a tap on what is on its way makes it wanted now.
Enqueue(w) ==
    LET same == {i \in Ids : reqs[i].chat = w.chat /\ reqs[i].ref = Episode /\ reqs[i].kind = w.kind
                              /\ reqs[i].status \in Open} IN
    /\ reqs' = IF same = {}
               THEN Append(reqs, [NewRequest EXCEPT !.kind = w.kind, !.chat = w.chat,
                                                !.secs = w.secs, !.auto = w.auto])
               ELSE [i \in Ids |-> IF i \in same THEN [reqs[i] EXCEPT !.auto = @ /\ w.auto] ELSE reqs[i]]
    /\ asking' = asking \ {w}
    /\ UNCHANGED <<store, voice, loader, worker, blamed, counters>>

-----------------------------------------------------------------------------
(* The collection: recordings arrive, the card shows them, a tap starts. *)

\* The collection's revision is the number of its recordings.
Stage(ref) ==
    /\ Up /\ Finals = {} /\ Len(items) < MaxItems
    /\ items' = Append(items, [ref |-> ref, secs |-> Claimed[ref]])
    /\ UNCHANGED <<reqs, store, card, asking, loader, worker, blamed, counters>>

\* _needed(): a recording that comes twice, or one made and paid for, takes no hours.
Needed(k) ==
    LET ref == items[k].ref IN
    IF \/ \E j \in 1..(k - 1) : items[j].ref = ref
       \/ ref \in transcripts /\ PaidBy(Sender, ref, OnTheWay, None)
    THEN 0 ELSE items[k].secs

Quote == SumFunction([k \in DOMAIN items |-> Needed(k)])

Preview ==
    /\ Up /\ items # <<>> /\ ~Running
    /\ card' = [refs |-> [k \in DOMAIN items |-> items[k].ref], quoted |-> Quote]
    /\ UNCHANGED <<reqs, store, items, asking, loader, worker, blamed, counters>>

\* _allow(): what needs neither hours nor a model is always given.
Allowed(output, mode) ==
    \/ Fits(Sender, Quote)
    \/ /\ Quote = 0
       /\ \A k \in DOMAIN items : items[k].ref \in transcripts
       /\ output = "summary" => IF mode = "all" THEN Batch \in summaries
                                ELSE \A k \in DOMAIN items : items[k].ref \in summaries

Kind(output, mode) == IF mode = "each" THEN output ELSE "voice_part"
FinalKind(output, mode) ==
    IF mode = "each" THEN "finish" ELSE IF output = "summary" THEN "summary_all" ELSE "text_all"

\* The requests of a run: one for each recording, the final one last.
Run(output, mode) ==
    LET n == Len(items)
        f == Len(reqs) + n + 1
        new == [NewRequest EXCEPT !.status = "uploading"] IN
    [k \in 1..(n + 1) |->
        IF k = n + 1 THEN [new EXCEPT !.kind = FinalKind(output, mode), !.ref = Batch]
        ELSE [new EXCEPT !.kind = Kind(output, mode), !.ref = items[k].ref, !.secs = Needed(k),
                         !.item = k, !.run = f]]

Start(output, mode) ==
    /\ Up /\ Room(Len(items) + 1)
    /\ ~Running /\ Allowed(output, mode)
    /\ reqs' = reqs \o Run(output, mode)
    /\ UNCHANGED <<store, voice, asking, loader, worker, blamed, counters>>

\* Mutant: what the card showed is not compared with what is there.
LaunchUnseen(output, mode) == card.refs # <<>> /\ Start(output, mode)

\* launch(): refused when the collection is not the one shown, or takes more hours.
Launch(output, mode) ==
    /\ card.refs # <<>> /\ Len(card.refs) = Len(items) /\ Quote <= card.quoted
    /\ Start(output, mode)

-----------------------------------------------------------------------------
(* The bot downloads the recordings of a run, one at a time. *)

Off == [pc |-> "off", id |-> None]

\* pump() starts the task, which takes the oldest.
AtRows == loader.pc \in {"off", "rows"} /\ Uploading # {}
First == CHOOSE i \in Uploading : \A j \in Uploading : i <= j

\* A recording whose text or file is there is released as it is.
ReleaseMade ==
    /\ AtRows /\ reqs[First].ref \in transcripts \cup files
    /\ Set(First, "pending")
    /\ loader' = [Off EXCEPT !.pc = "rows"]
    /\ UNCHANGED <<store, voice, asking, worker, blamed, counters>>

\* The download writes to audio_path() itself.
FetchStarts ==
    /\ AtRows /\ reqs[First].ref \notin transcripts \cup files
    /\ loader' = [pc |-> "fetch", id |-> First]
    /\ files' = files \cup {reqs[First].ref}
    /\ UNCHANGED <<reqs, transcripts, summaries, voice, asking, worker, blamed, counters>>

\* _reconcile(): more than claimed needs the hours for the difference.
Charged(i) == IF reqs[i].secs = 0 THEN 0 ELSE Real[reqs[i].ref]
Affordable(i) == Charged(i) <= reqs[i].secs \/ Fits(reqs[i].chat, Charged(i) - reqs[i].secs)

Fetched ==
    LET i == loader.id IN
    /\ loader.pc = "fetch" /\ Affordable(i)
    /\ reqs' = [reqs EXCEPT ![i].status = "pending", ![i].secs = Charged(i)]
    /\ items' = [items EXCEPT ![reqs[i].item].secs = Real[reqs[i].ref]]
    /\ loader' = [Off EXCEPT !.pc = "rows"]
    /\ UNCHANGED <<store, card, asking, worker, blamed, counters>>

FetchFails ==
    LET i == loader.id IN
    /\ loader.pc = "fetch"
    /\ IF Affordable(i) THEN Fault ELSE UNCHANGED events
    /\ Set(i, "failed")
    /\ files' = files \ {reqs[i].ref}
    /\ loader' = [Off EXCEPT !.pc = "rows"]
    /\ UNCHANGED <<transcripts, summaries, voice, asking, worker, blamed, taps>>

\* settle(): what waited over an hour fails; a run whose recordings are all here, or have
\* failed, goes to the worker or fails.
Late == {i \in Ids : reqs[i].status = "uploading" /\ reqs[i].old}
Ready == {f \in Finals : /\ reqs[f].status = "uploading"
                        /\ \A p \in Parts(f) : reqs[p].status # "uploading" \/ p \in Late}
PartFailed(f) == \E p \in Parts(f) : reqs[p].status = "failed" \/ p \in Late

Settle ==
    /\ loader.pc = "rows" /\ Uploading = {}
    /\ reqs' = [i \in Ids |->
                   IF i \in Late \/ (i \in Ready /\ PartFailed(i)) THEN [reqs[i] EXCEPT !.status = "failed"]
                   ELSE IF i \in Ready THEN [reqs[i] EXCEPT !.status = "pending"] ELSE reqs[i]]
    /\ blamed' = blamed \cup (Late \cap Finals)
    /\ loader' = Off
    /\ UNCHANGED <<store, voice, asking, worker, counters>>

AnHourPasses ==
    /\ \E i \in Ids : reqs[i].status = "uploading" /\ ~reqs[i].old
    /\ Fault
    /\ reqs' = [i \in Ids |-> [reqs[i] EXCEPT !.old = @ \/ reqs[i].status = "uploading"]]
    /\ UNCHANGED <<store, voice, asking, loader, worker, blamed, taps>>

\* A tap being answered and a download are lost with the bot; the file stays.  A stop at rest
\* changes nothing.
BotStops ==
    /\ loader.pc \in {"rows", "fetch"} \/ \E w \in asking : ~w.auto
    /\ Up /\ Fault
    /\ loader' = [Off EXCEPT !.pc = "down"]
    /\ asking' = {w \in asking : w.auto}
    /\ UNCHANGED <<reqs, store, voice, worker, blamed, taps>>

BotStarts ==
    /\ ~Up
    /\ loader' = Off
    /\ UNCHANGED <<reqs, store, voice, asking, worker, blamed, counters>>

-----------------------------------------------------------------------------
(* The worker: one request at a time. *)

Idle == [pc |-> "idle", id |-> None, charge |-> 0]
IsVoice(i) == reqs[i].chat = Sender /\ (reqs[i].run # 0 \/ reqs[i].kind \in Final)

\* Mutant: a lease that ran out is not looked at.
Pending == {i \in Ids : reqs[i].status = "pending"}

Claimable == {i \in Ids : reqs[i].status = "pending" \/ (reqs[i].status = "working" /\ ~reqs[i].leased)}

\* claim(): taps before automatic ones, then the oldest.
Before(i, j) == IF reqs[i].auto = reqs[j].auto THEN i <= j ELSE reqs[j].auto
Oldest == CHOOSE i \in Claimable : \A j \in Claimable : Before(i, j)

\* Mutant: the newest first.
Newest == CHOOSE i \in Claimable : \A j \in Claimable : j <= i

Take(i) ==
    /\ worker = Idle /\ Claimable # {}
    /\ reqs' = [reqs EXCEPT ![i].status = "working", ![i].attempts = @ + 1, ![i].leased = TRUE]
    /\ worker' = [Idle EXCEPT !.pc = "work", !.id = i]
    /\ UNCHANGED <<store, voice, asking, loader, blamed, counters>>

ClaimNewest == Claimable # {} /\ Take(Newest)
Claim == Claimable # {} /\ Take(Oldest)

\* Mutant: what the chat has paid for is not looked up.
ChargeAgain(i, made) ==
    LET r == reqs[i] IN
    IF r.kind \in Final THEN 0 ELSE IF IsVoice(i) THEN r.secs
    ELSE IF made \/ r.kind # "transcript" THEN Real[r.ref] ELSE 0

\* The hours a request takes in the end.  A recording's are the reserved ones; an episode's
\* are those measured, `made` tells whether this attempt transcribed it.
Charge(i, made) ==
    LET r == reqs[i]
        paid == PaidBy(r.chat, r.ref, {"done"}, i) IN
    IF r.kind \in Final THEN 0
    ELSE IF IsVoice(i) THEN IF paid THEN 0 ELSE r.secs
    ELSE IF made THEN Real[r.ref]
    ELSE IF r.kind = "transcript" \/ paid THEN 0 ELSE Real[r.ref]

To(pc, charge) == worker' = [worker EXCEPT !.pc = pc, !.charge = charge]

\* A summary already made: free, but for a recording.
SummaryMade ==
    LET i == worker.id IN
    /\ worker.pc = "work" /\ reqs[i].kind = "summary" /\ reqs[i].ref \in summaries
    /\ To("finish", IF IsVoice(i) THEN Charge(i, FALSE) ELSE 0)
    /\ UNCHANGED <<reqs, store, voice, asking, loader, blamed, counters>>

AfterText(kind) == IF kind = "summary" THEN "write" ELSE "finish"

\* episode_transcript(): the cached text, or a new one; a recording's file goes then.
Transcribe ==
    LET i == worker.id
        ref == reqs[i].ref
        made == ref \notin transcripts IN
    /\ worker.pc = "work" /\ reqs[i].kind \notin Final
    /\ ~(reqs[i].kind = "summary" /\ ref \in summaries)
    /\ made /\ IsVoice(i) => ref \in files
    /\ transcripts' = transcripts \cup {ref}
    /\ files' = IF made THEN files \ {ref} ELSE files
    /\ To(AfterText(reqs[i].kind), Charge(i, made))
    /\ UNCHANGED <<reqs, summaries, voice, asking, loader, blamed, counters>>

\* Mutant: only a failed recording keeps the result back.
NoneFailed(f) == \A p \in Parts(f) : reqs[p].status # "failed"

Complete(f) == \A p \in Parts(f) : reqs[p].status = "done"

\* A collection's last request: nothing, or one text of all the recordings.
Combine ==
    LET f == worker.id
        kind == reqs[f].kind IN
    /\ worker.pc = "work" /\ kind \in Final /\ Complete(f)
    /\ transcripts' = IF kind = "finish" THEN transcripts ELSE transcripts \cup {Batch}
    /\ To(IF kind = "summary_all" /\ Batch \notin summaries THEN "write" ELSE "finish", 0)
    /\ UNCHANGED <<reqs, summaries, files, voice, asking, loader, blamed, counters>>

Write ==
    /\ worker.pc = "write"
    /\ summaries' = summaries \cup {reqs[worker.id].ref}
    /\ To("finish", worker.charge)
    /\ UNCHANGED <<reqs, transcripts, files, voice, asking, loader, blamed, counters>>

\* The result goes out and the request is done.
Finish ==
    /\ worker.pc = "finish"
    /\ reqs' = [reqs EXCEPT ![worker.id].status = "done", ![worker.id].secs = worker.charge,
                            ![worker.id].leased = FALSE]
    /\ worker' = Idle
    /\ UNCHANGED <<store, voice, asking, loader, blamed, counters>>

\* Mutant: the lease is left.
RetryLeased(i) ==
    /\ reqs' = [reqs EXCEPT ![i].status = IF reqs[i].attempts >= MaxAttempts THEN "failed" ELSE "pending"]
    /\ worker' = Idle

\* retry_or_fail()
RetryOrFail(i) ==
    /\ reqs' = [reqs EXCEPT ![i].status = IF reqs[i].attempts >= MaxAttempts THEN "failed" ELSE "pending",
                            ![i].leased = FALSE]
    /\ worker' = Idle

\* A collection that is not complete, or a recording without its file.
CannotDo(i) ==
    IF reqs[i].kind \in Final THEN ~Complete(i)
    ELSE IsVoice(i) /\ reqs[i].ref \notin transcripts \cup files
         /\ ~(reqs[i].kind = "summary" /\ reqs[i].ref \in summaries)

Refused ==
    /\ worker.pc = "work" /\ CannotDo(worker.id)
    /\ RetryOrFail(worker.id)
    /\ UNCHANGED <<store, voice, asking, loader, blamed, counters>>

\* The download, the transcription, the model or Telegram fails; an episode's result that
\* did not go counts as sent.
Raises ==
    LET i == worker.id IN
    /\ \/ worker.pc = "work" /\ reqs[i].ref \notin transcripts /\ ~CannotDo(i) /\ reqs[i].kind \notin Final
       \/ worker.pc = "write"
       \/ worker.pc = "finish" /\ IsVoice(i) /\ reqs[i].kind \notin {"voice_part", "finish"}
    /\ Fault
    /\ RetryOrFail(i)
    /\ blamed' = blamed \cup ({i} \cap Finals)
    /\ UNCHANGED <<store, voice, asking, loader, taps>>

\* A stop between two requests changes nothing.
WorkerStops ==
    /\ worker.id # None /\ Fault
    /\ worker' = [Idle EXCEPT !.pc = "down"]
    /\ blamed' = blamed \cup ({worker.id, reqs[worker.id].run} \cap Finals)
    /\ UNCHANGED <<reqs, store, voice, asking, loader, taps>>

WorkerStarts ==
    /\ worker.pc = "down"
    /\ worker' = Idle
    /\ UNCHANGED <<reqs, store, voice, asking, loader, blamed, counters>>

LeaseExpires(i) ==
    /\ reqs[i].leased /\ worker.id # i
    /\ reqs' = [reqs EXCEPT ![i].leased = FALSE]
    /\ UNCHANGED <<store, voice, asking, loader, worker, blamed, counters>>

-----------------------------------------------------------------------------
Init ==
    /\ reqs = <<>> /\ transcripts = {} /\ summaries = {} /\ files = {}
    /\ items = <<>> /\ card = [refs |-> <<>>, quoted |-> 0]
    /\ asking = {} /\ loader = Off /\ worker = Idle
    /\ blamed = {} /\ taps = 0 /\ events = 0

BotStep == ReleaseMade \/ FetchStarts \/ Fetched \/ Settle \/ BotStarts

WorkerStep ==
    Claim \/ SummaryMade \/ Transcribe \/ Combine \/ Write \/ Finish \/ Refused \/ WorkerStarts

Next ==
    \/ \E c \in Chats : Delivered(c) \/ \E kind \in {"summary", "transcript"} : Tap(c, kind)
    \/ \E w \in asking : Enqueue(w)
    \/ \E ref \in Voices : Stage(ref)
    \/ Preview
    \/ \E output \in Outputs, mode \in Modes : Launch(output, mode)
    \/ BotStep \/ FetchFails \/ AnHourPasses \/ BotStops
    \/ WorkerStep \/ Raises \/ WorkerStops
    \/ \E i \in Ids : LeaseExpires(i)

Spec == Init /\ [][Next]_vars

\* Both processes run, and are started again when they stop; a download ends, and a lease.
FairSpec ==
    /\ Spec
    /\ WF_vars(BotStep \/ FetchFails)
    /\ WF_vars(WorkerStep)
    /\ WF_vars(\E i \in Ids : LeaseExpires(i))

-----------------------------------------------------------------------------
(* Properties. *)

\* Types, and what the columns say of each other: a request is leased only while it is worked
\* on, the one in the worker's hands is, and only recordings and final requests are uploaded.
AiTypeOK ==
    /\ reqs \in Seq(Request)
    /\ transcripts \subseteq Refs /\ summaries \subseteq Refs /\ files \subseteq Voices
    /\ items \in Seq([ref : Voices, secs : Nat]) /\ Len(items) <= MaxItems
    /\ card \in [refs : Seq(Voices), quoted : Nat]
    /\ asking \subseteq Wish
    /\ loader \in [pc : {"off", "rows", "fetch", "down"}, id : {None} \cup Uploading]
    /\ worker \in [pc : {"idle", "work", "write", "finish", "down"}, id : {None} \cup Ids, charge : Nat]
    /\ blamed \subseteq Finals
    /\ taps \in 0..MaxTaps /\ events \in 0..MaxEvents
    /\ \A i \in Ids : /\ reqs[i].leased => reqs[i].status = "working"
                      /\ worker.id = i => reqs[i].leased
                      /\ reqs[i].status = "uploading" => IsVoice(i)

\* A collection whose result went out is whole: every recording of the run was done before.
WholeBatch == \A f \in Finals : reqs[f].status = "done" => \A p \in Parts(f) : reqs[p].status = "done"

\* A collection fails for a recording that failed, or for a fault on its own way; the order in
\* which the worker takes requests is never the cause.
FinalFailsForCause ==
    \A f \in Finals : reqs[f].status = "failed" =>
        f \in blamed \/ \E p \in Parts(f) : reqs[p].status = "failed"

\* A chat pays the audio of an episode or a recording once, however often and in whatever form
\* it asks for it.
PaidOnce ==
    \A i, j \in Ids :
        /\ reqs[i].status = "done" /\ reqs[i].secs > 0 /\ reqs[j].status = "done" /\ reqs[j].secs > 0
        /\ reqs[i].chat = reqs[j].chat /\ reqs[i].ref = reqs[j].ref
        => i = j

\* A tap starts what the card showed: these recordings, and no more hours than it said.
ShownIsStarted ==
    [][\A f \in Finals' \ Finals :
          /\ Total(Parts(f))' <= card.quoted
          /\ {reqs'[p].ref : p \in Parts(f)'} = {card.refs[k] : k \in DOMAIN card.refs}]_vars

\* When nothing new is asked for, every request comes to an end, unless the bot stopped between
\* the last recording of a run and its settle(): nothing calls that for the run until another
\* download of the chat.
Stranded(f) == f \in Finals /\ reqs[f].status = "uploading" /\ loader = Off /\ Uploading = {}

RequestsEnd == <>[](\A i \in Ids : reqs[i].status \in Open => Stranded(i))

\* What db/voice.py says: the final request follows those of the recordings.  It does not
\* after a restart of the worker: a recording it was at is leased, the final one is taken.
FinalFollowsParts ==
    \A f \in Finals : reqs[f].status = "working" => \A p \in Parts(f) : reqs[p].status \notin Open
=============================================================================
