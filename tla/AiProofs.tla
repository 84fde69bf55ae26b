------------------------------ MODULE AiProofs ------------------------------
(***************************************************************************)
(* Proofs about AiRequests, for any number of chats, recordings, requests, *)
(* attempts, stops and errors: the types; that a collection's result is    *)
(* whole (WholeInv); that a collection fails only for a recording that     *)
(* failed or a fault on its own way (CauseInv); that audio is paid once    *)
(* (PaidInv).                                                              *)
(***************************************************************************)
EXTENDS AiRequests, Counting

-----------------------------------------------------------------------------
(***************************************************************************)
(* Types.  Beside those of AiTypeOK: what kinds of requests there are, and *)
(* that the loader and the worker have a request in the steps that need    *)
(* one.                                                                    *)
(***************************************************************************)
KindOK(i) ==
    /\ reqs[i].kind \in Final =>
         reqs[i].ref = Batch /\ reqs[i].run = 0 /\ reqs[i].chat = Sender /\ ~reqs[i].auto
    /\ reqs[i].run # 0 =>
         /\ reqs[i].ref \in Voices /\ reqs[i].chat = Sender /\ ~reqs[i].auto
         /\ i < reqs[i].run /\ reqs[i].run \in Finals
    /\ reqs[i].run = 0 /\ reqs[i].kind \notin Final => reqs[i].ref = Episode

KindsOK == \A i \in Ids : KindOK(i)

HandsOK ==
    /\ loader.pc = "fetch" <=> loader.id # None
    /\ worker.pc \in {"work", "write", "finish"} <=> worker.id # None

Shape == AiTypeOK /\ KindsOK /\ HandsOK

-----------------------------------------------------------------------------
(* The table of requests. *)

LEMMA Numbers ==
    ASSUME Shape
    PROVE  /\ Ids = 1..Len(reqs) /\ Len(reqs) \in Nat /\ reqs \in [Ids -> Request]
           /\ None \notin Ids /\ IsFiniteSet(Ids)
<1>1. reqs \in Seq(Request)
  BY DEF Shape, AiTypeOK
<1>2. Ids = 1..Len(reqs) /\ Len(reqs) \in Nat /\ reqs \in [Ids -> Request]
  BY <1>1 DEF Ids
<1>3. IsFiniteSet(Ids)
  BY <1>2, FS_Interval
<1> QED  BY <1>2, <1>3 DEF None

\* One request changes.
Becomes(i, r) ==
    /\ Ids' = Ids /\ reqs' \in [Ids -> Request] /\ reqs'[i] = r
    /\ \A j \in Ids \ {i} : reqs'[j] = reqs[j]

LEMMA Replaced ==
    ASSUME Shape, NEW i \in Ids, NEW r \in Request, reqs' = [reqs EXCEPT ![i] = r]
    PROVE  Becomes(i, r) /\ reqs' \in Seq(Request)
<1>1. reqs \in [Ids -> Request] /\ Ids = 1..Len(reqs) /\ Len(reqs) \in Nat
  BY Numbers
<1>2. reqs' \in [Ids -> Request] /\ DOMAIN reqs' = Ids
  BY <1>1
<1>3. reqs' \in Seq(Request)
  BY <1>1, <1>2
<1>4. reqs'[i] = r /\ \A j \in Ids \ {i} : reqs'[j] = reqs[j]
  BY <1>1
<1> QED  BY <1>2, <1>3, <1>4 DEF Becomes, Ids

LEMMA RequestParts ==
    ASSUME NEW r \in Request
    PROVE  /\ r.kind \in Kinds /\ r.chat \in Chats /\ r.ref \in Refs /\ r.secs \in Nat /\ r.auto \in BOOLEAN
           /\ r.item \in 0..MaxItems /\ r.run \in Nat /\ r.status \in OnTheWay \cup {"failed"}
           /\ r.attempts \in Nat /\ r.leased \in BOOLEAN /\ r.old \in BOOLEAN
           /\ \A x \in OnTheWay \cup {"failed"} : [r EXCEPT !.status = x] \in Request
           /\ \A x \in OnTheWay \cup {"failed"}, n \in Nat : [r EXCEPT !.status = x, !.secs = n] \in Request
           /\ \A x \in OnTheWay \cup {"failed"}, n \in Nat, b \in BOOLEAN :
                 /\ [r EXCEPT !.status = x, !.secs = n, !.leased = b] \in Request
                 /\ [r EXCEPT !.status = x, !.attempts = n, !.leased = b] \in Request
           /\ \A x \in OnTheWay \cup {"failed"}, b \in BOOLEAN : [r EXCEPT !.status = x, !.leased = b] \in Request
           /\ \A b \in BOOLEAN : /\ [r EXCEPT !.leased = b] \in Request
                                 /\ [r EXCEPT !.auto = b] \in Request
                                 /\ [r EXCEPT !.old = b] \in Request
<1>1. /\ r.kind \in Kinds /\ r.chat \in Chats /\ r.ref \in Refs /\ r.secs \in Nat /\ r.auto \in BOOLEAN
      /\ r.item \in 0..MaxItems /\ r.run \in Nat /\ r.status \in OnTheWay \cup {"failed"}
      /\ r.attempts \in Nat /\ r.leased \in BOOLEAN /\ r.old \in BOOLEAN
  BY DEF Request
<1>2. \A b \in BOOLEAN : /\ [r EXCEPT !.leased = b] \in Request
                         /\ [r EXCEPT !.auto = b] \in Request
                         /\ [r EXCEPT !.old = b] \in Request
  BY DEF Request
<1>3. ASSUME NEW x \in OnTheWay \cup {"failed"}
      PROVE  /\ [r EXCEPT !.status = x] \in Request
             /\ \A b \in BOOLEAN : [r EXCEPT !.status = x, !.leased = b] \in Request
             /\ \A n \in Nat : [r EXCEPT !.status = x, !.secs = n] \in Request
  BY DEF Request
<1>4. ASSUME NEW x \in OnTheWay \cup {"failed"}, NEW n \in Nat, NEW b \in BOOLEAN
      PROVE  /\ [r EXCEPT !.status = x, !.secs = n, !.leased = b] \in Request
             /\ [r EXCEPT !.status = x, !.attempts = n, !.leased = b] \in Request
  BY DEF Request
<1> QED  BY <1>1, <1>2, <1>3, <1>4

\* The oldest upload, and the request the worker claims.
LEMMA FirstIsThere ==
    ASSUME Shape, Uploading # {}
    PROVE  First \in Uploading /\ \A j \in Uploading : First <= j
<1>1. Uploading \in SUBSET Ids /\ Uploading \subseteq Nat /\ IsFiniteSet(Uploading)
  <2>1. Uploading \in SUBSET Ids
    BY DEF Uploading
  <2>2. Ids \subseteq Nat /\ IsFiniteSet(Ids)
    BY Numbers
  <2> QED  BY <2>1, <2>2, FS_Subset
<1>2. \E i \in Uploading : \A j \in Uploading : i <= j
  BY <1>1, Least
<1> QED  BY <1>2 DEF First

LEMMA OldestIsThere ==
    ASSUME Shape, Claimable # {}
    PROVE  Oldest \in Claimable /\ \A j \in Claimable : Before(Oldest, j)
<1> DEFINE taps1 == {i \in Claimable : ~reqs[i].auto}
<1>1. Claimable \in SUBSET Ids /\ Claimable \subseteq Nat /\ IsFiniteSet(Claimable)
  <2>1. Claimable \in SUBSET Ids
    BY DEF Claimable
  <2>2. Ids \subseteq Nat /\ IsFiniteSet(Ids)
    BY Numbers
  <2> QED  BY <2>1, <2>2, FS_Subset
<1>2. ASSUME NEW i \in Claimable PROVE reqs[i].auto \in BOOLEAN
  <2>1. i \in Ids /\ reqs \in [Ids -> Request]
    BY <1>1, Numbers
  <2>2. reqs[i] \in Request
    BY <2>1
  <2> QED  BY <2>2, RequestParts
<1>3. \E i \in Claimable : \A j \in Claimable : Before(i, j)
  <2>1. CASE taps1 # {}
    <3>1. taps1 \in SUBSET Claimable
      OBVIOUS
    <3>2. IsFiniteSet(taps1) /\ taps1 \subseteq Nat
      <4> HIDE DEF taps1
      <4> QED  BY <1>1, <3>1, FS_Subset
    <3>3. PICK i \in taps1 : \A j \in taps1 : i <= j
      <4> HIDE DEF taps1
      <4> QED  BY <2>1, <3>2, Least
    <3>4. ASSUME NEW j \in Claimable PROVE Before(i, j)
      BY <1>2, <3>3 DEF Before
    <3> QED  BY <3>3, <3>4
  <2>2. CASE taps1 = {}
    <3>1. PICK i \in Claimable : \A j \in Claimable : i <= j
      BY <1>1, Least
    <3>2. ASSUME NEW j \in Claimable PROVE Before(i, j)
      BY <1>2, <2>2, <3>1 DEF Before
    <3> QED  BY <3>2
  <2> QED  BY <2>1, <2>2
<1> QED  BY <1>3 DEF Oldest

-----------------------------------------------------------------------------
(* What each action does to the table. *)

Bad == "failed"

\* The request in somebody's hands, with what is known of it.
LEMMA InHands ==
    ASSUME Shape
    PROVE  /\ loader.pc = "fetch" =>
                /\ loader.id \in Uploading /\ loader.id \in Ids /\ reqs[loader.id] \in Request
                /\ reqs[loader.id].ref \in Voices /\ Charged(loader.id) \in Nat
           /\ worker.pc \in {"work", "write", "finish"} =>
                /\ worker.id \in Ids /\ reqs[worker.id] \in Request
                /\ reqs[worker.id].leased /\ reqs[worker.id].status = "working"
           /\ worker.pc \notin {"work", "write", "finish"} => worker.id \notin Ids
<1>1. reqs \in [Ids -> Request] /\ None \notin Ids
  BY Numbers
<1>2. ASSUME loader.pc = "fetch"
      PROVE  /\ loader.id \in Uploading /\ loader.id \in Ids /\ reqs[loader.id] \in Request
             /\ reqs[loader.id].ref \in Voices /\ Charged(loader.id) \in Nat
  <2>1. loader.id \in Uploading /\ loader.id \in Ids
    BY <1>2 DEF Shape, AiTypeOK, HandsOK, Uploading
  <2>2. reqs[loader.id].run # 0
    BY <2>1 DEF Uploading
  <2>3. reqs[loader.id].ref \in Voices
    BY <2>1, <2>2 DEF Shape, KindsOK, KindOK
  <2>4. Real[reqs[loader.id].ref] \in Nat
    BY <2>3, AiAssumption DEF AiAssumption
  <2> QED  BY <1>1, <2>1, <2>3, <2>4 DEF Charged
<1>3. ASSUME worker.pc \in {"work", "write", "finish"}
      PROVE  /\ worker.id \in Ids /\ reqs[worker.id] \in Request
             /\ reqs[worker.id].leased /\ reqs[worker.id].status = "working"
  <2>1. worker.id \in Ids
    BY <1>3 DEF Shape, AiTypeOK, HandsOK
  <2> QED  BY <1>1, <2>1 DEF Shape, AiTypeOK
<1>4. ASSUME worker.pc \notin {"work", "write", "finish"} PROVE worker.id \notin Ids
  BY <1>1, <1>4 DEF Shape, HandsOK
<1> QED  BY <1>2, <1>3, <1>4

LEMMA Released ==
    ASSUME Shape, ReleaseMade
    PROVE  /\ First \in Uploading
           /\ Becomes(First, [reqs[First] EXCEPT !.status = "pending"]) /\ reqs' \in Seq(Request)
<1>1. First \in Uploading
  BY FirstIsThere DEF ReleaseMade, AtRows
<1>2. First \in Ids /\ reqs[First] \in Request
  BY <1>1, Numbers DEF Uploading
<1>3. [reqs[First] EXCEPT !.status = "pending"] \in Request
  BY <1>2, RequestParts DEF OnTheWay, Open
<1>4. reqs' = [reqs EXCEPT ![First] = [reqs[First] EXCEPT !.status = "pending"]]
  BY DEF ReleaseMade, Set
<1> QED  BY <1>1, <1>2, <1>3, <1>4, Replaced

LEMMA FileFetched ==
    ASSUME Shape, Fetched
    PROVE  LET i == loader.id IN
           /\ i \in Uploading
           /\ Becomes(i, [reqs[i] EXCEPT !.status = "pending", !.secs = Charged(i)])
           /\ reqs' \in Seq(Request)
<1> DEFINE i == loader.id
<1>1. i \in Uploading /\ i \in Ids /\ reqs[i] \in Request /\ Charged(i) \in Nat
  BY InHands DEF Fetched
<1>2. [reqs[i] EXCEPT !.status = "pending", !.secs = Charged(i)] \in Request
  BY <1>1, RequestParts DEF OnTheWay, Open
<1>3. reqs' = [reqs EXCEPT ![i] = [reqs[i] EXCEPT !.status = "pending", !.secs = Charged(i)]]
  BY DEF Fetched
<1> HIDE DEF i
<1>4. /\ Becomes(i, [reqs[i] EXCEPT !.status = "pending", !.secs = Charged(i)])
      /\ reqs' \in Seq(Request)
  BY <1>1, <1>2, <1>3, Replaced
<1> QED  BY <1>1, <1>4 DEF i

LEMMA FetchFailed ==
    ASSUME Shape, FetchFails
    PROVE  LET i == loader.id IN
           /\ i \in Uploading
           /\ Becomes(i, [reqs[i] EXCEPT !.status = Bad]) /\ reqs' \in Seq(Request)
<1> DEFINE i == loader.id
<1>1. i \in Uploading /\ i \in Ids /\ reqs[i] \in Request
  BY InHands DEF FetchFails
<1>2. [reqs[i] EXCEPT !.status = Bad] \in Request
  BY <1>1, RequestParts DEF Bad
<1>3. reqs' = [reqs EXCEPT ![i] = [reqs[i] EXCEPT !.status = Bad]]
  BY DEF FetchFails, Set, Bad
<1> HIDE DEF i
<1>4. Becomes(i, [reqs[i] EXCEPT !.status = Bad]) /\ reqs' \in Seq(Request)
  BY <1>1, <1>2, <1>3, Replaced
<1> QED  BY <1>1, <1>4 DEF i

LEMMA Claims ==
    ASSUME Shape, Claim
    PROVE  /\ Oldest \in Claimable /\ Oldest \in Ids /\ worker' = [pc |-> "work", id |-> Oldest, charge |-> 0]
           /\ Becomes(Oldest, [reqs[Oldest] EXCEPT !.status = "working", !.leased = TRUE,
                                                   !.attempts = reqs[Oldest].attempts + 1])
           /\ reqs' \in Seq(Request)
<1> DEFINE r == reqs[Oldest]
<1>1. Oldest \in Claimable
  BY OldestIsThere DEF Claim
<1>2. Oldest \in Ids /\ r \in Request
  <2>1. Oldest \in Ids /\ reqs \in [Ids -> Request]
    BY <1>1, Numbers DEF Claimable
  <2> QED  BY <2>1
<1>3. [r EXCEPT !.status = "working", !.attempts = r.attempts + 1, !.leased = TRUE] \in Request
  <2> HIDE DEF r
  <2>1. r.attempts \in Nat
    BY <1>2, RequestParts
  <2> DEFINE n == r.attempts + 1
  <2>2. n \in Nat /\ "working" \in OnTheWay \cup {"failed"} /\ TRUE \in BOOLEAN
    BY <2>1 DEF OnTheWay, Open
  <2> HIDE DEF n
  <2>3. [r EXCEPT !.status = "working", !.attempts = n, !.leased = TRUE] \in Request
    BY <1>2, <2>2, RequestParts
  <2> QED  BY <2>3 DEF n
<1>4. [r EXCEPT !.status = "working", !.attempts = r.attempts + 1, !.leased = TRUE]
        = [r EXCEPT !.status = "working", !.leased = TRUE, !.attempts = r.attempts + 1]
  <2> HIDE DEF r
  <2> QED  BY <1>2 DEF Request
<1>5. reqs' = [reqs EXCEPT ![Oldest] =
                  [r EXCEPT !.status = "working", !.attempts = r.attempts + 1, !.leased = TRUE]]
  BY DEF Claim, Take
<1>6. worker' = [pc |-> "work", id |-> Oldest, charge |-> 0]
  BY DEF Claim, Take, Idle
<1> HIDE DEF r
<1>7. /\ Becomes(Oldest, [r EXCEPT !.status = "working", !.leased = TRUE, !.attempts = r.attempts + 1])
      /\ reqs' \in Seq(Request)
  BY <1>2, <1>3, <1>4, <1>5, Replaced
<1> QED  BY <1>1, <1>2, <1>6, <1>7 DEF r

LEMMA Finished ==
    ASSUME Shape, Finish
    PROVE  LET i == worker.id IN
           /\ i \in Ids
           /\ Becomes(i, [reqs[i] EXCEPT !.status = "done", !.secs = worker.charge, !.leased = FALSE])
           /\ reqs' \in Seq(Request)
<1> DEFINE i == worker.id
<1>1. i \in Ids /\ reqs[i] \in Request /\ worker.charge \in Nat
  BY InHands DEF Finish, Shape, AiTypeOK
<1>2. [reqs[i] EXCEPT !.status = "done", !.secs = worker.charge, !.leased = FALSE] \in Request
  BY <1>1, RequestParts DEF OnTheWay
<1>3. reqs' = [reqs EXCEPT ![i] =
                  [reqs[i] EXCEPT !.status = "done", !.secs = worker.charge, !.leased = FALSE]]
  BY DEF Finish
<1> HIDE DEF i
<1>4. /\ Becomes(i, [reqs[i] EXCEPT !.status = "done", !.secs = worker.charge, !.leased = FALSE])
      /\ reqs' \in Seq(Request)
  BY <1>1, <1>2, <1>3, Replaced
<1> QED  BY <1>1, <1>4 DEF i

LEMMA Retried ==
    ASSUME Shape, worker.id \in Ids, RetryOrFail(worker.id)
    PROVE  LET i == worker.id IN
           /\ reqs' \in Seq(Request)
           /\ \E x \in {"pending", Bad} : Becomes(i, [reqs[i] EXCEPT !.status = x, !.leased = FALSE])
<1> DEFINE i == worker.id
           x == IF reqs[i].attempts >= MaxAttempts THEN Bad ELSE "pending"
<1>1. i \in Ids /\ reqs[i] \in Request
  BY Numbers
<1>2. reqs' = [reqs EXCEPT ![i] = [reqs[i] EXCEPT !.status = x, !.leased = FALSE]]
  BY DEF RetryOrFail, Bad
<1>3. x \in {"pending", Bad}
  OBVIOUS
<1> HIDE DEF x, i
<1>4. x \in OnTheWay \cup {"failed"}
  BY <1>3 DEF Bad, OnTheWay, Open
<1>5. [reqs[i] EXCEPT !.status = x, !.leased = FALSE] \in Request
  BY <1>1, <1>4, RequestParts
<1>6. Becomes(i, [reqs[i] EXCEPT !.status = x, !.leased = FALSE]) /\ reqs' \in Seq(Request)
  BY <1>1, <1>2, <1>5, Replaced
<1> QED  BY <1>3, <1>6 DEF i

LEMMA LeaseOver ==
    ASSUME Shape, NEW i \in Ids, LeaseExpires(i)
    PROVE  Becomes(i, [reqs[i] EXCEPT !.leased = FALSE]) /\ reqs' \in Seq(Request)
<1>1. reqs[i] \in Request
  BY Numbers
<1>2. [reqs[i] EXCEPT !.leased = FALSE] \in Request
  BY <1>1, RequestParts
<1>3. reqs' = [reqs EXCEPT ![i] = [reqs[i] EXCEPT !.leased = FALSE]]
  BY DEF LeaseExpires
<1> QED  BY <1>1, <1>2, <1>3, Replaced

\* What a request is stays, and what a tap wants now is not made to wait.
SameKind(i) ==
    /\ i \in Ids' /\ reqs'[i].kind = reqs[i].kind /\ reqs'[i].chat = reqs[i].chat
    /\ reqs'[i].ref = reqs[i].ref /\ reqs'[i].run = reqs[i].run
    /\ reqs'[i].auto => reqs[i].auto

LEMMA OnePart ==
    ASSUME Shape, NEW i \in Ids, NEW r, Becomes(i, r),
           r.kind = reqs[i].kind, r.chat = reqs[i].chat, r.ref = reqs[i].ref,
           r.run = reqs[i].run, r.auto = reqs[i].auto
    PROVE  Ids' = Ids /\ \A j \in Ids : SameKind(j)
BY DEF Becomes, SameKind

\* The request a tap or a delivery asks for.
Asked(w) == [NewRequest EXCEPT !.kind = w.kind, !.chat = w.chat, !.secs = w.secs, !.auto = w.auto]

LEMMA AskedType ==
    ASSUME Shape, NEW w \in asking
    PROVE  /\ Asked(w) \in Request /\ Asked(w).kind \notin Final /\ Asked(w).run = 0
           /\ Asked(w).ref = Episode /\ Asked(w).status = "pending" /\ ~Asked(w).leased
           /\ w.auto \in BOOLEAN
<1>1. w \in Wish
  BY DEF Shape, AiTypeOK
<1>2. w.kind \in {"summary", "transcript"} /\ w.chat \in Chats /\ w.secs \in Nat /\ w.auto \in BOOLEAN
  BY <1>1 DEF Wish
<1>3. NewRequest \in Request
  <2>1. 0 \in 0..MaxItems /\ Episode \in Refs /\ Sender \in Chats
    BY AiAssumption DEF AiAssumption, Refs
  <2> QED  BY <2>1 DEF NewRequest, Request, Kinds, OnTheWay, Open
<1>4. NewRequest.run = 0 /\ NewRequest.ref = Episode /\ NewRequest.status = "pending" /\ ~NewRequest.leased
  BY DEF NewRequest
<1>5. "summary" \in Kinds /\ "transcript" \in Kinds
  BY DEF Kinds
<1>6. Asked(w) \in Request
  BY <1>2, <1>3, <1>5 DEF Asked, Request
<1>7. /\ Asked(w).kind = w.kind /\ Asked(w).run = 0 /\ Asked(w).ref = Episode
      /\ Asked(w).status = "pending" /\ ~Asked(w).leased
  BY <1>3, <1>4 DEF Asked, Request
<1> QED  BY <1>2, <1>6, <1>7 DEF Final

\* enqueue() adds a request, or makes open ones wanted now.
LEMMA Enqueued ==
    ASSUME Shape, NEW w \in asking, Enqueue(w)
    PROVE  /\ reqs' \in Seq(Request)
           /\ \/ /\ Ids' = Ids
                 /\ \A i \in Ids : \/ reqs'[i] = reqs[i]
                                   \/ reqs'[i] = [reqs[i] EXCEPT !.auto = reqs[i].auto /\ w.auto]
              \/ /\ Ids' = 1..(Len(reqs) + 1)
                 /\ \A i \in Ids : reqs'[i] = reqs[i]
                 /\ reqs'[Len(reqs) + 1] = Asked(w)
<1> DEFINE same == {i \in Ids : reqs[i].chat = w.chat /\ reqs[i].ref = Episode /\ reqs[i].kind = w.kind
                              /\ reqs[i].status \in Open}
<1>0. Ids = 1..Len(reqs) /\ Len(reqs) \in Nat /\ reqs \in [Ids -> Request] /\ reqs \in Seq(Request)
  BY Numbers DEF Shape, AiTypeOK
<1>1. CASE same = {}
  <2>1. reqs' = Append(reqs, Asked(w))
    BY <1>1 DEF Enqueue, Asked
  <2>2. Asked(w) \in Request
    BY AskedType
  <2>3. reqs' \in Seq(Request) /\ DOMAIN reqs' = 1..(Len(reqs) + 1)
    BY <1>0, <2>1, <2>2
  <2>4. (\A i \in Ids : reqs'[i] = reqs[i]) /\ reqs'[Len(reqs) + 1] = Asked(w)
    BY <1>0, <2>1, <2>2
  <2> QED  BY <2>3, <2>4 DEF Ids
<1>2. CASE same # {}
  <2>1. reqs' = [i \in Ids |-> IF i \in same THEN [reqs[i] EXCEPT !.auto = @ /\ w.auto] ELSE reqs[i]]
    BY <1>2 DEF Enqueue
  <2>2. ASSUME NEW i \in Ids
        PROVE  /\ \/ reqs'[i] = reqs[i]
                  \/ reqs'[i] = [reqs[i] EXCEPT !.auto = reqs[i].auto /\ w.auto]
               /\ reqs'[i] \in Request
    <3>1. reqs[i] \in Request /\ reqs[i].auto \in BOOLEAN /\ w.auto \in BOOLEAN
      BY <1>0, RequestParts, AskedType
    <3> DEFINE b == reqs[i].auto /\ w.auto
    <3>2. b \in BOOLEAN
      OBVIOUS
    <3>3. [reqs[i] EXCEPT !.auto = b] \in Request
      <4> HIDE DEF b
      <4> QED  BY <3>1, <3>2, RequestParts
    <3>4. reqs'[i] = reqs[i] \/ reqs'[i] = [reqs[i] EXCEPT !.auto = b]
      <4> HIDE DEF same
      <4> QED  BY <2>1
    <3> QED  BY <3>1, <3>3, <3>4
  <2>3. DOMAIN reqs' = Ids
    <3> HIDE DEF same
    <3> QED  BY <2>1
  <2>4. reqs' = [i \in Ids |-> reqs'[i]]
    <3> HIDE DEF same
    <3> QED  BY <2>1
  <2>5. reqs' \in Seq(Request)
    BY <1>0, <2>2, <2>4
  <2> QED  BY <2>2, <2>3, <2>5 DEF Ids
<1> QED  BY <1>1, <1>2

\* settle() fails what is late and what has a part that failed, and lets go the rest.
LEMMA SettleMoves ==
    ASSUME Shape, Settle
    PROVE  /\ reqs' \in Seq(Request) /\ Ids' = Ids
           /\ \A i \in Ids : reqs'[i] =
                IF i \in Late \/ (i \in Ready /\ PartFailed(i)) THEN [reqs[i] EXCEPT !.status = "failed"]
                ELSE IF i \in Ready THEN [reqs[i] EXCEPT !.status = "pending"] ELSE reqs[i]
<1>0. Ids = 1..Len(reqs) /\ Len(reqs) \in Nat /\ reqs \in [Ids -> Request]
  BY Numbers
<1> DEFINE N(i) == IF i \in Late \/ (i \in Ready /\ PartFailed(i)) THEN [reqs[i] EXCEPT !.status = "failed"]
                   ELSE IF i \in Ready THEN [reqs[i] EXCEPT !.status = "pending"] ELSE reqs[i]
<1>1. reqs' = [i \in Ids |-> N(i)]
  BY DEF Settle
<1>2. ASSUME NEW i \in Ids PROVE N(i) \in Request
  <2>1. reqs[i] \in Request
    BY <1>0
  <2>2. [reqs[i] EXCEPT !.status = "failed"] \in Request /\ [reqs[i] EXCEPT !.status = "pending"] \in Request
    BY <2>1, RequestParts DEF OnTheWay, Open
  <2> QED  BY <2>1, <2>2
<1> HIDE DEF N
<1>3. reqs' \in Seq(Request) /\ DOMAIN reqs' = Ids /\ \A i \in Ids : reqs'[i] = N(i)
  BY <1>0, <1>1, <1>2
<1> QED  BY <1>3 DEF N, Ids

LEMMA HourMoves ==
    ASSUME Shape, AnHourPasses
    PROVE  /\ reqs' \in Seq(Request) /\ Ids' = Ids
           /\ \A i \in Ids : \E b \in BOOLEAN : reqs'[i] = [reqs[i] EXCEPT !.old = b]
<1>0. Ids = 1..Len(reqs) /\ Len(reqs) \in Nat /\ reqs \in [Ids -> Request]
  BY Numbers
<1> DEFINE b(i) == reqs[i].old \/ reqs[i].status = "uploading"
<1>1. reqs' = [i \in Ids |-> [reqs[i] EXCEPT !.old = b(i)]]
  BY DEF AnHourPasses
<1>2. ASSUME NEW i \in Ids PROVE b(i) \in BOOLEAN
  OBVIOUS
<1> HIDE DEF b
<1>3. ASSUME NEW i \in Ids PROVE [reqs[i] EXCEPT !.old = b(i)] \in Request
  <2>1. reqs[i] \in Request
    BY <1>0
  <2> QED  BY <1>2, <2>1, RequestParts
<1> DEFINE N(i) == [reqs[i] EXCEPT !.old = b(i)]
<1>4. reqs' = [i \in Ids |-> N(i)] /\ \A i \in Ids : N(i) \in Request
  BY <1>1, <1>3
<1> HIDE DEF N
<1>5. reqs' \in Seq(Request) /\ DOMAIN reqs' = Ids /\ \A i \in Ids : reqs'[i] = N(i)
  BY <1>0, <1>4
<1> QED  BY <1>2, <1>5 DEF N, Ids

\* The requests of a run, as launch() puts them in.
NewPart(r, output, mode, k, f) ==
    /\ r \in Request /\ r.kind = Kind(output, mode) /\ r.kind \notin Final /\ r.chat = Sender
    /\ r.ref = items[k].ref /\ r.ref \in Voices /\ r.run = f /\ r.secs = Needed(k)
    /\ r.status = "uploading" /\ ~r.auto /\ ~r.leased

NewFinal(r) ==
    /\ r \in Request /\ r.kind \in Final /\ r.chat = Sender /\ r.ref = Batch /\ r.run = 0
    /\ r.secs = 0 /\ r.status = "uploading" /\ ~r.auto /\ ~r.leased

LEMMA ItemTypes ==
    ASSUME Shape
    PROVE  /\ items \in Seq([ref : Voices, secs : Nat]) /\ Len(items) \in Nat /\ Len(items) <= MaxItems
           /\ DOMAIN items = 1..Len(items)
           /\ \A k \in 1..Len(items) : items[k].ref \in Voices /\ items[k].secs \in Nat /\ Needed(k) \in Nat
<1> DEFINE Item == [ref : Voices, secs : Nat]
<1>1. items \in Seq(Item) /\ Len(items) <= MaxItems
  BY DEF Shape, AiTypeOK
<1>2. Len(items) \in Nat /\ DOMAIN items = 1..Len(items) /\ items \in [1..Len(items) -> Item]
  <2> HIDE DEF Item
  <2> QED  BY <1>1
<1>3. ASSUME NEW k \in 1..Len(items) PROVE items[k].ref \in Voices /\ items[k].secs \in Nat
  <2>1. items[k] \in Item
    <3> HIDE DEF Item
    <3> QED  BY <1>2
  <2> QED  BY <2>1
<1>4. ASSUME NEW k \in 1..Len(items) PROVE Needed(k) \in Nat
  BY <1>3 DEF Needed
<1> QED  BY <1>1, <1>2, <1>3, <1>4

LEMMA RunTypes ==
    ASSUME Shape, NEW output \in Outputs, NEW mode \in Modes
    PROVE  LET n == Len(items)
               f == Len(reqs) + n + 1 IN
           /\ DOMAIN Run(output, mode) = 1..(n + 1)
           /\ \A k \in 1..n : NewPart(Run(output, mode)[k], output, mode, k, f)
           /\ NewFinal(Run(output, mode)[n + 1])
<1> DEFINE n == Len(items)
           f == Len(reqs) + n + 1
           new == [NewRequest EXCEPT !.status = "uploading"]
           last == [new EXCEPT !.kind = FinalKind(output, mode), !.ref = Batch]
           part(k) == [new EXCEPT !.kind = Kind(output, mode), !.ref = items[k].ref, !.secs = Needed(k),
                                  !.item = k, !.run = f]
<1>0. n \in Nat /\ n <= MaxItems /\ MaxItems \in Nat /\ Len(reqs) \in Nat
      /\ output \in {"summary", "transcript"} /\ mode \in {"each", "all"} /\ Sender \in Chats
  BY ItemTypes, Numbers, AiAssumption DEF AiAssumption
<1>1. Run(output, mode) = [k \in 1..(n + 1) |-> IF k = n + 1 THEN last ELSE part(k)]
  BY DEF Run
<1>2. /\ new \in Request /\ new.chat = Sender /\ new.run = 0 /\ new.secs = 0 /\ new.status = "uploading"
      /\ ~new.auto /\ ~new.leased
  <2>1. 0 \in 0..MaxItems /\ Episode \in Refs
    BY <1>0 DEF Refs
  <2>2. NewRequest \in Request
    BY <1>0, <2>1 DEF NewRequest, Request, Kinds, OnTheWay, Open
  <2>3. new \in Request
    BY <2>2 DEF Request, OnTheWay, Open
  <2>4. /\ NewRequest.chat = Sender /\ NewRequest.run = 0 /\ NewRequest.secs = 0
        /\ ~NewRequest.auto /\ ~NewRequest.leased
    BY DEF NewRequest
  <2> QED  BY <2>2, <2>3, <2>4 DEF Request
<1> HIDE DEF new
<1>3. FinalKind(output, mode) \in Final /\ FinalKind(output, mode) \in Kinds
  BY <1>0 DEF FinalKind, Final, Kinds
<1>4. Kind(output, mode) \notin Final /\ Kind(output, mode) \in Kinds
  BY <1>0 DEF Kind, Final, Kinds
<1>5. NewFinal(last)
  <2>1. Batch \in Refs
    BY DEF Refs
  <2>2. last \in Request
    BY <1>2, <1>3, <2>1 DEF Request
  <2>3. /\ last.kind = FinalKind(output, mode) /\ last.chat = new.chat /\ last.ref = Batch
        /\ last.run = new.run /\ last.secs = new.secs /\ last.status = new.status
        /\ last.auto = new.auto /\ last.leased = new.leased
    BY <1>2 DEF Request
  <2> HIDE DEF last
  <2> QED  BY <1>2, <1>3, <2>2, <2>3 DEF NewFinal
<1>6. ASSUME NEW k \in 1..n PROVE NewPart(part(k), output, mode, k, f)
  <2> DEFINE ref == items[k].ref
             secs == Needed(k)
             kind == Kind(output, mode)
  <2>1. ref \in Refs /\ ref \in Voices /\ secs \in Nat /\ kind \in Kinds /\ kind \notin Final
    BY <1>4, ItemTypes DEF Refs
  <2>2. k \in 0..MaxItems /\ f \in Nat
    BY <1>0
  <2> HIDE DEF ref, secs, kind, f
  <2> DEFINE r == [new EXCEPT !.kind = kind, !.ref = ref, !.secs = secs, !.item = k, !.run = f]
  <2>3. r \in Request
    BY <1>2, <2>1, <2>2 DEF Request
  <2>4. /\ r.kind = kind /\ r.chat = new.chat /\ r.ref = ref /\ r.run = f /\ r.secs = secs
        /\ r.status = new.status /\ r.auto = new.auto /\ r.leased = new.leased
    BY <1>2 DEF Request
  <2>5. part(k) = r
    BY DEF ref, secs, kind
  <2> HIDE DEF r, part
  <2>6. /\ r.ref = items[k].ref /\ r.secs = Needed(k) /\ r.kind = Kind(output, mode)
    BY <2>4 DEF ref, secs, kind
  <2> QED  BY <1>2, <1>4, <2>1, <2>3, <2>4, <2>5, <2>6 DEF NewPart
<1> HIDE DEF last, part, f
<1>7. ASSUME NEW k \in 1..n PROVE Run(output, mode)[k] = part(k)
  <2>1. k \in 1..(n + 1) /\ k # n + 1
    BY <1>0
  <2> HIDE DEF n
  <2> QED  BY <1>1, <2>1
<1>8. Run(output, mode)[n + 1] = last /\ DOMAIN Run(output, mode) = 1..(n + 1)
  <2>1. n + 1 \in 1..(n + 1)
    BY <1>0
  <2> HIDE DEF n
  <2> QED  BY <1>1, <2>1
<1>9. /\ DOMAIN Run(output, mode) = 1..(n + 1)
      /\ \A k \in 1..n : NewPart(Run(output, mode)[k], output, mode, k, f)
      /\ NewFinal(Run(output, mode)[n + 1])
  BY <1>5, <1>6, <1>7, <1>8
<1> QED  BY <1>9 DEF f

LEMMA Launched ==
    ASSUME Shape, NEW output \in Outputs, NEW mode \in Modes, Start(output, mode)
    PROVE  LET n == Len(items)
               f == Len(reqs) + n + 1 IN
           /\ reqs' \in Seq(Request) /\ Ids' = 1..f /\ f \in Nat /\ n \in Nat
           /\ \A i \in Ids : reqs'[i] = reqs[i]
           /\ \A k \in 1..n : NewPart(reqs'[Len(reqs) + k], output, mode, k, f)
           /\ NewFinal(reqs'[f])
<1> DEFINE n == Len(items)
           f == Len(reqs) + n + 1
           run == Run(output, mode)
<1>0. Ids = 1..Len(reqs) /\ Len(reqs) \in Nat /\ n \in Nat /\ reqs \in Seq(Request)
  BY Numbers, ItemTypes DEF Shape, AiTypeOK
<1>1. /\ DOMAIN run = 1..(n + 1)
      /\ \A k \in 1..n : NewPart(run[k], output, mode, k, f)
      /\ NewFinal(run[n + 1])
  BY RunTypes
<1>2. ASSUME NEW k \in 1..(n + 1) PROVE run[k] \in Request
  <2>1. CASE k = n + 1
    BY <1>1, <2>1 DEF NewFinal
  <2>2. CASE k \in 1..n
    BY <1>1, <2>2 DEF NewPart
  <2>3. k = n + 1 \/ k \in 1..n
    BY <1>0
  <2> QED  BY <2>1, <2>2, <2>3
<1>3. run = [k \in 1..(n + 1) |-> run[k]]
  BY DEF Run
<1>4. reqs' = reqs \o run
  BY DEF Start
<1> HIDE DEF run, n
<1>5. run \in Seq(Request) /\ Len(run) = n + 1
  BY <1>0, <1>1, <1>2, <1>3
<1>6. reqs' \in Seq(Request) /\ Len(reqs') = Len(reqs) + (n + 1)
  <2>1. \A s, t \in Seq(Request) : s \o t \in Seq(Request) /\ Len(s \o t) = Len(s) + Len(t)
    OBVIOUS
  <2>2. reqs \o run \in Seq(Request) /\ Len(reqs \o run) = Len(reqs) + Len(run)
    BY <1>0, <1>5, <2>1
  <2> QED  BY <1>4, <1>5, <2>2
<1>7. DOMAIN reqs' = 1..f /\ f \in Nat
  BY <1>0, <1>6
<1>8. \A i \in Ids : reqs'[i] = reqs[i]
  BY <1>0, <1>4, <1>5
<1>9. ASSUME NEW k \in 1..(n + 1) PROVE reqs'[Len(reqs) + k] = run[k]
  <2>1. Len(reqs) + k \in 1..(Len(reqs) + Len(run)) /\ Len(reqs) + k > Len(reqs)
        /\ Len(reqs) + k - Len(reqs) = k
    BY <1>0, <1>5
  <2> QED  BY <1>0, <1>4, <1>5, <2>1
<1>10. ASSUME NEW k \in 1..n PROVE NewPart(reqs'[Len(reqs) + k], output, mode, k, f)
  <2>1. k \in 1..(n + 1)
    BY <1>0
  <2>2. reqs'[Len(reqs) + k] = run[k]
    BY <1>9, <2>1
  <2> HIDE DEF f
  <2> QED  BY <1>1, <2>2
<1>11. NewFinal(reqs'[f])
  <2>1. n + 1 \in 1..(n + 1) /\ f = Len(reqs) + (n + 1)
    BY <1>0
  <2> HIDE DEF f
  <2>2. reqs'[f] = run[n + 1]
    BY <1>9, <2>1
  <2> QED  BY <1>1, <2>2
<1> HIDE DEF f
<1>12. Ids' = 1..f
  BY <1>7 DEF Ids
<1>13. /\ reqs' \in Seq(Request) /\ Ids' = 1..f /\ f \in Nat /\ n \in Nat
       /\ \A i \in Ids : reqs'[i] = reqs[i]
       /\ \A k \in 1..n : NewPart(reqs'[Len(reqs) + k], output, mode, k, f)
       /\ NewFinal(reqs'[f])
  BY <1>0, <1>6, <1>7, <1>8, <1>10, <1>11, <1>12
<1> QED  BY <1>13 DEF f, n

\* The actions that touch the table.
LEMMA TableSteps ==
    ASSUME Next
    PROVE  \/ reqs' = reqs
           \/ \E w \in asking : Enqueue(w)
           \/ \E output \in Outputs, mode \in Modes : Launch(output, mode)
           \/ ReleaseMade \/ Fetched \/ FetchFails \/ Settle \/ AnHourPasses
           \/ Claim \/ Finish \/ Refused \/ Raises
           \/ \E i \in Ids : LeaseExpires(i)
BY DEF Next, BotStep, WorkerStep, Delivered, Tap, Stage, Preview, FetchStarts, BotStarts, BotStops,
       SummaryMade, Transcribe, Combine, Write, WorkerStarts, WorkerStops

\* Refused and Raises leave the request to retry_or_fail().
LEMMA GivenBack ==
    ASSUME Shape, Refused \/ Raises
    PROVE  LET i == worker.id IN
           /\ i \in Ids /\ worker' = Idle
           /\ reqs' \in Seq(Request)
           /\ \E x \in {"pending", Bad} : Becomes(i, [reqs[i] EXCEPT !.status = x, !.leased = FALSE])
<1>1. worker.pc \in {"work", "write", "finish"}
  BY DEF Refused, Raises
<1>2. worker.id \in Ids
  BY <1>1, InHands
<1>3. RetryOrFail(worker.id)
  BY DEF Refused, Raises
<1>4. worker' = Idle
  BY <1>3 DEF RetryOrFail
<1> QED  BY <1>2, <1>3, <1>4, Retried

LEMMA KindsStep ==
    ASSUME Shape, Next
    PROVE  /\ reqs' \in Seq(Request)
           /\ \A i \in Ids : SameKind(i)
           /\ \A i \in Ids' \ Ids : KindOK(i)'
<1> DEFINE Goal == /\ reqs' \in Seq(Request)
                   /\ \A i \in Ids : SameKind(i)
                   /\ \A i \in Ids' \ Ids : KindOK(i)'
<1>0. Ids = 1..Len(reqs) /\ Len(reqs) \in Nat /\ reqs \in [Ids -> Request] /\ reqs \in Seq(Request)
  BY Numbers DEF Shape, AiTypeOK
<1>1. ASSUME reqs' = reqs PROVE Goal
  BY <1>0, <1>1 DEF SameKind, Ids
\* One request changes.
<1>2. ASSUME NEW i \in Ids, NEW r \in Request, Becomes(i, r), reqs' \in Seq(Request),
             r.kind = reqs[i].kind, r.chat = reqs[i].chat, r.ref = reqs[i].ref,
             r.run = reqs[i].run, r.auto = reqs[i].auto
      PROVE  Goal
  <2>1. Ids' = Ids /\ \A j \in Ids : SameKind(j)
    BY <1>2, OnePart
  <2> QED  BY <1>2, <2>1
<1>3. ASSUME NEW w \in asking, Enqueue(w) PROVE Goal
  <2>1. reqs' \in Seq(Request)
    BY <1>3, Enqueued
  <2>2. CASE /\ Ids' = Ids
             /\ \A i \in Ids : \/ reqs'[i] = reqs[i]
                               \/ reqs'[i] = [reqs[i] EXCEPT !.auto = reqs[i].auto /\ w.auto]
    <3>1. ASSUME NEW i \in Ids PROVE SameKind(i)
      <4>1. reqs[i] \in Request
        BY <1>0
      <4>2. CASE reqs'[i] = reqs[i]
        BY <2>2, <4>2 DEF SameKind
      <4>3. CASE reqs'[i] = [reqs[i] EXCEPT !.auto = reqs[i].auto /\ w.auto]
        BY <2>2, <4>1, <4>3 DEF SameKind, Request
      <4> QED  BY <2>2, <4>2, <4>3
    <3> QED  BY <2>1, <2>2, <3>1
  <2>3. CASE /\ Ids' = 1..(Len(reqs) + 1)
             /\ \A i \in Ids : reqs'[i] = reqs[i]
             /\ reqs'[Len(reqs) + 1] = Asked(w)
    <3>1. \A i \in Ids : i \in Ids'
      BY <1>0, <2>3
    <3>2. \A i \in Ids : SameKind(i)
      BY <2>3, <3>1 DEF SameKind
    <3>3. ASSUME NEW i \in Ids' \ Ids PROVE KindOK(i)'
      <4>1. i = Len(reqs) + 1
        BY <1>0, <2>3
      <4>2. reqs'[i] = Asked(w)
        BY <2>3, <4>1
      <4>3. reqs'[i].kind \notin Final /\ reqs'[i].run = 0 /\ reqs'[i].ref = Episode
        BY <4>2, AskedType
      <4> QED  BY <4>3 DEF KindOK
    <3> QED  BY <2>1, <3>2, <3>3
  <2> QED  BY <1>3, Enqueued, <2>2, <2>3
<1>4. ASSUME NEW output \in Outputs, NEW mode \in Modes, Launch(output, mode) PROVE Goal
  <2> DEFINE n == Len(items)
             f == Len(reqs) + n + 1
  <2>1. /\ reqs' \in Seq(Request) /\ Ids' = 1..f /\ f \in Nat /\ n \in Nat
        /\ \A i \in Ids : reqs'[i] = reqs[i]
        /\ \A k \in 1..n : NewPart(reqs'[Len(reqs) + k], output, mode, k, f)
        /\ NewFinal(reqs'[f])
    BY <1>4, Launched DEF Launch
  <2> HIDE DEF n
  <2>2. \A i \in Ids : i \in Ids'
    BY <1>0, <2>1
  <2>3. \A i \in Ids : SameKind(i)
    BY <2>1, <2>2 DEF SameKind
  <2>4. f \in Finals'
    <3>1. f \in Ids'
      BY <1>0, <2>1
    <3>2. reqs'[f].kind \in Final
      BY <2>1 DEF NewFinal
    <3> HIDE DEF f
    <3> QED  BY <3>1, <3>2 DEF Finals
  <2>5. ASSUME NEW i \in Ids' \ Ids PROVE KindOK(i)'
    <3>1. CASE i = f
      <4>1. NewFinal(reqs'[i])
        BY <2>1, <3>1
      <4> QED  BY <4>1 DEF KindOK, NewFinal
    <3>2. CASE i # f
      <4>0. i \in 1..f /\ i \notin 1..Len(reqs) /\ n \in Nat /\ Len(reqs) \in Nat
        BY <1>0, <2>1
      <4>1. i - Len(reqs) \in 1..n /\ i = Len(reqs) + (i - Len(reqs)) /\ i < f
        BY <3>2, <4>0
      <4> DEFINE k == i - Len(reqs)
      <4> HIDE DEF k, f
      <4>2. NewPart(reqs'[i], output, mode, k, f)
        BY <2>1, <4>1 DEF k
      <4> QED  BY <2>4, <4>1, <4>2 DEF KindOK, NewPart
    <3> QED  BY <3>1, <3>2
  <2> QED  BY <2>1, <2>3, <2>5
<1>5. ASSUME ReleaseMade PROVE Goal
  <2>1. First \in Ids /\ Becomes(First, [reqs[First] EXCEPT !.status = "pending"]) /\ reqs' \in Seq(Request)
    BY <1>5, Released DEF Uploading
  <2>2. reqs[First] \in Request
    BY <1>0, <2>1
  <2> DEFINE r == [reqs[First] EXCEPT !.status = "pending"]
  <2>3. /\ r \in Request /\ r.kind = reqs[First].kind /\ r.chat = reqs[First].chat
        /\ r.ref = reqs[First].ref /\ r.run = reqs[First].run /\ r.auto = reqs[First].auto
    BY <2>2 DEF Request, OnTheWay, Open
  <2> HIDE DEF r, Goal
  <2>4. Becomes(First, r)
    BY <2>1 DEF r
  <2>5. Goal
    BY <1>2, <2>1, <2>3, <2>4
  <2> QED  BY <2>5 DEF Goal
<1>6. ASSUME Fetched PROVE Goal
  <2> DEFINE i == loader.id
             r == [reqs[i] EXCEPT !.status = "pending", !.secs = Charged(i)]
  <2>1. i \in Ids /\ reqs[i] \in Request /\ Charged(i) \in Nat
    BY <1>6, InHands DEF Fetched
  <2>2. Becomes(i, r) /\ reqs' \in Seq(Request)
    BY <1>6, FileFetched
  <2>3. /\ r \in Request /\ r.kind = reqs[i].kind /\ r.chat = reqs[i].chat
        /\ r.ref = reqs[i].ref /\ r.run = reqs[i].run /\ r.auto = reqs[i].auto
    BY <2>1 DEF Request, OnTheWay, Open
  <2> HIDE DEF r, Goal, i
  <2>4. Goal
    BY <1>2, <2>1, <2>2, <2>3
  <2> QED  BY <2>4 DEF Goal
<1>7. ASSUME FetchFails PROVE Goal
  <2> DEFINE i == loader.id
             r == [reqs[i] EXCEPT !.status = Bad]
  <2>1. i \in Ids /\ reqs[i] \in Request
    BY <1>7, InHands DEF FetchFails
  <2>2. Becomes(i, r) /\ reqs' \in Seq(Request)
    BY <1>7, FetchFailed
  <2>3. /\ r \in Request /\ r.kind = reqs[i].kind /\ r.chat = reqs[i].chat
        /\ r.ref = reqs[i].ref /\ r.run = reqs[i].run /\ r.auto = reqs[i].auto
    BY <2>1 DEF Request, Bad
  <2> HIDE DEF r, Goal, i
  <2>4. Goal
    BY <1>2, <2>1, <2>2, <2>3
  <2> QED  BY <2>4 DEF Goal
<1>8. ASSUME Settle PROVE Goal
  <2>1. /\ reqs' \in Seq(Request) /\ Ids' = Ids
        /\ \A i \in Ids : \/ reqs'[i] = [reqs[i] EXCEPT !.status = "failed"]
                          \/ reqs'[i] = [reqs[i] EXCEPT !.status = "pending"]
                          \/ reqs'[i] = reqs[i]
    BY <1>8, SettleMoves
  <2>2. ASSUME NEW i \in Ids PROVE SameKind(i)
    <3>1. reqs[i] \in Request
      BY <1>0
    <3>2. PICK x : reqs'[i] = [reqs[i] EXCEPT !.status = x] \/ reqs'[i] = reqs[i]
      BY <2>1
    <3> QED  BY <2>1, <3>1, <3>2 DEF SameKind, Request
  <2> QED  BY <2>1, <2>2
<1>9. ASSUME AnHourPasses PROVE Goal
  <2>1. ASSUME NEW i \in Ids PROVE SameKind(i)
    <3>1. reqs[i] \in Request
      BY <1>0
    <3>2. PICK b : reqs'[i] = [reqs[i] EXCEPT !.old = b]
      BY <1>9, HourMoves
    <3> QED  BY <1>9, HourMoves, <3>1, <3>2 DEF SameKind, Request
  <2> QED  BY <1>9, <2>1, HourMoves
<1>10. ASSUME Claim PROVE Goal
  <2> DEFINE i == Oldest
             r == [reqs[i] EXCEPT !.status = "working", !.leased = TRUE, !.attempts = reqs[i].attempts + 1]
  <2>1. i \in Ids /\ reqs[i] \in Request
    BY <1>0, <1>10, Claims
  <2>2. Becomes(i, r) /\ reqs' \in Seq(Request)
    BY <1>10, Claims
  <2>3. /\ r \in Request /\ r.kind = reqs[i].kind /\ r.chat = reqs[i].chat
        /\ r.ref = reqs[i].ref /\ r.run = reqs[i].run /\ r.auto = reqs[i].auto
    <3> HIDE DEF i
    <3>1. reqs[i].attempts + 1 \in Nat
      BY <2>1 DEF Request
    <3> QED  BY <2>1, <3>1 DEF Request, OnTheWay, Open
  <2> HIDE DEF r, Goal, i
  <2>4. Goal
    BY <1>2, <2>1, <2>2, <2>3
  <2> QED  BY <2>4 DEF Goal
<1>11. ASSUME Finish PROVE Goal
  <2> DEFINE i == worker.id
             r == [reqs[i] EXCEPT !.status = "done", !.secs = worker.charge, !.leased = FALSE]
  <2>1. i \in Ids /\ reqs[i] \in Request /\ worker.charge \in Nat
    BY <1>11, InHands DEF Finish, Shape, AiTypeOK
  <2>2. Becomes(i, r) /\ reqs' \in Seq(Request)
    BY <1>11, Finished
  <2>3. /\ r \in Request /\ r.kind = reqs[i].kind /\ r.chat = reqs[i].chat
        /\ r.ref = reqs[i].ref /\ r.run = reqs[i].run /\ r.auto = reqs[i].auto
    BY <2>1 DEF Request, OnTheWay
  <2> HIDE DEF r, Goal, i
  <2>4. Goal
    BY <1>2, <2>1, <2>2, <2>3
  <2> QED  BY <2>4 DEF Goal
<1>12. ASSUME Refused \/ Raises PROVE Goal
  <2> DEFINE i == worker.id
  <2>1. i \in Ids /\ reqs' \in Seq(Request) /\ reqs[i] \in Request
    BY <1>0, <1>12, GivenBack
  <2>2. PICK x \in {"pending", Bad} : Becomes(i, [reqs[i] EXCEPT !.status = x, !.leased = FALSE])
    BY <1>12, GivenBack
  <2> DEFINE r == [reqs[i] EXCEPT !.status = x, !.leased = FALSE]
  <2>3. /\ r \in Request /\ r.kind = reqs[i].kind /\ r.chat = reqs[i].chat
        /\ r.ref = reqs[i].ref /\ r.run = reqs[i].run /\ r.auto = reqs[i].auto
    <3> HIDE DEF i
    <3> QED  BY <2>1, <2>2 DEF Request, OnTheWay, Open, Bad
  <2>4. Becomes(i, r)
    BY <2>2
  <2> HIDE DEF r, Goal, i
  <2>5. Goal
    BY <1>2, <2>1, <2>3, <2>4
  <2> QED  BY <2>5 DEF Goal
<1>13. ASSUME NEW i \in Ids, LeaseExpires(i) PROVE Goal
  <2> DEFINE r == [reqs[i] EXCEPT !.leased = FALSE]
  <2>1. reqs[i] \in Request
    BY <1>0
  <2>2. Becomes(i, r) /\ reqs' \in Seq(Request)
    BY <1>13, LeaseOver
  <2>3. /\ r \in Request /\ r.kind = reqs[i].kind /\ r.chat = reqs[i].chat
        /\ r.ref = reqs[i].ref /\ r.run = reqs[i].run /\ r.auto = reqs[i].auto
    BY <2>1 DEF Request
  <2> HIDE DEF r, Goal
  <2>4. Goal
    BY <1>2, <2>1, <2>2, <2>3
  <2> QED  BY <2>4 DEF Goal
<1>14. Goal
  <2> HIDE DEF Goal
  <2> QED
    BY TableSteps, <1>1, <1>3, <1>4, <1>5, <1>6, <1>7, <1>8, <1>9, <1>10, <1>11, <1>12, <1>13
<1> QED  BY <1>14

LEMMA KindsKept ==
    ASSUME Shape, Next
    PROVE  /\ reqs' \in Seq(Request) /\ KindsOK' /\ Finals \subseteq Finals'
           /\ \A i \in Ids : i \in Ids' /\ IsVoice(i)' = IsVoice(i)
<1>1. /\ reqs' \in Seq(Request)
      /\ \A i \in Ids : SameKind(i)
      /\ \A i \in Ids' \ Ids : KindOK(i)'
  BY KindsStep
<1>2. ASSUME NEW f \in Finals PROVE f \in Finals'
  BY <1>1 DEF Finals, SameKind
<1>3. ASSUME NEW i \in Ids PROVE i \in Ids' /\ IsVoice(i)' = IsVoice(i)
  BY <1>1 DEF SameKind, IsVoice
<1>4. ASSUME NEW i \in Ids PROVE KindOK(i)'
  <2>1. KindOK(i)
    BY DEF Shape, KindsOK
  <2>2. SameKind(i)
    BY <1>1
  <2> QED  BY <1>2, <2>1, <2>2 DEF KindOK, SameKind
<1> QED  BY <1>1, <1>2, <1>3, <1>4 DEF KindsOK

\* What becomes of a request's status and hours, and by whom.
StatusMove(i) ==
    \/ reqs'[i].status = reqs[i].status /\ reqs'[i].secs = reqs[i].secs /\ reqs'[i].leased = reqs[i].leased
    \/ /\ LeaseExpires(i) /\ reqs'[i].status = reqs[i].status /\ reqs'[i].secs = reqs[i].secs
       /\ reqs'[i].leased = FALSE
    \/ /\ ReleaseMade /\ i = First /\ reqs[i].status = "uploading"
       /\ reqs'[i].status = "pending" /\ reqs'[i].secs = reqs[i].secs /\ reqs'[i].leased = reqs[i].leased
    \/ /\ Fetched /\ i = loader.id /\ reqs[i].status = "uploading"
       /\ reqs'[i].status = "pending" /\ reqs'[i].leased = reqs[i].leased
    \/ /\ FetchFails /\ i = loader.id /\ reqs[i].status = "uploading"
       /\ reqs'[i].status = "failed" /\ reqs'[i].secs = reqs[i].secs /\ reqs'[i].leased = reqs[i].leased
    \/ /\ Settle /\ reqs[i].status = "uploading" /\ reqs'[i].secs = reqs[i].secs
       /\ reqs'[i].leased = reqs[i].leased
       /\ \/ reqs'[i].status = "failed" /\ (i \in Late \/ PartFailed(i))
          \/ reqs'[i].status = "pending"
    \/ /\ Claim /\ i = Oldest /\ reqs'[i].status = "working" /\ reqs'[i].secs = reqs[i].secs
       /\ reqs[i].status \in {"pending", "working"} /\ reqs'[i].leased = TRUE
    \/ /\ Finish /\ i = worker.id /\ reqs[i].status = "working"
       /\ reqs'[i].status = "done" /\ reqs'[i].secs = worker.charge /\ reqs'[i].leased = FALSE
    \/ /\ Refused \/ Raises
       /\ i = worker.id /\ reqs[i].status = "working"
       /\ reqs'[i].status \in {"pending", "failed"} /\ reqs'[i].secs = reqs[i].secs
       /\ reqs'[i].leased = FALSE

\* The fields of a request that was replaced by a copy with some fields changed.
LEMMA CopyFields ==
    ASSUME NEW r \in Request, NEW x, NEW n, NEW b
    PROVE  /\ [r EXCEPT !.status = x].status = x /\ [r EXCEPT !.status = x].secs = r.secs
           /\ [r EXCEPT !.status = x].leased = r.leased
           /\ [r EXCEPT !.status = x, !.secs = n].status = x
           /\ [r EXCEPT !.status = x, !.secs = n].secs = n
           /\ [r EXCEPT !.status = x, !.secs = n].leased = r.leased
           /\ [r EXCEPT !.status = x, !.leased = b, !.attempts = n].status = x
           /\ [r EXCEPT !.status = x, !.leased = b, !.attempts = n].secs = r.secs
           /\ [r EXCEPT !.status = x, !.leased = b, !.attempts = n].leased = b
           /\ [r EXCEPT !.status = x, !.secs = n, !.leased = b].status = x
           /\ [r EXCEPT !.status = x, !.secs = n, !.leased = b].secs = n
           /\ [r EXCEPT !.status = x, !.secs = n, !.leased = b].leased = b
           /\ [r EXCEPT !.status = x, !.leased = b].status = x
           /\ [r EXCEPT !.status = x, !.leased = b].secs = r.secs
           /\ [r EXCEPT !.status = x, !.leased = b].leased = b
           /\ [r EXCEPT !.leased = b].status = r.status /\ [r EXCEPT !.leased = b].secs = r.secs
           /\ [r EXCEPT !.leased = b].leased = b
           /\ [r EXCEPT !.auto = b].status = r.status /\ [r EXCEPT !.auto = b].secs = r.secs
           /\ [r EXCEPT !.auto = b].leased = r.leased
           /\ [r EXCEPT !.old = b].status = r.status /\ [r EXCEPT !.old = b].secs = r.secs
           /\ [r EXCEPT !.old = b].leased = r.leased
BY DEF Request

LEMMA StatusMoves ==
    ASSUME Shape, Next, NEW i \in Ids
    PROVE  StatusMove(i)
<1> DEFINE r == reqs[i]
           q == reqs'[i]
           Copied == q.status = r.status /\ q.secs = r.secs /\ q.leased = r.leased
<1>0. r \in Request /\ Ids = 1..Len(reqs) /\ Len(reqs) \in Nat
  BY Numbers
<1>1. ASSUME Copied PROVE StatusMove(i)
  BY <1>1 DEF StatusMove
<1>2. ASSUME NEW w \in asking, Enqueue(w) PROVE StatusMove(i)
  <2>1. q = r \/ \E b : q = [r EXCEPT !.auto = b]
    BY <1>2, Enqueued
  <2>2. CASE q = r
    BY <1>1, <2>2
  <2>3. CASE \E b : q = [r EXCEPT !.auto = b]
    <3>1. PICK b : q = [r EXCEPT !.auto = b]
      BY <2>3
    <3>2. Copied
      <4> HIDE DEF r, q
      <4> QED  BY <1>0, <3>1, CopyFields
    <3> QED  BY <1>1, <3>2
  <2> QED  BY <2>1, <2>2, <2>3
<1>3. ASSUME NEW output \in Outputs, NEW mode \in Modes, Launch(output, mode) PROVE StatusMove(i)
  <2>1. q = r
    BY <1>3, Launched DEF Launch
  <2> QED  BY <1>1, <2>1
<1>4. ASSUME ReleaseMade PROVE StatusMove(i)
  <2>1. First \in Uploading /\ Becomes(First, [reqs[First] EXCEPT !.status = "pending"])
    BY <1>4, Released
  <2>2. CASE i = First
    <3>1. q = [r EXCEPT !.status = "pending"] /\ r.status = "uploading"
      BY <2>1, <2>2 DEF Becomes, Uploading
    <3>2. q.status = "pending" /\ q.secs = r.secs /\ q.leased = r.leased
      <4> HIDE DEF r, q
      <4> QED  BY <1>0, <3>1, CopyFields
    <3> QED  BY <1>4, <2>2, <3>1, <3>2 DEF StatusMove
  <2>3. CASE i # First
    BY <1>1, <2>1, <2>3 DEF Becomes
  <2> QED  BY <2>2, <2>3
<1>5. ASSUME Fetched PROVE StatusMove(i)
  <2> DEFINE j == loader.id
  <2>1. j \in Uploading /\ Becomes(j, [reqs[j] EXCEPT !.status = "pending", !.secs = Charged(j)])
    BY <1>5, FileFetched
  <2> HIDE DEF j
  <2>2. CASE i = j
    <3>1. q = [r EXCEPT !.status = "pending", !.secs = Charged(j)] /\ r.status = "uploading"
      BY <2>1, <2>2 DEF Becomes, Uploading
    <3>2. q.status = "pending" /\ q.leased = r.leased
      <4> HIDE DEF r, q
      <4> QED  BY <1>0, <3>1, CopyFields
    <3> QED  BY <1>5, <2>2, <3>1, <3>2 DEF StatusMove, j
  <2>3. CASE i # j
    BY <1>1, <2>1, <2>3 DEF Becomes
  <2> QED  BY <2>2, <2>3
<1>6. ASSUME FetchFails PROVE StatusMove(i)
  <2> DEFINE j == loader.id
  <2>1. j \in Uploading /\ Becomes(j, [reqs[j] EXCEPT !.status = Bad])
    BY <1>6, FetchFailed
  <2> HIDE DEF j
  <2>2. CASE i = j
    <3>1. q = [r EXCEPT !.status = Bad] /\ r.status = "uploading"
      BY <2>1, <2>2 DEF Becomes, Uploading
    <3>2. q.status = Bad /\ q.secs = r.secs /\ q.leased = r.leased
      <4> HIDE DEF r, q
      <4> QED  BY <1>0, <3>1, CopyFields
    <3> QED  BY <1>6, <2>2, <3>1, <3>2 DEF StatusMove, Bad, j
  <2>3. CASE i # j
    BY <1>1, <2>1, <2>3 DEF Becomes
  <2> QED  BY <2>2, <2>3
<1>7. ASSUME Settle PROVE StatusMove(i)
  <2> DEFINE fails == i \in Late \/ (i \in Ready /\ PartFailed(i))
             goes == i \in Ready
  <2>1. q = IF fails THEN [r EXCEPT !.status = "failed"]
            ELSE IF goes THEN [r EXCEPT !.status = "pending"] ELSE r
    BY <1>7, SettleMoves
  <2>2. fails \/ goes => r.status = "uploading"
    BY DEF Late, Ready
  <2>3. fails => i \in Late \/ PartFailed(i)
    OBVIOUS
  <2> HIDE DEF fails, goes
  <2>4. CASE fails
    <3>1. q.status = "failed" /\ q.secs = r.secs /\ q.leased = r.leased
      <4> HIDE DEF r, q
      <4> QED  BY <1>0, <2>1, <2>4, CopyFields
    <3> QED  BY <1>7, <2>2, <2>3, <2>4, <3>1 DEF StatusMove
  <2>5. CASE ~fails /\ goes
    <3>1. q.status = "pending" /\ q.secs = r.secs /\ q.leased = r.leased
      <4> HIDE DEF r, q
      <4> QED  BY <1>0, <2>1, <2>5, CopyFields
    <3> QED  BY <1>7, <2>2, <2>5, <3>1 DEF StatusMove
  <2>6. CASE ~fails /\ ~goes
    BY <1>1, <2>1, <2>6
  <2> QED  BY <2>4, <2>5, <2>6
<1>8. ASSUME AnHourPasses PROVE StatusMove(i)
  <2>1. PICK b : q = [r EXCEPT !.old = b]
    BY <1>8, HourMoves
  <2>2. Copied
    <3> HIDE DEF r, q
    <3> QED  BY <1>0, <2>1, CopyFields
  <2> QED  BY <1>1, <2>2
<1>9. ASSUME Claim PROVE StatusMove(i)
  <2> DEFINE j == Oldest
             n == reqs[j].attempts + 1
  <2>1. j \in Claimable /\ Becomes(j, [reqs[j] EXCEPT !.status = "working", !.leased = TRUE, !.attempts = n])
    BY <1>9, Claims
  <2> HIDE DEF j, n
  <2>2. CASE i = j
    <3>1. /\ q = [r EXCEPT !.status = "working", !.leased = TRUE, !.attempts = n]
          /\ r.status \in {"pending", "working"}
      BY <2>1, <2>2 DEF Becomes, Claimable
    <3>2. q.status = "working" /\ q.secs = r.secs /\ q.leased = TRUE
      <4> HIDE DEF r, q
      <4> QED  BY <1>0, <3>1, CopyFields
    <3> QED  BY <1>9, <2>2, <3>1, <3>2 DEF StatusMove, j
  <2>3. CASE i # j
    BY <1>1, <2>1, <2>3 DEF Becomes
  <2> QED  BY <2>2, <2>3
<1>10. ASSUME Finish PROVE StatusMove(i)
  <2> DEFINE j == worker.id
  <2>1. /\ Becomes(j, [reqs[j] EXCEPT !.status = "done", !.secs = worker.charge, !.leased = FALSE])
        /\ reqs[j].status = "working"
    BY <1>10, Finished, InHands DEF Finish
  <2> HIDE DEF j
  <2>2. CASE i = j
    <3>1. /\ q = [r EXCEPT !.status = "done", !.secs = worker.charge, !.leased = FALSE]
          /\ r.status = "working"
      BY <2>1, <2>2 DEF Becomes
    <3>2. q.status = "done" /\ q.secs = worker.charge /\ q.leased = FALSE
      <4> HIDE DEF r, q
      <4> QED  BY <1>0, <3>1, CopyFields
    <3> QED  BY <1>10, <2>2, <3>1, <3>2 DEF StatusMove, j
  <2>3. CASE i # j
    BY <1>1, <2>1, <2>3 DEF Becomes
  <2> QED  BY <2>2, <2>3
<1>11. ASSUME Refused \/ Raises PROVE StatusMove(i)
  <2> DEFINE j == worker.id
  <2>0. \E x \in {"pending", Bad} : Becomes(j, [reqs[j] EXCEPT !.status = x, !.leased = FALSE])
    BY <1>11, GivenBack
  <2>1. reqs[j].status = "working"
    BY <1>11, InHands DEF Refused, Raises
  <2> HIDE DEF j
  <2>2. PICK x \in {"pending", Bad} : Becomes(j, [reqs[j] EXCEPT !.status = x, !.leased = FALSE])
    BY <2>0
  <2>3. CASE i = j
    <3>1. q = [r EXCEPT !.status = x, !.leased = FALSE]
      BY <2>2, <2>3 DEF Becomes
    <3>2. q.status = x /\ q.secs = r.secs /\ q.leased = FALSE
      <4> HIDE DEF r, q
      <4> QED  BY <1>0, <3>1, CopyFields
    <3> QED  BY <1>11, <2>1, <2>2, <2>3, <3>2 DEF StatusMove, Bad, j
  <2>4. CASE i # j
    BY <1>1, <2>2, <2>4 DEF Becomes
  <2> QED  BY <2>3, <2>4
<1>12. ASSUME NEW j \in Ids, LeaseExpires(j) PROVE StatusMove(i)
  <2>1. Becomes(j, [reqs[j] EXCEPT !.leased = FALSE])
    BY <1>12, LeaseOver
  <2>2. CASE i = j
    <3>1. q = [r EXCEPT !.leased = FALSE]
      BY <2>1, <2>2 DEF Becomes
    <3>2. q.status = r.status /\ q.secs = r.secs /\ q.leased = FALSE
      <4> HIDE DEF r, q
      <4> QED  BY <1>0, <3>1, CopyFields
    <3> QED  BY <1>12, <2>2, <3>2 DEF StatusMove
  <2>3. CASE i # j
    BY <1>1, <2>1, <2>3 DEF Becomes
  <2> QED  BY <2>2, <2>3
<1>13. reqs' = reqs => Copied
  OBVIOUS
<1> HIDE DEF Copied
<1> QED
  BY TableSteps, <1>1, <1>2, <1>3, <1>4, <1>5, <1>6, <1>7, <1>8, <1>9, <1>10, <1>11, <1>12, <1>13

\* Requests that were not there before.
LEMMA NewOnes ==
    ASSUME Shape, Next, NEW i \in Ids', i \notin Ids
    PROVE  \/ \E w \in asking : Enqueue(w) /\ reqs'[i] = Asked(w)
           \/ \E output \in Outputs, mode \in Modes :
                 LET n == Len(items)
                     f == Len(reqs) + n + 1 IN
                 /\ Launch(output, mode)
                 /\ \/ i = f /\ NewFinal(reqs'[i])
                    \/ \E k \in 1..n : i = Len(reqs) + k /\ NewPart(reqs'[i], output, mode, k, f)
<1> DEFINE Goal == \/ \E w \in asking : Enqueue(w) /\ reqs'[i] = Asked(w)
                   \/ \E output \in Outputs, mode \in Modes :
                         LET n == Len(items)
                             f == Len(reqs) + n + 1 IN
                         /\ Launch(output, mode)
                         /\ \/ i = f /\ NewFinal(reqs'[i])
                            \/ \E k \in 1..n : i = Len(reqs) + k /\ NewPart(reqs'[i], output, mode, k, f)
<1>0. Ids = 1..Len(reqs) /\ Len(reqs) \in Nat
  BY Numbers
<1>1. ASSUME Ids' = Ids PROVE FALSE
  BY <1>1
<1>2. ASSUME NEW w \in asking, Enqueue(w) PROVE Goal
  <2>1. Ids' = 1..(Len(reqs) + 1) /\ reqs'[Len(reqs) + 1] = Asked(w)
    BY <1>1, <1>2, Enqueued
  <2>2. i = Len(reqs) + 1
    BY <1>0, <2>1
  <2> QED  BY <1>2, <2>1, <2>2
<1>3. ASSUME NEW output \in Outputs, NEW mode \in Modes, Launch(output, mode) PROVE Goal
  <2> DEFINE n == Len(items)
             f == Len(reqs) + n + 1
  <2>1. /\ Ids' = 1..f /\ f \in Nat /\ n \in Nat
        /\ \A k \in 1..n : NewPart(reqs'[Len(reqs) + k], output, mode, k, f)
        /\ NewFinal(reqs'[f])
    BY <1>3, Launched DEF Launch
  <2> HIDE DEF n
  <2>2. CASE i = f
    BY <1>3, <2>1, <2>2 DEF n
  <2>3. CASE i # f
    <3> DEFINE k == i - Len(reqs)
    <3>1. k \in 1..n /\ i = Len(reqs) + k
      BY <1>0, <2>1, <2>3
    <3> HIDE DEF k, f
    <3>2. NewPart(reqs'[i], output, mode, k, f)
      BY <2>1, <3>1
    <3> QED  BY <1>3, <3>1, <3>2 DEF n, f
  <2> QED  BY <2>2, <2>3
<1>4. Goal
  <2>1. reqs' = reqs => Ids' = Ids
    BY DEF Ids
  <2>2. ReleaseMade => Ids' = Ids
    BY Released DEF Becomes
  <2>3. Fetched => Ids' = Ids
    BY FileFetched DEF Becomes
  <2>4. FetchFails => Ids' = Ids
    BY FetchFailed DEF Becomes
  <2>5. Settle => Ids' = Ids
    BY SettleMoves
  <2>6. AnHourPasses => Ids' = Ids
    BY HourMoves
  <2>7. Claim => Ids' = Ids
    BY Claims DEF Becomes
  <2>8. Finish => Ids' = Ids
    BY Finished DEF Becomes
  <2>9. Refused \/ Raises => Ids' = Ids
    BY GivenBack DEF Becomes
  <2>10. \A j \in Ids : LeaseExpires(j) => Ids' = Ids
    BY LeaseOver DEF Becomes
  <2> HIDE DEF Goal
  <2> QED  BY TableSteps, <1>1, <1>2, <1>3, <2>1, <2>2, <2>3, <2>4, <2>5, <2>6, <2>7, <2>8, <2>9, <2>10
<1> QED  BY <1>4

\* They wait, and only those of a collection are uploaded.
LEMMA NewOnesWait ==
    ASSUME Shape, Next, NEW i \in Ids', i \notin Ids
    PROVE  /\ ~reqs'[i].leased /\ reqs'[i].status \in {"pending", "uploading"}
           /\ reqs'[i].status = "uploading" => IsVoice(i)'
<1>1. ASSUME NEW w \in asking, reqs'[i] = Asked(w)
      PROVE  ~reqs'[i].leased /\ reqs'[i].status = "pending"
  BY <1>1, AskedType
<1>2. ASSUME NEW output, NEW mode, NEW k, NEW f, f # 0, NewPart(reqs'[i], output, mode, k, f)
      PROVE  ~reqs'[i].leased /\ reqs'[i].status = "uploading" /\ IsVoice(i)'
  BY <1>2 DEF NewPart, IsVoice
<1>3. ASSUME NewFinal(reqs'[i])
      PROVE  ~reqs'[i].leased /\ reqs'[i].status = "uploading" /\ IsVoice(i)'
  BY <1>3 DEF NewFinal, IsVoice
<1>4. Len(reqs) + Len(items) + 1 # 0
  BY Numbers, ItemTypes
<1> QED  BY <1>1, <1>2, <1>3, <1>4, NewOnes

\* Who holds what after a step.
LEMMA WorkerMoves ==
    ASSUME Shape, Next
    PROVE  \/ worker' = worker
           \/ Claim
           \/ /\ SummaryMade \/ Transcribe \/ Combine \/ Write
              /\ worker.pc \in {"work", "write"} /\ worker'.id = worker.id
              /\ worker'.pc \in {"write", "finish"} /\ worker'.charge \in Nat
              /\ worker' = [pc |-> worker'.pc, id |-> worker'.id, charge |-> worker'.charge]
              /\ reqs' = reqs
           \/ /\ Finish \/ Refused \/ Raises \/ WorkerStarts
              /\ worker' = Idle
           \/ WorkerStops /\ worker' = [Idle EXCEPT !.pc = "down"]
<1>0. worker \in [pc : {"idle", "work", "write", "finish", "down"}, id : {None} \cup Ids, charge : Nat]
  BY DEF Shape, AiTypeOK
<1>1. ASSUME NEW i \in Ids, NEW made PROVE Charge(i, made) \in Nat
  <2>1. reqs[i] \in Request
    BY Numbers
  <2>2. reqs[i].secs \in Nat
    BY <2>1, RequestParts
  <2>3. KindOK(i)
    BY DEF Shape, KindsOK
  <2>4. reqs[i].kind \notin Final /\ ~IsVoice(i) => reqs[i].ref = Episode
    BY <2>3 DEF KindOK, IsVoice
  <2>5. Real[Episode] \in Nat
    BY AiAssumption DEF AiAssumption
  <2> QED  BY <2>2, <2>4, <2>5 DEF Charge
<1>2. ASSUME NEW pc, NEW c, To(pc, c) PROVE worker' = [pc |-> pc, id |-> worker.id, charge |-> c]
  BY <1>0, <1>2 DEF To
<1> DEFINE Kept == /\ worker.pc \in {"work", "write"} /\ worker'.id = worker.id
                   /\ worker'.pc \in {"write", "finish"} /\ worker'.charge \in Nat
                   /\ worker' = [pc |-> worker'.pc, id |-> worker'.id, charge |-> worker'.charge]
                   /\ reqs' = reqs
<1>3. ASSUME NEW pc \in {"write", "finish"}, NEW c \in Nat, To(pc, c), worker.pc \in {"work", "write"},
             reqs' = reqs
      PROVE  Kept
  BY <1>2, <1>3
<1>4. worker.pc \in {"work", "write"} => worker.id \in Ids /\ worker.charge \in Nat
  BY <1>0, InHands
<1>5. \A kind : AfterText(kind) \in {"write", "finish"}
  BY DEF AfterText
<1> HIDE DEF Kept
<1>6. ASSUME SummaryMade PROVE Kept
  <2> DEFINE c == IF IsVoice(worker.id) THEN Charge(worker.id, FALSE) ELSE 0
  <2>1. To("finish", c) /\ worker.pc = "work" /\ reqs' = reqs
    BY <1>6 DEF SummaryMade
  <2>2. c \in Nat
    BY <1>1, <1>4, <2>1
  <2> HIDE DEF c
  <2> QED  BY <1>3, <2>1, <2>2
<1>7. ASSUME Transcribe PROVE Kept
  <2> DEFINE c == Charge(worker.id, reqs[worker.id].ref \notin transcripts)
             pc == AfterText(reqs[worker.id].kind)
  <2>1. To(pc, c) /\ worker.pc = "work" /\ reqs' = reqs
    BY <1>7 DEF Transcribe
  <2>2. c \in Nat
    BY <1>1, <1>4, <2>1
  <2>3. pc \in {"write", "finish"}
    BY <1>5
  <2> HIDE DEF c, pc
  <2> QED  BY <1>3, <2>1, <2>2, <2>3
<1>8. ASSUME Combine PROVE Kept
  <2> DEFINE pc == IF reqs[worker.id].kind = "summary_all" /\ Batch \notin summaries THEN "write" ELSE "finish"
  <2>1. To(pc, 0) /\ worker.pc = "work" /\ reqs' = reqs
    BY <1>8 DEF Combine
  <2>2. pc \in {"write", "finish"} /\ 0 \in Nat
    OBVIOUS
  <2> HIDE DEF pc
  <2> QED  BY <1>3, <2>1, <2>2
<1>9. ASSUME Write PROVE Kept
  <2>1. To("finish", worker.charge) /\ worker.pc = "write" /\ reqs' = reqs
    BY <1>9 DEF Write
  <2> QED  BY <1>3, <1>4, <2>1
<1>10. \/ worker' = worker
       \/ Claim \/ SummaryMade \/ Transcribe \/ Combine \/ Write
       \/ (Finish \/ Refused \/ Raises \/ WorkerStarts) /\ worker' = Idle
       \/ WorkerStops /\ worker' = [Idle EXCEPT !.pc = "down"]
  BY DEF Next, BotStep, WorkerStep, Delivered, Tap, Enqueue, Stage, Preview, Launch, Start, ReleaseMade,
         FetchStarts, Fetched, FetchFails, Settle, AnHourPasses, BotStarts, BotStops, Finish, Refused,
         Raises, RetryOrFail, WorkerStops, WorkerStarts, LeaseExpires
<1> QED  BY <1>6, <1>7, <1>8, <1>9, <1>10 DEF Kept

LEMMA LoaderMoves ==
    ASSUME Shape, Next
    PROVE  \/ /\ loader' = loader
              /\ ~ReleaseMade /\ ~Fetched /\ ~FetchFails /\ ~Settle
           \/ FetchStarts /\ loader' = [pc |-> "fetch", id |-> First] /\ reqs' = reqs
           \/ loader' = [pc |-> "off", id |-> None]
           \/ loader' = [pc |-> "rows", id |-> None]
           \/ loader' = [pc |-> "down", id |-> None]
<1> DEFINE Goal == \/ /\ loader' = loader
                      /\ ~ReleaseMade /\ ~Fetched /\ ~FetchFails /\ ~Settle
                   \/ FetchStarts /\ loader' = [pc |-> "fetch", id |-> First] /\ reqs' = reqs
                   \/ loader' = [pc |-> "off", id |-> None]
                   \/ loader' = [pc |-> "rows", id |-> None]
                   \/ loader' = [pc |-> "down", id |-> None]
<1>1. ASSUME ReleaseMade \/ Fetched \/ FetchFails PROVE Goal
  BY <1>1 DEF ReleaseMade, Fetched, FetchFails, Off
<1>2. ASSUME Settle PROVE Goal
  BY <1>2 DEF Settle, Off
<1>3. ASSUME FetchStarts PROVE Goal
  BY <1>3 DEF FetchStarts
<1>4. ASSUME BotStops \/ BotStarts PROVE Goal
  BY <1>4 DEF BotStops, BotStarts, Off
<1>5. \/ loader' = loader
      \/ ReleaseMade \/ Fetched \/ FetchFails \/ Settle \/ FetchStarts \/ BotStops \/ BotStarts
  BY DEF Next, BotStep, WorkerStep, Delivered, Tap, Enqueue, Stage, Preview, Launch, Start,
         AnHourPasses, Claim, Take, SummaryMade, Transcribe, Combine, Write, Finish, Refused, Raises,
         RetryOrFail, WorkerStops, WorkerStarts, LeaseExpires
<1> HIDE DEF Goal
<1>6. loader' = loader /\ ~ReleaseMade /\ ~Fetched /\ ~FetchFails /\ ~Settle => Goal
  BY DEF Goal
<1>7. Goal
  BY <1>1, <1>2, <1>3, <1>4, <1>5, <1>6
<1> QED  BY <1>7 DEF Goal

LEMMA LoaderTypes ==
    ASSUME Shape, Next
    PROVE  /\ loader' \in [pc : {"off", "rows", "fetch", "down"}, id : {None} \cup Uploading']
           /\ loader'.pc = "fetch" <=> loader'.id # None
<1>1. /\ loader \in [pc : {"off", "rows", "fetch", "down"}, id : {None} \cup Uploading]
      /\ loader.pc = "fetch" <=> loader.id # None
  BY DEF Shape, AiTypeOK, HandsOK
<1>2. ASSUME loader' = loader, ~ReleaseMade, ~Fetched, ~FetchFails, ~Settle, NEW i \in Uploading
      PROVE  i \in Uploading'
  <2>1. i \in Ids /\ reqs[i].status = "uploading" /\ reqs[i].run # 0
    BY DEF Uploading
  <2>2. SameKind(i)
    BY <2>1, KindsStep
  <2>3. StatusMove(i)
    BY <2>1, StatusMoves
  <2>4. reqs'[i].status = "uploading"
    BY <1>2, <2>1, <2>3 DEF StatusMove
  <2> QED  BY <2>1, <2>2, <2>4 DEF Uploading, SameKind
<1>3. CASE loader' = loader /\ ~ReleaseMade /\ ~Fetched /\ ~FetchFails /\ ~Settle
  <2>1. loader.id \in {None} \cup Uploading'
    BY <1>1, <1>2, <1>3
  <2> QED  BY <1>1, <1>3, <2>1
<1>4. CASE FetchStarts /\ loader' = [pc |-> "fetch", id |-> First] /\ reqs' = reqs
  <2>1. First \in Uploading
    BY <1>4, FirstIsThere DEF FetchStarts, AtRows
  <2>2. First \in Uploading' /\ First # None
    BY <1>4, <2>1, Numbers DEF Uploading, Ids
  <2> QED  BY <1>4, <2>2
<1>5. CASE \/ loader' = [pc |-> "off", id |-> None]
           \/ loader' = [pc |-> "rows", id |-> None]
           \/ loader' = [pc |-> "down", id |-> None]
  BY <1>5
<1> QED  BY LoaderMoves, <1>3, <1>4, <1>5

LEMMA WorkerTypes ==
    ASSUME Shape, Next
    PROVE  /\ worker' \in [pc : {"idle", "work", "write", "finish", "down"}, id : {None} \cup Ids', charge : Nat]
           /\ worker'.pc \in {"work", "write", "finish"} <=> worker'.id # None
           /\ worker'.id \in {None} \cup Ids
<1> DEFINE Workers(I) == [pc : {"idle", "work", "write", "finish", "down"}, id : {None} \cup I, charge : Nat]
           Goal == /\ worker' \in Workers(Ids')
                   /\ worker'.pc \in {"work", "write", "finish"} <=> worker'.id # None
                   /\ worker'.id \in {None} \cup Ids
<1>1. worker \in Workers(Ids) /\ (worker.pc \in {"work", "write", "finish"} <=> worker.id # None)
  BY DEF Shape, AiTypeOK, HandsOK
<1>2. Ids \subseteq Ids' /\ None \notin Ids
  BY KindsKept, Numbers
<1>3. ASSUME worker' = worker PROVE Goal
  BY <1>1, <1>2, <1>3
<1>4. ASSUME Claim PROVE Goal
  <2>1. Oldest \in Ids /\ worker' = [pc |-> "work", id |-> Oldest, charge |-> 0]
    BY <1>4, Claims
  <2>2. Oldest # None /\ Oldest \in Ids'
    BY <1>2, <2>1
  <2> QED  BY <2>1, <2>2
<1>5. ASSUME worker.pc \in {"work", "write"}, worker'.id = worker.id,
             worker'.pc \in {"write", "finish"}, worker'.charge \in Nat,
             worker' = [pc |-> worker'.pc, id |-> worker'.id, charge |-> worker'.charge]
      PROVE  Goal
  <2>1. worker.id \in Ids /\ worker.id # None /\ worker.id \in Ids'
    BY <1>1, <1>2, <1>5
  <2> QED  BY <1>5, <2>1
<1>6. ASSUME worker' = Idle PROVE Goal
  BY <1>6 DEF Idle
<1>7. ASSUME worker' = [Idle EXCEPT !.pc = "down"] PROVE Goal
  BY <1>7 DEF Idle
<1>8. Goal
  <2> HIDE DEF Goal
  <2> QED  BY WorkerMoves, <1>3, <1>4, <1>5, <1>6, <1>7
<1> QED  BY <1>8

\* What the columns say of each other.
LEMMA ColumnsKept ==
    ASSUME Shape, Next, NEW i \in Ids'
    PROVE  /\ reqs'[i].leased => reqs'[i].status = "working"
           /\ worker'.id = i => reqs'[i].leased
           /\ reqs'[i].status = "uploading" => IsVoice(i)'
<1>1. CASE i \notin Ids
  <2>1. worker'.id # i
    <3>1. i # None
      <4>1. reqs' \in Seq(Request)
        BY KindsKept
      <4>2. Ids' \subseteq Nat \ {0}
        BY <4>1 DEF Ids
      <4> QED  BY <4>2 DEF None
    <3> QED  BY <1>1, <3>1, WorkerTypes
  <2> QED  BY <1>1, <2>1, NewOnesWait
<1>2. CASE i \in Ids
  <2>1. /\ reqs[i].leased => reqs[i].status = "working"
        /\ worker.id = i => reqs[i].leased
        /\ reqs[i].status = "uploading" => IsVoice(i)
    BY <1>2 DEF Shape, AiTypeOK
  <2>2. StatusMove(i)
    BY <1>2, StatusMoves
  <2>3. IsVoice(i)' = IsVoice(i)
    BY <1>2, KindsKept
  <2>4. reqs'[i].status = "uploading" => reqs[i].status = "uploading"
    BY <2>2 DEF StatusMove
  <2>5. reqs'[i].leased => reqs'[i].status = "working"
    BY <2>1, <2>2 DEF StatusMove
  <2>6. ASSUME worker'.id = i PROVE reqs'[i].leased
    <3>0. i # None
      BY <1>2, Numbers
    <3>1. CASE Claim
      <4>1. i = Oldest /\ i \in Ids
        BY <2>6, <3>1, Claims
      <4> DEFINE r == [reqs[Oldest] EXCEPT !.status = "working", !.leased = TRUE,
                                           !.attempts = reqs[Oldest].attempts + 1]
      <4>2. reqs'[Oldest] = r
        BY <3>1, Claims DEF Becomes
      <4>3. reqs[Oldest] \in Request
        BY <4>1, Numbers
      <4>4. r.leased = TRUE
        BY <4>3, CopyFields
      <4> HIDE DEF r
      <4> QED  BY <4>1, <4>2, <4>4
    <3>2. CASE ~Claim
      <4>1. worker.id = i /\ worker' # Idle
        BY <2>6, <3>0, <3>2, WorkerMoves DEF Idle
      <4>2. ~LeaseExpires(i)
        BY <4>1 DEF LeaseExpires
      <4>3. ~Finish /\ ~Refused /\ ~Raises
        BY <4>1 DEF Finish, Refused, Raises, RetryOrFail
      <4>4. reqs'[i].leased = reqs[i].leased
        BY <2>2, <3>2, <4>2, <4>3 DEF StatusMove
      <4> QED  BY <2>1, <4>1, <4>4
    <3> QED  BY <3>1, <3>2
  <2> QED  BY <2>1, <2>3, <2>4, <2>5, <2>6
<1> QED  BY <1>1, <1>2

\* The rest of the state.
LEMMA StoreTypes ==
    ASSUME Shape, Next
    PROVE  (transcripts \subseteq Refs /\ summaries \subseteq Refs /\ files \subseteq Voices)'
<1>0. transcripts \subseteq Refs /\ summaries \subseteq Refs /\ files \subseteq Voices
  BY DEF Shape, AiTypeOK
<1>1. CASE UNCHANGED store
  BY <1>0, <1>1 DEF store
<1>2. CASE FetchStarts
  <2>1. First \in Uploading
    BY <1>2, FirstIsThere DEF FetchStarts, AtRows
  <2>2. First \in Ids /\ reqs[First].run # 0
    BY <2>1 DEF Uploading
  <2>3. reqs[First].ref \in Voices
    BY <2>2 DEF Shape, KindsOK, KindOK
  <2> QED  BY <1>0, <1>2, <2>3 DEF FetchStarts
<1>3. CASE FetchFails
  BY <1>0, <1>3 DEF FetchFails
<1>4. ASSUME worker.pc \in {"work", "write", "finish"} PROVE reqs[worker.id].ref \in Refs
  <2>1. reqs[worker.id] \in Request
    BY <1>4, InHands
  <2> QED  BY <2>1, RequestParts
<1>5. CASE Transcribe
  BY <1>0, <1>4, <1>5 DEF Transcribe
<1>6. CASE Combine
  BY <1>0, <1>6 DEF Combine, Refs
<1>7. CASE Write
  BY <1>0, <1>4, <1>7 DEF Write
<1> QED
  BY <1>1, <1>2, <1>3, <1>5, <1>6, <1>7
  DEF Next, BotStep, WorkerStep, Delivered, Tap, Enqueue, Stage, Preview, Launch, Start, ReleaseMade,
      Fetched, Settle, AnHourPasses, BotStarts, BotStops, Claim, Take, SummaryMade, Finish, Refused,
      Raises, WorkerStops, WorkerStarts, LeaseExpires

LEMMA QuoteIsNat ==
    ASSUME Shape
    PROVE  Quote \in Nat
<1> DEFINE hours == [k \in 1..Len(items) |-> Needed(k)]
<1>1. Quote = SumFunctionOnSet(hours, 1..Len(items))
  BY ItemTypes DEF Quote, SumFunction
<1>2. IsFiniteSet(1..Len(items))
  BY ItemTypes, FS_Interval
<1>3. \A k \in 1..Len(items) : hours[k] \in Nat
  BY ItemTypes
<1> HIDE DEF hours
<1> QED  BY <1>1, <1>2, <1>3, SumIsNat

LEMMA VoiceTypes ==
    ASSUME Shape, Next
    PROVE  (/\ items \in Seq([ref : Voices, secs : Nat]) /\ Len(items) <= MaxItems
            /\ card \in [refs : Seq(Voices), quoted : Nat])'
<1> DEFINE Item == [ref : Voices, secs : Nat]
<1>0. /\ items \in Seq(Item) /\ Len(items) \in Nat /\ Len(items) <= MaxItems
      /\ card \in [refs : Seq(Voices), quoted : Nat]
      /\ MaxItems \in Nat
  BY ItemTypes, AiAssumption DEF Shape, AiTypeOK, AiAssumption
<1>1. CASE UNCHANGED voice
  <2> HIDE DEF Item
  <2>1. (items \in Seq(Item) /\ Len(items) <= MaxItems /\ card \in [refs : Seq(Voices), quoted : Nat])'
    BY <1>0, <1>1 DEF voice
  <2> QED  BY <2>1 DEF Item
<1>2. ASSUME NEW ref \in Voices, Stage(ref)
      PROVE  items' \in Seq(Item) /\ Len(items') <= MaxItems /\ card' = card
  <2> DEFINE e == [ref |-> ref, secs |-> Claimed[ref]]
  <2>1. e \in Item
    BY AiAssumption DEF AiAssumption
  <2>2. items' = Append(items, e) /\ Len(items) < MaxItems /\ card' = card
    BY <1>2 DEF Stage
  <2> HIDE DEF Item, e
  <2> QED  BY <1>0, <2>1, <2>2
<1>3. CASE Preview
  <2> DEFINE refs == [k \in 1..Len(items) |-> items[k].ref]
  <2>1. refs \in Seq(Voices)
    BY ItemTypes
  <2>2. DOMAIN items = 1..Len(items)
    BY ItemTypes
  <2>3. card' = [refs |-> refs, quoted |-> Quote] /\ items' = items
    BY <1>3, <2>2 DEF Preview
  <2> HIDE DEF refs, Item
  <2>4. card' \in [refs : Seq(Voices), quoted : Nat]
    BY <2>1, <2>3, QuoteIsNat
  <2>5. items' \in Seq(Item) /\ Len(items') <= MaxItems
    BY <1>0, <2>3
  <2> QED  BY <2>4, <2>5 DEF Item
<1>4. CASE Fetched
  <2> DEFINE i == loader.id
             k == reqs[i].item
             n == Real[reqs[i].ref]
  <2>1. items' = [items EXCEPT ![k].secs = n] /\ card' = card
    BY <1>4 DEF Fetched
  <2>2. n \in Nat
    <3>1. reqs[i].ref \in Voices
      BY <1>4, InHands DEF Fetched
    <3> QED  BY <3>1, AiAssumption DEF AiAssumption
  <2> HIDE DEF k, n
  <2>3. ASSUME k \in 1..Len(items) PROVE [items[k] EXCEPT !.secs = n] \in Item
    <3>1. items[k] \in Item
      <4> HIDE DEF Item
      <4> QED  BY <1>0, <2>3
    <3> QED  BY <2>2, <3>1
  <2> DEFINE e == [items[k] EXCEPT !.secs = n]
  <2>4. items' = [items EXCEPT ![k] = e]
    BY <2>1
  <2>5. k \in 1..Len(items) => e \in Item
    BY <2>3
  <2> HIDE DEF Item, e
  <2>6. items' \in Seq(Item) /\ Len(items') = Len(items)
    <3>1. items \in [1..Len(items) -> Item] /\ DOMAIN items = 1..Len(items)
      BY <1>0
    <3> DEFINE len == Len(items)
    <3>2. items' \in [1..len -> Item]
      BY <2>4, <2>5, <3>1
    <3>3. len \in Nat
      BY <1>0
    <3> HIDE DEF len
    <3>4. items' \in Seq(Item) /\ Len(items') = len
      BY <3>2, <3>3
    <3> QED  BY <3>4 DEF len
  <2> QED  BY <1>0, <2>1, <2>6 DEF Item
<1> HIDE DEF Item
<1>5. ASSUME items' \in Seq(Item), Len(items') <= MaxItems, card' = card
      PROVE  (/\ items \in Seq([ref : Voices, secs : Nat]) /\ Len(items) <= MaxItems
              /\ card \in [refs : Seq(Voices), quoted : Nat])'
  BY <1>0, <1>5 DEF Item
<1>6. \/ UNCHANGED voice
      \/ Preview \/ Fetched
      \/ \E ref \in Voices : Stage(ref)
  BY DEF Next, BotStep, WorkerStep, Delivered, Tap, Enqueue, Launch, Start, ReleaseMade, FetchStarts,
      FetchFails, Settle, AnHourPasses, BotStarts, BotStops, Claim, Take, SummaryMade, Transcribe, Combine,
      Write, Finish, Refused, Raises, WorkerStops, WorkerStarts, LeaseExpires
<1>7. (\E ref \in Voices : Stage(ref)) => items' \in Seq(Item) /\ Len(items') <= MaxItems /\ card' = card
  BY <1>2
<1> QED  BY <1>1, <1>3, <1>4, <1>5, <1>6, <1>7

LEMMA AskingTypes ==
    ASSUME Shape, Next
    PROVE  asking' \subseteq Wish
<1>0. asking \subseteq Wish /\ Claimed[Episode] \in Nat
  BY AiAssumption DEF Shape, AiTypeOK, AiAssumption
<1>1. ASSUME NEW c \in Chats, NEW kind \in {"summary", "transcript"}, Tap(c, kind)
      PROVE  asking' \subseteq Wish
  <2> DEFINE n == IF PaidBy(c, Episode, OnTheWay, None) THEN 0 ELSE Claimed[Episode]
             w == [chat |-> c, kind |-> kind, auto |-> FALSE, secs |-> n]
  <2>1. asking' = asking \cup {w}
    BY <1>1 DEF Tap
  <2>2. n \in Nat
    BY <1>0
  <2> HIDE DEF n
  <2>3. w \in Wish
    BY <2>2 DEF Wish
  <2> QED  BY <1>0, <2>1, <2>3
<1>2. ASSUME NEW c \in Chats, Delivered(c) PROVE asking' \subseteq Wish
  <2> DEFINE w == [chat |-> c, kind |-> "summary", auto |-> TRUE, secs |-> Claimed[Episode]]
  <2>1. asking' = asking \cup {w}
    BY <1>2 DEF Delivered
  <2>2. w \in Wish
    BY <1>0 DEF Wish
  <2> QED  BY <1>0, <2>1, <2>2
<1>3. ASSUME asking' \subseteq asking PROVE asking' \subseteq Wish
  BY <1>0, <1>3
<1>4. \/ asking' \subseteq asking
      \/ \E c \in Chats : Delivered(c) \/ \E kind \in {"summary", "transcript"} : Tap(c, kind)
  BY DEF Next, BotStep, WorkerStep, Enqueue, Stage, Preview, Launch, Start, ReleaseMade, FetchStarts, Fetched,
      FetchFails, Settle, AnHourPasses, BotStarts, BotStops, Claim, Take, SummaryMade, Transcribe, Combine,
      Write, Finish, Refused, Raises, WorkerStops, WorkerStarts, LeaseExpires, voice
<1> QED  BY <1>1, <1>2, <1>3, <1>4

LEMMA BlamedTypes ==
    ASSUME Shape, Next
    PROVE  blamed \subseteq blamed' /\ blamed' \subseteq Finals'
<1>1. blamed \subseteq Finals /\ Finals \subseteq Finals'
  BY KindsKept DEF Shape, AiTypeOK
<1>2. \/ blamed' = blamed
      \/ blamed' = blamed \cup (Late \cap Finals)
      \/ blamed' = blamed \cup ({worker.id} \cap Finals)
      \/ blamed' = blamed \cup ({worker.id, reqs[worker.id].run} \cap Finals)
  BY DEF Next, BotStep, WorkerStep, Delivered, Tap, Enqueue, Stage, Preview, Launch, Start, ReleaseMade,
      FetchStarts, Fetched, FetchFails, Settle, AnHourPasses, BotStarts, BotStops, Claim, Take, SummaryMade,
      Transcribe, Combine, Write, Finish, Refused, Raises, WorkerStops, WorkerStarts, LeaseExpires
<1> QED  BY <1>1, <1>2

LEMMA CounterTypes ==
    ASSUME Shape, Next
    PROVE  (taps \in 0..MaxTaps /\ events \in 0..MaxEvents)'
<1>0. taps \in 0..MaxTaps /\ events \in 0..MaxEvents /\ MaxTaps \in Nat /\ MaxEvents \in Nat
  BY AiAssumption DEF Shape, AiTypeOK, AiAssumption
<1>1. taps' = taps \/ (taps < MaxTaps /\ taps' = taps + 1)
  BY DEF Next, BotStep, WorkerStep, Delivered, Tap, Enqueue, Stage, Preview, Launch, Start, ReleaseMade,
      FetchStarts, Fetched, FetchFails, Settle, AnHourPasses, BotStarts, BotStops, Claim, Take, SummaryMade,
      Transcribe, Combine, Write, Finish, Refused, Raises, WorkerStops, WorkerStarts, LeaseExpires, counters
<1>2. events' = events \/ (events < MaxEvents /\ events' = events + 1)
  BY DEF Next, BotStep, WorkerStep, Delivered, Tap, Enqueue, Stage, Preview, Launch, Start, ReleaseMade,
      FetchStarts, Fetched, FetchFails, Settle, AnHourPasses, BotStarts, BotStops, Claim, Take, SummaryMade,
      Transcribe, Combine, Write, Finish, Refused, Raises, WorkerStops, WorkerStarts, LeaseExpires, counters,
      Fault
<1> QED  BY <1>0, <1>1, <1>2

LEMMA ShapeStep ==
    ASSUME Shape, Next
    PROVE  Shape'
<1>1. AiTypeOK'
  <2>1. reqs' \in Seq(Request)
    BY KindsKept
  <2>2. \A i \in Ids' : /\ reqs'[i].leased => reqs'[i].status = "working"
                        /\ worker'.id = i => reqs'[i].leased
                        /\ reqs'[i].status = "uploading" => IsVoice(i)'
    BY ColumnsKept
  <2>3. (\A i \in Ids : /\ reqs[i].leased => reqs[i].status = "working"
                        /\ worker.id = i => reqs[i].leased
                        /\ reqs[i].status = "uploading" => IsVoice(i))'
    BY <2>2
  <2> QED
    BY <2>1, <2>3, StoreTypes, VoiceTypes, AskingTypes, LoaderTypes, WorkerTypes, BlamedTypes, CounterTypes
    DEF AiTypeOK
<1>2. HandsOK'
  BY LoaderTypes, WorkerTypes DEF HandsOK
<1> QED  BY <1>1, <1>2, KindsKept DEF Shape

LEMMA ShapeInit ==
    ASSUME Init
    PROVE  Shape
<1>1. reqs = <<>> /\ Ids = {} /\ items = <<>> /\ Len(items) = 0
  BY DEF Init, Ids
<1>2. Finals = {} /\ Uploading = {}
  BY <1>1 DEF Finals, Uploading
<1>3. card \in [refs : Seq(Voices), quoted : Nat]
  BY DEF Init
<1>4. /\ loader \in [pc : {"off", "rows", "fetch", "down"}, id : {None} \cup Uploading]
      /\ worker \in [pc : {"idle", "work", "write", "finish", "down"}, id : {None} \cup Ids, charge : Nat]
      /\ HandsOK
  BY DEF Init, Off, Idle, HandsOK
<1>5. taps \in 0..MaxTaps /\ events \in 0..MaxEvents
  BY AiAssumption DEF Init, AiAssumption
<1>6. reqs \in Seq(Request) /\ items \in Seq([ref : Voices, secs : Nat])
  BY <1>1
<1>7. Len(items) <= MaxItems
  BY <1>1, AiAssumption DEF AiAssumption
<1>8. transcripts = {} /\ summaries = {} /\ files = {} /\ asking = {} /\ blamed = {}
  BY DEF Init
<1> QED  BY <1>1, <1>2, <1>3, <1>4, <1>5, <1>6, <1>7, <1>8 DEF Shape, AiTypeOK, KindsOK

LEMMA ShapeStutter ==
    ASSUME Shape, UNCHANGED vars
    PROVE  Shape'
<1>1. /\ reqs' = reqs /\ transcripts' = transcripts /\ summaries' = summaries /\ files' = files
      /\ items' = items /\ card' = card /\ asking' = asking /\ loader' = loader /\ worker' = worker
      /\ blamed' = blamed /\ taps' = taps /\ events' = events
  BY DEF vars, store, voice, counters
<1>2. Ids' = Ids /\ Uploading' = Uploading /\ Finals' = Finals /\ \A i : IsVoice(i)' = IsVoice(i)
  BY <1>1 DEF Ids, Uploading, Finals, IsVoice
<1>3. AiTypeOK'
  BY <1>1, <1>2 DEF Shape, AiTypeOK
<1>4. KindsOK'
  BY <1>1, <1>2 DEF Shape, KindsOK, KindOK
<1>5. HandsOK'
  BY <1>1 DEF Shape, HandsOK
<1> QED  BY <1>3, <1>4, <1>5 DEF Shape

LEMMA Shapes == Spec => []Shape
<1>1. Shape /\ [Next]_vars => Shape'
  BY ShapeStep, ShapeStutter
<1> QED  BY <1>1, ShapeInit, PTL DEF Spec

\* The types of the table, the stores, the collection and the two processes, and that a request
\* is leased only while it is worked on, the worker's is, and only recordings and final requests
\* are uploaded (db/ai.py, db/voice.py).
THEOREM AiTypes == Spec => []AiTypeOK
<1>1. Shape => AiTypeOK
  BY DEF Shape
<1> QED  BY <1>1, Shapes, PTL

-----------------------------------------------------------------------------
(* What a step keeps: the rows of a run, and rows that came to an end. *)

LEMMA PartsKept ==
    ASSUME Shape, Next, NEW f \in Finals
    PROVE  f \in Finals' /\ Parts(f)' = Parts(f)
<1>1. f \in Ids /\ f # 0 /\ f \in Finals'
  BY KindsKept, Numbers DEF Finals, None
<1>2. ASSUME NEW p \in Ids PROVE p \in Parts(f) <=> p \in Parts(f)'
  <2>1. SameKind(p)
    BY KindsStep
  <2> QED  BY <2>1 DEF SameKind, Parts
<1>3. ASSUME NEW p \in Ids', p \notin Ids PROVE reqs'[p].run # f
  <2>1. ASSUME NEW w \in asking, reqs'[p] = Asked(w) PROVE reqs'[p].run # f
    BY <1>1, <2>1, AskedType
  <2>2. ASSUME NewFinal(reqs'[p]) PROVE reqs'[p].run # f
    BY <1>1, <2>2 DEF NewFinal
  <2>3. ASSUME NEW output, NEW mode, NEW k,
               NewPart(reqs'[p], output, mode, k, Len(reqs) + Len(items) + 1)
        PROVE  reqs'[p].run # f
    <3>1. reqs'[p].run = Len(reqs) + Len(items) + 1
      BY <2>3 DEF NewPart
    <3>2. f \in 1..Len(reqs) /\ Len(reqs) \in Nat /\ Len(items) \in Nat
      BY <1>1, Numbers, ItemTypes
    <3> QED  BY <3>1, <3>2
  <2> QED  BY <1>3, <2>1, <2>2, <2>3, NewOnes
<1>4. Parts(f) \subseteq Ids /\ Parts(f)' \subseteq Ids'
  BY DEF Parts
<1>5. ASSUME NEW p \in Parts(f)' PROVE p \in Ids
  BY <1>3, <1>4 DEF Parts
<1> QED  BY <1>1, <1>2, <1>4, <1>5

\* A final request that was not there before is a launch's last one.
LEMMA NewFinals ==
    ASSUME Shape, Next, NEW f \in Finals', f \notin Finals
    PROVE  /\ f \notin Ids /\ reqs'[f].status = "uploading"
           /\ \E output \in Outputs, mode \in Modes :
                 Launch(output, mode) /\ f = Len(reqs) + Len(items) + 1
<1>1. f \in Ids' /\ reqs'[f].kind \in Final
  BY DEF Finals
<1>2. f \notin Ids
  <2>1. f \in Ids => reqs[f].kind \in Final
    BY <1>1, KindsStep DEF SameKind
  <2> QED  BY <2>1 DEF Finals
<1>3. ~\E w \in asking : reqs'[f] = Asked(w)
  BY <1>1, AskedType
<1>4. \A output, mode, k, g : ~NewPart(reqs'[f], output, mode, k, g)
  BY <1>1 DEF NewPart
<1>5. PICK output \in Outputs, mode \in Modes :
         /\ Launch(output, mode)
         /\ f = Len(reqs) + Len(items) + 1 /\ NewFinal(reqs'[f])
  BY <1>1, <1>2, <1>3, <1>4, NewOnes
<1> QED  BY <1>2, <1>5 DEF NewFinal

\* What ended stays as it is; what is new has not ended.
LEMMA EndsStay ==
    ASSUME Shape, Next, NEW i \in Ids, reqs[i].status \in {"done", "failed"}
    PROVE  i \in Ids' /\ reqs'[i].status = reqs[i].status /\ reqs'[i].secs = reqs[i].secs
<1>1. i \in Ids'
  BY KindsKept
<1>2. StatusMove(i)
  BY StatusMoves
<1>3. CASE reqs[i].status = "done"
  BY <1>1, <1>2, <1>3 DEF StatusMove
<1>4. CASE reqs[i].status = "failed"
  BY <1>1, <1>2, <1>4 DEF StatusMove
<1> QED  BY <1>3, <1>4

LEMMA DoneIsFinished ==
    ASSUME Shape, Next, NEW i \in Ids', reqs'[i].status = "done"
    PROVE  /\ i \in Ids
           /\ \/ reqs[i].status = "done" /\ reqs'[i].secs = reqs[i].secs
              \/ Finish /\ i = worker.id /\ reqs'[i].secs = worker.charge
<1>1. i \in Ids
  BY NewOnesWait
<1>2. StatusMove(i)
  BY <1>1, StatusMoves
<1> QED  BY <1>1, <1>2 DEF StatusMove

LEMMA CompleteStays ==
    ASSUME Shape, Next, NEW f \in Finals, Complete(f)
    PROVE  Complete(f)'
<1>1. ASSUME NEW p \in Parts(f) PROVE reqs'[p].status = "done"
  <2>1. p \in Ids /\ reqs[p].status = "done"
    BY DEF Complete, Parts
  <2> QED  BY <2>1, EndsStay
<1>2. Parts(f)' = Parts(f)
  BY PartsKept
<1> QED  BY <1>1, <1>2 DEF Complete

\* What happens to the request in the worker's hands.
LEMMA HandsMove ==
    ASSUME Shape, Next
    PROVE  /\ Claim => Oldest \in Claimable /\ worker'.id = Oldest /\ worker.id = None
           /\ Finish => worker.id \in Ids /\ reqs'[worker.id].status = "done"
           /\ Refused \/ Raises => worker.id \in Ids /\ reqs'[worker.id].status \in {"pending", "failed"}
           /\ WorkerStarts => worker.id \notin Ids
<1>1. Claim => Oldest \in Claimable /\ worker'.id = Oldest /\ worker.id = None
  BY Claims DEF Claim, Take, Idle
<1>2. ASSUME Finish PROVE worker.id \in Ids /\ reqs'[worker.id].status = "done"
  <2> DEFINE i == worker.id
             r == reqs[i]
  <2>1. i \in Ids /\ reqs'[i] = [r EXCEPT !.status = "done", !.secs = worker.charge, !.leased = FALSE]
    BY <1>2, Finished DEF Becomes
  <2>2. r \in Request
    BY <2>1, Numbers
  <2> HIDE DEF r
  <2>3. reqs'[i].status = "done"
    BY <2>1, <2>2, CopyFields
  <2> QED  BY <2>1, <2>3
<1>3. ASSUME Refused \/ Raises PROVE worker.id \in Ids /\ reqs'[worker.id].status \in {"pending", "failed"}
  <2> DEFINE i == worker.id
             r == reqs[i]
  <2>1. i \in Ids /\ \E x \in {"pending", "failed"} : Becomes(i, [r EXCEPT !.status = x, !.leased = FALSE])
    BY <1>3, GivenBack DEF Bad
  <2>2. PICK x \in {"pending", "failed"} : reqs'[i] = [r EXCEPT !.status = x, !.leased = FALSE]
    BY <2>1 DEF Becomes
  <2>3. r \in Request
    BY <2>1, Numbers
  <2> HIDE DEF r
  <2>4. reqs'[i].status = x
    BY <2>2, <2>3, CopyFields
  <2> QED  BY <2>1, <2>4
<1>4. WorkerStarts => worker.id \notin Ids
  BY InHands DEF WorkerStarts
<1> QED  BY <1>1, <1>2, <1>3, <1>4

-----------------------------------------------------------------------------
(***************************************************************************)
(* A collection's result is whole.  WholeBatch by itself is not inductive: *)
(* between the look at the recordings and the end of the request others    *)
(* write the table, so that what the worker saw must still be so.          *)
(***************************************************************************)
CombinedIsComplete ==
    worker.pc \in {"write", "finish"} /\ worker.id \in Finals => Complete(worker.id)

WholeInv == CombinedIsComplete /\ WholeBatch

LEMMA WholeStep ==
    ASSUME Shape, WholeInv, Next
    PROVE  WholeInv'
<1>1. ASSUME NEW f, f = worker'.id, worker'.pc \in {"write", "finish"}, f \in Finals'
      PROVE  Complete(f)'
  <2>1. f \in Ids
    <3>1. f # None
      BY <1>1, WorkerTypes
    <3> QED  BY <1>1, <3>1, WorkerTypes
  <2>2. f \in Finals
    BY <1>1, <2>1, NewFinals
  <2>3. ~Claim
    BY <1>1, Claims
  <2>4. worker' # Idle /\ worker' # [Idle EXCEPT !.pc = "down"]
    BY <1>1 DEF Idle
  <2>5. worker.id = f
    BY <1>1, <2>3, <2>4, WorkerMoves
  <2>6. ~SummaryMade /\ ~Transcribe
    BY <2>2, <2>5 DEF SummaryMade, Transcribe, Finals, Final
  <2>7. worker' = worker \/ Combine \/ Write
    BY <2>3, <2>4, <2>6, WorkerMoves
  <2>8. CASE worker' = worker \/ Write
    <3>1. worker.pc \in {"write", "finish"}
      BY <1>1, <2>8 DEF Write
    <3>2. Complete(f)
      BY <2>2, <2>5, <3>1 DEF WholeInv, CombinedIsComplete
    <3> QED  BY <2>2, <3>2, CompleteStays
  <2>9. CASE Combine
    <3>1. Complete(f)
      BY <2>5, <2>9 DEF Combine
    <3> QED  BY <2>2, <3>1, CompleteStays
  <2> QED  BY <2>7, <2>8, <2>9
<1>2. ASSUME NEW f \in Finals', reqs'[f].status = "done", NEW p \in Parts(f)'
      PROVE  reqs'[p].status = "done"
  <2>1. f \in Finals
    BY <1>2, NewFinals
  <2>2. f \in Ids'
    BY DEF Finals
  <2>3. Complete(f)
    <3>1. CASE reqs[f].status = "done"
      BY <2>1, <3>1 DEF WholeInv, WholeBatch, Complete
    <3>2. CASE Finish /\ f = worker.id
      BY <2>1, <3>2 DEF WholeInv, CombinedIsComplete, Finish
    <3> QED  BY <1>2, <2>2, <3>1, <3>2, DoneIsFinished
  <2>4. Complete(f)'
    BY <2>1, <2>3, CompleteStays
  <2> QED  BY <2>4 DEF Complete
<1>3. CombinedIsComplete'
  BY <1>1 DEF CombinedIsComplete, Complete, Parts
<1> QED  BY <1>2, <1>3 DEF WholeInv, WholeBatch

LEMMA WholeStutter ==
    ASSUME WholeInv, UNCHANGED vars
    PROVE  WholeInv'
<1>1. reqs' = reqs /\ worker' = worker
  BY DEF vars
<1>2. Finals' = Finals /\ \A f : Parts(f)' = Parts(f)
  BY <1>1 DEF Finals, Parts, Ids
<1>3. \A f : Complete(f)' = Complete(f)
  BY <1>1, <1>2 DEF Complete
<1> QED  BY <1>1, <1>2, <1>3 DEF WholeInv, CombinedIsComplete, WholeBatch

\* A collection whose result went out had every recording of its run done (the check of
\* voice_items in ai_watcher.py, and what becomes of the rows while it combines).
THEOREM BatchesAreWhole == Spec => []WholeBatch
<1>1. Init => WholeInv
  <2>1. Init => Ids = {} /\ worker.pc = "idle"
    BY DEF Init, Ids, Idle
  <2> QED  BY <2>1 DEF WholeInv, CombinedIsComplete, WholeBatch, Finals
<1>2. Shape /\ Shape' /\ WholeInv /\ [Next]_vars => WholeInv'
  BY WholeStep, WholeStutter
<1>3. WholeInv => WholeBatch
  BY DEF WholeInv
<1> QED  BY <1>1, <1>2, <1>3, Shapes, PTL DEF Spec

-----------------------------------------------------------------------------
(***************************************************************************)
(* A collection fails for a cause.  That the order in which the worker     *)
(* takes requests is none rests on three facts: a final request leaves     *)
(* "uploading" after its recordings, a recording marked "working" is in    *)
(* the worker's hands unless the worker stopped with it, and the oldest of *)
(* what can be claimed is a final request only when its recordings ended.  *)
(***************************************************************************)
Gathered ==
    \A f \in Finals : reqs[f].status # "uploading" =>
        \A p \in Parts(f) : reqs[p].status # "uploading"

PartsInHand ==
    \A p \in Ids : reqs[p].run # 0 /\ reqs[p].status = "working" =>
        worker.id = p \/ reqs[p].run \in blamed

LastOfAll ==
    worker.id \in Finals \ blamed =>
        \A p \in Parts(worker.id) : reqs[p].status \in {"done", "failed"}

CauseInv == Gathered /\ PartsInHand /\ LastOfAll /\ FinalFailsForCause

\* Only a recording's request is among the uploads of a run.
LEMMA FinalsAreNoParts ==
    ASSUME Shape, NEW f \in Finals
    PROVE  f \in Ids /\ f # None /\ f \notin Uploading /\ ~reqs[f].auto /\ reqs[f].run = 0
<1>1. f \in Ids /\ reqs[f].kind \in Final
  BY DEF Finals
<1>2. reqs[f].run = 0 /\ ~reqs[f].auto
  BY <1>1 DEF Shape, KindsOK, KindOK
<1> QED  BY <1>1, <1>2, Numbers DEF Uploading

LEMMA GatheredStep ==
    ASSUME Shape, Gathered, Next
    PROVE  Gathered'
<1>1. ASSUME NEW f \in Finals', reqs'[f].status # "uploading", NEW p \in Parts(f)'
      PROVE  reqs'[p].status # "uploading"
  <2>1. f \in Finals
    BY <1>1, NewFinals
  <2>2. f \in Ids /\ f \notin Uploading
    BY <2>1, FinalsAreNoParts
  <2>3. p \in Parts(f)
    BY <2>1, PartsKept
  <2>4. p \in Ids /\ reqs[p].run # 0
    BY <2>2, <2>3, Numbers DEF Parts, None
  <2>5. SUFFICES ASSUME reqs'[p].status = "uploading" PROVE FALSE
    OBVIOUS
  <2>6. reqs[p].status = "uploading"
    <3>1. StatusMove(p)
      BY <2>4, StatusMoves
    <3> QED  BY <2>5, <3>1 DEF StatusMove
  <2>7. p \in Uploading
    BY <2>4, <2>6 DEF Uploading
  <2>8. reqs[f].status = "uploading"
    BY <2>1, <2>3, <2>6 DEF Gathered
  <2>9. ~Settle
    BY <2>7 DEF Settle
  <2>10. ~(ReleaseMade /\ f = First) /\ ~(Fetched /\ f = loader.id) /\ ~(FetchFails /\ f = loader.id)
    BY <2>2, Released, FileFetched, FetchFailed
  <2>11. StatusMove(f)
    BY <2>2, StatusMoves
  <2> QED  BY <1>1, <2>8, <2>9, <2>10, <2>11 DEF StatusMove
<1> QED  BY <1>1 DEF Gathered

LEMMA PartsInHandStep ==
    ASSUME Shape, PartsInHand, Next
    PROVE  PartsInHand'
<1>1. ASSUME NEW p \in Ids', reqs'[p].run # 0, reqs'[p].status = "working", worker'.id # p
      PROVE  reqs'[p].run \in blamed'
  <2>1. p \in Ids
    BY <1>1, NewOnesWait
  <2>2. reqs'[p].run = reqs[p].run /\ blamed \subseteq blamed'
    BY <2>1, KindsStep, BlamedTypes DEF SameKind
  <2>3. reqs[p].status = "working"
    <3>1. StatusMove(p)
      BY <2>1, StatusMoves
    <3>2. Claim => worker'.id = Oldest
      BY HandsMove
    <3> QED  BY <1>1, <3>1, <3>2 DEF StatusMove
  <2>4. CASE worker.id # p
    BY <1>1, <2>1, <2>2, <2>3, <2>4 DEF PartsInHand
  <2>5. CASE worker.id = p
    <3>1. ~Claim
      BY <2>1, <2>5, HandsMove, Numbers
    <3>2. ~Finish /\ ~Refused /\ ~Raises /\ ~WorkerStarts
      BY <1>1, <2>1, <2>5, HandsMove
    <3>3. WorkerStops
      BY <1>1, <2>5, <3>1, <3>2, WorkerMoves
    <3>4. reqs[p].run \in Finals
      BY <1>1, <2>1, <2>2 DEF Shape, KindsOK, KindOK
    <3>5. blamed' = blamed \cup ({worker.id, reqs[worker.id].run} \cap Finals)
      BY <3>3 DEF WorkerStops
    <3> QED  BY <2>2, <2>5, <3>4, <3>5
  <2> QED  BY <2>4, <2>5
<1> QED  BY <1>1 DEF PartsInHand

\* What the worker takes a final request after.
LEMMA PartsBefore ==
    ASSUME Shape, Gathered, PartsInHand, Claim, Oldest \in Finals \ blamed, NEW p \in Parts(Oldest)
    PROVE  p \in Ids /\ reqs[p].status \in {"done", "failed"}
<1> DEFINE f == Oldest
<1>1. f \in Ids /\ f # None /\ ~reqs[f].auto /\ reqs[f].run = 0
  BY FinalsAreNoParts
<1>2. f \in Claimable /\ \A j \in Claimable : Before(f, j)
  BY OldestIsThere, Claims DEF Claim
<1>3. reqs[f].status # "uploading"
  BY <1>2 DEF Claimable
<1>4. p \in Ids /\ reqs[p].run = f
  BY DEF Parts
<1>5. reqs[p].status # "uploading"
  BY <1>3 DEF Gathered
<1> HIDE DEF f
<1>6. reqs[p].status # "working"
  <2>1. worker.id = None /\ p # None
    BY <1>4, Numbers DEF Claim, Take, Idle
  <2>2. f \notin blamed
    BY DEF f
  <2> QED  BY <1>1, <1>4, <2>1, <2>2 DEF PartsInHand, None
<1>7. reqs[p].status # "pending"
  <2>1. SUFFICES ASSUME reqs[p].status = "pending" PROVE FALSE
    OBVIOUS
  <2>2. p \in Claimable
    BY <1>4, <2>1 DEF Claimable
  <2>3. ~reqs[p].auto /\ p < f
    BY <1>1, <1>4 DEF Shape, KindsOK, KindOK, None
  <2>4. reqs[p].auto \in BOOLEAN /\ reqs[f].auto \in BOOLEAN /\ p \in Nat /\ f \in Nat
    <3>1. reqs[p] \in Request /\ reqs[f] \in Request /\ p \in Nat /\ f \in Nat
      BY <1>1, <1>4, Numbers
    <3> QED  BY <3>1, RequestParts
  <2>5. f <= p
    BY <1>1, <1>2, <2>2, <2>3, <2>4 DEF Before
  <2> QED  BY <2>3, <2>4, <2>5
<1>8. reqs[p].status \in OnTheWay \cup {"failed"}
  <2>1. reqs[p] \in Request
    BY <1>4, Numbers
  <2> QED  BY <2>1, RequestParts
<1> QED  BY <1>4, <1>5, <1>6, <1>7, <1>8 DEF OnTheWay, Open

LEMMA LastOfAllStep ==
    ASSUME Shape, Gathered, PartsInHand, LastOfAll, Next
    PROVE  LastOfAll'
<1>1. ASSUME NEW f, f = worker'.id, f \in Finals', f \notin blamed', NEW p \in Parts(f)'
      PROVE  reqs'[p].status \in {"done", "failed"}
  <2>1. f \in Finals
    <3>1. reqs' \in Seq(Request) /\ f \in Ids'
      BY <1>1, KindsKept DEF Finals
    <3>2. f # None
      BY <3>1 DEF Ids, None
    <3>3. f \in Ids
      BY <1>1, <3>2, WorkerTypes
    <3> QED  BY <1>1, <3>3, NewFinals
  <2>2. f \in Ids /\ f # None /\ f \notin blamed
    BY <1>1, <2>1, FinalsAreNoParts, BlamedTypes
  <2>3. p \in Parts(f)
    BY <2>1, PartsKept
  <2>4. reqs[p].status \in {"done", "failed"}
    <3>1. CASE worker.id = f
      BY <2>1, <2>2, <2>3, <3>1 DEF LastOfAll
    <3>2. CASE Claim
      <4>1. f = Oldest
        BY <1>1, <3>2, HandsMove
      <4> QED  BY <2>1, <2>2, <2>3, <3>2, <4>1, PartsBefore
    <3> QED  BY <1>1, <2>2, <3>1, <3>2, WorkerMoves DEF Idle
  <2>5. p \in Ids
    BY <2>3 DEF Parts
  <2> QED  BY <2>4, <2>5, EndsStay
<1> QED  BY <1>1 DEF LastOfAll, Parts

LEMMA CauseStep ==
    ASSUME Shape, CauseInv, Next
    PROVE  FinalFailsForCause'
<1>1. ASSUME NEW f \in Finals', reqs'[f].status = "failed", f \notin blamed'
      PROVE  \E p \in Parts(f)' : reqs'[p].status = "failed"
  <2>1. f \in Finals
    BY <1>1, NewFinals
  <2>2. f \in Ids /\ f # None /\ f \notin Uploading
    BY <2>1, FinalsAreNoParts
  <2>3. f \notin blamed
    BY <1>1, BlamedTypes
  <2>4. SUFFICES \E p \in Parts(f) : reqs[p].status = "failed"
    <3>1. PICK p \in Parts(f) : reqs[p].status = "failed"
      BY <2>4
    <3>2. p \in Ids
      BY DEF Parts
    <3>3. reqs'[p].status = "failed" /\ p \in Parts(f)'
      BY <2>1, <3>1, <3>2, EndsStay, PartsKept
    <3> QED  BY <3>3
  <2>5. CASE reqs[f].status = "failed"
    BY <2>1, <2>3, <2>5 DEF CauseInv, FinalFailsForCause
  <2>6. CASE FetchFails /\ f = loader.id
    BY <2>2, <2>6, FetchFailed
  <2>7. CASE Settle /\ (f \in Late \/ PartFailed(f))
    <3>1. f \notin Late
      BY <1>1, <2>1, <2>7 DEF Settle
    <3>2. PICK p \in Parts(f) : reqs[p].status = "failed" \/ p \in Late
      BY <2>7, <3>1 DEF PartFailed
    <3>3. p \notin Late
      <4>1. Uploading = {}
        BY <2>7 DEF Settle
      <4> QED  BY <2>2, <4>1 DEF Parts, Late, Uploading, None
    <3> QED  BY <3>2, <3>3
  <2>8. CASE Raises /\ f = worker.id
    BY <1>1, <2>1, <2>8 DEF Raises
  <2>9. CASE Refused /\ f = worker.id
    <3>1. ~Complete(f)
      BY <2>1, <2>9 DEF Refused, CannotDo, Finals
    <3>2. PICK p \in Parts(f) : reqs[p].status # "done"
      BY <3>1 DEF Complete
    <3>3. reqs[p].status \in {"done", "failed"}
      BY <2>1, <2>3, <2>9 DEF CauseInv, LastOfAll
    <3> QED  BY <3>2, <3>3
  <2>10. StatusMove(f)
    BY <2>2, StatusMoves
  <2> QED  BY <1>1, <2>5, <2>6, <2>7, <2>8, <2>9, <2>10 DEF StatusMove
<1> QED  BY <1>1 DEF FinalFailsForCause

LEMMA CauseStutter ==
    ASSUME CauseInv, UNCHANGED vars
    PROVE  CauseInv'
<1>1. reqs' = reqs /\ worker' = worker /\ blamed' = blamed
  BY DEF vars
<1>2. Ids' = Ids /\ Finals' = Finals /\ \A f : Parts(f)' = Parts(f)
  BY <1>1 DEF Finals, Parts, Ids
<1>3. Gathered' /\ FinalFailsForCause'
  BY <1>1, <1>2 DEF CauseInv, Gathered, FinalFailsForCause
<1>4. PartsInHand'
  BY <1>1, <1>2 DEF CauseInv, PartsInHand
<1>5. LastOfAll'
  BY <1>1, <1>2 DEF CauseInv, LastOfAll, Parts
<1> QED  BY <1>3, <1>4, <1>5 DEF CauseInv

\* A collection fails because one of its recordings did, or because a fault hit it or one it
\* was waiting for; never because the worker took it too early (claim()'s order in db/ai.py).
THEOREM FailuresHaveCauses == Spec => []FinalFailsForCause
<1>1. Init => CauseInv
  <2>1. Init => Ids = {} /\ worker.id = None
    BY DEF Init, Ids, Idle
  <2> QED  BY <2>1 DEF CauseInv, Gathered, PartsInHand, LastOfAll, FinalFailsForCause, Finals
<1>2. Shape /\ Shape' /\ CauseInv /\ [Next]_vars => CauseInv'
  BY GatheredStep, PartsInHandStep, LastOfAllStep, CauseStep, CauseStutter DEF CauseInv
<1>3. CauseInv => FinalFailsForCause
  BY DEF CauseInv
<1> QED  BY <1>1, <1>2, <1>3, Shapes, PTL DEF Spec

-----------------------------------------------------------------------------
(***************************************************************************)
(* Audio is paid once.  Between the worker's look at what the chat paid    *)
(* and the end of the request nobody else finishes one, so what it is      *)
(* about to charge is still due; and the transcript of an episode that was *)
(* paid is there, so that nobody makes another.                            *)
(***************************************************************************)
PaidIsThere ==
    \A i \in Ids : reqs[i].status = "done" /\ reqs[i].secs > 0 /\ reqs[i].ref = Episode =>
        Episode \in transcripts

ChargeIsDue ==
    LET i == worker.id IN
    worker.pc \in {"write", "finish"} /\ worker.charge > 0 =>
        /\ ~PaidBy(reqs[i].chat, reqs[i].ref, {"done"}, i)
        /\ reqs[i].ref = Episode => Episode \in transcripts

PaidInv == PaidIsThere /\ ChargeIsDue /\ PaidOnce

\* Texts are never taken back.
LEMMA TextsStay ==
    ASSUME Shape, Next
    PROVE  transcripts \subseteq transcripts'
BY DEF Next, BotStep, WorkerStep, Delivered, Tap, Enqueue, Stage, Preview, Launch, Start, ReleaseMade,
       FetchStarts, Fetched, FetchFails, Settle, AnHourPasses, BotStarts, BotStops, Claim, Take,
       SummaryMade, Transcribe, Combine, Write, Finish, Refused, Raises, WorkerStops, WorkerStarts,
       LeaseExpires, store

\* What is found unpaid stays so until a request is finished.
LEMMA UnpaidStays ==
    ASSUME Shape, Next, ~Finish, NEW i \in Ids, ~PaidBy(reqs[i].chat, reqs[i].ref, {"done"}, i)
    PROVE  ~PaidBy(reqs[i].chat, reqs[i].ref, {"done"}, i)'
<1>1. SameKind(i)
  BY KindsStep
<1>2. ASSUME NEW j \in Ids' \ {i}, reqs'[j].chat = reqs'[i].chat, reqs'[j].ref = reqs'[i].ref,
             reqs'[j].secs > 0, reqs'[j].status = "done"
      PROVE  FALSE
  <2>1. j \in Ids /\ reqs[j].status = "done" /\ reqs'[j].secs = reqs[j].secs
    BY <1>2, DoneIsFinished
  <2>2. SameKind(j)
    BY <2>1, KindsStep
  <2> QED  BY <1>1, <1>2, <2>1, <2>2 DEF SameKind, PaidBy
<1> QED  BY <1>2 DEF PaidBy

\* The charge an attempt leaves with.
LEMMA ChargeSet ==
    ASSUME Shape, NEW pc, NEW c, To(pc, c)
    PROVE  worker'.charge = c /\ worker'.id = worker.id /\ worker'.pc = pc
<1>1. worker \in [pc : {"idle", "work", "write", "finish", "down"}, id : {None} \cup Ids, charge : Nat]
  BY DEF Shape, AiTypeOK
<1> QED  BY <1>1 DEF To

LEMMA DueAfterWork ==
    ASSUME Shape, PaidIsThere, ChargeIsDue, SummaryMade \/ Transcribe \/ Combine \/ Write, worker'.charge > 0
    PROVE  LET i == worker.id IN
           /\ ~PaidBy(reqs[i].chat, reqs[i].ref, {"done"}, i)
           /\ reqs[i].ref = Episode => Episode \in transcripts'
<1> DEFINE i == worker.id
           paid == PaidBy(reqs[i].chat, reqs[i].ref, {"done"}, i)
           Goal == ~paid /\ (reqs[i].ref = Episode => Episode \in transcripts')
<1>1. i \in Ids
  BY InHands DEF SummaryMade, Transcribe, Combine, Write
<1>2. KindOK(i) /\ Episode \notin Voices
  BY <1>1, AiAssumption DEF Shape, KindsOK, AiAssumption
<1>3. ~(0 > 0)
  OBVIOUS
\* A recording.
<1>4. ASSUME IsVoice(i), reqs[i].kind \notin Final, NEW made, Charge(i, made) > 0 PROVE Goal
  <2>1. reqs[i].ref # Episode
    BY <1>2, <1>4 DEF KindOK, IsVoice
  <2>2. ~paid
    BY <1>3, <1>4 DEF Charge
  <2> QED  BY <2>1, <2>2
<1>5. ASSUME SummaryMade PROVE Goal
  <2>1. worker'.charge = IF IsVoice(i) THEN Charge(i, FALSE) ELSE 0
    <3> DEFINE c == IF IsVoice(i) THEN Charge(i, FALSE) ELSE 0
    <3>1. To("finish", c)
      BY <1>5 DEF SummaryMade
    <3> HIDE DEF c
    <3>2. worker'.charge = c
      BY <3>1, ChargeSet
    <3> QED  BY <3>2 DEF c
  <2>2. reqs[i].kind \notin Final
    BY <1>5 DEF SummaryMade, Final
  <2> HIDE DEF Goal, i
  <2> QED  BY <1>3, <1>4, <2>1, <2>2
<1>6. ASSUME Transcribe PROVE Goal
  <2> DEFINE made == reqs[i].ref \notin transcripts
  <2>1. worker'.charge = Charge(i, made)
    <3> DEFINE c == Charge(i, made)
               pc == AfterText(reqs[i].kind)
    <3>1. To(pc, c)
      BY <1>6 DEF Transcribe
    <3> HIDE DEF c, pc
    <3>2. worker'.charge = c
      BY <3>1, ChargeSet
    <3> QED  BY <3>2 DEF c
  <2>2. reqs[i].kind \notin Final /\ reqs[i].ref \in transcripts'
    BY <1>6 DEF Transcribe
  <2>3. Charge(i, made) > 0
    BY <2>1
  <2>4. CASE IsVoice(i)
    <3> HIDE DEF Goal, made, i
    <3> QED  BY <1>4, <2>2, <2>3, <2>4
  <2>5. CASE ~IsVoice(i)
    <3>1. reqs[i].ref = Episode
      BY <1>2, <2>2, <2>5 DEF KindOK, IsVoice
    <3>2. CASE made
      <4>1. ~paid
        BY <3>1, <3>2 DEF PaidBy, PaidIsThere
      <4> QED  BY <2>2, <4>1
    <3>3. CASE ~made
      <4>1. ~paid
        BY <1>3, <2>2, <2>3, <2>5, <3>3 DEF Charge
      <4> QED  BY <2>2, <4>1
    <3> QED  BY <3>2, <3>3
  <2> QED  BY <2>4, <2>5
<1>7. ~Combine
  <2>1. ASSUME Combine PROVE worker'.charge = 0
    BY <2>1, ChargeSet DEF Combine
  <2> QED  BY <1>3, <2>1
<1>8. ASSUME Write PROVE Goal
  <2>1. worker'.charge = worker.charge /\ worker.pc = "write" /\ transcripts' = transcripts
    BY <1>8, ChargeSet DEF Write
  <2> QED  BY <2>1 DEF ChargeIsDue
<1>9. Goal
  <2> HIDE DEF Goal
  <2> QED  BY <1>5, <1>6, <1>7, <1>8
<1> QED  BY <1>9

LEMMA PaidIsThereStep ==
    ASSUME Shape, PaidIsThere, ChargeIsDue, Next
    PROVE  PaidIsThere'
<1>1. ASSUME NEW i \in Ids', reqs'[i].status = "done", reqs'[i].secs > 0, reqs'[i].ref = Episode
      PROVE  Episode \in transcripts'
  <2>1. /\ i \in Ids
        /\ \/ reqs[i].status = "done" /\ reqs'[i].secs = reqs[i].secs
           \/ Finish /\ i = worker.id /\ reqs'[i].secs = worker.charge
    BY <1>1, DoneIsFinished
  <2>2. reqs[i].ref = Episode
    BY <1>1, <2>1, KindsStep DEF SameKind
  <2>3. Episode \in transcripts
    <3>1. CASE reqs[i].status = "done" /\ reqs'[i].secs = reqs[i].secs
      BY <1>1, <2>1, <2>2, <3>1 DEF PaidIsThere
    <3>2. CASE Finish /\ i = worker.id /\ reqs'[i].secs = worker.charge
      BY <1>1, <2>2, <3>2 DEF ChargeIsDue, Finish
    <3> QED  BY <2>1, <3>1, <3>2
  <2> QED  BY <2>3, TextsStay
<1> QED  BY <1>1 DEF PaidIsThere

LEMMA ChargeIsDueStep ==
    ASSUME Shape, PaidIsThere, ChargeIsDue, Next
    PROVE  ChargeIsDue'
<1>1. ASSUME NEW i, i = worker'.id, worker'.pc \in {"write", "finish"}, worker'.charge > 0
      PROVE  /\ ~PaidBy(reqs[i].chat, reqs[i].ref, {"done"}, i)'
             /\ reqs'[i].ref = Episode => Episode \in transcripts'
  <2>1. ~Claim
    BY <1>1, Claims
  <2>2. worker' # Idle /\ worker' # [Idle EXCEPT !.pc = "down"]
    BY <1>1 DEF Idle
  <2>3. ~Finish
    BY <2>2 DEF Finish
  <2>4. i \in Ids
    <3>1. i # None
      BY <1>1, WorkerTypes
    <3> QED  BY <1>1, <3>1, WorkerTypes
  <2>5. /\ ~PaidBy(reqs[i].chat, reqs[i].ref, {"done"}, i)
        /\ reqs[i].ref = Episode => Episode \in transcripts'
    <3>1. CASE worker' = worker
      BY <1>1, <3>1, TextsStay DEF ChargeIsDue
    <3>2. CASE (SummaryMade \/ Transcribe \/ Combine \/ Write) /\ worker'.id = worker.id
      BY <1>1, <3>2, DueAfterWork
    <3> QED  BY <2>1, <2>2, <3>1, <3>2, WorkerMoves
  <2>6. reqs'[i].ref = reqs[i].ref
    BY <2>4, KindsStep DEF SameKind
  <2> QED  BY <2>3, <2>4, <2>5, <2>6, UnpaidStays
<1> QED  BY <1>1 DEF ChargeIsDue, PaidBy, Ids

LEMMA PaidOnceStep ==
    ASSUME Shape, PaidInv, Next
    PROVE  PaidOnce'
<1>1. ASSUME NEW i \in Ids, NEW j \in Ids, i # j,
             reqs[i].status = "done", reqs[i].secs > 0, Finish, j = worker.id, worker.charge > 0,
             reqs[i].chat = reqs[j].chat, reqs[i].ref = reqs[j].ref
      PROVE  FALSE
  BY <1>1 DEF PaidInv, ChargeIsDue, PaidBy, Finish
<1>2. ASSUME NEW i \in Ids', NEW j \in Ids',
             reqs'[i].status = "done", reqs'[i].secs > 0, reqs'[j].status = "done", reqs'[j].secs > 0,
             reqs'[i].chat = reqs'[j].chat, reqs'[i].ref = reqs'[j].ref, i # j
      PROVE  FALSE
  <2>1. /\ i \in Ids
        /\ \/ reqs[i].status = "done" /\ reqs[i].secs > 0
           \/ Finish /\ i = worker.id /\ worker.charge > 0
    BY <1>2, DoneIsFinished
  <2>2. /\ j \in Ids
        /\ \/ reqs[j].status = "done" /\ reqs[j].secs > 0
           \/ Finish /\ j = worker.id /\ worker.charge > 0
    BY <1>2, DoneIsFinished
  <2>3. SameKind(i) /\ SameKind(j)
    BY <2>1, <2>2, KindsStep
  <2>4. reqs[i].chat = reqs[j].chat /\ reqs[i].ref = reqs[j].ref
    BY <1>2, <2>3 DEF SameKind
  <2>5. CASE reqs[i].status = "done" /\ reqs[i].secs > 0 /\ reqs[j].status = "done" /\ reqs[j].secs > 0
    BY <1>2, <2>1, <2>2, <2>4, <2>5 DEF PaidInv, PaidOnce
  <2> QED  BY <1>1, <1>2, <2>1, <2>2, <2>4, <2>5
<1> QED  BY <1>2 DEF PaidOnce

LEMMA PaidStutter ==
    ASSUME PaidInv, UNCHANGED vars
    PROVE  PaidInv'
<1>1. reqs' = reqs /\ worker' = worker /\ transcripts' = transcripts
  BY DEF vars, store
<1>2. Ids' = Ids
  BY <1>1 DEF Ids
<1> QED  BY <1>1, <1>2 DEF PaidInv, PaidIsThere, ChargeIsDue, PaidOnce, PaidBy

\* A chat pays the audio of an episode or a recording once (audio_paid() in db/ai.py), whatever
\* it asks for, in whatever order the requests are worked on and taken up again.
THEOREM AudioPaidOnce == Spec => []PaidOnce
<1>1. Init => PaidInv
  <2>1. Init => Ids = {} /\ worker.pc = "idle"
    BY DEF Init, Ids, Idle
  <2> QED  BY <2>1 DEF PaidInv, PaidIsThere, ChargeIsDue, PaidOnce
<1>2. Shape /\ Shape' /\ PaidInv /\ [Next]_vars => PaidInv'
  BY PaidIsThereStep, ChargeIsDueStep, PaidOnceStep, PaidStutter DEF PaidInv
<1>3. PaidInv => PaidOnce
  BY DEF PaidInv
<1> QED  BY <1>1, <1>2, <1>3, Shapes, PTL DEF Spec

-----------------------------------------------------------------------------
(***************************************************************************)
(* A tap starts what the card showed.  A launch compares the number of     *)
(* recordings and the hours; that the recordings themselves are the same   *)
(* rests on the card being a beginning of the collection.  The hours of    *)
(* the new requests are the quote at the tap, renamed: recording k becomes *)
(* request Len(reqs) + k.                                                  *)
(***************************************************************************)
CardIsBeginning ==
    /\ Len(card.refs) <= Len(items)
    /\ \A k \in 1..Len(card.refs) : card.refs[k] = items[k].ref

\* A collection only grows, and its recordings stay what they are.
LEMMA ItemsGrow ==
    ASSUME Shape, Next
    PROVE  /\ Len(items) <= Len(items')
           /\ \A k \in 1..Len(items) : items'[k].ref = items[k].ref
<1> DEFINE Item == [ref : Voices, secs : Nat]
<1>0. items \in Seq(Item) /\ Len(items) \in Nat
  BY ItemTypes
<1>1. CASE items' = items
  BY <1>0, <1>1
<1>2. ASSUME NEW ref \in Voices, Stage(ref)
      PROVE  Len(items) <= Len(items') /\ \A k \in 1..Len(items) : items'[k].ref = items[k].ref
  <2> DEFINE e == [ref |-> ref, secs |-> Claimed[ref]]
  <2>1. e \in Item
    BY AiAssumption DEF AiAssumption
  <2>2. items' = Append(items, e)
    BY <1>2 DEF Stage
  <2> HIDE DEF Item, e
  <2>3. Len(items') = Len(items) + 1 /\ \A k \in 1..Len(items) : items'[k] = items[k]
    BY <1>0, <2>1, <2>2
  <2> QED  BY <1>0, <2>3
<1>3. CASE Fetched
  <2> DEFINE k == reqs[loader.id].item
             n == Real[reqs[loader.id].ref]
  <2>1. items' = [items EXCEPT ![k].secs = n]
    BY <1>3 DEF Fetched
  <2> HIDE DEF k, n
  <2>2. DOMAIN items = 1..Len(items) /\ DOMAIN items' = 1..Len(items)
    BY <1>0, <2>1
  <2>3. Len(items') = Len(items)
    <3>1. items' \in Seq(Item)
      BY VoiceTypes
    <3> HIDE DEF Item
    <3>2. Len(items') \in Nat /\ DOMAIN items' = 1..Len(items')
      BY <3>1
    <3> QED  BY <1>0, <2>2, <3>2
  <2>4. ASSUME NEW m \in 1..Len(items) PROVE items'[m].ref = items[m].ref
    <3>1. items[m] \in Item
      <4> HIDE DEF Item
      <4> QED  BY <1>0
    <3>2. items'[m] = IF m = k THEN [items[m] EXCEPT !.secs = n] ELSE items[m]
      BY <2>1, <2>2
    <3> QED  BY <3>1, <3>2
  <2> QED  BY <1>0, <2>3, <2>4
<1>4. items' = items \/ Fetched \/ \E ref \in Voices : Stage(ref)
  BY DEF Next, BotStep, WorkerStep, Delivered, Tap, Enqueue, Preview, Launch, Start, ReleaseMade, FetchStarts,
      FetchFails, Settle, AnHourPasses, BotStarts, BotStops, Claim, Take, SummaryMade, Transcribe, Combine,
      Write, Finish, Refused, Raises, WorkerStops, WorkerStarts, LeaseExpires, voice
<1> QED  BY <1>1, <1>2, <1>3, <1>4

LEMMA CardStep ==
    ASSUME Shape, CardIsBeginning, Next
    PROVE  CardIsBeginning'
<1>0. /\ Len(items) \in Nat /\ Len(items') \in Nat
      /\ card.refs \in Seq(Voices) /\ Len(card.refs) \in Nat
  <2>1. items' \in Seq([ref : Voices, secs : Nat])
    BY VoiceTypes
  <2>2. card.refs \in Seq(Voices)
    BY DEF Shape, AiTypeOK
  <2> QED  BY <2>1, <2>2, ItemTypes
<1>1. CASE card' = card
  <2>1. Len(card'.refs) <= Len(items')
    BY <1>0, <1>1, ItemsGrow DEF CardIsBeginning
  <2>2. ASSUME NEW k \in 1..Len(card'.refs) PROVE card'.refs[k] = items'[k].ref
    <3>1. k \in 1..Len(card.refs) /\ k \in 1..Len(items)
      BY <1>0, <1>1 DEF CardIsBeginning
    <3> QED  BY <1>1, <3>1, ItemsGrow DEF CardIsBeginning
  <2> QED  BY <2>1, <2>2 DEF CardIsBeginning
<1>2. CASE Preview
  <2> DEFINE refs == [k \in 1..Len(items) |-> items[k].ref]
  <2>1. card'.refs = refs /\ items' = items
    BY <1>2, ItemTypes DEF Preview
  <2>2. Len(refs) = Len(items)
    BY <1>0
  <2> QED  BY <1>0, <2>1, <2>2 DEF CardIsBeginning
<1>3. card' = card \/ Preview
  BY DEF Next, BotStep, WorkerStep, Delivered, Tap, Enqueue, Stage, Launch, Start, ReleaseMade, FetchStarts,
      Fetched, FetchFails, Settle, AnHourPasses, BotStarts, BotStops, Claim, Take, SummaryMade, Transcribe,
      Combine, Write, Finish, Refused, Raises, WorkerStops, WorkerStarts, LeaseExpires, voice
<1> QED  BY <1>1, <1>2, <1>3

\* The requests of the recordings of a run that starts.
LEMMA LaunchedParts ==
    ASSUME Shape, Next, NEW output \in Outputs, NEW mode \in Modes, Launch(output, mode),
           NEW f, f = Len(reqs) + Len(items) + 1
    PROVE  /\ Parts(f)' = {Len(reqs) + k : k \in 1..Len(items)}
           /\ \A k \in 1..Len(items) : reqs'[Len(reqs) + k].secs = Needed(k) /\ reqs'[Len(reqs) + k].ref = items[k].ref
<1> DEFINE n == Len(items)
           l == Len(reqs)
<1>1. /\ f = l + n + 1 /\ Ids' = 1..f /\ n \in Nat /\ l \in Nat /\ Ids = 1..l
      /\ \A i \in Ids : reqs'[i] = reqs[i]
      /\ \A k \in 1..n : NewPart(reqs'[l + k], output, mode, k, f)
      /\ NewFinal(reqs'[f])
  BY Launched, Numbers DEF Launch
<1> HIDE DEF n, l
<1>2. ASSUME NEW k \in 1..n
      PROVE  l + k \in Parts(f)' /\ reqs'[l + k].secs = Needed(k) /\ reqs'[l + k].ref = items[k].ref
  <2>1. l + k \in Ids'
    BY <1>1
  <2>2. NewPart(reqs'[l + k], output, mode, k, f)
    BY <1>1
  <2> QED  BY <2>1, <2>2 DEF NewPart, Parts
<1>3. ASSUME NEW p \in Parts(f)' PROVE \E k \in 1..n : p = l + k
  <2>1. p \in 1..f /\ reqs'[p].run = f
    BY <1>1 DEF Parts
  <2>2. p # f
    BY <1>1, <2>1 DEF NewFinal
  <2>3. p \notin 1..l
    <3>1. ASSUME p \in 1..l PROVE FALSE
      <4>1. reqs[p].run = f /\ p \in Ids
        BY <1>1, <2>1, <3>1
      <4>2. f # 0
        BY <1>1
      <4>3. f \in Ids
        BY <4>1, <4>2 DEF Shape, KindsOK, KindOK, Finals
      <4> QED  BY <1>1, <4>3
    <3> QED  BY <3>1
  <2>4. p - l \in 1..n /\ p = l + (p - l)
    BY <1>1, <2>1, <2>2, <2>3
  <2> QED  BY <2>4
<1>4. Parts(f)' = {l + k : k \in 1..n}
  BY <1>2, <1>3
<1> QED  BY <1>2, <1>4 DEF n, l

LEMMA LaunchedHours ==
    ASSUME Shape, Next, NEW output \in Outputs, NEW mode \in Modes, Launch(output, mode),
           NEW f, f = Len(reqs) + Len(items) + 1
    PROVE  Total(Parts(f))' = Quote
<1> DEFINE n == Len(items)
           l == Len(reqs)
           hours == [k \in 1..n |-> Needed(k)]
           secs == [i \in Ids' |-> reqs'[i].secs]
           row == [k \in 1..n |-> l + k]
<1>1. /\ Parts(f)' = {l + k : k \in 1..n}
      /\ \A k \in 1..n : reqs'[l + k].secs = Needed(k)
  BY LaunchedParts
<1>2. n \in Nat /\ l \in Nat /\ DOMAIN items = 1..n /\ \A k \in 1..n : Needed(k) \in Nat
  BY ItemTypes, Numbers
<1>3. Quote = SumFunctionOnSet(hours, 1..n)
  BY <1>2 DEF Quote, SumFunction
<1>4. Total(Parts(f))' = SumFunctionOnSet(secs, {l + k : k \in 1..n})
  BY <1>1 DEF Total
<1>5. {l + k : k \in 1..n} = {row[k] : k \in 1..n}
  OBVIOUS
<1>6. Parts(f)' \subseteq Ids'
  BY DEF Parts
<1> HIDE DEF n, l
<1>7. \A k \in 1..n : secs[row[k]] = hours[k]
  BY <1>1, <1>6
<1>8. \A k, m \in 1..n : row[k] = row[m] => k = m
  BY <1>2
<1>9. IsFiniteSet(1..n) /\ \A k \in 1..n : hours[k] \in Int
  BY <1>2, FS_Interval
<1> HIDE DEF hours, secs, row
<1> DEFINE S == 1..n
           R == {row[k] : k \in S}
<1>10. IsFiniteSet(S) /\ (\A k \in S : hours[k] \in Int) /\ (\A k \in S : secs[row[k]] = hours[k])
       /\ (\A k, m \in S : row[k] = row[m] => k = m) /\ R = {row[k] : k \in S}
  BY <1>7, <1>8, <1>9
<1> HIDE DEF S, R
<1>11. SumFunctionOnSet(secs, R) = SumFunctionOnSet(hours, S)
  BY <1>10, SumRenamed
<1> QED  BY <1>3, <1>4, <1>5, <1>11 DEF S, R

\* What launch() of app/service/ai/voice.py starts is what the card showed, and takes no more hours
\* than it said.
THEOREM ShownIsWhatStarts == Spec => ShownIsStarted
<1> DEFINE A == \A f \in Finals' \ Finals :
                   /\ Total(Parts(f))' <= card.quoted
                   /\ {reqs'[p].ref : p \in Parts(f)'} = {card.refs[k] : k \in DOMAIN card.refs}
<1>1. ASSUME Shape, CardIsBeginning, Next PROVE A
  <2> SUFFICES ASSUME NEW f \in Finals', f \notin Finals
               PROVE  /\ Total(Parts(f))' <= card.quoted
                      /\ {reqs'[p].ref : p \in Parts(f)'} = {card.refs[k] : k \in DOMAIN card.refs}
    OBVIOUS
  <2>1. PICK output \in Outputs, mode \in Modes :
           Launch(output, mode) /\ f = Len(reqs) + Len(items) + 1
    BY <1>1, NewFinals
  <2>2. Total(Parts(f))' = Quote
    BY <1>1, <2>1, LaunchedHours
  <2>3. Quote <= card.quoted /\ Len(card.refs) = Len(items)
    BY <2>1 DEF Launch
  <2>4. /\ Parts(f)' = {Len(reqs) + k : k \in 1..Len(items)}
        /\ \A k \in 1..Len(items) : reqs'[Len(reqs) + k].ref = items[k].ref
    BY <1>1, <2>1, LaunchedParts
  <2>5. DOMAIN card.refs = 1..Len(items)
    <3>1. card.refs \in Seq(Voices)
      BY <1>1 DEF Shape, AiTypeOK
    <3> QED  BY <2>3, <3>1
  <2>6. \A k \in 1..Len(items) : card.refs[k] = reqs'[Len(reqs) + k].ref
    BY <1>1, <2>3, <2>4 DEF CardIsBeginning
  <2>7. {reqs'[p].ref : p \in Parts(f)'} = {card.refs[k] : k \in DOMAIN card.refs}
    <3> DEFINE n == Len(items)
               l == Len(reqs)
               new == Parts(f)'
               refs == card.refs
    <3>1. new = {l + k : k \in 1..n} /\ DOMAIN refs = 1..n /\ \A k \in 1..n : refs[k] = reqs'[l + k].ref
      BY <2>4, <2>5, <2>6
    <3> HIDE DEF n, l, new, refs
    <3>2. {reqs'[p].ref : p \in new} = {refs[k] : k \in DOMAIN refs}
      BY <3>1
    <3> QED  BY <3>2 DEF new, refs
  <2> QED  BY <2>2, <2>3, <2>7
<1>2. Init => CardIsBeginning
  BY DEF Init, CardIsBeginning
<1>3. CardIsBeginning /\ UNCHANGED vars => CardIsBeginning'
  BY DEF CardIsBeginning, vars, voice
<1>4. Shape /\ CardIsBeginning /\ [Next]_vars => CardIsBeginning'
  BY <1>3, CardStep
<1>5. Shape /\ CardIsBeginning /\ [Next]_vars => [A]_vars
  BY <1>1
<1>6. Spec => [](Shape /\ CardIsBeginning)
  BY <1>2, <1>4, Shapes, PTL DEF Spec
<1>7. Spec => [][A]_vars
  BY <1>5, <1>6, PTL DEF Spec
<1> QED  BY <1>7 DEF ShownIsStarted
=============================================================================
