---------------------------- MODULE CircleProofs ----------------------------
(***************************************************************************)
(* Proofs about Circle, for any number of podcasts, people, channels and   *)
(* mishaps: the types, that an owner and all their channels share one      *)
(* budget (BudgetInv), that no cursor runs ahead of what was sent          *)
(* (SkipInv), and that nothing is queued twice where no visit was cut      *)
(* short or overlapped (TwiceInv).                                         *)
(***************************************************************************)
EXTENDS Circle, Sequences, Counting

-----------------------------------------------------------------------------
(***************************************************************************)
(* Types.  Beside those of CircleTypeOK: what a visit carries, that it has *)
(* a podcast while it runs, and that it read a budget for everybody it may *)
(* send to.                                                                *)
(***************************************************************************)
PartOf(S, T) == UNION {[D -> T] : D \in SUBSET S}

VisitSet == [pc : VisitPoints, p : Podcasts \cup {0}, to : PartOf(Chats, Cursors),
             free : PartOf(Users, Cursors), latest : Cursors, etag : Cursors,
             left : PartOf(Users, Int), head : Cursors, next : Nat, todo : SUBSET Users]

VisitsOK ==
    /\ visit \in [Actors -> VisitSet]
    /\ \A a \in Actors : /\ V(a).pc = "off" <=> V(a).p = 0
                         /\ \A ch \in DOMAIN V(a).to : Bill(ch) \in DOMAIN V(a).left

Shape == CircleTypeOK /\ VisitsOK

LEMMA Numbers ==
    /\ Podcasts \subseteq Nat /\ Users \subseteq Nat /\ Chats \subseteq Nat /\ 0 \notin Podcasts
    /\ IsFiniteSet(Chats) /\ IsFiniteSet(Podcasts)
    /\ MaxEp \in Nat \ {0} /\ Window \in Nat /\ MaxEvents \in Nat
    /\ Episodes \subseteq Nat \ {0} /\ Episodes \subseteq Cursors /\ Cursors \subseteq Int /\ 0 \in Cursors
    /\ 0..MaxEp \subseteq Cursors /\ Empty \in Cursors /\ Empty \notin Nat
    /\ \A p \in Podcasts : News[p] \in 0..MaxEp
<1>1. /\ Podcasts \subseteq Nat /\ Users \subseteq Nat /\ Chats \subseteq Nat /\ 0 \notin Podcasts
      /\ IsFiniteSet(Chats) /\ IsFiniteSet(Podcasts)
      /\ MaxEp \in Nat \ {0} /\ Window \in Nat /\ MaxEvents \in Nat
  BY CircleAssumption DEF CircleAssumption, Chats
<1>2. \A p \in Podcasts : News[p] \in 0..MaxEp
  BY CircleAssumption DEF CircleAssumption
<1> QED  BY <1>1, <1>2 DEF Episodes, Cursors, Empty

LEMMA Bills ==
    ASSUME NEW ch \in Chats
    PROVE  Bill(ch) \in Users
BY CircleAssumption DEF CircleAssumption, Bill, Chats

LEMMA PersonBills ==
    ASSUME NEW u \in Users
    PROVE  Bill(u) = u /\ u \in Chats
<1>1. u \notin TgChats
  BY CircleAssumption DEF CircleAssumption
<1> QED  BY <1>1 DEF Bill, Chats

LEMMA NothingIsPart ==
    ASSUME NEW S, NEW T
    PROVE  << >> \in PartOf(S, T) /\ DOMAIN << >> = {}
<1>1. << >> \in Seq(T) /\ Len(<< >>) = 0
  OBVIOUS
<1>2. << >> \in [1..0 -> T] /\ 1..0 = {}
  BY <1>1
<1> QED  BY <1>2 DEF PartOf

LEMMA Parts ==
    ASSUME NEW S, NEW T, NEW f \in PartOf(S, T)
    PROVE  DOMAIN f \subseteq S /\ \A x \in DOMAIN f : f[x] \in T
BY DEF PartOf

LEMMA NoVisitType ==
    /\ NoVisit \in VisitSet
    /\ NoVisit.pc = "off" /\ NoVisit.p = 0 /\ NoVisit.todo = {} /\ NoVisit.to = << >>
    /\ NoVisit.free = << >> /\ NoVisit.left = << >>
    /\ DOMAIN NoVisit.to = {} /\ DOMAIN NoVisit.free = {} /\ DOMAIN NoVisit.left = {}
BY NothingIsPart, Numbers DEF NoVisit, VisitSet, VisitPoints

LEMMA FacingTypes ==
    ASSUME Shape, NEW p \in Podcasts \cup {0}
    PROVE  /\ Facing(p) \in VisitSet
           /\ Facing(p).p = p /\ Facing(p).pc \in {"off", "target"} /\ (Facing(p).pc = "off" <=> p = 0)
           /\ Facing(p).todo = {} /\ Facing(p).to = << >> /\ Facing(p).free = << >>
           /\ Facing(p).left = << >>
BY NoVisitType, NothingIsPart, Numbers DEF Facing, NoVisit, VisitSet, VisitPoints, Shape, CircleTypeOK

LEMMA AskedTypes ==
    ASSUME NEW p \in Podcasts, NEW to \in PartOf(Chats, Cursors), NEW l \in PartOf(Users, Int)
    PROVE  LET w == [NoVisit EXCEPT !.pc = "target", !.p = p, !.to = to, !.left = l] IN
           /\ w \in VisitSet /\ w.pc = "target" /\ w.p = p /\ w.to = to /\ w.free = << >>
           /\ w.left = l /\ w.todo = {}
BY NoVisitType DEF VisitSet, VisitPoints

-----------------------------------------------------------------------------
(* What each step of a visit does to the visits. *)

LEMMA CircleEffects ==
    ASSUME Shape
    PROVE  /\ StartCircle => V("circle")' = Facing(NextPolled(Resume))
           /\ NextPodcast => V("circle")' = Facing(NextPolled(V("circle").p + 1))
           /\ CutCircle \/ Crash \/ KillerCrash \/ Terminated => V("circle")' = NoVisit
           /\ StartCircle \/ NextPodcast \/ ReadTargets \/ CutCircle \/ Crash \/ KillerCrash \/ Terminated
                => V("refresh")' = V("refresh")
           /\ \A u \in Users, p \in Podcasts : Asked(u, p) =>
                V("refresh")' = [NoVisit EXCEPT !.pc = "target", !.p = p,
                                     !.to = [ch \in {u} |-> cursor[u][p]], !.left = [o \in {u} |-> left[u]]]
           /\ Answered \/ RefreshDies => V("refresh")' = NoVisit
           /\ (\E u \in Users, p \in Podcasts : Asked(u, p)) \/ ReadChannel \/ Answered \/ RefreshDies
                => V("circle")' = V("circle")
<1>1. visit \in [Actors -> VisitSet] /\ "circle" \in Actors /\ "refresh" \in Actors
  BY DEF Shape, VisitsOK, Actors
<1>2. /\ StartCircle => V("circle")' = Facing(NextPolled(Resume))
      /\ NextPodcast => V("circle")' = Facing(NextPolled(V("circle").p + 1))
  BY <1>1 DEF StartCircle, NextPodcast, V
<1>3. CutCircle \/ Crash \/ KillerCrash \/ Terminated => V("circle")' = NoVisit
  BY <1>1 DEF CutCircle, Crash, KillerCrash, Terminated, Died, V
<1>4. StartCircle \/ NextPodcast \/ ReadTargets \/ CutCircle \/ Crash \/ KillerCrash \/ Terminated
        => V("refresh")' = V("refresh")
  BY <1>1 DEF StartCircle, NextPodcast, ReadTargets, CutCircle, Crash, KillerCrash, Terminated, Died, V
<1>5. \A u \in Users, p \in Podcasts : Asked(u, p) =>
        V("refresh")' = [NoVisit EXCEPT !.pc = "target", !.p = p,
                             !.to = [ch \in {u} |-> cursor[u][p]], !.left = [o \in {u} |-> left[u]]]
  BY <1>1 DEF Asked, V
<1>6. Answered \/ RefreshDies => V("refresh")' = NoVisit
  BY <1>1 DEF Answered, RefreshDies, V
<1>7. (\E u \in Users, p \in Podcasts : Asked(u, p)) \/ ReadChannel \/ Answered \/ RefreshDies
        => V("circle")' = V("circle")
  BY <1>1 DEF Asked, ReadChannel, Answered, RefreshDies, V
<1> QED  BY <1>2, <1>3, <1>4, <1>5, <1>6, <1>7

-----------------------------------------------------------------------------
(* The order of a walk through a set of podcasts, and of a queue. *)

\* Of a queue, at most k have fewer than k before them.
LEMMA FirstOnes ==
    ASSUME NEW S, S \subseteq Nat, IsFiniteSet(S), NEW k \in Nat,
           NEW F \in SUBSET S, \A x \in F : Rank(S, x) < k
    PROVE  IsFiniteSet(F) /\ Cardinality(F) \in Nat /\ Cardinality(F) <= k
<1>1. [x \in F |-> Rank(S, x)] \in Injection(F, 0..(k - 1))
  BY RanksInject
<1>2. IsFiniteSet(0..(k - 1)) /\ Cardinality(0..(k - 1)) = k
  BY FS_Interval
<1>3. IsFiniteSet(F) /\ Cardinality(F) <= k
  BY <1>1, <1>2, FS_Injection
<1> QED  BY <1>3, FS_CardinalityType

LEMMA NextIsAPodcast ==
    ASSUME NEW n
    PROVE  NextPolled(n) \in Podcasts \cup {0}
<1> DEFINE from == {p \in Podcasts : p >= n /\ Polled(p)}
<1>1. CASE from = {}
  BY <1>1 DEF NextPolled
<1>2. CASE from # {}
  <2>1. from \in SUBSET Podcasts /\ from \subseteq Nat
    BY Numbers
  <2>2. IsFiniteSet(from)
    BY <2>1, Numbers, FS_Subset
  <2>3. \E p \in from : \A q \in from : p <= q
    <3> HIDE DEF from
    <3> QED  BY <1>2, <2>1, <2>2, Least
  <2>4. NextPolled(n) = CHOOSE p \in from : \A q \in from : p <= q
    BY <1>2 DEF NextPolled
  <2>5. NextPolled(n) \in from
    <3> HIDE DEF from
    <3> QED  BY <2>3, <2>4
  <2> QED  BY <2>1, <2>5
<1> QED  BY <1>1, <1>2

-----------------------------------------------------------------------------
(* Every step keeps the types. *)

\* What a step may do to the visits: one of them moves, or none.
LEMMA Movers ==
    ASSUME Shape, Next
    PROVE  /\ visit' = [a \in Actors |-> visit'[a]]
           /\ \/ \E a \in Actors : VisitStep(a) \/ FetchFails(a) \/ Fault(a)
              \/ StartCircle \/ NextPodcast \/ ReadTargets
              \/ CutCircle \/ Crash \/ KillerCrash \/ Terminated
              \/ \E u \in Users, p \in Podcasts : Asked(u, p)
              \/ ReadChannel \/ Answered \/ RefreshDies
              \/ UNCHANGED visit
<1>1. visit \in [Actors -> VisitSet]
  BY DEF Shape, VisitsOK
<1> DEFINE Same == visit' = [a \in Actors |-> visit'[a]]
<1>2. ASSUME NEW a \in Actors, VisitStep(a) \/ FetchFails(a) \/ Fault(a) PROVE Same
  BY <1>1, <1>2 DEF VisitStep, Fetch, NotModified, Persist, Enqueue, SetLatest, FreeDone, FetchFails,
                    Fault, FlagFree, MoveCursor, Go
<1>3. ASSUME \/ StartCircle \/ NextPodcast \/ ReadTargets
             \/ CutCircle \/ Crash \/ KillerCrash \/ Terminated
      PROVE  Same
  BY <1>1, <1>3 DEF StartCircle, NextPodcast, ReadTargets, CutCircle, Crash, KillerCrash, Terminated, Died
<1>4. ASSUME (\E u \in Users, p \in Podcasts : Asked(u, p)) \/ ReadChannel \/ Answered \/ RefreshDies
      PROVE  Same
  BY <1>1, <1>4 DEF Asked, ReadChannel, Answered, RefreshDies
<1>5. ASSUME UNCHANGED visit PROVE Same
  BY <1>1, <1>5
<1>6. ASSUME \/ Boot \/ EndCircle \/ Deploy \/ SupervisorStep
             \/ \E u \in Users : Charge(u) \/ \E p \in Podcasts : MarkSeen(u, p)
             \/ \E p \in Podcasts : Publish(p) \/ StrangerSubscribes(p)
      PROVE  UNCHANGED visit
  BY <1>6 DEF Boot, EndCircle, Deploy, SupervisorStep, Reap, FinishPass, Respawn, Leave, Start, Charge,
              MarkSeen, Publish, StrangerSubscribes
<1> QED  BY <1>2, <1>3, <1>4, <1>5, <1>6 DEF Next, CircleStep, Environment

LEMMA SoughtAreChats ==
    ASSUME Shape, NEW a \in Actors
    PROVE  /\ V(a) \in VisitSet /\ Sought(a) \subseteq Chats /\ DOMAIN V(a).free \subseteq Users
           /\ DOMAIN V(a).left \subseteq Users /\ V(a).todo \subseteq Users
           /\ \A ch \in Sought(a) : V(a).to[ch] \in Cursors /\ Bill(ch) \in DOMAIN V(a).left
           /\ \A u \in DOMAIN V(a).free : V(a).free[u] \in Cursors
           /\ \A u \in DOMAIN V(a).left : V(a).left[u] \in Int
           /\ V(a).pc # "off" => V(a).p \in Podcasts
<1>1. V(a) \in VisitSet
  BY DEF Shape, VisitsOK, V
<1>2. /\ V(a).to \in PartOf(Chats, Cursors) /\ V(a).free \in PartOf(Users, Cursors)
      /\ V(a).left \in PartOf(Users, Int)
  BY <1>1 DEF VisitSet
<1>3. /\ V(a).todo \subseteq Users /\ (V(a).pc # "off" => V(a).p \in Podcasts)
      /\ \A ch \in DOMAIN V(a).to : Bill(ch) \in DOMAIN V(a).left
  BY <1>1 DEF VisitSet, Shape, VisitsOK
<1> QED  BY <1>1, <1>2, <1>3, Parts DEF Sought

\* How many of some chats go by one person.
LEMMA Shares ==
    ASSUME NEW to \in SUBSET Chats, NEW u
    PROVE  LET mine == {ch \in to : Bill(ch) = u} IN IsFiniteSet(mine) /\ Cardinality(mine) \in Nat
<1>1. {ch \in to : Bill(ch) = u} \in SUBSET Chats
  OBVIOUS
<1>2. IsFiniteSet({ch \in to : Bill(ch) = u})
  BY <1>1, Numbers, FS_Subset
<1> QED  BY <1>2, FS_CardinalityType

LEMMA LeftAfterType ==
    ASSUME Shape, NEW a \in Actors, NEW to \in SUBSET Chats
    PROVE  LeftAfter(a, to) \in PartOf(Users, Int) /\ DOMAIN LeftAfter(a, to) = DOMAIN V(a).left
<1>1. DOMAIN V(a).left \subseteq Users /\ \A u \in DOMAIN V(a).left : V(a).left[u] \in Int
  BY SoughtAreChats
<1>2. \A u \in DOMAIN V(a).left : Cardinality({ch \in to : Bill(ch) = u}) \in Nat
  BY Shares
<1>3. DOMAIN LeftAfter(a, to) = DOMAIN V(a).left
  BY DEF LeftAfter
<1>4. \A u \in DOMAIN V(a).left : LeftAfter(a, to)[u] \in Int
  BY <1>1, <1>2 DEF LeftAfter
<1>5. LeftAfter(a, to) \in [DOMAIN V(a).left -> Int]
  <2>1. LeftAfter(a, to) = [u \in DOMAIN V(a).left |-> LeftAfter(a, to)[u]]
    BY DEF LeftAfter
  <2> QED  BY <1>4, <2>1
<1> QED  BY <1>1, <1>3, <1>5 DEF PartOf

\* An owner and all their channels draw from one budget.
LEMMA WithinBudget ==
    ASSUME Shape, NEW a \in Actors, NEW e, NEW u \in DOMAIN V(a).left, V(a).left[u] >= 0
    PROVE  LeftAfter(a, Receive(a, e))[u] >= 0
<1> DEFINE k == V(a).left[u]
           mine == {ch \in Wants(a, e) : Bill(ch) = u}
           got == {ch \in Receive(a, e) : Bill(ch) = u}
<1>1. k \in Nat
  BY SoughtAreChats
<1>2. CASE a = "refresh"
  BY <1>1, <1>2 DEF LeftAfter
<1>3. CASE a # "refresh"
  <2>1. mine \in SUBSET Chats
    BY SoughtAreChats DEF Wants
  <2>2. IsFiniteSet(mine) /\ mine \subseteq Nat
    BY <2>1, Numbers, FS_Subset
  <2>3. ASSUME NEW ch \in got PROVE ch \in mine /\ Rank(mine, ch) < k
    <3>1. ch \in Wants(a, e) /\ Bill(ch) = u
      BY DEF Receive
    <3>2. Cardinality({o \in Wants(a, e) : o < ch /\ Bill(o) = Bill(ch)}) < k
      BY <1>1, <1>3, <3>1 DEF Receive
    <3>3. {o \in Wants(a, e) : o < ch /\ Bill(o) = Bill(ch)} = Below(mine, ch)
      BY <3>1 DEF Below
    <3> QED  BY <3>1, <3>2, <3>3 DEF Rank
  <2>4. got \in SUBSET mine /\ \A ch \in got : Rank(mine, ch) < k
    BY <2>3
  <2>5. Cardinality(got) \in Nat /\ Cardinality(got) <= k
    <3> HIDE DEF got, mine, k
    <3> QED  BY <1>1, <2>2, <2>4, FirstOnes
  <2>6. LeftAfter(a, Receive(a, e))[u] = IF k < 0 THEN k ELSE k - Cardinality(got)
    BY <1>3 DEF LeftAfter
  <2> QED  BY <1>1, <2>5, <2>6
<1> QED  BY <1>2, <1>3

LEMMA RowsAreUsers ==
    ASSUME Shape, NEW a \in Actors
    PROVE  Rows(a) \subseteq Users
BY SoughtAreChats, Bills DEF Rows

LEMMA ReceiversAreSought ==
    ASSUME NEW a, NEW e
    PROVE  Receive(a, e) \subseteq Wants(a, e) /\ Wants(a, e) \subseteq Sought(a)
BY DEF Receive, Wants

LEMMA Fetched ==
    ASSUME Shape, NEW a \in Actors, Fetch(a)
    PROVE  /\ V(a)' \in VisitSet /\ (\A b \in Actors \ {a} : V(b)' = V(b))
           /\ V(a).pc' = "persist"
           /\ V(a).head' = feed[V(a).p]
           /\ V(a).p' = V(a).p /\ V(a).to' = V(a).to /\ V(a).free' = V(a).free
           /\ V(a).latest' = V(a).latest /\ V(a).etag' = V(a).etag /\ V(a).left' = V(a).left
           /\ V(a).next' = V(a).next /\ V(a).todo' = V(a).todo
<1>1. visit \in [Actors -> VisitSet] /\ V(a) \in VisitSet
  BY SoughtAreChats DEF Shape, VisitsOK
<1>2. feed[V(a).p] \in Cursors
  BY Numbers, SoughtAreChats DEF Fetch, At, Shape, CircleTypeOK
<1> QED  BY <1>1, <1>2 DEF Fetch, V, VisitSet, VisitPoints

LEMMA Believed ==
    ASSUME Shape, NEW a \in Actors, NotModified(a)
    PROVE  /\ V(a)' \in VisitSet /\ (\A b \in Actors \ {a} : V(b)' = V(b))
           /\ V(a).pc' = IF V(a).latest = Empty THEN "done" ELSE "free"
           /\ V(a).to' = << >>
           /\ V(a).head' = V(a).latest
           /\ V(a).p' = V(a).p /\ V(a).free' = V(a).free /\ V(a).latest' = V(a).latest
           /\ V(a).etag' = V(a).etag /\ V(a).left' = V(a).left /\ V(a).next' = V(a).next
           /\ V(a).todo' = V(a).todo
<1>1. visit \in [Actors -> VisitSet] /\ V(a) \in VisitSet
  BY SoughtAreChats DEF Shape, VisitsOK
<1> QED  BY <1>1, NothingIsPart DEF NotModified, V, VisitSet, VisitPoints

LEMMA Persisted ==
    ASSUME Shape, NEW a \in Actors, Persist(a)
    PROVE  /\ V(a)' \in VisitSet /\ (\A b \in Actors \ {a} : V(b)' = V(b))
           /\ V(a).pc' = "queue"
           /\ V(a).next' = 1
           /\ V(a).todo' = Rows(a)
           /\ V(a).p' = V(a).p /\ V(a).to' = V(a).to /\ V(a).free' = V(a).free
           /\ V(a).latest' = V(a).latest /\ V(a).etag' = V(a).etag /\ V(a).left' = V(a).left
           /\ V(a).head' = V(a).head
<1>1. visit \in [Actors -> VisitSet] /\ V(a) \in VisitSet
  BY SoughtAreChats DEF Shape, VisitsOK
<1> QED  BY <1>1, RowsAreUsers DEF Persist, V, VisitSet, VisitPoints

LEMMA Enqueued ==
    ASSUME Shape, NEW a \in Actors, Enqueue(a)
    PROVE  /\ V(a)' \in VisitSet /\ (\A b \in Actors \ {a} : V(b)' = V(b))
           /\ V(a).left' = LeftAfter(a, IF V(a).next \in Items(a) THEN Receive(a, V(a).next) ELSE {})
           /\ V(a).next' = V(a).next + 1
           /\ V(a).pc' = V(a).pc /\ V(a).p' = V(a).p /\ V(a).to' = V(a).to /\ V(a).free' = V(a).free
           /\ V(a).latest' = V(a).latest /\ V(a).etag' = V(a).etag /\ V(a).head' = V(a).head
           /\ V(a).todo' = V(a).todo
<1> DEFINE to == IF V(a).next \in Items(a) THEN Receive(a, V(a).next) ELSE {}
<1>1. visit \in [Actors -> VisitSet] /\ V(a) \in VisitSet
  BY SoughtAreChats DEF Shape, VisitsOK
<1>2. to \in SUBSET Chats
  BY ReceiversAreSought, SoughtAreChats
<1>3. LeftAfter(a, to) \in PartOf(Users, Int)
  BY <1>2, LeftAfterType
<1>4. visit' = [visit EXCEPT ![a].next = V(a).next + 1, ![a].left = LeftAfter(a, to)]
  BY DEF Enqueue
<1> HIDE DEF to
<1>5. PICK l \in PartOf(Users, Int), n \in Nat :
         /\ l = LeftAfter(a, to) /\ n = V(a).next + 1
         /\ visit' = [visit EXCEPT ![a].next = n, ![a].left = l]
  <2>1. V(a).next + 1 \in Nat
    BY <1>1 DEF VisitSet
  <2> QED  BY <1>3, <1>4, <2>1
<1>6. /\ V(a)' \in VisitSet /\ (\A b \in Actors \ {a} : V(b)' = V(b))
      /\ V(a).next' = n
      /\ V(a).left' = l
      /\ V(a).pc' = V(a).pc /\ V(a).p' = V(a).p /\ V(a).to' = V(a).to /\ V(a).free' = V(a).free
      /\ V(a).latest' = V(a).latest /\ V(a).etag' = V(a).etag /\ V(a).head' = V(a).head
      /\ V(a).todo' = V(a).todo
  BY <1>1, <1>5 DEF V, VisitSet
<1> QED  BY <1>5, <1>6 DEF to

LEMMA LatestSet ==
    ASSUME Shape, NEW a \in Actors, SetLatest(a)
    PROVE  /\ V(a)' \in VisitSet /\ (\A b \in Actors \ {a} : V(b)' = V(b))
           /\ V(a).pc' = "free"
           /\ V(a).p' = V(a).p /\ V(a).to' = V(a).to /\ V(a).free' = V(a).free
           /\ V(a).latest' = V(a).latest /\ V(a).etag' = V(a).etag /\ V(a).left' = V(a).left
           /\ V(a).head' = V(a).head /\ V(a).next' = V(a).next /\ V(a).todo' = V(a).todo
<1>1. visit \in [Actors -> VisitSet] /\ V(a) \in VisitSet
  BY SoughtAreChats DEF Shape, VisitsOK
<1> QED  BY <1>1 DEF SetLatest, Go, V, VisitSet, VisitPoints

LEMMA Flagged ==
    ASSUME Shape, NEW a \in Actors, NEW u \in Users, FlagFree(a, u)
    PROVE  /\ V(a)' \in VisitSet /\ (\A b \in Actors \ {a} : V(b)' = V(b))
           /\ V(a).free' = [o \in DOMAIN V(a).free \ {u} |-> V(a).free[o]]
           /\ V(a).pc' = V(a).pc /\ V(a).p' = V(a).p /\ V(a).to' = V(a).to
           /\ V(a).latest' = V(a).latest /\ V(a).etag' = V(a).etag /\ V(a).left' = V(a).left
           /\ V(a).head' = V(a).head /\ V(a).next' = V(a).next /\ V(a).todo' = V(a).todo
<1>1. visit \in [Actors -> VisitSet] /\ V(a) \in VisitSet
  BY SoughtAreChats DEF Shape, VisitsOK
<1>2. [o \in DOMAIN V(a).free \ {u} |-> V(a).free[o]] \in PartOf(Users, Cursors)
  <2>1. DOMAIN V(a).free \ {u} \subseteq Users
    BY SoughtAreChats
  <2>2. [o \in DOMAIN V(a).free \ {u} |-> V(a).free[o]] \in [DOMAIN V(a).free \ {u} -> Cursors]
    BY SoughtAreChats
  <2> QED  BY <2>1, <2>2 DEF PartOf
<1> QED  BY <1>1, <1>2 DEF FlagFree, V, VisitSet

LEMMA FreeWereTold ==
    ASSUME Shape, NEW a \in Actors, FreeDone(a)
    PROVE  /\ V(a)' \in VisitSet /\ (\A b \in Actors \ {a} : V(b)' = V(b))
           /\ V(a).pc' = IF V(a).todo = {} THEN "done" ELSE "cursors"
           /\ V(a).p' = V(a).p /\ V(a).to' = V(a).to /\ V(a).free' = V(a).free
           /\ V(a).latest' = V(a).latest /\ V(a).etag' = V(a).etag /\ V(a).left' = V(a).left
           /\ V(a).head' = V(a).head /\ V(a).next' = V(a).next /\ V(a).todo' = V(a).todo
<1>1. visit \in [Actors -> VisitSet] /\ V(a) \in VisitSet
  BY SoughtAreChats DEF Shape, VisitsOK
<1> QED  BY <1>1 DEF FreeDone, Go, V, VisitSet, VisitPoints

LEMMA Moved ==
    ASSUME Shape, NEW a \in Actors, NEW u \in Users, MoveCursor(a, u)
    PROVE  /\ V(a)' \in VisitSet /\ (\A b \in Actors \ {a} : V(b)' = V(b))
           /\ V(a).pc' = IF V(a).todo = {u} THEN "done" ELSE "cursors"
           /\ V(a).todo' = V(a).todo \ {u}
           /\ V(a).p' = V(a).p /\ V(a).to' = V(a).to /\ V(a).free' = V(a).free
           /\ V(a).latest' = V(a).latest /\ V(a).etag' = V(a).etag /\ V(a).left' = V(a).left
           /\ V(a).head' = V(a).head /\ V(a).next' = V(a).next
<1>1. visit \in [Actors -> VisitSet] /\ V(a) \in VisitSet
  BY SoughtAreChats DEF Shape, VisitsOK
<1> QED  BY <1>1 DEF MoveCursor, V, VisitSet, VisitPoints

LEMMA Stopped ==
    ASSUME Shape, NEW a \in Actors, FetchFails(a) \/ Fault(a)
    PROVE  /\ V(a)' \in VisitSet /\ (\A b \in Actors \ {a} : V(b)' = V(b))
           /\ V(a).pc' = "done"
           /\ V(a).p' = V(a).p /\ V(a).to' = V(a).to /\ V(a).free' = V(a).free
           /\ V(a).latest' = V(a).latest /\ V(a).etag' = V(a).etag /\ V(a).left' = V(a).left
           /\ V(a).head' = V(a).head /\ V(a).next' = V(a).next /\ V(a).todo' = V(a).todo
<1>1. visit \in [Actors -> VisitSet] /\ V(a) \in VisitSet
  BY SoughtAreChats DEF Shape, VisitsOK
<1> QED  BY <1>1 DEF FetchFails, Fault, Go, V, VisitSet, VisitPoints

\* The fields of the circle's visit when it has read the connections.
LEMMA TargetsRead ==
    ASSUME Shape, ReadTargets, NEW p, p = V("circle").p
    PROVE  /\ V("circle")' \in VisitSet /\ V("refresh")' = V("refresh") /\ p \in Podcasts
           /\ V("circle").pc' = IF Targets(p) \cup FreeOf(p) = {} THEN "done" ELSE "fetch"
           /\ DOMAIN V("circle").to' = Targets(p) /\ DOMAIN V("circle").free' = FreeOf(p)
           /\ \A ch \in Targets(p) : V("circle").to'[ch] = cursor[Bill(ch)][p]
           /\ \A u \in FreeOf(p) : V("circle").free'[u] = cursor[u][p]
           /\ \A ch \in Targets(p) : Bill(ch) \in DOMAIN V("circle").left'
           /\ \A u \in DOMAIN V("circle").left' : u \in Users /\ V("circle").left'[u] = left[u]
           /\ V("circle").p' = p /\ V("circle").latest' = V("circle").latest
           /\ V("circle").etag' = V("circle").etag /\ V("circle").head' = V("circle").head
           /\ V("circle").next' = V("circle").next /\ V("circle").todo' = V("circle").todo
<1>1. visit \in [Actors -> VisitSet] /\ "circle" \in Actors /\ "refresh" \in Actors
  BY DEF Shape, VisitsOK, Actors
<1>2. p \in Podcasts /\ cursor \in [Users -> [Podcasts -> Cursors]] /\ left \in [Users -> Nat \cup {-1}]
  BY <1>1, SoughtAreChats DEF ReadTargets, At, Shape, CircleTypeOK
<1>3. Targets(p) \subseteq Chats /\ FreeOf(p) \subseteq Users
  BY DEF Targets, FreeOf, Listeners, Reposts, Chats
<1>4. {Bill(ch) : ch \in Targets(p)} \subseteq Users
  BY <1>3, Bills
<1> DEFINE to == [ch \in Targets(p) |-> cursor[Bill(ch)][p]]
           free == [u \in FreeOf(p) |-> cursor[u][p]]
           l == [u \in {Bill(ch) : ch \in Targets(p)} |-> left[u]]
           pc == IF Targets(p) \cup FreeOf(p) = {} THEN "done" ELSE "fetch"
<1>5. to \in PartOf(Chats, Cursors)
  <2>1. to \in [Targets(p) -> Cursors]
    BY <1>2, <1>3, Bills
  <2> QED  BY <1>3, <2>1 DEF PartOf
<1>6. free \in PartOf(Users, Cursors)
  <2>1. free \in [FreeOf(p) -> Cursors]
    BY <1>2, <1>3
  <2> QED  BY <1>3, <2>1 DEF PartOf
<1>7. l \in PartOf(Users, Int)
  <2>1. l \in [{Bill(ch) : ch \in Targets(p)} -> Int]
    BY <1>2, <1>4
  <2> QED  BY <1>4, <2>1 DEF PartOf
<1>8. visit' = [visit EXCEPT !["circle"] = [@ EXCEPT !.pc = pc, !.to = to, !.free = free, !.left = l]]
  BY DEF ReadTargets
<1>9. pc \in VisitPoints
  BY DEF VisitPoints
<1> HIDE DEF to, free, l, pc
<1>10. /\ V("circle")' \in VisitSet /\ V("refresh")' = V("refresh")
       /\ V("circle").pc' = pc /\ V("circle").to' = to /\ V("circle").free' = free /\ V("circle").left' = l
       /\ V("circle").p' = V("circle").p /\ V("circle").latest' = V("circle").latest
       /\ V("circle").etag' = V("circle").etag /\ V("circle").head' = V("circle").head
       /\ V("circle").next' = V("circle").next /\ V("circle").todo' = V("circle").todo
  <2> DEFINE v == V("circle")
             r == [v EXCEPT !.pc = pc, !.to = to, !.free = free, !.left = l]
  <2>1. visit' = [visit EXCEPT !["circle"] = r] /\ v \in VisitSet
    BY <1>1, <1>8 DEF V
  <2> HIDE DEF v
  <2>2. r \in VisitSet
    BY <1>5, <1>6, <1>7, <1>9, <2>1 DEF VisitSet
  <2>3. /\ r.pc = pc /\ r.to = to /\ r.free = free /\ r.left = l /\ r.p = v.p /\ r.latest = v.latest
        /\ r.etag = v.etag /\ r.head = v.head /\ r.next = v.next /\ r.todo = v.todo
    BY <2>1 DEF VisitSet
  <2> HIDE DEF r
  <2>4. V("circle")' = r /\ V("refresh")' = V("refresh")
    BY <1>1, <2>1 DEF V
  <2> QED  BY <2>2, <2>3, <2>4 DEF v
<1>11. /\ \A ch \in Targets(p) : Bill(ch) \in DOMAIN l
       /\ \A u \in DOMAIN l : u \in Users /\ l[u] = left[u]
  BY <1>4 DEF l
<1>12. /\ DOMAIN to = Targets(p) /\ \A ch \in Targets(p) : to[ch] = cursor[Bill(ch)][p]
       /\ DOMAIN free = FreeOf(p) /\ \A u \in FreeOf(p) : free[u] = cursor[u][p]
  BY DEF to, free
<1> QED  BY <1>2, <1>10, <1>11, <1>12 DEF pc

\* The circle faces the next podcast, or nothing.
LEMMA Faced ==
    ASSUME Shape, StartCircle \/ NextPodcast
    PROVE  /\ V("circle")' \in VisitSet /\ V("refresh")' = V("refresh")
           /\ V("circle").pc' \in {"off", "target"} /\ (V("circle").pc' = "off" <=> V("circle").p' = 0)
           /\ V("circle").todo' = {} /\ V("circle").to' = << >> /\ V("circle").free' = << >>
           /\ V("circle").left' = << >>
<1>1. PICK n \in Podcasts \cup {0} : V("circle")' = Facing(n)
  BY CircleEffects, NextIsAPodcast
<1>2. Facing(n) \in VisitSet /\ Facing(n).p = n /\ Facing(n).pc \in {"off", "target"}
      /\ (Facing(n).pc = "off" <=> n = 0)
      /\ Facing(n).todo = {} /\ Facing(n).to = << >> /\ Facing(n).free = << >> /\ Facing(n).left = << >>
  BY FacingTypes
<1> QED  BY <1>1, <1>2, CircleEffects DEF V

LEMMA VisitGone ==
    ASSUME Shape,
           NEW a \in Actors,
           \/ a = "circle" /\ (CutCircle \/ Crash \/ KillerCrash \/ Terminated)
           \/ a = "refresh" /\ (Answered \/ RefreshDies)
    PROVE  V(a)' = NoVisit /\ \A b \in Actors \ {a} : V(b)' = V(b)
BY CircleEffects DEF Actors

LEMMA WasAsked ==
    ASSUME Shape, NEW u \in Users, NEW p \in Podcasts, Asked(u, p)
    PROVE  /\ V("refresh")' \in VisitSet /\ V("circle")' = V("circle")
           /\ V("refresh").pc' = "target" /\ V("refresh").p' = p /\ V("refresh").todo' = {}
           /\ V("refresh").to' = [ch \in {u} |-> cursor[u][p]] /\ V("refresh").free' = << >>
           /\ V("refresh").left' = [o \in {u} |-> left[u]]
<1> DEFINE to == [ch \in {u} |-> cursor[u][p]]
           l == [o \in {u} |-> left[u]]
           w == [NoVisit EXCEPT !.pc = "target", !.p = p, !.to = to, !.left = l]
<1>1. to \in PartOf(Chats, Cursors)
  <2>1. to \in [{u} -> Cursors] /\ {u} \subseteq Chats
    BY PersonBills DEF Shape, CircleTypeOK
  <2> QED  BY <2>1 DEF PartOf
<1>2. l \in PartOf(Users, Int)
  <2>1. l \in [{u} -> Int] /\ {u} \subseteq Users
    BY DEF Shape, CircleTypeOK
  <2> QED  BY <2>1 DEF PartOf
<1>3. V("refresh")' = w /\ V("circle")' = V("circle")
  BY CircleEffects
<1> HIDE DEF to, l
<1>4. /\ w \in VisitSet /\ w.pc = "target" /\ w.p = p /\ w.to = to /\ w.free = << >>
      /\ w.left = l /\ w.todo = {}
  BY <1>1, <1>2, AskedTypes
<1> HIDE DEF w
<1> QED  BY <1>3, <1>4 DEF V, to, l

LEMMA ChannelRead ==
    ASSUME Shape, ReadChannel
    PROVE  /\ V("refresh")' \in VisitSet /\ V("circle")' = V("circle") /\ V("refresh").p \in Podcasts
           /\ V("refresh").latest' = latest[V("refresh").p] /\ V("refresh").etag' = etag[V("refresh").p]
           /\ V("refresh").pc' = "fetch" /\ V("refresh").p' = V("refresh").p
           /\ V("refresh").to' = V("refresh").to /\ V("refresh").free' = V("refresh").free
           /\ V("refresh").left' = V("refresh").left /\ V("refresh").head' = V("refresh").head
           /\ V("refresh").next' = V("refresh").next /\ V("refresh").todo' = V("refresh").todo
<1>1. visit \in [Actors -> VisitSet] /\ "circle" \in Actors /\ "refresh" \in Actors
  BY DEF Shape, VisitsOK, Actors
<1>2. V("refresh").p \in Podcasts
  BY <1>1, SoughtAreChats DEF ReadChannel, At
<1>3. latest[V("refresh").p] \in Cursors /\ etag[V("refresh").p] \in Cursors
  BY <1>2 DEF Shape, CircleTypeOK
<1> DEFINE v == V("refresh")
           r == [v EXCEPT !.pc = "fetch", !.latest = latest[v.p], !.etag = etag[v.p]]
<1>4. visit' = [visit EXCEPT !["refresh"] = r]
  BY DEF ReadChannel, V
<1>5. v \in VisitSet
  BY <1>1 DEF V
<1> HIDE DEF v
<1>6. r \in VisitSet
  BY <1>2, <1>3, <1>5 DEF VisitSet, VisitPoints, v
<1>7. /\ r.latest = latest[v.p] /\ r.etag = etag[v.p] /\ r.pc = "fetch" /\ r.p = v.p /\ r.to = v.to
      /\ r.free = v.free /\ r.left = v.left /\ r.head = v.head /\ r.next = v.next /\ r.todo = v.todo
  BY <1>5 DEF VisitSet
<1> HIDE DEF r
<1>8. V("refresh")' = r /\ V("circle")' = V("circle")
  BY <1>1, <1>4 DEF V
<1> QED  BY <1>2, <1>6, <1>7, <1>8 DEF v

LEMMA StepsOfAVisit ==
    ASSUME Shape, NEW a \in Actors, VisitStep(a) \/ FetchFails(a) \/ Fault(a)
    PROVE  /\ V(a)' \in VisitSet /\ V(a).pc # "off" /\ V(a).pc' # "off" /\ V(a).p' = V(a).p
           /\ V(a).to' \in {V(a).to, << >>} /\ DOMAIN V(a).left' = DOMAIN V(a).left
           /\ \A b \in Actors \ {a} : V(b)' = V(b)
<1> DEFINE Goal == /\ V(a)' \in VisitSet /\ V(a).pc # "off" /\ V(a).pc' # "off" /\ V(a).p' = V(a).p
                   /\ V(a).to' \in {V(a).to, << >>} /\ DOMAIN V(a).left' = DOMAIN V(a).left
                   /\ \A b \in Actors \ {a} : V(b)' = V(b)
<1>1. ASSUME Fetch(a) PROVE Goal
  BY <1>1, Fetched DEF Fetch, At
<1>2. ASSUME NotModified(a) PROVE Goal
  BY <1>2, Believed DEF NotModified, At
<1>3. ASSUME Persist(a) PROVE Goal
  BY <1>3, Persisted DEF Persist, At
<1>4. ASSUME Enqueue(a) PROVE Goal
  <2> DEFINE to == IF V(a).next \in Items(a) THEN Receive(a, V(a).next) ELSE {}
  <2>1. to \in SUBSET Chats
    BY ReceiversAreSought, SoughtAreChats
  <2>2. DOMAIN LeftAfter(a, to) = DOMAIN V(a).left
    BY <2>1, LeftAfterType
  <2>3. V(a).left' = LeftAfter(a, to)
    BY <1>4, Enqueued
  <2> HIDE DEF to
  <2> QED  BY <1>4, <2>2, <2>3, Enqueued DEF Enqueue, At
<1>5. ASSUME SetLatest(a) PROVE Goal
  BY <1>5, LatestSet DEF SetLatest, At
<1>6. ASSUME NEW u \in Users, FlagFree(a, u) PROVE Goal
  BY <1>6, Flagged DEF FlagFree, At
<1>7. ASSUME FreeDone(a) PROVE Goal
  BY <1>7, FreeWereTold DEF FreeDone, At
<1>8. ASSUME NEW u \in Users, MoveCursor(a, u) PROVE Goal
  BY <1>8, Moved DEF MoveCursor, At
<1>9. ASSUME FetchFails(a) \/ Fault(a) PROVE Goal
  BY <1>9, Stopped DEF FetchFails, Fault, At
<1> QED  BY <1>1, <1>2, <1>3, <1>4, <1>5, <1>6, <1>7, <1>8, <1>9 DEF VisitStep

LEMMA VisitsStep ==
    ASSUME Shape, Next
    PROVE  VisitsOK'
<1> DEFINE Fits(a) == /\ V(a)' \in VisitSet
                      /\ V(a).pc' = "off" <=> V(a).p' = 0
                      /\ \A ch \in DOMAIN V(a).to' : Bill(ch) \in DOMAIN V(a).left'
<1>1. ASSUME NEW b \in Actors, V(b)' = V(b) PROVE Fits(b)
  BY <1>1 DEF Shape, VisitsOK, V
<1>2. ASSUME NEW b \in Actors, V(b)' = NoVisit PROVE Fits(b)
  BY <1>2, NoVisitType DEF V
<1>3. ASSUME NEW a \in Actors, VisitStep(a) \/ FetchFails(a) \/ Fault(a) PROVE \A b \in Actors : Fits(b)
  <2>1. /\ V(a)' \in VisitSet /\ V(a).pc # "off" /\ V(a).pc' # "off" /\ V(a).p' = V(a).p
        /\ V(a).to' \in {V(a).to, << >>} /\ DOMAIN V(a).left' = DOMAIN V(a).left
        /\ \A b \in Actors \ {a} : V(b)' = V(b)
    BY <1>3, StepsOfAVisit
  <2>2. (V(a).pc = "off" <=> V(a).p = 0) /\ \A ch \in DOMAIN V(a).to : Bill(ch) \in DOMAIN V(a).left
    BY DEF Shape, VisitsOK
  <2>3. Fits(a)
    BY <2>1, <2>2, NoVisitType
  <2> HIDE DEF Fits
  <2> QED  BY <1>1, <2>1, <2>3
<1>4. ASSUME StartCircle \/ NextPodcast PROVE \A b \in Actors : Fits(b)
  <2>1. Fits("circle")
    BY <1>4, Faced, NoVisitType
  <2>2. V("refresh")' = V("refresh")
    BY <1>4, Faced
  <2> HIDE DEF Fits
  <2> QED  BY <1>1, <2>1, <2>2 DEF Actors
<1>5. ASSUME ReadTargets PROVE \A b \in Actors : Fits(b)
  <2>1. PICK p : p = V("circle").p
    OBVIOUS
  <2>2. /\ V("circle")' \in VisitSet /\ V("refresh")' = V("refresh") /\ p \in Podcasts
        /\ V("circle").pc' \in {"done", "fetch"} /\ V("circle").p' = p
        /\ DOMAIN V("circle").to' = Targets(p)
        /\ \A ch \in Targets(p) : Bill(ch) \in DOMAIN V("circle").left'
    BY <1>5, <2>1, TargetsRead
  <2>3. \A ch \in DOMAIN V("circle").to' : Bill(ch) \in DOMAIN V("circle").left'
    BY <2>2
  <2>4. Fits("circle")
    BY <2>2, <2>3, Numbers
  <2> HIDE DEF Fits
  <2> QED  BY <1>1, <2>2, <2>4 DEF Actors
<1>6. ASSUME CutCircle \/ Crash \/ KillerCrash \/ Terminated PROVE \A b \in Actors : Fits(b)
  <2>1. V("circle")' = NoVisit /\ V("refresh")' = V("refresh")
    BY <1>6, VisitGone DEF Actors
  <2> HIDE DEF Fits
  <2> QED  BY <1>1, <1>2, <2>1 DEF Actors
<1>7. ASSUME NEW u \in Users, NEW p \in Podcasts, Asked(u, p) PROVE \A b \in Actors : Fits(b)
  <2>1. /\ V("refresh")' \in VisitSet /\ V("circle")' = V("circle")
        /\ V("refresh").pc' = "target" /\ V("refresh").p' = p
        /\ V("refresh").to' = [ch \in {u} |-> cursor[u][p]]
        /\ V("refresh").left' = [o \in {u} |-> left[u]]
    BY <1>7, WasAsked
  <2>2. DOMAIN V("refresh").to' = {u} /\ DOMAIN V("refresh").left' = {u} /\ p # 0
    BY <2>1, Numbers
  <2>3. Fits("refresh")
    BY <2>1, <2>2, PersonBills
  <2> HIDE DEF Fits
  <2> QED  BY <1>1, <2>1, <2>3 DEF Actors
<1>8. ASSUME ReadChannel PROVE \A b \in Actors : Fits(b)
  <2>1. (V("refresh").pc = "off" <=> V("refresh").p = 0)
        /\ \A ch \in DOMAIN V("refresh").to : Bill(ch) \in DOMAIN V("refresh").left
    BY DEF Shape, VisitsOK, Actors
  <2>2. Fits("refresh")
    BY <1>8, <2>1, ChannelRead, Numbers
  <2>3. V("circle")' = V("circle")
    BY <1>8, ChannelRead
  <2> HIDE DEF Fits
  <2> QED  BY <1>1, <2>2, <2>3 DEF Actors
<1>9. ASSUME Answered \/ RefreshDies PROVE \A b \in Actors : Fits(b)
  <2>1. V("refresh")' = NoVisit /\ V("circle")' = V("circle")
    BY <1>9, VisitGone DEF Actors
  <2> HIDE DEF Fits
  <2> QED  BY <1>1, <1>2, <2>1 DEF Actors
<1>10. ASSUME UNCHANGED visit PROVE \A b \in Actors : Fits(b)
  <2>1. \A b \in Actors : V(b)' = V(b)
    BY <1>10 DEF V
  <2> HIDE DEF Fits
  <2> QED  BY <1>1, <2>1
<1>11. \A b \in Actors : Fits(b)
  <2> HIDE DEF Fits
  <2> QED  BY <1>3, <1>4, <1>5, <1>6, <1>7, <1>8, <1>9, <1>10, Movers
<1>12. visit' \in [Actors -> VisitSet]
  <2>1. visit' = [a \in Actors |-> visit'[a]]
    BY Movers
  <2> QED  BY <1>11, <2>1 DEF V
<1> QED  BY <1>11, <1>12 DEF VisitsOK, V

\* A visit that is over, or has a podcast before it.
Fresh(v) == v.pc \in {"off", "target"} /\ v.to = << >> /\ v.free = << >> /\ v.left = << >> /\ v.todo = {}

\* What a step makes of one visit.
LEMMA NewVisits ==
    ASSUME Shape, Next, NEW b \in Actors
    PROVE  \/ V(b)' = V(b)
           \/ VisitStep(b) \/ FetchFails(b) \/ Fault(b)
           \/ Fresh(V(b)') /\ V(b)' \in VisitSet
           \/ b = "circle" /\ ReadTargets
           \/ b = "refresh" /\ \E u \in Users, p \in Podcasts : Asked(u, p)
           \/ b = "refresh" /\ ReadChannel
<1> DEFINE Goal == \/ V(b)' = V(b)
                   \/ VisitStep(b) \/ FetchFails(b) \/ Fault(b)
                   \/ Fresh(V(b)') /\ V(b)' \in VisitSet
                   \/ b = "circle" /\ ReadTargets
                   \/ b = "refresh" /\ \E u \in Users, p \in Podcasts : Asked(u, p)
                   \/ b = "refresh" /\ ReadChannel
<1>1. ASSUME NEW a \in Actors, VisitStep(a) \/ FetchFails(a) \/ Fault(a) PROVE Goal
  BY <1>1, StepsOfAVisit
<1>2. ASSUME StartCircle \/ NextPodcast PROVE Goal
  <2>1. Fresh(V("circle")') /\ V("circle")' \in VisitSet /\ V("refresh")' = V("refresh")
    BY <1>2, Faced DEF Fresh
  <2> QED  BY <2>1 DEF Actors
<1>3. ASSUME CutCircle \/ Crash \/ KillerCrash \/ Terminated \/ Answered \/ RefreshDies PROVE Goal
  <2>1. PICK a \in Actors : V(a)' = NoVisit /\ \A o \in Actors \ {a} : V(o)' = V(o)
    BY <1>3, VisitGone DEF Actors
  <2>2. Fresh(V(a)') /\ V(a)' \in VisitSet
    BY <2>1, NoVisitType DEF Fresh
  <2> QED  BY <2>1, <2>2
<1>4. ASSUME ReadTargets PROVE Goal
  BY <1>4, TargetsRead DEF Actors
<1>5. ASSUME NEW u \in Users, NEW p \in Podcasts, Asked(u, p) PROVE Goal
  BY <1>5, WasAsked DEF Actors
<1>6. ASSUME ReadChannel PROVE Goal
  BY <1>6, ChannelRead DEF Actors
<1>7. ASSUME UNCHANGED visit PROVE Goal
  BY <1>7 DEF V
<1>8. Goal
  <2> HIDE DEF Goal
  <2> QED  BY <1>1, <1>2, <1>3, <1>4, <1>5, <1>6, <1>7, Movers
<1> QED  BY <1>8

\* Which steps change a table.
LEMMA Frames ==
    ASSUME Next
    PROVE  /\ feed' = feed \/ \E p \in Podcasts : Publish(p)
           /\ latest' = latest \/ (\E a \in Actors : SetLatest(a)) \/ \E p \in Podcasts : StrangerSubscribes(p)
           /\ cursor' = cursor \/ (\E a \in Actors, u \in Users : FlagFree(a, u) \/ MoveCursor(a, u))
                               \/ \E u \in Users, p \in Podcasts : MarkSeen(u, p)
           /\ left' = left \/ \E u \in Users : Charge(u)
           /\ queued' = queued \/ \E a \in Actors : Enqueue(a)
           /\ etag' = etag \/ \E a \in Actors : Persist(a)
           /\ refetched' = refetched \/ \E a \in Actors : Fetch(a)
           /\ flagged' = flagged \/ \E a \in Actors, u \in Users : FlagFree(a, u)
           /\ mixed \subseteq mixed'
<1> USE DEF tables, outputs, process, group
<1> DEFINE Goal ==
           /\ feed' = feed \/ \E p \in Podcasts : Publish(p)
           /\ latest' = latest \/ (\E a \in Actors : SetLatest(a)) \/ \E p \in Podcasts : StrangerSubscribes(p)
           /\ cursor' = cursor \/ (\E a \in Actors, u \in Users : FlagFree(a, u) \/ MoveCursor(a, u))
                               \/ \E u \in Users, p \in Podcasts : MarkSeen(u, p)
           /\ left' = left \/ \E u \in Users : Charge(u)
           /\ queued' = queued \/ \E a \in Actors : Enqueue(a)
           /\ etag' = etag \/ \E a \in Actors : Persist(a)
           /\ refetched' = refetched \/ \E a \in Actors : Fetch(a)
           /\ flagged' = flagged \/ \E a \in Actors, u \in Users : FlagFree(a, u)
           /\ mixed \subseteq mixed'
<1>1. ASSUME NEW a \in Actors, Fetch(a) PROVE Goal
  BY <1>1 DEF Fetch
<1>2. ASSUME NEW a \in Actors, NotModified(a) PROVE Goal
  BY <1>2 DEF NotModified
<1>3. ASSUME NEW a \in Actors, Persist(a) PROVE Goal
  BY <1>3 DEF Persist
<1>4. ASSUME NEW a \in Actors, Enqueue(a) PROVE Goal
  BY <1>4 DEF Enqueue
<1>5. ASSUME NEW a \in Actors, SetLatest(a) PROVE Goal
  BY <1>5 DEF SetLatest
<1>6. ASSUME NEW a \in Actors, FreeDone(a) PROVE Goal
  BY <1>6 DEF FreeDone
<1>7. ASSUME NEW a \in Actors, NEW u \in Users, FlagFree(a, u) PROVE Goal
  BY <1>7 DEF FlagFree
<1>8. ASSUME NEW a \in Actors, NEW u \in Users, MoveCursor(a, u) PROVE Goal
  BY <1>8 DEF MoveCursor
<1>9. ASSUME NEW a \in Actors, FetchFails(a) \/ Fault(a) PROVE Goal
  BY <1>9 DEF FetchFails, Fault
<1>10. ASSUME CircleStep \/ CutCircle PROVE Goal
  BY <1>10 DEF CircleStep, CutCircle, Boot, StartCircle, ReadTargets, NextPodcast, EndCircle
<1>11. ASSUME ReadChannel \/ Answered \/ RefreshDies PROVE Goal
  BY <1>11 DEF ReadChannel, Answered, RefreshDies
<1>12. ASSUME Crash \/ KillerCrash \/ Terminated \/ Deploy PROVE Goal
  BY <1>12 DEF Crash, KillerCrash, Terminated, Deploy
<1>13. ASSUME SupervisorStep PROVE Goal
  BY <1>13 DEF SupervisorStep, Reap, FinishPass, Respawn, Leave, Start
<1>14. ASSUME NEW p \in Podcasts, Publish(p) \/ StrangerSubscribes(p) PROVE Goal
  BY <1>14 DEF Publish, StrangerSubscribes
<1>15. ASSUME NEW u \in Users, Charge(u) PROVE Goal
  BY <1>15 DEF Charge
<1>16. ASSUME NEW u \in Users, NEW p \in Podcasts, MarkSeen(u, p) \/ Asked(u, p) PROVE Goal
  BY <1>16 DEF MarkSeen, Asked
<1>17. Goal
  <2> HIDE DEF Goal
  <2> QED  BY <1>1, <1>2, <1>3, <1>4, <1>5, <1>6, <1>7, <1>8, <1>9, <1>10, <1>11, <1>12, <1>13, <1>14,
             <1>15, <1>16 DEF Next, VisitStep, Environment
<1> QED  BY <1>17

\* What the processes and the supervisor keep, in every step.
LEMMA ProcessTypes ==
    ASSUME Shape, Next
    PROVE  /\ kv' \in [last : Podcasts \cup {1}, restarted : BOOLEAN, stop : BOOLEAN]
           /\ crashFile' \in BOOLEAN /\ clean' \in BOOLEAN /\ stopping' \in BOOLEAN
           /\ proc' \in {"down", "boot", "top", "walk"}
           /\ sup' \in {"idle", "pass", "backoff", "off"}
<1> DEFINE Goal ==
           /\ kv' \in [last : Podcasts \cup {1}, restarted : BOOLEAN, stop : BOOLEAN]
           /\ crashFile' \in BOOLEAN /\ clean' \in BOOLEAN /\ stopping' \in BOOLEAN
           /\ proc' \in {"down", "boot", "top", "walk"}
           /\ sup' \in {"idle", "pass", "backoff", "off"}
<1> USE DEF tables, outputs, process, group
<1>1. /\ kv \in [last : Podcasts \cup {1}, restarted : BOOLEAN, stop : BOOLEAN]
      /\ crashFile \in BOOLEAN /\ clean \in BOOLEAN /\ stopping \in BOOLEAN
      /\ proc \in {"down", "boot", "top", "walk"}
      /\ sup \in {"idle", "pass", "backoff", "off"}
  BY DEF Shape, CircleTypeOK
<1>2. ASSUME UNCHANGED <<process, group>> PROVE Goal
  BY <1>1, <1>2
<1>3. ASSUME NEW a \in Actors, VisitStep(a) \/ FetchFails(a) \/ Fault(a)
      PROVE  UNCHANGED <<process, group>>
  BY <1>3 DEF VisitStep, Fetch, NotModified, Persist, Enqueue, SetLatest, FreeDone, FetchFails, Fault,
              FlagFree, MoveCursor
<1>4. ASSUME \/ NextPodcast \/ ReadChannel \/ Answered \/ RefreshDies \/ Environment
      PROVE  UNCHANGED <<process, group>>
  BY <1>4 DEF NextPodcast, ReadChannel, Answered, RefreshDies, Environment, Publish, StrangerSubscribes,
              Charge, MarkSeen, Asked
<1>5. ASSUME Boot \/ StartCircle \/ EndCircle \/ CutCircle PROVE Goal
  BY <1>1, <1>5 DEF Boot, StartCircle, EndCircle, CutCircle
<1>6. ASSUME ReadTargets PROVE Goal
  <2>1. V("circle").p \in Podcasts
    BY <1>6, SoughtAreChats DEF ReadTargets, At, Actors
  <2> QED  BY <1>1, <1>6, <2>1 DEF ReadTargets
<1>7. ASSUME Crash \/ KillerCrash \/ Terminated \/ Deploy PROVE Goal
  BY <1>1, <1>7 DEF Crash, KillerCrash, Terminated, Deploy, Died
<1>8. ASSUME SupervisorStep PROVE Goal
  BY <1>1, <1>8 DEF SupervisorStep, Reap, FinishPass, Respawn, Leave, Start
<1>9. Goal
  <2> HIDE DEF Goal
  <2> QED  BY <1>2, <1>3, <1>4, <1>5, <1>6, <1>7, <1>8 DEF Next, CircleStep
<1> QED  BY <1>9

LEMMA TableTypes ==
    ASSUME Shape, Next
    PROVE  /\ feed' \in [Podcasts -> 0..MaxEp] /\ latest' \in [Podcasts -> Cursors]
           /\ etag' \in [Podcasts -> Cursors] /\ refetched' \in [Podcasts -> Cursors]
           /\ cursor' \in [Users -> [Podcasts -> Cursors]]
           /\ left' \in [Users -> Nat \cup {-1}]
           /\ queued' \in [Chats -> [Podcasts -> [Episodes -> 0..2]]]
           /\ flagged' \in [Users -> [Podcasts -> 0..MaxEp]]
<1>1. /\ feed \in [Podcasts -> 0..MaxEp] /\ latest \in [Podcasts -> Cursors]
      /\ etag \in [Podcasts -> Cursors] /\ refetched \in [Podcasts -> Cursors]
      /\ cursor \in [Users -> [Podcasts -> Cursors]]
      /\ left \in [Users -> Nat \cup {-1}]
      /\ queued \in [Chats -> [Podcasts -> [Episodes -> 0..2]]]
      /\ flagged \in [Users -> [Podcasts -> 0..MaxEp]]
  BY DEF Shape, CircleTypeOK
<1>2. \A a \in Actors : /\ V(a).head \in Cursors /\ V(a).next \in Nat
                        /\ V(a).pc # "off" => V(a).p \in Podcasts
                        /\ \A u \in DOMAIN V(a).free : V(a).free[u] \in Cursors
  BY SoughtAreChats DEF VisitSet
<1>3. feed' \in [Podcasts -> 0..MaxEp]
  <2>1. ASSUME NEW p \in Podcasts, Publish(p) PROVE feed' \in [Podcasts -> 0..MaxEp]
    <3>1. feed[p] + 1 \in 0..MaxEp
      <4>1. feed[p] \in Nat /\ News[p] \in Nat /\ News[p] <= MaxEp /\ MaxEp \in Nat
        BY <1>1, Numbers
      <4> QED  BY <2>1, <4>1 DEF Publish
    <3> QED  BY <1>1, <2>1, <3>1 DEF Publish
  <2> QED  BY <1>1, <2>1, Frames
<1>4. latest' \in [Podcasts -> Cursors]
  <2>1. ASSUME NEW a \in Actors, SetLatest(a) PROVE latest' \in [Podcasts -> Cursors]
    BY <1>1, <1>2, <2>1 DEF SetLatest
  <2>2. ASSUME NEW p \in Podcasts, StrangerSubscribes(p) PROVE latest' \in [Podcasts -> Cursors]
    BY <1>1, <2>2, Numbers DEF StrangerSubscribes
  <2> QED  BY <1>1, <2>1, <2>2, Frames
<1>5. etag' \in [Podcasts -> Cursors]
  <2>1. ASSUME NEW a \in Actors, Persist(a) PROVE etag' \in [Podcasts -> Cursors]
    BY <1>1, <1>2, <2>1 DEF Persist
  <2> QED  BY <1>1, <2>1, Frames
<1>6. refetched' \in [Podcasts -> Cursors]
  <2>1. ASSUME NEW a \in Actors, Fetch(a) PROVE refetched' \in [Podcasts -> Cursors]
    <3>1. feed[V(a).p] \in Cursors
      BY <1>1, <1>2, <2>1, Numbers DEF Fetch, At
    <3> QED  BY <1>1, <2>1, <3>1 DEF Fetch
  <2> QED  BY <1>1, <2>1, Frames
<1>7. cursor' \in [Users -> [Podcasts -> Cursors]]
  <2>1. ASSUME NEW a \in Actors, NEW u \in Users, FlagFree(a, u) \/ MoveCursor(a, u)
        PROVE  cursor' \in [Users -> [Podcasts -> Cursors]]
    <3>1. V(a).p \in Podcasts /\ V(a).head \in Cursors
      BY <1>2, <2>1 DEF FlagFree, MoveCursor, At
    <3>2. PICK p \in Podcasts, h \in Cursors : cursor' = [cursor EXCEPT ![u][p] = h] \/ cursor' = cursor
      BY <2>1, <3>1 DEF FlagFree, MoveCursor
    <3>3. cursor \in [Users -> [Podcasts -> Cursors]]
      BY <1>1
    <3>4. CASE cursor' = [cursor EXCEPT ![u][p] = h]
      BY <3>3, <3>4
    <3> QED  BY <3>2, <3>3, <3>4
  <2>2. ASSUME NEW u \in Users, NEW p \in Podcasts, MarkSeen(u, p)
        PROVE  cursor' \in [Users -> [Podcasts -> Cursors]]
    BY <1>1, <2>2 DEF MarkSeen
  <2> QED  BY <1>1, <2>1, <2>2, Frames
<1>8. left' \in [Users -> Nat \cup {-1}]
  <2>1. ASSUME NEW u \in Users, Charge(u) PROVE left' \in [Users -> Nat \cup {-1}]
    <3>1. left[u] > 0 /\ left' = [left EXCEPT ![u] = @ - 1]
      BY <2>1 DEF Charge
    <3>2. left[u] - 1 \in Nat
      BY <1>1, <3>1
    <3> QED  BY <1>1, <3>1, <3>2
  <2> QED  BY <1>1, <2>1, Frames
<1>9. queued' \in [Chats -> [Podcasts -> [Episodes -> 0..2]]]
  <2>1. ASSUME NEW a \in Actors, Enqueue(a) PROVE queued' \in [Chats -> [Podcasts -> [Episodes -> 0..2]]]
    <3> DEFINE p == V(a).p
               e == V(a).next
               to == IF e \in Items(a) THEN Receive(a, e) ELSE {}
    <3>1. p \in Podcasts
      BY <1>2, <2>1 DEF Enqueue, At
    <3>2. ASSUME NEW ch \in Chats
          PROVE  /\ queued[ch] \in [Podcasts -> [Episodes -> 0..2]]
                 /\ [queued[ch] EXCEPT ![p][e] = IF @ = 2 THEN 2 ELSE @ + 1] \in [Podcasts -> [Episodes -> 0..2]]
      <4>1. \A n \in 0..2 : (IF n = 2 THEN 2 ELSE n + 1) \in 0..2
        OBVIOUS
      <4>2. queued[ch] \in [Podcasts -> [Episodes -> 0..2]] /\ queued[ch][p] \in [Episodes -> 0..2]
        BY <1>1, <3>1
      <4>3. \A f \in [Episodes -> 0..2] : [f EXCEPT ![e] = IF @ = 2 THEN 2 ELSE @ + 1] \in [Episodes -> 0..2]
        <5> HIDE DEF e
        <5> QED  BY <4>1
      <4> HIDE DEF p, e
      <4>4. PICK g \in [Episodes -> 0..2] : g = [queued[ch][p] EXCEPT ![e] = IF @ = 2 THEN 2 ELSE @ + 1]
        BY <4>2, <4>3
      <4>5. [queued[ch] EXCEPT ![p][e] = IF @ = 2 THEN 2 ELSE @ + 1] = [queued[ch] EXCEPT ![p] = g]
        BY <4>4
      <4> QED  BY <4>2, <4>5
    <3>3. queued' = [ch \in Chats |-> IF ch \in to THEN [queued[ch] EXCEPT ![p][e] = IF @ = 2 THEN 2 ELSE @ + 1]
                                      ELSE queued[ch]]
      BY <2>1 DEF Enqueue
    <3> HIDE DEF to, p, e
    <3> QED  BY <3>2, <3>3
  <2> QED  BY <1>1, <2>1, Frames
<1>10. flagged' \in [Users -> [Podcasts -> 0..MaxEp]]
  <2>1. ASSUME NEW a \in Actors, NEW u \in Users, FlagFree(a, u)
        PROVE  flagged' \in [Users -> [Podcasts -> 0..MaxEp]]
    <3>1. u \in DOMAIN V(a).free /\ V(a).free[u] \in Int /\ V(a).head \in Cursors
      BY <1>2, <2>1, Numbers DEF FlagFree
    <3>2. V(a).free[u] \in 0..(V(a).head - 1) => V(a).head \in 0..MaxEp
      BY <3>1 DEF Cursors
    <3> QED  BY <1>1, <2>1, <3>2 DEF FlagFree
  <2> QED  BY <1>1, <2>1, Frames
<1> QED  BY <1>3, <1>4, <1>5, <1>6, <1>7, <1>8, <1>9, <1>10

LEMMA ShapeInit == Init => Shape
<1> SUFFICES ASSUME Init PROVE Shape
  OBVIOUS
<1>1. /\ 0 \in 0..MaxEp /\ 1 \in 0..MaxEp /\ 0 \in Cursors /\ 1 \in Cursors /\ Empty \in Cursors /\ 0 \in 0..2
  BY Numbers DEF Cursors
<1>2. /\ feed \in [Podcasts -> 0..MaxEp] /\ latest \in [Podcasts -> Cursors]
      /\ etag \in [Podcasts -> Cursors] /\ refetched \in [Podcasts -> Cursors]
      /\ cursor \in [Users -> [Podcasts -> Cursors]]
      /\ left \in [Users -> Nat \cup {-1}]
      /\ queued \in [Chats -> [Podcasts -> [Episodes -> 0..2]]]
      /\ flagged \in [Users -> [Podcasts -> 0..MaxEp]]
  BY <1>1, CircleAssumption DEF Init, CircleAssumption
<1>3. \A a \in Actors : V(a) = NoVisit
  BY DEF Init, V
<1>4. VisitsOK
  <2>1. visit \in [Actors -> VisitSet]
    BY NoVisitType DEF Init
  <2> QED  BY <1>3, <2>1, NoVisitType DEF VisitsOK
<1>5. CircleTypeOK
  <2>1. \A a \in Actors : V(a).pc \in VisitPoints /\ V(a).p \in Podcasts \cup {0}
    BY <1>3, NoVisitType DEF VisitPoints
  <2> QED  BY <1>2, <2>1 DEF Init, CircleTypeOK
<1> QED  BY <1>4, <1>5 DEF Shape

LEMMA ShapeStep ==
    ASSUME Shape, [Next]_vars
    PROVE  Shape'
<1>1. CASE UNCHANGED vars
  BY <1>1 DEF vars, tables, outputs, process, group, Shape, CircleTypeOK, VisitsOK, V
<1>2. CASE Next
  <2>1. VisitsOK'
    BY <1>2, VisitsStep
  <2>2. \A a \in Actors : V(a).pc' \in VisitPoints /\ V(a).p' \in Podcasts \cup {0}
    BY <2>1 DEF VisitsOK, VisitSet, V
  <2>3. CircleTypeOK'
    BY <1>2, <2>2, TableTypes, ProcessTypes DEF CircleTypeOK
  <2> QED  BY <2>1, <2>3 DEF Shape
<1> QED  BY <1>1, <1>2

\* Every variable has its type, whatever the visits, the deploys and the mishaps.
THEOREM CircleTypes == Spec => []CircleTypeOK
<1>1. Shape => CircleTypeOK
  BY DEF Shape
<1> QED  BY <1>1, ShapeInit, ShapeStep, PTL DEF Spec

-----------------------------------------------------------------------------
(***************************************************************************)
(* One budget: what a visit read was not negative, and a visit takes from  *)
(* it at most as much as there is.                                         *)
(***************************************************************************)
LeftsMatch == \A u \in Users : (Left0[u] >= 0 => left[u] >= 0) /\ (Left0[u] = -1 => left[u] = -1)

BudgetInv == LeftsMatch /\ OneBudget

LEMMA LeftsStep ==
    ASSUME Shape, LeftsMatch, [Next]_vars
    PROVE  LeftsMatch'
<1>1. CASE left' = left
  BY <1>1 DEF LeftsMatch
<1>2. ASSUME NEW u \in Users, Charge(u) PROVE LeftsMatch'
  <2>1. left[u] > 0 /\ left' = [left EXCEPT ![u] = @ - 1]
    BY <1>2 DEF Charge
  <2>2. left \in [Users -> Int]
    BY DEF Shape, CircleTypeOK
  <2>3. left[u] - 1 >= 0 /\ left[u] # -1
    BY <2>1, <2>2
  <2> QED  BY <2>1, <2>2, <2>3 DEF LeftsMatch
<1>3. CASE UNCHANGED vars
  BY <1>1, <1>3 DEF vars, tables
<1> QED  BY <1>1, <1>2, <1>3, Frames

LEMMA BudgetStep ==
    ASSUME Shape, BudgetInv, Next
    PROVE  OneBudget'
<1> DEFINE Fine(b) == \A u \in DOMAIN V(b).left' : Left0[u] >= 0 => V(b).left'[u] >= 0
<1>1. ASSUME NEW b \in Actors, V(b).left' = V(b).left PROVE Fine(b)
  BY <1>1 DEF BudgetInv, OneBudget
<1>2. ASSUME NEW b \in Actors, V(b).left' = << >> PROVE Fine(b)
  BY <1>2, NoVisitType
<1>3. ASSUME NEW a \in Actors, VisitStep(a) \/ FetchFails(a) \/ Fault(a) PROVE Fine(a)
  <2>1. ASSUME ~Enqueue(a) PROVE V(a).left' = V(a).left
    BY <1>3, <2>1, Fetched, Believed, Persisted, LatestSet, Flagged, FreeWereTold, Moved, Stopped DEF VisitStep
  <2>2. ASSUME Enqueue(a) PROVE Fine(a)
    <3> DEFINE e == V(a).next
               to == IF e \in Items(a) THEN Receive(a, e) ELSE {}
    <3>1. V(a).left' = LeftAfter(a, to)
      BY <2>2, Enqueued
    <3>2. DOMAIN LeftAfter(a, to) = DOMAIN V(a).left
      BY DEF LeftAfter
    <3>3. ASSUME NEW u \in DOMAIN V(a).left, Left0[u] >= 0 PROVE LeftAfter(a, to)[u] >= 0
      <4>1. V(a).left[u] >= 0 /\ V(a).left[u] \in Int
        BY <3>3, SoughtAreChats DEF BudgetInv, OneBudget
      <4>2. CASE e \in Items(a)
        BY <4>1, <4>2, WithinBudget
      <4>3. CASE e \notin Items(a)
        <5>1. {ch \in to : Bill(ch) = u} = {} /\ Cardinality({}) = 0
          BY <4>3, FS_EmptySet
        <5> QED  BY <4>1, <5>1 DEF LeftAfter
      <4> QED  BY <4>2, <4>3
    <3> HIDE DEF to, e
    <3> QED  BY <3>1, <3>2, <3>3
  <2> HIDE DEF Fine
  <2> QED  BY <1>1, <2>1, <2>2
<1>4. ASSUME ReadTargets PROVE Fine("circle")
  <2>1. \A u \in DOMAIN V("circle").left' : u \in Users /\ V("circle").left'[u] = left[u]
    BY <1>4, TargetsRead
  <2> QED  BY <2>1 DEF BudgetInv, LeftsMatch
<1>5. ASSUME NEW u \in Users, NEW p \in Podcasts, Asked(u, p) PROVE Fine("refresh")
  <2>1. V("refresh").left' = [o \in {u} |-> left[u]]
    BY <1>5, WasAsked
  <2> QED  BY <2>1 DEF BudgetInv, LeftsMatch
<1>6. ASSUME ReadChannel PROVE Fine("refresh")
  <2>1. V("refresh").left' = V("refresh").left
    BY <1>6, ChannelRead
  <2> QED  BY <1>1, <2>1 DEF Actors
<1>7. ASSUME NEW b \in Actors PROVE Fine(b)
  <2>1. V(b)' = V(b) => V(b).left' = V(b).left
    BY DEF V
  <2>2. Fresh(V(b)') => V(b).left' = << >>
    BY DEF Fresh, V
  <2> HIDE DEF Fine
  <2> QED  BY <1>1, <1>2, <1>3, <1>4, <1>5, <1>6, <2>1, <2>2, NewVisits
<1> QED  BY <1>7 DEF OneBudget

\* An owner and all the channels that are billed to them draw from one budget: a visit never
\* reserves more notifications than were left when it read them.
THEOREM BudgetIsShared == Spec => []OneBudget
<1>1. Init => Shape /\ BudgetInv
  <2>1. Init => LeftsMatch
    BY DEF Init, LeftsMatch
  <2>2. Init => OneBudget
    BY NoVisitType DEF Init, OneBudget, V
  <2> QED  BY <2>1, <2>2, ShapeInit DEF BudgetInv
<1>2. Shape /\ BudgetInv /\ [Next]_vars => Shape' /\ BudgetInv'
  <2>1. ASSUME Shape, BudgetInv, UNCHANGED vars PROVE OneBudget'
    BY <2>1 DEF vars, V, BudgetInv, OneBudget
  <2> QED  BY <2>1, ShapeStep, LeftsStep, BudgetStep DEF BudgetInv
<1>3. BudgetInv => OneBudget
  BY DEF BudgetInv
<1> QED  BY <1>1, <1>2, <1>3, PTL DEF Spec

-----------------------------------------------------------------------------
(***************************************************************************)
(* What a visit has read of the feed, while it has still to queue it or to *)
(* write cursors.                                                          *)
(***************************************************************************)
HeadOK(v) ==
    /\ v.pc \in {"persist", "queue"} \/ v.todo # {} => 1 <= v.head /\ v.head <= feed[v.p]
    /\ v.pc = "queue" => 1 <= v.next /\ v.next <= v.head + 1
    /\ v.pc \in {"off", "target", "fetch", "persist"} => v.todo = {}

HeadsRead == \A a \in Actors : HeadOK(V(a))

LEMMA FeedGrows ==
    ASSUME Shape, Next
    PROVE  \A p \in Podcasts : feed[p] \in Nat /\ feed'[p] \in Nat /\ feed[p] <= feed'[p]
<1>1. feed \in [Podcasts -> 0..MaxEp] /\ 0..MaxEp \subseteq Nat
  BY Numbers DEF Shape, CircleTypeOK
<1>2. CASE feed' = feed
  BY <1>1, <1>2
<1>3. ASSUME NEW p \in Podcasts, Publish(p)
      PROVE  \A q \in Podcasts : feed[q] \in Nat /\ feed'[q] \in Nat /\ feed[q] <= feed'[q]
  <2>1. feed' = [feed EXCEPT ![p] = @ + 1]
    BY <1>3 DEF Publish
  <2> QED  BY <1>1, <2>1
<1> QED  BY <1>2, <1>3, Frames

\* A step of a visit leaves the feed alone.
LEMMA FeedStays ==
    ASSUME NEW a \in Actors, VisitStep(a) \/ FetchFails(a) \/ Fault(a)
    PROVE  UNCHANGED feed
BY DEF VisitStep, Fetch, NotModified, Persist, Enqueue, SetLatest, FreeDone, FetchFails, Fault, FlagFree,
       MoveCursor

LEMMA HeadsStep ==
    ASSUME Shape, HeadsRead, Next
    PROVE  HeadsRead'
<1> DEFINE Fine(b) == HeadOK(V(b))'
<1>1. ASSUME NEW b \in Actors, V(b)' = V(b) PROVE Fine(b)
  <2>1. V(b).head \in Int /\ (V(b).pc # "off" => V(b).p \in Podcasts)
    BY SoughtAreChats, Numbers DEF VisitSet
  <2>2. HeadOK(V(b))
    BY DEF HeadsRead
  <2>3. V(b).pc = "off" => V(b).todo = {}
    BY <2>2 DEF HeadOK
  <2> QED  BY <1>1, <2>1, <2>2, <2>3, FeedGrows DEF HeadOK
<1>2. ASSUME NEW b \in Actors, V(b)'.todo = {}, V(b)'.pc \in {"off", "target", "fetch", "done"}
      PROVE  Fine(b)
  BY <1>2 DEF HeadOK
<1>3. ASSUME NEW a \in Actors, VisitStep(a) \/ FetchFails(a) \/ Fault(a) PROVE Fine(a)
  <2>1. /\ HeadOK(V(a)) /\ feed' = feed /\ V(a).head \in Int /\ V(a).next \in Nat
        /\ V(a).pc # "off" => V(a).p \in Podcasts
    BY <1>3, FeedStays, SoughtAreChats, Numbers DEF HeadsRead, VisitSet
  <2>2. ASSUME Fetch(a) PROVE Fine(a)
    <3>1. V(a).p \in Podcasts /\ feed[V(a).p] \in Nat /\ feed[V(a).p] >= 1 /\ V(a).pc = "fetch"
      BY <2>1, <2>2, Numbers DEF Fetch, At, Shape, CircleTypeOK
    <3> QED  BY <2>1, <2>2, <3>1, Fetched DEF HeadOK
  <2>3. ASSUME NotModified(a) PROVE Fine(a)
    BY <2>1, <2>3, Believed DEF HeadOK, NotModified, At
  <2>4. ASSUME Persist(a) PROVE Fine(a)
    <3>1. V(a).pc = "persist"
      BY <2>4 DEF Persist, At
    <3>2. V(a)'.pc = "queue" /\ V(a)'.next = 1 /\ V(a)'.head = V(a).head /\ V(a)'.p = V(a).p
      BY <2>4, Persisted
    <3> QED  BY <2>1, <3>1, <3>2 DEF HeadOK
  <2>5. ASSUME Enqueue(a) PROVE Fine(a)
    <3>1. V(a).pc = "queue" /\ V(a).next <= V(a).head
      BY <2>5 DEF Enqueue, At
    <3>2. /\ V(a)'.pc = "queue" /\ V(a)'.next = V(a).next + 1 /\ V(a)'.head = V(a).head
          /\ V(a)'.p = V(a).p
      BY <2>5, <3>1, Enqueued
    <3> QED  BY <2>1, <3>1, <3>2 DEF HeadOK
  <2>6. ASSUME SetLatest(a) PROVE Fine(a)
    <3>1. V(a).pc = "queue"
      BY <2>6 DEF SetLatest, At
    <3> QED  BY <2>1, <2>6, <3>1, LatestSet DEF HeadOK
  <2>7. ASSUME NEW u \in Users, FlagFree(a, u) PROVE Fine(a)
    BY <2>1, <2>7, Flagged DEF HeadOK, FlagFree, At
  <2>8. ASSUME FreeDone(a) PROVE Fine(a)
    BY <2>1, <2>8, FreeWereTold DEF HeadOK, FreeDone, At
  <2>9. ASSUME NEW u \in Users, MoveCursor(a, u) PROVE Fine(a)
    BY <2>1, <2>9, Moved DEF HeadOK, MoveCursor, At
  <2>10. ASSUME FetchFails(a) \/ Fault(a) PROVE Fine(a)
    BY <2>1, <2>10, Stopped DEF HeadOK
  <2> HIDE DEF Fine
  <2> QED  BY <1>3, <2>2, <2>3, <2>4, <2>5, <2>6, <2>7, <2>8, <2>9, <2>10 DEF VisitStep
<1>4. ASSUME ReadTargets PROVE Fine("circle")
  <2>1. V("circle").todo = {}
    BY <1>4 DEF ReadTargets, At, HeadsRead, HeadOK, Actors
  <2>2. V("circle")'.todo = {} /\ V("circle")'.pc \in {"off", "target", "fetch", "done"}
    BY <1>4, <2>1, TargetsRead
  <2> QED  BY <1>2, <2>2 DEF Actors
<1>5. ASSUME NEW u \in Users, NEW p \in Podcasts, Asked(u, p) PROVE Fine("refresh")
  BY <1>2, <1>5, WasAsked DEF Actors
<1>6. ASSUME ReadChannel PROVE Fine("refresh")
  <2>1. V("refresh").todo = {}
    BY <1>6 DEF ReadChannel, At, HeadsRead, HeadOK, Actors
  <2> QED  BY <1>2, <1>6, <2>1, ChannelRead DEF Actors
<1>7. ASSUME NEW b \in Actors PROVE Fine(b)
  <2>1. Fresh(V(b)') => V(b)'.todo = {} /\ V(b)'.pc \in {"off", "target", "fetch", "done"}
    BY DEF Fresh
  <2> HIDE DEF Fine
  <2> QED  BY <1>1, <1>2, <1>3, <1>4, <1>5, <1>6, <2>1, NewVisits
<1> QED  BY <1>7 DEF HeadsRead

-----------------------------------------------------------------------------
(***************************************************************************)
(* Nothing skipped: the cursor a visit compares with is as well covered as *)
(* the row it was read from, what the visit went past is queued, and when  *)
(* it writes cursors it went past everything up to the head of the feed.   *)
(***************************************************************************)
\* The episodes of the feed's window up to n were put in the queue for u.
Sent(u, p, n) == \A e \in Episodes : e <= n /\ e > feed[p] - Window => queued[u][p][e] > 0

\* Whose cursors are to stand on what they were sent.
Follows(u, p) == u \in Unlimited /\ p \in Podcasts \ Unparsed /\ <<u, p>> \in Subs

CursorsSent ==
    \A u \in Users, p \in Podcasts : Follows(u, p) => cursor[u][p] # Empty /\ Sent(u, p, cursor[u][p])

\* A visit knows those it may send to, with their budgets, and has none of them for free.
KnownTo(v) ==
    \A u \in Users : Follows(u, v.p) =>
        /\ u \notin DOMAIN v.free
        /\ u \in DOMAIN v.left => v.left[u] = -1
        /\ \A ch \in DOMAIN v.to : Bill(ch) = u => u \in DOMAIN v.to

Covers(v) ==
    \A u \in Users : Follows(u, v.p) =>
        /\ u \in DOMAIN v.to => /\ v.to[u] # Empty /\ Sent(u, v.p, v.to[u])
                                /\ v.pc = "queue" => Sent(u, v.p, v.next - 1)
        /\ u \in v.todo /\ v.pc = "queue" => u \in DOMAIN v.to
        /\ u \in v.todo /\ v.pc \in {"free", "cursors"} => Sent(u, v.p, v.head)

VisitsCover == \A a \in Actors : KnownTo(V(a)) /\ Covers(V(a))

SkipInv == LeftsMatch /\ HeadsRead /\ CursorsSent /\ VisitsCover

LEMMA CursorsAreNumbers ==
    ASSUME Shape, NEW u \in Users, NEW p \in Podcasts
    PROVE  cursor[u][p] \in Int
<1>1. cursor[u][p] \in Cursors
  BY DEF Shape, CircleTypeOK
<1> QED  BY <1>1, Numbers

LEMMA VisitNumbers ==
    ASSUME Shape, NEW a \in Actors
    PROVE  /\ V(a).next \in Nat /\ V(a).head \in Int /\ V(a).latest \in Int
           /\ \A ch \in DOMAIN V(a).to : V(a).to[ch] \in Int
           /\ \A u \in DOMAIN V(a).free : V(a).free[u] \in Int
<1>1. V(a) \in VisitSet
  BY SoughtAreChats
<1>2. V(a).next \in Nat /\ V(a).head \in Cursors /\ V(a).latest \in Cursors
  BY <1>1 DEF VisitSet
<1>3. /\ \A ch \in DOMAIN V(a).to : V(a).to[ch] \in Cursors
      /\ \A u \in DOMAIN V(a).free : V(a).free[u] \in Cursors
  BY SoughtAreChats DEF Sought
<1> QED  BY <1>2, <1>3, Numbers

LEMMA QueueGrows ==
    ASSUME Shape, Next, NEW ch \in Chats, NEW p \in Podcasts, NEW e \in Episodes, queued[ch][p][e] > 0
    PROVE  queued'[ch][p][e] > 0
<1>1. CASE queued' = queued
  BY <1>1
<1>2. ASSUME NEW a \in Actors, Enqueue(a) PROVE queued'[ch][p][e] > 0
  <2> DEFINE q == V(a).p
             n == V(a).next
             to == IF n \in Items(a) THEN Receive(a, n) ELSE {}
  <2>1. queued[ch] \in [Podcasts -> [Episodes -> 0..2]]
    BY DEF Shape, CircleTypeOK
  <2>2. queued'[ch] = IF ch \in to THEN [queued[ch] EXCEPT ![q][n] = IF @ = 2 THEN 2 ELSE @ + 1]
                      ELSE queued[ch]
    BY <1>2 DEF Enqueue
  <2> HIDE DEF q, n, to
  <2>3. queued'[ch][p][e] \in {queued[ch][p][e], 2, queued[ch][p][e] + 1}
    BY <2>1, <2>2
  <2>4. queued[ch][p][e] \in 0..2
    BY <2>1
  <2> QED  BY <2>3, <2>4
<1> QED  BY <1>1, <1>2, Frames

LEMMA SentStays ==
    ASSUME Shape, Next, NEW u \in Users, NEW p \in Podcasts, NEW n \in Int, Sent(u, p, n)
    PROVE  Sent(u, p, n)'
<1>1. feed[p] \in Nat /\ feed'[p] \in Nat /\ feed[p] <= feed'[p] /\ u \in Chats /\ Window \in Nat
  BY FeedGrows, PersonBills, Numbers
<1>2. ASSUME NEW e \in Episodes, e <= n, e > feed'[p] - Window PROVE queued'[u][p][e] > 0
  <2>1. e \in Int
    BY Numbers
  <2>2. e > feed[p] - Window
    BY <1>1, <1>2, <2>1
  <2>3. queued[u][p][e] > 0
    BY <1>2, <2>2 DEF Sent
  <2> QED  BY <1>1, <2>3, QueueGrows
<1> QED  BY <1>2 DEF Sent

\* They are listeners, and never free.
LEMMA FollowersPay ==
    ASSUME Shape, LeftsMatch, NEW u \in Users, NEW p \in Podcasts, Follows(u, p)
    PROVE  PaidNow(u) /\ u \in Targets(p) /\ u \notin FreeOf(p) /\ left[u] = -1
<1>1. u \in Paid /\ Left0[u] = -1
  BY DEF Follows, Unlimited
<1>2. left[u] = -1
  BY <1>1 DEF LeftsMatch
<1>3. PaidNow(u)
  BY <1>1, <1>2 DEF PaidNow
<1>4. u \in Listeners(p) /\ Bill(u) = u
  BY PersonBills DEF Follows, Listeners
<1> QED  BY <1>2, <1>3, <1>4 DEF Targets, FreeOf

\* The steps of a visit keep whom they have still to tell by a flag, or fewer of them.
LEMMA FreeShrinks ==
    ASSUME Shape, NEW b \in Actors, VisitStep(b) \/ FetchFails(b) \/ Fault(b)
    PROVE  /\ DOMAIN V(b)'.free \subseteq DOMAIN V(b).free
           /\ \A u \in DOMAIN V(b)'.free : V(b)'.free[u] = V(b).free[u]
<1>1. ASSUME NEW u \in Users, FlagFree(b, u)
      PROVE  /\ DOMAIN V(b)'.free \subseteq DOMAIN V(b).free
             /\ \A o \in DOMAIN V(b)'.free : V(b)'.free[o] = V(b).free[o]
  <2>1. V(b)'.free = [o \in DOMAIN V(b).free \ {u} |-> V(b).free[o]]
    BY <1>1, Flagged
  <2> QED  BY <2>1
<1>2. CASE V(b)'.free = V(b).free
  BY <1>2
<1> QED  BY <1>1, <1>2, Fetched, Believed, Persisted, Enqueued, LatestSet, FreeWereTold, Moved,
            Stopped DEF VisitStep

LEMMA KnownStep ==
    ASSUME Shape, SkipInv, Next, NEW b \in Actors
    PROVE  KnownTo(V(b)')
<1> DEFINE Fine == KnownTo(V(b)')
<1>1. /\ KnownTo(V(b)) /\ V(b) \in VisitSet
  BY SoughtAreChats DEF SkipInv, VisitsCover
<1>2. ASSUME V(b)' = V(b) PROVE Fine
  BY <1>1, <1>2
<1>3. ASSUME Fresh(V(b)') PROVE Fine
  BY <1>3, NoVisitType DEF Fresh, KnownTo
<1>4. ASSUME VisitStep(b) \/ FetchFails(b) \/ Fault(b) PROVE Fine
  <2>1. V(b)'.p = V(b).p /\ V(b)'.to \in {V(b).to, << >>}
    BY <1>4, StepsOfAVisit
  <2>2. DOMAIN V(b)'.free \subseteq DOMAIN V(b).free
    BY <1>4, FreeShrinks
  <2>3. ASSUME NEW u \in Users, V(b).left[u] = -1, u \in DOMAIN V(b)'.left, u \in DOMAIN V(b).left
        PROVE  V(b)'.left[u] = -1
    <3>1. CASE V(b)'.left = V(b).left
      BY <2>3, <3>1
    <3>2. CASE Enqueue(b)
      <4>1. PICK to : V(b)'.left = LeftAfter(b, to)
        BY <3>2, Enqueued
      <4> QED  BY <2>3, <4>1 DEF LeftAfter
    <3> QED  BY <1>4, <3>1, <3>2, Fetched, Believed, Persisted, LatestSet, Flagged, FreeWereTold, Moved,
                Stopped DEF VisitStep
  <2>4. DOMAIN V(b)'.left = DOMAIN V(b).left
    BY <1>4, StepsOfAVisit
  <2>5. DOMAIN << >> = {}
    BY NoVisitType
  <2> QED  BY <1>1, <2>1, <2>2, <2>3, <2>4, <2>5 DEF KnownTo
<1>5. ASSUME b = "circle", ReadTargets PROVE Fine
  <2>1. PICK p \in Podcasts : p = V(b).p
    BY <1>5, TargetsRead
  <2>2. /\ V(b)'.p = p /\ DOMAIN V(b)'.to = Targets(p) /\ DOMAIN V(b)'.free = FreeOf(p)
        /\ \A u \in DOMAIN V(b)'.left : V(b)'.left[u] = left[u]
    BY <1>5, <2>1, TargetsRead
  <2> QED  BY <2>2, FollowersPay DEF KnownTo, SkipInv
<1>6. ASSUME b = "refresh", NEW u \in Users, NEW p \in Podcasts, Asked(u, p) PROVE Fine
  <2>1. /\ V(b)'.p = p /\ V(b)'.to = [ch \in {u} |-> cursor[u][p]] /\ V(b)'.free = << >>
        /\ V(b)'.left = [o \in {u} |-> left[u]]
    BY <1>6, WasAsked
  <2>2. Bill(u) = u /\ DOMAIN << >> = {}
    BY PersonBills, NoVisitType
  <2> QED  BY <2>1, <2>2, FollowersPay DEF KnownTo, SkipInv
<1>7. ASSUME b = "refresh", ReadChannel PROVE Fine
  BY <1>1, <1>7, ChannelRead DEF KnownTo
<1>8. Fine
  <2> HIDE DEF Fine
  <2> QED  BY <1>2, <1>3, <1>4, <1>5, <1>6, <1>7, NewVisits
<1> QED  BY <1>8

\* Going past an episode puts it in the queue of whoever is behind it.
LEMMA PassedIsSent ==
    ASSUME Shape, SkipInv, Next, NEW a \in Actors, Enqueue(a), NEW u \in DOMAIN V(a).to,
           u \in Users, Follows(u, V(a).p)
    PROVE  \A o \in Episodes :
              o <= V(a).next /\ o > feed'[V(a).p] - Window => queued'[u][V(a).p][o] > 0
<1> DEFINE p == V(a).p
           e == V(a).next
<1>1. /\ p \in Podcasts /\ feed[p] \in Nat /\ feed' = feed /\ e \in Nat /\ V(a).head \in Int
      /\ V(a).pc = "queue" /\ e <= V(a).head
  <2>1. V(a).pc = "queue" /\ V(a).next <= V(a).head /\ feed' = feed
    BY DEF Enqueue, At
  <2>2. V(a) \in VisitSet /\ V(a).p \in Podcasts
    BY <2>1, SoughtAreChats
  <2>3. V(a).next \in Nat /\ V(a).head \in Int
    BY <2>2, Numbers DEF VisitSet
  <2>4. feed[p] \in Nat
    BY <2>2, FeedGrows
  <2> QED  BY <2>1, <2>2, <2>3, <2>4
<1>2. u \in Chats /\ Bill(u) = u /\ Window \in Nat
  BY PersonBills, Numbers
<1>3. V(a).left[u] = -1 /\ V(a).to[u] # Empty /\ Sent(u, p, V(a).to[u]) /\ Sent(u, p, e - 1)
  <2>1. u \in DOMAIN V(a).left
    BY <1>2, SoughtAreChats DEF Sought
  <2>2. KnownTo(V(a)) /\ Covers(V(a))
    BY DEF SkipInv, VisitsCover
  <2>3. V(a).left[u] = -1
    BY <2>1, <2>2 DEF KnownTo
  <2> QED  BY <1>1, <2>2, <2>3 DEF Covers
<1>4. V(a).to[u] \in Int
  BY SoughtAreChats, Numbers DEF Sought
<1>5. 1 <= e /\ V(a).head <= feed[p]
  BY <1>1 DEF SkipInv, HeadsRead, HeadOK
<1>6. ASSUME NEW o \in Episodes, o = e, o > feed[p] - Window PROVE queued'[u][p][o] > 0
  <2>1. e \in Items(a)
    BY <1>1, <1>2, <1>5, <1>6 DEF Items
  <2>2. CASE e <= V(a).to[u]
    <3>1. queued[u][p][o] > 0
      BY <1>3, <1>6, <2>2 DEF Sent
    <3> QED  BY <1>1, <1>2, <3>1, QueueGrows
  <2>3. CASE V(a).to[u] < e
    <3>1. Seen(a, u) = V(a).to[u]
      BY <1>3 DEF Seen
    <3>2. u \in Wants(a, e)
      BY <1>3, <2>3, <3>1 DEF Wants, Sought, Quiet
    <3>3. u \in Receive(a, e)
      BY <1>2, <1>3, <3>2 DEF Receive
    <3>4. queued'[u] = [queued[u] EXCEPT ![p][e] = IF @ = 2 THEN 2 ELSE @ + 1]
      BY <1>2, <2>1, <3>3 DEF Enqueue
    <3>5. queued[u] \in [Podcasts -> [Episodes -> 0..2]] /\ queued[u][p][o] \in 0..2
      BY <1>1, <1>2 DEF Shape, CircleTypeOK
    <3> HIDE DEF p, e
    <3>6. queued'[u][p][o] = IF queued[u][p][o] = 2 THEN 2 ELSE queued[u][p][o] + 1
      BY <1>1, <1>6, <3>4, <3>5
    <3> QED  BY <3>5, <3>6
  <2> QED  BY <1>1, <1>4, <2>2, <2>3
<1>7. ASSUME NEW o \in Episodes, o <= e - 1, o > feed[p] - Window PROVE queued'[u][p][o] > 0
  <2>1. queued[u][p][o] > 0
    BY <1>3, <1>7 DEF Sent
  <2> QED  BY <1>1, <1>2, <2>1, QueueGrows
<1>8. \A o \in Episodes : o <= e /\ o > feed[p] - Window => queued'[u][p][o] > 0
  <2>1. \A o \in Episodes : o <= e => o = e \/ o <= e - 1
    BY <1>1, Numbers
  <2> HIDE DEF p, e
  <2> QED  BY <1>6, <1>7, <2>1
<1> QED  BY <1>1, <1>8

LEMMA CoversStep ==
    ASSUME Shape, SkipInv, Next, NEW b \in Actors
    PROVE  Covers(V(b))'
<1> SUFFICES ASSUME NEW u \in Users, Follows(u, V(b)'.p)
             PROVE  /\ u \in DOMAIN V(b)'.to => /\ V(b)'.to[u] # Empty /\ Sent(u, V(b).p, V(b).to[u])'
                                                /\ V(b)'.pc = "queue" => Sent(u, V(b).p, V(b).next - 1)'
                    /\ u \in V(b)'.todo /\ V(b)'.pc = "queue" => u \in DOMAIN V(b)'.to
                    /\ u \in V(b)'.todo /\ V(b)'.pc \in {"free", "cursors"} => Sent(u, V(b).p, V(b).head)'
  BY DEF Covers
<1> DEFINE After(q, n) == \A e \in Episodes : e <= n /\ e > feed'[q] - Window => queued'[u][q][e] > 0
           Fine == /\ u \in DOMAIN V(b)'.to => /\ V(b)'.to[u] # Empty /\ After(V(b)'.p, V(b)'.to[u])
                                               /\ V(b)'.pc = "queue" => After(V(b)'.p, V(b)'.next - 1)
                   /\ u \in V(b)'.todo /\ V(b)'.pc = "queue" => u \in DOMAIN V(b)'.to
                   /\ u \in V(b)'.todo /\ V(b)'.pc \in {"free", "cursors"} => After(V(b)'.p, V(b)'.head)
<1>1. \A q \in Podcasts, n \in Int : Sent(u, q, n) => After(q, n)
  BY SentStays DEF Sent
<1>2. V(b)'.p \in Podcasts
  BY DEF Follows
<1>3. /\ KnownTo(V(b)) /\ Covers(V(b)) /\ HeadOK(V(b))
      /\ V(b).head \in Int /\ V(b).next \in Nat /\ V(b).next - 1 \in Int
      /\ u \in DOMAIN V(b).to => V(b).to[u] \in Int
  <2>1. V(b) \in VisitSet /\ (u \in DOMAIN V(b).to => V(b).to[u] \in Int)
    BY SoughtAreChats, Numbers DEF Sought
  <2>2. V(b).head \in Int /\ V(b).next \in Nat
    BY <2>1, Numbers DEF VisitSet
  <2> QED  BY <2>1, <2>2 DEF SkipInv, VisitsCover, HeadsRead
<1>4. ASSUME V(b)'.p = V(b).p
      PROVE  /\ u \in DOMAIN V(b).to => /\ V(b).to[u] # Empty /\ After(V(b).p, V(b).to[u])
                                        /\ V(b).pc = "queue" => After(V(b).p, V(b).next - 1)
             /\ u \in V(b).todo /\ V(b).pc = "queue" => u \in DOMAIN V(b).to
             /\ u \in V(b).todo /\ V(b).pc \in {"free", "cursors"} => After(V(b).p, V(b).head)
  <2> HIDE DEF After
  <2> QED  BY <1>1, <1>2, <1>3, <1>4 DEF Covers
<1>5. ASSUME V(b)' = V(b) PROVE Fine
  <2> HIDE DEF After
  <2> QED  BY <1>4, <1>5
<1>6. ASSUME Fresh(V(b)') PROVE Fine
  BY <1>6, NoVisitType DEF Fresh
<1>7. ASSUME VisitStep(b) \/ FetchFails(b) \/ Fault(b) PROVE Fine
  <2> HIDE DEF After
  <2>1. V(b)'.p = V(b).p
    BY <1>7, StepsOfAVisit
  <2>2. ASSUME Fetch(b) PROVE Fine
    BY <1>4, <2>1, <2>2, Fetched
  <2>3. ASSUME NotModified(b) PROVE Fine
    <3>1. V(b).todo = {}
      BY <1>3, <2>3 DEF NotModified, At, HeadOK
    <3> QED  BY <2>3, <3>1, Believed, NoVisitType
  <2>4. ASSUME Persist(b) PROVE Fine
    <3>1. ASSUME u \in Rows(b) PROVE u \in DOMAIN V(b).to
      <4>1. PICK ch \in Sought(b) : u = Bill(ch)
        BY <3>1 DEF Rows
      <4> QED  BY <1>3, <2>1, <4>1 DEF KnownTo, Sought
    <3>2. After(V(b).p, 0)
      BY Numbers DEF After
    <3>3. V(b)'.next - 1 = 0
      BY <2>4, Persisted
    <3> QED  BY <1>4, <2>1, <2>4, <3>1, <3>2, <3>3, Persisted
  <2>5. ASSUME Enqueue(b) PROVE Fine
    <3>1. u \in DOMAIN V(b).to => After(V(b).p, V(b).next)
      BY <2>1, <2>5, PassedIsSent DEF After
    <3>2. V(b)'.next = V(b).next + 1 /\ V(b).pc = "queue"
      BY <2>5, Enqueued DEF Enqueue, At
    <3>3. /\ V(b)'.next - 1 = V(b).next
          /\ V(b)'.pc = "queue" /\ V(b)'.to = V(b).to /\ V(b)'.todo = V(b).todo
      BY <1>3, <2>5, <3>2, Enqueued
    <3> QED  BY <1>4, <2>1, <3>1, <3>2, <3>3
  <2>6. ASSUME SetLatest(b) PROVE Fine
    <3>1. V(b).pc = "queue" /\ V(b).next > V(b).head
      BY <2>6 DEF SetLatest, At
    <3>2. V(b).next - 1 = V(b).head
      BY <1>3, <3>1 DEF HeadOK
    <3> QED  BY <1>4, <2>1, <2>6, <3>1, <3>2, LatestSet
  <2>7. ASSUME NEW o \in Users, FlagFree(b, o) PROVE Fine
    BY <1>4, <2>1, <2>7, Flagged
  <2>8. ASSUME FreeDone(b) PROVE Fine
    BY <1>4, <2>1, <2>8, FreeWereTold DEF FreeDone, At
  <2>9. ASSUME NEW o \in Users, MoveCursor(b, o) PROVE Fine
    BY <1>4, <2>1, <2>9, Moved DEF MoveCursor, At
  <2>10. ASSUME FetchFails(b) \/ Fault(b) PROVE Fine
    BY <1>4, <2>1, <2>10, Stopped
  <2> HIDE DEF Fine
  <2> QED  BY <1>7, <2>2, <2>3, <2>4, <2>5, <2>6, <2>7, <2>8, <2>9, <2>10 DEF VisitStep
<1>8. ASSUME b = "circle", ReadTargets PROVE Fine
  <2> HIDE DEF After
  <2>1. PICK p \in Podcasts : p = V(b).p
    BY <1>8, TargetsRead
  <2>2. /\ V(b)'.p = p /\ DOMAIN V(b)'.to = Targets(p) /\ V(b)'.pc \in {"done", "fetch"}
        /\ \A ch \in Targets(p) : V(b)'.to[ch] = cursor[Bill(ch)][p]
    BY <1>8, <2>1, TargetsRead
  <2>3. cursor[u][p] # Empty /\ Sent(u, p, cursor[u][p])
    BY <2>2 DEF SkipInv, CursorsSent
  <2>4. cursor[u][p] \in Int
    BY CursorsAreNumbers
  <2>5. After(p, cursor[u][p])
    BY <1>1, <2>3, <2>4
  <2>6. u \in DOMAIN V(b)'.to => V(b)'.to[u] = cursor[u][p]
    BY <2>2, PersonBills
  <2> QED  BY <2>2, <2>3, <2>5, <2>6
<1>9. ASSUME b = "refresh", NEW o \in Users, NEW p \in Podcasts, Asked(o, p) PROVE Fine
  <2> HIDE DEF After
  <2>1. /\ V(b)'.p = p /\ V(b)'.to = [ch \in {o} |-> cursor[o][p]] /\ V(b)'.pc = "target"
    BY <1>9, WasAsked
  <2>2. cursor[u][p] # Empty /\ Sent(u, p, cursor[u][p])
    BY <2>1 DEF SkipInv, CursorsSent
  <2>3. cursor[u][p] \in Int
    BY CursorsAreNumbers
  <2>4. After(p, cursor[u][p])
    BY <1>1, <2>2, <2>3
  <2>5. u \in DOMAIN V(b)'.to => V(b)'.to[u] = cursor[u][p]
    BY <2>1
  <2> QED  BY <2>1, <2>2, <2>4, <2>5
<1>10. ASSUME b = "refresh", ReadChannel PROVE Fine
  <2> HIDE DEF After
  <2> QED  BY <1>4, <1>10, ChannelRead
<1>11. Fine
  <2> HIDE DEF Fine
  <2> QED  BY <1>5, <1>6, <1>7, <1>8, <1>9, <1>10, NewVisits
<1> QED  BY <1>11 DEF Sent

LEMMA CursorsStep ==
    ASSUME Shape, SkipInv, Next
    PROVE  CursorsSent'
<1> SUFFICES ASSUME NEW u \in Users, NEW p \in Podcasts, Follows(u, p)
             PROVE  cursor'[u][p] # Empty /\ Sent(u, p, cursor[u][p])'
  BY DEF CursorsSent
<1> DEFINE After(n) == \A e \in Episodes : e <= n /\ e > feed'[p] - Window => queued'[u][p][e] > 0
           Fine == cursor'[u][p] # Empty /\ After(cursor'[u][p])
<1>1. \A n \in Int : Sent(u, p, n) => After(n)
  BY SentStays DEF Sent
<1>2. cursor[u][p] # Empty /\ After(cursor[u][p])
  BY <1>1, CursorsAreNumbers DEF SkipInv, CursorsSent
<1>3. cursor \in [Users -> [Podcasts -> Cursors]]
  BY DEF Shape, CircleTypeOK
<1> HIDE DEF After
<1>4. ASSUME cursor' = cursor PROVE Fine
  BY <1>2, <1>4
<1>5. ASSUME NEW a \in Actors, NEW o \in Users, MoveCursor(a, o) PROVE Fine
  <2>1. PICK q, h : /\ q = V(a).p /\ h = V(a).head /\ cursor' = [cursor EXCEPT ![o][q] = h]
                    /\ o \in V(a).todo /\ V(a).pc = "cursors"
    BY <1>5 DEF MoveCursor, At
  <2>2. Covers(V(a)) /\ HeadOK(V(a)) /\ V(a) \in VisitSet
    BY SoughtAreChats DEF SkipInv, VisitsCover, HeadsRead
  <2>3. h \in Int /\ 1 <= h
    BY <2>1, <2>2, Numbers DEF HeadOK, VisitSet
  <2>4. o = u /\ q = p => Sent(u, p, h)
    BY <2>1, <2>2 DEF Covers
  <2>5. cursor'[u][p] = IF o = u /\ q = p THEN h ELSE cursor[u][p]
    BY <1>3, <2>1
  <2>6. h # Empty
    BY <2>3 DEF Empty
  <2> QED  BY <1>1, <1>2, <2>3, <2>4, <2>5, <2>6
<1>6. ASSUME NEW a \in Actors, NEW o \in Users, FlagFree(a, o) PROVE Fine
  <2>1. PICK q, h : /\ q = V(a).p /\ (cursor' = [cursor EXCEPT ![o][q] = h] \/ cursor' = cursor)
                    /\ o \in DOMAIN V(a).free
    BY <1>6 DEF FlagFree
  <2>2. ~(o = u /\ q = p)
    BY <2>1 DEF SkipInv, VisitsCover, KnownTo
  <2>3. cursor'[u][p] = cursor[u][p]
    BY <1>3, <2>1, <2>2
  <2> QED  BY <1>2, <2>3
<1>7. ASSUME NEW o \in Users, NEW q \in Podcasts, MarkSeen(o, q) PROVE Fine
  <2>1. ~PaidNow(o) /\ cursor' = [cursor EXCEPT ![o][q] = latest[q]]
    BY <1>7 DEF MarkSeen
  <2>2. o # u
    BY <2>1, FollowersPay DEF SkipInv
  <2>3. cursor'[u][p] = cursor[u][p]
    BY <1>3, <2>1, <2>2
  <2> QED  BY <1>2, <2>3
<1>8. Fine
  <2> HIDE DEF Fine
  <2> QED  BY <1>4, <1>5, <1>6, <1>7, Frames
<1> QED  BY <1>8 DEF Sent, After

LEMMA SkipStays ==
    ASSUME Shape, SkipInv, [Next]_vars
    PROVE  SkipInv'
<1>1. CASE UNCHANGED vars
  <2>1. /\ feed' = feed /\ cursor' = cursor /\ left' = left /\ queued' = queued
        /\ \A a \in Actors : V(a)' = V(a)
    BY <1>1 DEF vars, tables, outputs, V
  <2>2. LeftsMatch' /\ HeadsRead' /\ CursorsSent'
    BY <2>1 DEF SkipInv, LeftsMatch, HeadsRead, HeadOK, CursorsSent, Sent
  <2>3. VisitsCover'
    BY <2>1 DEF SkipInv, VisitsCover, KnownTo, Covers, Sent
  <2> QED  BY <2>2, <2>3 DEF SkipInv
<1>2. CASE Next
  <2>1. LeftsMatch' /\ HeadsRead' /\ CursorsSent'
    BY <1>2, LeftsStep, HeadsStep, CursorsStep DEF SkipInv
  <2>2. VisitsCover'
    BY <1>2, KnownStep, CoversStep DEF VisitsCover
  <2> QED  BY <2>1, <2>2 DEF SkipInv
<1> QED  BY <1>1, <1>2

LEMMA HeadsInit == Init => HeadsRead
<1>1. Init => \A a \in Actors : V(a) = NoVisit
  BY DEF Init, V
<1> QED  BY <1>1, NoVisitType DEF HeadsRead, HeadOK

LEMMA SkipInit == Init => SkipInv
<1> SUFFICES ASSUME Init PROVE SkipInv
  OBVIOUS
<1>1. \A a \in Actors : V(a) = NoVisit
  BY DEF Init, V
<1>2. LeftsMatch
  BY DEF Init, LeftsMatch
<1>3. ASSUME NEW u \in Users, NEW p \in Podcasts, Follows(u, p)
      PROVE  cursor[u][p] # Empty /\ Sent(u, p, cursor[u][p])
  <2>1. cursor[u][p] = 0
    BY <1>3 DEF Init, Follows
  <2>2. \A e \in Episodes : ~(e <= 0)
    BY Numbers
  <2> QED  BY <2>1, <2>2 DEF Sent, Empty
<1>4. VisitsCover
  <2>1. KnownTo(NoVisit) /\ Covers(NoVisit)
    BY NoVisitType DEF KnownTo, Covers
  <2> QED  BY <1>1, <2>1 DEF VisitsCover
<1> QED  BY <1>2, <1>3, <1>4, HeadsInit DEF SkipInv, CursorsSent

\* A cursor never stands on an episode its person was not sent, whatever refreshes, stops and
\* errors came between reading the cursor and writing it.
THEOREM CursorsStandOnSent == Spec => []NothingSkipped
<1>1. SkipInv => NothingSkipped
  <2> SUFFICES ASSUME SkipInv, NEW u \in Unlimited, NEW p \in Podcasts \ Unparsed, NEW e \in Episodes,
                      <<u, p>> \in Subs, e <= cursor[u][p], e > feed[p] - Window
               PROVE  queued[u][p][e] > 0
    BY DEF NothingSkipped
  <2>1. u \in Users /\ Follows(u, p)
    BY CircleAssumption DEF CircleAssumption, Unlimited, Follows
  <2> QED  BY <2>1 DEF SkipInv, CursorsSent, Sent
<1> QED  BY <1>1, ShapeInit, ShapeStep, SkipInit, SkipStays, PTL DEF Spec

-----------------------------------------------------------------------------
(***************************************************************************)
(* Twice only for cause.  Of a podcast nothing disturbed, one visit at a   *)
(* time is under way; what was queued is behind the cursor it goes by, or  *)
(* the visit that queued it has that cursor still to write; and what a     *)
(* visit compares with is no older than what was queued.                   *)
(***************************************************************************)
Calm == Podcasts \ mixed

\* Queued for a chat, and a visit has still to write the cursor the chat goes by.
Told(ch, p, e) == queued[ch][p][e] > 0
Pending(ch, p) == \E a \in Actors : V(a).p = p /\ Bill(ch) \in V(a).todo

\* The walk is over when the process is not walking.
Walks == /\ proc # "walk" => V("circle").pc = "off"
         /\ sup \in {"backoff", "off"} => proc = "down"

Alone == \A p \in Calm : V("circle").p = p /\ V("refresh").p = p => V("circle").pc = "target"

QueuedIsPublished == \A ch \in Chats, p \in Podcasts, e \in Episodes : Told(ch, p, e) => e <= feed[p]

CursorsStand ==
    \A ch \in Chats, p \in Calm, e \in Episodes :
        Told(ch, p, e) => Pending(ch, p) \/ (e <= cursor[Bill(ch)][p] /\ e <= latest[p])

HeadsStand ==
    \A a \in Actors, p \in Calm :
        V(a).p = p /\ (V(a).pc \in {"persist", "queue"} \/ V(a).todo # {}) =>
            \A ch \in Chats, e \in Episodes : Told(ch, p, e) => e <= V(a).head

SnapshotsStand ==
    \A a \in Actors, p \in Calm : V(a).p = p =>
        /\ a = "circle" /\ V(a).pc = "target" => Fresh(V(a))
        /\ V(a).pc \in {"target", "fetch", "persist", "queue"} =>
             \A ch \in DOMAIN V(a).to, e \in Episodes :
                 Told(ch, p, e) => e <= V(a).to[ch] \/ (V(a).pc = "queue" /\ e < V(a).next)

FreeStand ==
    \A a \in Actors, p \in Calm : V(a).p = p =>
        /\ \A ch \in DOMAIN V(a).to : Bill(ch) \notin DOMAIN V(a).free
        /\ \A ch \in Chats, e \in Episodes :
             Told(ch, p, e) /\ Bill(ch) \in DOMAIN V(a).free => e <= V(a).free[Bill(ch)]

TodoStands ==
    \A a \in Actors :
        /\ V(a).pc = "queue" => V(a).todo = Rows(a)
        /\ \A p \in Calm : V(a).p = p /\ V(a).todo # {} =>
             /\ V(a).pc \in {"queue", "free", "cursors"}
             /\ V(a).pc # "queue" => V(a).head <= latest[p]

TwiceInv == /\ HeadsRead /\ Walks /\ Alone /\ QueuedIsPublished /\ CursorsStand /\ HeadsStand
            /\ SnapshotsStand /\ FreeStand /\ TodoStands /\ TwiceForCause

LEMMA CalmStays ==
    ASSUME Shape, Next, NEW p, p \in Calm'
    PROVE  p \in Calm /\ p \in Podcasts /\ p # 0
BY Frames, Numbers DEF Calm

\* A visit that works is past reading whom it is for.
LEMMA AtWork ==
    ASSUME NEW a \in Actors, VisitStep(a) \/ FetchFails(a) \/ Fault(a)
    PROVE  V(a).pc \notin {"off", "target", "done"}
<1>1. ASSUME VisitStep(a) PROVE V(a).pc \in {"fetch", "persist", "queue", "free", "cursors"}
  BY <1>1 DEF VisitStep, Fetch, NotModified, Persist, Enqueue, SetLatest, FreeDone, FlagFree, MoveCursor, At
<1>2. ASSUME FetchFails(a) \/ Fault(a) PROVE V(a).pc \notin {"off", "target", "done"}
  BY <1>2 DEF FetchFails, Fault, At
<1> QED  BY <1>1, <1>2

LEMMA WalksStep ==
    ASSUME Shape, Walks, Next
    PROVE  Walks'
<1> USE DEF tables, outputs, process, group
<1>1. /\ visit \in [Actors -> VisitSet] /\ "circle" \in Actors /\ "refresh" \in Actors
  BY DEF Shape, VisitsOK, Actors
<1>2. ASSUME proc' = proc, sup' = sup, V("circle").pc # "off" \/ V("circle")'.pc = V("circle").pc
      PROVE  Walks'
  BY <1>2 DEF Walks
<1>3. ASSUME NEW a \in Actors, VisitStep(a) \/ FetchFails(a) \/ Fault(a) PROVE Walks'
  <2>1. proc' = proc /\ sup' = sup
    BY <1>3 DEF VisitStep, Fetch, NotModified, Persist, Enqueue, SetLatest, FreeDone, FetchFails, Fault,
                FlagFree, MoveCursor
  <2>2. V(a).pc # "off" /\ \A b \in Actors \ {a} : V(b)' = V(b)
    BY <1>3, StepsOfAVisit
  <2>3. a = "circle" \/ V("circle")' = V("circle")
    BY <1>1, <2>2
  <2> QED  BY <1>2, <2>1, <2>2, <2>3
<1>4. ASSUME ReadTargets \/ NextPodcast PROVE Walks'
  <2>1. proc' = proc /\ sup' = sup /\ V("circle").pc # "off"
    BY <1>4 DEF ReadTargets, NextPodcast, At
  <2> QED  BY <1>2, <2>1
<1>5. ASSUME (\E u \in Users, p \in Podcasts : Asked(u, p)) \/ ReadChannel \/ Answered \/ RefreshDies
      PROVE  Walks'
  <2>1. proc' = proc /\ sup' = sup
    BY <1>5 DEF Asked, ReadChannel, Answered, RefreshDies
  <2>2. V("circle")' = V("circle")
    BY <1>5, CircleEffects
  <2> QED  BY <1>2, <2>1, <2>2
<1>6. ASSUME CutCircle \/ Crash \/ KillerCrash \/ Terminated PROVE Walks'
  <2>1. V("circle")' = NoVisit
    BY <1>6, CircleEffects
  <2>2. sup' = sup /\ proc # "down"
    BY <1>6 DEF CutCircle, Crash, KillerCrash, Terminated, Running, At, Walks
  <2> QED  BY <2>1, <2>2, NoVisitType DEF Walks
<1>7. ASSUME \/ Boot \/ EndCircle \/ Deploy \/ SupervisorStep PROVE Walks'
  <2>1. V("circle")' = V("circle")
    BY <1>7 DEF Boot, EndCircle, Deploy, SupervisorStep, Reap, FinishPass, Respawn, Leave, Start, V
  <2>2. CASE Boot \/ EndCircle
    BY <2>1, <2>2 DEF Boot, EndCircle, Walks, At
  <2>3. CASE Deploy
    BY <2>1, <2>3 DEF Deploy, Walks
  <2>4. CASE SupervisorStep
    BY <2>1, <2>4 DEF SupervisorStep, Reap, FinishPass, Respawn, Leave, Start, Walks
  <2> QED  BY <1>7, <2>2, <2>3, <2>4
<1>8. ASSUME StartCircle PROVE Walks'
  BY <1>8 DEF StartCircle, Walks
<1>9. ASSUME \/ \E u \in Users : Charge(u) \/ \E p \in Podcasts : MarkSeen(u, p)
             \/ \E p \in Podcasts : Publish(p) \/ StrangerSubscribes(p)
      PROVE  Walks'
  BY <1>9 DEF Charge, MarkSeen, Publish, StrangerSubscribes, Walks, V
<1> QED  BY <1>3, <1>4, <1>5, <1>6, <1>7, <1>8, <1>9 DEF Next, CircleStep, Environment

LEMMA AloneStep ==
    ASSUME Shape, Alone, Next
    PROVE  Alone'
<1> SUFFICES ASSUME NEW p, p \in Calm', V("circle")'.p = p, V("refresh")'.p = p
             PROVE  V("circle")'.pc = "target"
  BY DEF Alone
<1>1. p \in Calm /\ p \in Podcasts /\ p # 0 /\ "circle" \in Actors /\ "refresh" \in Actors /\ p \notin mixed'
  BY CalmStays DEF Actors, Calm
<1> DEFINE Fine == V("circle")'.pc = "target"
<1>2. ASSUME V("refresh").p = p, V("circle")' = V("circle") PROVE Fine
  BY <1>1, <1>2 DEF Alone
<1>3. ASSUME NEW a \in Actors, VisitStep(a) \/ FetchFails(a) \/ Fault(a) PROVE Fine
  <2>1. /\ V(a)'.p = V(a).p /\ (\A b \in Actors \ {a} : V(b)' = V(b)) /\ V(a).pc # "target"
    BY <1>3, AtWork, StepsOfAVisit
  <2>2. CASE a = "circle"
    BY <1>1, <2>1, <2>2 DEF Alone
  <2>3. CASE a = "refresh"
    BY <1>1, <1>2, <2>1, <2>3
  <2> QED  BY <2>2, <2>3 DEF Actors
<1>4. ASSUME StartCircle \/ NextPodcast PROVE Fine
  BY <1>1, <1>4, Faced
<1>5. ASSUME ReadTargets PROVE Fine
  <2>1. V("circle").p = p /\ V("refresh").p = p
    BY <1>5, TargetsRead
  <2>2. p \in mixed'
    BY <1>5, <2>1 DEF ReadTargets
  <2> QED  BY <1>1, <2>2
<1>6. ASSUME CutCircle \/ Crash \/ KillerCrash \/ Terminated \/ Answered \/ RefreshDies PROVE Fine
  BY <1>1, <1>6, VisitGone, NoVisitType
<1>7. ASSUME NEW u \in Users, NEW q \in Podcasts, Asked(u, q) PROVE Fine
  <2>1. V("circle").p = p /\ q = p /\ V("circle")' = V("circle")
    BY <1>7, WasAsked
  <2> QED  BY <1>1, <1>7, <2>1 DEF Asked, At
<1>8. ASSUME ReadChannel PROVE Fine
  BY <1>2, <1>8, ChannelRead
<1>9. ASSUME UNCHANGED visit PROVE Fine
  <2>1. V("refresh").p = p /\ V("circle")' = V("circle")
    BY <1>9 DEF V
  <2> QED  BY <1>2, <2>1
<1>10. Fine
  <2> HIDE DEF Fine
  <2> QED  BY <1>3, <1>4, <1>5, <1>6, <1>7, <1>8, <1>9, Movers
<1> QED  BY <1>10

LEMMA WasTold ==
    ASSUME Shape, Next, NEW ch \in Chats, NEW p \in Podcasts, NEW e \in Episodes, Told(ch, p, e)'
    PROVE  \/ Told(ch, p, e)
           \/ \E a \in Actors : /\ Enqueue(a) /\ V(a).p = p /\ V(a).next = e
                                /\ e \in Items(a) /\ ch \in Receive(a, e)
<1>1. CASE queued' = queued
  BY <1>1 DEF Told
<1>2. ASSUME NEW a \in Actors, Enqueue(a), ~Told(ch, p, e)
      PROVE  V(a).p = p /\ V(a).next = e /\ e \in Items(a) /\ ch \in Receive(a, e)
  <2> DEFINE q == V(a).p
             n == V(a).next
             to == IF n \in Items(a) THEN Receive(a, n) ELSE {}
  <2>1. queued[ch] \in [Podcasts -> [Episodes -> 0..2]]
    BY DEF Shape, CircleTypeOK
  <2>2. queued'[ch] = IF ch \in to THEN [queued[ch] EXCEPT ![q][n] = IF @ = 2 THEN 2 ELSE @ + 1]
                      ELSE queued[ch]
    BY <1>2 DEF Enqueue
  <2>3. ch \in to /\ q = p /\ n = e
    <3> HIDE DEF q, n, to
    <3> QED  BY <1>2, <2>1, <2>2 DEF Told
  <2> QED  BY <2>3
<1> QED  BY <1>1, <1>2, Frames

\* While a visit of a calm podcast works, at most the circle is about to visit it too.
LEMMA OthersWait ==
    ASSUME Shape, Alone, SnapshotsStand, NEW a \in Actors, NEW b \in Actors \ {a}, NEW p \in Calm,
           V(a).p = p, V(b).p = p, V(a).pc # "target"
    PROVE  b = "circle" /\ Fresh(V(b)) /\ V(b).pc = "target"
<1>1. V("circle").p = p /\ V("refresh").p = p
  BY DEF Actors
<1>2. V("circle").pc = "target" /\ b = "circle"
  BY <1>1 DEF Alone, Actors
<1> QED  BY <1>2 DEF SnapshotsStand, Actors

LEMMA StillTold ==
    ASSUME Shape, Alone, SnapshotsStand, Next, NEW b \in Actors, NEW p \in Calm, V(b).p = p, ~Enqueue(b)
    PROVE  Fresh(V(b)) \/ \A ch \in Chats, e \in Episodes : Told(ch, p, e)' => Told(ch, p, e)
<1>1. p \in Podcasts
  BY DEF Calm
<1>2. ASSUME NEW ch \in Chats, NEW e \in Episodes, Told(ch, p, e)', ~Told(ch, p, e) PROVE Fresh(V(b))
  <2>1. PICK a \in Actors : Enqueue(a) /\ V(a).p = p
    BY <1>1, <1>2, WasTold
  <2>2. V(a).pc # "target" /\ a # b
    BY <2>1 DEF Enqueue, At
  <2> QED  BY <2>1, <2>2, OthersWait
<1> QED  BY <1>2

\* The one visit of a calm podcast that works: what it does not queue was queued before.
LEMMA ToldBefore ==
    ASSUME Shape, Alone, SnapshotsStand, Next, NEW b \in Actors, VisitStep(b) \/ FetchFails(b) \/ Fault(b),
           NEW p \in Calm, V(b).p = p, NEW ch \in Chats, NEW e \in Episodes, Told(ch, p, e)'
    PROVE  \/ Told(ch, p, e)
           \/ Enqueue(b) /\ V(b).next = e /\ e \in Items(b) /\ ch \in Receive(b, e)
<1>1. p \in Podcasts
  BY DEF Calm
<1>2. ASSUME NEW a \in Actors, Enqueue(a), V(a).p = p PROVE a = b
  <2>1. V(b).pc # "target" /\ V(a).pc # "target"
    BY <1>2, AtWork DEF Enqueue, At
  <2> QED  BY <1>2, <2>1, OthersWait
<1> QED  BY <1>1, <1>2, WasTold

LEMMA PublishedStep ==
    ASSUME Shape, HeadsRead, QueuedIsPublished, Next
    PROVE  QueuedIsPublished'
<1> SUFFICES ASSUME NEW ch \in Chats, NEW p \in Podcasts, NEW e \in Episodes, Told(ch, p, e)'
             PROVE  e <= feed'[p]
  BY DEF QueuedIsPublished
<1>1. feed[p] \in Nat /\ feed'[p] \in Nat /\ feed[p] <= feed'[p] /\ e \in Nat
  BY FeedGrows, Numbers
<1>2. CASE Told(ch, p, e)
  BY <1>1, <1>2 DEF QueuedIsPublished
<1>3. ASSUME NEW a \in Actors, Enqueue(a), V(a).p = p, V(a).next = e PROVE e <= feed[p]
  <2>1. V(a).pc = "queue" /\ e <= V(a).head
    BY <1>3 DEF Enqueue, At
  <2>2. HeadOK(V(a)) /\ V(a).head \in Int
    BY SoughtAreChats, Numbers DEF HeadsRead, VisitSet
  <2> QED  BY <1>1, <1>3, <2>1, <2>2 DEF HeadOK
<1> QED  BY <1>1, <1>2, <1>3, WasTold

LEMMA HeadsStandStep ==
    ASSUME Shape, TwiceInv, Next
    PROVE  HeadsStand'
<1> SUFFICES ASSUME NEW b \in Actors, NEW p, p \in Calm', V(b)'.p = p
             PROVE  V(b)'.pc \in {"persist", "queue"} \/ V(b)'.todo # {} =>
                        \A ch \in Chats, e \in Episodes : Told(ch, p, e)' => e <= V(b)'.head
  BY DEF HeadsStand
<1> DEFINE Fine == V(b)'.pc \in {"persist", "queue"} \/ V(b)'.todo # {} =>
                       \A ch \in Chats, e \in Episodes : Told(ch, p, e)' => e <= V(b)'.head
<1>1. /\ p \in Calm /\ p \in Podcasts /\ Alone /\ SnapshotsStand /\ HeadOK(V(b))
      /\ V(b).p = p /\ (V(b).pc \in {"persist", "queue"} \/ V(b).todo # {}) =>
            \A ch \in Chats, e \in Episodes : Told(ch, p, e) => e <= V(b).head
  BY CalmStays DEF TwiceInv, HeadsRead, HeadsStand
<1>2. ASSUME V(b)' = V(b), ~Enqueue(b) PROVE Fine
  <2>1. Fresh(V(b)) \/ \A ch \in Chats, e \in Episodes : Told(ch, p, e)' => Told(ch, p, e)
    BY <1>1, <1>2, StillTold
  <2> QED  BY <1>1, <1>2, <2>1 DEF Fresh
<1>3. ASSUME V(b)'.todo = {}, V(b)'.pc \in {"off", "target", "fetch", "done", "free"} PROVE Fine
  BY <1>3
<1>4. ASSUME VisitStep(b) \/ FetchFails(b) \/ Fault(b) PROVE Fine
  <2>1. V(b).p = p
    BY <1>4, StepsOfAVisit
  <2>2. ASSUME ~Enqueue(b) PROVE \A ch \in Chats, e \in Episodes : Told(ch, p, e)' => Told(ch, p, e)
    BY <1>1, <1>4, <2>1, <2>2, ToldBefore
  <2>3. ASSUME Fetch(b) PROVE Fine
    <3>1. V(b)'.head = feed[p] /\ ~Enqueue(b)
      BY <2>1, <2>3, Fetched DEF Fetch, Enqueue, At
    <3> QED  BY <1>1, <2>2, <3>1 DEF TwiceInv, QueuedIsPublished
  <2>4. ASSUME NotModified(b) PROVE Fine
    BY <1>1, <1>3, <2>4, Believed DEF NotModified, At, HeadOK
  <2>5. ASSUME Persist(b) PROVE Fine
    <3>1. V(b)'.head = V(b).head /\ V(b).pc = "persist" /\ ~Enqueue(b)
      BY <2>5, Persisted DEF Persist, Enqueue, At
    <3> QED  BY <1>1, <2>1, <2>2, <3>1
  <2>6. ASSUME Enqueue(b) PROVE Fine
    <3>1. V(b)'.head = V(b).head /\ V(b).pc = "queue" /\ V(b).next <= V(b).head
      BY <2>6, Enqueued DEF Enqueue, At
    <3> QED  BY <1>1, <1>4, <2>1, <3>1, ToldBefore
  <2>7. ASSUME SetLatest(b) PROVE Fine
    <3>1. V(b)'.head = V(b).head /\ V(b).pc = "queue" /\ V(b).next > V(b).head
      BY <2>7, LatestSet DEF SetLatest, At
    <3>2. ~Enqueue(b)
      <4>1. V(b).next \in Nat /\ V(b).head \in Int
        BY VisitNumbers
      <4> QED  BY <3>1, <4>1 DEF Enqueue
    <3> QED  BY <1>1, <2>1, <2>2, <3>1, <3>2
  <2>8. ASSUME V(b).pc # "queue", V(b)'.head = V(b).head, V(b)'.todo # {} => V(b).todo # {},
               V(b)'.pc \notin {"persist", "queue"}
        PROVE  Fine
    <3>1. ~Enqueue(b)
      BY <2>8 DEF Enqueue, At
    <3> QED  BY <1>1, <2>1, <2>2, <2>8, <3>1
  <2>9. ASSUME NEW u \in Users, FlagFree(b, u) PROVE Fine
    BY <2>8, <2>9, Flagged DEF FlagFree, At
  <2>10. ASSUME FreeDone(b) PROVE Fine
    BY <2>8, <2>10, FreeWereTold DEF FreeDone, At
  <2>11. ASSUME NEW u \in Users, MoveCursor(b, u) PROVE Fine
    BY <2>8, <2>11, Moved DEF MoveCursor, At
  <2>12. ASSUME FetchFails(b) PROVE Fine
    BY <2>8, <2>12, Stopped DEF FetchFails, At
  <2>13. ASSUME Fault(b) PROVE Fine
    BY <2>1, <2>13 DEF Fault, Calm
  <2> HIDE DEF Fine
  <2> QED  BY <1>4, <2>3, <2>4, <2>5, <2>6, <2>7, <2>9, <2>10, <2>11, <2>12, <2>13 DEF VisitStep
<1>5. ASSUME Fresh(V(b)') PROVE Fine
  BY <1>3, <1>5 DEF Fresh
<1>6. ASSUME b = "circle", ReadTargets PROVE Fine
  <2>1. V(b).todo = {}
    BY <1>1, <1>6 DEF ReadTargets, At, HeadOK
  <2> QED  BY <1>3, <1>6, <2>1, TargetsRead
<1>7. ASSUME b = "refresh", NEW u \in Users, NEW q \in Podcasts, Asked(u, q) PROVE Fine
  BY <1>3, <1>7, WasAsked
<1>8. ASSUME b = "refresh", ReadChannel PROVE Fine
  <2>1. V(b).todo = {}
    BY <1>1, <1>8 DEF ReadChannel, At, HeadOK
  <2> QED  BY <1>3, <1>8, <2>1, ChannelRead
<1>9. Fine
  <2>1. Enqueue(b) => VisitStep(b)
    BY DEF VisitStep
  <2> HIDE DEF Fine
  <2> QED  BY <1>2, <1>4, <1>5, <1>6, <1>7, <1>8, <2>1, NewVisits
<1> QED  BY <1>9

\* What was queued of a calm podcast is behind the cursors, where no visit has cursors to write.
LEMMA CursorsAreAhead ==
    ASSUME CursorsStand, NEW p \in Calm, \A a \in Actors : V(a).p = p => V(a).todo = {}
    PROVE  \A ch \in Chats, e \in Episodes : Told(ch, p, e) => e <= cursor[Bill(ch)][p]
BY DEF CursorsStand, Pending

\* What the circle reads of a podcast that stays calm is ahead of what was queued.
LEMMA TargetsAreAhead ==
    ASSUME Shape, TwiceInv, Next, ReadTargets, NEW p, p \in Calm', p = V("circle").p
    PROVE  \A ch \in Chats, e \in Episodes : Told(ch, p, e)' => e <= cursor[Bill(ch)][p]
<1>1. p \in Calm /\ p \notin mixed'
  BY CalmStays DEF Calm
<1>2. queued' = queued /\ V("refresh").p # p /\ V("circle").pc = "target"
  BY <1>1 DEF ReadTargets, outputs, At
<1>3. \A a \in Actors : V(a).p = p => V(a).todo = {}
  <2>1. V("circle").todo = {}
    BY <1>2 DEF TwiceInv, HeadsRead, HeadOK, Actors
  <2> QED  BY <1>2, <2>1 DEF Actors
<1>4. \A ch \in Chats, e \in Episodes : Told(ch, p, e)' => Told(ch, p, e)
  BY <1>2 DEF Told
<1> QED  BY <1>1, <1>3, <1>4, CursorsAreAhead DEF TwiceInv

\* And what a refresh reads.
LEMMA AskedIsAhead ==
    ASSUME Shape, TwiceInv, Next, NEW u \in Users, NEW p \in Podcasts, Asked(u, p), p \in Calm'
    PROVE  \A ch \in Chats, e \in Episodes : Told(ch, p, e)' => e <= cursor[Bill(ch)][p]
<1>1. p \in Calm /\ p \notin mixed'
  BY CalmStays DEF Calm
<1>2. queued' = queued /\ V("refresh").pc = "off" /\ (V("circle").p = p => V("circle").pc = "target")
  BY <1>1 DEF Asked, outputs, At
<1>3. \A a \in Actors : V(a).p = p => V(a).todo = {}
  BY <1>2 DEF TwiceInv, HeadsRead, HeadOK, Actors
<1>4. \A ch \in Chats, e \in Episodes : Told(ch, p, e)' => Told(ch, p, e)
  BY <1>2 DEF Told
<1> QED  BY <1>1, <1>3, <1>4, CursorsAreAhead DEF TwiceInv

LEMMA SnapshotsStandStep ==
    ASSUME Shape, TwiceInv, Next
    PROVE  SnapshotsStand'
<1> SUFFICES ASSUME NEW b \in Actors, NEW p, p \in Calm', V(b)'.p = p
             PROVE  /\ b = "circle" /\ V(b)'.pc = "target" => Fresh(V(b)')
                    /\ V(b)'.pc \in {"target", "fetch", "persist", "queue"} =>
                         \A ch \in DOMAIN V(b)'.to, e \in Episodes :
                            Told(ch, p, e)' => e <= V(b)'.to[ch] \/ (V(b)'.pc = "queue" /\ e < V(b)'.next)
  BY DEF SnapshotsStand
<1> DEFINE Fine == /\ b = "circle" /\ V(b)'.pc = "target" => Fresh(V(b)')
                   /\ V(b)'.pc \in {"target", "fetch", "persist", "queue"} =>
                        \A ch \in DOMAIN V(b)'.to, e \in Episodes :
                           Told(ch, p, e)' => e <= V(b)'.to[ch] \/ (V(b)'.pc = "queue" /\ e < V(b)'.next)
<1>1. /\ p \in Calm /\ p \in Podcasts /\ Alone /\ SnapshotsStand
      /\ V(b).p = p /\ V(b).pc \in {"target", "fetch", "persist", "queue"} =>
           \A ch \in DOMAIN V(b).to, e \in Episodes :
               Told(ch, p, e) => e <= V(b).to[ch] \/ (V(b).pc = "queue" /\ e < V(b).next)
  BY CalmStays DEF TwiceInv, SnapshotsStand
<1>2. DOMAIN V(b).to \subseteq Chats
  BY SoughtAreChats DEF Sought
<1>3. Fresh(V(b)') => Fine
  BY NoVisitType DEF Fresh
<1>4. ASSUME V(b)' = V(b), ~Enqueue(b) PROVE Fine
  <2>1. CASE Fresh(V(b))
    BY <1>3, <1>4, <2>1
  <2>2. CASE \A ch \in Chats, e \in Episodes : Told(ch, p, e)' => Told(ch, p, e)
    <3>1. b = "circle" /\ V(b).pc = "target" => Fresh(V(b))
      BY <1>1, <1>4 DEF SnapshotsStand
    <3> QED  BY <1>1, <1>2, <1>4, <2>2, <3>1
  <2> QED  BY <1>1, <1>4, <2>1, <2>2, StillTold
<1>5. ASSUME VisitStep(b) \/ FetchFails(b) \/ Fault(b) PROVE Fine
  <2>1. V(b).p = p
    BY <1>5, StepsOfAVisit
  <2>2. ASSUME V(b).pc \in {"fetch", "persist"}, V(b)'.pc \in {"persist", "queue"}, V(b)'.to = V(b).to
        PROVE  Fine
    <3>1. ~Enqueue(b)
      BY <2>2 DEF Enqueue, At
    <3>2. \A ch \in Chats, e \in Episodes : Told(ch, p, e)' => Told(ch, p, e)
      BY <1>1, <1>5, <2>1, <3>1, ToldBefore
    <3> QED  BY <1>1, <1>2, <2>1, <2>2, <3>2
  <2>3. ASSUME Enqueue(b) PROVE Fine
    <3>1. /\ V(b).pc = "queue" /\ V(b)'.pc = "queue" /\ V(b)'.to = V(b).to
          /\ V(b)'.next = V(b).next + 1 /\ V(b).next \in Nat
      BY <2>3, Enqueued, VisitNumbers DEF Enqueue, At
    <3>2. ASSUME NEW ch \in DOMAIN V(b).to, NEW e \in Episodes, Told(ch, p, e)'
          PROVE  e <= V(b).to[ch] \/ e < V(b).next + 1
      <4>1. CASE Told(ch, p, e)
        BY <1>1, <2>1, <3>1, <4>1, Numbers
      <4>2. CASE V(b).next = e
        BY <3>1, <4>2
      <4> QED  BY <1>1, <1>2, <1>5, <2>1, <3>2, <4>1, <4>2, ToldBefore
    <3> QED  BY <3>1, <3>2
  <2>4. ASSUME V(b)'.pc \in {"free", "cursors", "done"} PROVE Fine
    BY <2>4
  <2>5. ASSUME Fetch(b) \/ Persist(b) PROVE Fine
    <3>1. V(b).pc \in {"fetch", "persist"}
      BY <2>5 DEF Fetch, Persist, At
    <3> HIDE DEF Fine
    <3> QED  BY <2>2, <2>5, <3>1, Fetched, Persisted
  <2>6. ASSUME NotModified(b) \/ SetLatest(b) \/ FreeDone(b) \/ FetchFails(b) \/ Fault(b) PROVE Fine
    <3> HIDE DEF Fine
    <3> QED  BY <2>4, <2>6, Believed, LatestSet, FreeWereTold, Stopped
  <2>7. ASSUME NEW u \in Users, FlagFree(b, u) \/ MoveCursor(b, u) PROVE Fine
    <3>1. FlagFree(b, u) => V(b).pc = "free"
      BY DEF FlagFree, At
    <3> HIDE DEF Fine
    <3> QED  BY <2>4, <2>7, <3>1, Flagged, Moved
  <2> HIDE DEF Fine
  <2> QED  BY <1>5, <2>3, <2>5, <2>6, <2>7 DEF VisitStep
<1>6. ASSUME b = "circle", ReadTargets PROVE Fine
  <2>1. V(b).p = p /\ \A ch \in Targets(p) : V(b)'.to[ch] = cursor[Bill(ch)][p]
    BY <1>6, TargetsRead
  <2>2. DOMAIN V(b)'.to = Targets(p) /\ V(b)'.pc # "target"
    BY <1>6, <2>1, TargetsRead
  <2>3. Targets(p) \subseteq Chats
    BY DEF Targets, Listeners, Reposts, Chats
  <2> QED  BY <1>6, <2>1, <2>2, <2>3, TargetsAreAhead
<1>7. ASSUME b = "refresh", NEW u \in Users, NEW q \in Podcasts, Asked(u, q) PROVE Fine
  <2>1. q = p /\ DOMAIN V(b)'.to = {u} /\ V(b)'.to[u] = cursor[u][p] /\ V(b)'.pc = "target"
    <3>1. V(b)'.p = q
      BY <1>7, WasAsked
    <3>2. V(b)'.to = [ch \in {u} |-> cursor[u][q]] /\ V(b)'.pc = "target"
      BY <1>7, WasAsked
    <3> QED  BY <3>1, <3>2
  <2>2. \A e \in Episodes : Told(u, p, e)' => e <= cursor[u][p]
    <3>1. p \in Podcasts /\ Asked(u, p) /\ Bill(u) = u /\ u \in Chats
      BY <1>1, <1>7, <2>1, PersonBills
    <3>2. \A ch \in Chats, e \in Episodes : Told(ch, p, e)' => e <= cursor[Bill(ch)][p]
      BY <3>1, AskedIsAhead
    <3> QED  BY <3>1, <3>2
  <2> QED  BY <1>7, <2>1, <2>2
<1>8. ASSUME b = "refresh", ReadChannel PROVE Fine
  <2>1. V(b).p = p /\ V(b).pc = "target" /\ V(b)'.to = V(b).to
    BY <1>8, ChannelRead DEF ReadChannel, At
  <2>2. \A ch \in Chats, e \in Episodes : Told(ch, p, e)' => Told(ch, p, e)
    BY <1>8 DEF ReadChannel, outputs, Told
  <2> QED  BY <1>1, <1>2, <1>8, <2>1, <2>2
<1>9. Fine
  <2>1. Enqueue(b) => VisitStep(b)
    BY DEF VisitStep
  <2> HIDE DEF Fine
  <2> QED  BY <1>3, <1>4, <1>5, <1>6, <1>7, <1>8, <2>1, NewVisits
<1> QED  BY <1>9

LEMMA FreeStandStep ==
    ASSUME Shape, TwiceInv, Next
    PROVE  FreeStand'
<1> SUFFICES ASSUME NEW b \in Actors, NEW p, p \in Calm', V(b)'.p = p
             PROVE  /\ \A ch \in DOMAIN V(b)'.to : Bill(ch) \notin DOMAIN V(b)'.free
                    /\ \A ch \in Chats, e \in Episodes :
                         Told(ch, p, e)' /\ Bill(ch) \in DOMAIN V(b)'.free => e <= V(b)'.free[Bill(ch)]
  BY DEF FreeStand
<1> DEFINE Fine == /\ \A ch \in DOMAIN V(b)'.to : Bill(ch) \notin DOMAIN V(b)'.free
                   /\ \A ch \in Chats, e \in Episodes :
                        Told(ch, p, e)' /\ Bill(ch) \in DOMAIN V(b)'.free => e <= V(b)'.free[Bill(ch)]
<1>1. /\ p \in Calm /\ p \in Podcasts /\ Alone /\ SnapshotsStand
      /\ V(b).p = p =>
           /\ \A ch \in DOMAIN V(b).to : Bill(ch) \notin DOMAIN V(b).free
           /\ \A ch \in Chats, e \in Episodes :
                Told(ch, p, e) /\ Bill(ch) \in DOMAIN V(b).free => e <= V(b).free[Bill(ch)]
  BY CalmStays DEF TwiceInv, FreeStand
<1>2. Fresh(V(b)') => Fine
  BY NoVisitType DEF Fresh
<1>3. ASSUME V(b)' = V(b), ~Enqueue(b) PROVE Fine
  <2>1. CASE Fresh(V(b))
    BY <1>2, <1>3, <2>1
  <2>2. CASE \A ch \in Chats, e \in Episodes : Told(ch, p, e)' => Told(ch, p, e)
    BY <1>1, <1>3, <2>2
  <2> QED  BY <1>1, <1>3, <2>1, <2>2, StillTold
<1>4. ASSUME VisitStep(b) \/ FetchFails(b) \/ Fault(b) PROVE Fine
  <2>1. V(b).p = p /\ V(b)'.to \in {V(b).to, << >>}
    BY <1>4, StepsOfAVisit
  <2>2. /\ DOMAIN V(b)'.free \subseteq DOMAIN V(b).free
        /\ \A u \in DOMAIN V(b)'.free : V(b)'.free[u] = V(b).free[u]
    BY <1>4, FreeShrinks
  <2>3. \A ch \in DOMAIN V(b)'.to : Bill(ch) \notin DOMAIN V(b)'.free
    BY <1>1, <2>1, <2>2, NoVisitType
  <2>4. ASSUME NEW ch \in Chats, NEW e \in Episodes, Told(ch, p, e)', Bill(ch) \in DOMAIN V(b)'.free
        PROVE  e <= V(b)'.free[Bill(ch)]
    <3>1. CASE Told(ch, p, e)
      BY <1>1, <2>1, <2>2, <2>4, <3>1
    <3>2. CASE ch \in Receive(b, e)
      <4>1. ch \in DOMAIN V(b).to
        BY <3>2, ReceiversAreSought DEF Sought
      <4> QED  BY <1>1, <2>1, <2>2, <2>4, <4>1
    <3> QED  BY <1>1, <1>4, <2>1, <2>4, <3>1, <3>2, ToldBefore
  <2> QED  BY <2>3, <2>4
<1>5. ASSUME b = "circle", ReadTargets PROVE Fine
  <2>1. V(b).p = p /\ DOMAIN V(b)'.to = Targets(p) /\ DOMAIN V(b)'.free = FreeOf(p)
    <3>1. V(b).p = p
      BY <1>5, TargetsRead
    <3> QED  BY <1>5, <3>1, TargetsRead
  <2>2. \A u \in FreeOf(p) : V(b)'.free[u] = cursor[u][p]
    BY <1>5, <2>1, TargetsRead
  <2>3. \A ch \in Targets(p) : Bill(ch) \notin FreeOf(p)
    BY DEF Targets, FreeOf
  <2>4. \A ch \in Chats, e \in Episodes : Told(ch, p, e)' => e <= cursor[Bill(ch)][p]
    BY <1>5, <2>1, TargetsAreAhead
  <2> QED  BY <2>1, <2>2, <2>3, <2>4
<1>6. ASSUME b = "refresh", NEW u \in Users, NEW q \in Podcasts, Asked(u, q) PROVE Fine
  <2>1. V(b)'.free = << >>
    BY <1>6, WasAsked
  <2> QED  BY <2>1, NoVisitType
<1>7. ASSUME b = "refresh", ReadChannel PROVE Fine
  <2>1. V(b).p = p /\ V(b)'.to = V(b).to /\ V(b)'.free = V(b).free
    BY <1>7, ChannelRead
  <2>2. \A ch \in Chats, e \in Episodes : Told(ch, p, e)' => Told(ch, p, e)
    BY <1>7 DEF ReadChannel, outputs, Told
  <2> QED  BY <1>1, <2>1, <2>2
<1>8. Fine
  <2>1. Enqueue(b) => VisitStep(b)
    BY DEF VisitStep
  <2> HIDE DEF Fine
  <2> QED  BY <1>2, <1>3, <1>4, <1>5, <1>6, <1>7, <2>1, NewVisits
<1> QED  BY <1>8

LEMMA RowsStay ==
    ASSUME NEW a, V(a)'.to = V(a).to, V(a)'.latest = V(a).latest, V(a)'.head = V(a).head
    PROVE  Rows(a)' = Rows(a)
<1>1. Sought(a)' = Sought(a) /\ Items(a)' = Items(a)
  BY DEF Sought, Items
<1>2. \A ch : Seen(a, ch)' = Seen(a, ch)
  BY DEF Seen
<1>3. Quiet(a)' = Quiet(a)
  BY <1>1, <1>2 DEF Quiet
<1>4. \A e : Wants(a, e)' = Wants(a, e)
  BY <1>1, <1>2, <1>3 DEF Wants
<1>5. HasNews(a)' = HasNews(a)
  BY <1>1, <1>4 DEF HasNews
<1> QED  BY <1>1, <1>3, <1>5 DEF Rows

LEMMA LatestGrows ==
    ASSUME Shape, Alone, SnapshotsStand, Next, NEW b \in Actors, NEW p \in Calm, V(b).p = p, ~SetLatest(b)
    PROVE  Fresh(V(b)) \/ latest[p] <= latest'[p]
<1>1. p \in Podcasts /\ latest \in [Podcasts -> Cursors] /\ latest[p] \in Int
  <2>1. p \in Podcasts /\ latest \in [Podcasts -> Cursors]
    BY DEF Calm, Shape, CircleTypeOK
  <2>2. latest[p] \in Cursors
    BY <2>1
  <2> QED  BY <2>1, <2>2, Numbers
<1>2. CASE latest' = latest
  BY <1>1, <1>2
<1>3. ASSUME NEW a \in Actors, SetLatest(a) PROVE Fresh(V(b)) \/ latest[p] <= latest'[p]
  <2>1. PICK q, h : q = V(a).p /\ latest' = [latest EXCEPT ![q] = h] /\ V(a).pc = "queue" /\ a # b
    BY <1>3 DEF SetLatest, At
  <2>2. CASE q = p
    BY <2>1, <2>2, OthersWait
  <2>3. CASE q # p
    BY <1>1, <2>1, <2>3
  <2> QED  BY <2>2, <2>3
<1>4. ASSUME NEW q \in Podcasts, StrangerSubscribes(q) PROVE latest[p] <= latest'[p]
  <2>1. latest[q] < feed[q] /\ latest' = [latest EXCEPT ![q] = feed[q]]
    BY <1>4 DEF StrangerSubscribes
  <2>2. feed[q] \in Int
    BY FeedGrows
  <2> QED  BY <1>1, <2>1, <2>2
<1> QED  BY <1>2, <1>3, <1>4, Frames

LEMMA TodoStandsStep ==
    ASSUME Shape, TwiceInv, Next
    PROVE  TodoStands'
<1>1. ASSUME NEW b \in Actors, V(b)'.pc = "queue" PROVE V(b)'.todo = Rows(b)'
  <2> DEFINE Fine == V(b)'.todo = Rows(b)'
  <2>1. ASSUME V(b)' = V(b) PROVE Fine
    BY <1>1, <2>1, RowsStay DEF TwiceInv, TodoStands
  <2>2. ASSUME Persist(b) PROVE Fine
    <3>1. /\ V(b)'.todo = Rows(b) /\ V(b)'.to = V(b).to /\ V(b)'.latest = V(b).latest
          /\ V(b)'.head = V(b).head
      BY <2>2, Persisted
    <3> QED  BY <3>1, RowsStay
  <2>3. ASSUME Enqueue(b) PROVE Fine
    <3>1. /\ V(b)'.todo = V(b).todo /\ V(b)'.to = V(b).to /\ V(b)'.latest = V(b).latest
          /\ V(b)'.head = V(b).head /\ V(b).pc = "queue"
      BY <2>3, Enqueued DEF Enqueue, At
    <3> QED  BY <3>1, RowsStay DEF TwiceInv, TodoStands
  <2>4. ASSUME VisitStep(b) \/ FetchFails(b) \/ Fault(b) PROVE Persist(b) \/ Enqueue(b)
    <3>1. ASSUME NEW u \in Users, FlagFree(b, u) \/ MoveCursor(b, u) PROVE V(b)'.pc # "queue"
      BY <3>1, Flagged, Moved DEF FlagFree, At
    <3> QED  BY <1>1, <2>4, <3>1, Fetched, Believed, LatestSet, FreeWereTold, Stopped DEF VisitStep
  <2>5. Fine
    <3>1. ~Fresh(V(b)')
      BY <1>1 DEF Fresh
    <3>2. ~(b = "circle" /\ ReadTargets)
      BY <1>1, TargetsRead
    <3>3. ~(b = "refresh" /\ \E u \in Users, p \in Podcasts : Asked(u, p))
      BY <1>1, WasAsked
    <3>4. ~(b = "refresh" /\ ReadChannel)
      BY <1>1, ChannelRead
    <3> HIDE DEF Fine
    <3> QED  BY <2>1, <2>2, <2>3, <2>4, <3>1, <3>2, <3>3, <3>4, NewVisits
  <2> QED  BY <2>5
<1>2. ASSUME NEW b \in Actors, NEW p, p \in Calm', V(b)'.p = p, V(b)'.todo # {}
      PROVE  V(b)'.pc \in {"queue", "free", "cursors"} /\ (V(b)'.pc # "queue" => V(b)'.head <= latest'[p])
  <2> DEFINE Fine == /\ V(b)'.pc \in {"queue", "free", "cursors"}
                     /\ V(b)'.pc # "queue" => V(b)'.head <= latest'[p]
  <2>1. /\ p \in Calm /\ p \in Podcasts /\ Alone /\ SnapshotsStand /\ HeadOK(V(b)) /\ V(b).head \in Int
        /\ latest[p] \in Int /\ latest'[p] \in Int
        /\ V(b).p = p /\ V(b).todo # {} =>
             V(b).pc \in {"queue", "free", "cursors"} /\ (V(b).pc # "queue" => V(b).head <= latest[p])
    <3>1. p \in Calm /\ p \in Podcasts
      BY <1>2, CalmStays
    <3>2. latest[p] \in Cursors /\ latest'[p] \in Cursors
      BY <3>1, TableTypes DEF Shape, CircleTypeOK
    <3> QED  BY <3>1, <3>2, Numbers, VisitNumbers DEF TwiceInv, HeadsRead, TodoStands
  <2>2. ASSUME V(b)' = V(b) PROVE Fine
    <3>1. V(b).p = p /\ V(b).todo # {}
      BY <1>2, <2>2
    <3>2. ~SetLatest(b)
      BY <2>2, LatestSet DEF SetLatest, At
    <3>3. latest[p] <= latest'[p]
      BY <2>1, <3>1, <3>2, LatestGrows DEF Fresh
    <3> QED  BY <2>1, <2>2, <3>1, <3>3
  <2>3. ASSUME VisitStep(b) \/ FetchFails(b) \/ Fault(b) PROVE Fine
    <3>1. V(b).p = p
      BY <1>2, <2>3, StepsOfAVisit
    <3>2. ASSUME V(b).pc = "fetch", V(b)'.todo = V(b).todo PROVE FALSE
      BY <1>2, <2>1, <3>2 DEF HeadOK
    <3>3. ASSUME Fetch(b) \/ NotModified(b) \/ FetchFails(b) PROVE FALSE
      <4>1. V(b).pc = "fetch"
        BY <3>3 DEF Fetch, NotModified, FetchFails, At
      <4> QED  BY <3>2, <3>3, <4>1, Fetched, Believed, Stopped
    <3>4. ASSUME Persist(b) \/ Enqueue(b) PROVE Fine
      <4>1. V(b)'.pc = "queue"
        BY <3>4, Persisted, Enqueued DEF Enqueue, At
      <4> QED  BY <4>1
    <3>5. ASSUME SetLatest(b) PROVE Fine
      <4>1. latest' = [latest EXCEPT ![V(b).p] = V(b).head]
        BY <3>5 DEF SetLatest
      <4>2. latest'[p] = V(b).head
        BY <2>1, <3>1, <4>1 DEF Shape, CircleTypeOK
      <4> QED  BY <2>1, <3>5, <4>2, LatestSet
    <3>6. ASSUME V(b).pc \in {"free", "cursors"}, V(b)'.pc \in {"free", "cursors"}, latest' = latest,
                 V(b)'.head = V(b).head, V(b).todo # {}
          PROVE  Fine
      BY <2>1, <3>1, <3>6
    <3>7. ASSUME NEW u \in Users, FlagFree(b, u) PROVE Fine
      <4>1. V(b).pc = "free" /\ latest' = latest
        BY <3>7 DEF FlagFree, At
      <4> HIDE DEF Fine
      <4> QED  BY <1>2, <3>6, <3>7, <4>1, Flagged
    <3>8. ASSUME FreeDone(b) PROVE Fine
      <4>1. V(b).pc = "free" /\ latest' = latest
        BY <3>8 DEF FreeDone, At, tables
      <4> HIDE DEF Fine
      <4> QED  BY <1>2, <3>6, <3>8, <4>1, FreeWereTold
    <3>9. ASSUME NEW u \in Users, MoveCursor(b, u) PROVE Fine
      <4>1. V(b).pc = "cursors" /\ latest' = latest /\ u \in V(b).todo
        BY <3>9 DEF MoveCursor, At
      <4>2. V(b)'.todo = V(b).todo \ {u} /\ V(b)'.head = V(b).head
            /\ V(b)'.pc = IF V(b).todo = {u} THEN "done" ELSE "cursors"
        BY <3>9, Moved
      <4>3. V(b).todo # {u}
        BY <1>2, <4>2
      <4> HIDE DEF Fine
      <4> QED  BY <3>6, <4>1, <4>2, <4>3
    <3>10. ASSUME Fault(b) PROVE FALSE
      BY <1>2, <3>1, <3>10 DEF Fault, Calm
    <3> HIDE DEF Fine
    <3> QED  BY <2>3, <3>3, <3>4, <3>5, <3>7, <3>8, <3>9, <3>10 DEF VisitStep
  <2>4. ~Fresh(V(b)')
    BY <1>2 DEF Fresh
  <2>5. ~(b = "circle" /\ ReadTargets)
    BY <1>2, <2>1, TargetsRead DEF ReadTargets, At, HeadOK
  <2>6. ~(b = "refresh" /\ \E u \in Users, q \in Podcasts : Asked(u, q))
    BY <1>2, WasAsked
  <2>7. ~(b = "refresh" /\ ReadChannel)
    BY <1>2, <2>1, ChannelRead DEF ReadChannel, At, HeadOK
  <2>8. Fine
    <3> HIDE DEF Fine
    <3> QED  BY <2>2, <2>3, <2>4, <2>5, <2>6, <2>7, NewVisits
  <2> QED  BY <2>8
<1> QED  BY <1>1, <1>2 DEF TodoStands

\* A visit of a calm podcast that has come to queue, goes on until its cursors are written.
LEMMA WorkGoesOn ==
    ASSUME Shape, Walks, Next, NEW a \in Actors, NEW p, p \in Calm', V(a).p = p,
           V(a).pc \in {"queue", "free", "cursors"}
    PROVE  V(a)' = V(a) \/ VisitStep(a)
<1> DEFINE Fine == V(a)' = V(a) \/ VisitStep(a)
<1>1. p \notin mixed'
  BY DEF Calm
<1>2. ASSUME NEW b \in Actors, VisitStep(b) \/ FetchFails(b) \/ Fault(b) PROVE Fine
  <2>1. CASE b # a
    BY <1>2, <2>1, StepsOfAVisit
  <2>2. CASE b = a
    <3>1. ~FetchFails(a) /\ ~Fault(a)
      BY <1>1 DEF FetchFails, Fault, At
    <3> QED  BY <1>2, <2>2, <3>1
  <2> QED  BY <2>1, <2>2
<1>3. ASSUME StartCircle \/ NextPodcast PROVE Fine
  <2>1. a # "circle"
    BY <1>3 DEF StartCircle, NextPodcast, At, Walks
  <2> QED  BY <1>3, <2>1, Faced DEF Actors
<1>4. ASSUME ReadTargets PROVE Fine
  <2>1. a # "circle"
    BY <1>4 DEF ReadTargets, At
  <2>2. V("refresh")' = V("refresh")
    BY <1>4, CircleEffects
  <2> QED  BY <2>1, <2>2 DEF Actors
<1>5. ASSUME CutCircle \/ Crash \/ KillerCrash \/ Terminated PROVE Fine
  <2>1. a # "circle"
    BY <1>1, <1>5 DEF CutCircle, Crash, KillerCrash, Terminated, At
  <2>2. V("refresh")' = V("refresh")
    BY <1>5, CircleEffects
  <2> QED  BY <2>1, <2>2 DEF Actors
<1>6. ASSUME (\E u \in Users, q \in Podcasts : Asked(u, q)) \/ ReadChannel \/ Answered \/ RefreshDies PROVE Fine
  <2>1. a # "refresh"
    BY <1>1, <1>6 DEF Asked, ReadChannel, Answered, RefreshDies, At
  <2>2. V("circle")' = V("circle")
    BY <1>6, CircleEffects
  <2> QED  BY <2>1, <2>2 DEF Actors
<1>7. ASSUME UNCHANGED visit PROVE Fine
  BY <1>7 DEF V
<1>8. Fine
  <2> HIDE DEF Fine
  <2> QED  BY <1>2, <1>3, <1>4, <1>5, <1>6, <1>7, Movers
<1> QED  BY <1>8

\* A cursor that is ahead of what was queued stays ahead, and so does channels.last_*.
LEMMA CursorStaysAhead ==
    ASSUME Shape, TwiceInv, Next, NEW ch \in Chats, NEW p, p \in Calm', NEW e \in Episodes,
           Told(ch, p, e), e <= cursor[Bill(ch)][p], e <= latest[p]
    PROVE  e <= cursor'[Bill(ch)][p] /\ e <= latest'[p]
<1> DEFINE u == Bill(ch)
           Ahead == e <= cursor'[u][p]
           Later == e <= latest'[p]
<1>1. /\ p \in Calm /\ p \in Podcasts /\ u \in Users /\ e \in Int
      /\ cursor \in [Users -> [Podcasts -> Cursors]] /\ latest \in [Podcasts -> Cursors]
  BY CalmStays, Bills, Numbers DEF Shape, CircleTypeOK
<1>2. HeadsStand /\ FreeStand
  BY DEF TwiceInv
<1> HIDE DEF u
<1>3. ASSUME cursor' = cursor PROVE Ahead
  BY <1>3 DEF u
<1>4. ASSUME NEW a \in Actors, NEW o \in Users, MoveCursor(a, o) PROVE Ahead
  <2>1. PICK q, h : /\ q = V(a).p /\ h = V(a).head /\ cursor' = [cursor EXCEPT ![o][q] = h]
                    /\ V(a).todo # {}
    BY <1>4 DEF MoveCursor
  <2>2. q = p => e <= h
    BY <1>1, <1>2, <2>1 DEF HeadsStand
  <2>3. cursor'[u][p] = IF o = u /\ q = p THEN h ELSE cursor[u][p]
    BY <1>1, <2>1
  <2> QED  BY <2>2, <2>3 DEF u
<1>5. ASSUME NEW a \in Actors, NEW o \in Users, FlagFree(a, o) PROVE Ahead
  <2>1. PICK q, h, f : /\ q = V(a).p /\ h = V(a).head /\ o \in DOMAIN V(a).free /\ f = V(a).free[o]
                       /\ cursor' = IF f < h THEN [cursor EXCEPT ![o][q] = h] ELSE cursor
    BY <1>5 DEF FlagFree
  <2>2. q = p /\ o = u => e <= f
    BY <1>1, <1>2, <2>1 DEF FreeStand, u
  <2>3. f \in Int /\ h \in Int
    BY <2>1, VisitNumbers
  <2>4. cursor'[u][p] = IF f < h /\ o = u /\ q = p THEN h ELSE cursor[u][p]
    BY <1>1, <2>1
  <2> QED  BY <1>1, <2>2, <2>3, <2>4 DEF u
<1>6. ASSUME NEW o \in Users, NEW q \in Podcasts, MarkSeen(o, q) PROVE Ahead
  <2>1. cursor' = [cursor EXCEPT ![o][q] = latest[q]]
    BY <1>6 DEF MarkSeen
  <2>2. cursor'[u][p] = IF o = u /\ q = p THEN latest[p] ELSE cursor[u][p]
    BY <1>1, <2>1
  <2> QED  BY <2>2 DEF u
<1>7. Ahead
  <2> HIDE DEF Ahead
  <2> QED  BY <1>3, <1>4, <1>5, <1>6, Frames
<1>8. ASSUME latest' = latest PROVE Later
  BY <1>8
<1>9. ASSUME NEW a \in Actors, SetLatest(a) PROVE Later
  <2>1. PICK q, h : /\ q = V(a).p /\ h = V(a).head /\ latest' = [latest EXCEPT ![q] = h]
                    /\ V(a).pc = "queue"
    BY <1>9 DEF SetLatest, At
  <2>2. q = p => e <= h
    BY <1>1, <1>2, <2>1 DEF HeadsStand
  <2>3. latest'[p] = IF q = p THEN h ELSE latest[p]
    BY <1>1, <2>1
  <2> QED  BY <2>2, <2>3
<1>10. ASSUME NEW q \in Podcasts, StrangerSubscribes(q) PROVE Later
  <2>1. latest[q] < feed[q] /\ latest' = [latest EXCEPT ![q] = feed[q]]
    BY <1>10 DEF StrangerSubscribes
  <2>2. feed[q] \in Int /\ latest[q] \in Int
    <3>1. latest[q] \in Cursors
      BY <1>1
    <3>2. latest[q] \in Int
      BY <3>1, Numbers
    <3>3. feed[q] \in Nat
      BY FeedGrows
    <3> QED  BY <3>2, <3>3
  <2>3. latest'[p] = IF q = p THEN feed[q] ELSE latest[p]
    BY <1>1, <2>1
  <2> QED  BY <1>1, <2>1, <2>2, <2>3
<1>11. Later
  <2> HIDE DEF Later
  <2> QED  BY <1>8, <1>9, <1>10, Frames
<1> QED  BY <1>7, <1>11 DEF u

LEMMA CursorsStandStep ==
    ASSUME Shape, TwiceInv, Next
    PROVE  CursorsStand'
<1> SUFFICES ASSUME NEW ch \in Chats, NEW p, p \in Calm', NEW e \in Episodes, Told(ch, p, e)'
             PROVE  Pending(ch, p)' \/ (e <= cursor'[Bill(ch)][p] /\ e <= latest'[p])
  BY DEF CursorsStand
<1> DEFINE Fine == Pending(ch, p)' \/ (e <= cursor'[Bill(ch)][p] /\ e <= latest'[p])
<1>1. /\ p \in Calm /\ p \in Podcasts /\ e \in Int /\ Bill(ch) \in Users
  BY CalmStays, Bills, Numbers
<1>2. ASSUME NEW a \in Actors, Enqueue(a), V(a).p = p, V(a).next = e, e \in Items(a), ch \in Receive(a, e)
      PROVE  Fine
  <2>1. ch \in Wants(a, e) /\ ch \in Sought(a)
    BY <1>2, ReceiversAreSought
  <2>2. HasNews(a)
    BY <1>2, <2>1 DEF HasNews
  <2>3. Bill(ch) \in Rows(a)
    BY <2>1, <2>2 DEF Rows
  <2>4. Bill(ch) \in V(a).todo
    BY <1>2, <2>3 DEF Enqueue, At, TwiceInv, TodoStands
  <2>5. V(a)'.p = p /\ Bill(ch) \in V(a)'.todo
    BY <1>2, <2>4, Enqueued
  <2> QED  BY <2>5 DEF Pending
<1>3. ASSUME Told(ch, p, e) PROVE Fine
  <2>1. CASE e <= cursor[Bill(ch)][p] /\ e <= latest[p]
    BY <1>3, <2>1, CursorStaysAhead
  <2>2. ASSUME NEW a \in Actors, V(a).p = p, Bill(ch) \in V(a).todo PROVE Fine
    <3>1. /\ V(a).pc \in {"queue", "free", "cursors"} /\ (V(a).pc # "queue" => V(a).head <= latest[p])
          /\ e <= V(a).head
      BY <1>1, <1>3, <2>2 DEF TwiceInv, TodoStands, HeadsStand
    <3>2. V(a)' = V(a) \/ VisitStep(a)
      BY <2>2, <3>1, WorkGoesOn DEF TwiceInv
    <3>3. ASSUME V(a)'.p = p, Bill(ch) \in V(a)'.todo PROVE Fine
      BY <3>3 DEF Pending
    <3>4. ASSUME NEW o \in Users, MoveCursor(a, o) PROVE Fine
      <4>1. V(a)'.p = p /\ V(a)'.todo = V(a).todo \ {o}
        BY <2>2, <3>4, Moved
      <4>2. CASE o # Bill(ch)
        BY <2>2, <3>3, <4>1, <4>2
      <4>3. CASE o = Bill(ch)
        <5>1. cursor' = [cursor EXCEPT ![o][p] = V(a).head] /\ latest' = latest /\ V(a).pc = "cursors"
          BY <2>2, <3>4 DEF MoveCursor, At
        <5>2. cursor'[o][p] = V(a).head
          BY <1>1, <5>1 DEF Shape, CircleTypeOK
        <5>3. latest[p] \in Int /\ V(a).head \in Int
          <6>1. latest[p] \in Cursors
            BY <1>1 DEF Shape, CircleTypeOK
          <6> QED  BY <6>1, Numbers, VisitNumbers
        <5> QED  BY <1>1, <3>1, <4>3, <5>1, <5>2, <5>3
      <4> QED  BY <4>2, <4>3
    <3>5. ASSUME VisitStep(a), \A o \in Users : ~MoveCursor(a, o) PROVE Fine
      <4>1. ~Persist(a)
        BY <3>1 DEF Persist, At
      <4>2. V(a)'.p = V(a).p /\ V(a)'.todo = V(a).todo
        BY <3>5, <4>1, Fetched, Believed, Enqueued, LatestSet, Flagged, FreeWereTold DEF VisitStep
      <4> QED  BY <2>2, <3>3, <4>2
    <3> HIDE DEF Fine
    <3> QED  BY <2>2, <3>2, <3>3, <3>4, <3>5
  <2> HIDE DEF Fine
  <2> QED  BY <1>1, <1>3, <2>1, <2>2 DEF TwiceInv, CursorsStand, Pending
<1>4. Fine
  <2> HIDE DEF Fine
  <2> QED  BY <1>1, <1>2, <1>3, WasTold
<1> QED  BY <1>4

\* What is queued for a chat a second time was queued before, and the chat wanted it again.
LEMMA SecondTime ==
    ASSUME Shape, Next, NEW ch \in Chats, NEW p \in Podcasts, NEW e \in Episodes,
           queued'[ch][p][e] > 1, ~(queued[ch][p][e] > 1)
    PROVE  /\ Told(ch, p, e)
           /\ \E a \in Actors : Enqueue(a) /\ V(a).p = p /\ V(a).next = e /\ ch \in Wants(a, e)
<1>1. queued' # queued
  OBVIOUS
<1>2. PICK a \in Actors : Enqueue(a)
  BY <1>1, Frames
<1> DEFINE q == V(a).p
           n == V(a).next
           to == IF n \in Items(a) THEN Receive(a, n) ELSE {}
<1>3. queued[ch] \in [Podcasts -> [Episodes -> 0..2]] /\ queued[ch][p][e] \in 0..2
  BY DEF Shape, CircleTypeOK
<1>4. queued'[ch] = IF ch \in to THEN [queued[ch] EXCEPT ![q][n] = IF @ = 2 THEN 2 ELSE @ + 1]
                    ELSE queued[ch]
  BY <1>2 DEF Enqueue
<1>5. ch \in to => ch \in Wants(a, n)
  BY ReceiversAreSought
<1> HIDE DEF q, n, to
<1>6. ch \in to /\ q = p /\ n = e
  BY <1>3, <1>4
<1>7. queued'[ch][p][e] = IF queued[ch][p][e] = 2 THEN 2 ELSE queued[ch][p][e] + 1
  BY <1>3, <1>4, <1>6
<1>8. queued[ch][p][e] > 0
  BY <1>3, <1>7
<1> QED  BY <1>2, <1>5, <1>6, <1>8 DEF Told, q, n

LEMMA OnceStep ==
    ASSUME Shape, TwiceInv, Next
    PROVE  TwiceForCause'
<1> SUFFICES ASSUME NEW ch \in Chats, NEW p \in Podcasts, NEW e \in Episodes, queued'[ch][p][e] > 1
             PROVE  p \in mixed'
  BY DEF TwiceForCause
<1>1. mixed \subseteq mixed'
  BY Frames
<1>2. CASE queued[ch][p][e] > 1
  BY <1>1, <1>2 DEF TwiceInv, TwiceForCause
<1>3. CASE ~(queued[ch][p][e] > 1)
  <2>1. PICK a \in Actors : Enqueue(a) /\ V(a).p = p /\ V(a).next = e /\ ch \in Wants(a, e)
    BY <1>3, SecondTime
  <2>2. Told(ch, p, e) /\ e \in Nat
    BY <1>3, SecondTime, Numbers
  <2>3. V(a).pc = "queue" /\ ch \in DOMAIN V(a).to /\ Seen(a, ch) < e
    BY <2>1 DEF Enqueue, At, Wants, Sought
  <2>4. V(a).to[ch] \in Int
    BY <2>3, VisitNumbers
  <2>5. V(a).to[ch] < e
    BY <2>2, <2>3, <2>4 DEF Seen, Empty
  <2>6. ASSUME p \in Calm PROVE e <= V(a).to[ch] \/ e < V(a).next
    BY <2>1, <2>2, <2>3, <2>6 DEF TwiceInv, SnapshotsStand
  <2>7. p \notin Calm
    BY <2>1, <2>2, <2>4, <2>5, <2>6
  <2> QED  BY <1>1, <2>7 DEF Calm
<1> QED  BY <1>2, <1>3

LEMMA TwiceInit == Init => TwiceInv
<1> SUFFICES ASSUME Init PROVE TwiceInv
  OBVIOUS
<1>1. \A a \in Actors : V(a) = NoVisit
  BY DEF Init, V
<1>2. /\ \A a \in Actors : V(a).pc = "off" /\ V(a).p = 0
      /\ \A a \in Actors, p \in Calm : V(a).p # p
  BY <1>1, NoVisitType, Numbers DEF Calm
<1>3. \A ch \in Chats, p \in Podcasts, e \in Episodes : queued[ch][p][e] = 0
  BY DEF Init
<1>4. \A ch \in Chats, p \in Podcasts, e \in Episodes : ~Told(ch, p, e) /\ ~(queued[ch][p][e] > 1)
  BY <1>3 DEF Told
<1>5. Walks /\ Alone
  BY <1>2 DEF Walks, Alone, Actors, Init
<1>6. QueuedIsPublished /\ CursorsStand /\ TwiceForCause
  BY <1>4 DEF QueuedIsPublished, CursorsStand, TwiceForCause, Calm
<1>7. HeadsStand /\ SnapshotsStand /\ FreeStand /\ TodoStands
  BY <1>2 DEF HeadsStand, SnapshotsStand, FreeStand, TodoStands
<1> QED  BY <1>5, <1>6, <1>7, HeadsInit DEF TwiceInv

LEMMA TwiceStays ==
    ASSUME Shape, TwiceInv, [Next]_vars
    PROVE  TwiceInv'
<1>1. CASE UNCHANGED vars
  <2>1. /\ feed' = feed /\ latest' = latest /\ cursor' = cursor /\ queued' = queued /\ mixed' = mixed
        /\ proc' = proc /\ sup' = sup
        /\ \A a \in Actors : V(a)' = V(a) /\ Rows(a)' = Rows(a)
    <3>1. \A a \in Actors : V(a)' = V(a)
      BY <1>1 DEF vars, V
    <3>2. \A a \in Actors : Rows(a)' = Rows(a)
      BY <3>1, RowsStay
    <3> QED  BY <1>1, <3>1, <3>2 DEF vars, tables, outputs, process, group
  <2>2. HeadsRead' /\ Walks' /\ Alone'
    BY <2>1 DEF TwiceInv, HeadsRead, HeadOK, Walks, Alone, Calm, Actors
  <2>3. QueuedIsPublished' /\ CursorsStand' /\ TwiceForCause'
    BY <2>1 DEF TwiceInv, QueuedIsPublished, CursorsStand, TwiceForCause, Calm, Told, Pending
  <2>4. HeadsStand' /\ TodoStands'
    BY <2>1 DEF TwiceInv, HeadsStand, TodoStands, Calm, Told
  <2>5. SnapshotsStand'
    BY <2>1 DEF TwiceInv, SnapshotsStand, Calm, Told
  <2>6. FreeStand'
    BY <2>1 DEF TwiceInv, FreeStand, Calm, Told
  <2> QED  BY <2>2, <2>3, <2>4, <2>5, <2>6 DEF TwiceInv
<1>2. CASE Next
  <2>1. HeadsRead' /\ Walks' /\ Alone' /\ QueuedIsPublished'
    BY <1>2, HeadsStep, WalksStep, AloneStep, PublishedStep DEF TwiceInv
  <2>2. CursorsStand' /\ HeadsStand' /\ SnapshotsStand' /\ FreeStand' /\ TodoStands' /\ TwiceForCause'
    BY <1>2, CursorsStandStep, HeadsStandStep, SnapshotsStandStep, FreeStandStep, TodoStandsStep, OnceStep
  <2> QED  BY <2>1, <2>2 DEF TwiceInv
<1> QED  BY <1>1, <1>2

\* An episode is put in the queue twice for a chat only where a visit was cut short or two
\* visits of its podcast overlapped.
THEOREM TwiceOnlyForCause == Spec => []TwiceForCause
<1>1. TwiceInv => TwiceForCause
  BY DEF TwiceInv
<1> QED  BY <1>1, ShapeInit, ShapeStep, TwiceInit, TwiceStays, PTL DEF Spec
=============================================================================
