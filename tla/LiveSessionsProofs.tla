------------------------ MODULE LiveSessionsProofs -------------------------
(***************************************************************************)
(* What holds of the live server for any number of sessions and agents,    *)
(* whatever the browser posts, however long it runs and however often the  *)
(* server dies.                                                            *)
(*                                                                         *)
(* The argument: an event is on record in up to three places, the queue,   *)
(* the pending slot of the journal and the job of an agent, and the same   *)
(* facts hold of it in each, so that nothing is lost when it goes from one *)
(* to another; what serves the parked polls is proved once, for whatever   *)
(* queue a handler leaves to it.                                           *)
(***************************************************************************)
EXTENDS LiveSessions, FiniteSetTheorems, SequenceTheorems, TLAPS

\* What is true of an event of type t about session s, wherever it is on record,
\* given the journals j, what was handed out (h) and the spoiled sessions (sp).
Sound(j, h, sp, s, t, prepared) ==
  /\ j[s].phase # "absent"
  /\ (t = "steer") <=> (s \in Steers)
  /\ t \in {"accept", "variant_mount_failed"} => <<s, "generate">> \in h
  /\ t = "generate" => (prepared <=> <<s, "generate">> \in h)
  /\ t \in Decisions /\ s \notin sp => j[s].cancelReason = t

\* The journals.
PendingSound(j, h, sp) ==
  \A s \in Sessions : j[s].pending # NoEvent =>
     Sound(j, h, sp, s, j[s].pending.type, j[s].pending.prepared)
JournalBook(j, h, sp) ==
  /\ j \in [Sessions -> Snapshots]
  /\ h \subseteq Sessions \X EventTypes
  /\ sp \subseteq Sessions
  /\ \A e \in h : j[e[1]].phase # "absent"
  /\ PendingSound(j, h, sp)

\* The queue: at most one entry of a type and a session, leased decisions were
\* handed out, and what it holds of a decision the journal would put back.
Once(q) ==
  \A i, k \in DOMAIN q : q[i].s = q[k].s /\ q[i].type = q[k].type => i = k
QueueSound(q, j, h, sp) ==
  \A i \in DOMAIN q : Sound(j, h, sp, q[i].s, q[i].type, q[i].prepared)
LeasedHanded(q, h) ==
  \A i \in DOMAIN q : q[i].leased /\ q[i].type \in Decisions
                      => <<q[i].s, q[i].type>> \in h
Recorded(q, j, sp) ==
  \A i \in DOMAIN q :
     /\ q[i].type \in Decisions
     /\ q[i].s \notin sp
     /\ j[q[i].s].phase \notin CompletedPhases
     => j[q[i].s].pending.type = q[i].type
QueueBook(q, j, h, sp) ==
  /\ q \in Seq(Entries)
  /\ Once(q) /\ QueueSound(q, j, h, sp) /\ LeasedHanded(q, h) /\ Recorded(q, j, sp)

\* The agents: what a busy one has was handed to it, or is being scaffolded for
\* it alone, and a parked one is in the list.
Busy == {"scaffolding", "working", "cleaning"}
Job(x, j, h, sp) ==
  /\ x.s \in Sessions /\ x.type \in EventTypes
  /\ Sound(j, h, sp, x.s, x.type, x.at # "scaffolding")
  /\ IF x.at = "scaffolding" THEN x.type = "generate" ELSE <<x.s, x.type>> \in h
  /\ x.at = "cleaning" => x.type = "accept"
Alone(ag) ==
  \A a, b \in Agents :
     /\ ag[a].at = "scaffolding"
     /\ ag[b].at = "scaffolding"
     /\ ag[a].s = ag[b].s
     => a = b
JobBook(p, ag, j, h, sp) ==
  /\ p \in Seq(Agents)
  /\ ag \in [Agents -> AgentStates]
  /\ \A a \in Agents : ag[a].at \in Busy => Job(ag[a], j, h, sp)
  /\ \A a \in Agents : ag[a].at = "parked" => \E i \in DOMAIN p : p[i] = a
  /\ Alone(ag)

\* What is being scaffolded is leased.
Claimed(q, ag) ==
  \A a \in Agents : ag[a].at = "scaffolding" =>
     \A i \in DOMAIN q : q[i].s = ag[a].s /\ q[i].type = "generate" => q[i].leased

Books(j, q, p, ag, h, sp) ==
  /\ JournalBook(j, h, sp) /\ QueueBook(q, j, h, sp)
  /\ JobBook(p, ag, j, h, sp) /\ Claimed(q, ag)

\* No parked agent could have anything of the queue, or at most one entry.
Asleep(q, p) == \A i \in DOMAIN p : Available(q, Lanes[p[i]]) = {}
Drowsy(q, p, n) == \A i \in DOMAIN p : Available(q, Lanes[p[i]]) \subseteq {n}

Down ==
  ~up => /\ queue = <<>> /\ polls = <<>>
         /\ \A a \in Agents : agent[a].at \notin {"parked", "scaffolding"}

LInv ==
  /\ Books(journal, queue, polls, agent, handed, spoiled)
  /\ Asleep(queue, polls)
  /\ Down
  /\ up \in BOOLEAN /\ posts \in 0 .. MaxPosts /\ faults \in 0 .. MaxFaults

-----------------------------------------------------------------------------
(* Numbers and sequences.                                                   *)

\* A set of numbers has a least one.
LEMMA LeastNumber ==
  ASSUME NEW T \in SUBSET Nat, T # {}
  PROVE  \E x \in T : \A y \in T : x <= y
<1> DEFINE U == {0 .. x : x \in T}
<1>1. U \subseteq FiniteSubsetsOf(Nat) /\ U # {}
  <2>1. \A x \in T : 0 .. x \in SUBSET Nat /\ IsFiniteSet(0 .. x)
    <3> TAKE x \in T
    <3>1. IsFiniteSet(0 .. x)
      BY FS_Interval, x \in Int, 0 \in Int
    <3> QED
      BY <3>1
  <2> QED
    BY <2>1, Zenon DEF FiniteSubsetsOf
<1>2. PICK u \in U : \A v \in U : ~ (<<v, u>> \in StrictSubsetOrdering(Nat))
  BY <1>1, FS_StrictSubsetOrderingWellFounded, WFMin, Zenon
<1>3. PICK x \in T : u = 0 .. x
  OBVIOUS
<1>4. ASSUME NEW y \in T, y < x
      PROVE  FALSE
  <2>1. 0 .. y \in U /\ 0 .. y \in SUBSET Nat /\ 0 .. x \in SUBSET Nat
    OBVIOUS
  <2>2. 0 .. y \subseteq 0 .. x
    BY <1>4
  <2>3. x \in 0 .. x /\ x \notin 0 .. y
    BY <1>4
  <2>4. 0 .. y # 0 .. x
    BY <2>3
  <2>5. <<0 .. y, 0 .. x>> \in StrictSubsetOrdering(Nat)
    BY <2>1, <2>2, <2>4 DEF StrictSubsetOrdering
  <2> QED
    BY <1>2, <1>3, <2>1, <2>5
<1> QED
  BY <1>4

\* The sequence without its i-th element.
LEMMA Removed ==
  ASSUME NEW S, NEW q \in Seq(S), NEW i \in DOMAIN q
  PROVE  /\ RemoveAt(q, i) \in Seq(S)
         /\ Len(RemoveAt(q, i)) = Len(q) - 1
         /\ DOMAIN RemoveAt(q, i) = 1 .. Len(q) - 1
         /\ \A k \in 1 .. Len(q) - 1 :
               RemoveAt(q, i)[k] = IF k < i THEN q[k] ELSE q[k + 1]
<1>1. Len(q) \in Nat /\ DOMAIN q = 1 .. Len(q) /\ i \in 1 .. Len(q)
  BY LenProperties
<1> DEFINE a == SubSeq(q, 1, i - 1)
           b == SubSeq(q, i + 1, Len(q))
<1>2. a \in Seq(S) /\ Len(a) = i - 1 /\ \A k \in 1 .. i - 1 : a[k] = q[k]
  <2>1. \A k \in 1 .. i - 1 : q[k] \in S
    BY <1>1, ElementOfSeq
  <2>2. a \in Seq(S) /\ Len(a) = (IF 1 <= i - 1 THEN i - 1 - 1 + 1 ELSE 0)
        /\ \A k \in 1 .. i - 1 - 1 + 1 : a[k] = q[1 + k - 1]
    BY <1>1, <2>1, SubSeqProperties
  <2> QED
    BY <1>1, <2>2
<1>3. b \in Seq(S) /\ Len(b) = Len(q) - i /\ \A k \in 1 .. Len(q) - i : b[k] = q[i + k]
  <2>1. \A k \in i + 1 .. Len(q) : q[k] \in S
    BY <1>1, ElementOfSeq
  <2>2. /\ b \in Seq(S)
        /\ Len(b) = IF i + 1 <= Len(q) THEN Len(q) - (i + 1) + 1 ELSE 0
        /\ \A k \in 1 .. Len(q) - (i + 1) + 1 : b[k] = q[i + 1 + k - 1]
    BY <1>1, <2>1, SubSeqProperties
  <2> QED
    BY <1>1, <2>2
<1> HIDE DEF a, b
<1>4. a \o b \in Seq(S) /\ Len(a \o b) = Len(q) - 1
      /\ \A k \in 1 .. Len(q) - 1 : (a \o b)[k] = IF k < i THEN q[k] ELSE q[k + 1]
  <2>1. /\ a \o b \in Seq(S) /\ Len(a \o b) = Len(a) + Len(b)
        /\ \A k \in 1 .. Len(a) + Len(b) : (a \o b)[k] =
              IF k <= Len(a) THEN a[k] ELSE b[k - Len(a)]
    BY <1>2, <1>3, ConcatProperties
  <2> DEFINE c == a \o b
  <2> HIDE DEF c
  <2>2. c \in Seq(S) /\ Len(c) = Len(q) - 1
    BY <1>1, <1>2, <1>3, <2>1 DEF c
  <2>3. ASSUME NEW k \in 1 .. Len(q) - 1
        PROVE  c[k] = IF k < i THEN q[k] ELSE q[k + 1]
    <3>1. c[k] = IF k <= i - 1 THEN a[k] ELSE b[k - (i - 1)]
      BY <1>1, <1>2, <1>3, <2>1 DEF c
    <3>2. CASE k < i
      BY <1>1, <1>2, <3>1, <3>2
    <3>3. CASE ~(k < i)
      <4>1. k - (i - 1) \in 1 .. Len(q) - i /\ i + (k - (i - 1)) = k + 1
        BY <1>1, <3>3
      <4> QED
        BY <1>1, <1>3, <3>1, <3>3, <4>1
    <3> QED
      BY <3>2, <3>3
  <2> QED
    BY <2>2, <2>3 DEF c
<1> QED
  BY <1>1, <1>4, LenProperties DEF RemoveAt, a, b

-----------------------------------------------------------------------------
(* Serving the parked polls.                                                *)

\* What is selected is available.
LEMMA Selects ==
  ASSUME NEW q \in Seq(Entries), NEW lane, Available(q, lane) # {}
  PROVE  Selected(q, lane) \in Available(q, lane)
<1> DEFINE av == Available(q, lane)
           rank(i) == Priority(q[i].type)
           ranks == {rank(i) : i \in av}
<1>1. av \subseteq Nat
  BY LenProperties DEF Available
<1>2. \A t : Priority(t) \in Nat
  BY DEF Priority
<1>3. PICK m \in ranks : \A n \in ranks : m <= n
  <2>1. ranks \in SUBSET Nat /\ ranks # {}
    BY <1>2
  <2> QED
    BY <2>1, LeastNumber
<1> DEFINE top == {i \in av : rank(i) = m}
<1>4. PICK i \in top : \A k \in top : i <= k
  <2>1. top \in SUBSET Nat /\ top # {}
    BY <1>1, <1>3
  <2> QED
    BY <2>1, LeastNumber
<1>5. \A k \in av : rank(i) < rank(k) \/ (rank(i) = rank(k) /\ i <= k)
  <2> TAKE k \in av
  <2>1. rank(i) = m /\ m <= rank(k) /\ rank(k) \in Nat /\ m \in Nat
    BY <1>2, <1>3, <1>4
  <2>2. CASE rank(k) = m
    BY <1>4, <2>1, <2>2
  <2>3. CASE rank(k) # m
    BY <2>1, <2>3
  <2> QED
    BY <2>2, <2>3
<1>6. i \in av
  BY <1>4
<1> QED
  BY <1>5, <1>6, Zenon DEF Selected

\* Either nobody could have anything, or one parked agent is given one entry.
Hands(q, p, ag, i, n) ==
  /\ queue' = Claim(q, n)
  /\ polls' = RemoveAt(p, i)
  /\ agent' = [ag EXCEPT ![p[i]] = Given(q[n])]
  /\ handed' = handed \cup Handed(q[n])

LEMMA SettleCases ==
  ASSUME NEW q \in Seq(Entries), NEW p \in Seq(Agents), NEW ag, Settle(q, p, ag)
  PROVE  \/ /\ Asleep(q, p)
            /\ queue' = q /\ polls' = p /\ agent' = ag /\ handed' = handed
         \/ \E i \in DOMAIN p : \E n \in Available(q, Lanes[p[i]]) : Hands(q, p, ag, i, n)
<1> DEFINE able == {i \in DOMAIN p : Available(q, Lanes[p[i]]) # {}}
           i == CHOOSE k \in able : \A l \in able : k <= l
<1>1. CASE able = {}
  BY <1>1 DEF Settle, Asleep
<1>2. CASE able # {}
  <2>1. i \in able
    <3>1. able \in SUBSET Nat
      BY LenProperties
    <3>2. \E k \in able : \A l \in able : k <= l
      BY <1>2, <3>1, LeastNumber
    <3> QED
      BY <3>2, Zenon
  <2>2. Selected(q, Lanes[p[i]]) \in Available(q, Lanes[p[i]])
    BY <2>1, Selects
  <2>3. Hands(q, p, ag, i, Selected(q, Lanes[p[i]]))
    BY <1>2, Zenon DEF Settle, Hands
  <2> QED
    BY <2>1, <2>2, <2>3
<1> QED
  BY <1>1, <1>2

-----------------------------------------------------------------------------
(* What the steps do to the books.                                          *)

\* An entry of the queue.
LEMMA EntryType ==
  ASSUME NEW q \in Seq(Entries), NEW i \in DOMAIN q
  PROVE  /\ q[i] \in Entries
         /\ q[i].s \in Sessions /\ q[i].type \in EventTypes
         /\ q[i].prepared \in BOOLEAN /\ q[i].leased \in BOOLEAN
<1>1. q[i] \in Entries
  BY ElementOfSeq, LenProperties
<1> QED
  BY <1>1, Zenon DEF Entries

\* A lease is taken or ends.
WithLease(q, n, b) == [q EXCEPT ![n].leased = b]

LEMMA Leasing ==
  ASSUME NEW q \in Seq(Entries), NEW n \in DOMAIN q, NEW b \in BOOLEAN
  PROVE  /\ WithLease(q, n, b) \in Seq(Entries)
         /\ DOMAIN WithLease(q, n, b) = DOMAIN q
         /\ \A k \in DOMAIN q : k # n => WithLease(q, n, b)[k] = q[k]
         /\ WithLease(q, n, b)[n].s = q[n].s
         /\ WithLease(q, n, b)[n].type = q[n].type
         /\ WithLease(q, n, b)[n].prepared = q[n].prepared
         /\ WithLease(q, n, b)[n].leased <=> b
<1> DEFINE q2 == WithLease(q, n, b)
           e == [q[n] EXCEPT !.leased = b]
<1>1. e \in Entries
  BY EntryType, Zenon DEF Entries
<1>2. e.s = q[n].s /\ e.type = q[n].type /\ e.prepared = q[n].prepared /\ e.leased = b
  BY EntryType DEF Entries
<1>3. q2 = [q EXCEPT ![n] = e]
  BY DEF WithLease
<1> HIDE DEF e, q2
<1>4. n \in 1 .. Len(q) /\ DOMAIN q = 1 .. Len(q)
  BY LenProperties
<1>5. q2 \in Seq(Entries) /\ Len(q2) = Len(q)
      /\ \A i \in 1 .. Len(q) : q2[i] = IF i = n THEN e ELSE q[i]
  BY <1>1, <1>3, <1>4, ExceptSeq
<1>6. DOMAIN q2 = DOMAIN q
  BY <1>4, <1>5, LenProperties
<1> QED
  BY <1>2, <1>4, <1>5, <1>6 DEF q2

\* An entry leaves.
LEMMA QueueShrinks ==
  ASSUME NEW q, NEW j, NEW h, NEW sp, QueueBook(q, j, h, sp),
         NEW ag, Claimed(q, ag), NEW n \in DOMAIN q
  PROVE  QueueBook(RemoveAt(q, n), j, h, sp) /\ Claimed(RemoveAt(q, n), ag)
<1> DEFINE r == RemoveAt(q, n)
           old(i) == IF i < n THEN i ELSE i + 1
<1>1. q \in Seq(Entries) /\ Len(q) \in Nat /\ DOMAIN q = 1 .. Len(q) /\ n \in 1 .. Len(q)
  BY LenProperties DEF QueueBook
<1>2. r \in Seq(Entries) /\ DOMAIN r = 1 .. Len(q) - 1
      /\ \A i \in DOMAIN r : r[i] = IF i < n THEN q[i] ELSE q[i + 1]
  BY <1>1, Removed
<1>3. ASSUME NEW i \in DOMAIN r
      PROVE  old(i) \in DOMAIN q /\ r[i] = q[old(i)]
  BY <1>1, <1>2
<1>4. ASSUME NEW i \in DOMAIN r, NEW k \in DOMAIN r, old(i) = old(k)
      PROVE  i = k
  BY <1>1, <1>2, <1>4
<1> HIDE DEF r, old
<1>5. Once(r)
  BY <1>3, <1>4 DEF Once, QueueBook
<1>6. QueueSound(r, j, h, sp)
  BY <1>3 DEF QueueSound, QueueBook
<1>7. LeasedHanded(r, h)
  BY <1>3 DEF LeasedHanded, QueueBook
<1>8. Recorded(r, j, sp)
  BY <1>3 DEF Recorded, QueueBook
<1>9. Claimed(r, ag)
  BY <1>3 DEF Claimed
<1> QED
  BY <1>2, <1>5, <1>6, <1>7, <1>8, <1>9 DEF QueueBook, r

\* ... and nobody who could have nothing could have more.
LEMMA SleepsOn ==
  ASSUME NEW q \in Seq(Entries), NEW p, Asleep(q, p), NEW n \in DOMAIN q
  PROVE  Asleep(RemoveAt(q, n), p)
<1>1. Len(q) \in Nat /\ DOMAIN q = 1 .. Len(q) /\ n \in 1 .. Len(q)
  BY LenProperties
<1>2. ASSUME NEW lane, NEW i \in Available(RemoveAt(q, n), lane)
      PROVE  Available(q, lane) # {}
  <2>1. i \in 1 .. Len(q) - 1
        /\ RemoveAt(q, n)[i] = IF i < n THEN q[i] ELSE q[i + 1]
    BY <1>2, Removed DEF Available
  <2>2. CASE i < n
    BY <1>1, <1>2, <2>1, <2>2 DEF Available
  <2>3. CASE ~(i < n)
    <3>1. i + 1 \in DOMAIN q
      BY <1>1, <2>1
    <3> QED
      BY <1>2, <2>1, <2>3, <3>1 DEF Available
  <2> QED
    BY <2>2, <2>3
<1> QED
  BY <1>2 DEF Asleep

\* An event that is sound is queued.
LEMMA QueueGrows ==
  ASSUME NEW q, NEW j, NEW h, NEW sp, QueueBook(q, j, h, sp),
         NEW p, NEW ag, JobBook(p, ag, j, h, sp), Claimed(q, ag), Asleep(q, p),
         NEW s \in Sessions, NEW t \in EventTypes,
         Sound(j, h, sp, s, t, FALSE),
         t = "generate" => \A a \in Agents : ag[a].at = "scaffolding" => ag[a].s # s,
         t \in Decisions /\ s \notin sp /\ j[s].phase \notin CompletedPhases
           => j[s].pending.type = t
  PROVE  LET r == Push(q, s, Pending(t, FALSE))
         IN  QueueBook(r, j, h, sp) /\ Claimed(r, ag) /\ \E n : Drowsy(r, p, n)
<1> DEFINE e == Entry(s, Pending(t, FALSE))
           r == Push(q, s, Pending(t, FALSE))
<1>1. e \in Entries /\ e.s = s /\ e.type = t /\ e.prepared = FALSE /\ e.leased = FALSE
  BY Zenon DEF Entry, Pending, Entries
<1>2. q \in Seq(Entries) /\ Len(q) \in Nat /\ DOMAIN q = 1 .. Len(q)
  BY LenProperties DEF QueueBook
<1>3. CASE Positions(q, s, t) # {}
  <2>1. r = q
    BY <1>3 DEF Push, Pending
  <2> QED
    BY <2>1 DEF Asleep, Drowsy
<1>4. CASE Positions(q, s, t) = {}
  <2> DEFINE m == Len(q) + 1
  <2>1. r = Append(q, e)
    BY <1>4 DEF Push, Pending
  <2> HIDE DEF r, e
  <2>2. r \in Seq(Entries) /\ Len(r) = m /\ r[m] = e /\ \A i \in 1 .. Len(q) : r[i] = q[i]
    BY <1>1, <1>2, <2>1, AppendProperties
  <2>3. DOMAIN r = 1 .. m /\ \A i \in DOMAIN r : i = m \/ i \in DOMAIN q
    BY <1>2, <2>2, LenProperties
  <2>4. \A i \in DOMAIN q : r[i] = q[i] /\ ~(q[i].s = s /\ q[i].type = t)
    BY <1>2, <1>4, <2>2 DEF Positions
  <2> HIDE DEF m
  <2>5. Once(r)
    BY <1>1, <2>2, <2>3, <2>4 DEF Once, QueueBook
  <2>6. QueueSound(r, j, h, sp)
    BY <1>1, <2>2, <2>3, <2>4 DEF QueueSound, QueueBook
  <2>7. LeasedHanded(r, h)
    BY <1>1, <2>2, <2>3, <2>4 DEF LeasedHanded, QueueBook
  <2>8. Recorded(r, j, sp)
    BY <1>1, <2>2, <2>3, <2>4 DEF Recorded, QueueBook
  <2>9. Claimed(r, ag)
    BY <1>1, <2>2, <2>3, <2>4 DEF Claimed
  <2>10. Drowsy(r, p, m)
    BY <2>3, <2>4 DEF Drowsy, Asleep, Available
  <2> QED
    BY <2>2, <2>5, <2>6, <2>7, <2>8, <2>9, <2>10 DEF QueueBook, r
<1> QED
  BY <1>3, <1>4

\* A session is known for good, what is shown of it is, and a decision that is
\* not contended stays what it was.
Follows(j, h, sp, j2, h2, sp2) ==
  /\ \A s \in Sessions : j[s].phase # "absent" => j2[s].phase # "absent"
  /\ \A s \in Sessions : <<s, "generate">> \in h2 <=> <<s, "generate">> \in h
  /\ h \subseteq h2 /\ sp \subseteq sp2
  /\ \A s \in Sessions : s \notin sp2 /\ j[s].cancelReason \in Decisions
                         => j2[s].cancelReason = j[s].cancelReason

LEMMA SoundFollows ==
  ASSUME NEW j, NEW h, NEW sp, NEW j2, NEW h2, NEW sp2, Follows(j, h, sp, j2, h2, sp2),
         NEW s \in Sessions, NEW t, NEW prepared, Sound(j, h, sp, s, t, prepared)
  PROVE  Sound(j2, h2, sp2, s, t, prepared)
BY DEF Sound, Follows

LEMMA JobFollows ==
  ASSUME NEW j, NEW h, NEW sp, NEW j2, NEW h2, NEW sp2, Follows(j, h, sp, j2, h2, sp2),
         NEW p, NEW ag, JobBook(p, ag, j, h, sp)
  PROVE  JobBook(p, ag, j2, h2, sp2)
<1>1. ASSUME NEW a \in Agents, ag[a].at \in Busy
      PROVE  Job(ag[a], j2, h2, sp2)
  <2>1. Job(ag[a], j, h, sp)
    BY <1>1 DEF JobBook
  <2> QED
    BY <2>1, SoundFollows DEF Job, Follows
<1> QED
  BY <1>1 DEF JobBook

\* One journal changes, and perhaps its session is spoiled.
LEMMA Journaled ==
  ASSUME NEW j, NEW q, NEW p, NEW ag, NEW h, NEW sp, Books(j, q, p, ag, h, sp),
         NEW s \in Sessions, NEW x \in Snapshots, NEW sp2,
         sp2 = sp \/ sp2 = sp \cup {s},
         j[s].phase # "absent" => x.phase # "absent",
         \/ x.pending = NoEvent
         \/ x.pending = j[s].pending
         \/ Sound([j EXCEPT ![s] = x], h, sp2, s, x.pending.type, x.pending.prepared),
         s \notin sp2 /\ j[s].cancelReason \in Decisions
           => x.cancelReason = j[s].cancelReason,
         s \notin sp2 /\ x.phase \notin CompletedPhases
           => \A i \in DOMAIN q : q[i].s = s /\ q[i].type \in Decisions
                                  => x.pending.type = q[i].type
  PROVE  Books([j EXCEPT ![s] = x], q, p, ag, h, sp2)
<1> DEFINE j2 == [j EXCEPT ![s] = x]
<1>1. j \in [Sessions -> Snapshots]
  BY DEF Books, JournalBook
<1>2. j2 \in [Sessions -> Snapshots] /\ j2[s] = x /\ \A u \in Sessions \ {s} : j2[u] = j[u]
  BY <1>1
<1> HIDE DEF j2
<1>3. Follows(j, h, sp, j2, h, sp2)
  BY <1>2 DEF Follows
<1>4. JobBook(p, ag, j2, h, sp2)
  BY <1>3, JobFollows DEF Books
<1>5. JournalBook(j2, h, sp2)
  <2>1. sp2 \subseteq Sessions
    BY DEF Books, JournalBook
  <2>2. ASSUME NEW e \in h
        PROVE  j2[e[1]].phase # "absent"
    <3>1. e[1] \in Sessions /\ j[e[1]].phase # "absent"
      BY <2>2 DEF Books, JournalBook
    <3> QED
      BY <1>3, <3>1 DEF Follows
  <2>3. ASSUME NEW u \in Sessions, j2[u].pending # NoEvent
        PROVE  Sound(j2, h, sp2, u, j2[u].pending.type, j2[u].pending.prepared)
    <3>1. CASE u = s /\ Sound(j2, h, sp2, s, x.pending.type, x.pending.prepared)
      BY <1>2, <3>1
    <3>2. CASE j2[u].pending = j[u].pending
      <4>1. Sound(j, h, sp, u, j[u].pending.type, j[u].pending.prepared)
        BY <2>3, <3>2 DEF Books, JournalBook, PendingSound
      <4> QED
        BY <1>3, <3>2, <4>1, SoundFollows
    <3>3. \/ u = s /\ Sound(j2, h, sp2, s, x.pending.type, x.pending.prepared)
          \/ j2[u].pending = j[u].pending
      BY <1>2, <2>3 DEF j2
    <3> QED
      BY <3>1, <3>2, <3>3
  <2> QED
    BY <1>2, <2>1, <2>2, <2>3 DEF JournalBook, PendingSound, Books
<1>6. QueueBook(q, j2, h, sp2)
  <2>1. QueueBook(q, j, h, sp)
    BY DEF Books
  <2>2. QueueSound(q, j2, h, sp2)
    <3> SUFFICES ASSUME NEW i \in DOMAIN q
                 PROVE  Sound(j2, h, sp2, q[i].s, q[i].type, q[i].prepared)
      BY DEF QueueSound
    <3>1. Sound(j, h, sp, q[i].s, q[i].type, q[i].prepared)
      BY <2>1 DEF QueueBook, QueueSound
    <3>2. q[i].s \in Sessions
      BY <2>1, EntryType DEF QueueBook
    <3> QED
      BY <1>3, <3>1, <3>2, SoundFollows
  <2>3. Recorded(q, j2, sp2)
    <3> SUFFICES ASSUME NEW i \in DOMAIN q, q[i].type \in Decisions, q[i].s \notin sp2,
                        j2[q[i].s].phase \notin CompletedPhases
                 PROVE  j2[q[i].s].pending.type = q[i].type
      BY DEF Recorded
    <3>1. q[i].s \in Sessions
      BY <2>1, EntryType DEF QueueBook
    <3>2. CASE q[i].s = s
      BY <1>2, <3>2
    <3>3. CASE q[i].s # s
      BY <1>2, <2>1, <3>1, <3>3 DEF QueueBook, Recorded
    <3> QED
      BY <3>2, <3>3
  <2> QED
    BY <2>1, <2>2, <2>3 DEF QueueBook
<1> QED
  BY <1>4, <1>5, <1>6 DEF Books, j2

\* An agent that was not parked goes idle, or cleans up after its reply.
LEMMA Replied ==
  ASSUME NEW j, NEW q, NEW p, NEW h, NEW sp, Books(j, q, p, agent, h, sp),
         NEW a \in Agents, agent[a].at \in {"working", "cleaning"},
         NEW ag,
         \/ ag = Ends(a)
         \/ ag = CleansUp(a) /\ agent[a].at = "working" /\ agent[a].type = "accept"
  PROVE  Books(j, q, p, ag, h, sp)
<1>1. agent \in [Agents -> AgentStates]
  BY DEF Books, JobBook
<1>2. /\ ag \in [Agents -> AgentStates]
      /\ \A b \in Agents \ {a} : ag[b] = agent[b]
      /\ ag[a].at \in {"idle", "cleaning"}
      /\ ag[a].at = "cleaning" => /\ ag[a].s = agent[a].s /\ ag[a].type = agent[a].type
                                 /\ agent[a].type = "accept"
  <2>1. CASE ag = Ends(a)
    <3>1. Idle \in AgentStates /\ Idle.at = "idle"
      BY DEF Idle, AgentStates
    <3> QED
      BY <1>1, <2>1, <3>1 DEF Ends
  <2>2. CASE ag = CleansUp(a) /\ agent[a].at = "working" /\ agent[a].type = "accept"
    <3> DEFINE c == [agent[a] EXCEPT !.at = "cleaning"]
    <3>1. c \in AgentStates /\ c.at = "cleaning" /\ c.s = agent[a].s /\ c.type = agent[a].type
      BY <1>1 DEF AgentStates
    <3>2. ag = [agent EXCEPT ![a] = c]
      BY <2>2 DEF CleansUp
    <3> HIDE DEF c
    <3> QED
      BY <1>1, <2>2, <3>1, <3>2
  <2> QED
    BY <2>1, <2>2
<1>3. ASSUME NEW b \in Agents, ag[b].at \in Busy
      PROVE  Job(ag[b], j, h, sp)
  BY <1>2, <1>3 DEF Books, JobBook, Job, Busy
<1>4. JobBook(p, ag, j, h, sp)
  BY <1>2, <1>3 DEF Books, JobBook, Alone
<1> QED
  BY <1>2, <1>4 DEF Books, Claimed

\* An entry is handed to the agent at place i of the list.
LEMMA HandsKeep ==
  ASSUME NEW j, NEW q, NEW p, NEW ag, NEW sp, Books(j, q, p, ag, handed, sp),
         NEW i \in DOMAIN p, NEW n \in Available(q, Lanes[p[i]]), Hands(q, p, ag, i, n),
         \A k \in DOMAIN p \ {i} : Available(q, Lanes[p[k]]) \subseteq {n}
  PROVE  Books(j, queue', polls', agent', handed', sp) /\ Asleep(queue', polls')
<1>0. q \in Seq(Entries) /\ p \in Seq(Agents) /\ ag \in [Agents -> AgentStates]
  BY DEF Books, QueueBook, JobBook
<1> DEFINE s == q[n].s
           t == q[n].type
           a == p[i]
<1>1. n \in DOMAIN q /\ ~q[n].leased /\ a \in Agents /\ s \in Sessions /\ t \in EventTypes
  BY <1>0, EntryType, ElementOfSeq, LenProperties DEF Available
<1>2. /\ queue' \in Seq(Entries) /\ DOMAIN queue' = DOMAIN q
      /\ \A k \in DOMAIN q :
            /\ queue'[k].s = q[k].s /\ queue'[k].type = q[k].type
            /\ queue'[k].prepared = q[k].prepared
      /\ \A k \in DOMAIN q : k # n => queue'[k].leased = q[k].leased
      /\ queue'[n].leased
  <2>1. queue' = WithLease(q, n, TRUE)
    BY DEF Hands, Claim, WithLease
  <2>2. q \in Seq(Entries) /\ n \in DOMAIN q /\ TRUE \in BOOLEAN
    BY <1>0, <1>1
  <2> DEFINE r == WithLease(q, n, TRUE)
  <2>3. r \in Seq(Entries) /\ DOMAIN r = DOMAIN q
    BY <2>2, Leasing
  <2>4. \A k \in DOMAIN q : k # n => r[k] = q[k]
    BY <2>2, Leasing
  <2>5. r[n].s = q[n].s /\ r[n].type = q[n].type /\ r[n].prepared = q[n].prepared
    BY <2>2, Leasing
  <2>6. r[n].leased
    BY <2>2, Leasing
  <2> HIDE DEF r
  <2> QED
    BY <2>1, <2>3, <2>4, <2>5, <2>6 DEF r
<1>3. Sound(j, handed, sp, s, t, q[n].prepared)
  BY <1>1 DEF Books, QueueBook, QueueSound
<1>4. /\ Given(q[n]) \in AgentStates
      /\ Given(q[n]).s = s /\ Given(q[n]).type = t
      /\ Given(q[n]).at = IF t = "generate" /\ ~q[n].prepared THEN "scaffolding" ELSE "working"
  BY <1>1 DEF Given, Doing, AgentStates
<1>5. handed' = IF t = "generate" /\ ~q[n].prepared THEN handed ELSE handed \cup {<<s, t>>}
  BY <1>4 DEF Hands, Handed
<1>6. Follows(j, handed, sp, j, handed', sp)
  BY <1>3, <1>5 DEF Follows, Sound
<1>7. /\ agent' \in [Agents -> AgentStates] /\ agent'[a] = Given(q[n])
      /\ \A b \in Agents \ {a} : agent'[b] = ag[b]
  BY <1>0, <1>1, <1>4 DEF Hands
<1>8. polls' \in Seq(Agents) /\ Len(p) \in Nat /\ i \in 1 .. Len(p) /\ DOMAIN p = 1 .. Len(p)
      /\ DOMAIN polls' = 1 .. Len(p) - 1
      /\ \A k \in DOMAIN polls' : polls'[k] = IF k < i THEN p[k] ELSE p[k + 1]
  BY <1>0, Removed, LenProperties DEF Hands
<1> HIDE DEF s, t, a
<1>9. JournalBook(j, handed', sp)
  <2>1. handed' \subseteq Sessions \X EventTypes
    BY <1>1, <1>5 DEF Books, JournalBook
  <2>2. \A e \in handed' : j[e[1]].phase # "absent"
    BY <1>3, <1>5 DEF Books, JournalBook, Sound
  <2>3. PendingSound(j, handed', sp)
    BY <1>6, SoundFollows DEF Books, JournalBook, PendingSound
  <2> QED
    BY <2>1, <2>2, <2>3 DEF Books, JournalBook
<1>10. QueueBook(queue', j, handed', sp)
  <2>1. Once(queue') /\ Recorded(queue', j, sp)
    BY <1>2 DEF Books, QueueBook, Once, Recorded
  <2>2. QueueSound(queue', j, handed', sp)
    <3> SUFFICES ASSUME NEW k \in DOMAIN q
                 PROVE  Sound(j, handed', sp, q[k].s, q[k].type, q[k].prepared)
      BY <1>2 DEF QueueSound
    <3>1. Sound(j, handed, sp, q[k].s, q[k].type, q[k].prepared) /\ q[k].s \in Sessions
      BY <1>0, EntryType DEF Books, QueueBook, QueueSound
    <3> QED
      BY <1>6, <3>1, SoundFollows
  <2>3. LeasedHanded(queue', handed')
    <3> SUFFICES ASSUME NEW k \in DOMAIN q, queue'[k].leased, q[k].type \in Decisions
                 PROVE  <<q[k].s, q[k].type>> \in handed'
      BY <1>2 DEF LeasedHanded
    <3>1. CASE k = n
      BY <1>5, <3>1 DEF Decisions, s, t
    <3>2. CASE k # n
      BY <1>2, <1>5, <3>2 DEF Books, QueueBook, LeasedHanded
    <3> QED
      BY <3>1, <3>2
  <2> QED
    BY <1>2, <2>1, <2>2, <2>3 DEF QueueBook
<1>11. ASSUME t = "generate", NEW b \in Agents, ag[b].at = "scaffolding"
       PROVE  ag[b].s # s
  BY <1>1, <1>11 DEF Books, Claimed, s, t
<1>12. JobBook(polls', agent', j, handed', sp)
  <2>1. ASSUME NEW b \in Agents, agent'[b].at \in Busy
        PROVE  Job(agent'[b], j, handed', sp)
    <3>1. CASE b = a
      <4>1. Sound(j, handed', sp, s, t, q[n].prepared)
        BY <1>1, <1>3, <1>6, SoundFollows
      <4>2. CASE t = "generate" /\ ~q[n].prepared
        BY <1>1, <1>4, <1>7, <3>1, <4>1, <4>2 DEF Job, Sound
      <4>3. CASE ~(t = "generate" /\ ~q[n].prepared)
        BY <1>1, <1>4, <1>5, <1>7, <3>1, <4>1, <4>3 DEF Job, Sound
      <4> QED
        BY <4>2, <4>3
    <3>2. CASE b # a
      <4>1. Job(ag[b], j, handed, sp)
        BY <1>7, <2>1, <3>2 DEF Books, JobBook
      <4> QED
        BY <1>6, <1>7, <3>2, <4>1, SoundFollows DEF Job, Follows
    <3> QED
      BY <3>1, <3>2
  <2>2. ASSUME NEW b \in Agents, agent'[b].at = "parked"
        PROVE  \E k \in DOMAIN polls' : polls'[k] = b
    <3>1. b # a /\ ag[b].at = "parked"
      BY <1>4, <1>7, <2>2
    <3>2. PICK k \in DOMAIN p : p[k] = b
      BY <3>1 DEF Books, JobBook
    <3>3. k # i
      BY <3>1, <3>2 DEF a
    <3>4. CASE k < i
      BY <1>8, <3>2, <3>4
    <3>5. CASE k > i
      <4>1. k - 1 \in 1 .. Len(p) - 1 /\ ~(k - 1 < i) /\ (k - 1) + 1 = k
        BY <1>8, <3>5
      <4> QED
        BY <1>8, <3>2, <4>1
    <3> QED
      BY <1>8, <3>3, <3>4, <3>5
  <2>3. Alone(agent')
    BY <1>4, <1>7, <1>11 DEF Alone, Books, JobBook
  <2> QED
    BY <1>7, <1>8, <2>1, <2>2, <2>3 DEF JobBook
<1>13. Claimed(queue', agent')
  <2> SUFFICES ASSUME NEW b \in Agents, agent'[b].at = "scaffolding",
                      NEW k \in DOMAIN q, q[k].s = agent'[b].s, q[k].type = "generate"
               PROVE  queue'[k].leased
    BY <1>2 DEF Claimed
  <2>1. CASE b = a
    <3>1. t = "generate" /\ q[k].s = s
      BY <1>4, <1>7, <2>1
    <3>2. k = n
      BY <1>1, <3>1 DEF Books, QueueBook, Once, s, t
    <3> QED
      BY <1>2, <3>2
  <2>2. CASE b # a
    <3>1. q[k].leased
      BY <1>7, <2>2 DEF Books, Claimed
    <3> QED
      BY <1>2, <3>1
  <2> QED
    BY <2>1, <2>2
<1>14. Asleep(queue', polls')
  <2>1. \A lane : Available(queue', lane) = Available(q, lane) \ {n}
    BY <1>1, <1>2 DEF Available
  <2>2. \A k \in DOMAIN p \ {i} : Available(q, Lanes[p[k]]) \subseteq {n}
    OBVIOUS
  <2>3. \A k \in DOMAIN polls' : \E l \in DOMAIN p \ {i} : polls'[k] = p[l]
    BY <1>8
  <2> QED
    BY <2>1, <2>2, <2>3 DEF Asleep
<1> QED
  BY <1>9, <1>10, <1>12, <1>13, <1>14 DEF Books

\* Serving the parked polls keeps the books in order, and leaves nobody waiting
\* for what the queue holds.
LEMMA Served ==
  ASSUME NEW j, NEW q, NEW p, NEW ag, NEW sp, Books(j, q, p, ag, handed, sp),
         NEW m, Drowsy(q, p, m), Settle(q, p, ag)
  PROVE  Books(j, queue', polls', agent', handed', sp) /\ Asleep(queue', polls')
<1>1. q \in Seq(Entries) /\ p \in Seq(Agents)
  BY DEF Books, QueueBook, JobBook
<1>2. CASE Asleep(q, p) /\ queue' = q /\ polls' = p /\ agent' = ag /\ handed' = handed
  BY <1>2
<1>3. ASSUME NEW i \in DOMAIN p, NEW n \in Available(q, Lanes[p[i]]), Hands(q, p, ag, i, n)
      PROVE  Books(j, queue', polls', agent', handed', sp) /\ Asleep(queue', polls')
  <2>1. \A k \in DOMAIN p \ {i} : Available(q, Lanes[p[k]]) \subseteq {n}
    BY DEF Drowsy
  <2> QED
    BY <1>3, <2>1, HandsKeep
<1> QED
  BY <1>1, <1>2, <1>3, SettleCases

\* A lease ends, on anything but a scaffold that is being written.
LEMMA QueueOffers ==
  ASSUME NEW j, NEW q, NEW p, NEW ag, NEW h, NEW sp, Books(j, q, p, ag, h, sp),
         Asleep(q, p), NEW n \in DOMAIN q,
         q[n].type = "generate"
           => \A a \in Agents : ag[a].at = "scaffolding" => ag[a].s # q[n].s,
         NEW r, r = WithLease(q, n, FALSE)
  PROVE  Books(j, r, p, ag, h, sp) /\ Drowsy(r, p, n)
<1> DEFINE w == WithLease(q, n, FALSE)
<1>1. q \in Seq(Entries) /\ n \in DOMAIN q /\ FALSE \in BOOLEAN
  BY DEF Books, QueueBook
<1>2. w \in Seq(Entries) /\ DOMAIN w = DOMAIN q
  BY <1>1, Leasing
<1>3. \A k \in DOMAIN q : k # n => w[k] = q[k]
  BY <1>1, Leasing
<1>4. w[n].s = q[n].s /\ w[n].type = q[n].type /\ w[n].prepared = q[n].prepared
  BY <1>1, Leasing
<1>5. ~w[n].leased
  BY <1>1, Leasing
<1> HIDE DEF w
<1>6. Once(w) /\ QueueSound(w, j, h, sp) /\ LeasedHanded(w, h) /\ Recorded(w, j, sp)
  <2>1. Once(w) /\ Recorded(w, j, sp)
    BY <1>2, <1>3, <1>4 DEF Books, QueueBook, Once, Recorded
  <2>2. QueueSound(w, j, h, sp)
    BY <1>2, <1>3, <1>4 DEF Books, QueueBook, QueueSound
  <2>3. LeasedHanded(w, h)
    BY <1>2, <1>3, <1>4, <1>5 DEF Books, QueueBook, LeasedHanded
  <2> QED
    BY <2>1, <2>2, <2>3
<1>7. Claimed(w, ag)
  BY <1>2, <1>3, <1>4 DEF Books, Claimed
<1>8. Drowsy(w, p, n)
  BY <1>2, <1>3 DEF Drowsy, Asleep, Available
<1> QED
  BY <1>2, <1>6, <1>7, <1>8 DEF Books, QueueBook, w

\* Books with another queue, that are in order for the same journals and agents.
LEMMA Requeued ==
  ASSUME NEW j, NEW q, NEW p, NEW ag, NEW h, NEW sp, Books(j, q, p, ag, h, sp),
         NEW r, QueueBook(r, j, h, sp), Claimed(r, ag)
  PROVE  Books(j, r, p, ag, h, sp)
BY DEF Books

\* Snapshots stay snapshots, and which of their fields change.
LEMMA SnapshotFields ==
  ASSUME NEW x \in Snapshots
  PROVE  /\ x.phase \in Phases /\ x.cancelReason \in Decisions \cup {"none"}
         /\ x.ready \in BOOLEAN /\ x.pending \in PendingEvents
         /\ x.pending.type \in EventTypes \cup {"none"}
         /\ x.pending # NoEvent => x.pending.type \in EventTypes
<1>1. /\ x.phase \in Phases /\ x.cancelReason \in Decisions \cup {"none"}
      /\ x.ready \in BOOLEAN /\ x.pending \in PendingEvents
  BY Zenon DEF Snapshots
<1>2. /\ x.pending.type \in EventTypes \cup {"none"}
      /\ x.pending # NoEvent => x.pending.type \in EventTypes
  <2>1. CASE x.pending = NoEvent
    BY <2>1 DEF NoEvent
  <2>2. CASE x.pending \in [type : EventTypes, prepared : BOOLEAN]
    <3>1. x.pending.type \in EventTypes
      BY <2>2, Zenon
    <3> QED
      BY <3>1
  <2> QED
    BY <1>1, <2>1, <2>2 DEF PendingEvents
<1> QED
  BY <1>1, <1>2

\* What journaling an event makes of the snapshot.
Becomes(y, ph, reason, e) ==
  y \in Snapshots /\ y.phase = ph /\ y.cancelReason = reason /\ y.pending = e

LEMMA Pendings ==
  /\ NoEvent \in PendingEvents /\ NoEvent.type = "none"
  /\ \A t \in EventTypes, b \in BOOLEAN :
        /\ Pending(t, b) \in PendingEvents
        /\ Pending(t, b).type = t /\ Pending(t, b).prepared = b
        /\ Pending(t, b) # NoEvent
<1>1. NoEvent \in PendingEvents /\ NoEvent.type = "none" /\ "none" \notin EventTypes
  BY DEF NoEvent, PendingEvents, EventTypes
<1>2. \A t \in EventTypes, b \in BOOLEAN :
         /\ Pending(t, b) \in PendingEvents
         /\ Pending(t, b).type = t /\ Pending(t, b).prepared = b
  BY Zenon DEF Pending, PendingEvents
<1> QED
  BY <1>1, <1>2

LEMMA Rewritten ==
  ASSUME NEW x \in Snapshots, NEW ph \in Phases, NEW e \in PendingEvents
  PROVE  Becomes([x EXCEPT !.phase = ph, !.pending = e], ph, x.cancelReason, e)
BY SnapshotFields DEF Becomes, Snapshots

LEMMA Opened ==
  ASSUME NEW x \in Snapshots, NEW b \in BOOLEAN
  PROVE  /\ Becomes(OnSteer(x), "steer_requested", x.cancelReason, Pending("steer", FALSE))
         /\ Becomes(OnGenerate(x, b), "generate_requested", x.cancelReason,
                    Pending("generate", b))
<1>1. "steer_requested" \in Phases /\ "generate_requested" \in Phases
      /\ "steer" \in EventTypes /\ "generate" \in EventTypes
  BY DEF Phases, EventTypes
<1>2. Pending("steer", FALSE) \in PendingEvents /\ Pending("generate", b) \in PendingEvents
  BY <1>1, Pendings
<1> QED
  BY <1>1, <1>2, Rewritten DEF OnSteer, OnGenerate

Asked(d) == IF d = "accept" THEN "accept_requested" ELSE "discard_requested"

LEMMA DecidedOn ==
  ASSUME NEW x \in Snapshots, NEW d \in Decisions
  PROVE  Becomes(OnDecision(x, d), Asked(d), d, Pending(d, FALSE))
<1>1. Asked(d) \in Phases /\ d \in EventTypes /\ Asked(d) # "absent"
  BY DEF Phases, EventTypes, Decisions, FencedPhases, Asked
<1>2. Pending(d, FALSE) \in PendingEvents
  BY <1>1, Pendings
<1>3. OnDecision(x, d) = [x EXCEPT !.phase = Asked(d), !.cancelReason = d,
                                   !.pending = Pending(d, FALSE)]
  BY DEF OnDecision, Asked
<1> QED
  BY <1>1, <1>2, <1>3, SnapshotFields DEF Becomes, Snapshots

LEMMA Closed ==
  ASSUME NEW x \in Snapshots, NEW ph \in Phases
  PROVE  Becomes(OnClosed(x, ph), ph, x.cancelReason, NoEvent)
BY Pendings, Rewritten DEF OnClosed

LEMMA MountFailed ==
  ASSUME NEW x \in Snapshots
  PROVE  Becomes(OnMountFailed(x), x.phase, x.cancelReason,
                 IF x.pending = NoEvent THEN Pending("variant_mount_failed", FALSE)
                                        ELSE x.pending)
<1>1. Pending("variant_mount_failed", FALSE) \in PendingEvents
  BY Pendings DEF EventTypes
<1> QED
  BY <1>1, SnapshotFields DEF OnMountFailed, Becomes, Snapshots

LEMMA Checkpointed ==
  ASSUME NEW x \in Snapshots, NEW ph \in Phases
  PROVE  Becomes(OnCheckpoint(x, ph), IF Fenced(x) THEN x.phase ELSE ph,
                 x.cancelReason, x.pending)
BY SnapshotFields DEF OnCheckpoint, Becomes, Snapshots

LEMMA DoneByAgent ==
  ASSUME NEW x \in Snapshots, NEW c \in BOOLEAN
  PROVE  \/ OnAgentDone(x, c) = x /\ Fenced(x)
         \/ Becomes(OnAgentDone(x, c), IF c THEN "carbonize_required" ELSE "variants_ready",
                    x.cancelReason, NoEvent)
            /\ (~Fenced(x) \/ (c /\ x.phase = "accept_requested"))
<1>1. {"carbonize_required", "variants_ready"} \subseteq Phases
  BY DEF Phases, FencedPhases
<1> QED
  BY <1>1, Pendings, SnapshotFields DEF OnAgentDone, Becomes, Snapshots

LEMMA EarliestIn ==
  ASSUME NEW q \in Seq(Entries), NEW at, at \subseteq DOMAIN q, at # {}
  PROVE  Earliest(at) \in at
<1>1. at \in SUBSET Nat
  BY LenProperties
<1>2. \E i \in at : \A k \in at : i <= k
  BY <1>1, LeastNumber
<1> QED
  BY <1>2, Zenon DEF Earliest

LEMMA WithoutCases ==
  ASSUME NEW q \in Seq(Entries), NEW s, NEW t
  PROVE  \/ Without(q, s, t) = q
         \/ \E n \in Positions(q, s, t) : Without(q, s, t) = RemoveAt(q, n)
<1>1. CASE Positions(q, s, t) = {}
  BY <1>1 DEF Without
<1>2. CASE Positions(q, s, t) # {}
  <2>1. Earliest(Positions(q, s, t)) \in Positions(q, s, t)
    BY <1>2, EarliestIn DEF Positions
  <2>2. Without(q, s, t) = RemoveAt(q, Earliest(Positions(q, s, t)))
    BY <1>2, Zenon DEF Without, Earliest
  <2> QED
    BY <2>1, <2>2
<1> QED
  BY <1>1, <1>2

-----------------------------------------------------------------------------
(* The posts of the browser.                                                *)

NextBooks ==
  /\ Books(journal', queue', polls', agent', handed', spoiled')
  /\ Asleep(queue', polls')

\* What the invariant says of one session, put together for the actions.
LEMMA SessionFacts ==
  ASSUME LInv, NEW s \in Sessions
  PROVE  /\ journal \in [Sessions -> Snapshots] /\ journal[s] \in Snapshots
         /\ queue \in Seq(Entries) /\ polls \in Seq(Agents)
         /\ agent \in [Agents -> AgentStates]
         /\ spoiled \subseteq Sessions
         /\ journal[s].pending # NoEvent =>
              Sound(journal, handed, spoiled, s,
                    journal[s].pending.type, journal[s].pending.prepared)
         /\ journal[s].phase = "absent" => /\ \A t : <<s, t>> \notin handed
                                           /\ \A i \in DOMAIN queue : queue[i].s # s
                                           /\ \A a \in Agents : agent[a].at \in Busy
                                                                => agent[a].s # s
         /\ s \notin spoiled => \A i \in DOMAIN queue :
              queue[i].s = s /\ queue[i].type \in Decisions
                => /\ journal[s].cancelReason = queue[i].type
                   /\ journal[s].phase \notin CompletedPhases
                        => journal[s].pending.type = queue[i].type
<1>1. Books(journal, queue, polls, agent, handed, spoiled)
  BY DEF LInv
<1>2. journal \in [Sessions -> Snapshots] /\ spoiled \subseteq Sessions
      /\ PendingSound(journal, handed, spoiled)
      /\ \A e \in handed : journal[e[1]].phase # "absent"
  BY <1>1 DEF Books, JournalBook
<1>3. queue \in Seq(Entries) /\ QueueSound(queue, journal, handed, spoiled)
      /\ Recorded(queue, journal, spoiled)
  BY <1>1 DEF Books, QueueBook
<1>4. /\ polls \in Seq(Agents) /\ agent \in [Agents -> AgentStates]
      /\ \A a \in Agents : agent[a].at \in Busy => Job(agent[a], journal, handed, spoiled)
  BY <1>1 DEF Books, JobBook
<1>5. journal[s].phase = "absent" => \A t : <<s, t>> \notin handed
  BY <1>2
<1>6. \A i \in DOMAIN queue : journal[queue[i].s].phase # "absent"
  BY <1>3 DEF QueueSound, Sound
<1>7. \A a \in Agents : agent[a].at \in Busy => journal[agent[a].s].phase # "absent"
  BY <1>4 DEF Job, Sound
<1>8. s \notin spoiled => \A i \in DOMAIN queue :
         queue[i].s = s /\ queue[i].type \in Decisions
           => journal[s].cancelReason = queue[i].type
  BY <1>3 DEF QueueSound, Sound
<1>9. s \notin spoiled => \A i \in DOMAIN queue :
         queue[i].s = s /\ queue[i].type \in Decisions
           => (journal[s].phase \notin CompletedPhases
                 => journal[s].pending.type = queue[i].type)
  BY <1>3 DEF Recorded
<1>10. journal[s].pending # NoEvent =>
         Sound(journal, handed, spoiled, s,
               journal[s].pending.type, journal[s].pending.prepared)
  BY <1>2 DEF PendingSound
<1> QED
  BY <1>2, <1>3, <1>4, <1>5, <1>6, <1>7, <1>8, <1>9, <1>10

\* Journal, then queue: what a post that adds an entry comes to.
LEMMA PostServed ==
  ASSUME NEW j, NEW q, NEW sp, Books(j, q, polls, agent, handed, sp), Asleep(q, polls),
         NEW s \in Sessions, NEW t \in EventTypes,
         Sound(j, handed, sp, s, t, FALSE),
         t = "generate" => \A a \in Agents : agent[a].at = "scaffolding" => agent[a].s # s,
         t \in Decisions /\ s \notin sp /\ j[s].phase \notin CompletedPhases
           => j[s].pending.type = t,
         Settle(Push(q, s, Pending(t, FALSE)), polls, agent),
         journal' = j, spoiled' = sp
  PROVE  NextBooks
<1> DEFINE r == Push(q, s, Pending(t, FALSE))
<1>1. /\ QueueBook(q, j, handed, sp) /\ JobBook(polls, agent, j, handed, sp)
      /\ Claimed(q, agent)
  BY DEF Books
<1>2. QueueBook(r, j, handed, sp) /\ Claimed(r, agent) /\ \E n : Drowsy(r, polls, n)
  BY <1>1, QueueGrows
<1> HIDE DEF r
<1>3. Books(j, r, polls, agent, handed, sp)
  BY <1>2, Requeued
<1>4. Settle(r, polls, agent)
  BY DEF r
<1> QED
  BY <1>2, <1>3, <1>4, Served DEF NextBooks

LEMMA OpeningKeeps ==
  ASSUME LInv, NEW s \in Sessions, PostOpening(s)
  PROVE  NextBooks
<1> DEFINE x == IF s \in Steers THEN OnSteer(journal[s]) ELSE OnGenerate(journal[s], FALSE)
           t == Opener(s)
<1>1. journal[s] \in Snapshots /\ journal[s].phase = "absent"
  BY SessionFacts DEF PostOpening, Known
<1>2. t \in EventTypes /\ t \notin Decisions /\ (t = "steer" <=> s \in Steers)
      /\ t \in {"steer", "generate"}
  BY DEF Opener, EventTypes, Decisions
<1>3. Becomes(x, x.phase, journal[s].cancelReason, Pending(t, FALSE)) /\ x.phase # "absent"
  BY <1>1, Opened DEF Becomes, Opener
<1>4. Pending(t, FALSE).type = t /\ Pending(t, FALSE).prepared = FALSE
  BY <1>2, Pendings
<1>5. journal' = [journal EXCEPT ![s] = x] /\ spoiled' = spoiled
      /\ Settle(Push(queue, s, Pending(t, FALSE)), polls, agent)
  BY DEF PostOpening, Journal
<1> HIDE DEF x, t
<1> DEFINE j2 == [journal EXCEPT ![s] = x]
<1>6. j2[s] = x
  BY SessionFacts
<1>7. Sound(j2, handed, spoiled, s, t, FALSE)
  BY <1>1, <1>2, <1>3, <1>6, SessionFacts DEF Sound
<1> HIDE DEF j2
<1>8. Books(j2, queue, polls, agent, handed, spoiled)
  <2>1. x \in Snapshots /\ x.pending = Pending(t, FALSE)
        /\ x.cancelReason = journal[s].cancelReason
    BY <1>3 DEF Becomes
  <2>2. \A i \in DOMAIN queue : queue[i].s # s
    BY <1>1, SessionFacts
  <2>3. Sound(j2, handed, spoiled, s, x.pending.type, x.pending.prepared)
    BY <1>4, <1>7, <2>1
  <2> QED
    BY <1>3, <2>1, <2>2, <2>3, Journaled DEF j2, LInv
<1>9. \A a \in Agents : agent[a].at = "scaffolding" => agent[a].s # s
  BY <1>1, SessionFacts DEF Busy
<1> QED
  BY <1>2, <1>5, <1>7, <1>8, <1>9, PostServed DEF j2, LInv

\* After a decision no generation is queued; nothing else is said of the queue.
LEMMA DecidedKeeps ==
  ASSUME NEW j, NEW sp, Books(j, queue, polls, agent, handed, sp), Asleep(queue, polls),
         NEW s
  PROVE  LET r == Decided(queue, s)
         IN  Books(j, r, polls, agent, handed, sp) /\ Asleep(r, polls)
<1> DEFINE r == Decided(queue, s)
<1>1. QueueBook(queue, j, handed, sp) /\ Claimed(queue, agent) /\ queue \in Seq(Entries)
  BY DEF Books, QueueBook
<1>2. CASE r = queue
  BY <1>2
<1>3. ASSUME NEW n \in Positions(queue, s, "generate"), r = RemoveAt(queue, n)
      PROVE  Books(j, r, polls, agent, handed, sp) /\ Asleep(r, polls)
  <2>1. n \in DOMAIN queue
    BY DEF Positions
  <2>2. QueueBook(r, j, handed, sp) /\ Claimed(r, agent)
    BY <1>1, <1>3, <2>1, QueueShrinks
  <2>3. Asleep(r, polls)
    BY <1>1, <1>3, <2>1, SleepsOn
  <2> QED
    BY <2>2, <2>3, Requeued
<1> QED
  BY <1>1, <1>2, <1>3, WithoutCases DEF Decided

LEMMA DecisionKeeps ==
  ASSUME LInv, NEW s \in Sessions \ Steers, NEW d \in Decisions, PostDecision(s, d)
  PROVE  NextBooks
<1> DEFINE x == OnDecision(journal[s], d)
           j2 == [journal EXCEPT ![s] = x]
<1>1. journal[s] \in Snapshots /\ spoiled \subseteq Sessions
      /\ journal[s].cancelReason \in Decisions \cup {"none"}
  BY SessionFacts, SnapshotFields
<1>2. x \in Snapshots /\ x.phase = Asked(d) /\ x.cancelReason = d
      /\ x.pending = Pending(d, FALSE)
  BY <1>1, DecidedOn DEF Becomes
<1>3. /\ d \in EventTypes /\ d # "steer" /\ d # "generate" /\ d # "variant_mount_failed"
      /\ d # "none" /\ Asked(d) # "absent"
  BY DEF EventTypes, Decisions, Asked
<1>4. x.pending.type = d /\ x.pending.prepared = FALSE
  BY <1>2, <1>3, Pendings
<1>5. /\ journal' = j2
      /\ Settle(Push(Decided(queue, s), s, Pending(d, FALSE)), polls, agent)
      /\ spoiled' = IF journal[s].cancelReason \in Decisions \ {d}
                    THEN spoiled \cup {s} ELSE spoiled
  BY DEF PostDecision, Journal, Contend
<1> HIDE DEF x
<1>6. j2[s] = x
  BY SessionFacts
<1> HIDE DEF j2
<1>7. Sound(j2, handed, spoiled', s, d, FALSE)
  <2>1. d = "accept" => <<s, "generate">> \in handed
    BY DEF PostDecision, Shown
  <2> QED
    BY <1>2, <1>3, <1>6, <2>1 DEF Sound
<1>8. s \notin spoiled' => s \notin spoiled /\ journal[s].cancelReason \in {d, "none"}
  BY <1>1, <1>5
<1>9. Books(j2, queue, polls, agent, handed, spoiled')
  <2>1. spoiled' = spoiled \/ spoiled' = spoiled \cup {s}
    BY <1>5
  <2>2. s \notin spoiled' /\ journal[s].cancelReason \in Decisions
          => x.cancelReason = journal[s].cancelReason
    BY <1>2, <1>8 DEF Decisions
  <2>3. s \notin spoiled' => \A i \in DOMAIN queue :
          queue[i].s = s /\ queue[i].type \in Decisions => x.pending.type = queue[i].type
    BY <1>3, <1>4, <1>8, SessionFacts DEF Decisions
  <2>4. Sound(j2, handed, spoiled', s, x.pending.type, x.pending.prepared)
    BY <1>4, <1>7
  <2>5. Books(journal, queue, polls, agent, handed, spoiled) /\ x.phase # "absent"
    BY <1>2, <1>3 DEF LInv
  <2> QED
    BY <1>2, <2>1, <2>2, <2>3, <2>4, <2>5, Journaled DEF j2
<1>10. Books(j2, Decided(queue, s), polls, agent, handed, spoiled')
       /\ Asleep(Decided(queue, s), polls)
  BY <1>9, DecidedKeeps DEF LInv
<1> QED
  BY <1>2, <1>3, <1>4, <1>5, <1>6, <1>7, <1>10, PostServed

LEMMA OrphanedDiscardKeeps ==
  ASSUME LInv, NEW s \in Sessions, PostOrphanedDiscard(s)
  PROVE  NextBooks
<1> DEFINE y == OnDecision(journal[s], "discard")
           x == OnClosed(y, "discarded")
           j2 == [journal EXCEPT ![s] = x]
<1>1. journal[s] \in Snapshots /\ journal[s].cancelReason \in Decisions \cup {"none"}
      /\ "discard" \in Decisions /\ "discarded" \in Phases
  BY SessionFacts, SnapshotFields DEF Decisions, Phases, FencedPhases
<1>2. y \in Snapshots /\ y.cancelReason = "discard"
  BY <1>1, DecidedOn DEF Becomes
<1> HIDE DEF y
<1>3. x \in Snapshots /\ x.phase = "discarded" /\ x.cancelReason = "discard"
      /\ x.pending = NoEvent
  BY <1>1, <1>2, Closed DEF Becomes
<1>4. /\ journal' = j2 /\ queue' = Decided(queue, s)
      /\ spoiled' = IF journal[s].cancelReason = "accept" THEN spoiled \cup {s} ELSE spoiled
      /\ polls' = polls /\ agent' = agent /\ handed' = handed
  BY DEF PostOrphanedDiscard, Journal, Contend, y
<1> HIDE DEF x
<1>5. Books(j2, queue, polls, agent, handed, spoiled')
  <2>1. spoiled' = spoiled \/ spoiled' = spoiled \cup {s}
    BY <1>4
  <2>2. s \notin spoiled' /\ journal[s].cancelReason \in Decisions
          => x.cancelReason = journal[s].cancelReason
    BY <1>3, <1>4 DEF Decisions
  <2>3. x.phase # "absent" /\ x.phase \in CompletedPhases
    BY <1>3 DEF CompletedPhases
  <2> QED
    BY <1>3, <2>1, <2>2, <2>3, Journaled DEF LInv
<1> HIDE DEF j2
<1>6. Books(j2, Decided(queue, s), polls, agent, handed, spoiled')
      /\ Asleep(Decided(queue, s), polls)
  BY <1>5, DecidedKeeps DEF LInv
<1> QED
  BY <1>4, <1>6 DEF NextBooks

LEMMA CheckpointKeeps ==
  ASSUME LInv, NEW s \in Sessions, NEW ph \in {"steer", "generating", "cycling"},
         PostCheckpoint(s, ph)
  PROVE  NextBooks
<1> DEFINE x == OnCheckpoint(journal[s], ph)
<1>1. journal[s] \in Snapshots /\ ph \in Phases /\ ph # "absent"
      /\ journal[s].phase # "absent"
  BY SessionFacts DEF Phases, PostCheckpoint, Known
<1>2. x \in Snapshots /\ x.phase = (IF Fenced(journal[s]) THEN journal[s].phase ELSE ph)
      /\ x.cancelReason = journal[s].cancelReason /\ x.pending = journal[s].pending
  BY <1>1, Checkpointed DEF Becomes
<1>3. /\ journal' = [journal EXCEPT ![s] = x]
      /\ UNCHANGED <<queue, polls, agent, handed, spoiled>>
  BY DEF PostCheckpoint, Journal
<1> HIDE DEF x
<1>4. s \notin spoiled /\ x.phase \notin CompletedPhases
        => \A i \in DOMAIN queue : queue[i].s = s /\ queue[i].type \in Decisions
                                   => x.pending.type = queue[i].type
  <2> SUFFICES ASSUME s \notin spoiled, x.phase \notin CompletedPhases,
                      NEW i \in DOMAIN queue, queue[i].s = s, queue[i].type \in Decisions
               PROVE  x.pending.type = queue[i].type
    OBVIOUS
  <2>1. journal[s].cancelReason = queue[i].type /\ "none" \notin Decisions
    BY SessionFacts DEF Decisions
  <2>2. Fenced(journal[s])
    BY <2>1 DEF Fenced, Canceled
  <2> QED
    BY <1>2, <2>2, SessionFacts
<1>5. Books([journal EXCEPT ![s] = x], queue, polls, agent, handed, spoiled)
  BY <1>1, <1>2, <1>4, Journaled DEF LInv
<1> QED
  BY <1>3, <1>5 DEF NextBooks, LInv

LEMMA MountFailedKeeps ==
  ASSUME LInv, NEW s \in Sessions \ Steers, PostMountFailed(s)
  PROVE  NextBooks
<1> DEFINE x == OnMountFailed(journal[s])
           t == "variant_mount_failed"
           j2 == [journal EXCEPT ![s] = x]
<1>1. journal[s] \in Snapshots /\ journal[s].phase # "absent" /\ t \in EventTypes
      /\ <<s, "generate">> \in handed
      /\ t \notin Decisions /\ "none" \notin Decisions
  BY SessionFacts DEF PostMountFailed, Known, Shown, EventTypes, Decisions
<1>2. /\ x \in Snapshots /\ x.phase = journal[s].phase
      /\ x.cancelReason = journal[s].cancelReason
      /\ x.pending = IF journal[s].pending = NoEvent THEN Pending(t, FALSE)
                                                     ELSE journal[s].pending
  BY <1>1, MountFailed DEF Becomes
<1>3. /\ journal' = j2 /\ spoiled' = spoiled
      /\ Settle(Push(queue, s, Pending(t, FALSE)), polls, agent)
  BY DEF PostMountFailed, Journal
<1>4. Pending(t, FALSE).type = t /\ Pending(t, FALSE).prepared = FALSE
  BY <1>1, Pendings
<1> HIDE DEF x
<1>5. j2[s] = x
  BY SessionFacts
<1> HIDE DEF j2
<1>6. Sound(j2, handed, spoiled, s, t, FALSE)
  BY <1>1, <1>2, <1>5 DEF Sound
<1>7. s \notin spoiled /\ x.phase \notin CompletedPhases
        => \A i \in DOMAIN queue : queue[i].s = s /\ queue[i].type \in Decisions
                                   => x.pending.type = queue[i].type
  <2> SUFFICES ASSUME s \notin spoiled, x.phase \notin CompletedPhases,
                      NEW i \in DOMAIN queue, queue[i].s = s, queue[i].type \in Decisions
               PROVE  x.pending.type = queue[i].type
    OBVIOUS
  <2>1. journal[s].pending.type = queue[i].type
    BY <1>2, SessionFacts
  <2>2. journal[s].pending # NoEvent
    BY <1>1, <2>1, Pendings
  <2> QED
    BY <1>2, <2>1, <2>2
<1>8. Books(j2, queue, polls, agent, handed, spoiled)
  <2>1. x.pending = journal[s].pending
        \/ Sound(j2, handed, spoiled, s, x.pending.type, x.pending.prepared)
    BY <1>2, <1>4, <1>6
  <2> QED
    BY <1>1, <1>2, <1>7, <2>1, Journaled DEF LInv, j2
<1> QED
  BY <1>1, <1>3, <1>6, <1>8, PostServed DEF LInv

-----------------------------------------------------------------------------
(* The agents' polls, the scaffold and the leases.                          *)

\* An agent that is parked has the job of one that is idle.
LEMMA ParkedBooks ==
  ASSUME LInv, NEW a \in Agents, agent[a] = Idle
  PROVE  LET p == Append(polls, a)
             ag == [agent EXCEPT ![a].at = "parked"]
         IN  /\ Books(journal, queue, p, ag, handed, spoiled)
             /\ p \in Seq(Agents) /\ Len(p) = Len(polls) + 1 /\ p[Len(p)] = a
             /\ \A i \in 1 .. Len(polls) : p[i] = polls[i]
             /\ ag \in [Agents -> AgentStates] /\ \A b \in Agents \ {a} : ag[b] = agent[b]
<1> DEFINE p == Append(polls, a)
           ag == [agent EXCEPT ![a].at = "parked"]
<1>1. Books(journal, queue, polls, agent, handed, spoiled) /\ polls \in Seq(Agents)
      /\ agent \in [Agents -> AgentStates] /\ Len(polls) \in Nat
      /\ DOMAIN polls = 1 .. Len(polls)
  BY LenProperties DEF LInv, Books, JobBook
<1>2. /\ p \in Seq(Agents) /\ Len(p) = Len(polls) + 1 /\ p[Len(p)] = a
      /\ \A i \in 1 .. Len(polls) : p[i] = polls[i]
  BY <1>1, AppendProperties
<1>3. DOMAIN p = 1 .. Len(polls) + 1
  BY <1>2, LenProperties
<1> DEFINE e == [Idle EXCEPT !.at = "parked"]
<1>4. e \in AgentStates /\ e.at = "parked"
  BY DEF Idle, AgentStates
<1>5. ag = [agent EXCEPT ![a] = e]
  OBVIOUS
<1> HIDE DEF e, p, ag
<1>6. /\ ag \in [Agents -> AgentStates] /\ ag[a].at = "parked"
      /\ \A b \in Agents \ {a} : ag[b] = agent[b]
  BY <1>1, <1>4, <1>5
<1>7. JobBook(p, ag, journal, handed, spoiled)
  <2>1. \A b \in Agents : ag[b].at \in Busy => Job(ag[b], journal, handed, spoiled)
    BY <1>1, <1>6 DEF Books, JobBook, Busy
  <2>2. ASSUME NEW b \in Agents, ag[b].at = "parked"
        PROVE  \E i \in DOMAIN p : p[i] = b
    <3>1. CASE b = a
      BY <1>1, <1>2, <1>3, <3>1
    <3>2. CASE b # a
      <4>1. PICK i \in DOMAIN polls : polls[i] = b
        BY <1>1, <1>6, <2>2, <3>2 DEF Books, JobBook
      <4> QED
        BY <1>1, <1>2, <1>3, <4>1
    <3> QED
      BY <3>1, <3>2
  <2>3. Alone(ag)
    BY <1>1, <1>6 DEF Books, JobBook, Alone
  <2> QED
    BY <1>2, <1>6, <2>1, <2>2, <2>3 DEF JobBook
<1>8. Claimed(queue, ag)
  BY <1>1, <1>6 DEF Books, Claimed
<1> QED
  BY <1>1, <1>2, <1>6, <1>7, <1>8 DEF Books, p, ag

LEMMA PollKeeps ==
  ASSUME LInv, NEW a \in Agents, Poll(a)
  PROVE  NextBooks
<1> DEFINE p == Append(polls, a)
           ag == [agent EXCEPT ![a].at = "parked"]
<1>1. agent[a] = Idle /\ journal' = journal /\ spoiled' = spoiled
  BY DEF Poll
<1>2. /\ Books(journal, queue, p, ag, handed, spoiled)
      /\ p \in Seq(Agents) /\ Len(p) = Len(polls) + 1 /\ p[Len(p)] = a
      /\ \A i \in 1 .. Len(polls) : p[i] = polls[i]
      /\ ag \in [Agents -> AgentStates] /\ \A b \in Agents \ {a} : ag[b] = agent[b]
  BY <1>1, ParkedBooks
<1>3. /\ polls \in Seq(Agents) /\ queue \in Seq(Entries) /\ agent \in [Agents -> AgentStates]
      /\ Len(polls) \in Nat /\ DOMAIN polls = 1 .. Len(polls)
      /\ DOMAIN p = 1 .. Len(polls) + 1
      /\ Asleep(queue, polls)
  BY <1>2, LenProperties DEF LInv, Books, QueueBook, JobBook
<1>4. CASE Available(queue, Lanes[a]) = {}
  <2>1. polls' = p /\ agent' = ag /\ queue' = queue /\ handed' = handed
    BY <1>4 DEF Poll
  <2> HIDE DEF p, ag
  <2>2. ASSUME NEW i \in DOMAIN p
        PROVE  Available(queue, Lanes[p[i]]) = {}
    <3>1. CASE i = Len(p)
      BY <1>2, <1>4, <3>1
    <3>2. CASE i \in DOMAIN polls
      BY <1>2, <1>3, <3>2 DEF Asleep
    <3> QED
      BY <1>2, <1>3, <3>1, <3>2
  <2> QED
    BY <1>1, <1>2, <2>1, <2>2 DEF NextBooks, Asleep
<1>5. CASE Available(queue, Lanes[a]) # {}
  <2> DEFINE n == Selected(queue, Lanes[a])
             i == Len(p)
  <2>1. /\ queue' = Claim(queue, n) /\ agent' = [agent EXCEPT ![a] = Given(queue[n])]
        /\ handed' = handed \cup Handed(queue[n]) /\ polls' = polls
    BY <1>5 DEF Poll
  <2>2. n \in Available(queue, Lanes[a])
    BY <1>3, <1>5, Selects
  <2>3. agent' = [ag EXCEPT ![a] = Given(queue[n])]
    BY <1>3, <2>1
  <2> HIDE DEF p, ag, n
  <2>4. polls = RemoveAt(p, i)
    <3>1. i \in DOMAIN p
      BY <1>2, <1>3
    <3>2. /\ RemoveAt(p, i) \in Seq(Agents) /\ Len(RemoveAt(p, i)) = Len(p) - 1
          /\ \A k \in 1 .. Len(p) - 1 : RemoveAt(p, i)[k] = IF k < i THEN p[k] ELSE p[k + 1]
      BY <1>2, <3>1, Removed
    <3>3. Len(RemoveAt(p, i)) = Len(polls)
          /\ \A k \in 1 .. Len(polls) : RemoveAt(p, i)[k] = polls[k]
      BY <1>2, <1>3, <3>2
    <3> QED
      BY <1>3, <3>2, <3>3, SeqEqual
  <2>5. Hands(queue, p, ag, i, n)
    BY <1>2, <2>1, <2>3, <2>4 DEF Hands
  <2>6. ASSUME NEW k \in DOMAIN p \ {i}
        PROVE  Available(queue, Lanes[p[k]]) \subseteq {n}
    <3>1. k \in DOMAIN polls /\ p[k] = polls[k]
      BY <1>2, <1>3
    <3> QED
      BY <1>3, <3>1 DEF Asleep
  <2>7. i \in DOMAIN p /\ n \in Available(queue, Lanes[p[i]])
    BY <1>2, <1>3, <2>2
  <2> QED
    BY <1>1, <1>2, <2>5, <2>6, <2>7, HandsKeep DEF NextBooks
<1> QED
  BY <1>4, <1>5

LEMMA LeaveKeeps ==
  ASSUME LInv, NEW a \in Agents, Leave(a)
  PROVE  NextBooks
<1> DEFINE i == CHOOSE k \in DOMAIN polls : polls[k] = a
<1>1. /\ agent[a].at = "parked" /\ agent' = [agent EXCEPT ![a] = Idle]
      /\ polls' = RemoveAt(polls, i)
      /\ UNCHANGED <<journal, queue, handed, spoiled>>
  BY Zenon DEF Leave
<1>2. /\ Books(journal, queue, polls, agent, handed, spoiled) /\ polls \in Seq(Agents)
      /\ agent \in [Agents -> AgentStates] /\ Len(polls) \in Nat
      /\ DOMAIN polls = 1 .. Len(polls) /\ Asleep(queue, polls)
  BY LenProperties DEF LInv, Books, JobBook
<1>3. i \in DOMAIN polls /\ polls[i] = a
  BY <1>1, <1>2, Zenon DEF Books, JobBook
<1> HIDE DEF i
<1>4. /\ polls' \in Seq(Agents) /\ DOMAIN polls' = 1 .. Len(polls) - 1
      /\ \A k \in DOMAIN polls' : polls'[k] = IF k < i THEN polls[k] ELSE polls[k + 1]
  BY <1>1, <1>2, <1>3, Removed
<1>5. /\ agent' \in [Agents -> AgentStates] /\ agent'[a].at = "idle"
      /\ \A b \in Agents \ {a} : agent'[b] = agent[b]
  <2>1. Idle \in AgentStates /\ Idle.at = "idle"
    BY DEF Idle, AgentStates
  <2> QED
    BY <1>1, <1>2, <2>1
<1>6. JobBook(polls', agent', journal, handed, spoiled)
  <2>1. \A b \in Agents : agent'[b].at \in Busy => Job(agent'[b], journal, handed, spoiled)
    BY <1>2, <1>5 DEF Books, JobBook, Busy
  <2>2. ASSUME NEW b \in Agents, agent'[b].at = "parked"
        PROVE  \E k \in DOMAIN polls' : polls'[k] = b
    <3>1. b # a
      BY <1>5, <2>2
    <3>2. PICK k \in DOMAIN polls : polls[k] = b
      BY <1>2, <1>5, <2>2, <3>1 DEF Books, JobBook
    <3>3. k # i
      BY <1>3, <3>1, <3>2
    <3>4. CASE k < i
      BY <1>2, <1>3, <1>4, <3>2, <3>4
    <3>5. CASE k > i
      <4>1. k - 1 \in 1 .. Len(polls) - 1 /\ ~(k - 1 < i) /\ (k - 1) + 1 = k
        BY <1>2, <1>3, <3>5
      <4> QED
        BY <1>4, <3>2, <4>1
    <3> QED
      BY <1>2, <1>3, <3>3, <3>4, <3>5
  <2>3. Alone(agent')
    BY <1>2, <1>5 DEF Books, JobBook, Alone
  <2> QED
    BY <1>4, <1>5, <2>1, <2>2, <2>3 DEF JobBook
<1>7. Claimed(queue, agent')
  BY <1>2, <1>5 DEF Books, Claimed
<1>8. Asleep(queue, polls')
  <2>1. \A k \in DOMAIN polls' : \E l \in DOMAIN polls : polls'[k] = polls[l]
    BY <1>2, <1>3, <1>4
  <2> QED
    BY <1>2, <2>1 DEF Asleep
<1> QED
  BY <1>1, <1>2, <1>6, <1>7, <1>8 DEF NextBooks, Books

LEMMA LeaseExpiresKeeps ==
  ASSUME LInv, NEW s \in Sessions, NEW t \in EventTypes, LeaseExpires(s, t)
  PROVE  NextBooks
<1>1. PICK i \in Leased(s, t) : Settle([queue EXCEPT ![i].leased = FALSE], polls, agent)
  BY DEF LeaseExpires
<1> DEFINE r == WithLease(queue, i, FALSE)
<1>2. Settle(r, polls, agent) /\ journal' = journal /\ spoiled' = spoiled
  BY <1>1 DEF WithLease, LeaseExpires
<1>3. i \in DOMAIN queue /\ queue[i].s = s /\ queue[i].type = t
      /\ ~(t = "generate" /\ Scaffolding(s))
  BY DEF Leased, Positions
<1>4. queue[i].type = "generate"
        => \A a \in Agents : agent[a].at = "scaffolding" => agent[a].s # queue[i].s
  BY <1>3 DEF Scaffolding
<1> HIDE DEF r
<1>5. Books(journal, r, polls, agent, handed, spoiled) /\ Drowsy(r, polls, i)
  BY <1>3, <1>4, QueueOffers DEF LInv, r
<1> QED
  BY <1>2, <1>5, Served DEF NextBooks

LEMMA ScaffoldDoneKeeps ==
  ASSUME LInv, NEW a \in Agents, ScaffoldDone(a)
  PROVE  NextBooks
<1> DEFINE s == agent[a].s
           x == OnGenerate(journal[s], TRUE)
           e == <<s, "generate">>
<1>1. /\ Books(journal, queue, polls, agent, handed, spoiled) /\ Asleep(queue, polls)
      /\ agent \in [Agents -> AgentStates]
  BY DEF LInv, Books, JobBook
<1>2. /\ agent[a].at = "scaffolding" /\ journal' = [journal EXCEPT ![s] = x]
      /\ agent' = [agent EXCEPT ![a].at = "working"]
      /\ spoiled' = IF Canceled(journal[s]) THEN spoiled \cup {s} ELSE spoiled
      /\ handed' = handed \cup {e}
      /\ polls' = polls
  BY DEF ScaffoldDone, Journal, Contend
<1>3. /\ s \in Sessions /\ agent[a].type = "generate"
      /\ Sound(journal, handed, spoiled, s, "generate", FALSE)
  BY <1>1, <1>2 DEF Books, JobBook, Busy, Job
<1> HIDE DEF s, e
<1>4. journal[s].phase # "absent" /\ s \notin Steers /\ e \notin handed
  BY <1>3 DEF Sound, e
<1>5. journal[s] \in Snapshots /\ journal \in [Sessions -> Snapshots]
      /\ queue \in Seq(Entries) /\ spoiled \subseteq Sessions
  BY <1>3, SessionFacts
<1>6. /\ x \in Snapshots /\ x.phase = "generate_requested"
      /\ x.cancelReason = journal[s].cancelReason
      /\ x.pending = Pending("generate", TRUE)
  BY <1>5, Opened DEF Becomes
<1>7. x.pending.type = "generate" /\ x.pending.prepared
  <2>1. "generate" \in EventTypes /\ TRUE \in BOOLEAN
    BY DEF EventTypes
  <2>2. Pending("generate", TRUE).type = "generate"
    BY <2>1, Pendings
  <2>3. Pending("generate", TRUE).prepared
    BY DEF Pending
  <2> QED
    BY <1>6, <2>2, <2>3
<1> HIDE DEF x
<1>8. /\ journal' \in [Sessions -> Snapshots] /\ journal'[s] = x
      /\ \A u \in Sessions \ {s} : journal'[u] = journal[u]
      /\ \A u \in Sessions : journal'[u].cancelReason = journal[u].cancelReason
      /\ \A u \in Sessions : journal[u].phase # "absent" => journal'[u].phase # "absent"
  <2>1. /\ journal' \in [Sessions -> Snapshots] /\ journal'[s] = x
        /\ \A u \in Sessions \ {s} : journal'[u] = journal[u]
    BY <1>2, <1>3, <1>5, <1>6
  <2> QED
    BY <1>6, <2>1
<1>9. spoiled \subseteq spoiled' /\ spoiled' \subseteq Sessions
      /\ (s \notin spoiled' => s \notin spoiled /\ journal[s].cancelReason = "none")
  BY <1>2, <1>3, <1>5 DEF Canceled
\* An event keeps its facts, a generate event of this session if it is prepared.
<1>10. ASSUME NEW u \in Sessions, NEW t, NEW b, NEW c,
              Sound(journal, handed, spoiled, u, t, b),
              IF t = "generate" /\ u = s THEN c ELSE c = b
       PROVE  Sound(journal', handed', spoiled', u, t, c)
  BY <1>2, <1>4, <1>8, <1>9, <1>10 DEF Sound, e
<1>11. /\ queue' \in Seq(Entries) /\ DOMAIN queue' = DOMAIN queue
       /\ \A i \in DOMAIN queue :
             /\ queue'[i].s = queue[i].s /\ queue'[i].type = queue[i].type
             /\ IF queue[i].s = s /\ queue[i].type = "generate"
                THEN queue'[i].prepared /\ queue'[i].leased
                ELSE queue'[i] = queue[i]
  <2>1. Len(queue) \in Nat /\ DOMAIN queue = 1 .. Len(queue)
    BY <1>5, LenProperties
  <2>2. ASSUME NEW i \in DOMAIN queue
        PROVE  /\ queue'[i] \in Entries
               /\ queue'[i].s = queue[i].s /\ queue'[i].type = queue[i].type
               /\ IF queue[i].s = s /\ queue[i].type = "generate"
                  THEN queue'[i].prepared /\ queue'[i].leased
                  ELSE queue'[i] = queue[i]
    <3> DEFINE y == [queue[i] EXCEPT !.prepared = TRUE, !.leased = TRUE]
    <3>1. queue[i] \in Entries
      BY <1>5, EntryType
    <3>2. y \in Entries /\ y.s = queue[i].s /\ y.type = queue[i].type /\ y.prepared /\ y.leased
      BY <3>1 DEF Entries
    <3>3. queue'[i] = IF i \in Positions(queue, s, "generate") THEN y ELSE queue[i]
      BY DEF ScaffoldDone, s
    <3>4. i \in Positions(queue, s, "generate")
          <=> queue[i].s = s /\ queue[i].type = "generate"
      BY DEF Positions
    <3> HIDE DEF y
    <3> QED
      BY <3>1, <3>2, <3>3, <3>4
  <2>3. queue' \in [1 .. Len(queue) -> Entries] /\ DOMAIN queue' = DOMAIN queue
    <3>1. queue' = [i \in DOMAIN queue |-> queue'[i]]
      BY DEF ScaffoldDone
    <3> QED
      BY <2>1, <2>2, <3>1
  <2>4. queue' \in Seq(Entries)
    BY <2>1, <2>3, SeqDef
  <2> QED
    BY <2>2, <2>3, <2>4
<1>12. /\ agent' \in [Agents -> AgentStates]
       /\ agent'[a].at = "working" /\ agent'[a].s = s /\ agent'[a].type = "generate"
       /\ \A b \in Agents \ {a} : agent'[b] = agent[b]
  <2> DEFINE y == [agent[a] EXCEPT !.at = "working"]
  <2>1. y \in AgentStates /\ y.at = "working" /\ y.s = s /\ y.type = "generate"
    BY <1>1, <1>3 DEF AgentStates, s
  <2>2. agent' = [agent EXCEPT ![a] = y]
    BY <1>2
  <2> HIDE DEF y
  <2> QED
    BY <1>1, <2>1, <2>2
<1>13. JournalBook(journal', handed', spoiled')
  <2>1. handed' \subseteq Sessions \X EventTypes
    <3>1. e \in Sessions \X EventTypes
      BY <1>3 DEF e, EventTypes
    <3> QED
      BY <1>1, <1>2, <3>1 DEF Books, JournalBook
  <2>2. \A d \in handed' : journal'[d[1]].phase # "absent"
    <3> SUFFICES ASSUME NEW d \in handed'
                 PROVE  journal'[d[1]].phase # "absent"
      OBVIOUS
    <3>1. d[1] \in Sessions /\ journal[d[1]].phase # "absent"
      <4>1. CASE d = e
        BY <1>3, <1>4, <4>1 DEF e
      <4>2. CASE d \in handed
        BY <1>1, <4>2 DEF Books, JournalBook
      <4> QED
        BY <1>2, <4>1, <4>2
    <3> QED
      BY <1>8, <3>1
  <2>3. ASSUME NEW u \in Sessions, journal'[u].pending # NoEvent
        PROVE  Sound(journal', handed', spoiled', u,
                     journal'[u].pending.type, journal'[u].pending.prepared)
    <3>1. CASE u = s
      <4>1. Sound(journal', handed', spoiled', s, "generate", x.pending.prepared)
        BY <1>3, <1>7, <1>10
      <4> QED
        BY <1>7, <1>8, <3>1, <4>1
    <3>2. CASE u # s
      <4>1. Sound(journal, handed, spoiled, u, journal[u].pending.type, journal[u].pending.prepared)
        BY <1>1, <1>8, <2>3, <3>2 DEF Books, JournalBook, PendingSound
      <4> QED
        BY <1>8, <1>10, <3>2, <4>1
    <3> QED
      BY <3>1, <3>2
  <2> QED
    BY <1>8, <1>9, <2>1, <2>2, <2>3 DEF JournalBook, PendingSound
<1>14. QueueBook(queue', journal', handed', spoiled')
  <2>1. Once(queue')
    BY <1>1, <1>11 DEF Books, QueueBook, Once
  <2>2. ASSUME NEW i \in DOMAIN queue
        PROVE  Sound(journal', handed', spoiled', queue[i].s, queue[i].type, queue'[i].prepared)
    <3>1. Sound(journal, handed, spoiled, queue[i].s, queue[i].type, queue[i].prepared)
          /\ queue[i].s \in Sessions
      BY <1>1, <1>5, EntryType DEF Books, QueueBook, QueueSound
    <3> QED
      BY <1>10, <1>11, <3>1
  <2>3. LeasedHanded(queue', handed')
    BY <1>1, <1>2, <1>11 DEF Books, QueueBook, LeasedHanded, Decisions
  <2>4. ASSUME NEW i \in DOMAIN queue, queue[i].type \in Decisions, queue[i].s \notin spoiled',
               journal'[queue[i].s].phase \notin CompletedPhases
        PROVE  journal'[queue[i].s].pending.type = queue[i].type
    <3>1. queue[i].s \in Sessions /\ "none" \notin Decisions
      BY <1>5, EntryType DEF Decisions
    <3>2. queue[i].s # s
      BY <1>3, <1>9, <2>4, <3>1, SessionFacts
    <3> QED
      BY <1>8, <1>9, <2>4, <3>1, <3>2, SessionFacts
  <2> QED
    BY <1>11, <2>1, <2>2, <2>3, <2>4 DEF QueueBook, QueueSound, Recorded
<1>15. JobBook(polls', agent', journal', handed', spoiled')
  <2>1. ASSUME NEW b \in Agents, agent'[b].at \in Busy
        PROVE  Job(agent'[b], journal', handed', spoiled')
    <3>1. CASE b = a
      <4>1. Sound(journal', handed', spoiled', s, "generate", TRUE)
        BY <1>3, <1>10
      <4> QED
        BY <1>2, <1>3, <1>12, <3>1, <4>1 DEF Job, Sound, EventTypes, e
    <3>2. CASE b # a
      <4>1. agent'[b] = agent[b] /\ Job(agent[b], journal, handed, spoiled)
        BY <1>1, <1>12, <2>1, <3>2 DEF Books, JobBook
      <4>2. ~(agent[b].s = s /\ agent[b].type = "generate")
        <5>1. agent[b].at = "scaffolding" => agent[b].s # s
          BY <1>1, <1>2, <3>2 DEF Books, JobBook, Alone, s
        <5> QED
          BY <1>4, <4>1, <5>1 DEF Job, e
      <4>3. Sound(journal', handed', spoiled', agent[b].s, agent[b].type,
                  agent[b].at # "scaffolding")
        BY <1>10, <4>1, <4>2 DEF Job
      <4>4. /\ agent[b].s \in Sessions /\ agent[b].type \in EventTypes
            /\ IF agent[b].at = "scaffolding" THEN agent[b].type = "generate"
                                              ELSE <<agent[b].s, agent[b].type>> \in handed'
        BY <1>2, <4>1 DEF Job
      <4> QED
        BY <4>1, <4>3, <4>4 DEF Job
    <3> QED
      BY <3>1, <3>2
  <2>2. \A b \in Agents : agent'[b].at = "parked" => \E i \in DOMAIN polls : polls[i] = b
    BY <1>1, <1>12 DEF Books, JobBook
  <2>3. Alone(agent')
    BY <1>1, <1>12 DEF Books, JobBook, Alone
  <2> QED
    BY <1>1, <1>2, <1>12, <2>1, <2>2, <2>3 DEF JobBook, Books
<1>16. Claimed(queue', agent')
  BY <1>1, <1>11, <1>12 DEF Books, Claimed
<1>17. Asleep(queue', polls')
  BY <1>1, <1>2, <1>11 DEF Asleep, Available
<1> QED
  BY <1>13, <1>14, <1>15, <1>16, <1>17 DEF NextBooks, Books

-----------------------------------------------------------------------------
(* The agents' replies.                                                     *)

\* What a reply makes of the journal.
LEMMA ReplyOn ==
  ASSUME NEW x \in Snapshots, x.phase # "absent", NEW kind, NEW by, NEW c \in BOOLEAN
  PROVE  LET y == OnReply(x, kind, by, c)
         IN  /\ y \in Snapshots /\ y.phase # "absent"
             /\ y.cancelReason = x.cancelReason
             /\ y.pending = NoEvent \/ y.pending = x.pending
             /\ kind = "complete" => y.phase = "completed"
             /\ kind = "done" /\ ~c /\ Fenced(x) => y = x
<1> DEFINE y == OnReply(x, kind, by, c)
<1>1. {"steer_done", "discarded", "completed", "agent_error"} \subseteq Phases
  BY DEF Phases, FencedPhases
<1>2. CASE kind \in {"steer_done", "discarded", "complete"}
  BY <1>1, <1>2, Closed DEF OnReply, Becomes
<1>3. CASE kind = "error"
  BY <1>1, <1>3, Closed DEF OnReply, OnAgentError, Becomes
<1>4. CASE kind \notin {"steer_done", "discarded", "complete", "error"}
  <2>1. y = OnAgentDone(x, c)
    BY <1>4 DEF OnReply
  <2>2. ~c /\ Fenced(x) => OnAgentDone(x, c) = x
    BY DEF OnAgentDone
  <2> QED
    BY <1>4, <2>1, <2>2, DoneByAgent DEF Becomes
<1> QED
  BY <1>2, <1>3, <1>4

\* A reply that leaves no decision of an open session queued without its journal.
LEMMA Received ==
  ASSUME LInv, NEW s \in Sessions, journal[s].phase # "absent",
         NEW kind, NEW source, NEW c \in BOOLEAN, NEW ag,
         Receive(s, kind, source, c, ag),
         Books(journal, queue, polls, ag, handed, spoiled),
         spoiled' = spoiled \/ spoiled' = spoiled \cup {s},
         \/ s \in spoiled'
         \/ kind = "complete"
         \/ kind = "done" /\ ~c /\ Fenced(journal[s])
         \/ \A i \in DOMAIN queue : queue[i].s = s /\ queue[i].type \in Decisions
              => i = Earliest(Answered(queue, s, source)) /\ Answered(queue, s, source) # {}
  PROVE  NextBooks
<1> DEFINE at == Answered(queue, s, source)
           by == IF at = {} THEN "none" ELSE queue[Earliest(at)].type
           over == at = {} /\ journal[s].phase \in CompletedPhases
           x == IF over THEN journal[s] ELSE OnReply(journal[s], kind, by, c)
           r == IF at = {} THEN queue ELSE RemoveAt(queue, Earliest(at))
<1>1. journal' = [journal EXCEPT ![s] = x] /\ Settle(r, polls, ag)
  BY Zenon DEF Receive, Journal
<1>2. journal[s] \in Snapshots /\ queue \in Seq(Entries) /\ Asleep(queue, polls)
      /\ journal \in [Sessions -> Snapshots]
  BY SessionFacts DEF LInv
<1>3. at # {} => Earliest(at) \in DOMAIN queue
  <2>1. at \subseteq DOMAIN queue
    BY DEF Answered, OfSession, Positions
  <2> QED
    BY <1>2, <2>1, EarliestIn
<1>4. /\ x \in Snapshots /\ x.phase # "absent" /\ x.cancelReason = journal[s].cancelReason
      /\ x.pending = NoEvent \/ x.pending = journal[s].pending
      /\ kind = "complete" => x.phase \in CompletedPhases
      /\ kind = "done" /\ ~c /\ Fenced(journal[s]) => x = journal[s]
  BY <1>2, ReplyOn DEF CompletedPhases
<1>5. x = journal[s] \/ ~over
  OBVIOUS
<1> HIDE DEF x, by, over
<1>6. Books(journal, r, polls, ag, handed, spoiled) /\ Asleep(r, polls)
  <2>1. CASE at = {}
    BY <1>2, <2>1
  <2>2. CASE at # {}
    <3>1. QueueBook(queue, journal, handed, spoiled) /\ Claimed(queue, ag)
      BY DEF Books
    <3>2. QueueBook(r, journal, handed, spoiled) /\ Claimed(r, ag)
      BY <1>3, <2>2, <3>1, QueueShrinks
    <3>3. Asleep(r, polls)
      BY <1>2, <1>3, <2>2, SleepsOn
    <3> QED
      BY <3>2, <3>3, Requeued
  <2> QED
    BY <2>1, <2>2
<1>7. s \notin spoiled' /\ x.phase \notin CompletedPhases
        => \A i \in DOMAIN r : r[i].s = s /\ r[i].type \in Decisions
                               => x.pending.type = r[i].type
  <2> SUFFICES ASSUME s \notin spoiled', x.phase \notin CompletedPhases,
                      NEW i \in DOMAIN r, r[i].s = s, r[i].type \in Decisions
               PROVE  x.pending.type = r[i].type
    OBVIOUS
  <2>1. CASE kind = "done" /\ ~c /\ Fenced(journal[s])
    <3>1. Recorded(r, journal, spoiled)
      BY <1>6 DEF Books, QueueBook
    <3> QED
      BY <1>4, <2>1, <3>1 DEF Recorded
  <2>2. CASE \A k \in DOMAIN queue : queue[k].s = s /\ queue[k].type \in Decisions
               => k = Earliest(at) /\ at # {}
    <3>1. CASE at = {}
      BY <2>2, <3>1
    <3>2. CASE at # {}
      <4>1. /\ Len(queue) \in Nat /\ DOMAIN queue = 1 .. Len(queue)
            /\ DOMAIN r = 1 .. Len(queue) - 1
            /\ r[i] = IF i < Earliest(at) THEN queue[i] ELSE queue[i + 1]
        BY <1>2, <1>3, <3>2, Removed, LenProperties
      <4>2. \E k \in DOMAIN queue : k # Earliest(at) /\ r[i] = queue[k]
        <5>1. CASE i < Earliest(at)
          BY <1>3, <3>2, <4>1, <5>1
        <5>2. CASE ~(i < Earliest(at))
          <6>1. i + 1 \in DOMAIN queue /\ i + 1 # Earliest(at)
            BY <1>3, <3>2, <4>1, <5>2
          <6> QED
            BY <4>1, <5>2, <6>1
        <5> QED
          BY <5>1, <5>2
      <4> QED
        BY <2>2, <4>2
    <3> QED
      BY <3>1, <3>2
  <2> QED
    BY <1>4, <2>1, <2>2
<1> DEFINE j2 == [journal EXCEPT ![s] = x]
<1>8. Books(j2, r, polls, ag, handed, spoiled')
  BY <1>4, <1>6, <1>7, Journaled
<1>9. \A n : Drowsy(r, polls, n)
  BY <1>6 DEF Asleep, Drowsy
<1> HIDE DEF r, j2
<1>10. journal' = j2
  BY <1>1 DEF j2
<1> QED
  BY <1>1, <1>8, <1>9, <1>10, Served DEF NextBooks

\* An agent at work: what it has was handed to it, and it may put it down.
LEMMA AtWork ==
  ASSUME LInv, NEW a \in Agents, agent[a].at \in {"working", "cleaning"}
  PROVE  /\ agent[a].s \in Sessions /\ agent[a].type \in EventTypes
         /\ journal[agent[a].s].phase # "absent"
         /\ agent[a].type = "steer" <=> agent[a].s \in Steers
         /\ agent[a].type \in Decisions /\ agent[a].s \notin spoiled
              => journal[agent[a].s].cancelReason = agent[a].type
         /\ <<agent[a].s, agent[a].type>> \in handed
         /\ Books(journal, queue, polls, Ends(a), handed, spoiled)
         /\ agent[a].at = "working" /\ agent[a].type = "accept"
              => Books(journal, queue, polls, CleansUp(a), handed, spoiled)
<1>1. Books(journal, queue, polls, agent, handed, spoiled)
  BY DEF LInv
<1>2. Job(agent[a], journal, handed, spoiled) /\ agent[a].at # "scaffolding"
  BY <1>1 DEF Books, JobBook, Busy
<1>3. Books(journal, queue, polls, Ends(a), handed, spoiled)
  BY <1>1, Replied
<1>4. agent[a].at = "working" /\ agent[a].type = "accept"
      => Books(journal, queue, polls, CleansUp(a), handed, spoiled)
  BY <1>1, Replied
<1>5. Sound(journal, handed, spoiled, agent[a].s, agent[a].type, TRUE)
  BY <1>2 DEF Job, Sound
<1> QED
  BY <1>2, <1>3, <1>4, <1>5 DEF Job, Sound

\* The decisions queued of a session that nothing spoiled are the one its journal
\* has, and a request in words has none.
LEMMA QueuedDecision ==
  ASSUME LInv, NEW s \in Sessions, NEW i \in DOMAIN queue,
         queue[i].s = s, queue[i].type \in Decisions
  PROVE  /\ s \notin Steers
         /\ s \notin spoiled => journal[s].cancelReason = queue[i].type /\ Canceled(journal[s])
<1>1. Sound(journal, handed, spoiled, s, queue[i].type, queue[i].prepared)
  BY DEF LInv, Books, QueueBook, QueueSound
<1> QED
  BY <1>1 DEF Sound, Canceled, Decisions

LEMMA DoneKeeps ==
  ASSUME LInv, NEW a \in Agents, ReplyDone(a)
  PROVE  NextBooks
<1> DEFINE s == agent[a].s
           kind == DoneKind(a)
           source == SourceOf(queue, s, kind)
<1>1. /\ agent[a].at = "working" /\ spoiled' = spoiled
      /\ Receive(s, kind, source, FALSE, Ends(a))
  BY DEF ReplyDone, On
<1>2. /\ s \in Sessions /\ journal[s].phase # "absent"
      /\ agent[a].type = "steer" <=> s \in Steers
      /\ Books(journal, queue, polls, Ends(a), handed, spoiled)
  BY <1>1, AtWork
<1>3. kind = IF agent[a].type = "steer" THEN "steer_done" ELSE "done"
  BY DEF DoneKind
<1>4. \/ s \in spoiled
      \/ kind = "done" /\ Fenced(journal[s])
      \/ \A i \in DOMAIN queue : ~(queue[i].s = s /\ queue[i].type \in Decisions)
  BY <1>2, <1>3, QueuedDecision DEF Fenced
<1> HIDE DEF s, kind, source
<1> QED
  BY <1>1, <1>2, <1>4, Received

LEMMA ErrorKeeps ==
  ASSUME LInv, NEW a \in Agents, ReplyError(a)
  PROVE  NextBooks
<1> DEFINE s == agent[a].s
           source == SourceOf(queue, s, "error")
<1>1. /\ agent[a].at = "working"
      /\ spoiled' = IF Canceled(journal[s]) THEN spoiled \cup {s} ELSE spoiled
      /\ Receive(s, "error", source, FALSE, Ends(a))
  BY DEF ReplyError, On, Contend
<1>2. /\ s \in Sessions /\ journal[s].phase # "absent"
      /\ Books(journal, queue, polls, Ends(a), handed, spoiled)
  BY <1>1, AtWork
<1>3. \/ s \in spoiled'
      \/ \A i \in DOMAIN queue : ~(queue[i].s = s /\ queue[i].type \in Decisions)
  BY <1>1, <1>2, QueuedDecision
<1> HIDE DEF s, source
<1> QED
  BY <1>1, <1>2, <1>3, Received

\* A reply to a decision takes the one entry there is of it.
LEMMA DecisionReplied ==
  ASSUME LInv, NEW a \in Agents, NEW d \in Decisions, On(a, {d}),
         NEW kind, NEW c \in BOOLEAN,
         NEW ag, ag = Ends(a) \/ (ag = CleansUp(a) /\ d = "accept"),
         Receive(agent[a].s, kind, d, c, ag), spoiled' = spoiled
  PROVE  NextBooks
<1> DEFINE s == agent[a].s
           at == Answered(queue, s, d)
<1>1. /\ agent[a].at = "working" /\ agent[a].type = d
      /\ s \in Sessions /\ journal[s].phase # "absent"
      /\ s \notin spoiled => journal[s].cancelReason = d
      /\ Books(journal, queue, polls, ag, handed, spoiled)
  BY AtWork DEF On
<1>2. at = Positions(queue, s, d)
  BY DEF Answered, Decisions
<1>3. queue \in Seq(Entries) /\ Once(queue)
  BY DEF LInv, Books, QueueBook
<1>4. ASSUME s \notin spoiled, NEW i \in DOMAIN queue, queue[i].s = s, queue[i].type \in Decisions
      PROVE  i = Earliest(at) /\ at # {}
  <2>1. queue[i].type = d
    BY <1>1, <1>4, QueuedDecision
  <2>2. i \in at
    BY <1>2, <1>4, <2>1 DEF Positions
  <2>3. Earliest(at) \in at
    BY <1>2, <1>3, <2>2, EarliestIn DEF Positions
  <2> QED
    BY <1>2, <1>3, <2>2, <2>3 DEF Positions, Once
<1>5. Receive(s, kind, d, c, ag)
  OBVIOUS
<1>6. s \in spoiled' \/ \A i \in DOMAIN queue :
         queue[i].s = s /\ queue[i].type \in Decisions => i = Earliest(at) /\ at # {}
  BY <1>4
<1> HIDE DEF s
<1> QED
  BY <1>1, <1>5, <1>6, Received

\* A reply to an accept says whether cleanup is left.
LEMMA AcceptReplyFlag ==
  ASSUME NEW r \in AcceptReplies
  PROVE  r[2] \in BOOLEAN
<1>1. \/ r = <<"complete", FALSE>> \/ r = <<"agent_done", TRUE>>
      \/ r = <<"agent_done", FALSE>> \/ r = <<"error", FALSE>>
  BY DEF AcceptReplies
<1>2. CASE r = <<"complete", FALSE>>
  BY <1>2
<1>3. CASE r = <<"agent_done", TRUE>>
  BY <1>3
<1>4. CASE r = <<"agent_done", FALSE>>
  BY <1>4
<1>5. CASE r = <<"error", FALSE>>
  BY <1>5
<1> QED
  BY <1>1, <1>2, <1>3, <1>4, <1>5

LEMMA AcceptKeeps ==
  ASSUME LInv, NEW a \in Agents, NEW r \in AcceptReplies, ReplyAccept(a, r[1], r[2])
  PROVE  NextBooks
<1>1. r[2] \in BOOLEAN /\ "accept" \in Decisions
  BY AcceptReplyFlag DEF Decisions
<1> DEFINE ag == IF r[1] = "agent_done" THEN CleansUp(a) ELSE Ends(a)
<1>2. On(a, {"accept"}) /\ Receive(agent[a].s, r[1], "accept", r[2], ag) /\ spoiled' = spoiled
  BY DEF ReplyAccept
<1>3. ag = Ends(a) \/ ag = CleansUp(a)
  OBVIOUS
<1> HIDE DEF ag
<1> QED
  BY <1>1, <1>2, <1>3, DecisionReplied

LEMMA DiscardKeeps ==
  ASSUME LInv, NEW a \in Agents, NEW kind, ReplyDiscard(a, kind)
  PROVE  NextBooks
<1>1. "discard" \in Decisions /\ FALSE \in BOOLEAN
  BY DEF Decisions
<1>2. /\ On(a, {"discard"}) /\ Receive(agent[a].s, kind, "discard", FALSE, Ends(a))
      /\ spoiled' = spoiled
  BY DEF ReplyDiscard
<1> QED
  BY <1>1, <1>2, DecisionReplied

LEMMA CompleteKeeps ==
  ASSUME LInv, NEW a \in Agents, Complete(a)
  PROVE  NextBooks
<1> DEFINE s == agent[a].s
           source == SourceOf(queue, s, "complete")
<1>1. /\ agent[a].at = "cleaning" /\ spoiled' = spoiled
      /\ Receive(s, "complete", source, FALSE, Ends(a))
  BY DEF Complete
<1>2. /\ s \in Sessions /\ journal[s].phase # "absent"
      /\ Books(journal, queue, polls, Ends(a), handed, spoiled)
  BY <1>1, AtWork
<1> HIDE DEF s, source
<1> QED
  BY <1>1, <1>2, Received

\* The session is closed in the journal while the server is down.
LEMMA CompleteOfflineKeeps ==
  ASSUME LInv, NEW a \in Agents, CompleteOffline(a)
  PROVE  NextBooks
<1> DEFINE s == agent[a].s
           x == OnClosed(journal[s], "completed")
<1>1. /\ agent[a].at = "cleaning" /\ agent' = Ends(a)
      /\ journal' = [journal EXCEPT ![s] = x]
      /\ UNCHANGED <<queue, polls, handed, spoiled>>
  BY DEF CompleteOffline, Journal
<1>2. /\ s \in Sessions /\ journal[s] \in Snapshots
      /\ Books(journal, queue, polls, Ends(a), handed, spoiled)
  BY <1>1, AtWork, SessionFacts
<1>3. /\ x \in Snapshots /\ x.phase = "completed" /\ x.pending = NoEvent
      /\ x.cancelReason = journal[s].cancelReason
  BY <1>2, Closed DEF Becomes, Phases, FencedPhases
<1> HIDE DEF s, x
<1>4. x.phase # "absent" /\ x.phase \in CompletedPhases
  BY <1>3 DEF CompletedPhases
<1>5. Books([journal EXCEPT ![s] = x], queue, polls, Ends(a), handed, spoiled)
  BY <1>2, <1>3, <1>4, Journaled
<1> QED
  BY <1>1, <1>5 DEF NextBooks, LInv

LEMMA BouncedKeeps ==
  ASSUME LInv, NEW a \in Agents, ReplyBounced(a)
  PROVE  NextBooks
<1> DEFINE s == agent[a].s
           at == Answered(queue, s, SourceOf(queue, s, "done"))
           n == Earliest(at)
<1>1. /\ at # {} /\ queue' = RemoveAt(queue, n)
      /\ UNCHANGED <<journal, polls, agent, handed, spoiled>>
  BY DEF ReplyBounced
<1>2. /\ Books(journal, queue, polls, agent, handed, spoiled) /\ Asleep(queue, polls)
      /\ queue \in Seq(Entries)
  BY DEF LInv, Books, QueueBook
<1>3. n \in DOMAIN queue
  <2>1. at \subseteq DOMAIN queue
    BY DEF Answered, OfSession, Positions
  <2> QED
    BY <1>1, <1>2, <2>1, EarliestIn
<1> HIDE DEF n
<1>4. QueueBook(queue', journal, handed, spoiled) /\ Claimed(queue', agent)
  BY <1>1, <1>2, <1>3, QueueShrinks DEF Books
<1>5. Asleep(queue', polls)
  BY <1>1, <1>2, <1>3, SleepsOn
<1> QED
  BY <1>1, <1>2, <1>4, <1>5, Requeued DEF NextBooks

\* What is offered again is not what another agent waits to see scaffolded: the
\* one who asks was given a scaffold of the session, and there is only one.
LEMMA RetryKeeps ==
  ASSUME LInv, NEW a \in Agents, ReplyRetry(a)
  PROVE  NextBooks
<1> DEFINE s == agent[a].s
           n == Earliest(OfSession(queue, s))
           r == WithLease(queue, n, FALSE)
<1>1. /\ agent[a].at = "working" /\ agent[a].type \in EventTypes \ Decisions
      /\ OfSession(queue, s) # {} /\ Settle(r, polls, Ends(a))
      /\ journal' = journal /\ spoiled' = spoiled
  BY DEF ReplyRetry, On, WithLease
<1>2. /\ s \in Sessions /\ <<s, agent[a].type>> \in handed
      /\ agent[a].type = "steer" <=> s \in Steers
      /\ Books(journal, queue, polls, Ends(a), handed, spoiled)
  BY <1>1, AtWork
<1>3. /\ Books(journal, queue, polls, agent, handed, spoiled) /\ Asleep(queue, polls)
      /\ queue \in Seq(Entries) /\ agent \in [Agents -> AgentStates]
  BY DEF LInv, Books, QueueBook, JobBook
<1>4. n \in DOMAIN queue /\ queue[n].s = s
  <2>1. n \in OfSession(queue, s)
    BY <1>1, <1>3, EarliestIn DEF OfSession
  <2> QED
    BY <2>1 DEF OfSession
<1>5. s \notin Steers => <<s, "generate">> \in handed
  <2>1. Job(agent[a], journal, handed, spoiled)
    BY <1>1, <1>3 DEF Books, JobBook, Busy
  <2>2. s \notin Steers => agent[a].type \in {"generate", "variant_mount_failed"}
    BY <1>1, <1>2 DEF EventTypes, Decisions
  <2> QED
    BY <1>2, <2>1, <2>2 DEF Job, Sound
<1>6. ASSUME NEW b \in Agents, agent[b].at = "scaffolding"
      PROVE  agent[b].s # s
  <2>1. Job(agent[b], journal, handed, spoiled)
    BY <1>3, <1>6 DEF Books, JobBook, Busy
  <2>2. Sound(journal, handed, spoiled, agent[b].s, "generate", FALSE)
    BY <1>6, <2>1 DEF Job
  <2> QED
    BY <1>5, <2>2 DEF Sound
<1>7. \A b \in Agents : Ends(a)[b].at = "scaffolding" => Ends(a)[b].s # queue[n].s
  BY <1>3, <1>4, <1>6 DEF Ends, Idle
<1> HIDE DEF n, r
<1>8. Books(journal, r, polls, Ends(a), handed, spoiled) /\ Drowsy(r, polls, n)
  BY <1>2, <1>3, <1>4, <1>7, QueueOffers DEF r
<1> QED
  BY <1>1, <1>8, Served DEF NextBooks

-----------------------------------------------------------------------------
(* The faults.                                                              *)

LEMMA VanishKeeps ==
  ASSUME LInv, NEW a \in Agents, Vanish(a)
  PROVE  NextBooks
<1>1. agent[a].at \in {"working", "cleaning"} /\ agent' = Ends(a)
      /\ UNCHANGED <<journal, queue, polls, handed, spoiled>>
  BY DEF Vanish
<1> QED
  BY <1>1, AtWork DEF NextBooks, LInv

\* No queue is in order as well, and nobody waits for it.
LEMMA NoQueue ==
  ASSUME NEW j, NEW h, NEW sp, NEW ag
  PROVE  QueueBook(<<>>, j, h, sp) /\ Claimed(<<>>, ag) /\ \A p : Asleep(<<>>, p)
<1>1. <<>> \in Seq(Entries) /\ DOMAIN <<>> = {}
  BY EmptySeq
<1> QED
  BY <1>1 DEF QueueBook, Once, QueueSound, LeasedHanded, Recorded, Claimed, Asleep, Available

LEMMA CrashKeeps ==
  ASSUME LInv, Crash
  PROVE  NextBooks
<1>1. /\ queue' = <<>> /\ polls' = <<>>
      /\ agent' = [a \in Agents |-> IF agent[a].at \in {"parked", "scaffolding"}
                                     THEN Idle ELSE agent[a]]
      /\ UNCHANGED <<journal, handed, spoiled>>
  BY DEF Crash
<1>2. /\ JournalBook(journal, handed, spoiled) /\ agent \in [Agents -> AgentStates]
      /\ \A a \in Agents : agent[a].at \in Busy => Job(agent[a], journal, handed, spoiled)
  BY DEF LInv, Books, JobBook
<1>3. Idle \in AgentStates /\ Idle.at = "idle"
  BY DEF Idle, AgentStates
<1>4. agent' \in [Agents -> AgentStates]
      /\ \A a \in Agents : /\ agent'[a].at \notin {"parked", "scaffolding"}
                           /\ agent'[a].at = "idle" \/ agent'[a] = agent[a]
  BY <1>1, <1>2, <1>3
<1>5. JobBook(<<>>, agent', journal, handed, spoiled)
  <2>1. <<>> \in Seq(Agents)
    BY EmptySeq
  <2>2. \A a \in Agents : agent'[a].at \in Busy => Job(agent'[a], journal, handed, spoiled)
    BY <1>2, <1>4 DEF Busy
  <2> QED
    BY <1>4, <2>1, <2>2 DEF JobBook, Alone
<1> QED
  BY <1>1, <1>2, <1>5, NoQueue DEF NextBooks, Books

\* The queue a restart builds: the pending event of each open session, once.
LEMMA RestartKeeps ==
  ASSUME LInv, Restart
  PROVE  NextBooks
<1> DEFINE T == {s \in Sessions : Restored(s)}
<1>1. /\ ~up /\ polls = <<>>
      /\ \A a \in Agents : agent[a].at \notin {"parked", "scaffolding"}
      /\ UNCHANGED <<journal, polls, agent, handed, spoiled>>
  BY DEF Restart, LInv, Down
<1>2. PICK order \in SetToSeqs(T) :
         queue' = [i \in DOMAIN order |-> Entry(order[i], journal[order[i]].pending)]
  BY DEF Restart
<1>3. Cardinality(T) \in Nat
  <2>1. IsFiniteSet(T)
    BY SessionsAssumption, FS_Subset
  <2> QED
    BY <2>1, FS_CardinalityType
<1>4. /\ DOMAIN order = 1 .. Cardinality(T)
      /\ \A i \in DOMAIN order : order[i] \in T
      /\ \A i, k \in DOMAIN order : order[i] = order[k] => i = k
  <2>1. order \in [1 .. Cardinality(T) -> T]
        /\ \A i, k \in 1 .. Cardinality(T) : order[i] = order[k] => i = k
    BY <1>2 DEF SetToSeqs, IsInjective
  <2> QED
    BY <2>1
<1> HIDE DEF T
<1>5. ASSUME NEW i \in DOMAIN order
      PROVE  LET s == order[i] IN
             /\ queue'[i] \in Entries
             /\ queue'[i].s = s /\ queue'[i].type = journal[s].pending.type
             /\ queue'[i].prepared = journal[s].pending.prepared
             /\ queue'[i].leased = FALSE
             /\ Sound(journal, handed, spoiled, s, queue'[i].type, queue'[i].prepared)
  <2> DEFINE s == order[i]
             e == journal[s].pending
  <2>1. s \in Sessions /\ e # NoEvent
    BY <1>4 DEF T, Restored
  <2>2. journal[s] \in Snapshots
    BY <2>1, SessionFacts
  <2>3. e \in [type : EventTypes, prepared : BOOLEAN]
    BY <2>1, <2>2, SnapshotFields DEF PendingEvents
  <2>4. Sound(journal, handed, spoiled, s, e.type, e.prepared)
    BY <2>1, SessionFacts
  <2>5. queue'[i] = Entry(s, e)
    BY <1>2
  <2> HIDE DEF s, e
  <2>6. e.type \in EventTypes /\ e.prepared \in BOOLEAN
    BY <2>3, Zenon
  <2>7. /\ Entry(s, e) \in Entries /\ Entry(s, e).s = s /\ Entry(s, e).type = e.type
        /\ Entry(s, e).prepared = e.prepared /\ Entry(s, e).leased = FALSE
    BY <2>1, <2>6, Zenon DEF Entry, Entries
  <2> QED
    BY <2>4, <2>5, <2>7 DEF s, e
<1>6. queue' \in Seq(Entries) /\ DOMAIN queue' = DOMAIN order
  <2>1. DOMAIN queue' = 1 .. Cardinality(T) /\ queue' = [i \in 1 .. Cardinality(T) |-> queue'[i]]
    BY <1>2, <1>4
  <2>2. queue' \in [1 .. Cardinality(T) -> Entries]
    BY <1>4, <1>5, <2>1
  <2> QED
    BY <1>3, <1>4, <2>1, <2>2, SeqDef
<1>7. QueueBook(queue', journal, handed, spoiled)
  <2>1. Once(queue')
    <3>1. \A i \in DOMAIN order : queue'[i].s = order[i]
      BY <1>5
    <3> QED
      BY <1>4, <1>6, <3>1 DEF Once
  <2>2. QueueSound(queue', journal, handed, spoiled)
    BY <1>5, <1>6 DEF QueueSound
  <2>3. LeasedHanded(queue', handed)
    BY <1>5, <1>6 DEF LeasedHanded
  <2>4. Recorded(queue', journal, spoiled)
    BY <1>5, <1>6 DEF Recorded
  <2> QED
    BY <1>6, <2>1, <2>2, <2>3, <2>4 DEF QueueBook
<1>8. Claimed(queue', agent)
  BY <1>1 DEF Claimed
<1>9. Books(journal, queue', polls, agent, handed, spoiled)
  BY <1>7, <1>8, Requeued DEF LInv
<1>10. Asleep(queue', polls)
  BY <1>1, EmptySeq DEF Asleep
<1> QED
  BY <1>1, <1>9, <1>10 DEF NextBooks

-----------------------------------------------------------------------------
(* The invariant.                                                           *)

LEMMA LiveInit ==
  ASSUME Init
  PROVE  LInv
<1> USE DEF Init
<1>1. EmptySnapshot \in Snapshots /\ EmptySnapshot.pending = NoEvent
  <2>1. /\ "absent" \in Phases /\ "none" \in Decisions \cup {"none"} /\ FALSE \in BOOLEAN
        /\ NoEvent \in PendingEvents
    BY Pendings DEF Phases
  <2> QED
    BY <2>1, Zenon DEF EmptySnapshot, Snapshots
<1>2. JournalBook(journal, handed, spoiled)
  BY <1>1 DEF JournalBook, PendingSound
<1>3. QueueBook(queue, journal, handed, spoiled) /\ Claimed(queue, agent) /\ Asleep(queue, polls)
  BY NoQueue
<1>4. JobBook(polls, agent, journal, handed, spoiled)
  <2>1. Idle \in AgentStates /\ Idle.at = "idle" /\ polls \in Seq(Agents)
    BY EmptySeq DEF Idle, AgentStates
  <2> QED
    BY <2>1 DEF JobBook, Busy, Alone
<1>5. up \in BOOLEAN /\ posts \in 0 .. MaxPosts /\ faults \in 0 .. MaxFaults /\ Down
  BY BoundsAssumption DEF Down
<1> QED
  BY <1>2, <1>3, <1>4, <1>5 DEF LInv, Books

\* A browser's post, one of each kind.
LEMMA BrowserKeeps ==
  ASSUME LInv, NEW s \in Sessions, Browser(s)
  PROVE  NextBooks
<1>1. CASE PostOpening(s)
  BY <1>1, OpeningKeeps
<1>2. CASE \E ph \in (IF s \in Steers THEN {"steer"} ELSE {"generating", "cycling"}) :
             PostCheckpoint(s, ph)
  BY <1>2, CheckpointKeeps
<1>3. CASE s \notin Steers /\ \E d \in Decisions : PostDecision(s, d)
  BY <1>3, DecisionKeeps
<1>4. CASE PostOrphanedDiscard(s)
  BY <1>4, OrphanedDiscardKeeps
<1>5. CASE s \notin Steers /\ PostMountFailed(s)
  BY <1>5, MountFailedKeeps
<1> QED
  BY <1>1, <1>2, <1>3, <1>4, <1>5 DEF Browser

\* An agent's step, one of each kind.
LEMMA AgentKeeps ==
  ASSUME LInv, NEW a \in Agents, AgentStep(a)
  PROVE  NextBooks
<1>1. CASE Poll(a)
  BY <1>1, PollKeeps
<1>2. CASE ScaffoldDone(a)
  BY <1>2, ScaffoldDoneKeeps
<1>3. CASE ReplyDone(a)
  BY <1>3, DoneKeeps
<1>4. CASE ReplyError(a)
  BY <1>4, ErrorKeeps
<1>5. CASE \E r \in AcceptReplies : ReplyAccept(a, r[1], r[2])
  BY <1>5, AcceptKeeps
<1>6. CASE \E kind \in DiscardReplies : ReplyDiscard(a, kind)
  BY <1>6, DiscardKeeps
<1>7. CASE Complete(a)
  BY <1>7, CompleteKeeps
<1>8. CASE CompleteOffline(a)
  BY <1>8, CompleteOfflineKeeps
<1>9. CASE Leave(a)
  BY <1>9, LeaveKeeps
<1>10. CASE ReplyBounced(a)
  BY <1>10, BouncedKeeps
<1>11. CASE ReplyRetry(a)
  BY <1>11, RetryKeeps
<1>12. CASE Vanish(a)
  BY <1>12, VanishKeeps
<1> QED
  BY <1>1, <1>2, <1>3, <1>4, <1>5, <1>6, <1>7, <1>8, <1>9, <1>10, <1>11, <1>12
     DEF AgentStep, Works, Answer

\* What a step does to the rest: only the browser posts, the server only goes
\* down with its queue, and while it is down nothing is queued or parked.
LEMMA RestKept ==
  ASSUME LInv, [Next]_vars
  PROVE  /\ up' \in BOOLEAN /\ posts' \in 0 .. MaxPosts /\ faults' \in 0 .. MaxFaults
         /\ Down'
<1> USE DEF LInv
<1>1. CASE UNCHANGED vars
  BY <1>1 DEF vars, Down
<1>2. ASSUME NEW s \in Sessions, Browser(s)
      PROVE  up /\ up' = up /\ faults' = faults /\ posts' = posts + 1 /\ posts < MaxPosts
  BY <1>2 DEF Browser, PostOpening, PostCheckpoint, PostDecision, PostOrphanedDiscard,
              PostMountFailed, Posted
<1>3. ASSUME up, UNCHANGED <<up, posts, faults>>
      PROVE  /\ up' \in BOOLEAN /\ posts' \in 0 .. MaxPosts /\ faults' \in 0 .. MaxFaults
             /\ Down'
  BY <1>3 DEF Down
<1>4. ASSUME NEW a \in Agents, AgentStep(a)
      PROVE  /\ up' = up /\ posts' = posts /\ faults' \in 0 .. MaxFaults
             /\ \/ up
                \/ /\ queue' = queue /\ polls' = polls
                   /\ agent' = Ends(a) \/ agent' = [agent EXCEPT ![a] = Idle]
  <2>1. CASE Vanish(a)
    BY <2>1, BoundsAssumption DEF Vanish, CountFault
  <2>2. CASE CompleteOffline(a)
    BY <2>2 DEF CompleteOffline, Still
  <2>3. CASE Leave(a) \/ ScaffoldDone(a)
    <3>1. up
      BY <2>3 DEF Leave, ScaffoldDone, Down
    <3> QED
      BY <2>3, <3>1 DEF Leave, ScaffoldDone, Still
  <2>4. CASE Poll(a) \/ ReplyBounced(a) \/ ReplyRetry(a)
    BY <2>4 DEF Poll, ReplyBounced, ReplyRetry, Still
  <2>5. CASE \/ ReplyDone(a) \/ ReplyError(a) \/ Complete(a)
             \/ \E r \in AcceptReplies : ReplyAccept(a, r[1], r[2])
             \/ \E kind \in DiscardReplies : ReplyDiscard(a, kind)
    BY <2>5 DEF ReplyDone, ReplyError, Complete, ReplyAccept, ReplyDiscard, Receive, Still
  <2> QED
    BY <1>4, <2>1, <2>2, <2>3, <2>4, <2>5 DEF AgentStep, Works, Answer
<1>5. agent \in [Agents -> AgentStates]
  BY DEF Books, JobBook
<1>6. ASSUME NEW s \in Sessions, Browser(s)
      PROVE  /\ up' \in BOOLEAN /\ posts' \in 0 .. MaxPosts /\ faults' \in 0 .. MaxFaults
             /\ Down'
  <2>1. up /\ up' = up /\ faults' = faults /\ posts' = posts + 1 /\ posts < MaxPosts
    BY <1>2, <1>6
  <2> QED
    BY <2>1, BoundsAssumption DEF Down
<1>7. ASSUME NEW a \in Agents, AgentStep(a)
      PROVE  /\ up' \in BOOLEAN /\ posts' \in 0 .. MaxPosts /\ faults' \in 0 .. MaxFaults
             /\ Down'
  <2>1. /\ up' = up /\ posts' = posts /\ faults' \in 0 .. MaxFaults
        /\ \/ up
           \/ /\ queue' = queue /\ polls' = polls
              /\ agent' = Ends(a) \/ agent' = [agent EXCEPT ![a] = Idle]
    BY <1>4, <1>7
  <2>2. CASE up
    BY <2>1, <2>2 DEF Down
  <2>3. CASE ~up
    <3>1. agent' = [agent EXCEPT ![a] = Idle]
      BY <2>1, <2>3 DEF Ends
    <3>2. \A b \in Agents : agent'[b].at \notin {"parked", "scaffolding"}
      BY <1>5, <2>3, <3>1 DEF Idle, Down
    <3> QED
      BY <2>1, <2>3, <3>2 DEF Down
  <2> QED
    BY <2>2, <2>3
<1>8. ASSUME NEW s \in Sessions, NEW t \in EventTypes, LeaseExpires(s, t)
      PROVE  up /\ UNCHANGED <<up, posts, faults>>
  BY <1>8 DEF LeaseExpires, Still
<1>9. CASE Crash
  <2>1. \A a \in Agents : agent'[a].at \notin {"parked", "scaffolding"}
    BY <1>9 DEF Crash, Idle
  <2>2. queue' = <<>> /\ polls' = <<>> /\ up' = FALSE /\ posts' = posts
        /\ faults < MaxFaults /\ faults' = faults + 1
    BY <1>9 DEF Crash, CountFault
  <2>3. faults' \in 0 .. MaxFaults
    BY <2>2, BoundsAssumption
  <2> QED
    BY <2>1, <2>2, <2>3 DEF Down
<1>10. CASE Restart
  BY <1>10 DEF Restart, Down
<1> QED
  BY <1>1, <1>3, <1>6, <1>7, <1>8, <1>9, <1>10 DEF Next

LEMMA LiveStep ==
  ASSUME LInv, [Next]_vars
  PROVE  LInv'
<1>1. NextBooks
  <2>1. CASE UNCHANGED vars
    BY <2>1 DEF vars, NextBooks, LInv
  <2>2. CASE \E s \in Sessions : Browser(s)
    BY <2>2, BrowserKeeps
  <2>3. CASE \E a \in Agents : AgentStep(a)
    BY <2>3, AgentKeeps
  <2>4. CASE \E s \in Sessions, t \in EventTypes : LeaseExpires(s, t)
    BY <2>4, LeaseExpiresKeeps
  <2>5. CASE Crash
    BY <2>5, CrashKeeps
  <2>6. CASE Restart
    BY <2>6, RestartKeeps
  <2> QED
    BY <2>1, <2>2, <2>3, <2>4, <2>5, <2>6 DEF Next
<1>2. Books(journal, queue, polls, agent, handed, spoiled)' /\ Asleep(queue, polls)'
  BY <1>1 DEF NextBooks, Books, JournalBook, PendingSound, QueueBook, Once, QueueSound,
              LeasedHanded, Recorded, JobBook, Job, Alone, Claimed, Sound, Asleep
<1> QED
  BY <1>2, RestKept DEF LInv

\* The invariant holds of every state of every run.
LEMMA LiveInvariant == Safe => []LInv
<1>1. Init => LInv
  BY LiveInit
<1>2. LInv /\ [Next]_vars => LInv'
  BY LiveStep
<1> QED
  BY <1>1, <1>2, PTL DEF Safe

-----------------------------------------------------------------------------
(* The properties of every state.                                           *)

LEMMA TypesHold == LInv => TypeOK
BY DEF LInv, Books, JournalBook, QueueBook, JobBook, TypeOK

LEMMA WakeupsHold == LInv => NoMissedWakeup
BY DEF LInv, Asleep, NoMissedWakeup

LEMMA ScaffoldsHold == LInv => OneScaffold
BY DEF LInv, Books, JobBook, Alone, OneScaffold

LEMMA RecoveryHolds == LInv => DecisionRecoverable
<1>1. ASSUME LInv, NEW s \in Sessions \ spoiled, NEW d \in Decisions, Queued(s, d),
             journal[s].phase \notin CompletedPhases
      PROVE  journal[s].pending.type = d
  <2>1. PICK i \in DOMAIN queue : queue[i].s = s /\ queue[i].type = d
    BY <1>1 DEF Queued, Positions
  <2> QED
    BY <1>1, <2>1 DEF LInv, Books, QueueBook, Recorded
<1> QED
  BY <1>1 DEF DecisionRecoverable, Recoverable

\* The variables have their types.
THEOREM LiveTypeCorrect == Safe => []TypeOK
BY TypesHold, LiveInvariant, PTL

\* An agent is never kept waiting while the queue holds an event it could have:
\* whatever the server does while polls are parked, an event posted, a lease that
\* ends, a reply that puts an entry back, serves them in the same turn.
THEOREM WakeupsServed == Spec => []NoMissedWakeup
BY WakeupsHold, LiveInvariant, PTL DEF Spec

\* No generate event is scaffolded for two agents at once, though the server goes
\* on serving polls while prepareGenerateEventForLease is awaited: the entry is
\* claimed before the await, and no retry frees it meanwhile.
THEOREM ScaffoldedOnce == Spec => []OneScaffold
BY ScaffoldsHold, LiveInvariant, PTL DEF Spec

\* The pending slot of the journal holds what is queued of an open session's
\* decision, so that a restart puts the decision back, unless a late write of the
\* canceled generation or the opposite decision has taken the slot.
THEOREM DecisionsComeBack == Spec => []DecisionRecoverable
BY RecoveryHolds, LiveInvariant, PTL DEF Spec

-----------------------------------------------------------------------------
(* After the user's decision.                                               *)

\* A request of a browser, whatever it counts.
Requests(s) ==
  \/ PostOpening(s)
  \/ \E ph \in {"steer", "generating", "cycling"} : PostCheckpoint(s, ph)
  \/ \E d \in Decisions : PostDecision(s, d)
  \/ PostOrphanedDiscard(s) \/ PostMountFailed(s)

\* What the server, its browsers and its agents may do to its own variables.
Moves ==
  \/ UNCHANGED <<journal, queue>>
  \/ \E s \in Sessions : Requests(s)
  \/ \E a \in Agents : AgentStep(a)
  \/ \E s \in Sessions, t \in EventTypes : LeaseExpires(s, t)
  \/ Crash \/ Restart

LEMMA NextMoves == [Next]_vars => Moves
BY DEF Next, Moves, Browser, Requests, vars

Late == {"variants_ready", "generating", "cycling"}
Ignored(x, y) == Canceled(x) /\ y.phase # x.phase => y.phase \notin Late

\* What is journaled of a canceled session does not bring its variants back.
LEMMA WritesIgnored ==
  ASSUME NEW x \in Snapshots
  PROVE  /\ Ignored(x, x) /\ Ignored(x, OnSteer(x)) /\ Ignored(x, OnMountFailed(x))
         /\ \A b \in BOOLEAN : Ignored(x, OnGenerate(x, b))
         /\ \A d \in Decisions : Ignored(x, OnDecision(x, d))
         /\ Ignored(x, OnClosed(OnDecision(x, "discard"), "discarded"))
         /\ \A ph \in {"completed", "discarded", "steer_done", "agent_error"} :
               Ignored(x, OnClosed(x, ph))
         /\ \A ph \in {"steer", "generating", "cycling"} : Ignored(x, OnCheckpoint(x, ph))
<1>1. Ignored(x, x) /\ Ignored(x, OnSteer(x)) /\ Ignored(x, OnMountFailed(x))
      /\ \A b \in BOOLEAN : Ignored(x, OnGenerate(x, b))
  BY Opened, MountFailed DEF Ignored, Late, Becomes
<1>2. \A d \in Decisions : Ignored(x, OnDecision(x, d))
  BY DecidedOn DEF Ignored, Late, Becomes, Asked
<1>3. Ignored(x, OnClosed(OnDecision(x, "discard"), "discarded"))
  <2>1. OnDecision(x, "discard") \in Snapshots /\ "discarded" \in Phases
    BY DecidedOn DEF Becomes, Decisions, Phases, FencedPhases
  <2> QED
    BY <2>1, Closed DEF Ignored, Late, Becomes
<1>4. \A ph \in {"completed", "discarded", "steer_done", "agent_error"} :
         Ignored(x, OnClosed(x, ph))
  <2>1. {"completed", "discarded", "steer_done", "agent_error"} \subseteq Phases
    BY DEF Phases, FencedPhases
  <2> QED
    BY <2>1, Closed DEF Ignored, Late, Becomes
<1>5. \A ph \in {"steer", "generating", "cycling"} : Ignored(x, OnCheckpoint(x, ph))
  BY DEF Ignored, OnCheckpoint, Fenced
<1> QED
  BY <1>1, <1>2, <1>3, <1>4, <1>5

LEMMA RepliesIgnored ==
  ASSUME NEW x \in Snapshots, NEW kind, NEW by, NEW c \in BOOLEAN
  PROVE  Ignored(x, OnReply(x, kind, by, c))
<1>1. CASE kind \in {"steer_done", "discarded", "complete"}
  BY <1>1, WritesIgnored DEF OnReply
<1>2. CASE kind = "error"
  BY <1>2, WritesIgnored DEF OnReply, OnAgentError
<1>3. CASE kind \notin {"steer_done", "discarded", "complete", "error"}
  <2>1. OnReply(x, kind, by, c) = OnAgentDone(x, c)
    BY <1>3 DEF OnReply
  <2> QED
    BY <2>1, DoneByAgent, WritesIgnored DEF Becomes, Ignored, Fenced, Late
<1> QED
  BY <1>1, <1>2, <1>3

\* One journal at most changes in a step, to something it may become.
Wrote(s, x) == journal' = [journal EXCEPT ![s] = x] /\ Ignored(journal[s], x)

LEMMA ReceiveWrites ==
  ASSUME LInv, NEW s \in Sessions, NEW kind, NEW source, NEW c \in BOOLEAN, NEW ag,
         Receive(s, kind, source, c, ag)
  PROVE  \E x : Wrote(s, x)
<1> DEFINE at == Answered(queue, s, source)
           by == IF at = {} THEN "none" ELSE queue[Earliest(at)].type
           over == at = {} /\ journal[s].phase \in CompletedPhases
           x == IF over THEN journal[s] ELSE OnReply(journal[s], kind, by, c)
<1>1. journal' = [journal EXCEPT ![s] = x]
  BY Zenon DEF Receive, Journal
<1>2. journal[s] \in Snapshots
  BY SessionFacts
<1>3. Ignored(journal[s], x)
  BY <1>2, RepliesIgnored, WritesIgnored
<1> HIDE DEF x
<1> QED
  BY <1>1, <1>3 DEF Wrote

LEMMA RequestsWrite ==
  ASSUME LInv, NEW s \in Sessions, Requests(s)
  PROVE  \E x : Wrote(s, x)
<1>1. journal[s] \in Snapshots
  BY SessionFacts
<1>2. CASE PostOpening(s)
  BY <1>1, <1>2, WritesIgnored DEF PostOpening, Journal, Wrote
<1>3. CASE \E ph \in {"steer", "generating", "cycling"} : PostCheckpoint(s, ph)
  BY <1>1, <1>3, WritesIgnored DEF PostCheckpoint, Journal, Wrote
<1>4. CASE \E d \in Decisions : PostDecision(s, d)
  BY <1>1, <1>4, WritesIgnored DEF PostDecision, Journal, Wrote
<1>5. CASE PostOrphanedDiscard(s) \/ PostMountFailed(s)
  BY <1>1, <1>5, WritesIgnored DEF PostOrphanedDiscard, PostMountFailed, Journal, Wrote
<1> QED
  BY <1>2, <1>3, <1>4, <1>5 DEF Requests

LEMMA AgentsWrite ==
  ASSUME LInv, NEW a \in Agents, AgentStep(a)
  PROVE  journal' = journal \/ \E s \in Sessions : \E x : Wrote(s, x)
<1>1. CASE Poll(a) \/ Leave(a) \/ ReplyBounced(a) \/ ReplyRetry(a) \/ Vanish(a)
  BY <1>1 DEF Poll, Leave, ReplyBounced, ReplyRetry, Vanish
<1>2. agent[a].at \in Busy => agent[a].s \in Sessions /\ journal[agent[a].s] \in Snapshots
  BY SessionFacts DEF LInv, Books, JobBook, Job
<1> DEFINE s == agent[a].s
<1>3. CASE ScaffoldDone(a)
  <2>1. agent[a].at \in Busy /\ journal' = [journal EXCEPT ![s] = OnGenerate(journal[s], TRUE)]
    BY <1>3 DEF ScaffoldDone, Journal, Busy
  <2>2. Ignored(journal[s], OnGenerate(journal[s], TRUE))
    BY <1>2, <2>1, WritesIgnored
  <2> QED
    BY <1>2, <2>1, <2>2 DEF Wrote
<1>7. CASE CompleteOffline(a)
  <2>1. agent[a].at \in Busy /\ journal' = [journal EXCEPT ![s] = OnClosed(journal[s], "completed")]
    BY <1>7 DEF CompleteOffline, Journal, Busy
  <2>2. Ignored(journal[s], OnClosed(journal[s], "completed"))
    BY <1>2, <2>1, WritesIgnored
  <2> QED
    BY <1>2, <2>1, <2>2 DEF Wrote
<1> HIDE DEF s
<1>4. CASE ReplyDone(a) \/ ReplyError(a) \/ Complete(a)
  BY <1>2, <1>4, ReceiveWrites DEF ReplyDone, ReplyError, Complete, On, Busy
<1>5. CASE \E r \in AcceptReplies : ReplyAccept(a, r[1], r[2])
  <2>1. PICK r \in AcceptReplies : ReplyAccept(a, r[1], r[2])
    BY <1>5
  <2>2. r[2] \in BOOLEAN
    BY AcceptReplyFlag
  <2> QED
    BY <1>2, <2>1, <2>2, ReceiveWrites DEF ReplyAccept, On, Busy
<1>6. CASE \E kind \in DiscardReplies : ReplyDiscard(a, kind)
  BY <1>2, <1>6, ReceiveWrites DEF ReplyDiscard, On, Busy
<1> QED
  BY <1>1, <1>3, <1>4, <1>5, <1>6, <1>7 DEF AgentStep, Works, Answer

NothingLate ==
  \A s \in Sessions : Canceled(journal[s]) /\ journal'[s].phase # journal[s].phase
                     => journal'[s].phase \notin {"variants_ready", "generating", "cycling"}

LEMMA NothingComesLate == LInv /\ Moves => NothingLate
<1>1. ASSUME NEW s \in Sessions, NEW x, Wrote(s, x), LInv
      PROVE  NothingLate
  <2>1. journal \in [Sessions -> Snapshots]
    BY <1>1, SessionFacts
  <2> QED
    BY <1>1, <2>1 DEF Wrote, Ignored, Late, NothingLate
<1> SUFFICES ASSUME LInv, Moves  PROVE NothingLate
  OBVIOUS
<1>2. CASE journal' = journal
  BY <1>2 DEF NothingLate
<1>3. CASE \E s \in Sessions : Requests(s)
  BY <1>1, <1>3, RequestsWrite
<1>4. CASE \E a \in Agents : AgentStep(a)
  BY <1>1, <1>2, <1>4, AgentsWrite
<1>5. CASE \/ UNCHANGED <<journal, queue>> \/ Crash \/ Restart
           \/ \E s \in Sessions, t \in EventTypes : LeaseExpires(s, t)
  BY <1>2, <1>5 DEF Crash, Restart, LeaseExpires
<1> QED
  BY <1>3, <1>4, <1>5 DEF Moves

\* Once the user has accepted or discarded, whatever arrives late, a checkpoint of
\* the page, the reply or the scaffold of the canceled generation, does not show
\* the session as generating or as ready to compare again.
THEOREM DecidedForGood == Spec => NoVariantsAfterDecision
<1>1. LInv /\ LInv' /\ [Next]_vars => [NothingLate]_vars
  BY NothingComesLate, NextMoves
<1> QED
  BY <1>1, LiveInvariant, PTL DEF Spec, Safe, NoVariantsAfterDecision, NothingLate

-----------------------------------------------------------------------------
(* Decisions are answered.                                                  *)

\* What r holds of the decisions of q: all that q does.
Holds(q, r) ==
  \A s \in Sessions, d \in Decisions : Positions(q, s, d) # {} => Positions(r, s, d) # {}

\* What is missing was handed to an agent, or its session is completed.
Excused(s, d) == <<s, d>> \in handed \/ journal'[s].phase = "completed"
Responds(q, r) ==
  \A s \in Sessions, d \in Decisions :
     Positions(q, s, d) # {} /\ Positions(r, s, d) = {} => Excused(s, d)

\* A queue with the same events.
LEMMA SameEvents ==
  ASSUME NEW q, NEW r, DOMAIN r = DOMAIN q,
         \A i \in DOMAIN q : r[i].s = q[i].s /\ r[i].type = q[i].type
  PROVE  \A s, t : Positions(r, s, t) = Positions(q, s, t)
BY DEF Positions

LEMMA LeasesHold ==
  ASSUME NEW q \in Seq(Entries), NEW n \in DOMAIN q, NEW b \in BOOLEAN
  PROVE  Holds(q, WithLease(q, n, b))
<1> DEFINE r == WithLease(q, n, b)
<1>1. DOMAIN r = DOMAIN q
  BY Leasing
<1>2. \A i \in DOMAIN q : i # n => r[i] = q[i]
  BY Leasing
<1>3. r[n].s = q[n].s /\ r[n].type = q[n].type
  BY Leasing
<1> HIDE DEF r
<1>4. \A s, t : Positions(r, s, t) = Positions(q, s, t)
  BY <1>1, <1>2, <1>3, SameEvents
<1> QED
  BY <1>4 DEF Holds, r

LEMMA SettleHolds ==
  ASSUME NEW q \in Seq(Entries), NEW p \in Seq(Agents), NEW ag, Settle(q, p, ag)
  PROVE  Holds(q, queue')
<1>1. CASE queue' = q
  BY <1>1 DEF Holds
<1>2. ASSUME NEW n \in DOMAIN q, queue' = Claim(q, n)
      PROVE  Holds(q, queue')
  BY <1>2, LeasesHold DEF Claim, WithLease
<1> QED
  BY <1>1, <1>2, SettleCases DEF Hands, Available

LEMMA PushHolds ==
  ASSUME NEW q \in Seq(Entries), NEW s \in Sessions, NEW t \in EventTypes
  PROVE  LET r == Push(q, s, Pending(t, FALSE))
         IN  Holds(q, r) /\ r \in Seq(Entries)
<1> DEFINE e == Entry(s, Pending(t, FALSE))
           r == Push(q, s, Pending(t, FALSE))
<1>1. e \in Entries
  BY Zenon DEF Entry, Pending, Entries
<1>2. r = q \/ r = Append(q, e)
  BY DEF Push
<1> HIDE DEF e, r
<1>3. ASSUME r = q
      PROVE  Holds(q, r) /\ r \in Seq(Entries)
  BY <1>3 DEF Holds
<1>4. ASSUME r = Append(q, e)
      PROVE  Holds(q, r) /\ r \in Seq(Entries)
  <2>1. /\ r \in Seq(Entries) /\ Len(r) = Len(q) + 1 /\ Len(q) \in Nat
        /\ \A i \in 1 .. Len(q) : r[i] = q[i]
    BY <1>1, <1>4, AppendProperties, LenProperties
  <2>2. DOMAIN q \subseteq DOMAIN r /\ \A i \in DOMAIN q : r[i] = q[i]
    BY <2>1, LenProperties
  <2> QED
    BY <2>1, <2>2 DEF Holds, Positions
<1> QED
  BY <1>2, <1>3, <1>4 DEF r

\* Of what is removed, only the entry itself may be missing.
LEMMA RemovedHolds ==
  ASSUME NEW q \in Seq(Entries), NEW n \in DOMAIN q, NEW s, NEW t,
         Positions(q, s, t) # {}, Positions(RemoveAt(q, n), s, t) = {}
  PROVE  q[n].s = s /\ q[n].type = t
<1>1. PICK i \in DOMAIN q : q[i].s = s /\ q[i].type = t
  BY DEF Positions
<1>2. /\ Len(q) \in Nat /\ DOMAIN q = 1 .. Len(q)
      /\ DOMAIN RemoveAt(q, n) = 1 .. Len(q) - 1
      /\ \A k \in 1 .. Len(q) - 1 : RemoveAt(q, n)[k] = IF k < n THEN q[k] ELSE q[k + 1]
  BY Removed, LenProperties
<1>3. CASE i < n
  <2>1. i \in DOMAIN RemoveAt(q, n) /\ RemoveAt(q, n)[i] = q[i]
    BY <1>2, <1>3
  <2> QED
    BY <1>1, <2>1 DEF Positions
<1>4. CASE i > n
  <2>1. i - 1 \in 1 .. Len(q) - 1 /\ ~(i - 1 < n) /\ (i - 1) + 1 = i
    BY <1>2, <1>4
  <2>2. i - 1 \in DOMAIN RemoveAt(q, n) /\ RemoveAt(q, n)[i - 1] = q[i]
    BY <1>2, <2>1
  <2> QED
    BY <1>1, <2>2 DEF Positions
<1> QED
  BY <1>1, <1>2, <1>3, <1>4

\* A post takes no decision out of the queue: what it removes is a generation.
LEMMA RequestsAnswer ==
  ASSUME LInv, NEW s \in Sessions, Requests(s)
  PROVE  Responds(queue, queue')
<1>1. queue \in Seq(Entries) /\ polls \in Seq(Agents)
  BY DEF LInv, Books, QueueBook, JobBook
<1>2. ASSUME NEW q \in Seq(Entries), NEW t \in EventTypes,
             Settle(Push(q, s, Pending(t, FALSE)), polls, agent)
      PROVE  Holds(q, queue')
  <2> DEFINE r == Push(q, s, Pending(t, FALSE))
  <2>1. Holds(q, r) /\ r \in Seq(Entries)
    BY PushHolds
  <2>2. Holds(r, queue')
    BY <1>1, <1>2, <2>1, SettleHolds
  <2> HIDE DEF r
  <2> QED
    BY <2>1, <2>2 DEF Holds
<1>3. Decided(queue, s) \in Seq(Entries) /\ Holds(queue, Decided(queue, s))
  <2>1. ASSUME NEW n \in Positions(queue, s, "generate")
        PROVE  RemoveAt(queue, n) \in Seq(Entries) /\ Holds(queue, RemoveAt(queue, n))
    <3>1. n \in DOMAIN queue /\ queue[n].type \notin Decisions
      BY DEF Positions, Decisions
    <3>2. RemoveAt(queue, n) \in Seq(Entries)
      BY <1>1, <3>1, Removed
    <3>3. Holds(queue, RemoveAt(queue, n))
      BY <1>1, <3>1, RemovedHolds DEF Holds
    <3> QED
      BY <3>2, <3>3
  <2> QED
    BY <1>1, <2>1, WithoutCases DEF Decided, Holds
<1>4. CASE PostOpening(s)
  <2>1. Opener(s) \in EventTypes
    BY DEF Opener, EventTypes
  <2> QED
    BY <1>1, <1>2, <1>4, <2>1 DEF PostOpening, Responds, Holds
<1>5. CASE \E d \in Decisions : PostDecision(s, d)
  <2>1. Decisions \subseteq EventTypes
    BY DEF Decisions, EventTypes
  <2>2. Holds(Decided(queue, s), queue')
    BY <1>2, <1>3, <1>5, <2>1 DEF PostDecision
  <2> QED
    BY <1>3, <2>2 DEF Responds, Holds
<1>6. CASE PostMountFailed(s)
  <2>1. "variant_mount_failed" \in EventTypes
    BY DEF EventTypes
  <2> QED
    BY <1>1, <1>2, <1>6, <2>1 DEF PostMountFailed, Responds, Holds
<1>7. CASE PostOrphanedDiscard(s)
  BY <1>3, <1>7 DEF PostOrphanedDiscard, Responds, Holds
<1>8. CASE \E ph \in {"steer", "generating", "cycling"} : PostCheckpoint(s, ph)
  BY <1>8 DEF PostCheckpoint, Responds
<1> QED
  BY <1>4, <1>5, <1>6, <1>7, <1>8 DEF Requests

\* A reply takes out the one entry it answers.
LEMMA ReceiveAnswers ==
  ASSUME LInv, NEW s \in Sessions, NEW kind, NEW source, NEW c \in BOOLEAN, NEW ag,
         Receive(s, kind, source, c, ag),
         \/ kind = "complete"
         \/ source \in EventTypes /\ (source \in Decisions => <<s, source>> \in handed)
  PROVE  Responds(queue, queue')
<1> DEFINE at == Answered(queue, s, source)
           n == Earliest(at)
           r == IF at = {} THEN queue ELSE RemoveAt(queue, n)
<1>1. /\ journal' = [journal EXCEPT ![s] =
             IF at = {} /\ journal[s].phase \in CompletedPhases THEN journal[s]
             ELSE OnReply(journal[s], kind,
                          IF at = {} THEN "none" ELSE queue[n].type, c)]
      /\ Settle(r, polls, ag)
  BY Zenon DEF Receive, Journal
<1>2. /\ queue \in Seq(Entries) /\ polls \in Seq(Agents) /\ journal[s] \in Snapshots
      /\ journal \in [Sessions -> Snapshots]
  BY SessionFacts
<1>3. at # {} => n \in DOMAIN queue /\ n \in at
  <2>1. at \subseteq DOMAIN queue
    BY DEF Answered, OfSession, Positions
  <2> QED
    BY <1>2, <2>1, EarliestIn
<1>4. r \in Seq(Entries)
  BY <1>2, <1>3, Removed
<1>5. Holds(r, queue')
  BY <1>1, <1>2, <1>4, SettleHolds
<1>6. CASE at = {}
  BY <1>5, <1>6 DEF Responds, Holds
<1>7. CASE at # {}
  <2> SUFFICES ASSUME NEW u \in Sessions, NEW d \in Decisions,
                      Positions(queue, u, d) # {}, Positions(queue', u, d) = {}
               PROVE  Excused(u, d)
    BY DEF Responds
  <2>1. Positions(RemoveAt(queue, n), u, d) = {}
    BY <1>5, <1>7 DEF Holds
  <2>2. queue[n].s = u /\ queue[n].type = d
    BY <1>2, <1>3, <1>7, <2>1, RemovedHolds
  <2>3. u = s
    BY <1>3, <1>7, <2>2 DEF Answered, OfSession, Positions
  <2>4. CASE kind = "complete"
    <3>1. journal'[s] = OnReply(journal[s], kind, queue[n].type, c)
      BY <1>1, <1>2, <1>7
    <3>2. OnReply(journal[s], kind, queue[n].type, c) = OnClosed(journal[s], "completed")
      BY <2>4 DEF OnReply
    <3>3. OnClosed(journal[s], "completed").phase = "completed"
      BY <1>2, Closed DEF Becomes, Phases, FencedPhases
    <3> QED
      BY <2>3, <3>1, <3>2, <3>3 DEF Excused
  <2>5. CASE source \in EventTypes /\ (source \in Decisions => <<s, source>> \in handed)
    <3>1. at = Positions(queue, s, source)
      BY <2>5 DEF Answered, EventTypes
    <3>2. queue[n].type = source
      BY <1>3, <1>7, <3>1 DEF Positions
    <3> QED
      BY <2>2, <2>3, <2>5, <3>2 DEF Excused
  <2> QED
    BY <2>4, <2>5
<1> QED
  BY <1>6, <1>7

LEMMA AgentsAnswer ==
  ASSUME LInv, NEW a \in Agents, AgentStep(a)
  PROVE  Responds(queue, queue')
<1> DEFINE s == agent[a].s
<1>1. /\ queue \in Seq(Entries) /\ polls \in Seq(Agents) /\ LeasedHanded(queue, handed)
      /\ QueueSound(queue, journal, handed, spoiled)
  BY DEF LInv, Books, QueueBook, JobBook
<1>2. agent[a].at \in {"working", "cleaning"}
        => s \in Sessions /\ <<s, agent[a].type>> \in handed
  BY AtWork
<1>3. CASE queue' = queue
  BY <1>3 DEF Responds
<1>4. CASE Poll(a)
  <2>1. CASE Available(queue, Lanes[a]) = {}
    BY <1>3, <1>4, <2>1 DEF Poll
  <2>2. CASE Available(queue, Lanes[a]) # {}
    <3> DEFINE n == Selected(queue, Lanes[a])
    <3>1. n \in DOMAIN queue
      BY <1>1, <2>2, Selects DEF Available
    <3>2. queue' = WithLease(queue, n, TRUE)
      BY <1>4, <2>2 DEF Poll, Claim, WithLease
    <3> HIDE DEF n
    <3> QED
      BY <1>1, <3>1, <3>2, LeasesHold DEF Holds, Responds
  <2> QED
    BY <2>1, <2>2
<1>5. CASE ScaffoldDone(a)
  <2>1. DOMAIN queue' = DOMAIN queue
    BY <1>5 DEF ScaffoldDone
  <2>2. ASSUME NEW i \in DOMAIN queue
        PROVE  queue'[i].s = queue[i].s /\ queue'[i].type = queue[i].type
    <3>1. queue[i] \in Entries
      BY <1>1, EntryType
    <3>2. \/ queue'[i] = queue[i]
          \/ queue'[i] = [queue[i] EXCEPT !.prepared = TRUE, !.leased = TRUE]
      BY <1>5 DEF ScaffoldDone
    <3> QED
      BY <3>1, <3>2 DEF Entries
  <2> QED
    BY <2>1, <2>2, SameEvents DEF Responds
<1>6. CASE ReplyDone(a)
  <2> DEFINE source == SourceOf(queue, s, DoneKind(a))
  <2>1. source \in EventTypes \ Decisions
    BY DEF SourceOf, DoneKind, EventTypes, Decisions
  <2>2. Receive(s, DoneKind(a), source, FALSE, Ends(a)) /\ agent[a].at = "working"
    BY <1>6 DEF ReplyDone, On
  <2> HIDE DEF s, source
  <2> QED
    BY <1>2, <2>1, <2>2, ReceiveAnswers
<1>7. CASE ReplyError(a)
  <2> DEFINE leased == {i \in OfSession(queue, s) : queue[i].leased}
             source == SourceOf(queue, s, "error")
  <2>1. Receive(s, "error", source, FALSE, Ends(a)) /\ agent[a].at = "working"
    BY <1>7 DEF ReplyError, On
  <2>2. source = IF leased # {} THEN queue[Earliest(leased)].type ELSE "generate"
    BY DEF SourceOf
  <2>3. leased \subseteq DOMAIN queue
    BY DEF OfSession
  <2>4. CASE leased = {}
    <3>1. source \in EventTypes \ Decisions
      BY <2>2, <2>4 DEF EventTypes, Decisions
    <3> HIDE DEF s, source
    <3> QED
      BY <1>2, <2>1, <3>1, ReceiveAnswers
  <2>5. CASE leased # {}
    <3> DEFINE n == Earliest(leased)
    <3>1. n \in leased
      BY <1>1, <2>3, <2>5, EarliestIn
    <3>2. n \in DOMAIN queue /\ queue[n].s = s /\ queue[n].leased
      BY <3>1 DEF OfSession
    <3>3. source = queue[n].type
      BY <2>2, <2>5
    <3> HIDE DEF s, source, n
    <3>4. source \in EventTypes /\ (source \in Decisions => <<s, source>> \in handed)
      BY <1>1, <3>2, <3>3, EntryType DEF LeasedHanded
    <3> QED
      BY <1>2, <2>1, <3>4, ReceiveAnswers
  <2> QED
    BY <2>4, <2>5
<1>8. CASE \E r \in AcceptReplies : ReplyAccept(a, r[1], r[2])
  <2>1. PICK r \in AcceptReplies : ReplyAccept(a, r[1], r[2])
    BY <1>8
  <2> DEFINE ag == IF r[1] = "agent_done" THEN CleansUp(a) ELSE Ends(a)
  <2>2. /\ Receive(s, r[1], "accept", r[2], ag)
        /\ agent[a].at = "working" /\ agent[a].type = "accept"
    BY <2>1 DEF ReplyAccept, On
  <2>3. r[2] \in BOOLEAN /\ "accept" \in EventTypes
    BY AcceptReplyFlag DEF EventTypes
  <2> HIDE DEF s, ag
  <2> QED
    BY <1>2, <2>2, <2>3, ReceiveAnswers
<1>9. CASE \E kind \in DiscardReplies : ReplyDiscard(a, kind)
  <2>1. PICK kind \in DiscardReplies : ReplyDiscard(a, kind)
    BY <1>9
  <2>2. /\ Receive(s, kind, "discard", FALSE, Ends(a))
        /\ agent[a].at = "working" /\ agent[a].type = "discard" /\ "discard" \in EventTypes
    BY <2>1 DEF ReplyDiscard, On, EventTypes
  <2> HIDE DEF s
  <2> QED
    BY <1>2, <2>2, ReceiveAnswers
<1>10. CASE Complete(a)
  <2> DEFINE source == SourceOf(queue, s, "complete")
  <2>1. Receive(s, "complete", source, FALSE, Ends(a)) /\ agent[a].at = "cleaning"
    BY <1>10 DEF Complete
  <2> HIDE DEF s, source
  <2> QED
    BY <1>2, <2>1, ReceiveAnswers
<1>11. CASE ReplyBounced(a)
  <2> DEFINE source == SourceOf(queue, s, "done")
             at == Answered(queue, s, source)
             n == Earliest(at)
  <2>1. source \in EventTypes \ Decisions
    BY DEF SourceOf, EventTypes, Decisions
  <2>2. at = Positions(queue, s, source)
    BY <2>1 DEF Answered, EventTypes
  <2>3. at # {} /\ queue' = RemoveAt(queue, n)
    BY <1>11 DEF ReplyBounced
  <2>4. n \in at
    BY <1>1, <2>2, <2>3, EarliestIn DEF Positions
  <2>5. n \in DOMAIN queue /\ queue[n].type \notin Decisions
    BY <2>1, <2>2, <2>4 DEF Positions
  <2> HIDE DEF n
  <2> QED
    BY <1>1, <2>3, <2>5, RemovedHolds DEF Responds
<1>12. CASE ReplyRetry(a)
  <2> DEFINE n == Earliest(OfSession(queue, s))
             r == WithLease(queue, n, FALSE)
  <2>1. OfSession(queue, s) # {} /\ Settle(r, polls, Ends(a))
    BY <1>12 DEF ReplyRetry, WithLease
  <2>2. n \in DOMAIN queue
    BY <1>1, <2>1, EarliestIn DEF OfSession
  <2>3. r \in Seq(Entries) /\ Holds(queue, r)
    BY <1>1, <2>2, Leasing, LeasesHold
  <2> HIDE DEF r
  <2>4. Holds(r, queue')
    BY <1>1, <2>1, <2>3, SettleHolds
  <2> QED
    BY <2>3, <2>4 DEF Holds, Responds
<1>13. CASE Leave(a) \/ Vanish(a) \/ CompleteOffline(a)
  BY <1>3, <1>13 DEF Leave, Vanish, CompleteOffline
<1> QED
  BY <1>4, <1>5, <1>6, <1>7, <1>8, <1>9, <1>10, <1>11, <1>12, <1>13
     DEF AgentStep, Works, Answer

AllAnswered ==
  \A s \in Sessions, d \in Decisions :
     Queued(s, d) /\ ~Queued(s, d)' /\ up'
     => <<s, d>> \in handed \/ journal'[s].phase = "completed"

LEMMA AllAreAnswered == LInv /\ Moves => AllAnswered
<1>1. ASSUME Responds(queue, queue')
      PROVE  AllAnswered
  BY <1>1 DEF Responds, Excused, Queued, Positions, AllAnswered
<1> SUFFICES ASSUME LInv, Moves  PROVE AllAnswered
  OBVIOUS
<1>2. CASE UNCHANGED <<journal, queue>>
  BY <1>1, <1>2 DEF Responds
<1>3. CASE \E s \in Sessions : Requests(s)
  BY <1>1, <1>3, RequestsAnswer
<1>4. CASE \E a \in Agents : AgentStep(a)
  BY <1>1, <1>4, AgentsAnswer
<1>5. CASE \E s \in Sessions, t \in EventTypes : LeaseExpires(s, t)
  <2>1. PICK s \in Sessions, t \in EventTypes : LeaseExpires(s, t)
    BY <1>5
  <2>2. PICK i \in Leased(s, t) : Settle([queue EXCEPT ![i].leased = FALSE], polls, agent)
    BY <2>1 DEF LeaseExpires
  <2> DEFINE r == WithLease(queue, i, FALSE)
  <2>3. queue \in Seq(Entries) /\ polls \in Seq(Agents) /\ i \in DOMAIN queue
    BY DEF LInv, Books, QueueBook, JobBook, Leased, Positions
  <2>4. r \in Seq(Entries) /\ Holds(queue, r)
    BY <2>3, Leasing, LeasesHold
  <2>5. Settle(r, polls, agent)
    BY <2>2 DEF WithLease
  <2> HIDE DEF r
  <2>6. Holds(r, queue')
    BY <2>3, <2>4, <2>5, SettleHolds
  <2>7. Responds(queue, queue')
    BY <2>4, <2>6 DEF Holds, Responds
  <2> QED
    BY <1>1, <2>7
<1>6. CASE Crash
  BY <1>6 DEF Crash, AllAnswered
<1>7. CASE Restart
  <2>1. queue = <<>>
    BY <1>7 DEF Restart, LInv, Down
  <2>2. Responds(queue, queue')
    BY <2>1, EmptySeq DEF Responds, Positions
  <2> QED
    BY <1>1, <2>2
<1> QED
  BY <1>2, <1>3, <1>4, <1>5, <1>6, <1>7 DEF Moves

\* A decision of the user leaves the queue only after an agent was handed it,
\* whichever reply of whichever agent takes it out, unless its session was
\* completed or the server died.
THEOREM DecisionsAnswered == Spec => DecisionAnswered
<1>1. LInv /\ LInv' /\ [Next]_vars => [AllAnswered]_vars
  BY AllAreAnswered, NextMoves
<1> QED
  BY <1>1, LiveInvariant, PTL DEF Spec, Safe, DecisionAnswered, AllAnswered
=============================================================================
