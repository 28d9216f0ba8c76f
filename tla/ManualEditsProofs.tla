--------------------------- MODULE ManualEditsProofs ---------------------------
(***************************************************************************)
(* What holds of staged copy edits for every number of pages, texts,       *)
(* files, Applies, saves, repair rounds and crashes: as long as none of    *)
(* the known hazards has happened, what the user saved is staged or in the *)
(* source, and the source is what was reported.                            *)
(*                                                                         *)
(* The argument: then there is one Apply at most, and what it has in hand  *)
(* is what is staged.  Where the source differs from what was reported,    *)
(* something is left that undoes it: the transaction, which covers the     *)
(* texts of the Apply and leads back to what was reported, or the snapshot *)
(* that the late reply of an agent will bring back.  A report settles      *)
(* exactly the entries it drops.                                           *)
(***************************************************************************)
EXTENDS MCClients, ClientsProofs, FiniteSetTheorems, SequenceTheorems, TLAPS

USE PagesAssumption, LimitsAssumption, NamesAssumption

-----------------------------------------------------------------------------
(* The types, with what the fields of Applies and events have to do with    *)
(* each other.                                                              *)

\* What an Apply has in hand belongs to its batch.
Chunked(w) ==
  /\ DOMAIN w.batch # {} /\ w.chunk \subseteq DOMAIN w.batch
  /\ w.todo \in Seq(SUBSET DOMAIN w.batch)
  /\ w.applied \union w.got.ids \subseteq EntryIds(w.batch)

\* An event that is waited for is the only one of its Apply and asks for texts of
\* its batch; one that was given up on had been taken.
Asks(j) ==
  /\ j.left \subseteq DOMAIN j.asks
  /\ j.by \notin Applies => j.taken
  /\ j.by \in Applies =>
       /\ work[j.by] # Free /\ work[j.by].at = "waits"
       /\ DOMAIN j.asks \subseteq DOMAIN work[j.by].batch
       /\ \A r \in DOMAIN j.asks : j.asks[r] = work[j.by].batch[r]
       /\ \A k \in jobs : k.by = j.by => k = j

EditTypes ==
  /\ TypeOK
  /\ IsFiniteSet(jobs)
  /\ \A a \in Busy : Chunked(work[a])
  /\ \A j \in jobs : Asks(j)

\* Events that are given up on, or whose Apply stays as it is.
LEMMA NewAsks ==
  ASSUME EditTypes, TypeOK',
         \A j \in jobs' :
            /\ j.left \subseteq DOMAIN j.asks
            /\ j.by \notin Applies => j.taken
            /\ j.by \in Applies => j \in jobs /\ work'[j.by] = work[j.by]
  PROVE  \A j \in jobs' : Asks(j)'
<1> TAKE j \in jobs'
<1> QED
  BY DEF EditTypes, Asks

\* Likewise, beside one event of an Apply.
LEMMA AnotherAsks ==
  ASSUME EditTypes, TypeOK', NEW i \in jobs', i.by \in Applies,
         i.left \subseteq DOMAIN i.asks,
         work'[i.by] # Free, work'[i.by].at = "waits",
         DOMAIN i.asks \subseteq DOMAIN work'[i.by].batch,
         \A r \in DOMAIN i.asks : i.asks[r] = work'[i.by].batch[r],
         \A j \in jobs' :
            \/ j = i
            \/ /\ j.left \subseteq DOMAIN j.asks
               /\ j.by \notin Applies => j.taken
               /\ j.by # i.by
               /\ j.by \in Applies => j \in jobs /\ work'[j.by] = work[j.by]
  PROVE  \A j \in jobs' : Asks(j)'
<1> TAKE j \in jobs'
<1>1. CASE j = i
  BY <1>1 DEF Asks
<1>2. CASE j # i
  BY <1>2 DEF EditTypes, Asks
<1> QED
  BY <1>1, <1>2

\* A set of numbers up to n has a greatest one.
LEMMA GreatestNumber ==
  ASSUME NEW n \in Nat, NEW T \in SUBSET (1 .. n), T # {}
  PROVE  Max(T) \in T
<1> DEFINE U == {x .. n : x \in T}
<1>1. U \subseteq FiniteSubsetsOf(Nat) /\ U # {}
  <2>1. \A x \in T : x .. n \in SUBSET Nat /\ IsFiniteSet(x .. n)
    <3> TAKE x \in T
    <3>1. IsFiniteSet(x .. n)
      BY FS_Interval, x \in Int, n \in Int
    <3> QED
      BY <3>1
  <2> QED
    BY <2>1, Zenon DEF FiniteSubsetsOf
<1>2. PICK u \in U : \A v \in U : ~ (<<v, u>> \in StrictSubsetOrdering(Nat))
  BY <1>1, FS_StrictSubsetOrderingWellFounded, WFMin, Zenon
<1>3. PICK x \in T : u = x .. n
  OBVIOUS
<1>4. ASSUME NEW y \in T, y > x
      PROVE  FALSE
  <2>1. y .. n \in U /\ y .. n \in SUBSET Nat /\ x .. n \in SUBSET Nat
    OBVIOUS
  <2>2. y .. n \subseteq x .. n
    BY <1>4
  <2>3. x \in x .. n /\ x \notin y .. n
    BY <1>4
  <2>4. <<y .. n, x .. n>> \in StrictSubsetOrdering(Nat)
    BY <2>1, <2>2, <2>3 DEF StrictSubsetOrdering
  <2> QED
    BY <1>2, <1>3, <2>1, <2>4
<1>5. \A y \in T : x >= y
  BY <1>4
<1> QED
  BY <1>5 DEF Max

\* Events that were given up on are some of those there were, under another name.
LEMMA GoneTypes ==
  ASSUME NEW gone \in SUBSET Jobs, IsFiniteSet(gone), NEW by \in Owners
  PROVE  /\ IsFiniteSet(GivenUp(gone, by))
         /\ GivenUp(gone, by) \subseteq Jobs
         /\ \A k \in GivenUp(gone, by) : k.by = by /\ k.taken
         /\ \A k \in GivenUp(gone, by) : \E j \in gone :
               j.taken /\ k.asks = j.asks /\ k.left = j.left /\ k.was = j.was
         /\ \A j \in gone : j.taken => \E k \in GivenUp(gone, by) :
               k.by = by /\ k.asks = j.asks /\ k.left = j.left /\ k.was = j.was
<1> DEFINE S == {k \in gone : k.taken}
           f == [j \in S |-> [j EXCEPT !.by = by]]
<1>1. IsFiniteSet(S)
  BY FS_Subset
<1>2. f \in Surjection(S, GivenUp(gone, by))
  BY DEF Surjection, GivenUp
<1>3. IsFiniteSet(GivenUp(gone, by))
  BY <1>1, <1>2, FS_Surjection
<1>4. ASSUME NEW j \in gone
      PROVE  LET k == [j EXCEPT !.by = by]
             IN k \in Jobs /\ k.by = by /\ k.taken = j.taken /\ k.asks = j.asks
                /\ k.left = j.left /\ k.was = j.was
  BY DEF Jobs
<1>5. ASSUME NEW k \in GivenUp(gone, by)
      PROVE  /\ k \in Jobs /\ k.by = by /\ k.taken
             /\ \E j \in gone : j.taken /\ k.asks = j.asks /\ k.left = j.left /\ k.was = j.was
  <2>1. PICK j \in gone : j.taken /\ k = [j EXCEPT !.by = by]
    BY DEF GivenUp
  <2> QED
    BY <1>4, <2>1
<1>6. ASSUME NEW j \in gone, j.taken
      PROVE  \E k \in GivenUp(gone, by) :
                k.by = by /\ k.asks = j.asks /\ k.left = j.left /\ k.was = j.was
  <2>1. [j EXCEPT !.by = by] \in GivenUp(gone, by)
    BY <1>6, Zenon DEF GivenUp
  <2> QED
    BY <1>4, <2>1
<1> QED
  BY <1>3, <1>5, <1>6, Zenon

-----------------------------------------------------------------------------
(* The pieces.                                                              *)

WorkIs(u, w, at, chunk, todo, failed, applied, attempt, got) ==
  /\ u.kind = w.kind /\ u.page = w.page /\ u.batch = w.batch /\ u.was = w.was
  /\ u.holds = w.holds
  /\ u.at = at /\ u.chunk = chunk /\ u.todo = todo /\ u.failed = failed
  /\ u.applied = applied /\ u.attempt = attempt /\ u.got = got

\* What each rewriting of an Apply changes, and what it leaves.
LEMMA Releases ==
  ASSUME NEW w \in Works, NEW u, u = [w EXCEPT !.at = "releases"]
  PROVE  /\ u \in Works
         /\ WorkIs(u, w, "releases", w.chunk, w.todo, w.failed, w.applied, w.attempt, w.got)
BY DEF Works, WorkIs

LEMMA Resumed ==
  ASSUME NEW w \in Works, NEW got \in Answers,
         NEW u, u = [w EXCEPT !.at = "resumes", !.got = got]
  PROVE  /\ u \in Works
         /\ WorkIs(u, w, "resumes", w.chunk, w.todo, w.failed, w.applied, w.attempt, got)
BY DEF Works, WorkIs

LEMMA Rounds ==
  ASSUME NEW w \in Works, w.attempt < MaxAttempts, NEW ids \in SUBSET (1 .. MaxSaves),
         NEW u, u = [w EXCEPT !.at = "waits", !.attempt = @ + 1, !.applied = ids]
  PROVE  /\ u \in Works
         /\ WorkIs(u, w, "waits", w.chunk, w.todo, w.failed, ids, w.attempt + 1, w.got)
<1>1. w.attempt + 1 \in 0 .. MaxAttempts
  BY DEF Works
<1> QED
  BY <1>1 DEF Works, WorkIs

LEMMA Continues ==
  ASSUME NEW w \in Works, NEW chunk \in SUBSET Refs, NEW todo \in Seq(SUBSET Refs),
         NEW failed \in SUBSET (1 .. MaxSaves),
         NEW u, u = [w EXCEPT !.at = "waits", !.chunk = chunk, !.todo = todo,
                              !.failed = failed, !.got = NoAnswer]
  PROVE  /\ u \in Works
         /\ WorkIs(u, w, "waits", chunk, todo, failed, w.applied, w.attempt, NoAnswer)
BY DEF Works, WorkIs, NoAnswer, Answers

\* The batch of a page, and parts of a batch.
LEMMA PartType ==
  ASSUME NEW b \in Batches, NEW rs \in SUBSET DOMAIN b
  PROVE  /\ DOMAIN b \subseteq Refs
         /\ Part(b, rs) \in Batches
         /\ DOMAIN Part(b, rs) = rs
         /\ \A r \in rs : Part(b, rs)[r] = b[r]
         /\ EntryIds(Part(b, rs)) \subseteq EntryIds(b)
         /\ EntryIds(b) \subseteq 1 .. MaxSaves
<1>1. PICK ds \in SUBSET Refs : b \in [ds -> Staged]
  BY DEF Batches
<1>2. Part(b, rs) \in [rs -> Staged] /\ rs \in SUBSET Refs
  BY <1>1 DEF Part
<1>3. Part(b, rs) \in Batches
  BY <1>2 DEF Batches
<1>4. EntryIds(b) \subseteq 1 .. MaxSaves
  BY <1>1 DEF EntryIds, Staged
<1> QED
  BY <1>1, <1>3, <1>4 DEF Part, EntryIds

LEMMA BatchOfType ==
  ASSUME TypeOK, NEW p \in Pages
  PROVE  /\ BatchOf(p) \in Batches
         /\ DOMAIN BatchOf(p) = {r \in Refs : PageOf[r] = p /\ buffer[r] # Nothing}
         /\ \A r \in DOMAIN BatchOf(p) : BatchOf(p)[r] = buffer[r]
         /\ EntryIds(BatchOf(p)) \subseteq 1 .. MaxSaves
<1> DEFINE rs == {r \in Refs : PageOf[r] = p /\ buffer[r] # Nothing}
<1>1. BatchOf(p) \in [rs -> Staged] /\ rs \in SUBSET Refs
  BY DEF BatchOf, Part, TypeOK
<1>2. BatchOf(p) \in Batches
  BY <1>1 DEF Batches
<1>3. \A r \in DOMAIN BatchOf(p) : BatchOf(p)[r] = buffer[r]
  BY DEF BatchOf, Part
<1>4. EntryIds(BatchOf(p)) \subseteq 1 .. MaxSaves
  BY <1>1 DEF EntryIds, Staged
<1> QED
  BY <1>1, <1>2, <1>3, <1>4

\* The files of some texts, and the sources a rollback can leave.
LEMMA FilesType ==
  ASSUME NEW rs \in SUBSET Refs
  PROVE  FilesOf(rs) \in SUBSET Files /\ \A r \in rs : FileOf[r] \in FilesOf(rs)
BY DEF FilesOf, Files

LEMMA RestoredType ==
  ASSUME NEW src \in Contents, NEW was \in Contents, NEW files
  PROVE  Restored(src, was, files) \in Contents
BY DEF Restored, Contents

LEMMA RolledBackType ==
  ASSUME TypeOK, NEW p \in Pages \union {None}
  PROVE  /\ RolledBack(p) \in Contents
         /\ Forgotten(p) \in Txns \union {NoTxn}
         /\ txn # NoTxn => txn \in Txns /\ txn.by \in Applies /\ txn.page \in Pages
                           /\ txn.was \in Contents /\ txn.ids \subseteq 1 .. MaxSaves
         /\ ~Concerns(p) => RolledBack(p) = source /\ Forgotten(p) = txn
         /\ Concerns(p) => Forgotten(p) = NoTxn
<1>1. txn # NoTxn => txn \in Txns /\ txn.by \in Applies /\ txn.page \in Pages
                     /\ txn.was \in Contents /\ txn.ids \subseteq 1 .. MaxSaves
  BY DEF TypeOK, Txns
<1>2. Concerns(p) => Restored(source, txn.was, txn.files) \in Contents
  BY <1>1, RestoredType DEF Concerns, TypeOK
<1>3. RolledBack(p) \in Contents
  BY <1>2 DEF RolledBack, TypeOK
<1>4. Forgotten(p) \in Txns \union {NoTxn}
  BY DEF Forgotten, TypeOK
<1> QED
  BY <1>1, <1>3, <1>4 DEF RolledBack, Forgotten

\* The first chunk, and what is left.
LEMMA SplitType ==
  ASSUME NEW b \in Batches, DOMAIN b # {}, NEW cs \in Splits(b)
  PROVE  /\ Head(cs) \in SUBSET DOMAIN b
         /\ Tail(cs) \in Seq(SUBSET DOMAIN b)
<1>1. DOMAIN b \in SUBSET Refs
  BY PartType
<1>2. Cardinality(DOMAIN b) \in Nat
  BY <1>1, FS_Subset, FS_CardinalityType
<1>3. PICK k \in 1 .. Cardinality(DOMAIN b) : cs \in [1 .. k -> SUBSET DOMAIN b]
  BY DEF Splits
<1>4. cs \in Seq(SUBSET DOMAIN b) /\ Len(cs) = k /\ k \in Nat \ {0}
  BY <1>2, <1>3
<1>5. cs # <<>>
  BY <1>4
<1> QED
  BY <1>4, <1>5, HeadTailProperties

\* What is left to do, chunk by chunk.
LEMMA TodoType ==
  ASSUME NEW b \in Batches, NEW todo \in Seq(SUBSET DOMAIN b)
  PROVE  /\ todo \in Seq(SUBSET Refs)
         /\ UNION {EntryIds(Part(b, rs)) : rs \in ToSet(todo)} \subseteq EntryIds(b)
         /\ todo # <<>> => Head(todo) \in SUBSET DOMAIN b /\ Tail(todo) \in Seq(SUBSET DOMAIN b)
<1>1. DOMAIN b \subseteq Refs
  BY PartType
<1>2. todo \in Seq(SUBSET Refs)
  BY <1>1, SeqMonotonic
<1>3. \A rs \in ToSet(todo) : rs \subseteq DOMAIN b
  BY LenProperties, ElementOfSeq DEF ToSet
<1>4. \A rs \in ToSet(todo) : EntryIds(Part(b, rs)) \subseteq EntryIds(b)
  BY <1>3, PartType
<1> QED
  BY <1>2, <1>4, HeadTailProperties

\* What fails, or is applied, of the batch.
LEMMA OutcomeType ==
  ASSUME NEW w \in Works, Chunked(w)
  PROVE  /\ FailedIn(w) \subseteq w.failed \union EntryIds(w.batch)
         /\ FailedIn(w) \in SUBSET (1 .. MaxSaves)
         /\ AppliedIn(w) \subseteq EntryIds(w.batch)
         /\ EntryIds(w.batch) \in SUBSET (1 .. MaxSaves)
<1>1. w.batch \in Batches /\ w.failed \in SUBSET (1 .. MaxSaves)
  BY DEF Works
<1>2. /\ EntryIds(Part(w.batch, w.chunk)) \subseteq EntryIds(w.batch)
      /\ UNION {EntryIds(Part(w.batch, rs)) : rs \in ToSet(w.todo)} \subseteq EntryIds(w.batch)
      /\ EntryIds(w.batch) \subseteq 1 .. MaxSaves
  BY <1>1, PartType, TodoType DEF Chunked
<1>3. FailedIn(w) \subseteq w.failed \union EntryIds(w.batch)
  BY <1>2 DEF FailedIn
<1> QED
  BY <1>1, <1>2, <1>3 DEF AppliedIn

-----------------------------------------------------------------------------
(* The types, action by action.                                             *)

\* An Apply that does not wait has no event.
LEMMA NobodyAsks ==
  ASSUME EditTypes, NEW a \in Applies, work[a] = Free \/ work[a].at # "waits"
  PROVE  \A j \in jobs : j.by # a
BY DEF EditTypes, Asks

LEMMA BusyWorks ==
  ASSUME EditTypes, NEW a \in Busy
  PROVE  /\ a \in Applies /\ work[a] \in Works /\ Chunked(work[a]) /\ work[a] # Free
         /\ work[a].batch \in Batches /\ DOMAIN work[a].batch \subseteq Refs
         /\ work[a].was \in Contents
<1>1. a \in Applies /\ work[a] \in Works /\ Chunked(work[a]) /\ work[a] # Free
  BY DEF EditTypes, TypeOK, Busy
<1> QED
  BY <1>1, PartType DEF Works

\* The event that hands texts to an agent.
LEMMA JobType ==
  ASSUME NEW a \in Applies, NEW b \in Batches, NEW rs \in SUBSET DOMAIN b,
         NEW src \in Contents, NEW j, j = Job(a, rs, b, src)
  PROVE  /\ j \in Jobs /\ j.by = a /\ j.left = rs /\ DOMAIN j.asks = rs
         /\ ~j.taken /\ j.was = src
         /\ \A r \in rs : j.asks[r] = b[r]
<1>1. rs \in SUBSET Refs
  BY PartType
<1> QED
  BY <1>1, PartType DEF Job, Jobs, Owners

\* An Apply is handed a chunk.
LEMMA HandedOut ==
  ASSUME EditTypes, NEW a \in Applies, work[a] = Free \/ work[a].at # "waits",
         NEW u \in Works, u.at = "waits", Chunked(u), NEW rs \in SUBSET DOMAIN u.batch,
         NEW src \in Contents,
         work' = [work EXCEPT ![a] = u],
         jobs' = jobs \union {Job(a, rs, u.batch, src)},
         TypeOK'
  PROVE  EditTypes'
<1> DEFINE j == Job(a, rs, u.batch, src)
<1>1. u.batch \in Batches
  BY DEF Works
<1>2. /\ j \in Jobs /\ j.by = a /\ j.left = rs /\ DOMAIN j.asks = rs
      /\ \A r \in rs : j.asks[r] = u.batch[r]
  BY <1>1, JobType
<1> HIDE DEF j
<1>3. u # Free
  BY DEF Free
<1>4. work'[a] = u /\ \A c \in Applies \ {a} : work'[c] = work[c]
  BY DEF EditTypes, TypeOK
<1>5. \A k \in jobs : k.by # a
  BY NobodyAsks
<1>6. \A k \in jobs' : Asks(k)'
  <2>1. \A k \in jobs : k.left \subseteq DOMAIN k.asks /\ (k.by \notin Applies => k.taken)
    BY DEF EditTypes, Asks
  <2>2. \A k \in jobs' : k = j \/ k \in jobs
    BY DEF j
  <2>3. j \in jobs'
    BY DEF j
  <2>4. /\ j.by \in Applies /\ j.left \subseteq DOMAIN j.asks
        /\ work'[j.by] # Free /\ work'[j.by].at = "waits"
        /\ DOMAIN j.asks \subseteq DOMAIN work'[j.by].batch
        /\ \A r \in DOMAIN j.asks : j.asks[r] = work'[j.by].batch[r]
    BY <1>2, <1>3, <1>4
  <2>5. \A k \in jobs' : \/ k = j
                         \/ /\ k.left \subseteq DOMAIN k.asks
                            /\ k.by \notin Applies => k.taken
                            /\ k.by # j.by
                            /\ k.by \in Applies => k \in jobs /\ work'[k.by] = work[k.by]
    BY <1>2, <1>4, <1>5, <2>1, <2>2
  <2> QED
    BY <2>3, <2>4, <2>5, AnotherAsks
<1>7. IsFiniteSet(jobs')
  BY FS_AddElement DEF EditTypes
<1>8. \A c \in Busy' : Chunked(work'[c])
  BY <1>4 DEF EditTypes, Busy
<1> QED
  BY <1>6, <1>7, <1>8 DEF EditTypes, Chunked

\* An Apply for which no event waits goes on without one.
LEMMA WentOn ==
  ASSUME EditTypes, NEW a \in Applies, work[a] = Free \/ work[a].at # "waits",
         NEW u \in Works \union {Free}, u # Free => Chunked(u),
         work' = [work EXCEPT ![a] = u], jobs' = jobs,
         TypeOK'
  PROVE  EditTypes'
<1>1. work'[a] = u /\ \A c \in Applies \ {a} : work'[c] = work[c]
  BY DEF EditTypes, TypeOK
<1>2. \A k \in jobs : k.by # a
  BY NobodyAsks
<1>3. \A k \in jobs' : Asks(k)'
  BY <1>1, <1>2 DEF EditTypes, Asks
<1>4. \A c \in Busy' : Chunked(work'[c])
  BY <1>1 DEF EditTypes, Busy
<1> QED
  BY <1>3, <1>4 DEF EditTypes, Chunked

\* Nothing happens to the Applies and the events.
LEMMA SameTypes ==
  ASSUME EditTypes, work' = work, jobs' = jobs, TypeOK'
  PROVE  EditTypes'
<1>1. \A c \in Busy' : Chunked(work'[c])
  BY DEF EditTypes, Busy
<1>2. \A k \in jobs' : Asks(k)'
  BY DEF EditTypes, Asks
<1> QED
  BY <1>1, <1>2 DEF EditTypes, Chunked

\* The two ways to begin.
LEMMA ApplyTypes ==
  ASSUME EditTypes, NEW a \in Applies, NEW p \in Pages, Apply(a, p)
  PROVE  EditTypes'
<1> DEFINE src == RolledBack(p)
           b == BatchOf(p)
<1>1. TypeOK
  BY DEF EditTypes
<1>2. /\ src \in Contents /\ Forgotten(p) \in Txns \union {NoTxn}
      /\ b \in Batches /\ EntryIds(b) \subseteq 1 .. MaxSaves /\ DOMAIN b \subseteq Refs
  BY <1>1, RolledBackType, BatchOfType
<1>3. started' \in 0 .. MaxApplies
  BY <1>1 DEF Apply, Starts, TypeOK
<1>4. CASE DOMAIN b = {}
  <2>1. source' = src /\ txn' = Forgotten(p) /\ work' = work /\ jobs' = jobs
        /\ spoiled' = spoiled
    BY <1>4, Zenon DEF Apply
  <2>2. TypeOK'
    BY <1>1, <1>2, <1>3, <2>1 DEF TypeOK, Apply
  <2> QED
    BY <2>1, <2>2, SameTypes
<1>5. CASE DOMAIN b # {}
  <2>1. PICK cs \in Splits(b) :
           /\ work' = [work EXCEPT ![a] =
                  [at |-> "waits", kind |-> IF Len(cs) = 1 THEN "whole" ELSE "chunks",
                   page |-> p, batch |-> b, was |-> src, holds |-> a,
                   chunk |-> Head(cs), todo |-> Tail(cs), failed |-> {},
                   applied |-> {}, attempt |-> 0, got |-> NoAnswer]]
           /\ jobs' = jobs \union {Job(a, Head(cs), b, src)}
    BY <1>5, Zenon DEF Apply
  <2> DEFINE u == [at |-> "waits", kind |-> IF Len(cs) = 1 THEN "whole" ELSE "chunks",
                   page |-> p, batch |-> b, was |-> src, holds |-> a,
                   chunk |-> Head(cs), todo |-> Tail(cs), failed |-> {},
                   applied |-> {}, attempt |-> 0, got |-> NoAnswer]
  <2>2. Head(cs) \in SUBSET DOMAIN b /\ Tail(cs) \in Seq(SUBSET DOMAIN b)
    BY <1>2, <1>5, SplitType
  <2>3. Tail(cs) \in Seq(SUBSET Refs)
    BY <1>2, <2>2, TodoType
  <2>4. u \in Works
    BY <1>2, <2>2, <2>3 DEF Works, Kinds, NoAnswer, Answers
  <2>5. Chunked(u) /\ u.at = "waits" /\ u.batch = b
    BY <1>5, <2>2 DEF Chunked, NoAnswer
  <2>6. txn' = [by |-> a, page |-> p, ids |-> EntryIds(b), files |-> FilesOf(DOMAIN b),
                was |-> src]
    BY <1>5, Zenon DEF Apply
  <2>7. txn' \in Txns
    BY <1>2, <2>6, FilesType DEF Txns
  <2>8. Job(a, Head(cs), b, src) \in Jobs
    BY <1>2, <2>2, JobType
  <2>9. work' \in [Applies -> Works \union {Free}] /\ jobs' \subseteq Jobs
    BY <1>1, <2>1, <2>4, <2>8 DEF TypeOK
  <2>10. source' = src /\ spoiled' \subseteq Hazards
    BY <1>1, <1>5 DEF Apply, TypeOK, Hazards
  <2>11. TypeOK'
    BY <1>1, <1>2, <1>3, <2>7, <2>9, <2>10 DEF TypeOK, Apply
  <2>12. work[a] = Free
    BY DEF Apply
  <2> HIDE DEF u, b, src
  <2>13. work' = [work EXCEPT ![a] = u] /\ jobs' = jobs \union {Job(a, Head(cs), u.batch, src)}
    BY <2>1, <2>5 DEF u
  <2> QED
    BY <1>2, <2>2, <2>4, <2>5, <2>11, <2>12, <2>13, HandedOut
<1> QED
  BY <1>4, <1>5

LEMMA KeepFixingTypes ==
  ASSUME EditTypes, NEW a \in Applies, NEW p \in Pages, KeepFixing(a, p)
  PROVE  EditTypes'
<1> DEFINE b == BatchOf(p)
           u == [at |-> "resumes", kind |-> "repair", page |-> p, batch |-> b,
                 was |-> source, holds |-> txn.by, chunk |-> DOMAIN b,
                 todo |-> <<>>, failed |-> {}, applied |-> {}, attempt |-> 0,
                 got |-> [how |-> "reply", ids |-> EntryIds(b)]]
<1>1. TypeOK
  BY DEF EditTypes
<1>2. b \in Batches /\ EntryIds(b) \subseteq 1 .. MaxSaves /\ DOMAIN b \subseteq Refs
  BY <1>1, BatchOfType
<1>3. started' \in 0 .. MaxApplies
  BY <1>1 DEF KeepFixing, Starts, TypeOK
<1>4. txn \in Txns /\ txn.by \in Applies
  BY <1>1 DEF KeepFixing, TypeOK, Txns
<1>5. u \in Works
  BY <1>1, <1>2, <1>4 DEF Works, Kinds, Answers, TypeOK
<1>6. DOMAIN b # {} => Chunked(u)
  BY DEF Chunked
<1>7. work' = work \/ (DOMAIN b # {} /\ work' = [work EXCEPT ![a] = u])
  BY Zenon DEF KeepFixing
<1>8. spoiled' \subseteq Hazards
  BY <1>1 DEF KeepFixing, TypeOK, Hazards
<1>9. TypeOK'
  <2>1. work' \in [Applies -> Works \union {Free}]
    BY <1>1, <1>5, <1>7 DEF TypeOK
  <2> QED
    BY <1>1, <1>3, <1>8, <2>1 DEF TypeOK, KeepFixing
<1>10. work[a] = Free /\ jobs' = jobs
  BY DEF KeepFixing
<1> HIDE DEF u
<1> QED
  BY <1>5, <1>6, <1>7, <1>9, <1>10, WentOn, SameTypes

\* Release, Undo, Clear and Repair change one Apply.
LEMMA ReleaseTypes ==
  ASSUME EditTypes, NEW a \in Applies, Release(a)
  PROVE  EditTypes'
<1>1. TypeOK
  BY DEF EditTypes
<1>2. txn' \in Txns \union {NoTxn} /\ work' = [work EXCEPT ![a] = Free] /\ jobs' = jobs
  BY <1>1, Zenon DEF Release, Goes, TypeOK
<1>3. work' \in [Applies -> Works \union {Free}]
  BY <1>1, <1>2 DEF TypeOK
<1>4. TypeOK'
  BY <1>1, <1>2, <1>3 DEF TypeOK, Release
<1>5. work[a].at # "waits"
  BY DEF Release
<1> QED
  BY <1>2, <1>4, <1>5, WentOn

\* An Apply fails, reports, or goes for another round.
LEMMA UndoTypes ==
  ASSUME EditTypes, NEW a \in Busy, work[a].at = "resumes", Undo(a, work[a]), OnlyWork,
         UNCHANGED spoiled
  PROVE  EditTypes'
<1> DEFINE w == work[a]
           u == [w EXCEPT !.at = "releases"]
<1>1. TypeOK
  BY DEF EditTypes
<1>2. a \in Applies /\ w \in Works /\ Chunked(w) /\ w.was \in Contents
  BY BusyWorks
<1>3. u \in Works /\ Chunked(u)
  BY <1>2, Releases DEF Chunked, WorkIs
<1>4. work' = [work EXCEPT ![a] = u] /\ jobs' = jobs
  BY Zenon DEF Undo, Goes
<1>5. source' \in Contents
  BY <1>1, <1>2, RestoredType DEF Undo, TypeOK
<1>6. TypeOK'
  BY <1>1, <1>2, <1>3, <1>4, <1>5 DEF TypeOK, Undo, OnlyWork
<1> QED
  BY <1>2, <1>3, <1>4, <1>6, WentOn

LEMMA ClearTypes ==
  ASSUME EditTypes, NEW a \in Busy, work[a].at = "resumes", NEW ids, Clear(a, work[a], ids),
         OnlyWork, spoiled' \subseteq Hazards
  PROVE  EditTypes'
<1> DEFINE w == work[a]
           u == [w EXCEPT !.at = "releases"]
<1>1. TypeOK
  BY DEF EditTypes
<1>2. a \in Applies /\ w \in Works /\ Chunked(w) /\ w.batch \in Batches
  BY BusyWorks
<1>3. u \in Works /\ Chunked(u)
  BY <1>2, Releases DEF Chunked, WorkIs
<1>4. work' = [work EXCEPT ![a] = u] /\ jobs' = jobs
  BY Zenon DEF Clear, Goes
<1>5. buffer' \in [Refs -> Staged \union {Nothing}]
  BY <1>1 DEF Clear, TypeOK
<1>6. \A r \in OfEntries(w.batch, ids) : w.batch[r].text \in Texts
  BY <1>2 DEF OfEntries, Batches, Staged, Texts
<1>7. settled' \in Contents
  BY <1>1, <1>6 DEF Clear, TypeOK, Contents
<1>8. TypeOK'
  BY <1>1, <1>2, <1>3, <1>4, <1>5, <1>7 DEF TypeOK, Clear, OnlyWork
<1> QED
  BY <1>2, <1>3, <1>4, <1>8, WentOn

LEMMA RepairTypes ==
  ASSUME EditTypes, NEW a \in Busy, work[a].at = "resumes",
         NEW ids \in SUBSET EntryIds(work[a].batch), Repair(a, work[a], ids),
         OnlyWork, spoiled' \subseteq Hazards
  PROVE  EditTypes'
<1> DEFINE w == work[a]
           u == [w EXCEPT !.at = "waits", !.attempt = @ + 1, !.applied = ids]
<1>1. TypeOK
  BY DEF EditTypes
<1>2. /\ a \in Applies /\ w \in Works /\ Chunked(w) /\ w.batch \in Batches
      /\ w.page \in Pages /\ ids \in SUBSET (1 .. MaxSaves) /\ ids \subseteq EntryIds(w.batch)
  BY BusyWorks, PartType DEF Works
<1>3. CASE w.attempt < MaxAttempts
  <2>1. u \in Works /\ Chunked(u) /\ u.at = "waits" /\ u.batch = w.batch
    <3>1. /\ u \in Works
          /\ WorkIs(u, w, "waits", w.chunk, w.todo, w.failed, ids, w.attempt + 1, w.got)
      BY <1>2, <1>3, Rounds
    <3> HIDE DEF u, w
    <3> QED
      BY <1>2, <3>1 DEF Chunked, WorkIs
  <2> HIDE DEF u
  <2>2. /\ work' = [work EXCEPT ![a] = u]
        /\ jobs' = jobs \union {Job(a, DOMAIN u.batch, u.batch, source)}
        /\ asked' = asked
    BY <1>3, <2>1 DEF Repair, Goes, u
  <2>3. Job(a, DOMAIN u.batch, u.batch, source) \in Jobs /\ source \in Contents
    <3>1. source \in Contents /\ u.batch \in Batches
      BY <1>1, <1>2, <2>1 DEF TypeOK
    <3> QED
      BY <1>2, <3>1, JobType
  <2>4. work' \in [Applies -> Works \union {Free}] /\ jobs' \subseteq Jobs
    BY <1>1, <1>2, <2>1, <2>2, <2>3 DEF TypeOK
  <2>5. TypeOK'
    BY <1>1, <2>2, <2>4 DEF TypeOK, Repair, OnlyWork
  <2> QED
    BY <1>2, <2>1, <2>2, <2>3, <2>5, HandedOut
<1>4. CASE ~(w.attempt < MaxAttempts)
  <2>1. work' = [work EXCEPT ![a] = Free] /\ jobs' = jobs /\ asked' = asked \union {w.page}
    BY <1>4, Zenon DEF Repair, Goes
  <2>2. work' \in [Applies -> Works \union {Free}]
    BY <1>1, <2>1 DEF TypeOK
  <2>3. TypeOK'
    BY <1>1, <1>2, <2>1, <2>2 DEF TypeOK, Repair, OnlyWork
  <2> QED
    BY <1>2, <2>1, <2>3, WentOn
<1> QED
  BY <1>3, <1>4

LEMMA NextChunkTypes ==
  ASSUME EditTypes, NEW a \in Applies, NextChunk(a)
  PROVE  EditTypes'
<1> DEFINE w == work[a]
           u == [w EXCEPT !.at = "waits", !.chunk = Head(w.todo), !.todo = Tail(w.todo),
                          !.failed = FailedIn(w), !.got = NoAnswer]
<1>1. TypeOK
  BY DEF EditTypes
<1>2. a \in Busy
  BY DEF NextChunk, Busy
<1>3. w \in Works /\ Chunked(w) /\ w.batch \in Batches
  BY <1>2, BusyWorks
<1>4. /\ Head(w.todo) \in SUBSET DOMAIN w.batch
      /\ Tail(w.todo) \in Seq(SUBSET DOMAIN w.batch)
  BY <1>3, TodoType DEF Chunked, NextChunk
<1>5. Head(w.todo) \in SUBSET Refs /\ Tail(w.todo) \in Seq(SUBSET Refs)
  BY <1>3, <1>4, TodoType, PartType
<1>6. FailedIn(w) \in SUBSET (1 .. MaxSaves)
  BY <1>3, OutcomeType
<1>7. u \in Works /\ u.at = "waits" /\ Chunked(u) /\ u.batch = w.batch
  <2>1. /\ u \in Works
        /\ WorkIs(u, w, "waits", Head(w.todo), Tail(w.todo), FailedIn(w), w.applied,
                  w.attempt, NoAnswer)
    BY <1>3, <1>5, <1>6, Continues
  <2> HIDE DEF u, w
  <2> QED
    BY <1>3, <1>4, <2>1 DEF WorkIs, Chunked, NoAnswer
<1> HIDE DEF u
<1>8. /\ work' = [work EXCEPT ![a] = u]
      /\ jobs' = jobs \union {Job(a, Head(w.todo), u.batch, source)}
  BY <1>7 DEF NextChunk, Goes, u
<1>9. Job(a, Head(w.todo), u.batch, source) \in Jobs /\ source \in Contents
  BY <1>1, <1>3, <1>4, <1>7, JobType DEF TypeOK
<1>10. work' \in [Applies -> Works \union {Free}] /\ jobs' \subseteq Jobs
  BY <1>1, <1>7, <1>8, <1>9 DEF TypeOK
<1>11. TypeOK'
  BY <1>1, <1>10 DEF TypeOK, NextChunk, OnlyWork
<1>12. work[a].at # "waits"
  BY DEF NextChunk
<1> QED
  BY <1>4, <1>7, <1>8, <1>9, <1>11, <1>12, HandedOut

\* After the chunks, and after a repair.
LEMMA ConcludeTypes ==
  ASSUME EditTypes, NEW a \in Applies, Conclude(a)
  PROVE  EditTypes'
<1> DEFINE w == work[a]
           ids == AppliedIn(w)
<1>1. a \in Busy /\ w.at = "resumes" /\ OnlyWork /\ spoiled' = spoiled
  BY DEF Conclude, Busy
<1>2. spoiled' \subseteq Hazards
  BY <1>1 DEF EditTypes, TypeOK
<1>3. ids \in SUBSET EntryIds(w.batch)
  BY <1>1, BusyWorks, OutcomeType
<1>4. \/ Undo(a, w) \/ Clear(a, w, ids)
      \/ \E rs \in SUBSET EntryIds(w.batch) : Repair(a, w, rs)
  BY <1>3, Zenon DEF Conclude, Checked
<1> QED
  BY <1>1, <1>2, <1>4, UndoTypes, ClearTypes, RepairTypes, Zenon

LEMMA RepairedTypes ==
  ASSUME EditTypes, NEW a \in Applies, Repaired(a)
  PROVE  EditTypes'
<1> DEFINE w == work[a]
           ids == w.applied \union w.got.ids
<1>1. a \in Busy /\ w.at = "resumes" /\ OnlyWork
  BY DEF Repaired, Busy
<1>2. spoiled' \subseteq Hazards
  BY DEF Repaired, Spoil, EditTypes, TypeOK, Hazards
<1>3. ids \in SUBSET EntryIds(w.batch)
  BY <1>1, BusyWorks DEF Chunked
<1>4. Clear(a, w, ids) \/ Repair(a, w, ids)
  BY Zenon DEF Repaired, Checked
<1> QED
  BY <1>1, <1>2, <1>3, <1>4, ClearTypes, RepairTypes

\* The user's other requests, and the agent.
LEMMA SaveTypes ==
  ASSUME EditTypes, NEW rs, Save(rs)
  PROVE  EditTypes'
<1>1. TypeOK
  BY DEF EditTypes
<1>2. saves' \in 1 .. MaxSaves
  BY <1>1 DEF Save, TypeOK
<1>3. buffer' \in [Refs -> Staged \union {Nothing}]
  <2>1. \A r \in Refs : buffer[r] # Nothing => buffer[r].id \in 1 .. MaxSaves
    BY <1>1 DEF TypeOK, Staged
  <2>2. \A r \in Refs :
           [id |-> IF buffer[r] = Nothing THEN saves' ELSE buffer[r].id, text |-> saves']
              \in Staged
    BY <1>2, <2>1 DEF Staged
  <2> QED
    BY <1>1, <2>2 DEF Save, TypeOK
<1>4. wish' \in Contents
  BY <1>1, <1>2 DEF Save, TypeOK, Contents, Texts
<1>5. spoiled' \subseteq Hazards
  BY <1>1 DEF Save, Spoil, TypeOK, Hazards
<1>6. TypeOK'
  BY <1>1, <1>2, <1>3, <1>4, <1>5 DEF TypeOK, Save
<1> QED
  BY <1>6, SameTypes DEF Save

LEMMA RollBackTypes ==
  ASSUME EditTypes, NEW p \in Pages, RollBack(p)
  PROVE  EditTypes'
<1>1. TypeOK
  BY DEF EditTypes
<1>2. source' \in Contents /\ txn' \in Txns \union {NoTxn}
  BY <1>1, RolledBackType DEF RollBack
<1>3. spoiled' \subseteq Hazards
  BY <1>1 DEF RollBack, Spoil, TypeOK, Hazards
<1>4. TypeOK'
  BY <1>1, <1>2, <1>3 DEF TypeOK, RollBack
<1> QED
  BY <1>4, SameTypes DEF RollBack

LEMMA RestartTypes ==
  ASSUME EditTypes, Restart
  PROVE  EditTypes'
<1>1. TypeOK
  BY DEF EditTypes
<1>2. source' \in Contents /\ txn' \in Txns \union {NoTxn}
  BY <1>1, RolledBackType DEF Restart
<1>3. TypeOK'
  BY <1>1, <1>2 DEF TypeOK, Restart
<1> QED
  BY <1>3, SameTypes DEF Restart

LEMMA DiscardTypes ==
  ASSUME EditTypes, NEW p \in Pages, Discard(p)
  PROVE  EditTypes'
<1> DEFINE hit == {a \in Busy : work[a].page = p}
           called == {j \in jobs : j.by \in hit}
<1>1. TypeOK
  BY DEF EditTypes
<1>2. called \in SUBSET Jobs /\ IsFiniteSet(called) /\ Cardinality(called) \in Nat
  BY <1>1, FS_Subset, FS_CardinalityType DEF EditTypes, TypeOK
<1>3. PICK order \in SetToSeqs(called) : source' = [r \in Refs |->
             LET at == {i \in DOMAIN order : FileOf[r] \in FilesOf(DOMAIN order[i].asks)}
             IN IF at = {} THEN RolledBack(p)[r] ELSE order[Max(at)].was[r]]
  BY Zenon DEF Discard
<1>4. order \in [1 .. Cardinality(called) -> called]
  BY DEF SetToSeqs
<1>5. source' \in Contents
  <2>1. ASSUME NEW r \in Refs
        PROVE  source'[r] \in Texts
    <3> DEFINE at == {i \in DOMAIN order : FileOf[r] \in FilesOf(DOMAIN order[i].asks)}
    <3>1. source'[r] = IF at = {} THEN RolledBack(p)[r] ELSE order[Max(at)].was[r]
      BY <1>3
    <3>2. at # {} => order[Max(at)] \in called
      <4>1. at \in SUBSET (1 .. Cardinality(called))
        BY <1>4
      <4> HIDE DEF at
      <4>2. at # {} => Max(at) \in 1 .. Cardinality(called)
        BY <1>2, <4>1, GreatestNumber
      <4> QED
        BY <1>4, <4>2
    <3>3. at # {} => order[Max(at)].was \in Contents
      BY <1>2, <3>2 DEF Jobs
    <3>4. RolledBack(p) \in Contents
      BY <1>1, RolledBackType
    <3> HIDE DEF at
    <3> QED
      BY <3>1, <3>3, <3>4 DEF Contents
  <2>2. source' = [r \in Refs |-> source'[r]]
    BY <1>3, Zenon
  <2> QED
    BY <2>1, <2>2 DEF Contents
<1>6. /\ GivenUp(called, "tombstone") \subseteq Jobs
      /\ IsFiniteSet(GivenUp(called, "tombstone"))
      /\ \A k \in GivenUp(called, "tombstone") : k.by = "tombstone" /\ k.taken
      /\ \A k \in GivenUp(called, "tombstone") : \E j \in called :
            k.asks = j.asks /\ k.left = j.left
  <2>1. "tombstone" \in Owners
    BY DEF Owners
  <2> HIDE DEF called
  <2> QED
    BY <1>2, <2>1, GoneTypes
<1>7. jobs' = (jobs \ called) \union GivenUp(called, "tombstone")
  BY Zenon DEF Discard
<1>8. IsFiniteSet(jobs') /\ jobs' \subseteq Jobs
  BY <1>1, <1>6, <1>7, FS_Subset, FS_Union DEF EditTypes, TypeOK
<1>9. \A a \in Applies : IF a \in hit
                         THEN /\ a \in Busy /\ work'[a] \in Works /\ Chunked(work'[a])
                              /\ work'[a].at = "resumes"
                         ELSE work'[a] = work[a]
  <2> TAKE a \in Applies
  <2>1. work'[a] = IF a \in hit THEN [work[a] EXCEPT !.at = "resumes", !.got = NoAnswer]
                                ELSE work[a]
    BY Zenon DEF Discard
  <2>2. CASE a \in hit
    <3>1. a \in Busy /\ work[a] \in Works /\ Chunked(work[a])
      BY <2>2, BusyWorks
    <3>2. /\ work'[a] \in Works
          /\ WorkIs(work'[a], work[a], "resumes", work[a].chunk, work[a].todo, work[a].failed,
                    work[a].applied, work[a].attempt, NoAnswer)
      BY <2>1, <2>2, <3>1, Resumed DEF NoAnswer, Answers
    <3> QED
      BY <2>2, <3>1, <3>2 DEF Chunked, WorkIs, NoAnswer
  <2> QED
    BY <2>1, <2>2
<1>10. TypeOK'
  <2>1. work' \in [Applies -> Works \union {Free}]
    <3>1. DOMAIN work' = Applies /\ work' = [a \in Applies |-> work'[a]]
      BY Zenon DEF Discard
    <3>2. \A a \in Applies : work'[a] \in Works \union {Free}
      BY <1>1, <1>9 DEF TypeOK
    <3> QED
      BY <3>1, <3>2
  <2>2. buffer' \in [Refs -> Staged \union {Nothing}] /\ wish' \in Contents
    BY <1>1 DEF Discard, Drops, TypeOK, Contents
  <2>3. txn' \in Txns \union {NoTxn}
    BY <1>1, RolledBackType DEF Discard
  <2>4. spoiled' \subseteq Hazards
    BY <1>1 DEF Discard, Spoil, TypeOK, Hazards
  <2> QED
    BY <1>1, <1>5, <1>8, <2>1, <2>2, <2>3, <2>4 DEF TypeOK, Discard
<1>11. \A j \in jobs' : Asks(j)'
  <2>1. \A j \in jobs : /\ j.left \subseteq DOMAIN j.asks
                        /\ j.by \notin Applies => j.taken
                        /\ j.by \in Applies => j.by \in Busy
    BY DEF EditTypes, Asks, Busy
  <2>2. ASSUME NEW j \in jobs'
        PROVE  /\ j.left \subseteq DOMAIN j.asks
               /\ j.by \notin Applies => j.taken
               /\ j.by \in Applies => j \in jobs /\ work'[j.by] = work[j.by]
    <3>1. CASE j \in jobs \ called
      BY <1>9, <2>1, <3>1
    <3>2. CASE j \in GivenUp(called, "tombstone")
      BY <1>6, <2>1, <3>2
    <3> QED
      BY <1>7, <3>1, <3>2
  <2> HIDE DEF called, hit
  <2> QED
    BY <1>10, <2>2, NewAsks
<1>12. \A a \in Busy' : Chunked(work'[a])
  BY <1>9 DEF EditTypes, Busy
<1> QED
  BY <1>8, <1>10, <1>11, <1>12 DEF EditTypes, Chunked

\* The event that an agent has taken, or of which it has written a text.
LEMMA JobStays ==
  ASSUME EditTypes, NEW j \in jobs, NEW k \in Jobs,
         k.by = j.by, k.asks = j.asks, k.left \subseteq j.left, j.taken => k.taken,
         jobs' = (jobs \ {j}) \union {k}, work' = work, TypeOK'
  PROVE  EditTypes'
<1>1. IsFiniteSet(jobs')
  BY FS_RemoveElement, FS_AddElement DEF EditTypes
<1>2. \A i \in jobs : i.left \subseteq DOMAIN i.asks /\ (i.by \notin Applies => i.taken)
  BY DEF EditTypes, Asks
<1>3. \A i \in jobs' : Asks(i)'
  <2>1. CASE j.by \notin Applies
    <3>1. \A i \in jobs' : /\ i.left \subseteq DOMAIN i.asks
                           /\ i.by \notin Applies => i.taken
                           /\ i.by \in Applies => i \in jobs /\ work'[i.by] = work[i.by]
      BY <1>2, <2>1
    <3> QED
      BY <3>1, NewAsks
  <2>2. CASE j.by \in Applies
    <3>1. Asks(j)
      BY DEF EditTypes
    <3>2. /\ k \in jobs' /\ k.by \in Applies /\ k.left \subseteq DOMAIN k.asks
          /\ work'[k.by] # Free /\ work'[k.by].at = "waits"
          /\ DOMAIN k.asks \subseteq DOMAIN work'[k.by].batch
          /\ \A r \in DOMAIN k.asks : k.asks[r] = work'[k.by].batch[r]
      BY <2>2, <3>1 DEF Asks
    <3>3. \A i \in jobs' : \/ i = k
                           \/ /\ i.left \subseteq DOMAIN i.asks
                              /\ i.by \notin Applies => i.taken
                              /\ i.by # k.by
                              /\ i.by \in Applies => i \in jobs /\ work'[i.by] = work[i.by]
      BY <1>2, <2>2, <3>1 DEF Asks
    <3> QED
      BY <3>2, <3>3, AnotherAsks
  <2> QED
    BY <2>1, <2>2
<1>4. \A a \in Busy' : Chunked(work'[a])
  BY DEF EditTypes, Busy
<1> QED
  BY <1>1, <1>3, <1>4 DEF EditTypes, Chunked

\* The agent takes an event and writes.
LEMMA TakeTypes ==
  ASSUME EditTypes, NEW j \in jobs, Take(j)
  PROVE  EditTypes'
<1> DEFINE k == [j EXCEPT !.taken = TRUE]
<1>1. TypeOK /\ j \in Jobs
  BY DEF EditTypes, TypeOK
<1>2. k \in Jobs /\ k.by = j.by /\ k.asks = j.asks /\ k.left = j.left /\ k.taken
  BY <1>1 DEF Jobs
<1>3. jobs' = (jobs \ {j}) \union {k} /\ work' = work
  BY DEF Take
<1> HIDE DEF k
<1>4. TypeOK'
  BY <1>1, <1>2, <1>3 DEF TypeOK, Take, JobOnly
<1> QED
  BY <1>2, <1>3, <1>4, JobStays

LEMMA WriteTypes ==
  ASSUME EditTypes, NEW j \in jobs, NEW r \in j.left, Write(j, r)
  PROVE  EditTypes'
<1> DEFINE k == [j EXCEPT !.left = @ \ {r}]
<1>1. TypeOK /\ j \in Jobs /\ Asks(j)
  BY DEF EditTypes, TypeOK
<1>2. /\ k \in Jobs /\ k.by = j.by /\ k.asks = j.asks /\ k.left = j.left \ {r}
      /\ k.taken = j.taken
  BY <1>1 DEF Jobs
<1>3. jobs' = (jobs \ {j}) \union {k} /\ work' = work
  BY DEF Write
<1>4. source' \in Contents
  <2>1. j.asks \in Batches /\ r \in DOMAIN j.asks
    BY <1>1 DEF Jobs, Asks
  <2>2. j.asks[r].text \in Texts
    BY <2>1 DEF Batches, Staged, Texts
  <2> QED
    BY <1>1, <2>2 DEF Write, TypeOK, Contents
<1>5. spoiled' \subseteq Hazards
  BY <1>1 DEF Write, Spoil, TypeOK, Hazards
<1> HIDE DEF k
<1>6. TypeOK'
  BY <1>1, <1>2, <1>3, <1>4, <1>5 DEF TypeOK, Write, JobOnly
<1> QED
  BY <1>2, <1>3, <1>6, JobStays

\* An Apply hears that its event is answered, or called off.
LEMMA ApplyHears ==
  ASSUME EditTypes, NEW a \in Applies, NEW got \in Answers, Chunked(work[a]),
         got.ids \subseteq EntryIds(work[a].batch), a \in Busy,
         Resumes(a, got.how, got.ids),
         \A j \in jobs' : /\ j \in Jobs /\ j.left \subseteq DOMAIN j.asks
                          /\ j.by \notin Applies => j.taken
                          /\ j.by \in Applies => j \in jobs /\ j.by # a,
         IsFiniteSet(jobs'), JobOnly, source' = source, spoiled' = spoiled
  PROVE  /\ EditTypes'
         /\ work' = [work EXCEPT ![a] = work'[a]] /\ work'[a] \in Works
         /\ WorkIs(work'[a], work[a], "resumes", work[a].chunk, work[a].todo,
                   work[a].failed, work[a].applied, work[a].attempt, got)
<1> DEFINE u == [work[a] EXCEPT !.at = "resumes", !.got = got]
<1>1. TypeOK /\ work[a] \in Works
  BY BusyWorks DEF EditTypes
<1>2. got = [how |-> got.how, ids |-> got.ids]
  BY DEF Answers
<1>3. work' = [work EXCEPT ![a] = u]
  BY <1>1, <1>2 DEF Resumes, TypeOK
<1>4. /\ u \in Works
      /\ WorkIs(u, work[a], "resumes", work[a].chunk, work[a].todo, work[a].failed,
                work[a].applied, work[a].attempt, got)
  BY <1>1, Resumed
<1> HIDE DEF u
<1>5. Chunked(u)
  BY <1>4 DEF Chunked, WorkIs
<1>6. work'[a] = u /\ \A c \in Applies \ {a} : work'[c] = work[c]
  BY <1>1, <1>3 DEF TypeOK
<1>7. TypeOK'
  <2>1. work' \in [Applies -> Works \union {Free}] /\ jobs' \subseteq Jobs
    BY <1>1, <1>3, <1>4 DEF TypeOK
  <2> QED
    BY <1>1, <2>1 DEF TypeOK, JobOnly
<1>8. \A j \in jobs' : Asks(j)'
  BY <1>6, <1>7, NewAsks
<1>9. \A c \in Busy' : Chunked(work'[c])
  BY <1>5, <1>6 DEF EditTypes, Busy
<1> QED
  BY <1>3, <1>4, <1>6, <1>7, <1>8, <1>9 DEF EditTypes, Chunked

\* A reply in time, and the timer.
LEMMA ReplyHeard ==
  ASSUME EditTypes, NEW j \in jobs, NEW how \in {"reply", "error"},
         NEW ids \in SUBSET EntryIds(j.asks), Reply(j, how, ids)
  PROVE  /\ EditTypes' /\ j.by \in Busy /\ work[j.by].at = "waits"
         /\ work' = [work EXCEPT ![j.by] = work'[j.by]] /\ work'[j.by] \in Works
         /\ WorkIs(work'[j.by], work[j.by], "resumes", work[j.by].chunk, work[j.by].todo,
                   work[j.by].failed, work[j.by].applied, work[j.by].attempt,
                   [how |-> how, ids |-> ids])
<1> DEFINE a == j.by
           got == [how |-> how, ids |-> ids]
<1>1. TypeOK /\ Asks(j) /\ a \in Applies
  BY DEF EditTypes, Reply
<1>2. a \in Busy /\ work[a].at = "waits" /\ Chunked(work[a])
  BY <1>1 DEF Asks, Busy, EditTypes
<1>3. ids \subseteq EntryIds(work[a].batch)
  BY <1>1 DEF Asks, EntryIds
<1>4. EntryIds(work[a].batch) \subseteq 1 .. MaxSaves
  BY <1>2, BusyWorks, PartType
<1>5. got \in Answers /\ got.how = how /\ got.ids = ids
  BY <1>3, <1>4 DEF Answers
<1>6. jobs' = jobs \ {j} /\ Resumes(a, how, ids) /\ JobOnly /\ source' = source
      /\ spoiled' = spoiled
  BY DEF Reply
<1>7. \A k \in jobs' : /\ k \in Jobs /\ k.left \subseteq DOMAIN k.asks
                       /\ k.by \notin Applies => k.taken
                       /\ k.by \in Applies => k \in jobs /\ k.by # a
  BY <1>1, <1>6 DEF EditTypes, Asks, TypeOK
<1>8. IsFiniteSet(jobs')
  BY <1>6, FS_RemoveElement DEF EditTypes
<1> HIDE DEF a, got
<1>9. Resumes(a, got.how, got.ids) /\ got.ids \subseteq EntryIds(work[a].batch)
  BY <1>3, <1>5, <1>6
<1>10. /\ EditTypes'
       /\ work' = [work EXCEPT ![a] = work'[a]] /\ work'[a] \in Works
       /\ WorkIs(work'[a], work[a], "resumes", work[a].chunk, work[a].todo,
                 work[a].failed, work[a].applied, work[a].attempt, got)
  BY <1>1, <1>2, <1>5, <1>6, <1>7, <1>8, <1>9, ApplyHears
<1> QED
  BY <1>2, <1>10 DEF a, got

LEMMA TimeOutHeard ==
  ASSUME EditTypes, NEW a \in Applies, TimeOut(a)
  PROVE  /\ EditTypes' /\ a \in Busy /\ work[a].at = "waits"
         /\ work' = [work EXCEPT ![a] = work'[a]] /\ work'[a] \in Works
         /\ WorkIs(work'[a], work[a], "resumes", work[a].chunk, work[a].todo,
                   work[a].failed, work[a].applied, work[a].attempt, NoAnswer)
<1>1. TypeOK
  BY DEF EditTypes
<1>2. a \in Busy /\ work[a].at = "waits" /\ Chunked(work[a])
  BY DEF TimeOut, Live, EditTypes, Asks, Busy
<1>3. NoAnswer \in Answers /\ NoAnswer.how = "thrown" /\ NoAnswer.ids = {}
  BY DEF NoAnswer, Answers
<1>4. /\ jobs' = (jobs \ Live(a)) \union GivenUp(Live(a), "tombstone")
      /\ Resumes(a, "thrown", {}) /\ JobOnly /\ source' = source /\ spoiled' = spoiled
  BY DEF TimeOut
<1>5. Live(a) \in SUBSET Jobs /\ Live(a) \subseteq jobs /\ IsFiniteSet(Live(a))
      /\ IsFiniteSet(jobs \ Live(a)) /\ "tombstone" \in Owners
  BY <1>1, FS_Subset DEF EditTypes, TypeOK, Live, Owners
<1>6. /\ IsFiniteSet(GivenUp(Live(a), "tombstone"))
      /\ \A k \in GivenUp(Live(a), "tombstone") : k \in Jobs /\ k.by = "tombstone" /\ k.taken
      /\ \A k \in GivenUp(Live(a), "tombstone") : \E j \in Live(a) :
            k.asks = j.asks /\ k.left = j.left
  BY <1>5, GoneTypes
<1>7. IsFiniteSet(jobs')
  BY <1>4, <1>5, <1>6, FS_Union
<1>8. \A k \in jobs : k \in Jobs /\ k.left \subseteq DOMAIN k.asks /\ (k.by \notin Applies => k.taken)
  BY <1>1 DEF EditTypes, Asks, TypeOK
<1>9. ASSUME NEW k \in jobs'
      PROVE  /\ k \in Jobs /\ k.left \subseteq DOMAIN k.asks
             /\ k.by \notin Applies => k.taken
             /\ k.by \in Applies => k \in jobs /\ k.by # a
  <2>1. CASE k \in jobs \ Live(a)
    BY <1>8, <2>1 DEF Live
  <2>2. CASE k \in GivenUp(Live(a), "tombstone")
    BY <1>5, <1>6, <1>8, <2>2
  <2> QED
    BY <1>4, <2>1, <2>2
<1>10. Resumes(a, NoAnswer.how, NoAnswer.ids) /\ NoAnswer.ids \subseteq EntryIds(work[a].batch)
  BY <1>3, <1>4
<1> QED
  BY <1>2, <1>3, <1>4, <1>7, <1>9, <1>10, ApplyHears

\* A late reply, and a crash.
LEMMA ReplyLateTypes ==
  ASSUME EditTypes, NEW j \in jobs, ReplyLate(j)
  PROVE  EditTypes'
<1>1. TypeOK /\ j \in Jobs /\ work' = work /\ jobs' = jobs \ {j}
  BY DEF EditTypes, TypeOK, ReplyLate
<1>2. source' \in Contents
  BY <1>1, RestoredType DEF ReplyLate, TypeOK, Jobs
<1>3. spoiled' \subseteq Hazards
  BY <1>1 DEF ReplyLate, Spoil, TypeOK, Hazards
<1>4. TypeOK'
  BY <1>1, <1>2, <1>3 DEF TypeOK, ReplyLate, JobOnly
<1>5. IsFiniteSet(jobs')
  BY <1>1, FS_RemoveElement DEF EditTypes
<1>6. \A k \in jobs' : Asks(k)'
  BY <1>1 DEF EditTypes, Asks
<1>7. \A a \in Busy' : Chunked(work'[a])
  BY <1>1 DEF EditTypes, Busy
<1> QED
  BY <1>4, <1>5, <1>6, <1>7 DEF EditTypes, Chunked

LEMMA CrashTypes ==
  ASSUME EditTypes, Crash
  PROVE  EditTypes' /\ Busy' = {}
<1>1. TypeOK /\ jobs \in SUBSET Jobs /\ IsFiniteSet(jobs) /\ "gone" \in Owners
  BY DEF EditTypes, TypeOK, Owners
<1>2. work' = [a \in Applies |-> Free] /\ jobs' = GivenUp(jobs, "gone")
  BY Zenon DEF Crash
<1>3. /\ IsFiniteSet(jobs') /\ jobs' \subseteq Jobs
      /\ \A k \in jobs' : k.by = "gone" /\ k.taken
      /\ \A k \in jobs' : \E j \in jobs : k.asks = j.asks /\ k.left = j.left
  BY <1>1, <1>2, GoneTypes
<1>4. spoiled' \subseteq Hazards
  BY <1>1 DEF Crash, TypeOK, Hazards
<1>5. TypeOK'
  <2>1. work' \in [Applies -> Works \union {Free}]
    BY <1>2
  <2>2. crashes' \in 0 .. MaxCrashes
    BY <1>1 DEF TypeOK, Crash
  <2>3. up' = FALSE
    BY DEF Crash
  <2> QED
    BY <1>1, <1>3, <1>4, <2>1, <2>2, <2>3 DEF TypeOK, Crash
<1>6. \A j \in jobs : j.left \subseteq DOMAIN j.asks
  BY DEF EditTypes, Asks
<1>7. \A k \in jobs' : k.left \subseteq DOMAIN k.asks /\ k.by \notin Applies /\ k.taken
  BY <1>3, <1>6
<1>8. \A k \in jobs' : Asks(k)'
  BY <1>5, <1>7, NewAsks
<1>9. Busy' = {}
  BY <1>2 DEF Busy
<1> QED
  BY <1>3, <1>5, <1>8, <1>9 DEF EditTypes

-----------------------------------------------------------------------------
(* The inductive invariant.                                                 *)

Releasing == \E a \in Busy : work[a].at = "releases"

\* An agent that was given up on has written the text, and its late reply will have
\* that undone.
Tainted(r) == \E j \in jobs : j.by = "tombstone" /\ r \in DOMAIN j.asks \ j.left

\* What the user wants is staged, or has been reported.
Wished ==
  \A r \in Refs : IF buffer[r] = Nothing THEN wish[r] = settled[r]
                  ELSE buffer[r].text = wish[r] /\ buffer[r].id <= saves

\* An entry is about one page.
Entries ==
  \A r, q \in Refs :
    buffer[r] # Nothing /\ buffer[q].id = buffer[r].id => PageOf[q] = PageOf[r]

\* The transaction can undo the text, and something that waits for it will.
PendingOf(r) ==
  txn # NoTxn /\ buffer[r] # Nothing /\ PageOf[r] = txn.page /\ FileOf[r] \in txn.files

\* The transaction leads back to what was reported, and is about something that is
\* still staged, which is what has it undone.
WaysBack ==
  txn # NoTxn /\ ~Releasing =>
    /\ \A r \in Refs : FileOf[r] \in txn.files => txn.was[r] = settled[r]
    /\ \E r \in Refs : PageOf[r] = txn.page /\ buffer[r] # Nothing /\ buffer[r].id \in txn.ids

OneApply == \A a, c \in Busy : a = c

\* An Apply works under a transaction that covers its batch.
Under(w) ==
  /\ txn # NoTxn /\ txn.by = w.holds
  /\ w.at # "releases" => txn.page = w.page /\ FilesOf(DOMAIN w.batch) \subseteq txn.files

\* What an Apply has in hand is what is staged; it has changed nothing else, and a
\* repair takes all of the batch for applied.
InHand(w) ==
  w.at # "releases" =>
    /\ \A r \in DOMAIN w.batch : buffer[r] = w.batch[r] /\ PageOf[r] = w.page
    /\ \A r \in Refs \ DOMAIN w.batch : buffer[r].id \notin EntryIds(w.batch)
    /\ \A r \in Refs : source[r] # settled[r] => r \in DOMAIN w.batch \/ Tainted(r)
    /\ IF w.kind = "repair"
       THEN IF w.attempt = 0
            THEN /\ w.got.how = "reply" /\ w.got.ids = EntryIds(w.batch)
                 /\ w.failed = {} /\ w.todo = <<>> /\ w.at = "resumes"
            ELSE w.applied = EntryIds(w.batch)
       ELSE /\ \A r \in Refs : FileOf[r] \in FilesOf(DOMAIN w.batch) => w.was[r] = settled[r]
            /\ \A r \in DOMAIN w.batch : source[r] \in {settled[r], w.batch[r].text}

\* Where the source differs from what was reported, something will undo it.
Settles ==
  \A r \in Refs : source[r] # settled[r] => Tainted(r) \/ (~Releasing /\ PendingOf(r))

\* A transaction that no Apply works under waits for the user.
Told == up /\ Busy = {} /\ txn # NoTxn => txn.page \in asked

Dead == ~up => Busy = {}

Whole ==
  /\ Wished /\ Entries /\ WaysBack /\ OneApply /\ Settles /\ Told
  /\ \A a \in Busy : Under(work[a]) /\ InHand(work[a])

EInv == EditTypes /\ Dead /\ (spoiled = {} => Whole)

-----------------------------------------------------------------------------
\* A text is staged just when its entry has a number.
LEMMA BufferIds ==
  ASSUME TypeOK, NEW r \in Refs
  PROVE  /\ buffer[r] = Nothing => buffer[r].id = 0
         /\ buffer[r] # Nothing => buffer[r] \in Staged /\ buffer[r].id \in 1 .. MaxSaves
BY DEF TypeOK, Nothing, Staged

\* What a rollback leaves is what was reported, but for what a late reply will undo.
LEMMA BackAgain ==
  ASSUME TypeOK, Whole, ~Releasing, NEW p \in Pages \union {None}, Busy = {} \/ ~Concerns(p)
  PROVE  /\ ~Concerns(p) => RolledBack(p) = source /\ Forgotten(p) = txn
         /\ Concerns(p) => /\ Forgotten(p) = NoTxn
                           /\ \A r \in Refs : RolledBack(p)[r] # settled[r] => Tainted(r)
<1>1. ~Concerns(p) => RolledBack(p) = source /\ Forgotten(p) = txn
  BY DEF RolledBack, Forgotten
<1>2. ASSUME Concerns(p), NEW r \in Refs, RolledBack(p)[r] # settled[r]
      PROVE  Tainted(r)
  <2>1. txn # NoTxn /\ p \in {None, txn.page}
    BY <1>2 DEF Concerns
  <2>2. txn \in Txns /\ txn.ids \subseteq 1 .. MaxSaves
    BY <2>1 DEF TypeOK, Txns
  <2>3. PICK q \in Refs : PageOf[q] = txn.page /\ buffer[q] # Nothing /\ buffer[q].id \in txn.ids
    BY <2>1 DEF Whole, WaysBack
  <2>4. buffer[q].id \in PendingIds
    BY <2>2, <2>3 DEF PendingIds
  <2>5. RolledBack(p) = Restored(source, txn.was, txn.files)
    BY <1>2, <2>3, <2>4 DEF RolledBack
  <2>6. RolledBack(p)[r] = IF FileOf[r] \in txn.files THEN txn.was[r] ELSE source[r]
    BY <2>5 DEF Restored
  <2>7. FileOf[r] \notin txn.files /\ source[r] # settled[r]
    BY <1>2, <2>1, <2>6 DEF Whole, WaysBack
  <2> QED
    BY <2>7 DEF Whole, Settles, PendingOf
<1> QED
  BY <1>1, <1>2 DEF Forgotten

\* What is staged for a page, and whose entries those are.
LEMMA OfThePage ==
  ASSUME TypeOK, Entries, NEW p \in Pages
  PROVE  LET b == BatchOf(p)
         IN /\ \A r \in DOMAIN b : buffer[r] = b[r] /\ PageOf[r] = p
            /\ \A r \in Refs \ DOMAIN b : buffer[r].id \notin EntryIds(b)
<1> DEFINE b == BatchOf(p)
<1>1. /\ DOMAIN b = {r \in Refs : PageOf[r] = p /\ buffer[r] # Nothing}
      /\ \A r \in DOMAIN b : b[r] = buffer[r]
  BY BatchOfType
<1> HIDE DEF b
<1>2. ASSUME NEW r \in Refs \ DOMAIN b, buffer[r].id \in EntryIds(b)
      PROVE  FALSE
  <2>1. PICK q \in DOMAIN b : b[q].id = buffer[r].id
    BY <1>2 DEF EntryIds
  <2>2. q \in Refs /\ PageOf[q] = p /\ buffer[q] # Nothing /\ buffer[q].id = buffer[r].id
    BY <1>1, <2>1
  <2>3. PageOf[r] = p
    BY <2>2 DEF Entries
  <2>4. buffer[r] = Nothing
    BY <1>1, <2>3
  <2> QED
    BY <2>2, <2>4, BufferIds
<1> QED
  BY <1>1, <1>2 DEF b

\* Between microtasks nobody is about to release.
LEMMA CalmIsHolding ==
  ASSUME Calm
  PROVE  ~Releasing
BY DEF Calm, Releasing

\* The user's requests.
LEMMA ApplyWhole ==
  ASSUME EInv, spoiled = {}, NEW a \in Applies, NEW p \in Pages, Apply(a, p), spoiled' = {}
  PROVE  Whole'
<1> DEFINE b == BatchOf(p)
           src == RolledBack(p)
<1>1. TypeOK /\ Whole /\ ~Releasing /\ EditTypes
  BY CalmIsHolding DEF EInv, EditTypes, Apply, Serves
<1>2. /\ b \in Batches /\ EntryIds(b) \subseteq 1 .. MaxSaves
      /\ DOMAIN b = {r \in Refs : PageOf[r] = p /\ buffer[r] # Nothing}
      /\ \A r \in DOMAIN b : b[r] = buffer[r]
  BY <1>1, BatchOfType
<1>3. /\ buffer' = buffer /\ up' = up /\ asked' = asked /\ saves' = saves /\ wish' = wish
      /\ settled' = settled
  BY DEF Apply
<1>4. p # None
  BY DEF None
<1>5. CASE DOMAIN b = {}
  <2>1. ~Concerns(p)
    BY <1>1, <1>2, <1>4, <1>5 DEF Whole, WaysBack, Concerns
  <2>2. source' = source /\ txn' = txn /\ work' = work /\ jobs' = jobs
    BY <1>1, <1>5, <2>1, BackAgain DEF Apply
  <2> QED
    BY <1>1, <1>3, <2>2 DEF Whole, Wished, Entries, WaysBack, OneApply, Settles, Told, Under,
          InHand, Tainted, Releasing, PendingOf, Busy
<1>6. CASE DOMAIN b # {}
  <2>1. Busy = {} /\ Forgotten(p) = NoTxn /\ \A j \in jobs : ~Late(j)
    BY <1>6 DEF Apply
  <2>2. jobs = {}
    BY <1>1, <2>1 DEF EditTypes, Asks, Late, Busy
  <2>3. \A r \in Refs : src[r] = settled[r]
    <3>1. ~Concerns(p) => src = source /\ txn = NoTxn
      BY <2>1 DEF RolledBack, Forgotten
    <3>2. Concerns(p) => \A r \in Refs : src[r] # settled[r] => Tainted(r)
      BY <1>1, <2>1, BackAgain
    <3>3. \A r \in Refs : source[r] # settled[r] => Tainted(r) \/ txn # NoTxn
      BY <1>1 DEF Whole, Settles, PendingOf
    <3> HIDE DEF src
    <3> QED
      BY <2>2, <3>1, <3>2, <3>3 DEF Tainted
  <2>4. PICK cs : work' = [work EXCEPT ![a] =
                  [at |-> "waits", kind |-> IF Len(cs) = 1 THEN "whole" ELSE "chunks",
                   page |-> p, batch |-> b, was |-> src, holds |-> a,
                   chunk |-> Head(cs), todo |-> Tail(cs), failed |-> {},
                   applied |-> {}, attempt |-> 0, got |-> NoAnswer]]
    BY <1>6, Zenon DEF Apply
  <2>5. /\ work'[a] # Free /\ work'[a].at = "waits" /\ work'[a].kind # "repair"
        /\ work'[a].page = p
        /\ work'[a].batch = b /\ work'[a].was = src /\ work'[a].holds = a
    BY <1>1, <2>4 DEF TypeOK, Free
  <2>6. Busy' = {a}
    BY <1>1, <2>1, <2>4, <2>5 DEF TypeOK, Busy
  <2>7. txn' = [by |-> a, page |-> p, ids |-> EntryIds(b), files |-> FilesOf(DOMAIN b),
                was |-> src] /\ source' = src
    BY <1>6, Zenon DEF Apply
  <2>8. txn' # NoTxn
    <3>1. a # None
      BY DEF None
    <3> QED
      BY <2>7, <3>1 DEF NoTxn
  <2>9. /\ \A r \in DOMAIN b : buffer[r] = b[r] /\ PageOf[r] = p
        /\ \A r \in Refs \ DOMAIN b : buffer[r].id \notin EntryIds(b)
    BY <1>1, OfThePage DEF Whole
  <2> HIDE DEF b, src
  <2>10. Under(work[a])'
    BY <2>5, <2>7, <2>8 DEF Under
  <2>11. InHand(work[a])'
    BY <1>2, <1>3, <2>3, <2>5, <2>7, <2>9 DEF InHand
  <2>12. WaysBack'
    <3>1. PICK r \in DOMAIN b : TRUE
      BY <1>6
    <3>2. b[r].id \in EntryIds(b)
      BY DEF EntryIds
    <3> QED
      BY <1>2, <1>3, <2>3, <2>7, <3>1, <3>2 DEF WaysBack
  <2>13. Wished' /\ Entries'
    BY <1>1, <1>3 DEF Whole, Wished, Entries
  <2>14. OneApply' /\ Settles' /\ Told'
    BY <1>3, <2>3, <2>6, <2>7 DEF OneApply, Settles, Told
  <2> QED
    BY <2>6, <2>10, <2>11, <2>12, <2>13, <2>14 DEF Whole
<1> QED
  BY <1>5, <1>6

LEMMA KeepFixingWhole ==
  ASSUME EInv, spoiled = {}, NEW a \in Applies, NEW p \in Pages, KeepFixing(a, p), spoiled' = {}
  PROVE  Whole'
<1> DEFINE b == BatchOf(p)
<1>1. TypeOK /\ Whole /\ ~Releasing /\ EditTypes
  BY CalmIsHolding DEF EInv, EditTypes, KeepFixing, Serves
<1>2. /\ b \in Batches /\ EntryIds(b) \subseteq 1 .. MaxSaves
      /\ DOMAIN b = {r \in Refs : PageOf[r] = p /\ buffer[r] # Nothing}
      /\ \A r \in DOMAIN b : b[r] = buffer[r]
  BY <1>1, BatchOfType
<1>3. /\ buffer' = buffer /\ up' = up /\ saves' = saves /\ wish' = wish
      /\ settled' = settled /\ source' = source /\ txn' = txn /\ jobs' = jobs
      /\ asked' = asked \ {p} /\ txn # NoTxn
  BY DEF KeepFixing
<1>4. CASE DOMAIN b = {}
  <2>1. txn.page # p
    BY <1>1, <1>2, <1>3, <1>4 DEF Whole, WaysBack
  <2>2. work' = work
    BY <1>4 DEF KeepFixing
  <2> QED
    BY <1>1, <1>3, <2>1, <2>2 DEF Whole, Wished, Entries, WaysBack, OneApply, Settles, Told,
          Under, InHand, Tainted, Releasing, PendingOf, Busy
<1>5. CASE DOMAIN b # {}
  <2>1. Busy = {} /\ txn.page = p /\ FilesOf(DOMAIN b) \subseteq txn.files
    BY <1>5 DEF KeepFixing
  <2>2. work' = [work EXCEPT ![a] =
                      [at |-> "resumes", kind |-> "repair", page |-> p, batch |-> b,
                       was |-> source, holds |-> txn.by, chunk |-> DOMAIN b,
                       todo |-> <<>>, failed |-> {}, applied |-> {}, attempt |-> 0,
                       got |-> [how |-> "reply", ids |-> EntryIds(b)]]]
    BY <1>5, Zenon DEF KeepFixing
  <2>3. /\ work'[a] # Free /\ work'[a].at = "resumes" /\ work'[a].kind = "repair"
        /\ work'[a].page = p /\ work'[a].batch = b /\ work'[a].holds = txn.by
        /\ work'[a].attempt = 0 /\ work'[a].todo = <<>> /\ work'[a].failed = {}
        /\ work'[a].got.how = "reply" /\ work'[a].got.ids = EntryIds(b)
    BY <1>1, <2>2 DEF TypeOK, Free
  <2>4. Busy' = {a}
    BY <1>1, <2>1, <2>2, <2>3 DEF TypeOK, Busy
  <2>5. /\ \A r \in DOMAIN b : buffer[r] = b[r] /\ PageOf[r] = p
        /\ \A r \in Refs \ DOMAIN b : buffer[r].id \notin EntryIds(b)
    BY <1>1, OfThePage DEF Whole
  <2>6. \A r \in Refs : source[r] # settled[r] => r \in DOMAIN b \/ Tainted(r)
    BY <1>1, <1>2, <2>1 DEF Whole, Settles, PendingOf
  <2>7. ~Releasing' /\ \A r : Tainted(r)' <=> Tainted(r)
    BY <1>3, <2>3, <2>4 DEF Releasing, Tainted
  <2> HIDE DEF b
  <2>8. Under(work[a])'
    BY <1>3, <2>1, <2>3 DEF Under
  <2>9. InHand(work[a])'
    BY <1>2, <1>3, <2>3, <2>5, <2>6, <2>7 DEF InHand
  <2>10. Wished' /\ Entries' /\ WaysBack' /\ Settles'
    BY <1>1, <1>3, <2>7 DEF Whole, Wished, Entries, WaysBack, Settles, PendingOf
  <2>11. OneApply' /\ Told'
    BY <2>4 DEF OneApply, Told
  <2> QED
    BY <2>4, <2>8, <2>9, <2>10, <2>11 DEF Whole
<1> QED
  BY <1>4, <1>5

\* The transaction of a page is rolled back, or that of any.
LEMMA RolledWhole ==
  ASSUME EInv, Whole, ~Releasing, NEW p \in Pages \union {None}, Busy = {} \/ ~Concerns(p),
         source' = RolledBack(p), txn' = Forgotten(p),
         buffer' = buffer, saves' = saves, wish' = wish, settled' = settled, jobs' = jobs,
         work' = work, asked \ {p} \subseteq asked',
         up' = up \/ Concerns(p) \/ txn = NoTxn
  PROVE  Whole'
<1>1. TypeOK /\ ~Releasing' /\ Busy' = Busy /\ \A r : Tainted(r)' <=> Tainted(r)
  BY DEF EInv, EditTypes, Releasing, Busy, Tainted
<1>2. Wished' /\ Entries' /\ OneApply'
  BY <1>1 DEF Whole, Wished, Entries, OneApply
<1>3. CASE ~Concerns(p)
  <2>1. source' = source /\ txn' = txn
    BY <1>1, <1>3, BackAgain
  <2>2. txn # NoTxn => p # txn.page
    BY <1>3 DEF Concerns
  <2>3. WaysBack' /\ Settles' /\ Told'
    BY <1>1, <1>3, <2>1, <2>2 DEF Whole, WaysBack, Settles, PendingOf, Told
  <2>4. \A a \in Busy' : (Under(work[a]) /\ InHand(work[a]))'
    BY <1>1, <2>1 DEF Whole, Under, InHand
  <2> QED
    BY <1>2, <2>3, <2>4 DEF Whole
<1>4. CASE Concerns(p)
  <2>1. txn' = NoTxn /\ Busy' = {} /\ \A r \in Refs : source'[r] # settled[r] => Tainted(r)
    BY <1>1, <1>4, BackAgain
  <2>2. WaysBack' /\ Settles' /\ Told'
    BY <1>1, <2>1 DEF WaysBack, Settles, Told
  <2> QED
    BY <1>2, <2>1, <2>2 DEF Whole
<1> QED
  BY <1>3, <1>4

LEMMA RollBackWhole ==
  ASSUME EInv, spoiled = {}, NEW p \in Pages, RollBack(p), spoiled' = {}
  PROVE  Whole'
<1>1. Whole /\ ~Releasing
  BY CalmIsHolding DEF EInv, RollBack, Serves
<1>2. Busy = {} \/ ~Concerns(p)
  BY DEF RollBack, Spoil
<1> QED
  BY <1>1, <1>2, RolledWhole DEF RollBack

LEMMA RestartWhole ==
  ASSUME EInv, spoiled = {}, Restart
  PROVE  Whole'
<1>1. Whole /\ Busy = {} /\ ~Releasing
  BY DEF EInv, Restart, Dead, Releasing
<1>2. Concerns(None) \/ txn = NoTxn
  BY DEF Concerns
<1> QED
  BY <1>1, <1>2, RolledWhole DEF Restart

\* A discard that meets no Apply.
LEMMA DiscardWhole ==
  ASSUME EInv, spoiled = {}, NEW p \in Pages, Discard(p), spoiled' = {}
  PROVE  Whole'
<1> DEFINE hit == {a \in Busy : work[a].page = p}
           called == {j \in jobs : j.by \in hit}
<1>1. TypeOK /\ Whole /\ ~Releasing /\ Calm
  BY CalmIsHolding DEF EInv, EditTypes, Discard, Serves
<1>2. hit = {} /\ called = {}
  BY DEF Discard, Spoil
<1>3. txn' = Forgotten(p) /\ up' = up /\ saves' = saves /\ settled' = settled /\ asked' = asked
  BY DEF Discard
<1>4. work' = work
  BY <1>1, <1>2 DEF Discard, TypeOK
<1>5. jobs' = jobs
  BY <1>2 DEF Discard, GivenUp
<1>6. source' = RolledBack(p)
  <2>1. PICK order \in SetToSeqs(called) : source' = [r \in Refs |->
             LET at == {i \in DOMAIN order : FileOf[r] \in FilesOf(DOMAIN order[i].asks)}
             IN IF at = {} THEN RolledBack(p)[r] ELSE order[Max(at)].was[r]]
    BY Zenon DEF Discard
  <2>2. DOMAIN order = {}
    BY <1>2, FS_EmptySet DEF SetToSeqs
  <2>3. source' = [r \in Refs |-> RolledBack(p)[r]]
    BY <2>1, <2>2
  <2>4. RolledBack(p) \in Contents
    BY <1>1, RolledBackType
  <2> QED
    BY <2>3, <2>4 DEF Contents
<1>7. \A r \in Refs : /\ buffer'[r] = IF PageOf[r] = p THEN Nothing ELSE buffer[r]
                      /\ wish'[r] = IF PageOf[r] = p THEN settled[r] ELSE wish[r]
  BY DEF Discard, Drops
<1> HIDE DEF hit, called
<1>8. ~Releasing' /\ Busy' = Busy /\ \A r : Tainted(r)' <=> Tainted(r)
  BY <1>1, <1>4, <1>5 DEF Releasing, Busy, Tainted
<1>9. \A a \in Busy : work[a].page # p /\ work[a].at # "releases" /\ Under(work[a]) /\ InHand(work[a])
  BY <1>1, <1>2 DEF Whole, Releasing, hit
<1>10. Busy = {} \/ ~Concerns(p)
  BY <1>9 DEF Under, Concerns, None
<1>11. Wished'
  BY <1>1, <1>3, <1>7 DEF Whole, Wished
<1>12. Entries'
  <2>1. \A r \in Refs : buffer'[r] # Nothing => buffer'[r] = buffer[r] /\ buffer[r].id # 0
    BY <1>1, <1>7, BufferIds
  <2>2. \A r \in Refs : buffer'[r] = buffer[r] \/ buffer'[r].id = 0
    BY <1>7 DEF Nothing
  <2> QED
    BY <1>1, <2>1, <2>2 DEF Whole, Entries
<1>13. OneApply'
  BY <1>1, <1>8 DEF Whole, OneApply
<1>14. CASE ~Concerns(p)
  <2>1. source' = source /\ txn' = txn
    BY <1>1, <1>3, <1>6, <1>14, BackAgain
  <2>2. txn # NoTxn => p # txn.page
    BY <1>14 DEF Concerns
  <2>3. WaysBack' /\ Settles' /\ Told'
    BY <1>1, <1>3, <1>7, <1>8, <2>1, <2>2 DEF Whole, WaysBack, Settles, PendingOf, Told
  <2>4. ASSUME NEW a \in Busy'
        PROVE  (Under(work[a]) /\ InHand(work[a]))'
    <3>1. a \in Busy /\ work'[a] = work[a]
      BY <1>4, <1>8
    <3>2. Under(work[a]) /\ InHand(work[a]) /\ work[a].page # p /\ work[a].at # "releases"
      BY <1>9, <3>1
    <3>3. Under(work[a])'
      BY <2>1, <3>1, <3>2 DEF Under
    <3>4. EntryIds(work[a].batch) \subseteq 1 .. MaxSaves /\ DOMAIN work[a].batch \subseteq Refs
      BY <3>1, BusyWorks, PartType DEF EInv
    <3>5. \A r \in DOMAIN work[a].batch : buffer'[r] = work[a].batch[r] /\ PageOf[r] = work[a].page
      BY <1>7, <3>2, <3>4 DEF InHand
    <3>6. \A r \in Refs \ DOMAIN work[a].batch : buffer'[r].id \notin EntryIds(work[a].batch)
      BY <1>7, <3>2, <3>4 DEF InHand, Nothing
    <3>7. InHand(work[a])'
      BY <1>3, <1>8, <2>1, <3>1, <3>2, <3>5, <3>6 DEF InHand
    <3> QED
      BY <3>3, <3>7
  <2> QED
    BY <1>11, <1>12, <1>13, <2>3, <2>4 DEF Whole
<1>15. CASE Concerns(p)
  <2>1. txn' = NoTxn /\ Busy' = {} /\ \A r \in Refs : source'[r] # settled[r] => Tainted(r)
    BY <1>1, <1>3, <1>6, <1>8, <1>10, <1>15, BackAgain
  <2>2. WaysBack' /\ Settles' /\ Told'
    BY <1>3, <1>8, <2>1 DEF WaysBack, Settles, Told
  <2> QED
    BY <1>11, <1>12, <1>13, <2>1, <2>2 DEF Whole
<1> QED
  BY <1>14, <1>15

\* A save that touches no entry of an Apply.
LEMMA SaveWhole ==
  ASSUME EInv, spoiled = {}, NEW p \in Pages, NEW rs \in SUBSET {r \in Refs : PageOf[r] = p},
         Save(rs), spoiled' = {}
  PROVE  Whole'
<1>1. TypeOK /\ Whole /\ ~Releasing
  BY CalmIsHolding DEF EInv, EditTypes, Save, Serves
<1>2. /\ saves' = saves + 1 /\ saves \in Nat
      /\ source' = source /\ txn' = txn /\ work' = work /\ jobs' = jobs
      /\ up' = up /\ asked' = asked /\ settled' = settled
  BY <1>1 DEF Save, TypeOK
<1>3. \A r \in Refs :
         /\ r \notin rs => buffer'[r] = buffer[r] /\ wish'[r] = wish[r]
         /\ r \in rs => /\ buffer'[r].text = saves' /\ wish'[r] = saves' /\ buffer'[r] # Nothing
                        /\ buffer'[r].id = IF buffer[r] = Nothing THEN saves' ELSE buffer[r].id
  BY <1>2 DEF Save, Nothing
<1>4. ~Releasing' /\ Busy' = Busy /\ \A r : Tainted(r)' <=> Tainted(r)
  BY <1>1, <1>2 DEF Releasing, Busy, Tainted
<1>5. \A a \in Busy, r \in rs : buffer[r].id \notin EntryIds(work[a].batch)
  BY DEF Save, Spoil
<1>6. \A r \in Refs : buffer[r] # Nothing => buffer[r].id \in 1 .. saves /\ buffer'[r].id = buffer[r].id
  BY <1>1, <1>2, <1>3, BufferIds DEF Whole, Wished
<1>7. \A r \in Refs : buffer[r] = Nothing /\ r \in rs => buffer'[r].id = saves + 1
  BY <1>2, <1>3
<1>8. \A r \in Refs : buffer[r] = Nothing /\ r \notin rs => buffer'[r] = Nothing /\ buffer'[r].id = 0
  BY <1>3 DEF Nothing
<1>9. Wished'
  BY <1>1, <1>2, <1>3, <1>6, <1>7, <1>8 DEF Whole, Wished
<1>10. Entries'
  <2>1. ASSUME NEW r \in Refs, NEW q \in Refs, buffer'[r] # Nothing, buffer'[q].id = buffer'[r].id
        PROVE  PageOf[q] = PageOf[r]
    <3>1. CASE buffer[r] # Nothing
      <4>1. buffer[q].id = buffer[r].id
        BY <1>2, <1>6, <1>7, <1>8, <2>1, <3>1
      <4> QED
        BY <1>1, <3>1, <4>1 DEF Whole, Entries
    <3>2. CASE buffer[r] = Nothing
      <4>1. r \in rs /\ buffer'[r].id = saves + 1
        BY <1>7, <1>8, <2>1, <3>2
      <4>2. q \in rs
        BY <1>2, <1>6, <1>8, <2>1, <4>1
      <4> QED
        BY <4>1, <4>2
    <3> QED
      BY <3>1, <3>2
  <2> QED
    BY <2>1 DEF Entries
<1>11. OneApply' /\ Told'
  BY <1>1, <1>2, <1>4 DEF Whole, OneApply, Told
<1>12. \A r \in Refs : buffer[r] # Nothing => buffer'[r] # Nothing
  BY <1>3
<1>13. WaysBack' /\ Settles'
  BY <1>1, <1>2, <1>4, <1>6, <1>12 DEF Whole, WaysBack, Settles, PendingOf
<1>14. ASSUME NEW a \in Busy'
       PROVE  (Under(work[a]) /\ InHand(work[a]))'
  <2> DEFINE b == work[a].batch
  <2>1. a \in Busy /\ work'[a] = work[a] /\ work[a].at # "releases" /\ DOMAIN b \subseteq Refs
    BY <1>1, <1>2, <1>4, BusyWorks DEF EInv, Releasing
  <2>2. Under(work[a]) /\ InHand(work[a])
    BY <1>1, <2>1 DEF Whole
  <2>3. Under(work[a])'
    BY <1>2, <2>1, <2>2 DEF Under
  <2>4. \A r \in DOMAIN b : buffer[r] = b[r] /\ b[r].id \in EntryIds(b)
    BY <2>1, <2>2 DEF InHand, EntryIds
  <2>5. \A r \in DOMAIN b : buffer'[r] = b[r]
    BY <1>3, <1>5, <2>1, <2>4
  <2>6. EntryIds(b) \subseteq 1 .. saves
    <3>1. \A r \in DOMAIN b : b[r].id \in 1 .. MaxSaves
      <4>1. b \in Batches
        BY <2>1, BusyWorks DEF EInv
      <4>2. EntryIds(b) \subseteq 1 .. MaxSaves
        BY <4>1, PartType
      <4> QED
        BY <2>4, <4>2
    <3>2. \A r \in DOMAIN b : buffer[r] # Nothing
      BY <2>4, <3>1 DEF Nothing
    <3> QED
      BY <1>6, <2>1, <2>4, <3>2 DEF EntryIds
  <2>7. \A r \in Refs \ DOMAIN b : buffer'[r].id \notin EntryIds(b)
    <3>1. \A r \in Refs \ DOMAIN b : buffer[r].id \notin EntryIds(b)
      BY <2>1, <2>2 DEF InHand
    <3> HIDE DEF b
    <3> QED
      BY <1>2, <1>6, <1>7, <1>8, <2>6, <3>1
  <2>8. InHand(work[a])'
    BY <1>2, <1>4, <2>1, <2>2, <2>5, <2>7 DEF InHand
  <2> QED
    BY <2>3, <2>8
<1> QED
  BY <1>9, <1>10, <1>11, <1>13, <1>14 DEF Whole

-----------------------------------------------------------------------------
(* The agent, the timer and the crash.                                      *)

\* An Apply is only told something.
LEMMA ToldWhole ==
  ASSUME EInv, Whole, NEW a \in Busy, work[a].at = "waits",
         work' = [work EXCEPT ![a] = work'[a]], work'[a] \in Works, NEW got,
         WorkIs(work'[a], work[a], "resumes", work[a].chunk, work[a].todo, work[a].failed,
                work[a].applied, work[a].attempt, got),
         JobOnly, source' = source,
         \A r : Tainted(r) => Tainted(r)'
  PROVE  Whole'
<1> DEFINE u == work'[a]
<1>1. /\ buffer' = buffer /\ txn' = txn /\ up' = up /\ asked' = asked /\ saves' = saves
      /\ wish' = wish /\ settled' = settled
  BY DEF JobOnly
<1>2. a \in Applies /\ work[a] # Free /\ TypeOK
  BY DEF Busy, EInv, EditTypes
<1>3. \A c \in Applies : c # a => work'[c] = work[c]
  BY <1>2 DEF TypeOK
<1>4. u.at = "resumes" /\ u # Free
  BY DEF WorkIs, Free
<1>5. Busy' = Busy
  BY <1>2, <1>3, <1>4 DEF Busy
<1>6. Busy = {a}
  BY DEF Whole, OneApply
<1>7. ~Releasing /\ ~Releasing'
  BY <1>4, <1>5, <1>6 DEF Releasing
<1>8. Wished' /\ Entries' /\ OneApply' /\ Told'
  BY <1>1, <1>5 DEF Whole, Wished, Entries, OneApply, Told
<1>9. WaysBack' /\ Settles'
  BY <1>1, <1>7 DEF Whole, WaysBack, Settles, PendingOf
<1>10. Under(work[a])'
  BY <1>1 DEF Whole, Under, WorkIs
<1>11. InHand(work[a])'
  <2>1. InHand(work[a]) /\ work[a].at = "waits"
    BY DEF Whole
  <2>2. u.kind = work[a].kind /\ u.page = work[a].page /\ u.batch = work[a].batch
        /\ u.was = work[a].was /\ u.attempt = work[a].attempt /\ u.applied = work[a].applied
    BY DEF WorkIs
  <2>3. work[a].kind = "repair" => work[a].attempt # 0
    BY <2>1 DEF InHand
  <2> QED
    BY <1>1, <2>1, <2>2, <2>3 DEF InHand
<1> QED
  BY <1>5, <1>6, <1>8, <1>9, <1>10, <1>11 DEF Whole

\* An answer in time, or none.
LEMMA ReplyWhole ==
  ASSUME EInv, spoiled = {}, NEW j \in jobs, NEW how \in {"reply", "error"},
         NEW ids \in SUBSET EntryIds(j.asks), Reply(j, how, ids)
  PROVE  Whole'
<1>1. EditTypes /\ Whole
  BY DEF EInv
<1>2. /\ j.by \in Busy /\ work[j.by].at = "waits"
      /\ work' = [work EXCEPT ![j.by] = work'[j.by]] /\ work'[j.by] \in Works
      /\ WorkIs(work'[j.by], work[j.by], "resumes", work[j.by].chunk, work[j.by].todo,
                work[j.by].failed, work[j.by].applied, work[j.by].attempt,
                [how |-> how, ids |-> ids])
  BY <1>1, ReplyHeard
<1>3. \A r : Tainted(r) => Tainted(r)'
  BY DEF Tainted, Reply
<1>4. JobOnly /\ source' = source
  BY DEF Reply
<1> QED
  BY <1>1, <1>2, <1>3, <1>4, ToldWhole

LEMMA TimeOutWhole ==
  ASSUME EInv, spoiled = {}, NEW a \in Applies, TimeOut(a)
  PROVE  Whole'
<1>1. EditTypes /\ Whole
  BY DEF EInv
<1>2. /\ a \in Busy /\ work[a].at = "waits"
      /\ work' = [work EXCEPT ![a] = work'[a]] /\ work'[a] \in Works
      /\ WorkIs(work'[a], work[a], "resumes", work[a].chunk, work[a].todo,
                work[a].failed, work[a].applied, work[a].attempt, NoAnswer)
  BY <1>1, TimeOutHeard
<1>3. \A r : Tainted(r) => Tainted(r)'
  BY DEF Tainted, TimeOut, Live
<1>4. JobOnly /\ source' = source
  BY DEF TimeOut
<1> QED
  BY <1>1, <1>2, <1>3, <1>4, ToldWhole

\* Nothing changes but what the events say, and what they have tainted stays so.
LEMMA JobsWhole ==
  ASSUME Whole, JobOnly, work' = work, source' = source,
         \A r : Tainted(r) => Tainted(r)'
  PROVE  Whole'
<1>1. /\ buffer' = buffer /\ txn' = txn /\ up' = up /\ asked' = asked /\ saves' = saves
      /\ wish' = wish /\ settled' = settled
  BY DEF JobOnly
<1>2. Busy' = Busy /\ Releasing' = Releasing
  BY DEF Busy, Releasing
<1>3. Wished' /\ Entries' /\ OneApply' /\ Told' /\ WaysBack' /\ Settles'
  BY <1>1, <1>2 DEF Whole, Wished, Entries, OneApply, Told, WaysBack, Settles, PendingOf
<1>4. \A a \in Busy' : (Under(work[a]) /\ InHand(work[a]))'
  BY <1>1, <1>2 DEF Whole, Under, InHand
<1> QED
  BY <1>3, <1>4 DEF Whole

\* An agent takes an event, and writes what it asks for.
LEMMA TakeWhole ==
  ASSUME EInv, spoiled = {}, NEW j \in jobs, Take(j)
  PROVE  Whole'
<1> DEFINE k == [j EXCEPT !.taken = TRUE]
<1>1. j \in Jobs
  BY DEF EInv, EditTypes, TypeOK
<1>2. k.by = j.by /\ k.asks = j.asks /\ k.left = j.left
  BY <1>1 DEF Jobs
<1>3. jobs' = (jobs \ {j}) \union {k}
  BY DEF Take
<1> HIDE DEF k
<1>4. \A r : Tainted(r) => Tainted(r)'
  BY <1>2, <1>3 DEF Tainted
<1> QED
  BY <1>4, JobsWhole DEF Take, EInv

LEMMA WriteWhole ==
  ASSUME EInv, spoiled = {}, NEW j \in jobs, NEW q \in j.left, Write(j, q), spoiled' = {}
  PROVE  Whole'
<1> DEFINE k == [j EXCEPT !.left = @ \ {q}]
<1>1. EditTypes /\ TypeOK /\ Whole /\ ~Releasing /\ j \in Jobs /\ Asks(j)
  BY CalmIsHolding DEF EInv, EditTypes, TypeOK, Write
<1>2. k.by = j.by /\ k.asks = j.asks /\ k.left = j.left \ {q}
  BY <1>1 DEF Jobs
<1>3. jobs' = (jobs \ {j}) \union {k} /\ work' = work
  BY DEF Write
<1>4. /\ buffer' = buffer /\ txn' = txn /\ up' = up /\ asked' = asked /\ saves' = saves
      /\ wish' = wish /\ settled' = settled
  BY DEF JobOnly, Write
<1>5. q \in DOMAIN j.asks /\ q \in Refs
  BY <1>1, PartType DEF Asks, Jobs
<1>6. source'[q] = j.asks[q].text /\ \A r \in Refs : r # q => source'[r] = source[r]
  BY <1>1, <1>5 DEF Write, TypeOK, Contents
<1> HIDE DEF k
<1>7. \A r : Tainted(r) => Tainted(r)'
  BY <1>2, <1>3 DEF Tainted
<1>8. Busy' = Busy /\ ~Releasing' /\ Releasing' = Releasing
  BY <1>1, <1>3 DEF Busy, Releasing
<1>9. Wished' /\ Entries' /\ OneApply' /\ Told' /\ WaysBack'
  BY <1>1, <1>4, <1>8 DEF Whole, Wished, Entries, OneApply, Told, WaysBack
<1>10. CASE j.by \in Applies
  <2> DEFINE w == work[j.by]
  <2>1. j.by \in Busy /\ w.at = "waits" /\ q \in DOMAIN w.batch /\ j.asks[q] = w.batch[q]
    BY <1>1, <1>5, <1>10 DEF Asks, Busy
  <2>2. Under(w) /\ InHand(w) /\ Busy = {j.by}
    BY <1>1, <2>1 DEF Whole, OneApply
  <2>3. w.batch \in Batches /\ DOMAIN w.batch \subseteq Refs
    BY <1>1, <2>1, BusyWorks
  <2>4. buffer[q] = w.batch[q] /\ PageOf[q] = txn.page /\ FileOf[q] \in txn.files /\ txn # NoTxn
    BY <2>1, <2>2, <2>3, FilesType DEF Under, InHand
  <2>5. w.batch[q] \in Staged
    BY <2>1, <2>3 DEF Batches
  <2>6. buffer[q] # Nothing
    BY <2>4, <2>5 DEF Staged, Nothing
  <2>7. PendingOf(q)
    BY <2>4, <2>6 DEF PendingOf
  <2>8. Settles'
    BY <1>1, <1>4, <1>6, <1>7, <1>8, <2>7 DEF Whole, Settles, PendingOf
  <2>9. Under(w)'
    BY <1>3, <1>4, <2>2 DEF Under
  <2>10. \A r \in DOMAIN w.batch : source'[r] = source[r] \/ source'[r] = w.batch[r].text
    BY <1>6, <2>1, <2>3
  <2>11. \A r \in Refs \ DOMAIN w.batch : source'[r] = source[r]
    BY <1>6, <2>1
  <2>12. InHand(w)'
    BY <1>3, <1>4, <1>7, <2>2, <2>10, <2>11 DEF InHand
  <2> QED
    BY <1>8, <1>9, <2>2, <2>8, <2>9, <2>12 DEF Whole
<1>11. CASE j.by \notin Applies
  <2>1. j.by = "tombstone" /\ Busy = {}
    BY <1>1, <1>11 DEF Write, Spoil, Late, Jobs, Owners
  <2>2. Tainted(q)'
    BY <1>2, <1>3, <1>5, <2>1 DEF Tainted
  <2>3. Settles'
    BY <1>1, <1>4, <1>6, <1>7, <1>8, <2>2 DEF Whole, Settles, PendingOf
  <2> QED
    BY <1>8, <1>9, <2>1, <2>3 DEF Whole
<1> QED
  BY <1>10, <1>11

\* The late reply brings back what was reported.
LEMMA ReplyLateWhole ==
  ASSUME EInv, spoiled = {}, NEW j \in jobs, ReplyLate(j), spoiled' = {}
  PROVE  Whole'
<1> DEFINE files == FilesOf(DOMAIN j.asks)
<1>1. EditTypes /\ TypeOK /\ Whole /\ ~Releasing /\ j \in Jobs /\ DOMAIN j.asks \subseteq Refs
  BY CalmIsHolding, PartType DEF EInv, EditTypes, TypeOK, ReplyLate, Serves, Jobs
<1>2. /\ jobs' = jobs \ {j} /\ work' = work /\ JobOnly
      /\ source' = IF j.by = "tombstone" THEN Restored(source, j.was, files) ELSE source
  BY DEF ReplyLate
<1>3. Busy = {} /\ \A r \in Refs : FileOf[r] \in files => j.was[r] = settled[r]
  BY DEF ReplyLate, Spoil
<1>4. CASE j.by # "tombstone"
  <2>1. source' = source /\ \A r : Tainted(r) => Tainted(r)'
    BY <1>2, <1>4 DEF Tainted
  <2> QED
    BY <1>1, <1>2, <2>1, JobsWhole
<1>5. CASE j.by = "tombstone"
  <2>1. \A r \in Refs : source'[r] = IF FileOf[r] \in files THEN j.was[r] ELSE source[r]
    BY <1>2, <1>5 DEF Restored
  <2>2. /\ buffer' = buffer /\ txn' = txn /\ up' = up /\ asked' = asked /\ saves' = saves
        /\ wish' = wish /\ settled' = settled
    BY <1>2 DEF JobOnly
  <2>3. Busy' = {} /\ ~Releasing' /\ Releasing' = Releasing
    BY <1>1, <1>2, <1>3 DEF Busy, Releasing
  <2>4. ASSUME NEW r \in Refs, source'[r] # settled'[r]
        PROVE  Tainted(r)' \/ PendingOf(r)'
    <3>1. FileOf[r] \notin files /\ source[r] # settled[r]
      BY <1>3, <2>1, <2>2, <2>4
    <3>2. r \notin DOMAIN j.asks
      BY <1>1, <3>1, FilesType
    <3>3. Tainted(r) => Tainted(r)'
      BY <1>2, <3>2 DEF Tainted
    <3> QED
      BY <1>1, <2>2, <3>1, <3>3 DEF Whole, Settles, PendingOf
  <2>5. Settles'
    BY <2>3, <2>4 DEF Settles
  <2>6. Wished' /\ Entries' /\ OneApply' /\ Told' /\ WaysBack'
    BY <1>1, <1>3, <2>2, <2>3 DEF Whole, Wished, Entries, OneApply, Told, WaysBack
  <2> QED
    BY <2>3, <2>5, <2>6 DEF Whole
<1> QED
  BY <1>4, <1>5

\* A crash that comes before anything is reported, with no late agent at work.
LEMMA CrashWhole ==
  ASSUME EInv, spoiled = {}, Crash, spoiled' = {}
  PROVE  Whole'
<1>1. EditTypes /\ Whole
  BY DEF EInv
<1>2. Busy' = {}
  BY <1>1, CrashTypes
<1>3. ~Releasing /\ \A j \in jobs : ~(Late(j) /\ j.left # DOMAIN j.asks)
  BY DEF Crash, Releasing
<1>4. \A r : ~Tainted(r)
  <2>1. ASSUME NEW j \in jobs, j.by = "tombstone", NEW r \in DOMAIN j.asks \ j.left
        PROVE  FALSE
    <3>1. Asks(j) /\ j.by \notin Applies
      BY <1>1, <2>1 DEF EditTypes
    <3>2. Late(j) /\ j.left # DOMAIN j.asks
      BY <2>1, <3>1 DEF Late, Asks
    <3> QED
      BY <1>3, <3>2
  <2> QED
    BY <2>1 DEF Tainted
<1>5. /\ buffer' = buffer /\ txn' = txn /\ ~up' /\ asked' = asked /\ saves' = saves
      /\ wish' = wish /\ settled' = settled /\ source' = source
  BY DEF Crash
<1>6. ~Releasing'
  BY <1>2 DEF Releasing
<1>7. Wished' /\ Entries' /\ OneApply' /\ Told' /\ WaysBack' /\ Settles'
  BY <1>1, <1>2, <1>3, <1>4, <1>5, <1>6
     DEF Whole, Wished, Entries, OneApply, Told, WaysBack, Settles, PendingOf
<1> QED
  BY <1>2, <1>7 DEF Whole

-----------------------------------------------------------------------------
(* The Apply.                                                               *)

\* The Apply that runs is the only one.
LEMMA Alone ==
  ASSUME EInv, Whole, NEW a \in Busy
  PROVE  /\ Busy = {a} /\ a \in Applies /\ TypeOK /\ EditTypes
         /\ work[a] \in Works /\ Chunked(work[a]) /\ work[a].batch \in Batches
         /\ DOMAIN work[a].batch \subseteq Refs
         /\ Under(work[a]) /\ InHand(work[a])
         /\ Releasing <=> work[a].at = "releases"
<1>1. Busy = {a}
  BY DEF Whole, OneApply
<1>2. EditTypes /\ TypeOK
  BY DEF EInv, EditTypes
<1>3. Releasing <=> work[a].at = "releases"
  BY <1>1 DEF Releasing
<1> QED
  BY <1>1, <1>2, <1>3, BusyWorks DEF Whole

\* The only Apply becomes u.
LEMMA Becoming ==
  ASSUME EInv, Whole, NEW a \in Busy, NEW u, work' = [work EXCEPT ![a] = u], u # Free
  PROVE  Busy' = {a} /\ work'[a] = u /\ (Releasing' <=> u.at = "releases")
<1>1. TypeOK /\ Busy = {a} /\ a \in Applies
  BY Alone
<1>2. work'[a] = u /\ \A c \in Applies \ {a} : work'[c] = work[c]
  BY <1>1 DEF TypeOK
<1>3. Busy' = {a}
  BY <1>1, <1>2 DEF Busy
<1> QED
  BY <1>2, <1>3 DEF Releasing

\* The only Apply comes to its end.
LEMMA Finishing ==
  ASSUME EInv, Whole, NEW a \in Busy, work' = [work EXCEPT ![a] = Free]
  PROVE  Busy' = {} /\ ~Releasing'
<1>1. TypeOK /\ Busy = {a} /\ a \in Applies
  BY Alone
<1>2. work'[a] = Free /\ \A c \in Applies \ {a} : work'[c] = work[c]
  BY <1>1 DEF TypeOK
<1>3. Busy' = {}
  BY <1>1, <1>2 DEF Busy
<1> QED
  BY <1>3 DEF Releasing

\* The transaction goes with its Apply.
LEMMA ReleaseWhole ==
  ASSUME EInv, spoiled = {}, NEW a \in Applies, Release(a)
  PROVE  Whole'
<1>1. a \in Busy /\ Whole
  BY DEF EInv, Release, Busy, Free
<1>2. Busy = {a} /\ Under(work[a]) /\ Releasing
  BY <1>1, Alone DEF Release
<1>3. txn' = NoTxn
  BY <1>2 DEF Release, Under
<1>4. Busy' = {} /\ ~Releasing'
  BY <1>1, Finishing DEF Release, Goes
<1>5. /\ buffer' = buffer /\ source' = source /\ jobs' = jobs /\ wish' = wish /\ saves' = saves
      /\ settled' = settled
  BY DEF Release
<1>6. Wished' /\ Entries' /\ OneApply' /\ Told' /\ WaysBack' /\ Settles'
  BY <1>1, <1>2, <1>3, <1>4, <1>5
     DEF Whole, Wished, Entries, OneApply, Told, WaysBack, Settles, Tainted
<1> QED
  BY <1>4, <1>6 DEF Whole

\* Another chunk is handed out, and the batch stays what it was.
LEMMA NextChunkWhole ==
  ASSUME EInv, spoiled = {}, NEW a \in Applies, NextChunk(a)
  PROVE  Whole'
<1> DEFINE w == work[a]
           u == [w EXCEPT !.at = "waits", !.chunk = Head(w.todo), !.todo = Tail(w.todo),
                          !.failed = FailedIn(w), !.got = NoAnswer]
<1>1. a \in Busy /\ Whole /\ w.at = "resumes" /\ w.attempt = 0 /\ w.todo # <<>>
  BY DEF EInv, NextChunk, Busy
<1>2. /\ Busy = {a} /\ w \in Works /\ Chunked(w) /\ w.batch \in Batches
      /\ Under(w) /\ InHand(w) /\ ~Releasing
  BY <1>1, Alone
<1>3. /\ u.kind = w.kind /\ u.page = w.page /\ u.batch = w.batch /\ u.was = w.was
      /\ u.holds = w.holds /\ u.at = "waits" /\ u.attempt = w.attempt
  <2>1. /\ Head(w.todo) \in SUBSET DOMAIN w.batch
        /\ Tail(w.todo) \in Seq(SUBSET DOMAIN w.batch)
    BY <1>1, <1>2, TodoType DEF Chunked
  <2>2. Head(w.todo) \in SUBSET Refs /\ Tail(w.todo) \in Seq(SUBSET Refs)
    BY <1>2, <2>1, TodoType, PartType
  <2>3. FailedIn(w) \in SUBSET (1 .. MaxSaves)
    BY <1>2, OutcomeType
  <2>4. WorkIs(u, w, "waits", Head(w.todo), Tail(w.todo), FailedIn(w), w.applied, w.attempt,
               NoAnswer)
    BY <1>2, <2>2, <2>3, Continues
  <2> HIDE DEF u, w
  <2> QED
    BY <2>4 DEF WorkIs
<1>4. w.kind # "repair"
  BY <1>1, <1>2 DEF InHand
<1> HIDE DEF u
<1>5. work' = [work EXCEPT ![a] = u] /\ u # Free
  BY <1>3 DEF NextChunk, Goes, u, Free
<1>6. Busy' = {a} /\ work'[a] = u /\ ~Releasing'
  BY <1>1, <1>3, <1>5, Becoming
<1>7. /\ buffer' = buffer /\ source' = source /\ txn' = txn /\ up' = up /\ asked' = asked
      /\ saves' = saves /\ wish' = wish /\ settled' = settled
  BY DEF NextChunk, OnlyWork
<1>8. \A r : Tainted(r) => Tainted(r)'
  BY DEF NextChunk, Tainted
<1>9. Wished' /\ Entries' /\ OneApply' /\ Told' /\ WaysBack' /\ Settles'
  BY <1>1, <1>2, <1>6, <1>7, <1>8
     DEF Whole, Wished, Entries, OneApply, Told, WaysBack, Settles, PendingOf
<1>10. Under(work[a])'
  BY <1>2, <1>3, <1>6, <1>7, <1>1 DEF Under
<1>11. InHand(work[a])'
  BY <1>1, <1>2, <1>3, <1>4, <1>6, <1>7, <1>8 DEF InHand
<1> QED
  BY <1>6, <1>9, <1>10, <1>11 DEF Whole

\* A failed Apply brings back what was reported.
LEMMA UndoWhole ==
  ASSUME EInv, spoiled = {}, NEW a \in Busy, work[a].at = "resumes", work[a].kind # "repair",
         Undo(a, work[a]), OnlyWork
  PROVE  Whole'
<1> DEFINE w == work[a]
           u == [w EXCEPT !.at = "releases"]
<1>1. Whole
  BY DEF EInv
<1>2. /\ Busy = {a} /\ w \in Works /\ Under(w) /\ InHand(w) /\ ~Releasing
      /\ DOMAIN w.batch \subseteq Refs /\ TypeOK
  BY <1>1, Alone
<1>3. u.at = "releases" /\ u.holds = w.holds
  BY <1>2, Releases DEF WorkIs
<1> HIDE DEF u
<1>4. work' = [work EXCEPT ![a] = u] /\ u # Free
  BY <1>3 DEF Undo, Goes, u, Free
<1>5. Busy' = {a} /\ work'[a] = u /\ Releasing'
  BY <1>1, <1>3, <1>4, Becoming
<1>6. /\ buffer' = buffer /\ txn' = txn /\ up' = up /\ asked' = asked /\ jobs' = jobs
      /\ saves' = saves /\ wish' = wish /\ settled' = settled
  BY DEF Undo, OnlyWork
<1>7. ASSUME NEW r \in Refs, source'[r] # settled[r]
      PROVE  Tainted(r)
  <2>1. source'[r] = IF FileOf[r] \in FilesOf(DOMAIN w.batch) THEN w.was[r] ELSE source[r]
    BY DEF Undo, Restored
  <2>2. FileOf[r] \notin FilesOf(DOMAIN w.batch) /\ source[r] # settled[r]
    BY <1>2, <1>7, <2>1 DEF InHand
  <2>3. r \notin DOMAIN w.batch
    BY <1>2, <2>2, FilesType
  <2> QED
    BY <1>2, <2>2, <2>3 DEF InHand
<1>8. Wished' /\ Entries' /\ OneApply' /\ Told' /\ WaysBack'
  BY <1>1, <1>5, <1>6 DEF Whole, Wished, Entries, OneApply, Told, WaysBack
<1>9. Settles'
  BY <1>6, <1>7 DEF Settles, Tainted
<1>10. (Under(work[a]) /\ InHand(work[a]))'
  BY <1>2, <1>3, <1>5, <1>6 DEF Under, InHand
<1> QED
  BY <1>5, <1>8, <1>9, <1>10 DEF Whole

\* What is reported is in the source, and nothing of the rest of the batch is.
LEMMA ClearWhole ==
  ASSUME EInv, spoiled = {}, NEW a \in Busy, work[a].at = "resumes",
         NEW ids \in SUBSET EntryIds(work[a].batch),
         Verified(work[a], ids), ~Leaked(work[a], ids),
         work[a].kind = "repair" => ids = EntryIds(work[a].batch),
         Clear(a, work[a], ids), OnlyWork
  PROVE  Whole'
<1> DEFINE w == work[a]
           u == [w EXCEPT !.at = "releases"]
<1>1. Whole
  BY DEF EInv
<1>2. /\ Busy = {a} /\ w \in Works /\ Under(w) /\ InHand(w) /\ ~Releasing
      /\ w.batch \in Batches /\ DOMAIN w.batch \subseteq Refs /\ TypeOK
  BY <1>1, Alone
<1>3. u.at = "releases" /\ u.holds = w.holds
  BY <1>2, Releases DEF WorkIs
<1> HIDE DEF u
<1>4. work' = [work EXCEPT ![a] = u] /\ u # Free
  BY <1>3 DEF Clear, Goes, u, Free
<1>5. Busy' = {a} /\ work'[a] = u /\ Releasing'
  BY <1>1, <1>3, <1>4, Becoming
<1>6. /\ source' = source /\ txn' = txn /\ up' = up /\ asked' = asked /\ jobs' = jobs
      /\ saves' = saves /\ wish' = wish
  BY DEF Clear, OnlyWork
<1>7. \A r \in Refs :
         /\ buffer'[r] = IF buffer[r].id \in ids THEN Nothing ELSE buffer[r]
         /\ settled'[r] = IF r \in OfEntries(w.batch, ids) THEN w.batch[r].text ELSE settled[r]
  BY DEF Clear
<1>8. EntryIds(w.batch) \subseteq 1 .. MaxSaves
  BY <1>2, PartType
<1>9. \A r \in Refs : r \in OfEntries(w.batch, ids) <=> buffer[r].id \in ids
  <2>1. \A r \in DOMAIN w.batch : buffer[r] = w.batch[r]
    BY <1>2 DEF InHand
  <2>2. \A r \in Refs \ DOMAIN w.batch : buffer[r].id \notin ids
    BY <1>2 DEF InHand
  <2> QED
    BY <1>2, <2>1, <2>2 DEF OfEntries
<1>10. \A r \in OfEntries(w.batch, ids) : r \in DOMAIN w.batch /\ buffer[r] = w.batch[r]
  BY <1>2 DEF OfEntries, InHand
<1>11. \A r \in Refs : buffer[r].id \in ids => buffer[r] # Nothing
  BY <1>8 DEF Nothing
<1>12. Wished'
  <2>1. ASSUME NEW r \in Refs
        PROVE  IF buffer'[r] = Nothing THEN wish[r] = settled'[r]
               ELSE buffer'[r].text = wish[r] /\ buffer'[r].id <= saves
    <3>1. CASE buffer[r].id \in ids
      <4>1. buffer'[r] = Nothing /\ settled'[r] = buffer[r].text
        BY <1>7, <1>9, <1>10, <3>1
      <4> QED
        BY <1>1, <1>11, <3>1, <4>1 DEF Whole, Wished
    <3>2. CASE buffer[r].id \notin ids
      <4>1. buffer'[r] = buffer[r] /\ settled'[r] = settled[r]
        BY <1>7, <1>9, <3>2
      <4> QED
        BY <1>1, <4>1 DEF Whole, Wished
    <3> QED
      BY <3>1, <3>2
  <2> QED
    BY <1>6, <2>1 DEF Wished
<1>13. Entries'
  <2>1. \A r \in Refs : buffer'[r] # Nothing => buffer'[r] = buffer[r] /\ buffer[r].id # 0
    BY <1>2, <1>7, BufferIds
  <2>2. \A r \in Refs : buffer'[r] = buffer[r] \/ buffer'[r].id = 0
    BY <1>7 DEF Nothing
  <2> QED
    BY <1>1, <2>1, <2>2 DEF Whole, Entries
<1>14. ASSUME NEW r \in Refs, source[r] # settled'[r]
       PROVE  Tainted(r)
  <2>1. r \notin OfEntries(w.batch, ids)
    BY <1>7, <1>14 DEF Verified
  <2>2. source[r] # settled[r]
    BY <1>7, <1>14, <2>1
  <2>3. CASE r \notin DOMAIN w.batch
    BY <1>2, <2>2, <2>3 DEF InHand
  <2>4. CASE r \in DOMAIN w.batch
    <3>1. w.kind # "repair"
      BY <2>1, <2>4 DEF OfEntries, EntryIds
    <3>2. source[r] = w.batch[r].text /\ w.was[r] = settled[r]
      BY <1>2, <2>2, <2>4, <3>1, FilesType DEF InHand
    <3> QED
      BY <2>1, <2>2, <2>4, <3>2 DEF Leaked
  <2> QED
    BY <2>3, <2>4
<1>15. OneApply' /\ Told' /\ WaysBack'
  BY <1>5 DEF OneApply, Told, WaysBack
<1>16. Settles'
  BY <1>6, <1>14 DEF Settles, Tainted
<1>17. (Under(work[a]) /\ InHand(work[a]))'
  BY <1>2, <1>3, <1>5, <1>6 DEF Under, InHand
<1> QED
  BY <1>5, <1>12, <1>13, <1>15, <1>16, <1>17 DEF Whole

\* Another round, or the user decides.
LEMMA RepairWhole ==
  ASSUME EInv, spoiled = {}, NEW a \in Busy, work[a].at = "resumes",
         NEW ids \in SUBSET EntryIds(work[a].batch),
         work[a].kind = "repair" => ids = EntryIds(work[a].batch),
         Repair(a, work[a], ids), OnlyWork
  PROVE  Whole'
<1> DEFINE w == work[a]
           u == [w EXCEPT !.at = "waits", !.attempt = @ + 1, !.applied = ids]
<1>1. Whole
  BY DEF EInv
<1>2. /\ Busy = {a} /\ w \in Works /\ Under(w) /\ InHand(w) /\ ~Releasing
      /\ w.batch \in Batches /\ DOMAIN w.batch \subseteq Refs /\ TypeOK
  BY <1>1, Alone
<1>3. /\ buffer' = buffer /\ source' = source /\ txn' = txn /\ up' = up
      /\ saves' = saves /\ wish' = wish /\ settled' = settled
  BY DEF Repair, OnlyWork
<1>4. \A r : Tainted(r) => Tainted(r)'
  BY DEF Repair, Tainted
<1>5. Wished' /\ Entries'
  BY <1>1, <1>3 DEF Whole, Wished, Entries
<1>6. CASE w.attempt < MaxAttempts
  <2>1. /\ u.kind = w.kind /\ u.page = w.page /\ u.batch = w.batch /\ u.was = w.was
        /\ u.holds = w.holds /\ u.at = "waits" /\ u.attempt = w.attempt + 1 /\ u.applied = ids
    <3>1. ids \in SUBSET (1 .. MaxSaves)
      BY <1>2, PartType
    <3>2. WorkIs(u, w, "waits", w.chunk, w.todo, w.failed, ids, w.attempt + 1, w.got)
      BY <1>2, <1>6, <3>1, Rounds
    <3> HIDE DEF u, w
    <3> QED
      BY <3>2 DEF WorkIs
  <2> HIDE DEF u
  <2>2. work' = [work EXCEPT ![a] = u] /\ u # Free /\ asked' = asked
    BY <1>6, <2>1 DEF Repair, Goes, u, Free
  <2>3. Busy' = {a} /\ work'[a] = u /\ ~Releasing'
    BY <1>1, <2>1, <2>2, Becoming
  <2>4. OneApply' /\ Told' /\ WaysBack' /\ Settles'
    BY <1>1, <1>2, <1>3, <1>4, <2>3
       DEF Whole, OneApply, Told, WaysBack, Settles, PendingOf
  <2>5. Under(work[a])'
    BY <1>2, <1>3, <2>1, <2>3 DEF Under
  <2>6. InHand(work[a])'
    <3>1. w.attempt + 1 # 0
      BY <1>2 DEF Works
    <3>2. ids = EntryIds(w.batch) \/ w.kind # "repair"
      OBVIOUS
    <3> HIDE DEF w
    <3>3. w.at # "releases" /\ work'[a] = u
      BY <2>3 DEF w
    <3> QED
      BY <1>2, <1>3, <1>4, <2>1, <3>1, <3>2, <3>3 DEF InHand
  <2> QED
    BY <1>5, <2>3, <2>4, <2>5, <2>6 DEF Whole
<1>7. CASE ~(w.attempt < MaxAttempts)
  <2>1. work' = [work EXCEPT ![a] = Free] /\ jobs' = jobs /\ asked' = asked \union {w.page}
    BY <1>7, Zenon DEF Repair, Goes
  <2>2. Busy' = {} /\ ~Releasing'
    BY <1>1, <2>1, Finishing
  <2>3. OneApply' /\ WaysBack' /\ Settles'
    BY <1>1, <1>2, <1>3, <1>4, <2>2 DEF Whole, OneApply, WaysBack, Settles, PendingOf
  <2>4. Told'
    BY <1>2, <1>3, <2>1 DEF Told, Under
  <2> QED
    BY <1>5, <2>2, <2>3, <2>4 DEF Whole
<1> QED
  BY <1>6, <1>7

\* After the chunks, and after a repair.
LEMMA ConcludeWhole ==
  ASSUME EInv, spoiled = {}, NEW a \in Applies, Conclude(a)
  PROVE  Whole'
<1> DEFINE w == work[a]
           ids == AppliedIn(w)
           failed == IF w.kind = "chunks" THEN ids = {} ELSE w.got.how # "reply"
<1>1. a \in Busy /\ w.at = "resumes" /\ OnlyWork /\ Whole /\ w.attempt = 0
  BY DEF Conclude, Busy, EInv
<1>2. w \in Works /\ Chunked(w) /\ InHand(w) /\ w.batch \in Batches
  BY <1>1, Alone
<1>3. ids \in SUBSET EntryIds(w.batch)
  BY <1>2, OutcomeType
<1>4. w.kind = "repair" => ids = EntryIds(w.batch) /\ ~failed /\ ~Leaked(w, ids)
  <2> SUFFICES ASSUME w.kind = "repair"
               PROVE  ids = EntryIds(w.batch) /\ ~failed /\ ~Leaked(w, ids)
    OBVIOUS
  <2>1. w.got.how = "reply" /\ w.got.ids = EntryIds(w.batch) /\ w.failed = {}
    BY <1>1, <1>2 DEF InHand
  <2>2. EntryIds(Part(w.batch, w.chunk)) \subseteq EntryIds(w.batch)
    BY <1>2, PartType DEF Chunked
  <2>3. FailedIn(w) = {}
    BY <2>1, <2>2 DEF FailedIn
  <2>4. ids = EntryIds(w.batch)
    BY <2>3 DEF AppliedIn
  <2>5. OfEntries(w.batch, ids) = DOMAIN w.batch
    BY <2>4 DEF OfEntries, EntryIds
  <2> QED
    BY <2>1, <2>4, <2>5 DEF Leaked
<1> HIDE DEF w, ids, failed
<1>5. \/ (failed \/ w.kind # "repair" \/ Leaked(w, ids)) /\ Undo(a, w)
      \/ /\ ~failed /\ ~Leaked(w, ids)
         /\ IF Verified(w, ids)
            THEN Checked(a, w, ids, IF ids = {} THEN EntryIds(w.batch) ELSE ids)
            ELSE Repair(a, w, ids)
  BY Zenon DEF Conclude, w, ids, failed
<1>6. CASE w.kind # "repair" /\ Undo(a, w)
  BY <1>1, <1>6, UndoWhole DEF w
<1>7. CASE ~Leaked(w, ids) /\ Verified(w, ids) /\ Clear(a, w, ids)
  BY <1>1, <1>3, <1>4, <1>7, ClearWhole DEF w
<1>8. ASSUME NEW rs \in {ids, EntryIds(w.batch)}, Repair(a, w, rs)
      PROVE  Whole'
  BY <1>1, <1>3, <1>4, <1>8, RepairWhole DEF w
<1>9. \/ w.kind # "repair" /\ Undo(a, w)
      \/ ~Leaked(w, ids) /\ Verified(w, ids) /\ Clear(a, w, ids)
      \/ Repair(a, w, ids) \/ Repair(a, w, EntryIds(w.batch))
  <2>1. CASE Undo(a, w) /\ (failed \/ w.kind # "repair" \/ Leaked(w, ids))
    BY <1>4, <2>1
  <2>2. CASE ~Leaked(w, ids) /\ Verified(w, ids)
             /\ Checked(a, w, ids, IF ids = {} THEN EntryIds(w.batch) ELSE ids)
    <3>1. CASE ids = {}
      BY <2>2, <3>1, Zenon DEF Checked
    <3>2. CASE ids # {}
      BY <2>2, <3>2, Zenon DEF Checked
    <3> QED
      BY <3>1, <3>2
  <2> QED
    BY <1>5, <2>1, <2>2
<1> QED
  BY <1>6, <1>7, <1>8, <1>9

LEMMA RepairedWhole ==
  ASSUME EInv, spoiled = {}, NEW a \in Applies, Repaired(a), spoiled' = {}
  PROVE  Whole'
<1> DEFINE w == work[a]
           ids == w.applied \union w.got.ids
<1>1. a \in Busy /\ w.at = "resumes" /\ OnlyWork /\ Whole /\ w.attempt > 0
  BY DEF Repaired, Busy, EInv
<1>2. w \in Works /\ Chunked(w) /\ InHand(w)
  BY <1>1, Alone
<1>3. ids \in SUBSET EntryIds(w.batch)
  BY <1>2 DEF Chunked
<1>4. w.kind = "repair" => ids = EntryIds(w.batch)
  BY <1>1, <1>2, <1>3 DEF InHand
<1>5. ~Leaked(w, ids)
  BY DEF Repaired, Spoil
<1>6. (Verified(w, ids) /\ Clear(a, w, ids)) \/ Repair(a, w, ids)
  BY Zenon DEF Repaired, Checked
<1> QED
  BY <1>1, <1>3, <1>4, <1>5, <1>6, ClearWhole, RepairWhole

-----------------------------------------------------------------------------
(* The specification.                                                       *)

\* What each step leaves, as one formula.
EditStep == EditTypes' /\ (~up' => Busy' = {}) /\ (spoiled' = {} => spoiled = {} /\ Whole')

\* Every step, actor by actor.
LEMMA UserStep ==
  ASSUME EInv, NEW p \in Pages, User(p)
  PROVE  EditStep
<1>1. EditTypes
  BY DEF EInv
<1>2. CASE \E rs \in SUBSET {r \in Refs : PageOf[r] = p} \ {{}} : Save(rs)
  <2>1. PICK rs \in SUBSET {r \in Refs : PageOf[r] = p} : Save(rs)
    BY <1>2
  <2>2. up' /\ (spoiled' = {} => spoiled = {})
    BY <2>1 DEF Save, Serves, Spoil
  <2>3. EditTypes'
    BY <1>1, <2>1, SaveTypes
  <2> QED
    BY <2>1, <2>2, <2>3, SaveWhole DEF EditStep
<1>3. ASSUME NEW a \in Applies, Apply(a, p)
      PROVE  EditStep
  <2>1. up' /\ (spoiled' = {} => spoiled = {})
    BY <1>3 DEF Apply, Serves
  <2>2. EditTypes'
    BY <1>1, <1>3, ApplyTypes
  <2> QED
    BY <1>3, <2>1, <2>2, ApplyWhole DEF EditStep
<1>4. ASSUME NEW a \in Applies, KeepFixing(a, p)
      PROVE  EditStep
  <2>1. up' /\ (spoiled' = {} => spoiled = {})
    BY <1>4 DEF KeepFixing, Serves
  <2>2. EditTypes'
    BY <1>1, <1>4, KeepFixingTypes
  <2> QED
    BY <1>4, <2>1, <2>2, KeepFixingWhole DEF EditStep
<1>5. CASE RollBack(p)
  <2>1. up' /\ (spoiled' = {} => spoiled = {})
    BY <1>5 DEF RollBack, Serves, Spoil
  <2>2. EditTypes'
    BY <1>1, <1>5, RollBackTypes
  <2> QED
    BY <1>5, <2>1, <2>2, RollBackWhole DEF EditStep
<1>6. CASE Discard(p)
  <2>1. up' /\ (spoiled' = {} => spoiled = {})
    BY <1>6 DEF Discard, Serves, Spoil
  <2>2. EditTypes'
    BY <1>1, <1>6, DiscardTypes
  <2> QED
    BY <1>6, <2>1, <2>2, DiscardWhole DEF EditStep
<1> QED
  BY <1>2, <1>3, <1>4, <1>5, <1>6 DEF User

LEMMA ApplyStep ==
  ASSUME EInv, NEW a \in Applies, Goes_on(a) \/ TimeOut(a)
  PROVE  EditStep
<1>1. EditTypes
  BY DEF EInv
<1>2. CASE NextChunk(a)
  <2>1. up' /\ spoiled' = spoiled
    BY <1>2 DEF NextChunk, OnlyWork
  <2>2. EditTypes'
    BY <1>1, <1>2, NextChunkTypes
  <2> QED
    BY <1>2, <2>1, <2>2, NextChunkWhole DEF EditStep
<1>3. CASE Conclude(a)
  <2>1. up' /\ spoiled' = spoiled
    BY <1>3 DEF Conclude, OnlyWork
  <2>2. EditTypes'
    BY <1>1, <1>3, ConcludeTypes
  <2> QED
    BY <1>3, <2>1, <2>2, ConcludeWhole DEF EditStep
<1>4. CASE Repaired(a)
  <2>1. up' /\ (spoiled' = {} => spoiled = {})
    BY <1>4 DEF Repaired, OnlyWork, Spoil
  <2>2. EditTypes'
    BY <1>1, <1>4, RepairedTypes
  <2> QED
    BY <1>4, <2>1, <2>2, RepairedWhole DEF EditStep
<1>5. CASE Release(a)
  <2>1. up' /\ spoiled' = spoiled
    BY <1>5 DEF Release
  <2>2. EditTypes'
    BY <1>1, <1>5, ReleaseTypes
  <2> QED
    BY <1>5, <2>1, <2>2, ReleaseWhole DEF EditStep
<1>6. CASE TimeOut(a)
  <2>1. up' /\ spoiled' = spoiled
    BY <1>6 DEF TimeOut, JobOnly, Serves
  <2>2. EditTypes'
    BY <1>1, <1>6, TimeOutHeard
  <2> QED
    BY <1>6, <2>1, <2>2, TimeOutWhole DEF EditStep
<1> QED
  BY <1>2, <1>3, <1>4, <1>5, <1>6 DEF Goes_on

LEMMA AgentStep ==
  ASSUME EInv, NEW j \in jobs, Agent(j)
  PROVE  EditStep
<1>1. EditTypes
  BY DEF EInv
<1>2. CASE Take(j)
  <2>1. up' /\ spoiled' = spoiled
    BY <1>2 DEF Take, JobOnly, Serves
  <2>2. EditTypes'
    BY <1>1, <1>2, TakeTypes
  <2> QED
    BY <1>2, <2>1, <2>2, TakeWhole DEF EditStep
<1>3. ASSUME NEW r \in j.left, Write(j, r)
      PROVE  EditStep
  <2>1. up' = up /\ Busy' = Busy /\ (spoiled' = {} => spoiled = {})
    BY <1>3 DEF Write, JobOnly, Spoil, Busy
  <2>2. EditTypes'
    BY <1>1, <1>3, WriteTypes
  <2>3. ~up' => Busy' = {}
    BY <2>1 DEF EInv, Dead
  <2> QED
    BY <1>3, <2>1, <2>2, <2>3, WriteWhole DEF EditStep
<1>4. ASSUME NEW how \in {"reply", "error"}, NEW ids \in SUBSET EntryIds(j.asks),
             Reply(j, how, ids)
      PROVE  EditStep
  <2>1. up' /\ spoiled' = spoiled
    BY <1>4 DEF Reply, JobOnly, Serves
  <2>2. EditTypes'
    BY <1>1, <1>4, ReplyHeard
  <2> QED
    BY <1>4, <2>1, <2>2, ReplyWhole DEF EditStep
<1>5. CASE ReplyLate(j)
  <2>1. up' /\ (spoiled' = {} => spoiled = {})
    BY <1>5 DEF ReplyLate, JobOnly, Serves, Spoil
  <2>2. EditTypes'
    BY <1>1, <1>5, ReplyLateTypes
  <2> QED
    BY <1>5, <2>1, <2>2, ReplyLateWhole DEF EditStep
<1>6. CASE \E ids \in SUBSET EntryIds(j.asks) : Reply(j, "reply", ids)
  BY <1>4, <1>6
<1>7. CASE Reply(j, "error", {})
  <2>1. {} \in SUBSET EntryIds(j.asks)
    OBVIOUS
  <2> QED
    BY <1>4, <1>7, <2>1
<1> QED
  BY <1>2, <1>3, <1>5, <1>6, <1>7 DEF Agent

LEMMA ServerStep ==
  ASSUME EInv, Crash \/ Restart
  PROVE  EditStep
<1>1. EditTypes
  BY DEF EInv
<1>2. CASE Crash
  <2>1. spoiled' = {} => spoiled = {}
    BY <1>2 DEF Crash
  <2>2. EditTypes' /\ Busy' = {}
    BY <1>1, <1>2, CrashTypes
  <2> QED
    BY <1>2, <2>1, <2>2, CrashWhole DEF EditStep
<1>3. CASE Restart
  <2>1. up' /\ spoiled' = spoiled
    BY <1>3 DEF Restart
  <2>2. EditTypes'
    BY <1>1, <1>3, RestartTypes
  <2> QED
    BY <1>3, <2>1, <2>2, RestartWhole DEF EditStep
<1> QED
  BY <1>2, <1>3

\* Where it begins, and that it goes on.
LEMMA EditStart ==
  ASSUME Init
  PROVE  EInv
<1>1. Busy = {} /\ jobs = {} /\ txn = NoTxn /\ up /\ saves = 0
  BY DEF Init, Busy
<1>2. TypeOK
  <2>1. /\ buffer \in [Refs -> Staged \union {Nothing}] /\ source \in Contents
        /\ wish \in Contents /\ settled \in Contents
    BY DEF Init, Contents, Texts
  <2>2. work \in [Applies -> Works \union {Free}] /\ jobs \subseteq Jobs /\ asked \subseteq Pages
        /\ spoiled \subseteq Hazards /\ up \in BOOLEAN
    BY DEF Init
  <2>3. saves \in 0 .. MaxSaves /\ started \in 0 .. MaxApplies /\ crashes \in 0 .. MaxCrashes
    BY DEF Init
  <2> QED
    BY <1>1, <2>1, <2>2, <2>3 DEF TypeOK
<1>3. EditTypes /\ Dead
  BY <1>1, <1>2, FS_EmptySet DEF EditTypes, Dead
<1>4. \A r \in Refs : buffer[r] = Nothing /\ wish[r] = settled[r] /\ source[r] = settled[r]
  BY DEF Init
<1>5. Whole
  BY <1>1, <1>4 DEF Whole, Wished, Entries, WaysBack, OneApply, Settles, Told
<1> QED
  BY <1>3, <1>5 DEF EInv

LEMMA EditStepped ==
  ASSUME EInv, [Next]_vars
  PROVE  EInv'
<1>1. CASE Next
  <2>1. EditStep
    BY <1>1, UserStep, ApplyStep, AgentStep, ServerStep DEF Next
  <2> QED
    BY <2>1 DEF EditStep, EInv, Dead
<1>2. CASE UNCHANGED vars
  <2>1. TypeOK'
    BY <1>2 DEF EInv, EditTypes, TypeOK, vars
  <2>2. EditTypes' /\ Dead'
    BY <1>2, <2>1, SameTypes DEF EInv, Dead, Busy, vars
  <2>3. spoiled' = {} => Whole'
    BY <1>2 DEF EInv, Whole, Wished, Entries, WaysBack, OneApply, Settles, Told, Under, InHand,
          Tainted, Releasing, PendingOf, Busy, vars
  <2> QED
    BY <2>2, <2>3 DEF EInv
<1> QED
  BY <1>1, <1>2

\* Of every run, dead servers, other Applies and late agents included.
THEOREM EditsInvariant == Spec => []EInv
<1>1. Init => EInv
  BY EditStart
<1>2. EInv /\ [Next]_vars => EInv'
  BY EditStepped
<1> QED
  BY <1>1, <1>2, PTL DEF Spec

\* The variables keep their types.
THEOREM EditsTypeCorrect == Spec => []TypeOK
<1>1. EInv => TypeOK
  BY DEF EInv, EditTypes
<1> QED
  BY <1>1, EditsInvariant, PTL

\* A text that is tainted is so by an agent that was given up on.
LEMMA Untainted ==
  ASSUME EInv, Undisturbed
  PROVE  Whole /\ \A r : ~Tainted(r)
<1>1. ASSUME NEW j \in jobs, j.by = "tombstone"
      PROVE  FALSE
  <2>1. Asks(j) /\ j.by \notin Applies
    BY <1>1 DEF EInv, EditTypes
  <2> QED
    BY <2>1 DEF Asks, Undisturbed, Late
<1> QED
  BY <1>1 DEF EInv, Undisturbed, Tainted

\* What the user saved last is staged or in the source (clearAppliedEntries,
\* failWithRollback, rollbackManualApplyTransaction, rollbackTimedOutReply).
THEOREM SavedIsKept == Spec => []EditKept
<1>1. ASSUME EInv
      PROVE  EditKept
  <2> SUFFICES ASSUME Undisturbed, Calm, NEW r \in Refs
               PROVE  IF buffer[r] # Nothing THEN buffer[r].text = wish[r] ELSE source[r] = wish[r]
    BY DEF EditKept
  <2>1. Whole /\ ~Tainted(r)
    BY <1>1, Untainted
  <2>2. buffer[r] = Nothing => source[r] = settled[r]
    BY <2>1 DEF Whole, Settles, PendingOf
  <2> QED
    BY <2>1, <2>2 DEF Whole, Wished
<1> QED
  BY <1>1, EditsInvariant, PTL

\* At rest the source is what was reported.
LEMMA RestSettled ==
  ASSUME EInv, AtRest
  PROVE  source = settled
<1>1. Whole /\ (\A r : ~Tainted(r)) /\ TypeOK /\ up /\ Busy = {}
  BY Untainted DEF AtRest, EInv, EditTypes
<1>2. txn = NoTxn
  BY <1>1 DEF AtRest, Whole, Told
<1>3. \A r \in Refs : source[r] = settled[r]
  BY <1>1, <1>2 DEF Whole, Settles, PendingOf
<1>4. source \in [Refs -> Texts] /\ settled \in [Refs -> Texts]
  BY <1>1 DEF TypeOK, Contents
<1> QED
  BY <1>3, <1>4

\* With no Apply running, and none waiting for the user, the source is what was
\* reported as applied.
THEOREM SourceAsReported == Spec => []SourceSettled
<1>1. EInv => SourceSettled
  BY RestSettled DEF SourceSettled
<1> QED
  BY <1>1, EditsInvariant, PTL

-----------------------------------------------------------------------------
(* Seen from the outside, an Apply is a report.                             *)

\* A saved text goes into its entry, or into a new one, whose number no entry has.
LEMMA SaveSeen ==
  ASSUME EInv, spoiled = {}, NEW p \in Pages,
         NEW rs \in SUBSET {r \in Refs : PageOf[r] = p}, Save(rs)
  PROVE  Staging!Save(rs, saves')
<1>1. saves' = saves + 1 /\ saves \in Nat
  BY DEF Save, EInv, EditTypes, TypeOK
<1>2. ASSUME NEW r \in Refs
      PROVE  buffer[r].id # saves'
  <2>1. CASE buffer[r] = Nothing
    BY <1>1, <2>1 DEF Nothing
  <2>2. CASE buffer[r] # Nothing
    <3>1. buffer[r].id <= saves /\ buffer[r].id \in 1 .. MaxSaves
      BY <1>2, <2>2, BufferIds DEF EInv, EditTypes, Whole, Wished
    <3> QED
      BY <1>1, <3>1
  <2> QED
    BY <2>1, <2>2
<1>3. buffer' = [r \in Refs |->
        IF r \notin rs THEN buffer[r]
        ELSE [id |-> IF buffer[r] = Nothing THEN saves' ELSE buffer[r].id, text |-> saves']]
  BY DEF Save
<1>4. settled' = settled
  BY DEF Save
<1> QED
  BY <1>2, <1>3, <1>4 DEF Staging!Save

\* What is discarded are whole entries: an entry is about one page.
LEMMA DiscardSeen ==
  ASSUME EInv, spoiled = {}, NEW p \in Pages, Drops(p), settled' = settled
  PROVE  \E ids \in SUBSET (1 .. MaxSaves) : Staging!Discard(ids)
<1> DEFINE ids == {buffer[r].id : r \in {q \in Refs : PageOf[q] = p /\ buffer[q] # Nothing}}
<1>1. TypeOK /\ Entries
  BY DEF EInv, EditTypes, Whole
<1>2. ids \in SUBSET (1 .. MaxSaves)
  BY <1>1, BufferIds
<1>3. ASSUME NEW r \in Refs
      PROVE  buffer'[r] = IF buffer[r].id \in ids THEN Nothing ELSE buffer[r]
  <2>1. buffer'[r] = IF PageOf[r] = p THEN Nothing ELSE buffer[r]
    BY DEF Drops
  <2>2. CASE buffer[r] = Nothing
    BY <2>1, <2>2
  <2>3. CASE buffer[r] # Nothing
    <3>1. buffer[r].id \in ids <=> PageOf[r] = p
      BY <1>1, <2>3 DEF Entries
    <3> QED
      BY <2>1, <3>1
  <2> QED
    BY <2>2, <2>3
<1>4. buffer' = [r \in Refs |-> IF buffer[r].id \in ids THEN Nothing ELSE buffer[r]]
  BY <1>3 DEF Drops
<1>5. Staging!Discard(ids)
  BY <1>4 DEF Staging!Discard, Staging!Without
<1> QED
  BY <1>2, <1>5

\* What is reported are whole entries, and the texts they hold: the batch of the one
\* Apply is what is staged.
LEMMA ClearSeen ==
  ASSUME EInv, spoiled = {}, NEW a \in Busy,
         NEW ids \in SUBSET EntryIds(work[a].batch), work[a].at = "resumes",
         Clear(a, work[a], ids)
  PROVE  ids \in SUBSET (1 .. MaxSaves) /\ Staging!Report(ids)
<1> DEFINE w == work[a]
<1>1. InHand(w) /\ w.batch \in Batches /\ DOMAIN w.batch \subseteq Refs
  BY Alone DEF EInv
<1>2. EntryIds(w.batch) \subseteq 1 .. MaxSaves
  BY <1>1, PartType
<1>3. \A r \in DOMAIN w.batch : buffer[r] = w.batch[r]
  BY <1>1 DEF InHand
<1>4. \A r \in Refs \ DOMAIN w.batch : buffer[r].id \notin ids
  BY <1>1 DEF InHand
<1>5. ASSUME NEW r \in Refs
      PROVE  settled'[r] = IF buffer[r].id \in ids THEN buffer[r].text ELSE settled[r]
  <2>1. settled'[r] = IF r \in OfEntries(w.batch, ids) THEN w.batch[r].text ELSE settled[r]
    BY DEF Clear
  <2>2. r \in OfEntries(w.batch, ids) <=> buffer[r].id \in ids
    BY <1>3, <1>4 DEF OfEntries
  <2>3. r \in OfEntries(w.batch, ids) => w.batch[r] = buffer[r]
    BY <1>3 DEF OfEntries
  <2> QED
    BY <2>1, <2>2, <2>3
<1>6. settled' = [r \in Refs |-> IF buffer[r].id \in ids THEN buffer[r].text ELSE settled[r]]
  BY <1>5 DEF Clear
<1>7. buffer' = [r \in Refs |-> IF buffer[r].id \in ids THEN Nothing ELSE buffer[r]]
  BY DEF Clear
<1>8. Staging!Report(ids)
  BY <1>6, <1>7 DEF Staging!Report, Staging!Without
<1> QED
  BY <1>2, <1>8

\* After the agent an Apply undoes what was written, drops entries, or goes on.
LEMMA Outcomes ==
  ASSUME EInv, spoiled = {}, NEW a \in Applies, Conclude(a) \/ Repaired(a)
  PROVE  /\ a \in Busy /\ work[a].at = "resumes"
         /\ \/ buffer' = buffer /\ settled' = settled
            \/ \E ids \in SUBSET EntryIds(work[a].batch) : Clear(a, work[a], ids)
<1> DEFINE w == work[a]
<1>1. a \in Busy /\ w.at = "resumes" /\ Whole
  BY DEF Conclude, Repaired, Busy, EInv
<1>2. w \in Works /\ Chunked(w) /\ w.batch \in Batches
  BY <1>1, Alone
<1>3. CASE Conclude(a)
  <2>1. AppliedIn(w) \in SUBSET EntryIds(w.batch)
    BY <1>2, OutcomeType
  <2>2. \/ Undo(a, w)
        \/ Clear(a, w, AppliedIn(w))
        \/ \E ids : Repair(a, w, ids)
    BY <1>3, Zenon DEF Conclude, Checked
  <2> QED
    BY <1>1, <2>1, <2>2 DEF Undo, Repair
<1>4. CASE Repaired(a)
  <2>1. w.applied \union w.got.ids \in SUBSET EntryIds(w.batch)
    BY <1>2 DEF Chunked
  <2>2. \/ Clear(a, w, w.applied \union w.got.ids)
        \/ \E ids : Repair(a, w, ids)
    BY <1>4, Zenon DEF Repaired, Checked
  <2> QED
    BY <1>1, <2>1, <2>2 DEF Repair
<1> QED
  BY <1>3, <1>4

\* Every step is a save, a report, a discard, or work.
LEMMA SeenStep ==
  ASSUME EInv, SourceSettled', [Next]_vars, spoiled' = {}
  PROVE  Staging!Kept
<1> DEFINE Seen == \/ \E rs \in SUBSET Refs, n \in 1 .. MaxSaves : Staging!Save(rs, n)
                   \/ \E ids \in SUBSET (1 .. MaxSaves) : Staging!Report(ids) \/ Staging!Discard(ids)
                   \/ Staging!Work
<1> SUFFICES Seen
  <2>1. spoiled = {}
    BY UserStep, ApplyStep, AgentStep, ServerStep DEF Next, EditStep, vars
  <2>2. Staging!Settled'
    BY DEF Staging!Settled, SourceSettled
  <2> QED
    BY <2>1, <2>2 DEF Staging!Kept
<1>1. CASE UNCHANGED vars
  BY <1>1 DEF vars, Staging!Work
<1> SUFFICES ASSUME Next  PROVE Seen
  BY <1>1
<1>2. spoiled = {}
  BY UserStep, ApplyStep, AgentStep, ServerStep DEF Next, EditStep
<1>3. buffer' = buffer /\ settled' = settled => Seen
  BY DEF Staging!Work
<1>4. ASSUME NEW p \in Pages, User(p)
      PROVE  Seen
  <2>1. ASSUME NEW rs \in SUBSET {r \in Refs : PageOf[r] = p}, Save(rs)
        PROVE  Seen
    <3>1. saves' \in 1 .. MaxSaves
      BY <2>1 DEF Save, EInv, EditTypes, TypeOK
    <3>2. Staging!Save(rs, saves')
      BY <1>2, <2>1, SaveSeen
    <3> QED
      BY <3>1, <3>2
  <2>2. CASE Discard(p)
    <3>1. Drops(p) /\ settled' = settled
      BY <2>2 DEF Discard
    <3> QED
      BY <1>2, <3>1, DiscardSeen
  <2>3. CASE RollBack(p) \/ \E a \in Applies : Apply(a, p) \/ KeepFixing(a, p)
    BY <1>3, <2>3 DEF RollBack, Apply, KeepFixing
  <2> QED
    BY <1>4, <2>1, <2>2, <2>3 DEF User
<1>5. ASSUME NEW a \in Applies, Goes_on(a) \/ TimeOut(a)
      PROVE  Seen
  <2>1. CASE NextChunk(a) \/ Release(a) \/ TimeOut(a)
    BY <1>3, <2>1 DEF NextChunk, Release, TimeOut, JobOnly
  <2>2. CASE Conclude(a) \/ Repaired(a)
    <3>1. ASSUME NEW ids \in SUBSET EntryIds(work[a].batch), Clear(a, work[a], ids)
          PROVE  Seen
      <4>1. ids \in SUBSET (1 .. MaxSaves) /\ Staging!Report(ids)
        BY <1>2, <2>2, <3>1, Outcomes, ClearSeen
      <4> QED
        BY <4>1
    <3> QED
      BY <1>2, <1>3, <2>2, <3>1, Outcomes
  <2> QED
    BY <1>5, <2>1, <2>2 DEF Goes_on
<1>6. ASSUME NEW j \in jobs, Agent(j)
      PROVE  Seen
  BY <1>3, <1>6 DEF Agent, Take, Write, Reply, ReplyLate, JobOnly
<1>7. CASE Crash \/ Restart
  BY <1>3, <1>7 DEF Crash, Restart
<1> QED
  BY <1>4, <1>5, <1>6, <1>7 DEF Next

\* However chunks, replies, time limits, repairs, rollbacks, crashes and late agents
\* meet, only staged entries are reported, each whole and with the text it holds, and
\* the source at rest holds what was reported (commitManualEdits,
\* clearAppliedEntries, rollbackManualApplyTransaction).
THEOREM AppliesAtOnce == Spec => AppliesAtomic
<1>1. Init => Staging!Init
  <2> SUFFICES ASSUME Init  PROVE Staging!Init
    OBVIOUS
  <2>1. source = settled /\ spoiled = {}
    BY DEF Init
  <2> QED
    BY <2>1 DEF Init, Staging!Init, Staging!Settled
<1>2. EInv /\ SourceSettled' /\ [Next]_vars => Staging!Next
  BY SeenStep DEF Staging!Next, Staging!Break
<1> QED
  BY <1>1, <1>2, EditsInvariant, SourceAsReported, PTL DEF Spec, AppliesAtomic, Staging!Spec

-----------------------------------------------------------------------------
(* The three parts on somebody's own machine, each in a behaviour of its own. *)

\* A step of the scenario is one of its part, and none of the others.
LEMMA PartsStep ==
  ASSUME [ScenarioNext]_ScenarioVars
  PROVE  [TabsNext]_tabVars /\ [Next]_vars /\ [AcceptsNext]_acceptVars
<1>1. EditsNext => Next
  BY DEF EditsNext, Next
<1>2. RunsNext => AcceptsNext
  BY DEF RunsNext
<1> QED
  BY <1>1, <1>2 DEF ScenarioNext, ScenarioVars

\* So the invariants of all parts hold whatever the scenario is.
LEMMA PartsInvariant == ScenarioSpec => [](BInv /\ EInv /\ AInv)
<1> DEFINE PInv == BInv /\ EInv /\ AInv
<1>1. ScenarioInit => PInv
  BY TabsStart, EditStart, AcceptsStart DEF ScenarioInit
<1>2. PInv /\ [ScenarioNext]_ScenarioVars => PInv'
  <2> SUFFICES ASSUME PInv, [ScenarioNext]_ScenarioVars  PROVE PInv'
    OBVIOUS
  <2>1. BInv'
    BY PartsStep, TabsTypeKept, KnownKept, CountedKept, PairedKept, CarefulKept DEF BInv
  <2>2. EInv'
    BY PartsStep, EditStepped
  <2>3. AInv'
    BY PartsStep, TypeKept, CauseKept, HeldKept, ExactKept DEF AInv
  <2> QED
    BY <2>1, <2>2, <2>3
<1> QED
  BY <1>1, <1>2, PTL DEF ScenarioSpec

\* The tabs and messages of a browser, the staged edits with their Applies and
\* transaction, and the source file with its lock and runs keep their types, for any
\* number of each (services/api.ts, live-server.mjs, live-accept.mjs).
THEOREM ClientsTyped == ScenarioSpec => []ClientsTypeOK
<1>1. BInv /\ EInv /\ AInv => ClientsTypeOK
  BY DEF ClientsTypeOK, BInv, EInv, EditTypes, AInv
<1> QED
  BY <1>1, PartsInvariant, PTL

=============================================================================
