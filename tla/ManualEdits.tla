------------------------------ MODULE ManualEdits ------------------------------
(***************************************************************************)
(* Staged copy edits of live mode: the buffer of saved texts               *)
(* (live/manual-edits-buffer.mjs), the routes that save, apply, repair and *)
(* discard them (live/manual-edit-routes.mjs), the Apply that has an agent *)
(* rewrite the source and then checks what it wrote                        *)
(* (live-commit-manual-edits.mjs), and the events, snapshots and the       *)
(* transaction file that let it be undone (live/manual-apply.mjs).         *)
(*                                                                         *)
(* An Apply is not atomic: it hands the batch to an agent chunk by chunk,  *)
(* waits for each reply or for a timer, verifies, has the agent repair     *)
(* what does not verify, and only then drops the entries from the buffer.  *)
(* Meanwhile the user may save, discard or apply again from another tab,   *)
(* the server may die, and an agent that was given up on may still write   *)
(* and reply.                                                              *)
(*                                                                         *)
(* Modelled: the agent that polls (provider "chat").  A text is the number *)
(* of the save that wrote it, 0 the original.  An entry of the buffer is   *)
(* the set of texts with its id, the number of the save that created it.   *)
(* What awaits an answer goes on in microtasks before anything else can    *)
(* run; only a crash comes between.                                        *)
(***************************************************************************)
EXTENDS Integers, Sequences, FiniteSets, SequencesExt

CONSTANTS
    Pages,        \* pathnames
    Refs,         \* editable texts
    PageOf,       \* the page a text is on
    FileOf,       \* the source file it is written in
    Applies,      \* Applies that may run side by side, also the ids of transactions
    ChunkSize,    \* manualEditApplyChunkSize
    MaxAttempts,  \* repairAttemptLimit
    MaxSaves,     \* bound: saves
    MaxApplies,   \* bound: Applies and repairs the user starts
    MaxCrashes    \* bound: crashes of the server

ASSUME PagesAssumption == PageOf \in [Refs -> Pages] /\ IsFiniteSet(Refs)
ASSUME NamesAssumption ==
    Applies \cap {"none", "tombstone", "gone"} = {} /\ "none" \notin Pages
ASSUME LimitsAssumption ==
    /\ ChunkSize \in Nat \ {0} /\ MaxAttempts \in Nat \ {0}
    /\ MaxSaves \in Nat /\ MaxApplies \in Nat /\ MaxCrashes \in Nat

VARIABLES
    buffer,    \* the staged texts, on disk
    source,    \* the texts in the source files
    txn,       \* the transaction file
    work,      \* what each Apply is doing
    jobs,      \* apply events that are with an agent or wait for one
    up,        \* the server runs
    asked,     \* pages whose tab offers to keep fixing or to roll back
    saves, started, crashes,
    wish,      \* history: what the user wants each text to be
    settled,   \* history: what the source was last reported to hold
    spoiled    \* history: which of the known hazards have happened

vars == <<buffer, source, txn, work, jobs, up, asked, saves, started, crashes,
          wish, settled, spoiled>>

None == "none"
Texts == 0 .. MaxSaves
Files == {FileOf[r] : r \in Refs}
Hazards == {"resaved", "overlapped", "halfway", "late", "unreported",
            "widened"}

Nothing == [id |-> 0, text |-> 0]
Staged == [id : 1 .. MaxSaves, text : 1 .. MaxSaves]
Batches == UNION {[rs -> Staged] : rs \in SUBSET Refs}
Contents == [Refs -> Texts]

-----------------------------------------------------------------------------
(* Batches and chunks.                                                      *)

EntryIds(b) == {b[r].id : r \in DOMAIN b}
OfEntries(b, ids) == {r \in DOMAIN b : b[r].id \in ids}
Part(b, rs) == [r \in rs |-> b[r]]
FilesOf(rs) == {FileOf[r] : r \in rs}

\* buildManualEditEvidence: what is staged for the page.
BatchOf(p) == Part(buffer, {r \in Refs : PageOf[r] = p /\ buffer[r] # Nothing})
PendingIds == {buffer[r].id : r \in Refs} \ {0}

Entry(b, r) == OfEntries(b, {b[r].id})
Large(b, r) == Cardinality(Entry(b, r)) > ChunkSize

\* splitManualApplyBatch, as what it returns: the texts in the order their entries
\* were staged, none twice, no chunk too large, an entry in one chunk if it fits in
\* one, one that does not beginning a new chunk, and no chunk ended before it had to.
IsSplit(b, cs) ==
    /\ \A r \in DOMAIN b : \E i \in DOMAIN cs : \A k \in DOMAIN cs : r \in cs[k] <=> k = i
    /\ \A i \in DOMAIN cs : Cardinality(cs[i]) \in 1 .. ChunkSize
    /\ \A i, k \in DOMAIN cs : \A r \in cs[i], q \in cs[k] : i < k => b[r].id <= b[q].id
    /\ \A i \in DOMAIN cs : \A r, q \in cs[i] :
          /\ ~Large(b, r) => Entry(b, r) \subseteq cs[i]
          /\ b[r].id < b[q].id => ~Large(b, q)
    /\ \A i \in DOMAIN cs \ {1} : \E q \in cs[i] :
          /\ \A r \in cs[i] : b[q].id <= b[r].id
          /\ IF Large(b, q)
             THEN Entry(b, q) \cap cs[i - 1] = {} \/ Cardinality(cs[i - 1]) = ChunkSize
             ELSE Cardinality(cs[i - 1]) + Cardinality(Entry(b, q)) > ChunkSize

Splits(b) ==
    LET n == Cardinality(DOMAIN b)
    IN {cs \in UNION {[1 .. k -> SUBSET DOMAIN b] : k \in 1 .. n} : IsSplit(b, cs)}

-----------------------------------------------------------------------------
(* The transaction file and the snapshots: ways back to an older source.    *)

NoTxn == [by |-> None]
Txns == [by : Applies, page : Pages, ids : SUBSET (1 .. MaxSaves),
         files : SUBSET Files, was : Contents]

Restored(src, was, files) ==
    [r \in Refs |-> IF FileOf[r] \in files THEN was[r] ELSE src[r]]

\* rollbackManualApplyTransaction, for one page or for any (None).
Concerns(p) == txn # NoTxn /\ p \in {None, txn.page}
RolledBack(p) ==
    IF Concerns(p) /\ txn.ids \cap PendingIds # {}
    THEN Restored(source, txn.was, txn.files) ELSE source
Forgotten(p) == IF Concerns(p) THEN NoTxn ELSE txn

-----------------------------------------------------------------------------
(* Apply events.  The one an Apply waits for carries its name; one that was *)
(* given up on is remembered by a tombstone, until the server dies.         *)

Owners == Applies \cup {"tombstone", "gone"}
Jobs == [by : Owners, asks : Batches, was : Contents, left : SUBSET Refs, taken : BOOLEAN]
Job(a, rs, b, src) ==
    [by |-> a, asks |-> Part(b, rs), was |-> src, left |-> rs, taken |-> FALSE]

Live(a) == {j \in jobs : j.by = a}
Late(j) == j.taken /\ j.by \notin Applies

\* An event no agent has taken leaves the queue; of one that was taken the agent
\* is not told.
GivenUp(gone, by) == {[j EXCEPT !.by = by] : j \in {k \in gone : k.taken}}

-----------------------------------------------------------------------------
(* An Apply.                                                                *)

Kinds == {"whole", "chunks", "repair"}
Free == [at |-> "free"]
Answers == [how : {"reply", "error", "thrown"}, ids : SUBSET (1 .. MaxSaves)]
NoAnswer == [how |-> "thrown", ids |-> {}]
Works == [at : {"waits", "resumes", "releases"}, kind : Kinds, page : Pages,
          batch : Batches, was : Contents, holds : Applies \cup {None},
          chunk : SUBSET Refs, todo : Seq(SUBSET Refs), failed : SUBSET (1 .. MaxSaves),
          applied : SUBSET (1 .. MaxSaves), attempt : 0 .. MaxAttempts, got : Answers]

Busy == {a \in Applies : work[a] # Free}
Calm == \A a \in Busy : work[a].at = "waits"

Spoil(hazard, happens) ==
    spoiled' = IF happens THEN spoiled \cup {hazard} ELSE spoiled

Serves == up /\ Calm
Starts == started < MaxApplies /\ started' = started + 1

\* POST /manual-edit-commit: an abandoned transaction of the page is rolled back,
\* a new one is written over whatever is there, the first chunk is dispatched.
Apply(a, p) ==
    LET src == RolledBack(p)
        b == BatchOf(p)
    IN /\ Serves /\ Starts
       /\ work[a] = Free
       /\ source' = src
       /\ IF DOMAIN b = {}
          THEN txn' = Forgotten(p) /\ UNCHANGED <<work, jobs, spoiled>>
          ELSE /\ txn' = [by |-> a, page |-> p, ids |-> EntryIds(b),
                          files |-> FilesOf(DOMAIN b), was |-> src]
               /\ \E cs \in Splits(b) :
                     /\ work' = [work EXCEPT ![a] =
                            [at |-> "waits", kind |-> IF Len(cs) = 1 THEN "whole" ELSE "chunks",
                             page |-> p, batch |-> b, was |-> src, holds |-> a,
                             chunk |-> Head(cs), todo |-> Tail(cs), failed |-> {},
                             applied |-> {}, attempt |-> 0, got |-> NoAnswer]]
                     /\ jobs' = jobs \cup {Job(a, Head(cs), b, src)}
               /\ spoiled' = spoiled
                      \cup (IF Busy # {} \/ Forgotten(p) # NoTxn THEN {"overlapped"} ELSE {})
                      \cup (IF \E j \in jobs : Late(j) THEN {"late"} ELSE {})
       /\ UNCHANGED <<buffer, up, asked, saves, crashes, wish, settled>>

\* The same with repair=1: nothing is rolled back, all is taken for applied and
\* only validated, under the transaction that is there, whosever it is: what was
\* saved since may be in files it cannot bring back.
KeepFixing(a, p) ==
    LET b == BatchOf(p)
    IN /\ Serves /\ Starts
       /\ work[a] = Free
       /\ p \in asked /\ txn # NoTxn
       /\ asked' = asked \ {p}
       /\ IF DOMAIN b = {} THEN UNCHANGED <<work, spoiled>>
          ELSE /\ work' = [work EXCEPT ![a] =
                      [at |-> "resumes", kind |-> "repair", page |-> p, batch |-> b,
                       was |-> source, holds |-> txn.by, chunk |-> DOMAIN b,
                       todo |-> <<>>, failed |-> {}, applied |-> {}, attempt |-> 0,
                       got |-> [how |-> "reply", ids |-> EntryIds(b)]]]
               /\ spoiled' = spoiled
                      \cup (IF Busy # {} \/ txn.page # p THEN {"overlapped"} ELSE {})
                      \cup (IF FilesOf(DOMAIN b) \subseteq txn.files THEN {} ELSE {"widened"})
       /\ UNCHANGED <<buffer, source, txn, jobs, up, saves, crashes, wish, settled>>

\* What became of the batch once all of its chunks are answered.
FailedIn(w) ==
    LET ids(rs) == EntryIds(Part(w.batch, rs))
    IN w.failed \cup
         IF w.got.how = "reply" THEN ids(w.chunk) \ w.got.ids
         ELSE ids(w.chunk) \cup UNION {ids(rs) : rs \in ToSet(w.todo)}

AppliedIn(w) == EntryIds(w.batch) \ FailedIn(w)

\* verifyEntriesAfterRepair: the new text of each entry said to be applied is in
\* the source.
Verified(w, ids) == \A r \in OfEntries(w.batch, ids) : source[r] = w.batch[r].text

\* findUnappliedEntrySourceChanges: a text of another entry has changed too.
Leaked(w, ids) ==
    \E r \in DOMAIN w.batch \ OfEntries(w.batch, ids) :
        source[r] = w.batch[r].text /\ w.was[r] # w.batch[r].text

Goes(a, w) == work' = [work EXCEPT ![a] = w]
OnlyWork == UNCHANGED <<txn, up, saves, started, crashes, wish>>

\* failWithRollback.
Undo(a, w) ==
    /\ source' = Restored(source, w.was, FilesOf(DOMAIN w.batch))
    /\ Goes(a, [w EXCEPT !.at = "releases"])
    /\ UNCHANGED <<buffer, jobs, asked, settled>>

\* Slip the runs must notice: the whole page's entries are dropped.
ClearPage(a, w, ids) ==
    /\ buffer' = [r \in Refs |-> IF PageOf[r] = w.page THEN Nothing ELSE buffer[r]]
    /\ settled' = [r \in Refs |-> IF r \in OfEntries(w.batch, ids)
                                  THEN w.batch[r].text ELSE settled[r]]
    /\ Goes(a, [w EXCEPT !.at = "releases"])
    /\ UNCHANGED <<source, jobs, asked>>

\* clearAppliedEntries: by id, whatever the entries hold by now.
Clear(a, w, ids) ==
    /\ buffer' = [r \in Refs |-> IF buffer[r].id \in ids THEN Nothing ELSE buffer[r]]
    /\ settled' = [r \in Refs |-> IF r \in OfEntries(w.batch, ids)
                                  THEN w.batch[r].text ELSE settled[r]]
    /\ Goes(a, [w EXCEPT !.at = "releases"])
    /\ UNCHANGED <<source, jobs, asked>>

\* The next round of repairPostApplyValidation, or none is left: the user has to
\* decide, and the transaction stays.
Repair(a, w, ids) ==
    /\ IF w.attempt < MaxAttempts
       THEN /\ Goes(a, [w EXCEPT !.at = "waits", !.attempt = @ + 1, !.applied = ids])
            /\ jobs' = jobs \cup {Job(a, DOMAIN w.batch, w.batch, source)}
            /\ UNCHANGED asked
       ELSE /\ Goes(a, Free)
            /\ asked' = asked \cup {w.page}
            /\ UNCHANGED jobs
    /\ UNCHANGED <<buffer, source, settled>>

\* The post-apply checks (syntax, leftover markers, the project's own script) may
\* say yes or no.
Checked(a, w, ids, repaired) == Clear(a, w, ids) \/ Repair(a, w, repaired)

\* A chunk is answered and others are left.
NextChunk(a) ==
    LET w == work[a]
    IN /\ up /\ w # Free /\ w.at = "resumes" /\ w.attempt = 0
       /\ w.got.how = "reply" /\ w.todo # <<>>
       /\ Goes(a, [w EXCEPT !.at = "waits", !.chunk = Head(w.todo), !.todo = Tail(w.todo),
                            !.failed = FailedIn(w), !.got = NoAnswer])
       /\ jobs' = jobs \cup {Job(a, Head(w.todo), w.batch, source)}
       /\ OnlyWork /\ UNCHANGED <<buffer, source, asked, settled, spoiled>>

\* commitManualEdits, after the agent.  A report that does not account for the
\* files that changed is refused.
Conclude(a) ==
    LET w == work[a]
        ids == AppliedIn(w)
        failed == IF w.kind = "chunks" THEN ids = {} ELSE w.got.how # "reply"
    IN /\ up /\ w # Free /\ w.at = "resumes" /\ w.attempt = 0
       /\ w.got.how # "reply" \/ w.todo = <<>>
       /\ \/ (failed \/ w.kind # "repair" \/ Leaked(w, ids)) /\ Undo(a, w)
          \/ /\ ~failed /\ ~Leaked(w, ids)
             /\ IF Verified(w, ids)
                THEN Checked(a, w, ids, IF ids = {} THEN EntryIds(w.batch) ELSE ids)
                ELSE Repair(a, w, ids)
       /\ OnlyWork /\ UNCHANGED spoiled

\* The answer to a repair.  One that never came is not even verified, and none is
\* asked what else it changed.
Repaired(a) ==
    LET w == work[a]
        ids == w.applied \cup w.got.ids
    IN /\ up /\ w # Free /\ w.at = "resumes" /\ w.attempt > 0
       /\ IF w.got.how # "thrown" /\ Verified(w, ids)
          THEN Checked(a, w, ids, ids)
          ELSE Repair(a, w, ids)
       /\ Spoil("unreported", Leaked(w, ids))
       /\ OnlyWork

\* The transaction is cleared if it is still the one the Apply holds.
Release(a) ==
    /\ up /\ work[a].at = "releases"
    /\ txn' = IF txn.by = work[a].holds THEN NoTxn ELSE txn
    /\ Goes(a, Free)
    /\ UNCHANGED <<buffer, source, jobs, up, asked, saves, started, crashes, wish,
                   settled, spoiled>>

-----------------------------------------------------------------------------
(* The user.                                                                *)

\* POST /manual-edit-stash: a text that is staged keeps its entry.
Save(rs) ==
    /\ Serves
    /\ saves < MaxSaves /\ saves' = saves + 1
    /\ buffer' = [r \in Refs |->
           IF r \notin rs THEN buffer[r]
           ELSE [id |-> IF buffer[r] = Nothing THEN saves' ELSE buffer[r].id, text |-> saves']]
    /\ wish' = [r \in Refs |-> IF r \in rs THEN saves' ELSE wish[r]]
    /\ Spoil("resaved", \E a \in Busy, r \in rs : buffer[r].id \in EntryIds(work[a].batch))
    /\ UNCHANGED <<source, txn, work, jobs, up, asked, started, crashes, settled>>

\* POST /manual-edit-repair-decision.
RollBack(p) ==
    /\ Serves
    /\ p \in asked
    /\ asked' = asked \ {p}
    /\ source' = RolledBack(p)
    /\ txn' = Forgotten(p)
    /\ Spoil("overlapped", Busy # {} /\ Concerns(p))
    /\ UNCHANGED <<buffer, work, jobs, up, saves, started, crashes, wish, settled>>

Drops(p) ==
    /\ buffer' = [r \in Refs |-> IF PageOf[r] = p THEN Nothing ELSE buffer[r]]
    /\ wish' = [r \in Refs |-> IF PageOf[r] = p THEN settled[r] ELSE wish[r]]

\* POST /manual-edit-discard: the transaction is rolled back, the entries go, and
\* the events of the page are called off, each with the snapshot it was
\* dispatched with, the last one last.
Discard(p) ==
    LET hit == {a \in Busy : work[a].page = p}
        called == {j \in jobs : j.by \in hit}
    IN /\ Serves
       /\ BatchOf(p) # <<>>
       /\ Drops(p)
       /\ txn' = Forgotten(p)
       /\ \E order \in SetToSeqs(called) : source' = [r \in Refs |->
             LET at == {i \in DOMAIN order : FileOf[r] \in FilesOf(DOMAIN order[i].asks)}
             IN IF at = {} THEN RolledBack(p)[r] ELSE order[Max(at)].was[r]]
       /\ jobs' = (jobs \ called) \cup GivenUp(called, "tombstone")
       /\ work' = [a \in Applies |->
              IF a \in hit THEN [work[a] EXCEPT !.at = "resumes", !.got = NoAnswer]
                           ELSE work[a]]
       /\ Spoil("overlapped", hit # {})
       /\ UNCHANGED <<up, asked, saves, started, crashes, settled>>

-----------------------------------------------------------------------------
(* The agent.                                                               *)

JobOnly == UNCHANGED <<buffer, txn, up, asked, saves, started, crashes, wish, settled>>

Take(j) ==
    /\ Serves
    /\ j \in jobs /\ ~j.taken
    /\ jobs' = (jobs \ {j}) \cup {[j EXCEPT !.taken = TRUE]}
    /\ JobOnly /\ UNCHANGED <<source, work, spoiled>>

\* It writes one of the texts it was asked for, though nobody may wait any more.
Write(j, r) ==
    /\ Calm
    /\ j \in jobs /\ j.taken /\ r \in j.left
    /\ source' = [source EXCEPT ![r] = j.asks[r].text]
    /\ jobs' = (jobs \ {j}) \cup {[j EXCEPT !.left = @ \ {r}]}
    /\ Spoil("late", j.by = "gone" \/ (Late(j) /\ Busy # {}))
    /\ JobOnly /\ UNCHANGED work

Resumes(a, how, ids) ==
    work' = [work EXCEPT ![a].at = "resumes", ![a].got = [how |-> how, ids |-> ids]]

\* POST /poll for an event that is waited for, with what was applied or in error.
Reply(j, how, ids) ==
    /\ Serves
    /\ j \in jobs /\ j.taken /\ j.by \in Applies
    /\ jobs' = jobs \ {j}
    /\ Resumes(j.by, how, ids)
    /\ JobOnly /\ UNCHANGED <<source, spoiled>>

\* Slip the runs must notice: a stale reply leaves what the agent wrote.
ReplyLateKeeping(j) ==
    /\ Serves
    /\ j \in jobs /\ Late(j)
    /\ jobs' = jobs \ {j}
    /\ JobOnly /\ UNCHANGED <<source, work, spoiled>>

\* For one that was given up on: rollbackTimedOutReply restores the files as they
\* were at dispatch.  A server that has restarted knows nothing of it.
ReplyLate(j) ==
    LET files == FilesOf(DOMAIN j.asks)
    IN /\ Serves
       /\ j \in jobs /\ Late(j)
       /\ jobs' = jobs \ {j}
       /\ source' = IF j.by = "tombstone" THEN Restored(source, j.was, files) ELSE source
       /\ Spoil("late", \/ Busy # {}
                        \/ \E r \in Refs : FileOf[r] \in files /\ j.was[r] # settled[r])
       /\ JobOnly /\ UNCHANGED work

\* Slip the runs must notice: the timer runs from the moment an agent takes the event.
TimeOutTaken(a) ==
    /\ Serves
    /\ \E j \in Live(a) : j.taken
    /\ jobs' = (jobs \ Live(a)) \cup GivenUp(Live(a), "tombstone")
    /\ Resumes(a, "thrown", {})
    /\ JobOnly /\ UNCHANGED <<source, spoiled>>

\* The hard timeout of an event, taken or not.
TimeOut(a) ==
    /\ Serves
    /\ Live(a) # {}
    /\ jobs' = (jobs \ Live(a)) \cup GivenUp(Live(a), "tombstone")
    /\ Resumes(a, "thrown", {})
    /\ JobOnly /\ UNCHANGED <<source, spoiled>>

-----------------------------------------------------------------------------
(* The server dies, perhaps between two writes of an Apply, and starts.     *)

Crash ==
    /\ up
    /\ crashes < MaxCrashes /\ crashes' = crashes + 1
    /\ up' = FALSE
    /\ work' = [a \in Applies |-> Free]
    /\ jobs' = GivenUp(jobs, "gone")
    /\ spoiled' = spoiled
           \cup (IF \E a \in Busy : work[a].at = "releases" THEN {"halfway"} ELSE {})
           \cup (IF \E j \in jobs : Late(j) /\ j.left # DOMAIN j.asks THEN {"late"} ELSE {})
    /\ UNCHANGED <<buffer, source, txn, asked, saves, started, wish, settled>>

\* Slip the runs must notice: an abandoned transaction is left for later.
RestartAsIs ==
    /\ ~up
    /\ up' = TRUE
    /\ UNCHANGED <<buffer, source, txn, work, jobs, asked, saves, started, crashes, wish,
                   settled, spoiled>>

Restart ==
    /\ ~up
    /\ up' = TRUE
    /\ source' = RolledBack(None)
    /\ txn' = Forgotten(None)
    /\ UNCHANGED <<buffer, work, jobs, asked, saves, started, crashes, wish, settled, spoiled>>

-----------------------------------------------------------------------------
Init ==
    /\ buffer = [r \in Refs |-> Nothing]
    /\ source = [r \in Refs |-> 0]
    /\ txn = NoTxn
    /\ work = [a \in Applies |-> Free]
    /\ jobs = {}
    /\ up = TRUE
    /\ asked = {}
    /\ saves = 0 /\ started = 0 /\ crashes = 0
    /\ wish = [r \in Refs |-> 0]
    /\ settled = [r \in Refs |-> 0]
    /\ spoiled = {}

User(p) ==
    \/ \E rs \in SUBSET {r \in Refs : PageOf[r] = p} \ {{}} : Save(rs)
    \/ \E a \in Applies : Apply(a, p) \/ KeepFixing(a, p)
    \/ RollBack(p)
    \/ Discard(p)

Goes_on(a) == NextChunk(a) \/ Conclude(a) \/ Repaired(a) \/ Release(a)

Agent(j) ==
    \/ Take(j)
    \/ \E r \in j.left : Write(j, r)
    \/ \E ids \in SUBSET EntryIds(j.asks) : Reply(j, "reply", ids)
    \/ Reply(j, "error", {})
    \/ ReplyLate(j)

Next ==
    \/ \E p \in Pages : User(p)
    \/ \E a \in Applies : Goes_on(a) \/ TimeOut(a)
    \/ \E j \in jobs : Agent(j)
    \/ Crash
    \/ Restart

\* Microtasks run, timers fire, and a dead server is started again.  Agents and
\* the user owe nothing.
Fairness ==
    /\ \A a \in Applies : WF_vars(Goes_on(a)) /\ WF_vars(TimeOut(a))
    /\ WF_vars(Restart)

Spec == Init /\ [][Next]_vars /\ Fairness

-----------------------------------------------------------------------------
\* The variables have their types.
TypeOK ==
    /\ buffer \in [Refs -> Staged \cup {Nothing}]
    /\ source \in Contents
    /\ txn \in Txns \cup {NoTxn}
    /\ work \in [Applies -> Works \cup {Free}]
    /\ jobs \subseteq Jobs
    /\ up \in BOOLEAN
    /\ asked \subseteq Pages
    /\ saves \in 0 .. MaxSaves /\ started \in 0 .. MaxApplies /\ crashes \in 0 .. MaxCrashes
    /\ wish \in Contents /\ settled \in Contents
    /\ spoiled \subseteq Hazards

\* No agent that was given up on is still at work, and none of the known hazards
\* has happened.
Undisturbed == spoiled = {} /\ \A j \in jobs : ~Late(j)

\* What the user saved last is staged or is in the source, through chunks, time
\* limits, repairs, rollbacks, discards and crashes.
EditKept ==
    Undisturbed /\ Calm =>
        \A r \in Refs :
            IF buffer[r] # Nothing THEN buffer[r].text = wish[r] ELSE source[r] = wish[r]

\* No Apply runs, and none waits for the user's decision with the transaction that
\* would undo it.
AtRest == Undisturbed /\ up /\ Busy = {} /\ (txn = NoTxn \/ asked = {})

\* Once no Apply runs, and unless one waits for the user's decision with the
\* transaction to undo it, the source holds what was reported as applied and nothing
\* of what was not.
SourceSettled == AtRest => source = settled

Staging ==
    INSTANCE StagedTexts WITH
        Saves <- 1 .. MaxSaves, staged <- buffer, reported <- settled,
        resting <- AtRest, broken <- spoiled # {}

\* However chunks, replies, time limits, repairs, rollbacks, crashes and late agents
\* meet, what is reported are entries that are staged at that moment and leave the
\* buffer with it, each whole and with the text it holds; a text leaves the buffer in
\* no other way than this and a discard; and whenever the source is at rest it holds
\* what was reported and nothing else.
AppliesAtomic == Staging!Spec

\* Every Apply comes to an end, or the server dies, though no agent may ever
\* answer.
ApplySettles == \A a \in Applies : a \in Busy ~> a \notin Busy

=============================================================================
