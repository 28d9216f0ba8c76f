-------------------------------- MODULE Accepts --------------------------------
(***************************************************************************)
(* Runs of live-accept.mjs, each a process: it carries one decision of the *)
(* user (a variant, or the original to go back to) into the source file    *)
(* that holds the marked blocks of several sessions, under the lock of     *)
(* live/source-lock.mjs, and leaves a receipt for the next run that is     *)
(* asked the same.  An agent that retries, and several agents, start such  *)
(* runs at the same time.                                                  *)
(*                                                                         *)
(* Every call of the file system is a step, and so is asking the system    *)
(* for a process.  A lock is a file, created and then filled with the pid  *)
(* and the token of its run; whoever comes next reads it, asks for that    *)
(* pid, and removes the file if nobody has it.  No pid is given to another *)
(* process here.  The markup between the markers is not modelled: a block  *)
(* is open or holds the choice that replaced it.                           *)
(***************************************************************************)
EXTENDS Naturals, FiniteSets

CONSTANTS
  Sessions,   \* sessions with a marked block in the file
  Decisions,    \* what --variant or --discard names
  NumRuns,    \* how many runs there are, numbered as they start
  MaxTries,   \* bound: how often a run tries again while it waits
  MaxFaults,  \* bound: runs that die, and runs that are suspended for a minute
  Undecided,  \* a block that is open, a session without a receipt
  Torn,       \* a source file truncated and not written yet
  NoLock      \* no lock file; no culprit

ASSUME AcceptBoundsAssumption == NumRuns \in Nat /\ MaxTries \in Nat /\ MaxFaults \in Nat

Runs == 1..NumRuns

VARIABLES
  file,      \* the source file: the block of each session
  lock,      \* the lock file
  receipts,  \* accept-receipts
  runs,      \* what every run has read and will do next
  dead,      \* runs that were killed
  slow,      \* history: runs that were suspended for a minute
  shared,    \* history: two runs were in the critical section at once
  met        \* history: a lock was created while another run was sweeping one

acceptVars == <<file, lock, receipts, runs, dead, slow, shared, met>>

-----------------------------------------------------------------------------
(***************************************************************************)
(* Types.                                                                  *)
(***************************************************************************)
Blocks == [Sessions -> Decisions \union {Undecided}]

Lock == [owner: Runs, filled: BOOLEAN, old: BOOLEAN]

ASSUME MarksAssumption ==
  Undecided \notin Decisions /\ NoLock \notin Runs \union Lock /\ Torn \notin Blocks

NotStarted == [pc |-> "off"]

Waiting == {"find", "sweep", "probe", "stat", "unlink", "create"}

Inside == {"read", "truncate", "write"}

Leaving == {"release", "drop", "receipt"}

Results == {"handled", "missing", "conflict", "locked"}

\* early is who was dead when a run that waits began, copy the file as it has read it,
\* by the run whose lock it judges, or whose lock made it give up.
Run(pcs) ==
  [pc: pcs, s: Sessions, choice: Decisions, early: SUBSET Runs, tries: 0..MaxTries,
   copy: Blocks \union {Torn}, result: Results, by: Runs \union {NoLock}]

AcceptsTypeOK ==
  /\ file \in Blocks \union {Torn}
  /\ lock \in Lock \union {NoLock}
  /\ receipts \in Blocks
  /\ runs \in [Runs -> {NotStarted}
                 \union Run(Waiting \union {"fill"} \union Inside \union Leaving \union {"over"})]
  /\ dead \subseteq Runs
  /\ slow \subseteq Runs
  /\ shared \in BOOLEAN /\ met \in BOOLEAN

-----------------------------------------------------------------------------
(***************************************************************************)
(* Helpers.                                                                *)
(***************************************************************************)
Faults == Cardinality(dead) + Cardinality(slow)

Critical == {r \in Runs \ dead : runs[r].pc \in Inside}

\* Run r goes on at pc.
StepTo(r, pc) == runs' = [runs EXCEPT ![r].pc = pc]

\* Run r answers; by names the owner of the lock that made it give up.
AnswerWith(r, result, by) ==
  runs' = [runs EXCEPT ![r].pc = "over", ![r].result = result, ![r].by = by,
                       ![r].tries = 0, ![r].early = IF by = NoLock THEN {} ELSE @]

Ends(r, result) == AnswerWith(r, result, NoLock)

At(r, pc) == r \notin dead /\ runs[r].pc = pc

\* The markers of the session are in the file.
Marked(s) == file # Torn /\ file[s] = Undecided

\* Runs that have read a lock, or its age, and may remove the lock file for it.
Sweeping == {r \in Runs \ dead : runs[r].pc \in {"probe", "unlink"}}

\* No process has the pid of run r: it was killed, or it has answered and ended
\* (an answer is the last a process does, so the two are one step).  A slip the
\* runs must notice: every process is taken for a living one.
NeverEnds(r) == FALSE

Ended(r) == r \in dead \/ runs[r].pc = "over"

\* What a run reports, and whether it leaves a receipt, once it has left the
\* critical section.  A slip: the answer says handled whatever happened.
HandledAnyway(r) == "handled"

Outcome(r) == runs[r].result

AcceptsInit ==
  /\ file = [s \in Sessions |-> Undecided]
  /\ lock = NoLock
  /\ receipts = [s \in Sessions |-> Undecided]
  /\ runs = [r \in Runs |-> NotStarted]
  /\ dead = {} /\ slow = {}
  /\ shared = FALSE /\ met = FALSE

-----------------------------------------------------------------------------
(***************************************************************************)
(* Before the lock.                                                        *)
(***************************************************************************)

\* The command line, and the receipt of an earlier run: the same decision is
\* reported again, another one is refused.
StartAccept(r, s, c) ==
  /\ runs[r] = NotStarted /\ \A earlier \in 1..(r - 1) : runs[earlier] # NotStarted
  /\ LET prior == receipts[s]
         begun == [pc |-> "find", s |-> s, choice |-> c, early |-> dead, tries |-> 0,
                   copy |-> Torn, result |-> "missing", by |-> NoLock]
     IN  runs' = [runs EXCEPT ![r] =
           IF prior = Undecided THEN begun
           ELSE [begun EXCEPT !.pc = "over",
                              !.result = IF prior = c THEN "handled" ELSE "conflict"]]
  /\ UNCHANGED <<file, lock, receipts, dead, slow, shared, met>>

\* The search for the markers, which needs no lock.
FindMarkers(r) ==
  /\ At(r, "find")
  /\ IF Marked(runs[r].s) THEN StepTo(r, "sweep") ELSE Ends(r, "missing")
  /\ UNCHANGED <<file, lock, receipts, dead, slow, shared, met>>

-----------------------------------------------------------------------------
(***************************************************************************)
(* withSourceLockSync.                                                     *)
(***************************************************************************)

\* clearStaleLock reads the lock: it names its run, or nothing can be read ...
SweepLock(r) ==
  /\ At(r, "sweep")
  /\ IF lock # NoLock /\ lock.filled
       THEN runs' = [runs EXCEPT ![r].pc = "probe", ![r].by = lock.owner]
       ELSE StepTo(r, "stat")
  /\ UNCHANGED <<file, lock, receipts, dead, slow, shared, met>>

\* ... asks whether the run it has read of is alive ...
ProbeOwner(r) ==
  /\ At(r, "probe")
  /\ runs' = [runs EXCEPT ![r].pc = IF Ended(runs[r].by) THEN "unlink" ELSE "create", ![r].by = NoLock]
  /\ UNCHANGED <<file, lock, receipts, dead, slow, shared, met>>

\* ... or how old the file is that it could not read.  A slip: an unreadable
\* lock is nobody's, however young.
StatAnyAge(r) ==
  /\ At(r, "stat")
  /\ StepTo(r, IF lock # NoLock THEN "unlink" ELSE "create")
  /\ UNCHANGED <<file, lock, receipts, dead, slow, shared, met>>

StatLock(r) ==
  /\ At(r, "stat")
  /\ StepTo(r, IF lock # NoLock /\ lock.old THEN "unlink" ELSE "create")
  /\ UNCHANGED <<file, lock, receipts, dead, slow, shared, met>>

\* Whatever lock is there now is removed.
UnlinkLock(r) ==
  /\ At(r, "unlink")
  /\ lock' = NoLock
  /\ StepTo(r, "create")
  /\ UNCHANGED <<file, receipts, dead, slow, shared, met>>

CreateLock(r) ==
  /\ At(r, "create") /\ lock = NoLock
  /\ lock' = [owner |-> r, filled |-> FALSE, old |-> FALSE]
  /\ runs' = [runs EXCEPT ![r].pc = "fill", ![r].tries = 0, ![r].early = {}]
  /\ met' = (met \/ Sweeping # {})
  /\ UNCHANGED <<file, receipts, dead, slow, shared>>

\* EEXIST: another try, or the wait is over.
TryAgain(r) ==
  /\ At(r, "create") /\ lock # NoLock
  /\ runs[r].tries < MaxTries
  /\ runs' = [runs EXCEPT ![r].pc = "sweep", ![r].tries = @ + 1]
  /\ UNCHANGED <<file, lock, receipts, dead, slow, shared, met>>

GiveUpLock(r) ==
  /\ At(r, "create") /\ lock # NoLock
  /\ AnswerWith(r, "locked", IF lock.filled THEN lock.owner ELSE NoLock)
  /\ UNCHANGED <<file, lock, receipts, dead, slow, shared, met>>

\* The pid and the token go to the file that was opened, removed or not.
FillLock(r) ==
  /\ At(r, "fill")
  /\ lock' = IF lock # NoLock /\ lock.owner = r THEN [lock EXCEPT !.filled = TRUE, !.old = FALSE] ELSE lock
  /\ StepTo(r, "read")
  /\ shared' = (shared \/ Critical # {})
  /\ UNCHANGED <<file, receipts, dead, slow, met>>

-----------------------------------------------------------------------------
(***************************************************************************)
(* Under the lock: handleAccept and handleDiscard.                         *)
(***************************************************************************)

\* A slip: whoever found the markers before it waited for the lock trusts in them.
ReadSourceTrusting(r) ==
  /\ At(r, "read")
  /\ IF file # Torn
       THEN runs' = [runs EXCEPT ![r].pc = "truncate", ![r].copy = file]
       ELSE StepTo(r, "release")
  /\ UNCHANGED <<file, lock, receipts, dead, slow, shared, met>>

\* The file is read again, and the markers are looked for again.
ReadSource(r) ==
  /\ At(r, "read")
  /\ IF Marked(runs[r].s)
       THEN runs' = [runs EXCEPT ![r].pc = "truncate", ![r].copy = file]
       ELSE StepTo(r, "release")
  /\ UNCHANGED <<file, lock, receipts, dead, slow, shared, met>>

\* writeFileSync empties the file, and then fills it.
TruncateSource(r) ==
  /\ At(r, "truncate")
  /\ file' = Torn
  /\ StepTo(r, "write")
  /\ UNCHANGED <<lock, receipts, dead, slow, shared, met>>

WriteSource(r) ==
  /\ At(r, "write")
  /\ file' = [runs[r].copy EXCEPT ![runs[r].s] = runs[r].choice]
  /\ runs' = [runs EXCEPT ![r].pc = "release", ![r].copy = Torn, ![r].result = "handled"]
  /\ UNCHANGED <<lock, receipts, dead, slow, shared, met>>

-----------------------------------------------------------------------------
(***************************************************************************)
(* Afterwards.                                                             *)
(***************************************************************************)

\* releaseOwnLock reads the lock and spares one that names another run ...
ReleaseLock(r) ==
  /\ At(r, "release")
  /\ StepTo(r, IF lock # NoLock /\ lock.filled /\ lock.owner # r THEN "receipt" ELSE "drop")
  /\ UNCHANGED <<file, lock, receipts, dead, slow, shared, met>>

\* ... and removes what it finds otherwise.
DropLock(r) ==
  /\ At(r, "drop")
  /\ lock' = NoLock
  /\ StepTo(r, "receipt")
  /\ UNCHANGED <<file, receipts, dead, slow, shared, met>>

\* Only what was handled leaves a receipt.
WriteReceipt(r) ==
  /\ At(r, "receipt")
  /\ receipts' = IF Outcome(r) = "handled"
                   THEN [receipts EXCEPT ![runs[r].s] = runs[r].choice] ELSE receipts
  /\ Ends(r, Outcome(r))
  /\ UNCHANGED <<file, lock, dead, slow, shared, met>>

-----------------------------------------------------------------------------
\* A run is killed: by the user, or by the poll that waits 30 seconds for it.
Die(r) ==
  /\ Faults < MaxFaults
  /\ r \notin dead /\ runs[r].pc \notin {"off", "over"}
  /\ dead' = dead \union {r}
  /\ UNCHANGED <<file, lock, receipts, runs, slow, shared, met>>

\* A lock was last written a minute ago.  That means something only for an empty
\* one, whose run has died or is suspended, and to runs that found it empty and are
\* suspended since.
GrowOld ==
  LET late == IF lock.filled THEN {r \in Runs \ dead : runs[r].pc = "stat"} ELSE {lock.owner} \ dead
  IN  /\ lock # NoLock /\ ~lock.old
      /\ lock.filled => late # {}
      /\ Cardinality(dead) + Cardinality(slow \union late) <= MaxFaults
      /\ lock' = [lock EXCEPT !.old = TRUE]
      /\ slow' = slow \union late
      /\ UNCHANGED <<file, receipts, runs, dead, shared, met>>

AcceptsNext ==
  \/ \E r \in Runs :
       \/ \E s \in Sessions, c \in Decisions : StartAccept(r, s, c)
       \/ FindMarkers(r)
       \/ SweepLock(r) \/ ProbeOwner(r) \/ StatLock(r) \/ UnlinkLock(r)
       \/ CreateLock(r) \/ TryAgain(r) \/ GiveUpLock(r) \/ FillLock(r)
       \/ ReadSource(r) \/ TruncateSource(r) \/ WriteSource(r)
       \/ ReleaseLock(r) \/ DropLock(r) \/ WriteReceipt(r)
       \/ Die(r)
  \/ GrowOld

AcceptsSpec == AcceptsInit /\ [][AcceptsNext]_acceptVars

-----------------------------------------------------------------------------
(***************************************************************************)
(* Properties.                                                             *)
(***************************************************************************)


\* Whoever waits, retries, is killed or ends meanwhile, two runs are never in the
\* critical section at once, as long as none is suspended for a minute and no lock
\* is created while another run is between reading a lock and removing it.
SharedAfterCrossing == shared => slow # {} \/ met

\* What a run reports as handled, and what a receipt says, is what the source
\* file holds: no other session's run undoes it and no later decision replaces
\* it, whoever dies and whatever is retried (as long as the lock kept runs
\* apart, and no run died while it wrote).
HandledTrue ==
  ~shared /\ file # Torn =>
    /\ \A s \in Sessions : receipts[s] # Undecided => file[s] = receipts[s]
    /\ \A r \in Runs :
         runs[r].pc = "over" /\ runs[r].result = "handled" => file[runs[r].s] = runs[r].choice

\* "A dead owner releases at once": the lock of a run that was dead before
\* another one began never makes that one give up.
RefusedForCause ==
  \A r \in Runs : runs[r].pc = "over" /\ runs[r].result = "locked" => runs[r].by \notin runs[r].early

\* What a run answers is so: what was handled, and that it had to give up.
AnswersTrue == HandledTrue /\ RefusedForCause

-----------------------------------------------------------------------------
(***************************************************************************)
(* Seen from the outside.                                                  *)
(***************************************************************************)
Writers == {r \in Runs : runs[r].pc = "write"}

\* What the source file holds, or held when the run that writes it emptied it.
Block == IF Writers = {} THEN file ELSE runs[CHOOSE r \in Writers : TRUE].copy

AnswerOf(r) ==
  IF runs[r].pc # "over" THEN NotStarted
  ELSE [s |-> runs[r].s, choice |-> runs[r].choice, result |-> runs[r].result]

Broken == shared \/ Writers \intersect dead # {}

Promise ==
  INSTANCE SessionBlocks WITH
    Silent <- NotStarted, block <- Block, answer <- [r \in Runs |-> AnswerOf(r)],
    broken <- Broken

\* However the runs interleave, wait, retry and die, each decision takes effect in one
\* step, the write under the lock, on a block that is open: no other session's block
\* is written back as it was read before, no decision replaces another, and no run
\* answers for a decision that the source does not hold.
DecisionsAtomic == Promise!Spec
=============================================================================
