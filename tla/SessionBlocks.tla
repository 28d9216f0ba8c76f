---------------------------- MODULE SessionBlocks ----------------------------
(***************************************************************************)
(* What live-accept.mjs promises, seen from the outside: a decision takes  *)
(* effect at once, on a block that is still open, and leaves the blocks of *)
(* other sessions alone; a run answers that its decision was handled, or   *)
(* refused for another, only when it was.  LiveOverlay takes a run for     *)
(* one such step.  A promise until it is broken: by two runs inside the    *)
(* lock at once, or by one that is killed while it writes.                 *)
(***************************************************************************)
CONSTANTS Runs, Sessions, Decisions, Undecided, Silent

VARIABLES
  block,    \* the block of each session: open, or what replaced it
  answer,   \* what every run has answered
  broken    \* nothing is promised any more

Answers == [s: Sessions, choice: Decisions, result: {"handled", "missing", "conflict", "locked"}]

Init ==
  /\ block = [s \in Sessions |-> Undecided]
  /\ answer = [r \in Runs |-> Silent]
  /\ broken = FALSE

Decide(s, c) ==
  /\ block[s] = Undecided
  /\ block' = [block EXCEPT ![s] = c]
  /\ UNCHANGED <<answer, broken>>

\* A run that found no markers, or did not get the lock, says nothing of the block.
Warranted(a) ==
  CASE a.result = "handled" -> block[a.s] = a.choice
    [] a.result = "conflict" -> block[a.s] \notin {Undecided, a.choice}
    [] OTHER -> TRUE

Answer(r) ==
  /\ answer[r] = Silent
  /\ answer'[r] \in Answers /\ Warranted(answer'[r])
  /\ answer' = [answer EXCEPT ![r] = answer'[r]]
  /\ UNCHANGED <<block, broken>>

Break == broken'

Next ==
  \/ \E s \in Sessions, c \in Decisions : Decide(s, c)
  \/ \E r \in Runs : Answer(r)
  \/ Break

Spec == Init /\ [][Next]_<<block, answer, broken>>
=============================================================================
