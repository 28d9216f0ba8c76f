----------------------------- MODULE StagedTexts -----------------------------
(***************************************************************************)
(* What staged copy edits promise, seen from the outside: a text that is   *)
(* saved waits in an entry; entries are reported as applied whole, with    *)
(* the texts they hold at that moment; entries that are discarded leave no *)
(* trace; and a source that is at rest holds what was reported and nothing *)
(* else.  Agents, chunks, repairs, rollbacks, crashes and restarts are     *)
(* work on a source that is not at rest, which may hold anything.  A       *)
(* promise until one of the known hazards breaks it.                       *)
(***************************************************************************)
CONSTANTS Refs, Saves, Nothing

VARIABLES
  staged,    \* the entry and the new text of each text, or Nothing
  reported,  \* the text last reported as applied, by the number of its save
  source,    \* the text in the source
  resting,   \* nobody is at work on the source, or has to decide
  broken     \* nothing is promised any more

Settled == resting => source = reported

Init ==
  /\ staged = [r \in Refs |-> Nothing]
  /\ reported = [r \in Refs |-> 0]
  /\ broken = FALSE
  /\ Settled

\* A new entry for the texts that are in none.
Save(rs, n) ==
  /\ \A r \in Refs : staged[r].id # n
  /\ staged' = [r \in Refs |->
       IF r \notin rs THEN staged[r]
       ELSE [id |-> IF staged[r] = Nothing THEN n ELSE staged[r].id, text |-> n]]
  /\ UNCHANGED reported

Without(ids) == [r \in Refs |-> IF staged[r].id \in ids THEN Nothing ELSE staged[r]]

Report(ids) ==
  /\ staged' = Without(ids)
  /\ reported' = [r \in Refs |-> IF staged[r].id \in ids THEN staged[r].text ELSE reported[r]]

Discard(ids) == staged' = Without(ids) /\ UNCHANGED reported

Work == UNCHANGED <<staged, reported>>

Kept ==
  /\ \/ \E rs \in SUBSET Refs, n \in Saves : Save(rs, n)
     \/ \E ids \in SUBSET Saves : Report(ids) \/ Discard(ids)
     \/ Work
  /\ Settled'
  /\ UNCHANGED broken

Break == broken'

Next == Kept \/ Break

Spec == Init /\ [][Next]_<<staged, reported, source, resting, broken>>
=============================================================================
