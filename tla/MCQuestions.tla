----------------------------- MODULE MCQuestions -----------------------------
(***************************************************************************)
(* Model-checking instance of Questions: two tabs, three hands, of which   *)
(* the second keeps the table open.                                        *)
(***************************************************************************)
EXTENDS Questions, TLC

CONSTANT w2

\* The second window is not the first in which the address is opened.  Once a delivery
\* has failed, the user makes one move less.
HandsNext ==
    /\ QuestionsNext
    /\ moves = 0 => shown'[w2] = shown[w2]
    /\ agent.fails > 0 /\ moves' > moves => moves' < MaxMoves

\* The fairness that AbandonedCloses needs: a table that never closes is abandoned for
\* ever from some state on, and from there this is QuestionsFairness.
HandsFairness ==
    /\ WF_questionVars(Abandoned /\ PagesGoOn)
    /\ WF_questionVars(Abandoned /\ CommandGoesOn)
    /\ SF_questionVars(Abandoned /\ TimePasses)

HandsSpec == QuestionsInit /\ [][HandsNext]_questionVars /\ HandsFairness
=============================================================================
