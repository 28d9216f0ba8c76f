--------------------------- MODULE MCLiveOverlay ---------------------------
(***************************************************************************)
(* Model-checking instances of LiveSessions and LiveOverlay.               *)
(***************************************************************************)
EXTENDS LiveOverlay, TLC

CONSTANTS a1, a2, s1, s2

AnyLane == [a \in Agents |-> EventTypes]

(***************************************************************************)
(* Two scenarios, one drawn at the start: the server with two agents and   *)
(* browsers that may post anything, and the tab with one agent, posting    *)
(* what the overlay posts.                                                 *)
(***************************************************************************)
VARIABLE scenario

\* The server has browsers of its own, and the tab stays closed.
TabClosed == UNCHANGED <<pageVars, scenario>>

\* The tab's agent is a1, only one thing goes wrong, and at most three messages
\* are under way: a generation and what waits behind it.
OneFault ==
    /\ agent'[a2] = Idle
    /\ faults' + reloads' <= 1
    /\ Cardinality(net') <= 3
    /\ UNCHANGED scenario

ScenarioInit == Init /\ PageInit /\ scenario \in {"server", "tab"}
ScenarioNext ==
    \/ scenario = "server" /\ Next /\ TabClosed
    \/ scenario = "tab" /\ OverlayNext /\ OneFault
ScenarioVars == <<allVars, scenario>>

\* The fairness of either specification, only as long as there is something to
\* wait for: WF(A) implies WF(P /\ A) for a state predicate P, so this assumes
\* less, and the properties need no more.
Deciding == \E s \in Sessions : Undecided(s)
Waiting == \E s \in Sessions : Waits(s)

ScenarioFairness ==
    /\ \A a \in Agents : WF_ScenarioVars(scenario = "server" /\ Deciding /\ Works(a) /\ TabClosed)
    /\ \A s \in Sessions, d \in Decisions :
          WF_ScenarioVars(scenario = "server" /\ Deciding /\ LeaseExpires(s, d) /\ TabClosed)
    /\ WF_ScenarioVars(scenario = "tab" /\ (Deciding \/ Waiting) /\ Progress /\ OneFault)

ScenarioSpec == ScenarioInit /\ [][ScenarioNext]_ScenarioVars /\ ScenarioFairness

\* The type invariants of both.
LiveTypeOK == TypeOK /\ OverlayTypeOK

\* The overlay, whatever goes wrong.
TabSpec ==
    Init /\ PageInit /\ scenario = "tab"
      /\ [][OverlayNext /\ UNCHANGED scenario]_ScenarioVars
=============================================================================
