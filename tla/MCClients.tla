------------------------------ MODULE MCClients ------------------------------
(***************************************************************************)
(* Model-checking instance of three parts that run on somebody's own       *)
(* machine: the tabs of BrowserSession; ManualEdits, with two texts on one *)
(* page and one on another, in two files; and the runs of Accepts.         *)
(***************************************************************************)
EXTENDS BrowserSession, ManualEdits, Accepts, TLC

CONSTANTS p1, p2, r1, r2, r3, f1, f2, a1, a2, s1, v1

OnPage == (r1 :> p1) @@ (r2 :> p1) @@ (r3 :> p2)
InFile == (r1 :> f1) @@ (r2 :> f2) @@ (r3 :> f1)

\* The part a behaviour is about, drawn at the start: they share no state.
VARIABLE scenario

Others(of) == scenario = of /\ UNCHANGED scenario

\* The Applies are interchangeable: a1 is the first.  The first save is of r1, which
\* shares its page with r2 and its file with r3, alone or with r2.
InOrder ==
    /\ started' > started =>
         LET other == IF started = 0 THEN a2 ELSE a1 IN work'[other] = work[other]
    /\ saves' > saves => wish'[r1] # 0

\* Once one of the known hazards has happened, which EditKept and AppliesAtomic
\* say nothing about, nobody begins anything: what is under way comes to its
\* end.
EditsNext ==
    /\ \/ /\ spoiled = {}
          /\ \/ \E p \in Pages : User(p)
             \/ \E j \in jobs : Agent(j)
             \/ Crash
       \/ \E a \in Applies : Goes_on(a) \/ TimeOut(a)
       \/ Restart
    /\ InOrder

\* The first run accepts v1 for s1, and others than s1 are only asked v1: any
\* other behaviour is one of these with other names, or has fewer conflicts.  Two
\* runs at most are alive at once, besides one that was killed.
RunsNext ==
    /\ AcceptsNext
    /\ runs'[1] # NotStarted => runs'[1].s = s1 /\ runs'[1].choice = v1
    /\ \A r \in Runs : runs'[r] # NotStarted /\ runs'[r].s # s1 => runs'[r].choice = v1
    /\ Cardinality({r \in Runs \ dead' : runs'[r].pc \notin {"off", "over"}}) <= 2

ScenarioInit ==
    /\ TabsInit /\ Init /\ AcceptsInit
    /\ scenario \in {"tabs", "edits", "accepts"}

ScenarioNext ==
    \/ Others("tabs") /\ TabsNext /\ UNCHANGED <<vars, acceptVars>>
    \/ Others("edits") /\ EditsNext /\ UNCHANGED <<tabVars, acceptVars>>
    \/ Others("accepts") /\ RunsNext /\ UNCHANGED <<tabVars, vars>>

ScenarioVars == <<tabVars, vars, acceptVars, scenario>>

(***************************************************************************)
(* The fairness of each part, only as long as there is something to wait   *)
(* for: WF(A) implies WF(P /\ A) for a state predicate P, so this assumes  *)
(* less, and the properties need no more.                                  *)
(***************************************************************************)
ScenarioFairness ==
    /\ \A w \in Tabs :
          /\ WF_tabVars(scenario = "tabs" /\ waiting[w] > 0 /\ \E m \in Exchange(w) : ServeRefresh(m))
          /\ WF_tabVars(scenario = "tabs" /\ waiting[w] > 0 /\ \E m \in net : Granted(w, m) \/ Refused(w, m))
    /\ \A a \in Applies :
          /\ WF_vars(scenario = "edits" /\ a \in Busy /\ Goes_on(a))
          /\ WF_vars(scenario = "edits" /\ a \in Busy /\ TimeOut(a))

ScenarioSpec == ScenarioInit /\ [][ScenarioNext]_ScenarioVars /\ ScenarioFairness

(***************************************************************************)
(* The type invariants of all parts.                                       *)
(***************************************************************************)
ClientsTypeOK == TabsTypeOK /\ TypeOK /\ AcceptsTypeOK
=============================================================================
