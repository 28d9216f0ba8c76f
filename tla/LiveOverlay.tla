------------------------------ MODULE LiveOverlay ------------------------------
(***************************************************************************)
(* One browser tab of live mode (live-browser.js), composed with the       *)
(* design server of LiveSessions.                                          *)
(*                                                                         *)
(* The tab opens a session at each Go and shows it as generating, then as  *)
(* variants to cycle through, until the user accepts one or discards them. *)
(* It learns of the agent's work by two ways that know nothing of each     *)
(* other: the dev server's hot reload shows what is written in the source  *)
(* file, and the server broadcasts the agent's replies over a connection   *)
(* that may break.  Its own requests are fetches that run side by side.  A *)
(* page reload forgets everything but two entries of local storage, the    *)
(* saved session and the one session marked as handled.                    *)
(*                                                                         *)
(* Modelled: one page, previews in the source file, two variants to each   *)
(* session.  The confirmed state lasts one microtask, so an accepted       *)
(* session is left in the step that confirms it; the summary of sessions a *)
(* new connection begins with is read in the step that opens it.           *)
(***************************************************************************)
EXTENDS LiveSessions

CONSTANTS
    MaxClicks,   \* bound: times the user accepts or discards
    MaxReloads   \* bound: reloads of the page

ASSUME PageBoundsAssumption == MaxClicks \in Nat /\ MaxReloads \in Nat

VARIABLES
    tab,       \* the overlay's memory
    store,     \* local storage: the saved session and the one handled
    source,    \* source[s]: what the source file holds of session s
    net,       \* requests of the tab, and answers on their way back
    feed,      \* broadcasts on their way to the tab
    conn,      \* the tab's event source is connected
    clicks,    \* decisions of the user so far
    reloads,   \* page reloads so far
    seen       \* history: what the user was shown, and what became of it

pageVars == <<tab, store, source, net, feed, conn, clicks, reloads, seen>>
allVars == <<vars, pageVars>>

None == "none"
Ids == Sessions \cup {None}

ASSUME NoneAssumption == None \notin Sessions

Expected == 2   \* variants asked for

-----------------------------------------------------------------------------
(* What the file holds, what the tab holds, what it keeps.                  *)

Levels == {"clean", "scaffold", "some", "all"}

\* Slip the runs must notice: the original is counted as a variant.
CountWithOriginal(level) == CASE level = "some" -> 2 [] level = "all" -> Expected + 1 [] OTHER -> 0

Count(level) == CASE level = "some" -> 1 [] level = "all" -> Expected [] OTHER -> 0

TabStates == {"PICKING", "GENERATING", "CYCLING", "SAVING"}
Reads == [s : Sessions, why : {"completed", "orphan", "restore"}]

Tabs == [state : TabStates,
         cur : Ids,                  \* currentSessionId
         arrived : 0 .. Expected,    \* arrivedVariants
         dom : BOOLEAN,              \* the session's wrapper is in the page
         pending : Ids,              \* pendingAcceptedSession
         awaiting : Ids,             \* awaitingAcceptResult
         capture : Ids,              \* an annotated Go whose screenshot is under way
         due : SUBSET Reads,         \* reads of the source file under way
         scout : BOOLEAN]            \* init resumed nothing and watches for a wrapper

NewTab == [state |-> "PICKING", cur |-> None, arrived |-> 0, dom |-> FALSE,
           pending |-> None, awaiting |-> None, capture |-> None,
           due |-> {}, scout |-> FALSE]

NoSession == [s |-> None, state |-> "PICKING", arrived |-> 0]
Saves == [s : Ids, state : TabStates, arrived : 0 .. Expected]

\* saveSession.
Saved(t) ==
    IF t.cur = None THEN store
    ELSE [store EXCEPT !.saved = [s |-> t.cur, state |-> t.state, arrived |-> t.arrived]]

\* cleanup, and what cleanupAcceptedSession does besides.
Released(t) == [t EXCEPT !.state = "PICKING", !.cur = None, !.dom = FALSE]
ReleasedAccepted(t) == [Released(t) EXCEPT !.pending = None]

\* Slip the runs must notice: the session is not marked.
MarkedNothing(t) == [store EXCEPT !.saved = NoSession]

\* markSessionHandled, then the clearSession of either cleanup.
Marked(t) ==
    [saved |-> NoSession, handled |-> IF t.cur = None THEN store.handled ELSE t.cur]

Dismiss == tab' = Released(tab) /\ store' = Marked(tab)

\* The overlay lets go of the session it shows, after a decision on s.  There is one
\* mark, so an earlier session the user has closed may come back.
ClosedNow(s) == IF tab.cur = None THEN seen.closed ELSE (seen.closed \cup {s}) \cap {tab.cur}
Close(s) == seen' = [seen EXCEPT !.closed = ClosedNow(s)]
Drops == Close(None)

-----------------------------------------------------------------------------
(* Requests.                                                                *)

Kinds == {"generate", "checkpoint", "accept", "discard", "orphan"}
Messages == [kind : Kinds, s : Sessions, ph : {"none", "generating", "cycling"},
             behind : BOOLEAN, after : Ids, at : {"sent", "stray", "ok", "refused"}]

\* sessionCreationGate: the creation under way, which later requests wait for.
Creations == {m \in net : m.kind = "generate" /\ m.at = "sent"}
Gate == IF Creations = {} THEN None ELSE (CHOOSE m \in Creations : TRUE).s
Held(m) == \E g \in Creations : g.s = m.after

Message(kind, s) ==
    [kind |-> kind, s |-> s, ph |-> "none", behind |-> FALSE,
     after |-> IF kind = "generate" THEN None ELSE Gate, at |-> "sent"]

\* checkpointPayload.
Checkpoint(t) ==
    [Message("checkpoint", t.cur) EXCEPT
        !.ph = IF t.state = "CYCLING" THEN "cycling" ELSE "generating",
        !.behind = t.arrived < Expected]

Send(ms) == net' = net \cup ms
Drop(m) == net' = net \ {m}

\* The server's answer.  Only that to a decision makes a difference when it is
\* late; a page that was reloaded waits for none.
Answers(m, at) ==
    net' = (net \ {m}) \cup
        IF m.at = "sent" /\ m.kind \in Decisions THEN {[m EXCEPT !.at = at]} ELSE {}

Say(type, s) ==
    feed' = IF conn THEN Append(feed, [type |-> type, s |-> s]) ELSE feed

Arrives(m) == up /\ m \in net /\ m.at \in {"sent", "stray"} /\ ~Held(m)

QuietServer == UNCHANGED vars
ServerOnly == UNCHANGED <<tab, store, source, conn, clicks, reloads, seen, posts>>

ServeGenerate(m) ==
    /\ Arrives(m) /\ m.kind = "generate"
    /\ PostOpening(m.s)
    /\ Drop(m)
    /\ ServerOnly /\ UNCHANGED feed

\* detectMissedGenerationCompletion: the tab still waits for what is done.
Missed(m) ==
    m.ph = "generating" /\ m.behind /\ journal[m.s].ready /\ ~Fenced(journal[m.s])

ServeCheckpoint(m) ==
    /\ Arrives(m) /\ m.kind = "checkpoint" /\ Known(m.s)
    /\ PostCheckpoint(m.s, m.ph)
    /\ Drop(m)
    /\ IF Missed(m) THEN Say("done", m.s) ELSE UNCHANGED feed
    /\ ServerOnly

ServeDecision(m) ==
    /\ Arrives(m) /\ m.kind \in Decisions /\ Known(m.s)
    /\ PostDecision(m.s, m.kind)
    /\ Answers(m, "ok")
    /\ ServerOnly /\ UNCHANGED feed

ServeOrphan(m) ==
    /\ Arrives(m) /\ m.kind = "orphan" /\ Known(m.s)
    /\ PostOrphanedDiscard(m.s)
    /\ Drop(m)
    /\ ServerOnly /\ UNCHANGED feed

\* The server has never heard of the session.  A page that reports progress of it
\* drops it (abandonForeignSession).
Refuse(m) ==
    /\ Arrives(m) /\ m.kind # "generate" /\ ~Known(m.s)
    /\ Answers(m, "refused")
    /\ IF m.kind = "checkpoint" /\ m.at = "sent" /\ m.s = tab.cur
       THEN Dismiss /\ Drops ELSE UNCHANGED <<tab, store, seen>>
    /\ QuietServer
    /\ UNCHANGED <<source, feed, conn, clicks, reloads>>

\* A request or its answer is lost, or the server is down.
Lose(m) ==
    /\ m \in net /\ m.at # "refused"
    /\ IF ~up /\ m.at # "ok" THEN UNCHANGED faults
       ELSE faults < MaxFaults /\ faults' = faults + 1
    /\ IF m.at = "ok" THEN net' = (net \ {m}) \cup {[m EXCEPT !.at = "refused"]}
                     ELSE Answers(m, "refused")
    /\ UNCHANGED <<journal, queue, polls, agent, up, handed, spoiled, posts>>
    /\ UNCHANGED <<tab, store, source, feed, conn, clicks, reloads, seen>>

-----------------------------------------------------------------------------
(* What the user does.                                                      *)

Acts == QuietServer /\ UNCHANGED <<source, feed, conn>>

\* handleGo.  The first checkpoint is sent before the request that creates the
\* session, so it waits for the creation before that one, if for any; a Go with
\* annotations creates the session once its screenshot is uploaded.
Go(s, annotated) ==
    LET t == [tab EXCEPT !.state = "GENERATING", !.cur = s, !.arrived = 0,
                         !.dom = FALSE, !.pending = None, !.awaiting = None]
    IN /\ tab.state = "PICKING"
       /\ s \notin seen.begun
       /\ tab' = IF annotated THEN [t EXCEPT !.capture = s] ELSE t
       /\ store' = Saved(t)
       /\ Send({Checkpoint(t)} \cup IF annotated THEN {} ELSE {Message("generate", s)})
       /\ seen' = [seen EXCEPT !.begun = @ \cup {s}, !.page = {}]
       /\ Acts /\ UNCHANGED <<clicks, reloads>>

\* captureAndEmit, whatever has become of the session meanwhile.
Captured ==
    /\ tab.capture # None
    /\ tab' = [tab EXCEPT !.capture = None]
    /\ Send({Message("generate", tab.capture)})
    /\ Acts /\ UNCHANGED <<store, clicks, reloads, seen>>

Clicks == clicks < MaxClicks /\ clicks' = clicks + 1

\* handleAccept.
Accept ==
    /\ tab.cur # None /\ tab.arrived > 0 /\ tab.pending = None
    /\ tab.state = "CYCLING"
    /\ tab' = [tab EXCEPT !.state = "SAVING", !.pending = tab.cur]
    /\ store' = Saved(tab')
    /\ Send({Message("accept", tab.cur)})
    /\ seen' = [seen EXCEPT !.page = @ \ {tab.cur}, !.failed = @ \ {tab.cur},
                            !.alarmed = @ \ {tab.cur}]
    /\ Clicks /\ Acts /\ UNCHANGED reloads

\* handleDiscard.
Discard ==
    /\ tab.cur # None /\ tab.state = "CYCLING"
    /\ Send({Message("discard", tab.cur)})
    /\ Clicks /\ Acts /\ UNCHANGED <<tab, store, reloads, seen>>

-----------------------------------------------------------------------------
(* Answers come back.                                                       *)

Returned(m) == m \in net /\ m.at \in {"ok", "refused"} /\ Drop(m)

\* The accept is durable: the picker is free at once.
AcceptConfirmed(m) ==
    /\ Returned(m) /\ m.kind = "accept" /\ m.at = "ok"
    /\ IF tab.pending = m.s
       THEN /\ tab' = [ReleasedAccepted(tab) EXCEPT !.awaiting = m.s]
            /\ store' = Marked(tab)
            /\ seen' = [seen EXCEPT !.told = @ \cup {m.s}, !.page = {m.s},
                                    !.closed = ClosedNow(m.s)]
       ELSE UNCHANGED <<tab, store, seen>>
    /\ Acts /\ UNCHANGED <<clicks, reloads>>

\* It could not be confirmed: whatever is on, the overlay goes back to cycling.
AcceptFails(m) ==
    /\ Returned(m) /\ m.kind = "accept" /\ m.at # "ok"
    /\ tab' = [tab EXCEPT !.state = "CYCLING",
                          !.pending = IF @ = m.s THEN None ELSE @]
    /\ Acts /\ UNCHANGED <<store, clicks, reloads, seen>>

DiscardReturns(m) ==
    /\ Returned(m) /\ m.kind = "discard"
    /\ IF m.at = "ok" THEN Dismiss /\ Close(m.s)
                      ELSE UNCHANGED <<tab, store, seen>>
    /\ Acts /\ UNCHANGED <<clicks, reloads>>

-----------------------------------------------------------------------------
(* The source file shows through.                                           *)

Shows(t) == tab' = t /\ store' = Saved(t)

\* startVariantObserver, after the dev server patched the page.
HotReload ==
    /\ tab.cur # None
    /\ Count(source[tab.cur]) > tab.arrived
    /\ Shows([tab EXCEPT !.arrived = Count(source[tab.cur]), !.dom = TRUE,
                         !.state = "CYCLING", !.scout = FALSE])
    /\ Send({Checkpoint(tab')})
    /\ Acts /\ UNCHANGED <<clicks, reloads, seen>>

Reading(r) == [tab EXCEPT !.due = @ \ {r}]

\* resumeSession from the wrapper in the page.
Resumed(t, s) ==
    [t EXCEPT !.cur = s, !.arrived = Count(source[s]), !.dom = TRUE, !.scout = FALSE,
              !.state = IF Count(source[s]) > 0 THEN "CYCLING" ELSE "GENERATING"]

\* A wrapper put into the page is the first that the observer of init gets to see.
Spotted(s) == tab.scout /\ store.handled # s

Resumes(t, s) == Shows(Resumed(t, s)) /\ Send({Checkpoint(Resumed(t, s))})

\* injectVariantsFromSource, the last of its attempts: the variants are there,
\* whatever session the tab has come to show ...
ReadVariants(r) ==
    /\ r \in tab.due
    /\ Count(source[r.s]) > 0
    /\ IF Spotted(r.s) THEN Resumes(Reading(r), r.s)
       ELSE /\ Shows([Reading(r) EXCEPT !.arrived = Count(source[r.s]), !.dom = TRUE,
                                        !.state = "CYCLING", !.scout = FALSE])
            /\ UNCHANGED net
    /\ Acts /\ UNCHANGED <<clicks, reloads, seen>>

\* ... or only the scaffold is: while it generates the overlay waits on, unless it
\* knows that generation is over (recoverEmptyCycling) ...
ReadScaffold(r) ==
    /\ r \in tab.due
    /\ source[r.s] = "scaffold"
    /\ LET t == [Reading(r) EXCEPT !.arrived = 0, !.dom = TRUE, !.scout = FALSE]
       IN IF Spotted(r.s) THEN Resumes(t, r.s)
          ELSE /\ IF tab.state = "GENERATING" /\ r.why # "completed"
                  THEN tab' = t /\ UNCHANGED store
                  ELSE tab' = Released(t) /\ store' = [store EXCEPT !.saved = NoSession]
               /\ UNCHANGED net
    /\ Acts /\ UNCHANGED <<clicks, reloads, seen>>

\* ... or nothing is: a session that had its variants is an orphan, and is let go
\* of without a decision of the user.
ReadNothing(r) ==
    /\ r \in tab.due
    /\ source[r.s] = "clean"
    /\ IF /\ r.why = "orphan" /\ r.s = tab.cur
          /\ tab.state \in {"GENERATING", "CYCLING"}
       THEN /\ Send({Message("orphan", r.s)})
            /\ tab' = Released(Reading(r))
            /\ store' = Marked(tab)
            /\ Drops
       ELSE tab' = Reading(r) /\ UNCHANGED <<store, net, seen>>
    /\ Acts /\ UNCHANGED <<clicks, reloads>>

\* Nothing was there yet, and the tab has moved on before the next attempt.
StaleRead(r) == r.why = "completed" /\ ~(tab.state = "GENERATING" /\ tab.cur = r.s
                                        /\ tab.arrived < Expected)

ReadDropped(r) ==
    /\ r \in tab.due /\ StaleRead(r)
    /\ tab' = Reading(r)
    /\ Acts /\ UNCHANGED <<store, net, clicks, reloads, seen>>

-----------------------------------------------------------------------------
(* The connection, and the page itself.                                     *)

Restorable(save) ==
    /\ save.s # None
    /\ store.handled # save.s
    /\ save.state \in {"GENERATING", "CYCLING"}

\* restoreSessionWithoutWrapper, once it has found what to restore.  The file is
\* read if its name is known.
RestoredTab(t, save, known) ==
    [t EXCEPT !.cur = save.s, !.arrived = save.arrived, !.state = "GENERATING",
              !.due = @ \cup IF ~known THEN {}
                  ELSE {[s |-> save.s,
                         why |-> IF save.state = "CYCLING" THEN "orphan" ELSE "restore"]}]

Open == {s \in Sessions : Known(s) /\ journal[s].phase \notin CompletedPhases}
Terminal(s) == journal[s].phase \in CompletedPhases \cup
                   {"discard_requested", "accept_requested"}

\* findAdoptableServerSession.
Adoptable ==
    {s \in Open : /\ journal[s].phase \in {"generate_requested", "variants_ready",
                                          "generating", "cycling"}
                  /\ store.handled # s
                  /\ Shown(s)}

\* What the tab restores when the server tells it of its open sessions.
Candidates ==
    IF tab.dom /\ (tab.cur = None \/ source[tab.cur] # "clean") THEN {}
    ELSE IF store.saved.s # None
    THEN {save \in {store.saved} :
             /\ Restorable(save)
             /\ Open = {} \/ (save.s \in Open /\ ~Terminal(save.s))}
    ELSE {[s |-> s, state |-> "GENERATING", arrived |-> 0] : s \in Adoptable}

\* Slip the runs must notice: a new connection looks for nothing it missed.
RecoversNothing(t) == t

\* recoverMissedGenerationCompletion.
Recovers(t) ==
    IF /\ t.state = "GENERATING" /\ t.cur \in Open
       /\ journal[t.cur].ready /\ ~Canceled(journal[t.cur]) /\ ~Terminal(t.cur)
       /\ t.arrived < Expected
    THEN [t EXCEPT !.due = @ \cup {[s |-> t.cur, why |-> "completed"]}]
    ELSE t

Connect ==
    /\ up /\ ~conn
    /\ conn' = TRUE
    /\ IF Candidates = {}
       THEN tab' = Recovers(tab) /\ UNCHANGED <<store, net>>
       ELSE \E save \in Candidates, known \in BOOLEAN :
              LET t == RestoredTab([tab EXCEPT !.dom = FALSE], save, known)
              IN /\ save.s \in Open /\ journal[save.s].ready => known
                 /\ tab' = Recovers(t) /\ store' = Saved(t) /\ Send({Checkpoint(t)})
    /\ QuietServer /\ UNCHANGED <<source, feed, clicks, reloads, seen>>

\* What was broadcast and not yet heard is lost.
CutOff == conn' = FALSE /\ feed' = <<>>

Disconnect ==
    /\ conn
    /\ faults < MaxFaults /\ faults' = faults + 1
    /\ CutOff
    /\ seen' = [seen EXCEPT !.failed = {}]
    /\ UNCHANGED <<journal, queue, polls, agent, up, handed, spoiled, posts>>
    /\ UNCHANGED <<tab, store, source, net, clicks, reloads>>

\* Requests that were sent go on without the page, those held are never sent.  Of
\* a checkpoint nothing is left.
Stray == {[m EXCEPT !.at = "stray", !.after = None] :
             m \in {n \in net : /\ n.at \in {"sent", "stray"} /\ ~Held(n)
                               /\ n.kind # "checkpoint"}}

Wrapped == {s \in Sessions : source[s] # "clean"}

ResumeFromWrapper(s, t) ==
    IF store.handled = s
    THEN tab' = [t EXCEPT !.scout = TRUE] /\ UNCHANGED store /\ net' = Stray
    ELSE Shows(Resumed(t, s)) /\ net' = Stray \cup {Checkpoint(Resumed(t, s))}

\* resumeSession without one.  What cannot be restored is forgotten, and with it
\* which session was handled.
ResumeWithout(t, late) ==
    IF Restorable(store.saved)
    THEN \E known \in BOOLEAN :
            LET r == RestoredTab([t EXCEPT !.dom = late], store.saved, known)
            IN Shows(r) /\ net' = Stray \cup {Checkpoint(r)}
    ELSE /\ tab' = [t EXCEPT !.scout = TRUE]
         /\ store' = [saved |-> NoSession, handled |-> None]
         /\ net' = Stray

\* The page is loaded anew.  A framework that hydrates after init shows the wrapper
\* late, if there is one.
Reload(late) ==
    /\ reloads < MaxReloads /\ reloads' = reloads + 1
    /\ CutOff
    /\ late => Wrapped # {}
    /\ IF Wrapped = {} \/ late
       THEN ResumeWithout(NewTab, late)
       ELSE \E s \in Wrapped : ResumeFromWrapper(s, NewTab)
    /\ seen' = [seen EXCEPT !.late = @ \/ late, !.page = {}, !.failed = {}]
    /\ QuietServer /\ UNCHANGED <<source, clicks>>

\* The observer that init leaves behind finds a wrapper, put there by the
\* framework or by the dev server.
Scout ==
    /\ tab.scout
    /\ \E s \in Wrapped :
          IF Spotted(s) THEN Resumes(tab, s)
          ELSE tab' = [tab EXCEPT !.scout = FALSE] /\ UNCHANGED <<store, net>>
    /\ Acts /\ UNCHANGED <<clicks, reloads, seen>>

-----------------------------------------------------------------------------
(* What the server broadcasts.                                              *)

Hears(type) == feed # <<>> /\ Head(feed).type = type /\ feed' = Tail(feed)
Said == Head(feed).s
Hearing == QuietServer /\ UNCHANGED <<source, net, conn, clicks, reloads>>

\* Slip the runs must notice: any reply of the agent ends the wait for the accept.
HearDoneForgetful ==
    /\ Hears("done")
    /\ tab' = [tab EXCEPT !.awaiting = None]
    /\ Hearing /\ UNCHANGED <<store, seen>>

HearDone ==
    /\ Hears("done")
    /\ tab' =
         IF tab.state # "GENERATING" THEN tab
         ELSE IF tab.arrived = Expected THEN [tab EXCEPT !.state = "CYCLING"]
         ELSE IF Said = tab.cur
         THEN [tab EXCEPT !.due = @ \cup {[s |-> Said, why |-> "completed"]}]
         ELSE tab
    /\ Hearing /\ UNCHANGED <<store, seen>>

\* "complete", or "agent_done" with cleanup left: the accept went through.
HearAccepted ==
    /\ Hears("accepted")
    /\ LET t == [tab EXCEPT !.awaiting = IF @ = Said THEN None ELSE @]
       IN IF tab.pending # Said THEN tab' = t /\ UNCHANGED <<store, seen>>
          ELSE IF tab.cur \notin {None, Said}
          THEN tab' = [t EXCEPT !.pending = None] /\ UNCHANGED <<store, seen>>
          ELSE /\ tab' = ReleasedAccepted(t)
               /\ store' = Marked(tab)
               /\ seen' = [seen EXCEPT !.told = @ \cup {Said},
                                       !.closed = ClosedNow(Said)]
    /\ Hearing

HearDiscarded ==
    /\ Hears("discarded")
    /\ IF Said = tab.cur THEN Dismiss /\ Close(Said)
                         ELSE UNCHANGED <<tab, store, seen>>
    /\ Hearing

\* An error is about the accept under way, or about one that was taken for done,
\* or it ends the session it names.
HearError ==
    /\ Hears("error")
    /\ CASE tab.pending = Said ->
              /\ tab' = [tab EXCEPT !.pending = None, !.awaiting = None, !.state = "CYCLING"]
              /\ seen' = [seen EXCEPT !.page = @ \cap {Said}, !.alarmed = @ \cup {Said}]
              /\ UNCHANGED store
         [] tab.pending # Said /\ tab.awaiting = Said ->
              /\ tab' = [tab EXCEPT !.awaiting = None]
              /\ seen' = [seen EXCEPT !.alarmed = @ \cup {Said}]
              /\ UNCHANGED store
         [] Said \notin {tab.pending, tab.awaiting} /\ Said = tab.cur ->
              Dismiss /\ Drops
         [] OTHER ->
              /\ tab' = [tab EXCEPT !.state = "PICKING"]
              /\ store' = IF store.saved.s = Said
                          THEN [store EXCEPT !.saved = NoSession] ELSE store
              /\ UNCHANGED seen
    /\ Hearing

-----------------------------------------------------------------------------
(* The agent, as far as the page sees it.                                   *)

Writes(s, level) == source' = [source EXCEPT ![s] = level]
Unseen == UNCHANGED <<tab, store, net, conn, clicks, reloads>>
Silent == Unseen /\ UNCHANGED <<source, feed, seen>>

\* The wrapper is put around the element, if it is not there.
AgentScaffolds(a) ==
    /\ ScaffoldDone(a)
    /\ Writes(agent[a].s, IF source[agent[a].s] = "clean" THEN "scaffold"
                                                          ELSE source[agent[a].s])
    /\ Unseen /\ UNCHANGED <<feed, seen>>

\* The agent edits the file, as long as it finds the wrapper there.
AgentWrites(a) ==
    /\ On(a, {"generate"})
    /\ LET s == agent[a].s
       IN \/ source[s] = "scaffold" /\ Writes(s, "some")
          \/ source[s] = "some" /\ Writes(s, "all")
    /\ QuietServer
    /\ Unseen /\ UNCHANGED <<feed, seen>>

AgentDone(a) == ReplyDone(a) /\ Say("done", agent[a].s) /\ Unseen /\ UNCHANGED <<source, seen>>
AgentError(a) == ReplyError(a) /\ Say("error", agent[a].s) /\ Unseen /\ UNCHANGED <<source, seen>>

\* live-accept.mjs has rewritten the source, or has left it to the agent, or has
\* failed.
AgentAccepts(a, kind, carbonize) ==
    LET s == agent[a].s
    IN /\ ReplyAccept(a, kind, carbonize)
       /\ IF kind = "complete" \/ carbonize THEN Writes(s, "clean") ELSE UNCHANGED source
       /\ IF kind = "agent_done" /\ ~carbonize THEN UNCHANGED feed
          ELSE Say(IF kind = "error" THEN "error" ELSE "accepted", s)
       /\ seen' = IF kind = "error" /\ conn /\ source[s] # "clean" THEN [seen EXCEPT !.failed = @ \cup {s}] ELSE seen
       /\ Unseen

AgentDiscards(a, kind) ==
    /\ ReplyDiscard(a, kind)
    /\ IF kind = "discarded" THEN Writes(agent[a].s, "clean") ELSE UNCHANGED source
    /\ Say(kind, agent[a].s)
    /\ Unseen /\ UNCHANGED seen

AgentCompletes(a) ==
    \/ /\ Complete(a)
       /\ Writes(agent[a].s, "clean")
       /\ Say("accepted", agent[a].s)
       /\ Unseen /\ UNCHANGED seen
    \/ /\ CompleteOffline(a)
       /\ Writes(agent[a].s, "clean")
       /\ Unseen /\ UNCHANGED <<feed, seen>>

AgentAnswers(a) ==
    \/ AgentDone(a)
    \/ AgentError(a)
    \/ \E r \in AcceptReplies : AgentAccepts(a, r[1], r[2])
    \/ \E kind \in DiscardReplies : AgentDiscards(a, kind)
    \/ AgentCompletes(a)

\* An agent that waits takes an event as soon as there is one, and keeps it until
\* it answers or vanishes: parked polls and overlapping leases are LiveSessions'.
AgentPolls(a) == Available(queue, Lanes[a]) # {} /\ Poll(a) /\ Silent
Expires(s, t) ==
    /\ \A a \in Agents : <<agent[a].s, agent[a].type>> # <<s, t>>
    /\ LeaseExpires(s, t)
    /\ Silent

AgentMoves(a) ==
    \/ AgentPolls(a) \/ AgentScaffolds(a) \/ AgentWrites(a) \/ AgentAnswers(a)
    \/ Vanish(a) /\ Silent

ServerDies ==
    /\ Crash
    /\ CutOff
    /\ seen' = [seen EXCEPT !.failed = {}]
    /\ UNCHANGED <<tab, store, source, net, clicks, reloads>>

ServerRestarts == Restart /\ Silent

-----------------------------------------------------------------------------
PageInit ==
    /\ tab = [NewTab EXCEPT !.scout = TRUE]
    /\ store = [saved |-> NoSession, handled |-> None]
    /\ source = [s \in Sessions |-> "clean"]
    /\ net = {}
    /\ feed = <<>>
    /\ conn = FALSE
    /\ clicks = 0
    /\ reloads = 0
    /\ seen = [begun |-> {}, closed |-> {}, told |-> {}, page |-> {}, alarmed |-> {},
               failed |-> {}, late |-> FALSE]

User == (\E s \in Sessions \ Steers, annotated \in BOOLEAN : Go(s, annotated))
        \/ Accept \/ Discard \/ \E late \in BOOLEAN : Reload(late)

Serves(m) == ServeGenerate(m) \/ ServeCheckpoint(m) \/ ServeDecision(m)
             \/ ServeOrphan(m) \/ Refuse(m)
Returns(m) == AcceptConfirmed(m) \/ AcceptFails(m) \/ DiscardReturns(m)
Network == \E m \in net : Serves(m) \/ Returns(m)
Losses == \E m \in net : Lose(m)
Hear == HearDone \/ HearAccepted \/ HearDiscarded \/ HearError
Read == \E r \in tab.due : ReadVariants(r) \/ ReadScaffold(r) \/ ReadNothing(r)
                           \/ ReadDropped(r)

OverlayNext ==
    \/ User \/ Captured \/ Network \/ Losses \/ Hear \/ HotReload \/ Read \/ Scout
    \/ Connect \/ Disconnect
    \/ \E a \in Agents : AgentMoves(a)
    \/ \E s \in Sessions, t \in EventTypes : Expires(s, t)
    \/ ServerDies \/ ServerRestarts

OverlaySafe == Init /\ PageInit /\ [][OverlayNext]_allVars

\* The browser carries on with what it has begun and reconnects, agents and timers
\* do what they owe.  None of it can go on for ever, so one fairness is enough.
\* The user owes nothing, and the dev server neither: hot reload may never come.
Progress ==
    \/ Network \/ Hear \/ Read \/ Connect \/ Captured \/ ServerRestarts
    \/ \E a \in Agents : AgentPolls(a) \/ AgentScaffolds(a) \/ AgentAnswers(a)
    \/ \E s \in Sessions, t \in EventTypes : Expires(s, t)

OverlaySpec == OverlaySafe /\ WF_allVars(Progress)

-----------------------------------------------------------------------------
\* The variables have their types.
OverlayTypeOK ==
    /\ tab \in Tabs
    /\ store \in [saved : Saves, handled : Ids]
    /\ source \in [Sessions -> Levels]
    /\ net \subseteq Messages
    /\ conn \in BOOLEAN
    /\ clicks \in 0 .. MaxClicks
    /\ reloads \in 0 .. MaxReloads

\* The session the overlay has let go of last after the user's decision comes back
\* by no reload and no reconnection, though its wrapper may be in the source for
\* long (markSessionHandled: there is one mark, so an earlier one may).  Not so if
\* the canceled generation is written to the journal again, or if the page hydrates
\* its wrapper only after init has forgotten what was handled.
HandledStaysClosed ==
    tab.cur \in seen.closed => tab.cur \in spoiled \/ seen.late

\* Once the user is told that a variant is accepted, no crash of the server and
\* no late reply of the canceled generation loses the accept before an agent has
\* carried it out or has failed to.
AcceptKept ==
    \A s \in seen.told \ spoiled :
        \/ journal[s].pending.type = "accept"
        \/ journal[s].phase \in {"carbonize_required", "completed", "agent_error"}

\* An accept that fails after the overlay has let go of the session, with nothing
\* written, is told to the user as such, as long as the page is neither reloaded nor
\* cut off, no new Go begins, and no other accept's failure has ended the wait (the
\* server's "error" in connectSSE, against acceptedSessionIdAwaitingComplete).
FailureHeard ==
    \A s \in seen.page \cap seen.failed :
        source[s] # "clean" =>
            s \in seen.alarmed \/ [type |-> "error", s |-> s] \in ToSet(feed)

\* An accept the user was told of is carried out, or he hears that it failed.
AcceptAccounted == AcceptKept /\ FailureHeard

Waits(s) ==
    /\ tab.cur = s /\ tab.state = "GENERATING"
    /\ journal[s].ready /\ ~Canceled(journal[s])
    /\ source[s] = "all"
    /\ ~seen.late

\* A finished generation gets to the tab that waits for it, whatever broadcast was
\* missed and though hot reload may never come.
GenerationShown == \A s \in Sessions \ Steers : Waits(s) ~> ~Waits(s)

\* live-browser.js:7144, "Progress events must never overtake the event that
\* CREATES their session": no session is dropped while its creation is under way.
Creating(s) == tab.capture = s \/ \E m \in net : m.kind = "generate" /\ m.s = s
GoNotAbandoned ==
    [][\A s \in Sessions : tab.cur = s /\ Creating(s) => tab.cur' = s]_allVars

=============================================================================
