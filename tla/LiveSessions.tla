------------------------------ MODULE LiveSessions ------------------------------
(***************************************************************************)
(* The live design server kept with the repository's agent skill           *)
(* (.opencode/skills/impeccable/scripts/live-server.mjs) and its durable   *)
(* session store (live/session-store.mjs).                                 *)
(*                                                                         *)
(* A browser posts events about a session: it asks for variants of an      *)
(* element (generate), or sends the page a request in words (steer),       *)
(* reports its progress (checkpoint), and at last accepts a variant or     *)
(* discards them all.  The server appends each event to the session's      *)
(* journal, keeps in memory a queue of the events that need an agent, and  *)
(* hands the queue to agents that poll for work: an entry handed out is    *)
(* leased, comes back when the lease expires and leaves on the agent's     *)
(* reply.  A restart rebuilds the queue from the journals: one pending     *)
(* event per session is all a journal remembers.                           *)
(*                                                                         *)
(* One action is one turn of the server's event loop.  The one place where *)
(* a handler awaits between two of its writes, the scaffolding of a        *)
(* generate event before it is handed out, is split there.  Leases and     *)
(* polls expire at any moment their timers may fire.                       *)
(***************************************************************************)
EXTENDS Integers, Sequences, FiniteSets, SequencesExt

CONSTANTS
    Sessions,    \* session ids, drawn by the browser at each Go and each steer
    Steers,      \* those that are requests in words, with no variants to decide on
    Agents,      \* agent processes that poll the server
    Lanes,       \* Lanes[a]: the event types agent a polls for (--types)
    MaxPosts,    \* bound: events the browser posts
    MaxFaults    \* bound: crashes of the server and agents that vanish

EventTypes == {"generate", "steer", "accept", "discard", "variant_mount_failed"}
Decisions == {"accept", "discard"}

\* The journals on disk are finitely many.
ASSUME SessionsAssumption == IsFiniteSet(Sessions)
ASSUME SteersAssumption == Steers \subseteq Sessions
ASSUME LanesAssumption == Lanes \in [Agents -> SUBSET EventTypes]
ASSUME BoundsAssumption == MaxPosts \in Nat /\ MaxFaults \in Nat

VARIABLES
    journal,   \* what replaying the session's journal yields
    queue,     \* state.pendingEvents, in the order of their seq
    polls,     \* state.pendingPolls: the agents parked, in order of arrival
    agent,     \* what each agent process is doing
    up,        \* the server runs
    handed,    \* history: events some agent has been handed, scaffolded
    spoiled,   \* history: sessions whose one pending slot was contended after the
               \* user's decision, by a late write of the canceled generation or
               \* by the opposite decision
    posts,     \* events posted so far
    faults     \* crashes and vanished agents so far

vars == <<journal, queue, polls, agent, up, handed, spoiled, posts, faults>>

-----------------------------------------------------------------------------
(* The snapshot of a session and what each journaled event does to it.      *)

NoEvent == [type |-> "none", prepared |-> FALSE]
PendingEvents == {NoEvent} \cup [type : EventTypes, prepared : BOOLEAN]

\* Phases after which a late generation write is to be ignored, and those that
\* retire a session.
FencedPhases == {"accept_requested", "discard_requested", "carbonize_required",
                 "completed", "discarded"}
CompletedPhases == {"completed", "discarded"}
Phases == FencedPhases \cup
    {"absent", "generate_requested", "generating", "cycling", "variants_ready",
     "steer_requested", "steer", "steer_done", "agent_error"}

Snapshots == [phase : Phases, cancelReason : Decisions \cup {"none"},
              ready : BOOLEAN, pending : PendingEvents]
EmptySnapshot == [phase |-> "absent", cancelReason |-> "none", ready |-> FALSE,
                  pending |-> NoEvent]

\* generationCanceled.
Canceled(j) == j.cancelReason # "none"

Pending(t, prepared) == [type |-> t, prepared |-> prepared]

\* Slip the runs must notice: the fence looks at the phase and forgets the flag.
FencedByPhase(j) == j.phase \in FencedPhases

\* Slip the runs must notice: only a session that is over is fenced.
FencedWhenOver(j) == j.phase \in CompletedPhases

\* Generation writes no longer count: the user has decided.
Fenced(j) == Canceled(j) \/ j.phase \in FencedPhases

OnGenerate(j, prepared) ==
    [j EXCEPT !.phase = "generate_requested",
              !.pending = Pending("generate", prepared)]
OnSteer(j) ==
    [j EXCEPT !.phase = "steer_requested", !.pending = Pending("steer", FALSE)]
OnDecision(j, d) ==
    [j EXCEPT !.phase = IF d = "accept" THEN "accept_requested"
                                        ELSE "discard_requested",
              !.cancelReason = d,
              !.pending = Pending(d, FALSE)]

\* Slip the runs must notice: a mount failure takes the slot of what is pending.
OnMountFailedClobbering(j) ==
    [j EXCEPT !.pending = Pending("variant_mount_failed", FALSE)]

OnMountFailed(j) ==
    IF j.pending = NoEvent
    THEN [j EXCEPT !.pending = Pending("variant_mount_failed", FALSE)]
    ELSE j

OnCheckpoint(j, ph) == IF Fenced(j) THEN j ELSE [j EXCEPT !.phase = ph]
OnAgentDone(j, carbonize) ==
    IF Fenced(j) /\ ~(carbonize /\ j.phase = "accept_requested")
    THEN j
    ELSE [j EXCEPT !.phase = IF carbonize THEN "carbonize_required"
                                          ELSE "variants_ready",
                   !.ready = TRUE,
                   !.pending = NoEvent]
OnClosed(j, ph) == [j EXCEPT !.phase = ph, !.pending = NoEvent]
OnAgentError(j, source) ==
    IF Canceled(j) /\ source = "generate" THEN j ELSE OnClosed(j, "agent_error")

-----------------------------------------------------------------------------
(* The queue.                                                               *)

Entries == [s : Sessions, type : EventTypes, prepared : BOOLEAN, leased : BOOLEAN]

Entry(s, ev) == [s |-> s, type |-> ev.type, prepared |-> ev.prepared,
                 leased |-> FALSE]

Positions(q, s, t) == {i \in DOMAIN q : q[i].s = s /\ q[i].type = t}
Queued(s, t) == Positions(queue, s, t) # {}

\* enqueueEvent: one entry of a type and a session at a time.
Push(q, s, ev) ==
    IF Positions(q, s, ev.type) = {} THEN Append(q, Entry(s, ev)) ELSE q

\* The first entry of a type for a session leaves; as Push admits no second,
\* this is also all that retirePendingGeneration has to remove.
Without(q, s, t) ==
    IF Positions(q, s, t) = {} THEN q
    ELSE RemoveAt(q, CHOOSE i \in Positions(q, s, t) :
                         \A k \in Positions(q, s, t) : i <= k)

Priority(t) == CASE t \in Decisions -> 0 [] t = "steer" -> 1
                 [] t = "generate" -> 2 [] OTHER -> 3

\* selectAvailablePendingEvent: the urgent types first, then the oldest.
Available(q, lane) == {i \in DOMAIN q : ~q[i].leased /\ q[i].type \in lane}
Selected(q, lane) ==
    CHOOSE i \in Available(q, lane) :
        \A k \in Available(q, lane) :
            \/ Priority(q[i].type) < Priority(q[k].type)
            \/ Priority(q[i].type) = Priority(q[k].type) /\ i <= k

Idle == [at |-> "idle", s |-> "none", type |-> "none"]
Doing(at, e) == [at |-> at, s |-> e.s, type |-> e.type]

\* A generate event that has no scaffold yet keeps the agent waiting for one.
Given(e) == Doing(IF e.type = "generate" /\ ~e.prepared
                  THEN "scaffolding" ELSE "working", e)
Handed(e) == IF Given(e).at = "working" THEN {<<e.s, e.type>>} ELSE {}

\* Slip the runs must notice: the entry is claimed only after the scaffold.
ClaimLate(q, i) ==
    IF Given(q[i]).at = "scaffolding" THEN q ELSE [q EXCEPT ![i].leased = TRUE]

\* leaseEvent up to its await: the entry is claimed at once.
Claim(q, i) == [q EXCEPT ![i].leased = TRUE]

\* flushPendingPolls: the first parked agent with work in its lane gets it.  One
\* round is enough, because an event makes at most one entry available.
Settle(q, p, ag) ==
    LET able == {i \in DOMAIN p : Available(q, Lanes[p[i]]) # {}}
        i == CHOOSE k \in able : \A l \in able : k <= l
        n == Selected(q, Lanes[p[i]])
    IN IF able = {}
       THEN /\ queue' = q /\ polls' = p /\ agent' = ag
            /\ UNCHANGED handed
       ELSE /\ queue' = Claim(q, n)
            /\ polls' = RemoveAt(p, i)
            /\ agent' = [ag EXCEPT ![p[i]] = Given(q[n])]
            /\ handed' = handed \cup Handed(q[n])

-----------------------------------------------------------------------------
(* The browser: POST /events.  Every event but the two that open a session   *)
(* must name a session the store knows.                                     *)

Known(s) == journal[s].phase # "absent"

Journal(s, j) == journal' = [journal EXCEPT ![s] = j]

Contend(s, contended) ==
    spoiled' = IF contended THEN spoiled \cup {s} ELSE spoiled

\* What the posts of the browser leave alone.
Posted == up /\ UNCHANGED <<up, faults>>

Opener(s) == IF s \in Steers THEN "steer" ELSE "generate"

PostOpening(s) ==
    /\ Posted
    /\ ~Known(s)
    /\ Journal(s, IF s \in Steers THEN OnSteer(journal[s])
                                  ELSE OnGenerate(journal[s], FALSE))
    /\ Settle(Push(queue, s, Pending(Opener(s), FALSE)), polls, agent)
    /\ UNCHANGED spoiled

\* The queue once the user has decided: no generation is left to hand out.
Decided(q, s) == Without(q, s, "generate")

\* Variants reach the page only from an agent that was given the session.
Shown(s) == <<s, "generate">> \in handed

\* A decision, or the same one again when its answer was lost.
PostDecision(s, d) ==
    /\ Posted
    /\ Known(s)
    /\ d = "accept" => Shown(s)
    /\ Journal(s, OnDecision(journal[s], d))
    /\ Settle(Push(Decided(queue, s), s, Pending(d, FALSE)), polls, agent)
    /\ Contend(s, journal[s].cancelReason \in Decisions \ {d})

\* A discard that says the wrapper is gone from the source needs no agent: the
\* server closes the session itself.
PostOrphanedDiscard(s) ==
    /\ Posted
    /\ Known(s)
    /\ Journal(s, OnClosed(OnDecision(journal[s], "discard"), "discarded"))
    /\ queue' = Decided(queue, s)
    /\ Contend(s, journal[s].cancelReason = "accept")
    /\ UNCHANGED <<polls, agent, handed>>

\* A checkpoint whose revision is older than the last one changes nothing; this
\* is one that counts.
PostCheckpoint(s, ph) ==
    /\ Posted
    /\ Known(s)
    /\ Journal(s, OnCheckpoint(journal[s], ph))
    /\ UNCHANGED <<queue, polls, agent, handed, spoiled>>

PostMountFailed(s) ==
    /\ Posted
    /\ Known(s) /\ Shown(s)
    /\ Journal(s, OnMountFailed(journal[s]))
    /\ Settle(Push(queue, s, Pending("variant_mount_failed", FALSE)), polls, agent)
    /\ UNCHANGED spoiled

-----------------------------------------------------------------------------
(* An agent asks for work: GET /poll.                                       *)

Still == UNCHANGED <<up, posts, faults>>

Poll(a) ==
    /\ up
    /\ agent[a] = Idle
    /\ IF Available(queue, Lanes[a]) = {}
       THEN /\ polls' = Append(polls, a)
            /\ agent' = [agent EXCEPT ![a].at = "parked"]
            /\ UNCHANGED <<queue, handed>>
       ELSE LET n == Selected(queue, Lanes[a])
            IN /\ queue' = Claim(queue, n)
               /\ agent' = [agent EXCEPT ![a] = Given(queue[n])]
               /\ handed' = handed \cup Handed(queue[n])
               /\ UNCHANGED polls
    /\ Still
    /\ UNCHANGED <<journal, spoiled>>

\* The poll times out, or its client goes away.
Leave(a) ==
    /\ agent[a].at = "parked"
    /\ agent' = [agent EXCEPT ![a] = Idle]
    /\ polls' = RemoveAt(polls, CHOOSE i \in DOMAIN polls : polls[i] = a)
    /\ Still
    /\ UNCHANGED <<journal, queue, handed, spoiled>>

\* The await of prepareGenerateEventForLease ends.  The entry gets its scaffold
\* and its lease anew if it is still queued; the journal gets the generate event
\* again, whatever was journaled meanwhile.
ScaffoldDone(a) ==
    LET s == agent[a].s
        at == Positions(queue, s, "generate")
    IN /\ agent[a].at = "scaffolding"
       /\ Journal(s, OnGenerate(journal[s], TRUE))
       /\ queue' = [i \in DOMAIN queue |->
              IF i \in at THEN [queue[i] EXCEPT !.prepared = TRUE, !.leased = TRUE]
                          ELSE queue[i]]
       /\ agent' = [agent EXCEPT ![a].at = "working"]
       /\ Contend(s, Canceled(journal[s]))
       /\ handed' = handed \cup {<<s, "generate">>}
       /\ Still
       /\ UNCHANGED polls

\* A lease is ten minutes and a scaffold at most fifteen seconds, so it does not
\* run out before the scaffold is there.
Scaffolding(s) == \E a \in Agents : agent[a].at = "scaffolding" /\ agent[a].s = s
Leased(s, t) ==
    {i \in Positions(queue, s, t) : queue[i].leased /\ ~(t = "generate" /\ Scaffolding(s))}

\* Slip the runs must notice: no timer is set for the end of a lease.
LeaseExpiresUnflushed(s, t) ==
    /\ up
    /\ \E i \in Leased(s, t) : queue' = [queue EXCEPT ![i].leased = FALSE]
    /\ Still
    /\ UNCHANGED <<journal, spoiled, polls, agent, handed>>

\* Slip the runs must notice: what was leased for a decision stays so.
LeaseExpiresUndecided(s, t) ==
    /\ up
    /\ ~Canceled(journal[s])
    /\ \E i \in Leased(s, t) : Settle([queue EXCEPT ![i].leased = FALSE], polls, agent)
    /\ Still
    /\ UNCHANGED <<journal, spoiled>>

\* A lease runs out: scheduleLeaseFlush has set a timer for it.
LeaseExpires(s, t) ==
    /\ up
    /\ \E i \in Leased(s, t) : Settle([queue EXCEPT ![i].leased = FALSE], polls, agent)
    /\ Still
    /\ UNCHANGED <<journal, spoiled>>

-----------------------------------------------------------------------------
(* An agent answers: POST /poll.                                            *)

OfSession(q, s) == {i \in DOMAIN q : q[i].s = s}
Earliest(at) == CHOOSE i \in at : \A k \in at : i <= k

\* Slip the runs must notice: a reply without a source answers whatever waits.
AnySource(q, s, kind) == "any"

\* inferSourceEventType: which queued event a reply without a source answers.
SourceOf(q, s, kind) ==
    LET has(t) == Positions(q, s, t) # {}
        leased == {i \in OfSession(q, s) : q[i].leased}
    IN CASE kind = "steer_done" -> "steer"
         [] kind = "complete" ->
                IF has("accept") THEN "accept"
                ELSE IF has("generate") THEN "generate" ELSE "any"
         [] kind = "done" ->
                IF ~has("generate") /\ has("variant_mount_failed")
                THEN "variant_mount_failed" ELSE "generate"
         [] kind = "error" ->
                IF leased # {} THEN q[Earliest(leased)].type ELSE "generate"
         [] OTHER -> "any"

Answered(q, s, source) ==
    IF source = "any" THEN OfSession(q, s) ELSE Positions(q, s, source)

\* The event a reply is journaled as.
OnReply(j, kind, by, carbonize) ==
    CASE kind = "steer_done" -> OnClosed(j, "steer_done")
      [] kind = "discarded" -> OnClosed(j, "discarded")
      [] kind = "complete" -> OnClosed(j, "completed")
      [] kind = "error" -> OnAgentError(j, by)
      [] OTHER -> OnAgentDone(j, carbonize)

\* handlePollPost: the event answered leaves the queue, the reply is journaled
\* unless nothing was answered and the session is over, parked polls are served.
Receive(s, kind, source, carbonize, ag) ==
    LET at == Answered(queue, s, source)
        by == IF at = {} THEN "none" ELSE queue[Earliest(at)].type
        over == at = {} /\ journal[s].phase \in CompletedPhases
    IN /\ up
       /\ Journal(s, IF over THEN journal[s]
                     ELSE OnReply(journal[s], kind, by, carbonize))
       /\ Settle(IF at = {} THEN queue ELSE RemoveAt(queue, Earliest(at)), polls, ag)
       /\ Still

Ends(a) == [agent EXCEPT ![a] = Idle]
CleansUp(a) == [agent EXCEPT ![a].at = "cleaning"]
On(a, types) == agent[a].at = "working" /\ agent[a].type \in types

\* The agent's own replies name no source.
DoneKind(a) == IF agent[a].type = "steer" THEN "steer_done" ELSE "done"

ReplyDone(a) ==
    LET s == agent[a].s
    IN /\ On(a, EventTypes \ Decisions)
       /\ Receive(s, DoneKind(a), SourceOf(queue, s, DoneKind(a)), FALSE, Ends(a))
       /\ UNCHANGED spoiled

ReplyError(a) ==
    LET s == agent[a].s
    IN /\ On(a, EventTypes \ Decisions)
       /\ Receive(s, "error", SourceOf(queue, s, "error"), FALSE, Ends(a))
       /\ Contend(s, Canceled(journal[s]))

\* The variants do not compile: the event has left the queue, nothing is
\* journaled, and the agent is told to mend them and to reply again.
ReplyBounced(a) ==
    LET s == agent[a].s
        at == Answered(queue, s, SourceOf(queue, s, "done"))
    IN /\ up
       /\ On(a, {"generate", "variant_mount_failed"})
       /\ at # {}
       /\ queue' = RemoveAt(queue, Earliest(at))
       /\ Still
       /\ UNCHANGED <<journal, polls, agent, handed, spoiled>>

\* The poller ran live-accept.mjs on a decision and replies for it, naming the
\* event.  Done, with cleanup left, with the file left to the agent, or failed.
ReplyAccept(a, kind, carbonize) ==
    /\ On(a, {"accept"})
    /\ Receive(agent[a].s, kind, "accept", carbonize,
               IF kind = "agent_done" THEN CleansUp(a) ELSE Ends(a))
    /\ UNCHANGED spoiled

ReplyDiscard(a, kind) ==
    /\ On(a, {"discard"})
    /\ Receive(agent[a].s, kind, "discard", FALSE, Ends(a))
    /\ UNCHANGED spoiled

\* "retry": the first entry of the session is offered again.
ReplyRetry(a) ==
    LET at == OfSession(queue, agent[a].s)
    IN /\ up
       /\ On(a, EventTypes \ Decisions)
       /\ at # {}
       /\ Settle([queue EXCEPT ![Earliest(at)].leased = FALSE], polls, Ends(a))
       /\ Still
       /\ UNCHANGED <<journal, spoiled>>

\* live-complete.mjs, once the accepted source is clean: through the server, or
\* into the journal when there is none.
Complete(a) ==
    LET s == agent[a].s
    IN /\ agent[a].at = "cleaning"
       /\ Receive(s, "complete", SourceOf(queue, s, "complete"), FALSE, Ends(a))
       /\ UNCHANGED spoiled

CompleteOffline(a) ==
    /\ agent[a].at = "cleaning"
    /\ ~up
    /\ Journal(agent[a].s, OnClosed(journal[agent[a].s], "completed"))
    /\ agent' = Ends(a)
    /\ Still
    /\ UNCHANGED <<queue, polls, handed, spoiled>>

-----------------------------------------------------------------------------
(* Faults.                                                                  *)

CountFault == faults < MaxFaults /\ faults' = faults + 1 /\ UNCHANGED posts

\* An agent's task ends without a reply.
Vanish(a) ==
    /\ CountFault
    /\ agent[a].at \in {"working", "cleaning"}
    /\ agent' = Ends(a)
    /\ UNCHANGED <<journal, queue, polls, up, handed, spoiled>>

\* The server dies or is stopped: what it holds in memory is gone, and the agents
\* it kept waiting are told so.
Crash ==
    /\ CountFault
    /\ up
    /\ up' = FALSE
    /\ queue' = <<>>
    /\ polls' = <<>>
    /\ agent' = [a \in Agents |-> IF agent[a].at \in {"parked", "scaffolding"}
                                   THEN Idle ELSE agent[a]]
    /\ UNCHANGED <<journal, handed, spoiled>>

Restored(s) ==
    journal[s].phase \notin CompletedPhases /\ journal[s].pending # NoEvent

\* restorePendingEventsFromStore: the pending event of each open session, in the
\* order of the ids.
Restart ==
    /\ ~up
    /\ up' = TRUE
    /\ \E order \in SetToSeqs({s \in Sessions : Restored(s)}) :
          queue' = [i \in DOMAIN order |-> Entry(order[i], journal[order[i]].pending)]
    /\ UNCHANGED <<journal, polls, agent, handed, spoiled, posts, faults>>

-----------------------------------------------------------------------------
Init ==
    /\ journal = [s \in Sessions |-> EmptySnapshot]
    /\ queue = <<>>
    /\ polls = <<>>
    /\ agent = [a \in Agents |-> Idle]
    /\ up = TRUE
    /\ handed = {}
    /\ spoiled = {}
    /\ posts = 0
    /\ faults = 0

Browser(s) ==
    /\ posts < MaxPosts
    /\ posts' = posts + 1
    /\ \/ PostOpening(s)
       \/ \E ph \in (IF s \in Steers THEN {"steer"} ELSE {"generating", "cycling"}) :
             PostCheckpoint(s, ph)
       \/ /\ s \notin Steers
          /\ \/ \E d \in Decisions : PostDecision(s, d)
             \/ PostOrphanedDiscard(s)
             \/ PostMountFailed(s)

AcceptReplies == {<<"complete", FALSE>>, <<"agent_done", TRUE>>,
                  <<"agent_done", FALSE>>, <<"error", FALSE>>}
DiscardReplies == {"discarded", "error"}

Answer(a) ==
    \/ ReplyDone(a)
    \/ ReplyError(a)
    \/ \E r \in AcceptReplies : ReplyAccept(a, r[1], r[2])
    \/ \E kind \in DiscardReplies : ReplyDiscard(a, kind)
    \/ Complete(a)
    \/ CompleteOffline(a)

\* What an agent owes, and what else may happen to it.
Works(a) == Poll(a) \/ ScaffoldDone(a) \/ Answer(a)
AgentStep(a) == Works(a) \/ Leave(a) \/ ReplyBounced(a) \/ ReplyRetry(a) \/ Vanish(a)

Next ==
    \/ \E s \in Sessions : Browser(s)
    \/ \E a \in Agents : AgentStep(a)
    \/ \E s \in Sessions, t \in EventTypes : LeaseExpires(s, t)
    \/ Crash
    \/ Restart

Safe == Init /\ [][Next]_vars

\* Agents keep polling and answer what they took up (reference/live.md, "run
\* live-poll.mjs again immediately after every event"), timers fire (those of the
\* decisions' leases are all that is needed), and a server that died is started
\* again.  The browser owes nothing.
Fairness ==
    /\ \A a \in Agents : WF_vars(Works(a))
    /\ \A s \in Sessions, d \in Decisions : WF_vars(LeaseExpires(s, d))
    /\ WF_vars(Restart)

Spec == Safe /\ Fairness

-----------------------------------------------------------------------------
AgentStates == [at : {"idle", "parked", "scaffolding", "working", "cleaning"},
                s : Sessions \cup {"none"}, type : EventTypes \cup {"none"}]

\* The variables have their types.
TypeOK ==
    /\ journal \in [Sessions -> Snapshots]
    /\ queue \in Seq(Entries)
    /\ polls \in Seq(Agents)
    /\ agent \in [Agents -> AgentStates]
    /\ up \in BOOLEAN
    /\ handed \subseteq Sessions \X EventTypes
    /\ spoiled \subseteq Sessions
    /\ posts \in 0 .. MaxPosts
    /\ faults \in 0 .. MaxFaults

\* An agent is never kept waiting while the queue holds an event it could have:
\* every handler that makes an entry available serves the parked polls.
NoMissedWakeup ==
    \A i \in DOMAIN polls : Available(queue, Lanes[polls[i]]) = {}

\* No generate event is scaffolded for two agents at once, though the server
\* goes on serving polls while the scaffold is written.
OneScaffold ==
    \A a, b \in Agents :
        /\ agent[a].at = "scaffolding"
        /\ agent[b].at = "scaffolding"
        /\ agent[a].s = agent[b].s
        => a = b

\* Once the user has accepted or discarded, nothing that arrives late shows the
\* session as generating or as ready to compare again.
NoVariantsAfterDecision ==
    [][\A s \in Sessions :
         Canceled(journal[s]) /\ journal'[s].phase # journal[s].phase
         => journal'[s].phase \notin {"variants_ready", "generating", "cycling"}]_vars

\* A decision leaves the queue only after an agent was handed it, unless the
\* session was completed or the server died.
DecisionAnswered ==
    [][\A s \in Sessions, d \in Decisions :
         Queued(s, d) /\ ~Queued(s, d)' /\ up'
         => <<s, d>> \in handed \/ journal'[s].phase = "completed"]_vars

\* What is queued of an open session's last decision is what its journal would
\* put back after a restart.
Recoverable(s) ==
    \A d \in Decisions :
        /\ Queued(s, d)
        /\ ~Queued(s, CHOOSE o \in Decisions : o # d)
        /\ journal[s].phase \notin CompletedPhases
        => journal[s].pending.type = d

\* A restart puts back every decision no agent has answered, as long as neither
\* the canceled generation nor the opposite decision has been journaled since.
DecisionRecoverable == \A s \in Sessions \ spoiled : Recoverable(s)

\* reference/live.md:74, "startup requeues unacknowledged events", of decisions.
DecisionsRequeued == \A s \in Sessions : Recoverable(s)

\* The decisions the user took on a session are all answered, or the server dies.
Undecided(s) == \E d \in Decisions : Queued(s, d)
DecisionSettles == \A s \in Sessions \ Steers : Undecided(s) ~> ~Undecided(s)

=============================================================================
