------------------------- MODULE LiveOverlayProofs -------------------------
(***************************************************************************)
(* What holds of the live overlay and its server together, for any number  *)
(* of sessions, agents, clicks, reloads and faults.                        *)
(*                                                                         *)
(* The argument has two halves.  What the server and the agents do can     *)
(* only take the journals onward: a session that is known, canceled or     *)
(* accepted stays so, unless its journal is spoiled.  What the page holds  *)
(* and has been told agrees with the journals, and therefore goes on       *)
(* agreeing with them whatever the server does meanwhile.                  *)
(***************************************************************************)
EXTENDS MCLiveOverlay, LiveSessionsProofs

\* What the journal of an accepted session has to offer.
Kept(x) ==
  \/ x.pending.type = "accept"
  \/ x.phase \in {"carbonize_required", "completed", "agent_error"}

\* The phases in which a page adopts a session it does not know.
Adopted == {"generate_requested", "variants_ready", "generating", "cycling"}

\* A journal of which the generation has been handed out (shown) or not, and that
\* is spoiled or not.
Decent(x, shown, sp) ==
  /\ Canceled(x) => x.phase # "absent"
  /\ sp => Canceled(x)
  /\ x.cancelReason = "accept" => shown
  /\ Canceled(x) /\ ~sp => x.phase \notin Adopted
  /\ x.cancelReason = "accept" /\ ~sp => Kept(x)

JournalsDecent ==
  \A s \in Sessions : Decent(journal[s], Shown(s), s \in spoiled)

\* The overlay opens no steer session.
NoSteers == \A s \in Sessions : Known(s) => s \notin Steers

\* How the journals go on.
Onward(s, x) ==
  /\ Known(s) => x.phase # "absent"
  /\ Canceled(journal[s]) => Canceled(x)
  /\ journal[s].cancelReason = "accept" => s \in spoiled' \/ x.cancelReason = "accept"
  /\ Decent(x, <<s, "generate">> \in handed', s \in spoiled')

Advance ==
  /\ handed \subseteq handed' /\ spoiled \subseteq spoiled'
  /\ \A s \in Sessions : Onward(s, journal'[s])

\* No session but s becomes known.
Opens(s) == \A u \in Sessions : journal'[u].phase # "absent" => Known(u) \/ u = s

-----------------------------------------------------------------------------
(* The journals go on.                                                      *)

\* Nothing is journaled.
LEMMA NoneAdvances ==
  ASSUME JournalsDecent, journal' = journal, spoiled' = spoiled, handed \subseteq handed'
  PROVE  Advance /\ \A s : Opens(s)
BY DEF JournalsDecent, Decent, Advance, Onward, Opens, Known, Shown

\* One journal is written, and perhaps spoiled.
LEMMA OneAdvances ==
  ASSUME LInv, JournalsDecent, NEW s \in Sessions, NEW x,
         journal' = [journal EXCEPT ![s] = x], handed \subseteq handed',
         spoiled' = spoiled \/ spoiled' = spoiled \cup {s}, Onward(s, x)
  PROVE  Advance /\ Opens(s)
<1>1. journal \in [Sessions -> Snapshots]
  BY SessionFacts
<1>2. journal'[s] = x /\ \A u \in Sessions \ {s} : journal'[u] = journal[u]
  BY <1>1
<1>3. ASSUME NEW u \in Sessions \ {s}
      PROVE  Onward(u, journal'[u])
  <2>1. Decent(journal[u], Shown(u), u \in spoiled) /\ (u \in spoiled' <=> u \in spoiled)
    BY <1>3 DEF JournalsDecent
  <2> QED
    BY <1>2, <2>1 DEF Onward, Decent, Shown, Known
<1> QED
  BY <1>2, <1>3 DEF Advance, Opens, Known

LEMMA SettleGrows ==
  ASSUME NEW q, NEW p, NEW ag, Settle(q, p, ag)
  PROVE  handed \subseteq handed'
BY DEF Settle

LEMMA OpeningAdvances ==
  ASSUME LInv, JournalsDecent, NEW s \in Sessions, PostOpening(s)
  PROVE  Advance /\ Opens(s)
<1> DEFINE x == IF s \in Steers THEN OnSteer(journal[s]) ELSE OnGenerate(journal[s], FALSE)
<1>1. journal[s] \in Snapshots /\ Decent(journal[s], Shown(s), s \in spoiled)
      /\ journal[s].phase = "absent"
  BY SessionFacts DEF JournalsDecent, PostOpening, Known
<1>2. ~Canceled(journal[s]) /\ s \notin spoiled
  BY <1>1 DEF Decent
<1>3. x.cancelReason = journal[s].cancelReason /\ x.phase # "absent"
  BY <1>1, Opened DEF Becomes
<1>4. journal' = [journal EXCEPT ![s] = x] /\ spoiled' = spoiled /\ handed \subseteq handed'
  BY SettleGrows DEF PostOpening, Journal
<1> HIDE DEF x
<1>5. Onward(s, x)
  BY <1>1, <1>2, <1>3, <1>4 DEF Onward, Decent, Canceled
<1> QED
  BY <1>4, <1>5, OneAdvances

LEMMA DecisionAdvances ==
  ASSUME LInv, JournalsDecent, NEW s \in Sessions, NEW d \in Decisions, PostDecision(s, d)
  PROVE  Advance /\ Opens(s) /\ Known(s)
         /\ (d = "accept" => Shown(s) /\ (s \in spoiled' \/ journal'[s].cancelReason = "accept"))
         /\ Canceled(journal'[s])
<1> DEFINE x == OnDecision(journal[s], d)
<1>1. journal[s] \in Snapshots /\ Decent(journal[s], Shown(s), s \in spoiled)
      /\ Known(s) /\ (d = "accept" => Shown(s))
  BY SessionFacts DEF JournalsDecent, PostDecision
<1>2. x.phase = Asked(d) /\ x.cancelReason = d /\ x.pending.type = d
  <2>1. Pending(d, FALSE).type = d
    BY Pendings DEF Decisions, EventTypes
  <2> QED
    BY <1>1, <2>1, DecidedOn DEF Becomes
<1>3. journal' = [journal EXCEPT ![s] = x] /\ handed \subseteq handed'
      /\ spoiled' = (IF journal[s].cancelReason \in Decisions \ {d}
                     THEN spoiled \cup {s} ELSE spoiled)
  BY SettleGrows DEF PostDecision, Journal, Contend
<1> HIDE DEF x
<1>4. Asked(d) # "absent" /\ Asked(d) \notin Adopted /\ d \in {"accept", "discard"}
  BY DEF Asked, Adopted, Decisions
<1>5. Onward(s, x)
  <2>1. journal[s].cancelReason = "accept" => s \in spoiled' \/ x.cancelReason = "accept"
    BY <1>2, <1>3, <1>4 DEF Decisions
  <2>2. Decent(x, <<s, "generate">> \in handed', s \in spoiled')
    BY <1>1, <1>2, <1>3, <1>4 DEF Decent, Canceled, Kept, Shown
  <2> QED
    BY <1>2, <1>4, <2>1, <2>2 DEF Onward, Canceled
<1>6. journal'[s] = x
  BY <1>3, SessionFacts
<1> QED
  BY <1>1, <1>2, <1>3, <1>4, <1>5, <1>6, OneAdvances DEF Canceled

LEMMA OrphanedDiscardAdvances ==
  ASSUME LInv, JournalsDecent, NEW s \in Sessions, PostOrphanedDiscard(s)
  PROVE  Advance /\ Opens(s) /\ Known(s)
<1> DEFINE x == OnClosed(OnDecision(journal[s], "discard"), "discarded")
<1>1. journal[s] \in Snapshots /\ Decent(journal[s], Shown(s), s \in spoiled) /\ Known(s)
  BY SessionFacts DEF JournalsDecent, PostOrphanedDiscard
<1>2. x.phase = "discarded" /\ x.cancelReason = "discard"
  <2>1. OnDecision(journal[s], "discard") \in Snapshots /\ "discarded" \in Phases
        /\ OnDecision(journal[s], "discard").cancelReason = "discard"
    BY <1>1, DecidedOn DEF Becomes, Decisions, Phases, FencedPhases
  <2> QED
    BY <2>1, Closed DEF Becomes
<1>3. journal' = [journal EXCEPT ![s] = x] /\ handed' = handed
      /\ spoiled' = (IF journal[s].cancelReason = "accept" THEN spoiled \cup {s} ELSE spoiled)
  BY DEF PostOrphanedDiscard, Journal, Contend
<1> HIDE DEF x
<1>4. Onward(s, x)
  BY <1>1, <1>2, <1>3 DEF Onward, Decent, Canceled, Adopted
<1> QED
  BY <1>1, <1>3, <1>4, OneAdvances

LEMMA CheckpointAdvances ==
  ASSUME LInv, JournalsDecent, NEW s \in Sessions, NEW ph \in {"steer", "generating", "cycling"},
         PostCheckpoint(s, ph)
  PROVE  Advance /\ Opens(s) /\ Known(s)
<1> DEFINE x == OnCheckpoint(journal[s], ph)
<1>1. journal[s] \in Snapshots /\ Decent(journal[s], Shown(s), s \in spoiled) /\ Known(s)
  BY SessionFacts DEF JournalsDecent, PostCheckpoint
<1>2. x.phase = (IF Fenced(journal[s]) THEN journal[s].phase ELSE ph)
      /\ x.cancelReason = journal[s].cancelReason /\ x.pending = journal[s].pending
  BY <1>1, Checkpointed DEF Becomes, Phases
<1>3. journal' = [journal EXCEPT ![s] = x] /\ handed' = handed /\ spoiled' = spoiled
  BY DEF PostCheckpoint, Journal
<1> HIDE DEF x
<1>4. Onward(s, x)
  BY <1>1, <1>2, <1>3 DEF Onward, Decent, Canceled, Fenced, Known, Shown, Kept
<1> QED
  BY <1>1, <1>3, <1>4, OneAdvances

LEMMA ScaffoldAdvances ==
  ASSUME LInv, JournalsDecent, NEW a \in Agents, ScaffoldDone(a)
  PROVE  Advance /\ Opens(agent[a].s) /\ Known(agent[a].s)
         /\ agent[a].s \in Sessions /\ ~Shown(agent[a].s)
         /\ (Canceled(journal[agent[a].s]) => agent[a].s \in spoiled')
<1> DEFINE s == agent[a].s
           x == OnGenerate(journal[s], TRUE)
<1>1. Job(agent[a], journal, handed, spoiled) /\ agent[a].at = "scaffolding"
  BY DEF LInv, Books, JobBook, ScaffoldDone, Busy
<1>2. s \in Sessions /\ Known(s) /\ ~Shown(s)
  BY <1>1 DEF Job, Sound, Known, Shown
<1>3. journal[s] \in Snapshots /\ Decent(journal[s], Shown(s), s \in spoiled)
  BY <1>2, SessionFacts DEF JournalsDecent
<1>4. x.cancelReason = journal[s].cancelReason /\ x.phase # "absent"
  BY <1>3, Opened DEF Becomes
<1>5. journal' = [journal EXCEPT ![s] = x] /\ handed' = handed \cup {<<s, "generate">>}
      /\ spoiled' = (IF Canceled(journal[s]) THEN spoiled \cup {s} ELSE spoiled)
  BY DEF ScaffoldDone, Journal, Contend
<1> HIDE DEF s, x
<1>6. Onward(s, x)
  BY <1>3, <1>4, <1>5 DEF Onward, Decent, Canceled
<1>7. Advance /\ Opens(s)
  BY <1>2, <1>5, <1>6, OneAdvances
<1>8. Canceled(journal[s]) => s \in spoiled'
  BY <1>5
<1> QED
  BY <1>2, <1>7, <1>8 DEF s

\* What a reply is journaled as.
LEMMA ReplyOnward ==
  ASSUME NEW y \in Snapshots, NEW s, Decent(y, Shown(s), s \in spoiled),
         y.phase # "absent", NEW kind, NEW by, NEW c \in BOOLEAN,
         kind = "steer_done" => ~Shown(s),
         kind = "discarded" => s \in spoiled \/ y.cancelReason # "accept"
  PROVE  LET x == OnReply(y, kind, by, c)
         IN  /\ x.phase # "absent" /\ x.cancelReason = y.cancelReason
             /\ Decent(x, Shown(s), s \in spoiled)
<1> DEFINE x == OnReply(y, kind, by, c)
<1> SUFFICES x.phase # "absent" /\ x.cancelReason = y.cancelReason
             /\ Decent(x, Shown(s), s \in spoiled)
  OBVIOUS
<1>1. ASSUME NEW ph \in {"steer_done", "discarded", "completed", "agent_error"},
             x = OnClosed(y, ph),
             ph = "steer_done" => ~Shown(s),
             ph = "discarded" => s \in spoiled \/ y.cancelReason # "accept"
      PROVE  x.phase # "absent" /\ x.cancelReason = y.cancelReason /\ Decent(x, Shown(s), s \in spoiled)
  <2>1. x.phase = ph /\ x.cancelReason = y.cancelReason
    BY <1>1, Closed DEF Becomes, Phases, FencedPhases
  <2> QED
    BY <1>1, <2>1 DEF Decent, Canceled, Kept, Adopted
<1>2. CASE x = y
  BY <1>2
<1>3. CASE kind = "steer_done"
  BY <1>1, <1>3 DEF OnReply
<1>4. CASE kind = "discarded"
  BY <1>1, <1>4 DEF OnReply
<1>5. CASE kind = "complete"
  BY <1>1, <1>5 DEF OnReply
<1>6. CASE kind = "error"
  BY <1>1, <1>2, <1>6 DEF OnReply, OnAgentError
<1>7. CASE kind \notin {"steer_done", "discarded", "complete", "error"}
  <2>1. x = OnAgentDone(y, c)
    BY <1>7 DEF OnReply
  <2> HIDE DEF x
  <2>2. CASE ~Fenced(y) \/ (c /\ y.phase = "accept_requested")
    <3>1. /\ x.phase \in {"carbonize_required", "variants_ready"}
          /\ c => x.phase = "carbonize_required"
          /\ x.cancelReason = y.cancelReason
      BY <2>1, <2>2, SnapshotFields DEF OnAgentDone, Snapshots
    <3>2. CASE ~Fenced(y)
      BY <3>1, <3>2 DEF Decent, Canceled, Fenced
    <3>3. CASE c
      BY <3>1, <3>3 DEF Decent, Canceled, Kept, Adopted
    <3> QED
      BY <2>2, <3>1, <3>2, <3>3
  <2>3. CASE ~(~Fenced(y) \/ (c /\ y.phase = "accept_requested"))
    BY <1>2, <2>1, <2>3, DoneByAgent
  <2> QED
    BY <2>2, <2>3
<1> QED
  BY <1>3, <1>4, <1>5, <1>6, <1>7

LEMMA AcceptReplyKinds ==
  ASSUME NEW r \in AcceptReplies
  PROVE  /\ r[1] \in {"complete", "agent_done", "error"} /\ r[2] \in BOOLEAN
         /\ r[2] => r[1] = "agent_done"
<1>1. \/ r = <<"complete", FALSE>> \/ r = <<"agent_done", TRUE>>
      \/ r = <<"agent_done", FALSE>> \/ r = <<"error", FALSE>>
  BY DEF AcceptReplies
<1>2. CASE r = <<"complete", FALSE>>
  BY <1>2
<1>3. CASE r = <<"agent_done", TRUE>>
  BY <1>3
<1>4. CASE r = <<"agent_done", FALSE>>
  BY <1>4
<1>5. CASE r = <<"error", FALSE>>
  BY <1>5
<1> QED
  BY <1>1, <1>2, <1>3, <1>4, <1>5

LEMMA ReceiveAdvances ==
  ASSUME LInv, JournalsDecent, NEW s \in Sessions, NEW kind, NEW of, NEW c \in BOOLEAN,
         NEW ag, Receive(s, kind, of, c, ag), Known(s),
         kind = "steer_done" => ~Shown(s),
         kind = "discarded" => s \in spoiled \/ journal[s].cancelReason # "accept",
         spoiled' = spoiled \/ (Canceled(journal[s]) /\ spoiled' = spoiled \cup {s})
  PROVE  Advance /\ Opens(s)
<1> DEFINE at == Answered(queue, s, of)
           by == IF at = {} THEN "none" ELSE queue[Earliest(at)].type
           over == at = {} /\ journal[s].phase \in CompletedPhases
           x == IF over THEN journal[s] ELSE OnReply(journal[s], kind, by, c)
<1>1. journal' = [journal EXCEPT ![s] = x] /\ handed \subseteq handed'
  BY Zenon, SettleGrows DEF Receive, Journal
<1>2. journal[s] \in Snapshots /\ Decent(journal[s], Shown(s), s \in spoiled)
      /\ journal[s].phase # "absent"
  BY SessionFacts DEF JournalsDecent, Known
<1>3. x.phase # "absent" /\ x.cancelReason = journal[s].cancelReason
      /\ Decent(x, Shown(s), s \in spoiled)
  <2> DEFINE y == journal[s]
  <2>1. /\ y \in Snapshots /\ Decent(y, Shown(s), s \in spoiled) /\ y.phase # "absent"
        /\ kind = "discarded" => s \in spoiled \/ y.cancelReason # "accept"
    BY <1>2
  <2>2. x = y \/ x = OnReply(y, kind, by, c)
    OBVIOUS
  <2> HIDE DEF x, y, by
  <2>3. x.phase # "absent" /\ x.cancelReason = y.cancelReason
        /\ Decent(x, Shown(s), s \in spoiled)
    BY <2>1, <2>2, ReplyOnward
  <2> QED
    BY <2>3 DEF y
<1> HIDE DEF x
<1>4. Onward(s, x)
  <2>1. Shown(s) => <<s, "generate">> \in handed'
    BY <1>1 DEF Shown
  <2> QED
    BY <1>2, <1>3, <2>1 DEF Onward, Decent, Canceled
<1> QED
  BY <1>1, <1>4, OneAdvances

\* What an agent at work is about.
Task(a) ==
  LET s == agent[a].s
  IN /\ s \in Sessions /\ agent[a].type \in EventTypes /\ Known(s)
     /\ agent[a].type \in {"generate", "accept"} => Shown(s)
     /\ agent[a].type \in Decisions => s \in spoiled \/ journal[s].cancelReason = agent[a].type
     /\ agent[a].type # "steer"
     /\ agent[a].at = "cleaning" => agent[a].type = "accept"

LEMMA Tasks ==
  ASSUME LInv, NoSteers, NEW a \in Agents, agent[a].at \in {"working", "cleaning"}
  PROVE  Task(a)
<1>1. Job(agent[a], journal, handed, spoiled)
  BY DEF LInv, Books, JobBook, Busy
<1>2. agent[a].s \in Sessions /\ agent[a].type \in EventTypes
      /\ Sound(journal, handed, spoiled, agent[a].s, agent[a].type, TRUE)
  BY <1>1 DEF Job
<1>3. agent[a].at = "cleaning" => agent[a].type = "accept"
  BY <1>1 DEF Job
<1> QED
  BY <1>2, <1>3 DEF Task, Sound, NoSteers, Known, Shown

-----------------------------------------------------------------------------
(* The invariant.                                                           *)

\* The variables have their types, the broadcasts and the history included.
Notes == [type : {"done", "error", "accepted", "discarded"}, s : Sessions]
Histories == [begun : SUBSET Sessions, closed : SUBSET Sessions, told : SUBSET Sessions,
              page : SUBSET Sessions, alarmed : SUBSET Sessions,
              failed : SUBSET Sessions, late : BOOLEAN]
Stores == [saved : Saves, handled : Ids]
PageTypes ==
  /\ OverlayTypeOK /\ feed \in Seq(Notes) /\ seen \in Histories
  /\ \A m \in net : m.kind = "checkpoint" => m.ph \in {"generating", "cycling"}

\* What the server knows was begun in this tab.
Begun ==
  /\ \A s \in Sessions : Known(s) => s \in seen.begun
  /\ seen.begun \subseteq Sessions \ Steers
  /\ \A m \in net : m.kind = "generate" => m.s \in seen.begun
  /\ tab.capture \in seen.begun \cup {None}

\* An accept is on record, unless the journal was spoiled.
Agreed(s) == Shown(s) /\ (s \in spoiled \/ journal[s].cancelReason = "accept")

InFeed(type, s) == \E i \in DOMAIN feed : feed[i].type = type /\ feed[i].s = s

\* What the server has told the page, or is about to, is so.
AnswersHonest ==
  \A m \in net : m.at = "ok" =>
     /\ m.kind = "accept" => Agreed(m.s)
     /\ m.kind = "discard" => Canceled(journal[m.s])
FeedHonest ==
  \A s \in Sessions :
     /\ InFeed("accepted", s) => Agreed(s) /\ source[s] = "clean"
     /\ InFeed("discarded", s) => Canceled(journal[s])
ToldHonest == \A s \in seen.told : Agreed(s)

\* What the user has closed is canceled, and has no way back into the tab.
Shut(s) ==
  /\ tab.cur # s /\ store.saved.s # s
  /\ store.handled = s \/ source[s] = "clean"
ClosedShut ==
  \A s \in seen.closed :
     Canceled(journal[s]) /\ (seen.late \/ s \in spoiled \/ Shut(s))

\* The tab waits for the result of the accept it has confirmed, or has told of it,
\* or the accept went through; and a failure reaches it, or has.
Awaited ==
  \A s \in seen.page :
     Shown(s) /\ (source[s] = "clean" \/ s \in seen.alarmed \/ tab.awaiting = s)
FailuresHeard ==
  \A s \in seen.failed :
     /\ Shown(s)
     /\ s \in seen.page \/ tab.pending = s
          => source[s] = "clean" \/ s \in seen.alarmed \/ InFeed("error", s)

OverlayInv ==
  /\ LInv /\ JournalsDecent /\ PageTypes /\ Begun
  /\ AnswersHonest /\ FeedHonest /\ ToldHonest
  /\ ClosedShut /\ Awaited /\ FailuresHeard

-----------------------------------------------------------------------------
(* What the server does, whoever asks it.                                   *)

\* Only a creation that is under way makes a session known.
OpensAsked ==
  \A s \in Sessions : Known(s)' => Known(s) \/ \E m \in net : m.kind = "generate" /\ m.s = s

LEMMA BooksLive ==
  ASSUME LInv, NextBooks, up, up' = up, posts' = posts, faults' = faults
  PROVE  LInv'
<1>1. Books(journal, queue, polls, agent, handed, spoiled)' /\ Asleep(queue, polls)'
  BY DEF NextBooks, Books, JournalBook, PendingSound, QueueBook, Once, QueueSound,
         LeasedHanded, Recorded, JobBook, Job, Alone, Claimed, Sound, Asleep
<1> QED
  BY <1>1 DEF LInv, Down

LEMMA QuietLive ==
  ASSUME LInv, UNCHANGED <<journal, queue, polls, agent, up, handed, spoiled, posts>>,
         faults' \in 0 .. MaxFaults
  PROVE  LInv'
BY DEF LInv, Books, JournalBook, PendingSound, QueueBook, Once, QueueSound, LeasedHanded,
       Recorded, JobBook, Job, Alone, Claimed, Sound, Asleep, Available, Down

\* The requests of the page.
LEMMA ServesAdvance ==
  ASSUME LInv, JournalsDecent, PageTypes, NoSteers, NEW m \in net,
         ServeGenerate(m) \/ ServeCheckpoint(m) \/ ServeDecision(m) \/ ServeOrphan(m)
  PROVE  LInv' /\ Advance /\ OpensAsked
<1>1. m \in Messages
  BY DEF PageTypes, OverlayTypeOK
<1>2. m.s \in Sessions /\ m.kind \in Kinds
  BY <1>1 DEF Messages
<1>3. posts' = posts
  BY DEF ServeGenerate, ServeCheckpoint, ServeDecision, ServeOrphan, ServerOnly
<1>4. CASE ServeGenerate(m)
  <2>1. PostOpening(m.s) /\ m.kind = "generate"
    BY <1>4 DEF ServeGenerate
  <2>2. NextBooks /\ Advance /\ Opens(m.s)
    BY <1>2, <2>1, OpeningKeeps, OpeningAdvances
  <2>3. up /\ up' = up /\ faults' = faults
    BY <2>1 DEF PostOpening, Posted
  <2>4. OpensAsked
    BY <2>1, <2>2 DEF Opens, OpensAsked, Known
  <2> QED
    BY <1>3, <2>2, <2>3, <2>4, BooksLive
<1>5. CASE ServeCheckpoint(m)
  <2>1. PostCheckpoint(m.s, m.ph) /\ m.ph \in {"steer", "generating", "cycling"}
    BY <1>5 DEF ServeCheckpoint, PageTypes
  <2>2. NextBooks /\ Advance /\ Opens(m.s) /\ Known(m.s)
    BY <1>2, <2>1, CheckpointKeeps, CheckpointAdvances
  <2>3. up /\ up' = up /\ faults' = faults
    BY <2>1 DEF PostCheckpoint, Posted
  <2>4. OpensAsked
    BY <2>2 DEF Opens, OpensAsked, Known
  <2> QED
    BY <1>3, <2>2, <2>3, <2>4, BooksLive
<1>6. CASE ServeDecision(m)
  <2>1. PostDecision(m.s, m.kind) /\ m.kind \in Decisions
    BY <1>6 DEF ServeDecision
  <2>2. NextBooks /\ Advance /\ Opens(m.s) /\ Known(m.s)
    <3>1. m.s \in Sessions \ Steers
      BY <1>2, <2>1 DEF PostDecision, NoSteers
    <3> QED
      BY <2>1, <3>1, DecisionKeeps, DecisionAdvances
  <2>3. up /\ up' = up /\ faults' = faults
    BY <2>1 DEF PostDecision, Posted
  <2>4. OpensAsked
    BY <2>2 DEF Opens, OpensAsked, Known
  <2> QED
    BY <1>3, <2>2, <2>3, <2>4, BooksLive
<1>7. CASE ServeOrphan(m)
  <2>1. PostOrphanedDiscard(m.s)
    BY <1>7 DEF ServeOrphan
  <2>2. NextBooks /\ Advance /\ Opens(m.s) /\ Known(m.s)
    BY <1>2, <2>1, OrphanedDiscardKeeps, OrphanedDiscardAdvances
  <2>3. up /\ up' = up /\ faults' = faults
    BY <2>1 DEF PostOrphanedDiscard, Posted
  <2>4. OpensAsked
    BY <2>2 DEF Opens, OpensAsked, Known
  <2> QED
    BY <1>3, <2>2, <2>3, <2>4, BooksLive
<1> QED
  BY <1>4, <1>5, <1>6, <1>7

\* The agents' answers and what else they do.
LEMMA AgentsAdvance ==
  ASSUME LInv, JournalsDecent, NoSteers, NEW a \in Agents,
         \/ Poll(a) \/ ScaffoldDone(a) \/ Answer(a) \/ Vanish(a)
  PROVE  LInv' /\ Advance /\ OpensAsked
<1>1. LInv'
  BY LiveStep DEF Next, AgentStep, Works
<1>2. ASSUME NEW s \in Sessions, Known(s), Opens(s)
      PROVE  OpensAsked
  BY <1>2 DEF Opens, OpensAsked, Known
<1>3. CASE Poll(a) \/ Vanish(a)
  <2>1. journal' = journal /\ spoiled' = spoiled /\ handed \subseteq handed'
    BY <1>3 DEF Poll, Vanish
  <2>2. OpensAsked
    BY <2>1 DEF OpensAsked, Known
  <2> QED
    BY <1>1, <2>1, <2>2, NoneAdvances
<1>4. CASE ScaffoldDone(a)
  BY <1>1, <1>2, <1>4, ScaffoldAdvances
<1>5. CASE CompleteOffline(a)
  <2> DEFINE s == agent[a].s
             x == OnReply(journal[s], "complete", "any", FALSE)
  <2>1. Task(a)
    BY <1>5, Tasks DEF CompleteOffline
  <2>2. journal' = [journal EXCEPT ![s] = x] /\ handed' = handed /\ spoiled' = spoiled
    BY <1>5 DEF CompleteOffline, Journal, OnReply
  <2>3. journal[s] \in Snapshots /\ Decent(journal[s], Shown(s), s \in spoiled)
        /\ journal[s].phase # "absent"
    BY <2>1, SessionFacts DEF JournalsDecent, Task, Known
  <2>4. x.phase # "absent" /\ x.cancelReason = journal[s].cancelReason
        /\ Decent(x, Shown(s), s \in spoiled)
    BY <2>3, ReplyOnward
  <2> HIDE DEF x
  <2>5. Onward(s, x)
    BY <2>2, <2>3, <2>4 DEF Onward, Decent, Canceled, Shown
  <2>6. Advance /\ Opens(s)
    BY <2>1, <2>2, <2>5, OneAdvances DEF Task
  <2> QED
    BY <1>1, <1>2, <2>1, <2>6 DEF Task
<1>6. ASSUME NEW kind, NEW source_, NEW c \in BOOLEAN, NEW ag, On(a, EventTypes) \/ agent[a].at = "cleaning",
             Receive(agent[a].s, kind, source_, c, ag),
             kind = "steer_done" => agent[a].type = "steer",
             kind = "discarded" => agent[a].type = "discard",
             \/ spoiled' = spoiled
             \/ Canceled(journal[agent[a].s]) /\ spoiled' = spoiled \cup {agent[a].s}
      PROVE  Advance /\ OpensAsked
  <2> DEFINE s == agent[a].s
  <2>1. Task(a)
    BY <1>6, Tasks DEF On
  <2>2. s \in Sessions /\ Known(s) /\ kind # "steer_done"
        /\ (kind = "discarded" => s \in spoiled \/ journal[s].cancelReason # "accept")
    BY <1>6, <2>1 DEF Task, Decisions
  <2> HIDE DEF s
  <2>3. Receive(s, kind, source_, c, ag)
        /\ (spoiled' = spoiled \/ (Canceled(journal[s]) /\ spoiled' = spoiled \cup {s}))
    BY <1>6 DEF s
  <2>4. Advance /\ Opens(s)
    BY <2>2, <2>3, ReceiveAdvances
  <2> QED
    BY <1>2, <2>2, <2>4
<1>7. CASE ReplyDone(a)
  BY <1>1, <1>6, <1>7 DEF ReplyDone, On, DoneKind
<1>8. CASE ReplyError(a)
  BY <1>1, <1>6, <1>8 DEF ReplyError, On, Contend
<1>9. CASE \E r \in AcceptReplies : ReplyAccept(a, r[1], r[2])
  <2>1. PICK r \in AcceptReplies : ReplyAccept(a, r[1], r[2])
    BY <1>9
  <2>2. r[2] \in BOOLEAN /\ r[1] \notin {"steer_done", "discarded"}
    BY AcceptReplyKinds
  <2> QED
    BY <1>1, <1>6, <2>1, <2>2 DEF ReplyAccept, On, EventTypes, Decisions
<1>10. CASE \E kind \in DiscardReplies : ReplyDiscard(a, kind)
  BY <1>1, <1>6, <1>10 DEF ReplyDiscard, On, EventTypes, Decisions, DiscardReplies
<1>11. CASE Complete(a)
  BY <1>1, <1>6, <1>11 DEF Complete
<1> QED
  BY <1>3, <1>4, <1>5, <1>7, <1>8, <1>9, <1>10, <1>11 DEF Answer


\* Every step of the two together.
LEMMA ServerAdvances ==
  ASSUME LInv, JournalsDecent, PageTypes, Begun, [OverlayNext]_allVars
  PROVE  LInv' /\ Advance /\ OpensAsked
<1>1. NoSteers
  BY DEF NoSteers, Begun
<1>2. ASSUME UNCHANGED <<journal, queue, polls, agent, up, handed, spoiled, posts>>,
             faults' \in 0 .. MaxFaults
      PROVE  LInv' /\ Advance /\ OpensAsked
  BY <1>2, QuietLive, NoneAdvances DEF OpensAsked, Known
<1>3. ASSUME QuietServer
      PROVE  LInv' /\ Advance /\ OpensAsked
  BY <1>2, <1>3 DEF QuietServer, vars, LInv, TypeOK
<1>4. CASE UNCHANGED allVars \/ User \/ Captured \/ Hear \/ HotReload \/ Read \/ Scout \/ Connect
  <2>1. QuietServer
    <3>1. CASE UNCHANGED allVars
      BY <3>1 DEF allVars, QuietServer
    <3>2. CASE User
      BY <3>2 DEF User, Go, Accept, Discard, Reload, Acts
    <3>3. CASE Captured \/ HotReload \/ Scout \/ Connect
      BY <3>3 DEF Captured, HotReload, Scout, Connect, Acts
    <3>4. CASE Hear
      BY <3>4 DEF Hear, HearDone, HearAccepted, HearDiscarded, HearError, Hearing
    <3>5. CASE Read
      BY <3>5 DEF Read, ReadVariants, ReadScaffold, ReadNothing, ReadDropped, Acts
    <3> QED
      BY <1>4, <3>1, <3>2, <3>3, <3>4, <3>5
  <2> QED
    BY <1>3, <2>1
<1>5. CASE Network
  <2>1. PICK m \in net : Serves(m) \/ Returns(m)
    BY <1>5 DEF Network
  <2>2. CASE Serves(m)
    <3>1. CASE Refuse(m)
      BY <1>3, <3>1 DEF Refuse
    <3> QED
      BY <1>1, <2>2, <3>1, ServesAdvance DEF Serves
  <2>3. CASE Returns(m)
    BY <1>3, <2>3 DEF Returns, AcceptConfirmed, AcceptFails, DiscardReturns, Acts
  <2> QED
    BY <2>1, <2>2, <2>3
<1>6. CASE Losses \/ Disconnect
  <2>1. faults \in 0 .. MaxFaults /\ MaxFaults \in Nat
    BY BoundsAssumption DEF LInv, TypeOK
  <2>2. faults' = faults \/ (faults < MaxFaults /\ faults' = faults + 1)
    BY <1>6 DEF Losses, Lose, Disconnect
  <2>3. UNCHANGED <<journal, queue, polls, agent, up, handed, spoiled, posts>>
    BY <1>6 DEF Losses, Lose, Disconnect
  <2> QED
    BY <1>2, <2>1, <2>2, <2>3
<1>7. CASE \E a \in Agents : AgentMoves(a)
  <2>1. PICK a \in Agents : AgentMoves(a)
    BY <1>7
  <2>2. CASE AgentWrites(a)
    BY <1>3, <2>2 DEF AgentWrites
  <2>3. CASE ~AgentWrites(a)
    <3>1. \/ Poll(a) \/ ScaffoldDone(a) \/ Answer(a) \/ Vanish(a)
      BY <2>1, <2>3 DEF AgentMoves, AgentPolls, AgentScaffolds, AgentAnswers, AgentDone,
                        AgentError, AgentAccepts, AgentDiscards, AgentCompletes, Answer
    <3> QED
      BY <1>1, <3>1, AgentsAdvance
  <2> QED
    BY <2>2, <2>3
<1>8. CASE (\E s \in Sessions, t \in EventTypes : Expires(s, t)) \/ ServerDies \/ ServerRestarts
  <2>1. Next
    BY <1>8 DEF Next, Expires, ServerDies, ServerRestarts
  <2>2. journal' = journal /\ spoiled' = spoiled /\ handed \subseteq handed'
    BY <1>8, SettleGrows DEF Expires, ServerDies, ServerRestarts, LeaseExpires, Crash, Restart
  <2> QED
    BY <2>1, <2>2, LiveStep, NoneAdvances DEF OpensAsked, Known
<1> QED
  BY <1>4, <1>5, <1>6, <1>7, <1>8 DEF OverlayNext

-----------------------------------------------------------------------------
(* The types.                                                               *)

LEMMA MessageType ==
  ASSUME net \subseteq Messages, NEW kind \in Kinds, NEW s \in Sessions
  PROVE  /\ Message(kind, s) \in Messages
         /\ Message(kind, s).kind = kind /\ Message(kind, s).s = s
         /\ Message(kind, s).at = "sent"
<1>1. Gate \in Ids
  <2>1. CASE Creations = {}
    BY <2>1 DEF Gate, Ids
  <2>2. CASE Creations # {}
    <3>1. (CHOOSE m \in Creations : TRUE) \in Creations
      BY <2>2
    <3>2. (CHOOSE m \in Creations : TRUE) \in Messages
      BY <3>1 DEF Creations
    <3> QED
      BY <2>2, <3>2 DEF Gate, Ids, Messages
  <2> QED
    BY <2>1, <2>2
<1>2. None \in Ids
  BY DEF Ids
<1> QED
  BY <1>1, <1>2 DEF Message, Messages

LEMMA CheckpointType ==
  ASSUME net \subseteq Messages, NEW t \in Tabs, t.cur \in Sessions
  PROVE  /\ Checkpoint(t) \in Messages
         /\ Checkpoint(t).kind = "checkpoint" /\ Checkpoint(t).s = t.cur
         /\ Checkpoint(t).at = "sent" /\ Checkpoint(t).ph \in {"generating", "cycling"}
<1> DEFINE m == Message("checkpoint", t.cur)
<1>1. m \in Messages /\ m.kind = "checkpoint" /\ m.s = t.cur /\ m.at = "sent"
  BY MessageType DEF Kinds
<1>2. (t.arrived < Expected) \in BOOLEAN
  OBVIOUS
<1> HIDE DEF m
<1>3. Checkpoint(t) = [m EXCEPT !.ph = IF t.state = "CYCLING" THEN "cycling" ELSE "generating",
                                !.behind = t.arrived < Expected]
  BY DEF Checkpoint, m
<1> QED
  BY <1>1, <1>2, <1>3 DEF Messages

LEMMA StoreTypes ==
  ASSUME store \in Stores, NEW t \in Tabs
  PROVE  /\ Saved(t) \in Stores /\ Marked(t) \in Stores
         /\ [store EXCEPT !.saved = NoSession] \in Stores
         /\ Saved(t).handled = store.handled
         /\ Saved(t).saved = (IF t.cur = None THEN store.saved
                              ELSE [s |-> t.cur, state |-> t.state, arrived |-> t.arrived])
<1>1. None \in Ids /\ t.cur \in Ids /\ t.state \in TabStates /\ t.arrived \in 0 .. Expected
  BY DEF Ids, Tabs
<1>2. NoSession \in Saves
  BY <1>1 DEF NoSession, Saves, TabStates, Expected
<1>3. [s |-> t.cur, state |-> t.state, arrived |-> t.arrived] \in Saves
  BY <1>1 DEF Saves
<1> QED
  BY <1>1, <1>2, <1>3 DEF Saved, Marked, Stores

LEMMA ReleasedType ==
  ASSUME NEW t \in Tabs
  PROVE  Released(t) \in Tabs /\ ReleasedAccepted(t) \in Tabs
         /\ Released(t).cur = None /\ ReleasedAccepted(t).cur = None
BY DEF Released, ReleasedAccepted, Tabs, TabStates, Ids

LEMMA ResumedType ==
  ASSUME NEW t \in Tabs, NEW s \in Sessions, source \in [Sessions -> Levels]
  PROVE  Resumed(t, s) \in Tabs /\ Resumed(t, s).cur = s
<1>1. Count(source[s]) \in 0 .. Expected
  BY DEF Count, Expected
<1>2. s \in Ids /\ "CYCLING" \in TabStates /\ "GENERATING" \in TabStates
  BY DEF Ids, TabStates
<1> QED
  BY <1>1, <1>2 DEF Resumed, Tabs

LEMMA RestoredType ==
  ASSUME NEW t \in Tabs, NEW save \in Saves, save.s # None, NEW known \in BOOLEAN
  PROVE  RestoredTab(t, save, known) \in Tabs /\ RestoredTab(t, save, known).cur = save.s
         /\ save.s \in Sessions
<1>1. save.s \in Sessions /\ save.arrived \in 0 .. Expected
  BY DEF Saves, Ids
<1>2. [s |-> save.s, why |-> IF save.state = "CYCLING" THEN "orphan" ELSE "restore"] \in Reads
  BY <1>1 DEF Reads
<1>3. save.s \in Ids /\ "GENERATING" \in TabStates
  BY <1>1 DEF Ids, TabStates
<1> QED
  BY <1>1, <1>2, <1>3 DEF RestoredTab, Tabs

LEMMA RecoversType ==
  ASSUME NEW t \in Tabs
  PROVE  Recovers(t) \in Tabs /\ Recovers(t).cur = t.cur
         /\ Recovers(t).pending = t.pending /\ Recovers(t).awaiting = t.awaiting
         /\ Recovers(t).capture = t.capture
<1>1. CASE t.cur \in Open
  <2>1. [s |-> t.cur, why |-> "completed"] \in Reads
    BY <1>1 DEF Open, Reads
  <2> QED
    BY <2>1 DEF Recovers, Tabs
<1>2. CASE t.cur \notin Open
  BY <1>2 DEF Recovers, Tabs
<1> QED
  BY <1>1, <1>2

LEMMA SayType ==
  ASSUME feed \in Seq(Notes), NEW type \in {"done", "error", "accepted", "discarded"},
         NEW s \in Sessions, Say(type, s)
  PROVE  /\ feed' \in Seq(Notes)
         /\ \A ty, u : InFeed(ty, u)' => InFeed(ty, u) \/ (ty = type /\ u = s)
         /\ \A ty, u : InFeed(ty, u) => InFeed(ty, u)'
         /\ conn => InFeed(type, s)'
<1>1. [type |-> type, s |-> s] \in Notes
  BY DEF Notes
<1>2. CASE ~conn
  BY <1>2 DEF Say, InFeed
<1>3. CASE conn
  <2>1. feed' = Append(feed, [type |-> type, s |-> s])
    BY <1>3 DEF Say
  <2> QED
    BY <1>1, <2>1 DEF InFeed
<1> QED
  BY <1>2, <1>3

LEMMA HearsType ==
  ASSUME feed \in Seq(Notes), NEW type, Hears(type)
  PROVE  /\ feed' \in Seq(Notes) /\ Said \in Sessions /\ InFeed(type, Said)
         /\ \A ty, u : InFeed(ty, u)' => InFeed(ty, u)
         /\ \A ty, u : InFeed(ty, u) => InFeed(ty, u)' \/ (ty = type /\ u = Said)
<1>1. feed # <<>> /\ Head(feed).type = type /\ feed' = Tail(feed)
  BY DEF Hears
<1>2. Head(feed) = feed[1] /\ 1 \in DOMAIN feed /\ feed[1] \in Notes
  BY <1>1
<1>3. feed' \in Seq(Notes) /\ Len(feed') = Len(feed) - 1
      /\ \A i \in 1 .. Len(feed') : feed'[i] = feed[i + 1]
  BY <1>1
<1>4. Said \in Sessions /\ InFeed(type, Said)
  BY <1>1, <1>2 DEF Said, InFeed, Notes
<1>5. ASSUME NEW ty, NEW u, InFeed(ty, u)'  PROVE InFeed(ty, u)
  BY <1>3, <1>5 DEF InFeed
<1>6. ASSUME NEW ty, NEW u, InFeed(ty, u)  PROVE InFeed(ty, u)' \/ (ty = type /\ u = Said)
  <2>1. PICK i \in 1 .. Len(feed) : feed[i].type = ty /\ feed[i].s = u
    BY <1>6 DEF InFeed
  <2>2. CASE i = 1
    BY <1>1, <1>2, <2>1, <2>2 DEF Said
  <2>3. CASE i # 1
    <3>1. i - 1 \in 1 .. Len(feed') /\ feed'[i - 1] = feed[i]
      BY <1>3, <2>3
    <3> QED
      BY <1>3, <2>1, <3>1 DEF InFeed
  <2> QED
    BY <2>2, <2>3
<1> QED
  BY <1>3, <1>4, <1>5, <1>6

\* The requests that become of those on their way.
LEMMA NetTypes ==
  ASSUME PageTypes
  PROVE  /\ \A m \in net, at \in {"ok", "refused", "stray", "sent"} :
               [m EXCEPT !.at = at] \in Messages
         /\ Stray \subseteq Messages
         /\ \A n \in Stray : n.kind # "checkpoint" /\ n.at = "stray"
                             /\ \E m \in net : m.kind = n.kind /\ m.s = n.s
<1>1. net \subseteq Messages
  BY DEF PageTypes, OverlayTypeOK
<1>2. ASSUME NEW m \in net, NEW at \in {"ok", "refused", "stray", "sent"}
      PROVE  [m EXCEPT !.at = at] \in Messages
  BY <1>1 DEF Messages
<1>3. ASSUME NEW n \in Stray
      PROVE  n \in Messages /\ n.kind # "checkpoint" /\ n.at = "stray"
             /\ \E m \in net : m.kind = n.kind /\ m.s = n.s
  <2>1. PICK m \in net : m.kind # "checkpoint" /\ n = [m EXCEPT !.at = "stray", !.after = None]
    BY DEF Stray
  <2>2. m \in Messages /\ None \in Ids
    BY <1>1 DEF Ids
  <2>3. n \in Messages /\ n.kind = m.kind /\ n.s = m.s /\ n.at = "stray"
    BY <2>1, <2>2 DEF Messages
  <2> QED
    BY <2>1, <2>3
<1> QED
  BY <1>2, <1>3

\* The variables of the page that a step writes keep their types.
TabTyped == tab' \in Tabs
StoreTyped == store' \in Stores
NetTyped == /\ net' \subseteq Messages
            /\ \A m \in net' : m.kind = "checkpoint" => m.ph \in {"generating", "cycling"}
SeenTyped == seen' \in Histories
RestTyped ==
  /\ source' \in [Sessions -> Levels] /\ conn' \in BOOLEAN
  /\ clicks' \in 0 .. MaxClicks /\ reloads' \in 0 .. MaxReloads
  /\ feed' \in Seq(Notes)
StepTyped == TabTyped /\ StoreTyped /\ NetTyped /\ SeenTyped /\ RestTyped

LEMMA SameTyped ==
  ASSUME PageTypes
  PROVE  /\ tab' = tab => TabTyped
         /\ store' = store => StoreTyped
         /\ net' \subseteq net => NetTyped
         /\ seen' = seen => SeenTyped
         /\ UNCHANGED <<source, conn, clicks, reloads, feed>> => RestTyped
         /\ tab \in Tabs /\ store \in Stores /\ net \subseteq Messages /\ seen \in Histories
         /\ source \in [Sessions -> Levels] /\ conn \in BOOLEAN /\ feed \in Seq(Notes)
         /\ clicks \in 0 .. MaxClicks /\ reloads \in 0 .. MaxReloads
BY DEF PageTypes, OverlayTypeOK, Stores, TabTyped, StoreTyped, NetTyped, SeenTyped, RestTyped

LEMMA SendTyped ==
  ASSUME PageTypes, NEW ms, ms \subseteq Messages, net' \subseteq net \cup ms,
         \A m \in ms : m.kind = "checkpoint" => m.ph \in {"generating", "cycling"}
  PROVE  NetTyped
BY DEF PageTypes, OverlayTypeOK, NetTyped

LEMMA AnswersTyped ==
  ASSUME PageTypes, NEW m \in net, NEW at \in {"ok", "refused"}, Answers(m, at)
  PROVE  NetTyped
<1>1. \/ net' \subseteq net
      \/ m.kind \in Decisions /\ net' \subseteq net \cup {[m EXCEPT !.at = at]}
  BY DEF Answers
<1>2. m \in Messages /\ [m EXCEPT !.at = at] \in Messages
  BY NetTypes DEF PageTypes, OverlayTypeOK
<1>3. [m EXCEPT !.at = at].kind = m.kind
  BY <1>2 DEF Messages
<1>4. CASE net' \subseteq net
  BY <1>4, SameTyped
<1>5. CASE m.kind \in Decisions /\ net' \subseteq net \cup {[m EXCEPT !.at = at]}
  <2> DEFINE ms == {[m EXCEPT !.at = at]}
  <2>1. ms \subseteq Messages /\ net' \subseteq net \cup ms
        /\ \A n \in ms : n.kind = "checkpoint" => n.ph \in {"generating", "cycling"}
    BY <1>2, <1>3, <1>5 DEF Decisions
  <2> HIDE DEF ms
  <2> QED
    BY <2>1, SendTyped
<1> QED
  BY <1>1, <1>4, <1>5

\* One message is sent.
LEMMA OneSent ==
  ASSUME PageTypes, NEW m \in Messages, m.kind = "checkpoint" => m.ph \in {"generating", "cycling"},
         net' \subseteq net \cup {m}
  PROVE  NetTyped
<1> DEFINE ms == {m}
<1>1. ms \subseteq Messages /\ net' \subseteq net \cup ms
      /\ \A n \in ms : n.kind = "checkpoint" => n.ph \in {"generating", "cycling"}
  OBVIOUS
<1> HIDE DEF ms
<1> QED
  BY <1>1, SendTyped

\* What a new checkpoint needs.
LEMMA ReportSent ==
  ASSUME PageTypes, NEW t \in Tabs, t.cur \in Sessions, Send({Checkpoint(t)})
  PROVE  NetTyped
<1>1. Checkpoint(t) \in Messages /\ Checkpoint(t).ph \in {"generating", "cycling"}
  BY SameTyped, CheckpointType
<1>2. net' = net \cup {Checkpoint(t)}
  BY DEF Send
<1> QED
  BY <1>1, <1>2, OneSent

LEMMA MessageSent ==
  ASSUME PageTypes, NEW kind \in Kinds \ {"checkpoint"}, NEW s \in Sessions,
         Send({Message(kind, s)})
  PROVE  NetTyped
<1>1. Message(kind, s) \in Messages /\ Message(kind, s).kind = kind
  BY SameTyped, MessageType
<1>2. net' = net \cup {Message(kind, s)}
  BY DEF Send
<1> QED
  BY <1>1, <1>2, OneSent

\* The history of what was closed, whatever the overlay has let go of.
LEMMA ClosedType ==
  ASSUME PageTypes, NEW s
  PROVE  /\ ClosedNow(s) \subseteq seen.closed \cup {s}
         /\ s \in Ids => ClosedNow(s) \subseteq Sessions
<1>1. tab.cur \in Ids /\ seen.closed \subseteq Sessions
  BY SameTyped DEF Tabs, Histories
<1>2. CASE tab.cur = None
  BY <1>1, <1>2 DEF ClosedNow
<1>3. CASE tab.cur # None
  <2>1. ClosedNow(s) = (seen.closed \cup {s}) \cap {tab.cur} /\ tab.cur \in Sessions
    BY <1>1, <1>3 DEF ClosedNow, Ids
  <2> QED
    BY <2>1
<1> QED
  BY <1>2, <1>3

LEMMA LetGo ==
  ASSUME PageTypes, NEW s \in Ids, Dismiss, Close(s)
  PROVE  TabTyped /\ StoreTyped /\ SeenTyped
<1>1. TabTyped /\ StoreTyped
  BY SameTyped, ReleasedType, StoreTypes DEF Dismiss, TabTyped, StoreTyped
<1>2. SeenTyped
  BY SameTyped, ClosedType DEF Close, SeenTyped, Histories
<1> QED
  BY <1>1, <1>2

LEMMA GoTyped ==
  ASSUME PageTypes, NEW s \in Sessions \ Steers, NEW annotated \in BOOLEAN, Go(s, annotated)
  PROVE  StepTyped
<1> DEFINE t == [tab EXCEPT !.state = "GENERATING", !.cur = s, !.arrived = 0,
                            !.dom = FALSE, !.pending = None, !.awaiting = None]
           ms == {Checkpoint(t)} \cup IF annotated THEN {} ELSE {Message("generate", s)}
<1>1. tab' = (IF annotated THEN [t EXCEPT !.capture = s] ELSE t) /\ store' = Saved(t)
      /\ net' = net \cup ms /\ seen' = [seen EXCEPT !.begun = @ \cup {s}, !.page = {}]
      /\ UNCHANGED <<source, feed, conn, clicks, reloads>>
  BY DEF Go, Acts, Send
<1>2. t \in Tabs /\ t.cur = s
  <2>1. None \in Ids /\ s \in Ids /\ 0 \in 0 .. Expected /\ "GENERATING" \in TabStates
    BY DEF Ids, Expected, TabStates
  <2> QED
    BY <2>1, SameTyped DEF Tabs
<1> HIDE DEF t
<1>6. [t EXCEPT !.capture = s] \in Tabs
  BY <1>2 DEF Tabs, Ids
<1>3. ms \subseteq Messages /\ \A m \in ms : m.kind = "checkpoint" => m.ph \in {"generating", "cycling"}
  <2>1. Message("generate", s) \in Messages /\ Message("generate", s).kind = "generate"
    BY SameTyped, MessageType DEF Kinds
  <2>2. Checkpoint(t) \in Messages /\ Checkpoint(t).ph \in {"generating", "cycling"}
    BY <1>2, SameTyped, CheckpointType
  <2> QED
    BY <2>1, <2>2
<1> HIDE DEF ms
<1>4. TabTyped /\ StoreTyped /\ NetTyped
  BY <1>1, <1>2, <1>3, <1>6, SameTyped, StoreTypes, SendTyped DEF TabTyped, StoreTyped
<1>5. SeenTyped
  BY <1>1, SameTyped DEF SeenTyped, Histories
<1> QED
  BY <1>1, <1>4, <1>5, SameTyped DEF StepTyped

LEMMA ClicksTyped ==
  ASSUME PageTypes, Clicks, Acts, reloads' = reloads
  PROVE  RestTyped
<1>1. clicks' \in 0 .. MaxClicks
  BY SameTyped, PageBoundsAssumption DEF Clicks
<1> QED
  BY <1>1, SameTyped DEF Acts, RestTyped

LEMMA AcceptTyped ==
  ASSUME PageTypes, Accept
  PROVE  StepTyped
<1>1. tab.cur \in Sessions /\ tab' = [tab EXCEPT !.state = "SAVING", !.pending = tab.cur]
      /\ store' = Saved(tab') /\ Send({Message("accept", tab.cur)})
      /\ seen' = [seen EXCEPT !.page = @ \ {tab.cur}, !.failed = @ \ {tab.cur},
                              !.alarmed = @ \ {tab.cur}]
  BY SameTyped DEF Accept, Tabs, Ids
<1>2. tab' \in Tabs
  BY <1>1, SameTyped DEF Tabs, TabStates, Ids
<1>3. store' \in Stores
  BY <1>1, <1>2, SameTyped, StoreTypes
<1>4. NetTyped
  BY <1>1, MessageSent DEF Kinds
<1>5. SeenTyped
  BY <1>1, SameTyped DEF SeenTyped, Histories
<1>6. RestTyped
  BY ClicksTyped DEF Accept
<1> QED
  BY <1>2, <1>3, <1>4, <1>5, <1>6 DEF StepTyped, TabTyped, StoreTyped

LEMMA DiscardTyped ==
  ASSUME PageTypes, Discard
  PROVE  StepTyped
<1>1. tab.cur \in Sessions /\ Send({Message("discard", tab.cur)})
  BY SameTyped DEF Discard, Tabs, Ids
<1>2. NetTyped
  BY <1>1, MessageSent DEF Kinds
<1>3. RestTyped
  BY ClicksTyped DEF Discard
<1> QED
  BY <1>2, <1>3, SameTyped DEF StepTyped, Discard

LEMMA CapturedTyped ==
  ASSUME PageTypes, Captured
  PROVE  StepTyped
<1>1. tab.capture \in Sessions /\ Send({Message("generate", tab.capture)})
      /\ tab' = [tab EXCEPT !.capture = None]
  BY SameTyped DEF Captured, Tabs, Ids
<1>2. NetTyped
  BY <1>1, MessageSent DEF Kinds
<1>3. TabTyped
  BY <1>1, SameTyped DEF TabTyped, Tabs, Ids
<1> QED
  BY <1>2, <1>3, SameTyped DEF StepTyped, Captured, Acts

LEMMA ReturnsTyped ==
  ASSUME PageTypes, NEW m \in net, Returns(m)
  PROVE  StepTyped
<1>1. NetTyped /\ m.s \in Sessions /\ m.s \in Ids
  BY SameTyped DEF Returns, AcceptConfirmed, AcceptFails, DiscardReturns, Returned, Drop, Messages, Ids
<1>2. CASE AcceptConfirmed(m)
  <2>1. CASE tab.pending = m.s
    <3>1. tab' = [ReleasedAccepted(tab) EXCEPT !.awaiting = m.s] /\ store' = Marked(tab)
          /\ seen' = [seen EXCEPT !.told = @ \cup {m.s}, !.page = {m.s}, !.closed = ClosedNow(m.s)]
      BY <1>2, <2>1 DEF AcceptConfirmed
    <3>2. TabTyped
      BY <1>1, <3>1, SameTyped, ReleasedType DEF TabTyped, Tabs
    <3>3. StoreTyped
      BY <3>1, SameTyped, StoreTypes DEF StoreTyped
    <3>4. SeenTyped
      BY <1>1, <3>1, SameTyped, ClosedType DEF SeenTyped, Histories
    <3> QED
      BY <1>1, <1>2, <3>2, <3>3, <3>4, SameTyped DEF StepTyped, AcceptConfirmed, Acts
  <2>2. CASE tab.pending # m.s
    BY <1>1, <1>2, <2>2, SameTyped DEF StepTyped, AcceptConfirmed, Acts
  <2> QED
    BY <2>1, <2>2
<1>3. CASE AcceptFails(m)
  <2>1. TabTyped
    BY <1>3, SameTyped DEF AcceptFails, TabTyped, Tabs, TabStates, Ids
  <2> QED
    BY <1>1, <1>3, <2>1, SameTyped DEF StepTyped, AcceptFails, Acts
<1>4. CASE DiscardReturns(m)
  <2>1. TabTyped /\ StoreTyped /\ SeenTyped
    BY <1>1, <1>4, LetGo, SameTyped DEF DiscardReturns
  <2> QED
    BY <1>1, <1>4, <2>1, SameTyped DEF StepTyped, DiscardReturns, Acts
<1> QED
  BY <1>2, <1>3, <1>4 DEF Returns

\* A tab that shows what it has found, and may report of it.
LEMMA ShowsTyped ==
  ASSUME PageTypes, NEW t \in Tabs, Shows(t)
  PROVE  TabTyped /\ StoreTyped
BY SameTyped, StoreTypes DEF Shows, TabTyped, StoreTyped

LEMMA ResumesTyped ==
  ASSUME PageTypes, NEW t \in Tabs, NEW s \in Sessions, Resumes(t, s)
  PROVE  TabTyped /\ StoreTyped /\ NetTyped
<1>1. Resumed(t, s) \in Tabs /\ Resumed(t, s).cur = s
  BY SameTyped, ResumedType
<1> QED
  BY <1>1, ShowsTyped, ReportSent DEF Resumes

LEMMA HotReloadTyped ==
  ASSUME PageTypes, HotReload
  PROVE  StepTyped
<1> DEFINE t == [tab EXCEPT !.arrived = Count(source[tab.cur]), !.dom = TRUE,
                            !.state = "CYCLING", !.scout = FALSE]
<1>1. tab.cur \in Sessions /\ Count(source[tab.cur]) \in 0 .. Expected
  BY SameTyped DEF HotReload, Tabs, Ids, Count, Expected
<1>2. t \in Tabs /\ t.cur \in Sessions
  BY <1>1, SameTyped DEF Tabs, TabStates
<1>3. Shows(t) /\ Send({Checkpoint(t)})
  BY DEF HotReload, Shows
<1> HIDE DEF t
<1> QED
  BY <1>2, <1>3, ShowsTyped, ReportSent, SameTyped DEF StepTyped, HotReload, Acts

LEMMA ReadingType ==
  ASSUME PageTypes, NEW r \in tab.due
  PROVE  /\ r \in Reads /\ Reading(r) \in Tabs
         /\ Reading(r).cur = tab.cur /\ Reading(r).pending = tab.pending
         /\ Reading(r).awaiting = tab.awaiting /\ Reading(r).capture = tab.capture
BY SameTyped DEF Reading, Tabs

LEMMA ReadsTyped ==
  ASSUME PageTypes, Read
  PROVE  StepTyped
<1>1. PICK r \in tab.due : ReadVariants(r) \/ ReadScaffold(r) \/ ReadNothing(r) \/ ReadDropped(r)
  BY DEF Read
<1>2. r.s \in Sessions /\ Reading(r) \in Tabs /\ Reading(r).cur = tab.cur
  BY ReadingType DEF Reads
<1>3. RestTyped
  BY <1>1, SameTyped DEF ReadVariants, ReadScaffold, ReadNothing, ReadDropped, Acts
<1>4. CASE ReadVariants(r)
  <2>1. CASE Spotted(r.s)
    BY <1>2, <1>3, <1>4, <2>1, ResumesTyped, SameTyped DEF ReadVariants, StepTyped
  <2>2. CASE ~Spotted(r.s)
    <3> DEFINE t == [Reading(r) EXCEPT !.arrived = Count(source[r.s]), !.dom = TRUE,
                                       !.state = "CYCLING", !.scout = FALSE]
    <3>1. Count(source[r.s]) \in 0 .. Expected
      BY DEF Count, Expected
    <3>2. t \in Tabs
      BY <1>2, <3>1 DEF Tabs, TabStates
    <3>3. Shows(t) /\ net' = net
      BY <1>4, <2>2 DEF ReadVariants
    <3> HIDE DEF t
    <3> QED
      BY <1>3, <1>4, <3>2, <3>3, ShowsTyped, SameTyped DEF ReadVariants, StepTyped
  <2> QED
    BY <2>1, <2>2
<1>5. CASE ReadScaffold(r)
  <2> DEFINE t == [Reading(r) EXCEPT !.arrived = 0, !.dom = TRUE, !.scout = FALSE]
  <2>1. t \in Tabs
    <3>1. 0 \in 0 .. Expected
      BY DEF Expected
    <3> QED
      BY <1>2, <3>1 DEF Tabs
  <2>2. \/ Resumes(t, r.s)
        \/ /\ (tab' = t /\ store' = store)
              \/ (tab' = Released(t) /\ store' = [store EXCEPT !.saved = NoSession])
           /\ net' = net
    BY <1>5 DEF ReadScaffold
  <2> HIDE DEF t
  <2>3. TabTyped /\ StoreTyped /\ NetTyped
    BY <1>2, <2>1, <2>2, ResumesTyped, SameTyped, ReleasedType, StoreTypes DEF TabTyped, StoreTyped
  <2> QED
    BY <1>3, <1>5, <2>3, SameTyped DEF ReadScaffold, StepTyped
<1>6. CASE ReadNothing(r)
  <2>1. CASE r.why = "orphan" /\ r.s = tab.cur /\ tab.state \in {"GENERATING", "CYCLING"}
    <3>1. /\ Send({Message("orphan", r.s)})
          /\ tab' = Released(Reading(r)) /\ store' = Marked(tab) /\ Close(None)
      BY <1>6, <2>1 DEF ReadNothing, Drops
    <3>2. NetTyped
      BY <1>2, <3>1, MessageSent DEF Kinds
    <3>3. TabTyped /\ StoreTyped
      BY <1>2, <3>1, ReleasedType, StoreTypes, SameTyped DEF TabTyped, StoreTyped
    <3>4. SeenTyped
      BY <3>1, ClosedType, SameTyped DEF Close, SeenTyped, Histories, Ids
    <3> QED
      BY <1>3, <3>2, <3>3, <3>4 DEF StepTyped
  <2>2. CASE ~(r.why = "orphan" /\ r.s = tab.cur /\ tab.state \in {"GENERATING", "CYCLING"})
    <3>1. tab' = Reading(r) /\ UNCHANGED <<store, net, seen>>
      BY <1>6, <2>2 DEF ReadNothing
    <3> QED
      BY <1>2, <1>3, <3>1, SameTyped DEF StepTyped, TabTyped
  <2> QED
    BY <2>1, <2>2
<1>7. CASE ReadDropped(r)
  BY <1>2, <1>3, <1>7, SameTyped DEF ReadDropped, StepTyped, TabTyped, Acts
<1> QED
  BY <1>1, <1>4, <1>5, <1>6, <1>7

LEMMA ScoutTyped ==
  ASSUME PageTypes, Scout
  PROVE  StepTyped
<1>1. PICK s \in Wrapped :
         IF Spotted(s) THEN Resumes(tab, s)
         ELSE tab' = [tab EXCEPT !.scout = FALSE] /\ UNCHANGED <<store, net>>
  BY DEF Scout
<1>2. s \in Sessions /\ tab \in Tabs /\ [tab EXCEPT !.scout = FALSE] \in Tabs
  BY SameTyped DEF Wrapped, Tabs
<1>3. TabTyped /\ StoreTyped /\ NetTyped
  BY <1>1, <1>2, ResumesTyped, SameTyped DEF TabTyped
<1> QED
  BY <1>3, SameTyped DEF Scout, StepTyped, Acts

\* What a new connection may restore.
LEMMA CandidateType ==
  ASSUME PageTypes, NEW save \in Candidates
  PROVE  save \in Saves /\ save.s # None /\ store.handled # save.s
         /\ (save = store.saved \/ save.s \in Adoptable)
<1>1. store.saved \in Saves
  BY SameTyped DEF Stores
<1>2. CASE store.saved.s # None
  <2>1. save = store.saved /\ Restorable(save)
    BY <1>2 DEF Candidates
  <2> QED
    BY <1>1, <2>1 DEF Restorable
<1>3. CASE store.saved.s = None
  <2>1. PICK s \in Adoptable : save = [s |-> s, state |-> "GENERATING", arrived |-> 0]
    BY <1>3 DEF Candidates
  <2>2. s \in Sessions /\ store.handled # s
    BY <2>1 DEF Adoptable, Open
  <2>3. 0 \in 0 .. Expected /\ "GENERATING" \in TabStates /\ s \in Ids
    BY <2>2 DEF Expected, TabStates, Ids
  <2> QED
    BY <2>1, <2>2, <2>3, NoneAssumption DEF Saves
<1> QED
  BY <1>2, <1>3

LEMMA ConnectTyped ==
  ASSUME PageTypes, Connect
  PROVE  StepTyped
<1>1. RestTyped /\ SeenTyped
  BY SameTyped DEF Connect, RestTyped
<1>2. CASE Candidates = {}
  BY <1>1, <1>2, SameTyped, RecoversType DEF Connect, StepTyped, TabTyped
<1>3. CASE Candidates # {}
  <2> DEFINE t(save, known) == RestoredTab([tab EXCEPT !.dom = FALSE], save, known)
  <2>1. PICK save \in Candidates, known \in BOOLEAN :
          /\ tab' = Recovers(t(save, known)) /\ store' = Saved(t(save, known))
          /\ Send({Checkpoint(t(save, known))})
    BY <1>3 DEF Connect
  <2>2. [tab EXCEPT !.dom = FALSE] \in Tabs
    BY SameTyped DEF Tabs
  <2>3. t(save, known) \in Tabs /\ t(save, known).cur \in Sessions
    BY <2>2, CandidateType, RestoredType
  <2> HIDE DEF t
  <2> QED
    BY <1>1, <2>1, <2>3, SameTyped, StoreTypes, RecoversType, ReportSent
       DEF StepTyped, TabTyped, StoreTyped
<1> QED
  BY <1>2, <1>3

LEMMA CutOffTyped ==
  ASSUME PageTypes, CutOff, UNCHANGED <<source, clicks>>, reloads' \in 0 .. MaxReloads
  PROVE  RestTyped
<1>1. <<>> \in Seq(Notes) /\ FALSE \in BOOLEAN
  OBVIOUS
<1> QED
  BY <1>1, SameTyped DEF CutOff, RestTyped

LEMMA NewTabType == NewTab \in Tabs
<1>1. 0 \in 0 .. Expected /\ None \in Ids /\ "PICKING" \in TabStates
  BY DEF Expected, Ids, TabStates
<1> QED
  BY <1>1 DEF NewTab, Tabs

LEMMA ReloadTyped ==
  ASSUME PageTypes, NEW late \in BOOLEAN, Reload(late)
  PROVE  StepTyped
<1>1. RestTyped
  <2>1. reloads' \in 0 .. MaxReloads
    BY SameTyped, PageBoundsAssumption DEF Reload
  <2> QED
    BY <2>1, CutOffTyped DEF Reload
<1>2. SeenTyped
  BY SameTyped DEF Reload, SeenTyped, Histories
<1>3. Stray \subseteq Messages /\ \A n \in Stray : n.kind # "checkpoint"
  BY NetTypes
<1>4. ASSUME NEW t \in Tabs, t.cur \in Sessions, Shows(t), net' = Stray \cup {Checkpoint(t)}
      PROVE  TabTyped /\ StoreTyped /\ NetTyped
  <2>1. Checkpoint(t) \in Messages /\ Checkpoint(t).ph \in {"generating", "cycling"}
    BY <1>4, SameTyped, CheckpointType
  <2>2. NetTyped
    BY <1>3, <1>4, <2>1 DEF NetTyped
  <2> QED
    BY <1>4, <2>2, ShowsTyped
<1>5. ASSUME tab' = [NewTab EXCEPT !.scout = TRUE], net' = Stray,
             store' = store \/ store' = [saved |-> NoSession, handled |-> None]
      PROVE  TabTyped /\ StoreTyped /\ NetTyped
  <2>1. TabTyped
    BY <1>5, NewTabType DEF TabTyped, Tabs
  <2>2. NetTyped
    BY <1>3, <1>5 DEF NetTyped
  <2>3. [saved |-> NoSession, handled |-> None] \in Stores
    <3>1. NoSession \in Saves /\ None \in Ids
      BY DEF NoSession, Saves, Ids, TabStates, Expected
    <3> QED
      BY <3>1 DEF Stores
  <2> QED
    BY <1>5, <2>1, <2>2, <2>3, SameTyped DEF StoreTyped
<1>6. TabTyped /\ StoreTyped /\ NetTyped
  <2>1. CASE ResumeWithout(NewTab, late)
    <3>1. CASE Restorable(store.saved)
      <4> DEFINE r(known) == RestoredTab([NewTab EXCEPT !.dom = late], store.saved, known)
      <4>1. PICK known \in BOOLEAN : Shows(r(known)) /\ net' = Stray \cup {Checkpoint(r(known))}
        BY <2>1, <3>1 DEF ResumeWithout
      <4>2. [NewTab EXCEPT !.dom = late] \in Tabs
        BY NewTabType DEF Tabs
      <4>3. store.saved \in Saves /\ store.saved.s # None
        BY <3>1, SameTyped DEF Stores, Restorable
      <4>4. r(known) \in Tabs /\ r(known).cur \in Sessions
        BY <4>2, <4>3, RestoredType
      <4> HIDE DEF r
      <4> QED
        BY <1>4, <4>1, <4>4
    <3>2. CASE ~Restorable(store.saved)
      BY <1>5, <2>1, <3>2 DEF ResumeWithout
    <3> QED
      BY <3>1, <3>2
  <2>2. ASSUME NEW s \in Wrapped, ResumeFromWrapper(s, NewTab)
        PROVE  TabTyped /\ StoreTyped /\ NetTyped
    <3>1. CASE store.handled = s
      BY <1>5, <2>2, <3>1 DEF ResumeFromWrapper
    <3>2. CASE store.handled # s
      <4>1. s \in Sessions
        BY DEF Wrapped
      <4>2. Resumed(NewTab, s) \in Tabs /\ Resumed(NewTab, s).cur \in Sessions
        BY <4>1, NewTabType, ResumedType, SameTyped
      <4>3. Shows(Resumed(NewTab, s)) /\ net' = Stray \cup {Checkpoint(Resumed(NewTab, s))}
        BY <2>2, <3>2 DEF ResumeFromWrapper
      <4> QED
        BY <1>4, <4>2, <4>3
    <3> QED
      BY <3>1, <3>2
  <2> QED
    BY <2>1, <2>2 DEF Reload
<1> QED
  BY <1>1, <1>2, <1>6 DEF StepTyped

LEMMA HearTyped ==
  ASSUME PageTypes, Hear
  PROVE  StepTyped
<1>1. PICK type : Hears(type)
  BY DEF Hear, HearDone, HearAccepted, HearDiscarded, HearError
<1>2. feed' \in Seq(Notes) /\ Said \in Sessions
  BY <1>1, HearsType, SameTyped
<1>3. RestTyped /\ NetTyped
  BY <1>2, SameTyped DEF Hear, HearDone, HearAccepted, HearDiscarded, HearError, Hearing, RestTyped
<1>4. None \in Ids /\ Said \in Ids /\ "CYCLING" \in TabStates /\ "PICKING" \in TabStates
  BY <1>2 DEF Ids, TabStates
<1>5. CASE HearDone
  <2>1. [s |-> Said, why |-> "completed"] \in Reads
    BY <1>2 DEF Reads
  <2>2. TabTyped
    BY <1>4, <1>5, <2>1, SameTyped DEF HearDone, TabTyped, Tabs
  <2> QED
    BY <1>3, <1>5, <2>2, SameTyped DEF HearDone, StepTyped
<1>6. CASE HearAccepted
  <2> DEFINE t == [tab EXCEPT !.awaiting = IF @ = Said THEN None ELSE @]
  <2>1. t \in Tabs
    BY <1>4, SameTyped DEF Tabs
  <2>2. \/ (tab' = t \/ tab' = [t EXCEPT !.pending = None]) /\ UNCHANGED <<store, seen>>
        \/ /\ tab' = ReleasedAccepted(t) /\ store' = Marked(tab)
           /\ seen' = [seen EXCEPT !.told = @ \cup {Said}, !.closed = ClosedNow(Said)]
    BY <1>6 DEF HearAccepted
  <2> HIDE DEF t
  <2>3. TabTyped
    BY <1>4, <2>1, <2>2, ReleasedType DEF TabTyped, Tabs
  <2>4. StoreTyped
    BY <2>2, SameTyped, StoreTypes DEF StoreTyped
  <2>5. SeenTyped
    <3> DEFINE now == ClosedNow(Said)
    <3>1. now \subseteq Sessions /\ seen \in Histories
      BY <1>4, ClosedType, SameTyped
    <3>2. seen' = seen \/ seen' = [seen EXCEPT !.told = @ \cup {Said}, !.closed = now]
      BY <2>2
    <3> HIDE DEF now
    <3>3. CASE seen' = [seen EXCEPT !.told = @ \cup {Said}, !.closed = now]
      BY <1>2, <3>1, <3>3 DEF SeenTyped, Histories
    <3> QED
      BY <3>1, <3>2, <3>3 DEF SeenTyped
  <2> QED
    BY <1>3, <2>3, <2>4, <2>5 DEF StepTyped
<1>7. CASE HearDiscarded
  <2>1. TabTyped /\ StoreTyped /\ SeenTyped
    BY <1>4, <1>7, LetGo, SameTyped DEF HearDiscarded
  <2> QED
    BY <1>3, <2>1 DEF StepTyped
<1>8. CASE HearError
  <2>1. CASE tab.pending = Said
    <3>1. /\ tab' = [tab EXCEPT !.pending = None, !.awaiting = None, !.state = "CYCLING"]
          /\ seen' = [seen EXCEPT !.page = @ \cap {Said}, !.alarmed = @ \cup {Said}]
          /\ store' = store
      BY <1>8, <2>1 DEF HearError
    <3>2. TabTyped /\ SeenTyped
      BY <1>2, <1>4, <3>1, SameTyped DEF TabTyped, Tabs, SeenTyped, Histories
    <3> QED
      BY <1>3, <3>1, <3>2, SameTyped DEF StepTyped
  <2>2. CASE tab.pending # Said /\ tab.awaiting = Said
    <3>1. /\ tab' = [tab EXCEPT !.awaiting = None]
          /\ seen' = [seen EXCEPT !.alarmed = @ \cup {Said}]
          /\ store' = store
      BY <1>8, <2>2 DEF HearError
    <3>2. TabTyped /\ SeenTyped
      BY <1>2, <1>4, <3>1, SameTyped DEF TabTyped, Tabs, SeenTyped, Histories
    <3> QED
      BY <1>3, <3>1, <3>2, SameTyped DEF StepTyped
  <2>3. CASE Said \notin {tab.pending, tab.awaiting} /\ Said = tab.cur
    <3>1. Dismiss /\ Close(None)
      BY <1>8, <2>3 DEF HearError, Drops
    <3> QED
      BY <1>3, <1>4, <3>1, LetGo DEF StepTyped
  <2>4. CASE Said \notin {tab.pending, tab.awaiting} /\ Said # tab.cur
    <3>1. /\ tab' = [tab EXCEPT !.state = "PICKING"]
          /\ store' = store \/ store' = [store EXCEPT !.saved = NoSession]
          /\ seen' = seen
      BY <1>8, <2>4 DEF HearError
    <3>2. TabTyped
      BY <1>4, <3>1, SameTyped DEF TabTyped, Tabs
    <3> QED
      BY <1>3, <3>1, <3>2, SameTyped, StoreTypes DEF StepTyped, StoreTyped
  <2> QED
    BY <2>1, <2>2, <2>3, <2>4
<1> QED
  BY <1>5, <1>6, <1>7, <1>8 DEF Hear

LEMMA ServesTyped ==
  ASSUME PageTypes, NEW m \in net, Serves(m)
  PROVE  StepTyped
<1>1. m.s \in Sessions
  BY SameTyped DEF Messages
<1>2. NetTyped
  BY SameTyped, AnswersTyped DEF Serves, ServeGenerate, ServeCheckpoint, ServeDecision, ServeOrphan, Refuse, Drop
<1>3. RestTyped
  <2>1. feed' \in Seq(Notes)
    <3>1. feed' = feed \/ Say("done", m.s)
      BY DEF Serves, ServeGenerate, ServeCheckpoint, ServeDecision, ServeOrphan, Refuse
    <3> QED
      BY <1>1, <3>1, SayType, SameTyped
  <2> QED
    BY <2>1, SameTyped DEF Serves, ServeGenerate, ServeCheckpoint, ServeDecision, ServeOrphan, Refuse,
       ServerOnly, RestTyped
<1>4. TabTyped /\ StoreTyped /\ SeenTyped
  <2>1. CASE Refuse(m)
    BY <2>1, LetGo, SameTyped DEF Refuse, Drops, Ids
  <2>2. CASE ~Refuse(m)
    BY <2>2, SameTyped DEF Serves, ServeGenerate, ServeCheckpoint, ServeDecision, ServeOrphan, ServerOnly
  <2> QED
    BY <2>1, <2>2
<1> QED
  BY <1>2, <1>3, <1>4 DEF StepTyped

LEMMA LossesTyped ==
  ASSUME PageTypes, Losses \/ Disconnect
  PROVE  StepTyped
<1>1. CASE Losses
  <2>1. PICK m \in net : Lose(m)
    BY <1>1 DEF Losses
  <2>2. NetTyped
    <3>1. CASE m.at = "ok"
      <4>1. [m EXCEPT !.at = "refused"] \in Messages /\ m \in Messages
        BY NetTypes, SameTyped
      <4>2. [m EXCEPT !.at = "refused"].kind = m.kind /\ [m EXCEPT !.at = "refused"].ph = m.ph
        BY <4>1 DEF Messages
      <4>3. net' \subseteq net \cup {[m EXCEPT !.at = "refused"]}
        BY <2>1, <3>1 DEF Lose
      <4> QED
        BY <4>1, <4>2, <4>3, OneSent DEF PageTypes
    <3>2. CASE m.at # "ok"
      BY <2>1, <3>2, AnswersTyped DEF Lose
    <3> QED
      BY <3>1, <3>2
  <2> QED
    BY <2>1, <2>2, SameTyped DEF Lose, StepTyped
<1>2. CASE Disconnect
  <2>1. SeenTyped
    BY <1>2, SameTyped DEF Disconnect, SeenTyped, Histories
  <2>2. RestTyped
    BY <1>2, CutOffTyped, SameTyped DEF Disconnect
  <2> QED
    BY <1>2, <2>1, <2>2, SameTyped DEF Disconnect, StepTyped
<1> QED
  BY <1>1, <1>2

\* An agent at work is about a session of the page.
LEMMA AgentSession ==
  ASSUME LInv, NEW a \in Agents, agent[a].at \in {"scaffolding", "working", "cleaning"}
  PROVE  agent[a].s \in Sessions
<1>1. Job(agent[a], journal, handed, spoiled)
  BY DEF LInv, Books, JobBook, Busy
<1> QED
  BY <1>1 DEF Job

\* What an agent's step leaves alone.
LEMMA AgentsUnseen ==
  ASSUME NEW a, AgentMoves(a)
  PROVE  UNCHANGED <<tab, store, net, conn, clicks, reloads>>
<1>1. ASSUME Unseen PROVE UNCHANGED <<tab, store, net, conn, clicks, reloads>>
  BY <1>1 DEF Unseen
<1> QED
  BY <1>1 DEF AgentMoves, AgentPolls, AgentScaffolds, AgentWrites, AgentAnswers, AgentDone, AgentError,
     AgentAccepts, AgentDiscards, AgentCompletes, Silent

\* What it writes, what it says and what it leaves in the history.
LEMMA AgentEffects ==
  ASSUME LInv, NEW a \in Agents, AgentMoves(a)
  PROVE  LET s == agent[a].s
         IN \/ UNCHANGED <<source, feed, seen>>
            \/ AgentScaffolds(a) /\ s \in Sessions
            \/ AgentWrites(a) /\ s \in Sessions
            \/ /\ AgentAnswers(a) /\ s \in Sessions
               /\ source' = source \/ Writes(s, "clean")
               /\ feed' = feed \/ \E type \in {"done", "error", "accepted", "discarded"} : Say(type, s)
               /\ seen' = seen \/ (conn /\ s \in Sessions /\ seen' = [seen EXCEPT !.failed = @ \cup {s}])
<1> DEFINE s == agent[a].s
<1>1. CASE AgentPolls(a) \/ (Vanish(a) /\ Silent)
  BY <1>1 DEF AgentPolls, Silent
<1>2. CASE AgentScaffolds(a)
  <2>1. agent[a].at = "scaffolding"
    BY <1>2 DEF AgentScaffolds, ScaffoldDone
  <2> QED
    BY <1>2, <2>1, AgentSession
<1>3. CASE AgentWrites(a)
  <2>1. agent[a].at = "working"
    BY <1>3 DEF AgentWrites, On
  <2> QED
    BY <1>3, <2>1, AgentSession
<1>4. CASE AgentAnswers(a)
  <2>1. agent[a].at \in {"working", "cleaning"}
    BY <1>4 DEF AgentAnswers, AgentDone, AgentError, AgentAccepts, AgentDiscards, AgentCompletes,
       ReplyDone, ReplyError, ReplyAccept, ReplyDiscard, Complete, CompleteOffline, On
  <2>2. s \in Sessions
    BY <2>1, AgentSession
  <2>3. source' = source \/ Writes(s, "clean")
    BY <1>4 DEF AgentAnswers, AgentDone, AgentError, AgentAccepts, AgentDiscards, AgentCompletes
  <2>4. feed' = feed \/ \E type \in {"done", "error", "accepted", "discarded"} : Say(type, s)
    BY <1>4 DEF AgentAnswers, AgentDone, AgentError, AgentAccepts, AgentDiscards, AgentCompletes,
       DiscardReplies
  <2>5. seen' = seen \/ (conn /\ seen' = [seen EXCEPT !.failed = @ \cup {s}])
    BY <1>4 DEF AgentAnswers, AgentDone, AgentError, AgentAccepts, AgentDiscards, AgentCompletes
  <2> QED
    BY <1>4, <2>2, <2>3, <2>4, <2>5
<1> QED
  BY <1>1, <1>2, <1>3, <1>4 DEF AgentMoves

LEMMA AgentsTyped ==
  ASSUME LInv, PageTypes, NEW a \in Agents, AgentMoves(a)
  PROVE  StepTyped
<1> DEFINE s == agent[a].s
<1>1. TabTyped /\ StoreTyped /\ NetTyped
  BY AgentsUnseen, SameTyped
<1>2. ASSUME s \in Sessions, NEW level \in Levels, Writes(s, level)
      PROVE  source' \in [Sessions -> Levels]
  BY <1>2, SameTyped DEF Writes
<1>3. /\ source' \in [Sessions -> Levels]
      /\ feed' = feed \/ (s \in Sessions /\ \E type \in {"done", "error", "accepted", "discarded"} : Say(type, s))
      /\ seen' = seen \/ (s \in Sessions /\ seen' = [seen EXCEPT !.failed = @ \cup {s}])
  <2>1. CASE UNCHANGED <<source, feed, seen>>
    BY <2>1, SameTyped
  <2>2. CASE AgentScaffolds(a) /\ s \in Sessions
    <3>1. source[s] \in Levels /\ "scaffold" \in Levels
      BY <2>2, SameTyped DEF Levels
    <3> QED
      BY <1>2, <2>2, <3>1 DEF AgentScaffolds
  <2>3. CASE AgentWrites(a) /\ s \in Sessions
    <3>1. "some" \in Levels /\ "all" \in Levels
      BY DEF Levels
    <3> QED
      BY <1>2, <2>3, <3>1 DEF AgentWrites
  <2>4. CASE /\ AgentAnswers(a) /\ s \in Sessions
             /\ source' = source \/ Writes(s, "clean")
             /\ feed' = feed \/ \E type \in {"done", "error", "accepted", "discarded"} : Say(type, s)
             /\ seen' = seen \/ (conn /\ seen' = [seen EXCEPT !.failed = @ \cup {s}])
    <3>1. "clean" \in Levels
      BY DEF Levels
    <3> QED
      BY <1>2, <2>4, <3>1, SameTyped
  <2> QED
    BY <2>1, <2>2, <2>3, <2>4, AgentEffects
<1>4. feed' \in Seq(Notes)
  BY <1>3, SayType, SameTyped
<1>5. RestTyped
  BY <1>3, <1>4, AgentsUnseen, SameTyped DEF RestTyped
<1>6. SeenTyped
  BY <1>3, SameTyped DEF SeenTyped, Histories
<1> QED
  BY <1>1, <1>5, <1>6 DEF StepTyped

LEMMA PageTyped ==
  ASSUME LInv, PageTypes, [OverlayNext]_allVars
  PROVE  PageTypes'
<1>1. StepTyped
  <2>1. CASE UNCHANGED allVars
    BY <2>1, SameTyped DEF allVars, pageVars, StepTyped
  <2>2. CASE User
    BY <2>2, GoTyped, AcceptTyped, DiscardTyped, ReloadTyped DEF User
  <2>3. CASE Captured
    BY <2>3, CapturedTyped
  <2>4. CASE Network
    BY <2>4, ServesTyped, ReturnsTyped DEF Network
  <2>5. CASE Losses \/ Disconnect
    BY <2>5, LossesTyped
  <2>6. CASE Hear \/ HotReload \/ Read \/ Scout \/ Connect
    BY <2>6, HearTyped, HotReloadTyped, ReadsTyped, ScoutTyped, ConnectTyped
  <2>7. CASE \E a \in Agents : AgentMoves(a)
    BY <2>7, AgentsTyped
  <2>8. CASE (\E s \in Sessions, t \in EventTypes : Expires(s, t)) \/ ServerRestarts
    BY <2>8, SameTyped DEF Expires, ServerRestarts, Silent, Unseen, StepTyped
  <2>9. CASE ServerDies
    <3>1. SeenTyped
      BY <2>9, SameTyped DEF ServerDies, SeenTyped, Histories
    <3>2. RestTyped
      BY <2>9, CutOffTyped, SameTyped DEF ServerDies
    <3> QED
      BY <2>9, <3>1, <3>2, SameTyped DEF ServerDies, StepTyped
  <2> QED
    BY <2>1, <2>2, <2>3, <2>4, <2>5, <2>6, <2>7, <2>8, <2>9 DEF OverlayNext
<1> QED
  BY <1>1 DEF StepTyped, TabTyped, StoreTyped, NetTyped, SeenTyped, RestTyped, PageTypes, OverlayTypeOK, Stores

-----------------------------------------------------------------------------
(* What a step of the page does to the requests and to the history.         *)

LEMMA AgreedStays ==
  ASSUME Advance, NEW s \in Sessions
  PROVE  (Agreed(s) => Agreed(s)') /\ (Canceled(journal[s]) => Canceled(journal'[s]))
         /\ (Shown(s) => Shown(s)') /\ (s \in spoiled => s \in spoiled')
BY DEF Advance, Onward, Agreed, Shown

\* A session is begun by a Go, at most one in a step.
LEMMA HistoryGrows ==
  ASSUME LInv, PageTypes, [OverlayNext]_allVars
  PROVE  \/ seen'.begun = seen.begun
            /\ (seen'.closed = seen.closed \/ \E s \in Ids : seen'.closed = ClosedNow(s))
         \/ \E s \in Sessions \ Steers, annotated \in BOOLEAN :
               Go(s, annotated) /\ seen'.begun = seen.begun \cup {s}
<1>1. seen \in Histories /\ None \in Ids
  BY SameTyped DEF Ids
<1>2. CASE seen' = seen
  BY <1>2
<1>3. CASE \E s \in Sessions \ Steers, annotated \in BOOLEAN : Go(s, annotated)
  BY <1>1, <1>3 DEF Go, Histories
<1>4. CASE Accept \/ (\E late \in BOOLEAN : Reload(late)) \/ Disconnect \/ ServerDies
  BY <1>1, <1>4 DEF Accept, Reload, Disconnect, ServerDies, Histories
<1>5. ASSUME NEW s \in Ids, Close(s)
      PROVE  seen'.begun = seen.begun /\ seen'.closed = ClosedNow(s)
  BY <1>1, <1>5 DEF Close, Histories
<1>6. CASE Network
  <2>1. PICK m \in net : Serves(m) \/ Returns(m)
    BY <1>6 DEF Network
  <2>2. m.s \in Ids
    BY SameTyped DEF Messages, Ids
  <2>3. CASE Serves(m)
    BY <1>1, <1>2, <1>5, <2>3 DEF Serves, ServeGenerate, ServeCheckpoint, ServeDecision, ServeOrphan, Refuse,
       ServerOnly, Drops
  <2>4. CASE AcceptConfirmed(m)
    BY <1>1, <1>2, <2>2, <2>4 DEF AcceptConfirmed, Histories
  <2>5. CASE AcceptFails(m)
    BY <1>2, <2>5 DEF AcceptFails
  <2>6. CASE DiscardReturns(m)
    BY <1>2, <1>5, <2>2, <2>6 DEF DiscardReturns
  <2> QED
    BY <2>1, <2>3, <2>4, <2>5, <2>6 DEF Returns
<1>7. CASE Hear
  <2>1. Said \in Ids
    BY <1>7, SameTyped, HearsType DEF Hear, HearDone, HearAccepted, HearDiscarded, HearError, Ids
  <2>2. CASE HearDone
    BY <1>2, <2>2 DEF HearDone
  <2>3. CASE HearAccepted
    BY <1>1, <1>2, <2>1, <2>3 DEF HearAccepted, Histories
  <2>4. CASE HearDiscarded
    BY <1>2, <1>5, <2>1, <2>4 DEF HearDiscarded
  <2>5. CASE HearError
    BY <1>1, <1>2, <1>5, <2>5 DEF HearError, Drops, Histories
  <2> QED
    BY <1>7, <2>2, <2>3, <2>4, <2>5 DEF Hear
<1>8. CASE Read
  BY <1>1, <1>2, <1>5, <1>8 DEF Read, ReadVariants, ReadScaffold, ReadNothing, ReadDropped, Drops
<1>9. CASE \E a \in Agents : AgentMoves(a)
  <2>1. PICK a \in Agents : AgentMoves(a)
    BY <1>9
  <2>2. seen' = seen \/ \E s \in Sessions : seen' = [seen EXCEPT !.failed = @ \cup {s}]
    BY <2>1, AgentEffects DEF AgentScaffolds, AgentWrites
  <2> QED
    BY <1>1, <2>2 DEF Histories
<1>10. CASE \/ UNCHANGED allVars \/ Discard \/ Captured \/ Losses \/ HotReload \/ Scout \/ Connect
            \/ (\E s \in Sessions, t \in EventTypes : Expires(s, t)) \/ ServerRestarts
  BY <1>2, <1>10 DEF allVars, pageVars, Discard, Captured, Losses, Lose, HotReload, Scout, Connect,
     Expires, ServerRestarts, Silent
<1> QED
  BY <1>3, <1>4, <1>6, <1>7, <1>8, <1>9, <1>10 DEF OverlayNext, User

\* What a reload comes to: nothing, or the session it resumes or restores.
Blank(late) ==
         /\ tab' = [NewTab EXCEPT !.scout = TRUE] /\ net' = Stray
         /\ \/ store' = store /\ store.handled \in Wrapped
            \/ store' = [saved |-> NoSession, handled |-> None] /\ (late \/ Wrapped = {})
Comes(t) ==
  /\ Shows(t) /\ net' = Stray \cup {Checkpoint(t)}
  /\ t.pending = None /\ t.awaiting = None /\ t.capture = None
  /\ t.cur = store.saved.s \/ (t.cur \in Wrapped /\ store.handled # t.cur)

LEMMA Reloaded ==
  ASSUME PageTypes, NEW late \in BOOLEAN, Reload(late)
  PROVE  \/ Blank(late)
         \/ \E t \in Tabs : t.cur \in Sessions /\ Comes(t)
<1> USE SameTyped, NewTabType
<1>1. CASE ResumeWithout(NewTab, late) /\ (Wrapped = {} \/ late)
  <2>1. CASE Restorable(store.saved)
    <3> DEFINE r(known) == RestoredTab([NewTab EXCEPT !.dom = late], store.saved, known)
    <3>1. PICK known \in BOOLEAN : Shows(r(known)) /\ net' = Stray \cup {Checkpoint(r(known))}
      BY <1>1, <2>1 DEF ResumeWithout
    <3>2. [NewTab EXCEPT !.dom = late] \in Tabs
      BY DEF Tabs
    <3>3. store.saved \in Saves /\ store.saved.s # None
      BY <2>1 DEF Stores, Restorable
    <3>4. r(known) \in Tabs /\ r(known).cur = store.saved.s /\ store.saved.s \in Sessions
      BY <3>2, <3>3, RestoredType
    <3>5. r(known).pending = None /\ r(known).awaiting = None /\ r(known).capture = None
      BY DEF RestoredTab, NewTab
    <3> HIDE DEF r
    <3> QED
      BY <3>1, <3>4, <3>5 DEF Comes
  <2>2. CASE ~Restorable(store.saved)
    BY <1>1, <2>2 DEF ResumeWithout, Blank, Reload
  <2> QED
    BY <2>1, <2>2
<1>2. ASSUME NEW s \in Wrapped, ResumeFromWrapper(s, NewTab)
      PROVE  Blank(late) \/ \E t \in Tabs : t.cur \in Sessions /\ Comes(t)
  <2>1. CASE store.handled = s
    BY <1>2, <2>1 DEF ResumeFromWrapper, Blank
  <2>2. CASE store.handled # s
    <3> DEFINE t == Resumed(NewTab, s)
    <3>1. s \in Sessions
      BY DEF Wrapped
    <3>2. t \in Tabs /\ t.cur = s
      BY <3>1, ResumedType
    <3>3. t.pending = None /\ t.awaiting = None /\ t.capture = None
      BY DEF Resumed, NewTab
    <3>4. Shows(t) /\ net' = Stray \cup {Checkpoint(t)}
      BY <1>2, <2>2 DEF ResumeFromWrapper
    <3> HIDE DEF t
    <3> QED
      BY <2>2, <3>1, <3>2, <3>3, <3>4 DEF Comes
  <2> QED
    BY <2>1, <2>2
<1> QED
  BY <1>1, <1>2 DEF Reload

\* Where the requests on their way come from.
Sent(n) ==
  n.at = "sent" /\ (n.kind = "generate" =>
     \/ \E annotated \in BOOLEAN : Go(n.s, annotated)
     \/ n.s = tab.capture)
Stems(n) ==
  \/ n \in net
  \/ \E m \in net : n.kind = m.kind /\ n.s = m.s /\ n.at \in {"refused", "stray"}
  \/ \E m \in net : ServeDecision(m) /\ n.kind = m.kind /\ n.s = m.s
  \/ Sent(n)

LEMMA NetStems ==
  ASSUME LInv, PageTypes, [OverlayNext]_allVars, NEW n \in net'
  PROVE  Stems(n)
<1> USE SameTyped
<1>1. ASSUME net' \subseteq net  PROVE Stems(n)
  BY <1>1 DEF Stems
<1>2. ASSUME NEW k \in Messages, k.at = "sent", k.kind # "generate", net' \subseteq net \cup {k}
      PROVE  Stems(n)
  BY <1>2 DEF Stems, Sent
<1>3. ASSUME NEW t \in Tabs, t.cur \in Sessions, Send({Checkpoint(t)})
      PROVE  Stems(n)
  BY <1>2, <1>3, CheckpointType DEF Send
<1>4. ASSUME NEW kind \in Kinds \ {"generate"}, NEW s \in Sessions, Send({Message(kind, s)})
      PROVE  Stems(n)
  BY <1>2, <1>4, MessageType DEF Send
<1>5. ASSUME NEW m \in net, NEW at \in {"refused"}, Answers(m, at)
      PROVE  Stems(n)
  <2>1. [m EXCEPT !.at = at].kind = m.kind /\ [m EXCEPT !.at = at].s = m.s
        /\ [m EXCEPT !.at = at].at = at
    BY DEF Messages
  <2>2. net' \subseteq net \cup {[m EXCEPT !.at = at]}
    BY <1>5 DEF Answers
  <2> QED
    BY <2>1, <2>2 DEF Stems
<1>6. CASE User
  <2>1. ASSUME NEW s \in Sessions \ Steers, NEW annotated \in BOOLEAN, Go(s, annotated)
        PROVE  Stems(n)
    <3> DEFINE t == [tab EXCEPT !.state = "GENERATING", !.cur = s, !.arrived = 0,
                                !.dom = FALSE, !.pending = None, !.awaiting = None]
    <3>1. t \in Tabs /\ t.cur = s
      <4>1. None \in Ids /\ s \in Ids /\ 0 \in 0 .. Expected /\ "GENERATING" \in TabStates
        BY DEF Ids, Expected, TabStates
      <4> QED
        BY <4>1 DEF Tabs
    <3>2. net' \subseteq net \cup {Checkpoint(t)} \cup {Message("generate", s)}
      BY <2>1 DEF Go, Send
    <3> HIDE DEF t
    <3>3. Checkpoint(t).at = "sent" /\ Checkpoint(t).kind = "checkpoint"
      BY <3>1, CheckpointType
    <3>4. Message("generate", s).s = s /\ Message("generate", s).at = "sent"
      BY MessageType DEF Kinds
    <3> QED
      BY <2>1, <3>2, <3>3, <3>4 DEF Stems, Sent
  <2>2. CASE Accept \/ Discard
    <3>1. tab.cur \in Sessions
      BY <2>2 DEF Accept, Discard, Tabs, Ids
    <3> QED
      BY <1>4, <2>2, <3>1 DEF Accept, Discard, Kinds
  <2>3. ASSUME NEW late \in BOOLEAN, Reload(late)
        PROVE  Stems(n)
    <3>1. CASE n \in Stray
      BY <3>1, NetTypes DEF Stems
    <3>2. CASE n \notin Stray
      <4>1. PICK t \in Tabs : t.cur \in Sessions /\ n = Checkpoint(t)
        <5>1. \E t \in Tabs : t.cur \in Sessions /\ Shows(t) /\ net' = Stray \cup {Checkpoint(t)}
          BY <2>3, <3>2, Reloaded DEF Blank, Comes
        <5> QED
          BY <3>2, <5>1
      <4> QED
        BY <4>1, CheckpointType DEF Stems, Sent
    <3> QED
      BY <3>1, <3>2
  <2> QED
    BY <1>6, <2>1, <2>2, <2>3 DEF User
<1>7. CASE Captured
  <2>1. tab.capture \in Sessions /\ net' = net \cup {Message("generate", tab.capture)}
    BY <1>7 DEF Captured, Tabs, Ids, Send
  <2>2. Message("generate", tab.capture).s = tab.capture /\ Message("generate", tab.capture).at = "sent"
    BY <2>1, MessageType DEF Kinds
  <2> QED
    BY <2>1, <2>2 DEF Stems, Sent
<1>8. CASE Network
  <2>1. PICK m \in net : Serves(m) \/ Returns(m)
    BY <1>8 DEF Network
  <2>2. CASE ServeDecision(m)
    <3>1. [m EXCEPT !.at = "ok"].kind = m.kind /\ [m EXCEPT !.at = "ok"].s = m.s
      BY DEF Messages
    <3>2. net' \subseteq net \cup {[m EXCEPT !.at = "ok"]}
      BY <2>2 DEF ServeDecision, Answers
    <3> QED
      BY <2>2, <3>1, <3>2 DEF Stems
  <2>3. CASE Refuse(m)
    BY <1>5, <2>3 DEF Refuse
  <2>4. CASE ServeGenerate(m) \/ ServeCheckpoint(m) \/ ServeOrphan(m) \/ Returns(m)
    BY <1>1, <2>4 DEF ServeGenerate, ServeCheckpoint, ServeOrphan, Returns, AcceptConfirmed, AcceptFails,
       DiscardReturns, Returned, Drop
  <2> QED
    BY <2>1, <2>2, <2>3, <2>4 DEF Serves
<1>9. CASE Losses
  <2>1. PICK m \in net : Lose(m)
    BY <1>9 DEF Losses
  <2>2. CASE m.at = "ok"
    <3>1. /\ [m EXCEPT !.at = "refused"].kind = m.kind /\ [m EXCEPT !.at = "refused"].s = m.s
          /\ [m EXCEPT !.at = "refused"].at = "refused"
      BY DEF Messages
    <3>2. net' \subseteq net \cup {[m EXCEPT !.at = "refused"]}
      BY <2>1, <2>2 DEF Lose
    <3> QED
      BY <3>1, <3>2 DEF Stems
  <2>3. CASE m.at # "ok"
    BY <1>5, <2>1, <2>3 DEF Lose
  <2> QED
    BY <2>2, <2>3
<1>10. CASE HotReload
  <2> DEFINE t == [tab EXCEPT !.arrived = Count(source[tab.cur]), !.dom = TRUE,
                              !.state = "CYCLING", !.scout = FALSE]
  <2>1. tab' = t /\ Send({Checkpoint(tab')})
    BY <1>10 DEF HotReload, Shows
  <2>2. tab' \in Tabs /\ tab'.cur \in Sessions
    <3>1. tab' \in Tabs
      BY <1>10, HotReloadTyped DEF StepTyped, TabTyped
    <3>2. tab.cur \in Sessions /\ tab'.cur = tab.cur
      BY <1>10, <2>1 DEF HotReload, Tabs, Ids
    <3> QED
      BY <3>1, <3>2
  <2> HIDE DEF t
  <2> DEFINE u == tab'
  <2>3. u \in Tabs /\ u.cur \in Sessions /\ Send({Checkpoint(u)})
    BY <2>1, <2>2
  <2> HIDE DEF u
  <2> QED
    BY <1>3, <2>3
<1>11. ASSUME NEW t \in Tabs, NEW s \in Sessions, Resumes(t, s)
       PROVE  Stems(n)
  BY <1>3, <1>11, ResumedType DEF Resumes
<1>12. CASE Read
  <2>1. PICK r \in tab.due : ReadVariants(r) \/ ReadScaffold(r) \/ ReadNothing(r) \/ ReadDropped(r)
    BY <1>12 DEF Read
  <2>2. r.s \in Sessions /\ Reading(r) \in Tabs
    BY ReadingType DEF Reads
  <2>3. CASE ReadScaffold(r)
    <3> DEFINE t == [Reading(r) EXCEPT !.arrived = 0, !.dom = TRUE, !.scout = FALSE]
    <3>1. t \in Tabs
      <4>1. 0 \in 0 .. Expected
        BY DEF Expected
      <4> QED
        BY <2>2, <4>1 DEF Tabs
    <3>2. Resumes(t, r.s) \/ net' = net
      BY <2>3 DEF ReadScaffold
    <3> HIDE DEF t
    <3> QED
      BY <1>1, <1>11, <2>2, <3>1, <3>2
  <2>4. CASE ReadNothing(r)
    BY <1>1, <1>4, <2>2, <2>4 DEF ReadNothing, Kinds
  <2>5. CASE ReadVariants(r) \/ ReadDropped(r)
    BY <1>1, <1>11, <2>2, <2>5 DEF ReadVariants, ReadDropped
  <2> QED
    BY <2>1, <2>3, <2>4, <2>5
<1>13. CASE Scout
  BY <1>1, <1>11, <1>13 DEF Scout, Wrapped
<1>14. CASE Connect
  <2>1. CASE Candidates = {}
    BY <1>1, <1>14, <2>1 DEF Connect
  <2>2. CASE Candidates # {}
    <3> DEFINE t(save, known) == RestoredTab([tab EXCEPT !.dom = FALSE], save, known)
    <3>1. PICK save \in Candidates, known \in BOOLEAN : Send({Checkpoint(t(save, known))})
      BY <1>14, <2>2 DEF Connect
    <3>2. [tab EXCEPT !.dom = FALSE] \in Tabs
      BY DEF Tabs
    <3>3. t(save, known) \in Tabs /\ t(save, known).cur \in Sessions
      BY <3>2, CandidateType, RestoredType
    <3> HIDE DEF t
    <3> QED
      BY <1>3, <3>1, <3>3
  <2> QED
    BY <2>1, <2>2
<1>15. CASE \E a \in Agents : AgentMoves(a)
  BY <1>1, <1>15, AgentsUnseen
<1>16. CASE \/ UNCHANGED allVars \/ Hear \/ Disconnect \/ ServerDies \/ ServerRestarts
            \/ (\E s \in Sessions, t \in EventTypes : Expires(s, t))
  BY <1>1, <1>16 DEF allVars, pageVars, Hear, HearDone, HearAccepted, HearDiscarded, HearError, Hearing,
     Disconnect, ServerDies, ServerRestarts, Expires, Silent, Unseen
<1> QED
  BY <1>6, <1>7, <1>8, <1>9, <1>10, <1>12, <1>13, <1>14, <1>15, <1>16 DEF OverlayNext

\* The annotated Go under way is that of a session begun.
LEMMA CaptureStays ==
  ASSUME LInv, PageTypes, [OverlayNext]_allVars
  PROVE  \/ tab'.capture \in {tab.capture, None}
         \/ \E s \in Sessions \ Steers, annotated \in BOOLEAN : Go(s, annotated) /\ tab'.capture = s
<1> USE SameTyped
<1>1. CASE tab' = tab
  BY <1>1
<1>2. ASSUME NEW s \in Sessions \ Steers, NEW annotated \in BOOLEAN, Go(s, annotated)
      PROVE  tab'.capture \in {tab.capture, None, s}
  BY <1>2 DEF Go, Tabs
<1>3. CASE Accept \/ Captured \/ HotReload
  BY <1>3 DEF Accept, Captured, HotReload, Shows, Tabs
<1>4. ASSUME NEW late \in BOOLEAN, Reload(late)
      PROVE  tab'.capture = None
  BY <1>4, Reloaded DEF Blank, Comes, Shows, NewTab
<1>5. CASE Dismiss
  BY <1>5 DEF Dismiss, Released, Tabs
<1>6. CASE Network
  BY <1>1, <1>5, <1>6 DEF Network, Serves, ServeGenerate, ServeCheckpoint, ServeDecision, ServeOrphan,
     ServerOnly, Refuse, Returns, AcceptConfirmed, AcceptFails, DiscardReturns, ReleasedAccepted,
     Released, Tabs
<1>7. CASE Hear
  BY <1>1, <1>5, <1>7 DEF Hear, HearDone, HearAccepted, HearDiscarded, HearError, ReleasedAccepted,
     Released, Tabs
<1>8. ASSUME NEW t \in Tabs, NEW s, Resumes(t, s)
      PROVE  tab'.capture = t.capture
  BY <1>8 DEF Resumes, Resumed, Shows, Tabs
<1>9. CASE Read
  <2>1. PICK r \in tab.due : ReadVariants(r) \/ ReadScaffold(r) \/ ReadNothing(r) \/ ReadDropped(r)
    BY <1>9 DEF Read
  <2>2. Reading(r) \in Tabs /\ Reading(r).capture = tab.capture
    BY ReadingType
  <2>3. CASE ReadScaffold(r)
    <3> DEFINE t == [Reading(r) EXCEPT !.arrived = 0, !.dom = TRUE, !.scout = FALSE]
    <3>1. t \in Tabs /\ t.capture = tab.capture
      <4>1. 0 \in 0 .. Expected
        BY DEF Expected
      <4> QED
        BY <2>2, <4>1 DEF Tabs
    <3>2. Resumes(t, r.s) \/ tab' = t \/ tab' = Released(t)
      BY <2>3 DEF ReadScaffold
    <3> HIDE DEF t
    <3> QED
      BY <1>8, <3>1, <3>2 DEF Released, Tabs
  <2>4. CASE ReadVariants(r) \/ ReadNothing(r) \/ ReadDropped(r)
    BY <1>8, <2>2, <2>4 DEF ReadVariants, ReadNothing, ReadDropped, Shows, Released, Tabs
  <2> QED
    BY <2>1, <2>3, <2>4
<1>10. CASE Scout
  BY <1>8, <1>10 DEF Scout, Tabs
<1>11. CASE Connect
  <2>1. CASE Candidates = {}
    BY <1>11, <2>1, RecoversType DEF Connect
  <2>2. CASE Candidates # {}
    <3> DEFINE t(save, known) == RestoredTab([tab EXCEPT !.dom = FALSE], save, known)
    <3>1. PICK save \in Candidates, known \in BOOLEAN : tab' = Recovers(t(save, known))
      BY <1>11, <2>2 DEF Connect
    <3>2. [tab EXCEPT !.dom = FALSE] \in Tabs
      BY DEF Tabs
    <3>3. t(save, known) \in Tabs
      BY <3>2, CandidateType, RestoredType
    <3>4. t(save, known).capture = tab.capture
      BY DEF RestoredTab, Tabs
    <3> HIDE DEF t
    <3> QED
      BY <3>1, <3>3, <3>4, RecoversType
  <2> QED
    BY <2>1, <2>2
<1>12. CASE \E a \in Agents : AgentMoves(a)
  BY <1>1, <1>12, AgentsUnseen
<1>13. CASE \/ UNCHANGED allVars \/ Discard \/ Losses \/ Disconnect \/ ServerDies \/ ServerRestarts
            \/ (\E s \in Sessions, t \in EventTypes : Expires(s, t))
  BY <1>1, <1>13 DEF allVars, pageVars, Discard, Losses, Lose, Disconnect, ServerDies, ServerRestarts,
     Expires, Silent, Unseen
<1> QED
  BY <1>2, <1>3, <1>4, <1>6, <1>7, <1>9, <1>10, <1>11, <1>12, <1>13 DEF OverlayNext, User

LEMMA BegunKept ==
  ASSUME OverlayInv, [OverlayNext]_allVars
  PROVE  Begun'
<1> USE DEF OverlayInv
<1>1. OpensAsked
  BY ServerAdvances
<1>2. seen.begun \subseteq seen'.begun /\ seen'.begun \subseteq Sessions \ Steers
  BY HistoryGrows DEF Begun
<1>3. ASSUME NEW s \in Sessions, Known(s)'
      PROVE  s \in seen'.begun
  BY <1>1, <1>2, <1>3 DEF Begun, OpensAsked
<1>4. ASSUME NEW s, NEW annotated, Go(s, annotated)
      PROVE  s \in seen'.begun
  BY <1>4, SameTyped DEF Go, Histories
<1>5. ASSUME NEW n \in net', n.kind = "generate"
      PROVE  n.s \in seen'.begun
  <2>1. n.s \in Sessions
    <3>1. net' \subseteq Messages
      BY PageTyped DEF PageTypes, OverlayTypeOK
    <3> QED
      BY <3>1 DEF Messages
  <2>2. CASE \E m \in net : n.kind = m.kind /\ n.s = m.s
    BY <1>2, <1>5, <2>2 DEF Begun
  <2>3. CASE \E annotated \in BOOLEAN : Go(n.s, annotated)
    BY <1>4, <2>3
  <2>4. CASE n.s = tab.capture
    BY <1>2, <2>1, <2>4, NoneAssumption DEF Begun
  <2> QED
    BY <1>5, <2>2, <2>3, <2>4, NetStems DEF Stems, Sent
<1>6. tab'.capture \in seen'.begun \cup {None}
  BY <1>2, <1>4, CaptureStays DEF Begun
<1> QED
  BY <1>2, <1>3, <1>5, <1>6 DEF Begun

\* The answers on their way back.
LEMMA AnswersKept ==
  ASSUME OverlayInv, [OverlayNext]_allVars
  PROVE  AnswersHonest'
<1> USE DEF OverlayInv
<1>1. Advance
  BY ServerAdvances
<1>2. ASSUME NEW n \in net', n.at = "ok"
      PROVE  /\ n.kind = "accept" => Agreed(n.s)'
             /\ n.kind = "discard" => Canceled(journal'[n.s])
  <2>1. net \subseteq Messages
    BY SameTyped
  <2>2. CASE n \in net
    <3>1. n.s \in Sessions
      BY <2>1, <2>2 DEF Messages
    <3> QED
      BY <1>1, <1>2, <2>2, <3>1, AgreedStays DEF AnswersHonest
  <2>3. ASSUME NEW m \in net, ServeDecision(m), n.kind = m.kind, n.s = m.s
        PROVE  /\ n.kind = "accept" => Agreed(n.s)'
               /\ n.kind = "discard" => Canceled(journal'[n.s])
    <3>1. m.s \in Sessions /\ m.kind \in Decisions /\ PostDecision(m.s, m.kind)
      BY <2>1, <2>3 DEF Messages, ServeDecision
    <3>2. /\ m.kind = "accept" => Shown(m.s) /\ (m.s \in spoiled' \/ journal'[m.s].cancelReason = "accept")
          /\ Canceled(journal'[m.s])
      BY <3>1, DecisionAdvances
    <3>3. Shown(m.s) => Shown(m.s)'
      BY <1>1, <3>1, AgreedStays
    <3> QED
      BY <2>3, <3>2, <3>3 DEF Agreed
  <2> QED
    BY <1>2, <2>2, <2>3, NetStems DEF Stems, Sent
<1> QED
  BY <1>2 DEF AnswersHonest

-----------------------------------------------------------------------------
(* The source file, and what is said of it.                                 *)

\* Once the file is clean of a session it stays so, unless the session has not been
\* generated yet; and the scaffold of a canceled session spoils its journal.
LEMMA SourceStays ==
  ASSUME OverlayInv, [OverlayNext]_allVars, NEW s \in Sessions, source[s] = "clean"
  PROVE  /\ Shown(s) => source'[s] = "clean"
         /\ Canceled(journal[s]) => source'[s] = "clean" \/ s \in spoiled'
<1> USE DEF OverlayInv
<1> USE SameTyped
<1>1. CASE source' = source
  BY <1>1
<1>2. CASE \E a \in Agents : AgentMoves(a)
  <2>1. PICK a \in Agents : AgentMoves(a)
    BY <1>2
  <2> DEFINE u == agent[a].s
  <2>2. CASE AgentScaffolds(a)
    <3>1. ScaffoldDone(a)
      BY <2>2 DEF AgentScaffolds
    <3>2. ~Shown(u) /\ (Canceled(journal[u]) => u \in spoiled')
      BY <3>1, ScaffoldAdvances
    <3>3. s # u => source'[s] = source[s]
      BY <2>2 DEF AgentScaffolds, Writes
    <3> QED
      BY <3>2, <3>3
  <2>3. CASE AgentWrites(a)
    BY <2>3 DEF AgentWrites, Writes
  <2>4. CASE source' = source \/ Writes(u, "clean")
    BY <2>4 DEF Writes
  <2> QED
    BY <1>1, <2>1, <2>2, <2>3, <2>4, AgentEffects
<1>3. CASE ~\E a \in Agents : AgentMoves(a)
  <2>1. CASE User \/ Captured \/ Hear \/ HotReload \/ Read \/ Scout \/ Connect
    BY <1>1, <2>1 DEF User, Go, Accept, Discard, Reload, Captured, Hear, HearDone, HearAccepted, HearDiscarded,
       HearError, Hearing, HotReload, Read, ReadVariants, ReadScaffold, ReadNothing, ReadDropped, Scout, Connect, Acts
  <2>2. CASE Network \/ Losses \/ Disconnect
    BY <1>1, <2>2 DEF Network, Serves, ServeGenerate, ServeCheckpoint, ServeDecision, ServeOrphan, ServerOnly,
       Refuse, Returns, AcceptConfirmed, AcceptFails, DiscardReturns, Acts, Losses, Lose, Disconnect
  <2>3. CASE UNCHANGED allVars \/ ServerDies \/ ServerRestarts \/ \E u \in Sessions, t \in EventTypes : Expires(u, t)
    BY <1>1, <2>3 DEF allVars, pageVars, ServerDies, ServerRestarts, Expires, Silent
  <2> QED
    BY <1>3, <2>1, <2>2, <2>3 DEF OverlayNext
<1> QED
  BY <1>2, <1>3

\* What an agent says went through did.
LEMMA AgentsHonest ==
  ASSUME OverlayInv, NEW a \in Agents, AgentMoves(a), Advance,
         NEW type \in {"accepted", "discarded"}, NEW u \in Sessions,
         InFeed(type, u)', ~InFeed(type, u)
  PROVE  /\ type = "accepted" => Agreed(u)' /\ source'[u] = "clean"
         /\ type = "discarded" => Canceled(journal'[u])
<1> USE DEF OverlayInv
<1> DEFINE s == agent[a].s
<1>1. feed' # feed
  BY DEF InFeed
<1>2. NoSteers
  BY DEF NoSteers, Begun
<1>3. ASSUME NEW ty \in {"done", "error", "accepted", "discarded"}, s \in Sessions, Say(ty, s)
      PROVE  ty = type /\ u = s
  BY <1>3, SayType, SameTyped
<1>4. ASSUME s \in Sessions, Writes(s, "clean")
      PROVE  source'[s] = "clean"
  BY <1>4, SameTyped DEF Writes
<1>5. CASE AgentDone(a) \/ AgentError(a)
  <2>1. Task(a)
    BY <1>2, <1>5, Tasks DEF AgentDone, AgentError, ReplyDone, ReplyError, On
  <2> QED
    BY <1>3, <1>5, <2>1 DEF AgentDone, AgentError, Task
<1>6. ASSUME NEW r \in AcceptReplies, AgentAccepts(a, r[1], r[2])
      PROVE  type = "accepted" /\ u = s /\ Agreed(u)' /\ source'[u] = "clean"
  <2>1. Task(a) /\ agent[a].type = "accept"
    BY <1>2, <1>6, Tasks DEF AgentAccepts, ReplyAccept, On
  <2>2. s \in Sessions /\ Agreed(s)
    BY <2>1 DEF Task, Agreed, Decisions
  <2>3. ~(r[1] = "agent_done" /\ ~r[2]) /\ Say(IF r[1] = "error" THEN "error" ELSE "accepted", s)
    BY <1>1, <1>6 DEF AgentAccepts
  <2>4. r[1] # "error" /\ type = "accepted" /\ u = s
    <3>1. CASE r[1] = "error"
      BY <1>3, <2>1, <2>3, <3>1 DEF Task
    <3>2. CASE r[1] # "error"
      BY <1>3, <2>1, <2>3, <3>2 DEF Task
    <3> QED
      BY <3>1, <3>2
  <2>5. r[1] = "complete" \/ r[2]
    BY <2>3, <2>4, AcceptReplyKinds
  <2>6. Writes(s, "clean")
    BY <1>6, <2>5 DEF AgentAccepts
  <2> QED
    BY <1>4, <2>2, <2>4, <2>6, AgreedStays
<1>7. ASSUME NEW kind \in DiscardReplies, AgentDiscards(a, kind)
      PROVE  type = "discarded" /\ u = s /\ Canceled(journal'[u])
  <2>1. Task(a) /\ agent[a].type = "discard"
    BY <1>2, <1>7, Tasks DEF AgentDiscards, ReplyDiscard, On
  <2>2. Canceled(journal[s])
    BY <2>1 DEF Task, Decisions, JournalsDecent, Decent, Canceled
  <2>3. kind = type /\ u = s
    BY <1>3, <1>7, <2>1 DEF AgentDiscards, DiscardReplies, Task
  <2> QED
    BY <1>7, <2>2, <2>3, AgreedStays DEF DiscardReplies
<1>8. CASE AgentCompletes(a)
  <2>1. Complete(a) /\ Writes(s, "clean") /\ Say("accepted", s)
    BY <1>1, <1>8 DEF AgentCompletes
  <2>2. Task(a) /\ agent[a].type = "accept"
    BY <1>2, <2>1, Tasks DEF Complete, Task
  <2>3. s \in Sessions /\ Agreed(s)
    BY <2>2 DEF Task, Agreed, Decisions
  <2>4. type = "accepted" /\ u = s
    BY <1>3, <2>1, <2>3
  <2> QED
    BY <1>4, <2>1, <2>3, <2>4, AgreedStays
<1> QED
  BY <1>1, <1>5, <1>6, <1>7, <1>8 DEF AgentMoves, AgentPolls, AgentScaffolds, AgentWrites, AgentAnswers, Silent

LEMMA FeedKept ==
  ASSUME OverlayInv, [OverlayNext]_allVars
  PROVE  FeedHonest'
<1> USE DEF OverlayInv
<1> USE SameTyped
<1>1. Advance
  BY ServerAdvances
<1>2. ASSUME NEW u \in Sessions, NEW type \in {"accepted", "discarded"}, InFeed(type, u)', ~InFeed(type, u)
      PROVE  /\ type = "accepted" => Agreed(u)' /\ source'[u] = "clean"
             /\ type = "discarded" => Canceled(journal'[u])
  <2>1. feed' # feed
    BY <1>2 DEF InFeed
  <2>2. CASE \E a \in Agents : AgentMoves(a)
    BY <1>1, <1>2, <2>2, AgentsHonest
  <2>3. CASE Hear
    BY <1>2, <2>3, HearsType DEF Hear, HearDone, HearAccepted, HearDiscarded, HearError
  <2>4. CASE Network
    <3>1. PICK m \in net : Say("done", m.s)
      BY <2>1, <2>4 DEF Network, Serves, ServeGenerate, ServeCheckpoint, ServeDecision, ServeOrphan, Refuse,
         Returns, AcceptConfirmed, AcceptFails, DiscardReturns, Acts
    <3>2. m.s \in Sessions
      BY DEF Messages
    <3> QED
      BY <1>2, <3>1, <3>2, SayType
  <2>5. CASE CutOff
    BY <1>2, <2>5 DEF CutOff, InFeed
  <2>6. CASE \/ UNCHANGED allVars \/ User \/ Captured \/ Losses \/ HotReload \/ Read \/ Scout \/ Connect
             \/ Disconnect \/ ServerDies \/ ServerRestarts
             \/ \E s \in Sessions, t \in EventTypes : Expires(s, t)
    BY <2>1, <2>5, <2>6 DEF allVars, pageVars, User, Go, Accept, Discard, Reload, Captured, Losses, Lose,
       HotReload, Read, ReadVariants, ReadScaffold, ReadNothing, ReadDropped, Scout, Connect, Disconnect,
       ServerDies, ServerRestarts, Expires, Silent, Acts
  <2> QED
    BY <2>2, <2>3, <2>4, <2>6 DEF OverlayNext
<1>3. ASSUME NEW u \in Sessions
      PROVE  /\ InFeed("accepted", u) => Agreed(u)' /\ source'[u] = "clean"
             /\ InFeed("discarded", u) => Canceled(journal'[u])
  BY <1>1, <1>3, AgreedStays, SourceStays DEF FeedHonest, Agreed
<1> QED
  BY <1>2, <1>3 DEF FeedHonest

-----------------------------------------------------------------------------
(* What a step of the page does to what it shows.                           *)

\* Nothing new comes into the tab, and nothing is decided.
Idles ==
  /\ tab'.cur \in {tab.cur, None} /\ tab'.pending \in {tab.pending, None}
  /\ tab'.awaiting = tab.awaiting
  /\ store'.handled = store.handled /\ store'.saved.s \in {store.saved.s, tab.cur, None}
  /\ seen' = seen

\* A session comes back into the tab.
Enters(u) ==
  /\ tab'.cur = u /\ tab'.pending = tab.pending /\ tab'.awaiting = tab.awaiting
  /\ store'.handled = store.handled /\ store'.saved.s = u
  /\ seen' = seen
  /\ store.handled # u
  /\ source[u] # "clean" \/ u = store.saved.s \/ u \in Adoptable

\* The tab lets go of its session, after a decision on u or without one.
Leaves(u) ==
  /\ tab'.cur = None /\ tab'.pending = tab.pending /\ tab'.awaiting = tab.awaiting
  /\ store' = Marked(tab)
  /\ seen' = [seen EXCEPT !.closed = ClosedNow(u)]
  /\ u # None => u \in Sessions /\ Canceled(journal[u])

\* Something happens that is looked at by itself.
Turns ==
  \/ \E s \in Sessions \ Steers, annotated \in BOOLEAN : Go(s, annotated)
  \/ Accept \/ HearAccepted \/ HearError \/ Disconnect \/ ServerDies
  \/ \E m \in net : AcceptConfirmed(m) /\ tab.pending = m.s
  \/ \E late \in BOOLEAN : Reload(late)
  \/ \E a \in Agents : AgentMoves(a)

LEMMA SavedSession ==
  ASSUME store \in Stores, NEW t \in Tabs
  PROVE  /\ Saved(t).handled = store.handled
         /\ Saved(t).saved.s = (IF t.cur = None THEN store.saved.s ELSE t.cur)
<1>1. CASE t.cur = None
  BY <1>1 DEF Saved
<1>2. CASE t.cur # None
  <2> DEFINE x == [s |-> t.cur, state |-> t.state, arrived |-> t.arrived]
  <2>1. Saved(t) = [store EXCEPT !.saved = x] /\ x.s = t.cur
    BY <1>2 DEF Saved
  <2> HIDE DEF x
  <2> QED
    BY <1>2, <2>1 DEF Stores
<1> QED
  BY <1>1, <1>2

LEMMA ShowsStore ==
  ASSUME PageTypes, NEW t \in Tabs, Shows(t)
  PROVE  /\ tab' = t /\ store'.handled = store.handled
         /\ store'.saved.s = (IF t.cur = None THEN store.saved.s ELSE t.cur)
<1>1. Saved(t).saved.s = (IF t.cur = None THEN store.saved.s ELSE t.cur)
      /\ Saved(t).handled = store.handled
  BY SameTyped, SavedSession
<1> QED
  BY <1>1 DEF Shows

LEMMA DismissLeaves ==
  ASSUME PageTypes, NEW u \in Ids, Dismiss, Close(u), u # None => Canceled(journal[u])
  PROVE  Leaves(u)
BY SameTyped DEF Dismiss, Close, Leaves, Released, Tabs, Ids

LEMMA ResumesEnters ==
  ASSUME PageTypes, NEW t \in Tabs, NEW u \in Sessions, Resumes(t, u), seen' = seen,
         t.pending = tab.pending, t.awaiting = tab.awaiting,
         store.handled # u, source[u] # "clean"
  PROVE  Enters(u)
<1>1. Resumed(t, u) \in Tabs /\ Resumed(t, u).cur = u
  BY SameTyped, ResumedType
<1>2. Resumed(t, u).pending = t.pending /\ Resumed(t, u).awaiting = t.awaiting
  BY DEF Resumed, Tabs
<1>3. u # None
  BY NoneAssumption
<1> QED
  BY <1>1, <1>2, <1>3, ShowsStore DEF Resumes, Enters

LEMMA ConnectMoves ==
  ASSUME OverlayInv, Connect
  PROVE  Idles \/ \E u \in Sessions : Enters(u)
<1> USE SameTyped DEF OverlayInv
<1>1. CASE Candidates = {}
  BY <1>1, RecoversType DEF Connect, Idles
<1>2. CASE Candidates # {}
  <2> DEFINE t(save, known) == RestoredTab([tab EXCEPT !.dom = FALSE], save, known)
  <2>1. PICK save \in Candidates, known \in BOOLEAN :
          /\ tab' = Recovers(t(save, known)) /\ store' = Saved(t(save, known)) /\ seen' = seen
    BY <1>2 DEF Connect
  <2>2. [tab EXCEPT !.dom = FALSE] \in Tabs
    BY DEF Tabs
  <2>3. t(save, known) \in Tabs /\ t(save, known).cur = save.s /\ save.s \in Sessions
    BY <2>2, CandidateType, RestoredType
  <2>4. t(save, known).pending = tab.pending /\ t(save, known).awaiting = tab.awaiting
    BY DEF RestoredTab, Tabs
  <2> HIDE DEF t
  <2>5. save.s # None /\ store.handled # save.s /\ (save.s = store.saved.s \/ save.s \in Adoptable)
    BY CandidateType
  <2>6. Enters(save.s)
    BY <2>1, <2>3, <2>4, <2>5, RecoversType, SavedSession DEF Enters
  <2> QED
    BY <2>3, <2>6
<1> QED
  BY <1>1, <1>2

LEMMA ReadsMove ==
  ASSUME OverlayInv, Read
  PROVE  Idles \/ Leaves(None) \/ \E u \in Sessions : Enters(u)
<1> USE SameTyped DEF OverlayInv
<1>1. PICK r \in tab.due : ReadVariants(r) \/ ReadScaffold(r) \/ ReadNothing(r) \/ ReadDropped(r)
  BY DEF Read
<1>2. /\ r.s \in Sessions /\ Reading(r) \in Tabs /\ Reading(r).cur = tab.cur
      /\ Reading(r).pending = tab.pending /\ Reading(r).awaiting = tab.awaiting
  BY ReadingType DEF Reads
<1>3. CASE ReadVariants(r)
  <2>1. source[r.s] # "clean" /\ seen' = seen
    BY <1>3 DEF ReadVariants, Count
  <2>2. CASE Spotted(r.s)
    BY <1>2, <1>3, <2>1, <2>2, ResumesEnters DEF ReadVariants, Spotted
  <2>3. CASE ~Spotted(r.s)
    <3> DEFINE t == [Reading(r) EXCEPT !.arrived = Count(source[r.s]), !.dom = TRUE,
                                       !.state = "CYCLING", !.scout = FALSE]
    <3>1. Count(source[r.s]) \in 0 .. Expected
      BY DEF Count, Expected
    <3>2. t \in Tabs /\ t.cur = tab.cur /\ t.pending = tab.pending /\ t.awaiting = tab.awaiting
      BY <1>2, <3>1 DEF Tabs, TabStates
    <3>3. Shows(t)
      BY <1>3, <2>3 DEF ReadVariants
    <3> HIDE DEF t
    <3> QED
      BY <2>1, <3>2, <3>3, ShowsStore DEF Idles
  <2> QED
    BY <2>2, <2>3
<1>4. CASE ReadScaffold(r)
  <2> DEFINE t == [Reading(r) EXCEPT !.arrived = 0, !.dom = TRUE, !.scout = FALSE]
  <2>1. t \in Tabs /\ t.cur = tab.cur /\ t.pending = tab.pending /\ t.awaiting = tab.awaiting
    <3>1. 0 \in 0 .. Expected
      BY DEF Expected
    <3> QED
      BY <1>2, <3>1 DEF Tabs
  <2>2. /\ source[r.s] # "clean" /\ seen' = seen
        /\ \/ Spotted(r.s) /\ Resumes(t, r.s)
           \/ tab' = t /\ store' = store
           \/ tab' = Released(t) /\ store' = [store EXCEPT !.saved = NoSession]
    BY <1>4 DEF ReadScaffold
  <2> HIDE DEF t
  <2>3. CASE Spotted(r.s) /\ Resumes(t, r.s)
    BY <1>2, <2>1, <2>2, <2>3, ResumesEnters DEF Spotted
  <2>4. CASE tab' = t /\ store' = store
    BY <2>1, <2>2, <2>4 DEF Idles
  <2>5. CASE tab' = Released(t) /\ store' = [store EXCEPT !.saved = NoSession]
    BY <2>1, <2>2, <2>5 DEF Idles, Released, Tabs, NoSession, Stores
  <2> QED
    BY <2>2, <2>3, <2>4, <2>5
<1>5. CASE ReadNothing(r)
  <2>1. CASE r.why = "orphan" /\ r.s = tab.cur /\ tab.state \in {"GENERATING", "CYCLING"}
    <3>1. tab' = Released(Reading(r)) /\ store' = Marked(tab) /\ Close(None)
      BY <1>5, <2>1 DEF ReadNothing, Drops
    <3>2. Leaves(None)
      BY <1>2, <3>1 DEF Leaves, Close, Released, Tabs
    <3> QED
      BY <3>2
  <2>2. CASE ~(r.why = "orphan" /\ r.s = tab.cur /\ tab.state \in {"GENERATING", "CYCLING"})
    BY <1>2, <1>5, <2>2 DEF ReadNothing, Idles
  <2> QED
    BY <2>1, <2>2
<1>6. CASE ReadDropped(r)
  BY <1>2, <1>6 DEF ReadDropped, Acts, Idles
<1> QED
  BY <1>1, <1>3, <1>4, <1>5, <1>6

LEMMA PageMoves ==
  ASSUME OverlayInv, [OverlayNext]_allVars
  PROVE  Idles \/ Turns \/ (\E u \in Sessions : Enters(u)) \/ (\E u \in Ids : Leaves(u))
<1> USE SameTyped DEF OverlayInv
<1>1. CASE tab' = tab /\ store' = store /\ seen' = seen
  BY <1>1 DEF Idles
<1>2. None \in Ids
  BY DEF Ids
<1>3. CASE User
  BY <1>1, <1>3 DEF User, Turns, Discard
<1>4. CASE Captured
  BY <1>4 DEF Captured, Idles, Tabs
<1>5. CASE Network
  <2>1. PICK m \in net : Serves(m) \/ Returns(m)
    BY <1>5 DEF Network
  <2>2. m.s \in Sessions /\ m.s \in Ids
    BY DEF Messages, Ids
  <2>3. CASE Refuse(m)
    BY <1>1, <1>2, <2>3, DismissLeaves DEF Refuse, Drops
  <2>4. CASE ServeGenerate(m) \/ ServeCheckpoint(m) \/ ServeDecision(m) \/ ServeOrphan(m)
    BY <1>1, <2>4 DEF ServeGenerate, ServeCheckpoint, ServeDecision, ServeOrphan, ServerOnly
  <2>5. CASE AcceptConfirmed(m)
    BY <1>1, <2>5 DEF AcceptConfirmed, Turns
  <2>6. CASE AcceptFails(m)
    BY <2>6 DEF AcceptFails, Idles, Tabs
  <2>7. CASE DiscardReturns(m)
    <3>1. CASE m.at = "ok"
      <4>1. Canceled(journal[m.s])
        BY <2>7, <3>1 DEF DiscardReturns, AnswersHonest
      <4>2. Leaves(m.s)
        BY <2>2, <2>7, <3>1, <4>1, DismissLeaves DEF DiscardReturns
      <4> QED
        BY <2>2, <4>2
    <3>2. CASE m.at # "ok"
      BY <1>1, <2>7, <3>2 DEF DiscardReturns
    <3> QED
      BY <3>1, <3>2
  <2> QED
    BY <2>1, <2>3, <2>4, <2>5, <2>6, <2>7 DEF Serves, Returns
<1>6. CASE Hear
  <2>1. CASE HearAccepted \/ HearError
    BY <2>1 DEF Turns
  <2>2. CASE HearDone
    BY <2>2 DEF HearDone, Idles, Tabs
  <2>3. CASE HearDiscarded
    <3>1. Said \in Sessions /\ InFeed("discarded", Said)
      BY <2>3, HearsType DEF HearDiscarded
    <3>2. Said \in Ids /\ Canceled(journal[Said])
      BY <3>1 DEF FeedHonest, Ids
    <3>3. Leaves(Said) \/ (tab' = tab /\ store' = store /\ seen' = seen)
      BY <2>3, <3>2, DismissLeaves DEF HearDiscarded
    <3> QED
      BY <1>1, <3>2, <3>3
  <2> QED
    BY <1>6, <2>1, <2>2, <2>3 DEF Hear
<1>7. CASE HotReload
  <2> DEFINE t == [tab EXCEPT !.arrived = Count(source[tab.cur]), !.dom = TRUE,
                              !.state = "CYCLING", !.scout = FALSE]
  <2>1. Count(source[tab.cur]) \in 0 .. Expected
    BY DEF Count, Expected
  <2>2. t \in Tabs /\ t.cur = tab.cur /\ t.pending = tab.pending /\ t.awaiting = tab.awaiting
    BY <2>1 DEF Tabs, TabStates
  <2>3. Shows(t) /\ seen' = seen
    BY <1>7 DEF HotReload, Shows
  <2> HIDE DEF t
  <2> QED
    BY <2>2, <2>3, ShowsStore DEF Idles
<1>8. CASE Scout
  <2>1. PICK u \in Wrapped :
          IF Spotted(u) THEN Resumes(tab, u)
          ELSE tab' = [tab EXCEPT !.scout = FALSE] /\ UNCHANGED <<store, net>>
    BY <1>8 DEF Scout
  <2>2. u \in Sessions /\ source[u] # "clean" /\ seen' = seen
    BY <1>8 DEF Wrapped, Scout
  <2>3. CASE Spotted(u)
    BY <2>1, <2>2, <2>3, ResumesEnters DEF Spotted
  <2>4. CASE ~Spotted(u)
    BY <2>1, <2>2, <2>4 DEF Idles, Tabs
  <2> QED
    BY <2>3, <2>4
<1>9. CASE Read \/ Connect
  BY <1>2, <1>9, ReadsMove, ConnectMoves
<1>10. CASE Disconnect \/ ServerDies \/ \E a \in Agents : AgentMoves(a)
  BY <1>10 DEF Turns
<1>11. CASE \/ UNCHANGED allVars \/ Losses \/ ServerRestarts
            \/ \E s \in Sessions, t \in EventTypes : Expires(s, t)
  BY <1>1, <1>11 DEF allVars, pageVars, Losses, Lose, ServerRestarts, Expires, Silent, Unseen
<1> QED
  BY <1>3, <1>4, <1>5, <1>6, <1>7, <1>8, <1>9, <1>10, <1>11 DEF OverlayNext

-----------------------------------------------------------------------------
(* What the user has closed stays closed.                                   *)

LEMMA ClosedKept ==
  ASSUME OverlayInv, [OverlayNext]_allVars
  PROVE  ClosedShut'
<1> USE SameTyped DEF OverlayInv
<1>1. Advance
  BY ServerAdvances
<1>2. seen.closed \subseteq Sessions
  BY DEF Histories
\* What a closed session needs, if it is shut after the step.
<1>3. ASSUME NEW s \in Sessions, Canceled(journal[s]),
             \/ seen'.late \/ s \in spoiled
             \/ /\ tab'.cur # s /\ store'.saved.s # s
                /\ store'.handled = s \/ source'[s] = "clean" \/ source[s] = "clean"
      PROVE  Canceled(journal[s])' /\ (seen'.late \/ s \in spoiled' \/ Shut(s)')
  BY <1>1, <1>3, AgreedStays, SourceStays DEF Shut
<1>4. ASSUME NEW s \in seen.closed
      PROVE  /\ s \in Sessions /\ s # None /\ Canceled(journal[s])
             /\ seen.late \/ s \in spoiled \/ Shut(s)
  BY <1>2, <1>4, NoneAssumption DEF ClosedShut
\* Nothing is closed, and nothing new is shown.
<1>5. ASSUME seen'.closed = seen.closed, seen'.late = seen.late,
             tab'.cur \in {tab.cur, None},
             store'.handled = store.handled, store'.saved.s \in {store.saved.s, tab.cur, None}
      PROVE  ClosedShut'
  <2>1. ASSUME NEW s \in seen.closed
        PROVE  Canceled(journal[s])' /\ (seen'.late \/ s \in spoiled' \/ Shut(s)')
    BY <1>3, <1>4, <1>5, <2>1 DEF Shut
  <2> QED
    BY <1>5, <2>1 DEF ClosedShut
\* A session is shown that was not closed.
<1>6. ASSUME NEW u, seen'.closed = seen.closed, seen'.late = seen.late,
             tab'.cur = u, store'.handled = store.handled, store'.saved.s = u,
             \A s \in seen.closed : s = u => s \in spoiled \/ ~Shut(s)
      PROVE  ClosedShut'
  <2>1. ASSUME NEW s \in seen.closed
        PROVE  Canceled(journal[s])' /\ (seen'.late \/ s \in spoiled' \/ Shut(s)')
    BY <1>3, <1>4, <1>6, <2>1 DEF Shut
  <2> QED
    BY <1>6, <2>1 DEF ClosedShut
\* The session shown is let go of.
<1>7. ASSUME NEW u \in Ids, u # None => u \in Sessions /\ Canceled(journal[u]),
             seen'.closed = ClosedNow(u), seen'.late = seen.late,
             tab'.cur = None, store' = Marked(tab)
      PROVE  ClosedShut'
  <2>1. store'.saved.s = None /\ store'.handled = (IF tab.cur = None THEN store.handled ELSE tab.cur)
    BY <1>7 DEF Marked, NoSession
  <2>2. CASE tab.cur = None
    <3>1. seen'.closed = seen.closed
      BY <1>7, <2>2 DEF ClosedNow
    <3> QED
      BY <1>5, <1>7, <2>1, <2>2, <3>1
  <2>3. CASE tab.cur # None
    <3>1. seen'.closed = (seen.closed \cup {u}) \cap {tab.cur}
      BY <1>7, <2>3 DEF ClosedNow
    <3>2. ASSUME NEW s \in seen'.closed
          PROVE  Canceled(journal[s])' /\ (seen'.late \/ s \in spoiled' \/ Shut(s)')
      <4>1. s = tab.cur /\ s \in Sessions /\ Canceled(journal[s]) /\ s # None
        BY <1>4, <1>7, <2>3, <3>1, <3>2
      <4> QED
        BY <1>3, <1>7, <2>1, <2>3, <4>1
    <3> QED
      BY <3>2 DEF ClosedShut
  <2> QED
    BY <2>2, <2>3
<1>8. CASE Idles
  BY <1>5, <1>8 DEF Idles
<1>9. ASSUME NEW u \in Sessions, Enters(u)
      PROVE  ClosedShut'
  <2>1. ASSUME NEW s \in seen.closed, s = u, s \notin spoiled
        PROVE  ~Shut(s)
    <3>1. s \in Adoptable => journal[s].phase \in Adopted
      BY DEF Adoptable, Adopted
    <3>2. journal[s].phase \notin Adopted
      BY <1>4, <2>1 DEF JournalsDecent, Decent
    <3> QED
      BY <1>9, <2>1, <3>1, <3>2 DEF Enters, Shut
  <2> QED
    BY <1>6, <1>9, <2>1 DEF Enters
<1>10. ASSUME NEW u \in Ids, Leaves(u)
       PROVE  ClosedShut'
  BY <1>7, <1>10 DEF Leaves, Histories
<1>11. ASSUME NEW u \in Sessions \ Steers, NEW annotated \in BOOLEAN, Go(u, annotated)
       PROVE  ClosedShut'
  <2> DEFINE t == [tab EXCEPT !.state = "GENERATING", !.cur = u, !.arrived = 0,
                              !.dom = FALSE, !.pending = None, !.awaiting = None]
  <2>1. tab' = (IF annotated THEN [t EXCEPT !.capture = u] ELSE t) /\ store' = Saved(t)
        /\ seen' = [seen EXCEPT !.begun = @ \cup {u}, !.page = {}] /\ u \notin seen.begun
    BY <1>11 DEF Go
  <2>2. t \in Tabs /\ t.cur = u
    <3>1. None \in Ids /\ u \in Ids /\ 0 \in 0 .. Expected /\ "GENERATING" \in TabStates
      BY DEF Ids, Expected, TabStates
    <3> QED
      BY <3>1 DEF Tabs
  <2> HIDE DEF t
  <2>3. tab'.cur = u
    BY <2>1, <2>2 DEF Tabs
  <2>4. Saved(t).handled = store.handled /\ Saved(t).saved.s = u
    BY <2>2, SavedSession, NoneAssumption
  <2>5. seen'.closed = seen.closed /\ seen'.late = seen.late
    BY <2>1 DEF Histories
  <2>6. u \notin seen.closed
    <3>1. Canceled(journal[u]) => Known(u)
      BY DEF JournalsDecent, Decent, Known
    <3> QED
      BY <1>4, <2>1, <3>1 DEF Begun
  <2> QED
    BY <1>6, <2>1, <2>3, <2>4, <2>5, <2>6
<1>12. CASE Accept
  <2>1. /\ tab' = [tab EXCEPT !.state = "SAVING", !.pending = tab.cur] /\ store' = Saved(tab')
        /\ seen' = [seen EXCEPT !.page = @ \ {tab.cur}, !.failed = @ \ {tab.cur},
                                !.alarmed = @ \ {tab.cur}]
    BY <1>12 DEF Accept
  <2> DEFINE t == tab'
  <2>2. t \in Tabs /\ t.cur = tab.cur
    <3>1. t \in Tabs
      BY <1>12, AcceptTyped DEF StepTyped, TabTyped
    <3> QED
      BY <2>1, <3>1 DEF Tabs
  <2>3. store' = Saved(t)
    BY <2>1
  <2> HIDE DEF t
  <2>4. Saved(t).handled = store.handled /\ Saved(t).saved.s \in {store.saved.s, tab.cur}
    BY <2>2, SavedSession
  <2>5. tab'.cur = tab.cur /\ seen'.closed = seen.closed /\ seen'.late = seen.late
    BY <2>1 DEF Tabs, Histories
  <2> QED
    BY <1>5, <2>3, <2>4, <2>5
<1>13. ASSUME NEW m \in net, AcceptConfirmed(m), tab.pending = m.s
       PROVE  ClosedShut'
  <2>1. /\ tab' = [ReleasedAccepted(tab) EXCEPT !.awaiting = m.s] /\ store' = Marked(tab)
        /\ seen' = [seen EXCEPT !.told = @ \cup {m.s}, !.page = {m.s}, !.closed = ClosedNow(m.s)]
        /\ m.kind = "accept" /\ m.at = "ok"
    BY <1>13 DEF AcceptConfirmed
  <2>2. tab'.cur = None /\ seen'.closed = ClosedNow(m.s) /\ seen'.late = seen.late
    BY <2>1 DEF ReleasedAccepted, Released, Tabs, Histories
  <2>3. m.s \in Sessions /\ m.s \in Ids /\ Agreed(m.s)
    BY <2>1 DEF AnswersHonest, Messages, Ids
  <2>4. Canceled(journal[m.s])
    BY <2>3 DEF Agreed, JournalsDecent, Decent, Canceled
  <2> QED
    BY <1>7, <2>1, <2>2, <2>3, <2>4
<1>14. CASE HearAccepted
  <2>1. Said \in Sessions /\ InFeed("accepted", Said)
    BY <1>14, HearsType DEF HearAccepted
  <2>2. Said \in Ids /\ Canceled(journal[Said])
    BY <2>1 DEF FeedHonest, Agreed, JournalsDecent, Decent, Canceled, Ids
  <2> DEFINE t == [tab EXCEPT !.awaiting = IF @ = Said THEN None ELSE @]
  <2>3. \/ (tab' = t \/ tab' = [t EXCEPT !.pending = None]) /\ store' = store /\ seen' = seen
        \/ /\ tab' = ReleasedAccepted(t) /\ store' = Marked(tab)
           /\ seen' = [seen EXCEPT !.told = @ \cup {Said}, !.closed = ClosedNow(Said)]
    BY <1>14 DEF HearAccepted
  <2>4. t \in Tabs /\ t.cur = tab.cur
    BY DEF Tabs, Ids
  <2> HIDE DEF t
  <2>5. CASE (tab' = t \/ tab' = [t EXCEPT !.pending = None]) /\ store' = store /\ seen' = seen
    BY <1>5, <2>4, <2>5 DEF Tabs
  <2>6. CASE /\ tab' = ReleasedAccepted(t) /\ store' = Marked(tab)
             /\ seen' = [seen EXCEPT !.told = @ \cup {Said}, !.closed = ClosedNow(Said)]
    <3> DEFINE u == Said
    <3>1. tab'.cur = None /\ seen'.closed = ClosedNow(u) /\ seen'.late = seen.late
      BY <2>4, <2>6, ReleasedType DEF Histories
    <3>2. u \in Ids /\ u \in Sessions /\ Canceled(journal[u]) /\ store' = Marked(tab)
      BY <2>1, <2>2, <2>6
    <3> HIDE DEF u
    <3> QED
      BY <1>7, <3>1, <3>2
  <2> QED
    BY <2>3, <2>5, <2>6
<1>15. CASE HearError
  <2>1. CASE Said \notin {tab.pending, tab.awaiting} /\ Said = tab.cur
    <3>1. Dismiss /\ Close(None)
      BY <1>15, <2>1 DEF HearError, Drops
    <3>2. tab'.cur = None /\ store' = Marked(tab) /\ seen'.closed = ClosedNow(None) /\ seen'.late = seen.late
      BY <3>1 DEF Dismiss, Released, Close, Tabs, Histories
    <3>3. None \in Ids
      BY DEF Ids
    <3> QED
      BY <1>7, <3>2, <3>3
  <2>2. CASE ~(Said \notin {tab.pending, tab.awaiting} /\ Said = tab.cur)
    <3>1. /\ tab'.cur = tab.cur /\ seen'.closed = seen.closed /\ seen'.late = seen.late
          /\ store' = store \/ store' = [store EXCEPT !.saved = NoSession]
      BY <1>15, <2>2 DEF HearError, Tabs, Histories
    <3>2. store'.handled = store.handled /\ store'.saved.s \in {store.saved.s, None}
      BY <3>1 DEF NoSession, Stores
    <3> QED
      BY <1>5, <3>1, <3>2
  <2> QED
    BY <2>1, <2>2
<1>16. CASE Disconnect \/ ServerDies \/ \E a \in Agents : AgentMoves(a)
  <2>1. tab' = tab /\ store' = store
    BY <1>16, AgentsUnseen DEF Disconnect, ServerDies
  <2>2. seen' = seen \/ \E f : seen' = [seen EXCEPT !.failed = f]
    BY <1>16, AgentEffects DEF Disconnect, ServerDies, AgentScaffolds, AgentWrites
  <2> QED
    BY <1>5, <2>1, <2>2 DEF Histories
<1>17. ASSUME NEW late \in BOOLEAN, Reload(late)
       PROVE  ClosedShut'
  <2>1. seen'.late = (seen.late \/ late) /\ seen'.closed = seen.closed
    BY <1>17 DEF Reload, Histories
  <2>2. ASSUME NEW s \in seen.closed
        PROVE  Canceled(journal[s])' /\ (seen'.late \/ s \in spoiled' \/ Shut(s)')
    <3>1. CASE seen.late \/ late \/ s \in spoiled
      BY <1>3, <1>4, <2>1, <3>1
    <3>2. CASE Shut(s) /\ ~late
      <4>1. CASE Blank(late)
        <5>1. tab'.cur = None
          BY <4>1 DEF Blank, NewTab
        <5>2. CASE store' = store
          BY <1>3, <1>4, <3>2, <5>1, <5>2 DEF Shut
        <5>3. CASE store' = [saved |-> NoSession, handled |-> None] /\ Wrapped = {}
          <6>1. source[s] = "clean" /\ store'.saved.s = None
            BY <1>4, <5>3 DEF Wrapped, NoSession
          <6> QED
            BY <1>3, <1>4, <5>1, <6>1
        <5> QED
          BY <3>2, <4>1, <5>2, <5>3 DEF Blank
      <4>2. CASE ~Blank(late)
        <5>1. PICK t \in Tabs : t.cur \in Sessions /\ Comes(t)
          BY <1>17, <4>2, Reloaded
        <5>2. tab'.cur = t.cur /\ store'.handled = store.handled /\ store'.saved.s = t.cur
          <6>1. t.cur # None
            BY <5>1, NoneAssumption
          <6> QED
            BY <5>1, <6>1, ShowsStore DEF Comes
        <5>3. t.cur # s
          BY <3>2, <5>1 DEF Comes, Shut, Wrapped
        <5> QED
          BY <1>3, <1>4, <3>2, <5>2, <5>3 DEF Shut
      <4> QED
        BY <4>1, <4>2
    <3> QED
      BY <1>4, <3>1, <3>2
  <2> QED
    BY <2>1, <2>2 DEF ClosedShut
<1> QED
  BY <1>8, <1>9, <1>10, <1>11, <1>12, <1>13, <1>14, <1>15, <1>16, <1>17, PageMoves DEF Turns

-----------------------------------------------------------------------------
(* What the user is told is so, and what fails reaches him.                 *)

LEMMA ToldKept ==
  ASSUME OverlayInv, [OverlayNext]_allVars
  PROVE  ToldHonest'
<1> USE SameTyped DEF OverlayInv
<1>1. Advance
  BY ServerAdvances
<1>2. ASSUME NEW u \in Sessions, Agreed(u)
      PROVE  Agreed(u)'
  BY <1>1, <1>2, AgreedStays
<1>3. ASSUME NEW s \in seen.told
      PROVE  s \in Sessions /\ Agreed(s)
  BY <1>3 DEF ToldHonest, Histories
<1>4. CASE seen'.told = seen.told
  BY <1>2, <1>3, <1>4 DEF ToldHonest
<1>5. ASSUME NEW u \in Sessions, Agreed(u), seen'.told = seen.told \cup {u}
      PROVE  ToldHonest'
  BY <1>2, <1>3, <1>5 DEF ToldHonest
<1>6. CASE Turns
  <2>1. ASSUME NEW m \in net, AcceptConfirmed(m), tab.pending = m.s
        PROVE  ToldHonest'
    <3>1. m.s \in Sessions /\ Agreed(m.s) /\ seen'.told = seen.told \cup {m.s}
      BY <2>1 DEF AcceptConfirmed, AnswersHonest, Messages, Histories
    <3> QED
      BY <1>5, <3>1
  <2>2. CASE HearAccepted
    <3> DEFINE u == Said
    <3>1. u \in Sessions /\ Agreed(u)
      BY <2>2, HearsType DEF HearAccepted, FeedHonest
    <3>2. seen'.told = seen.told \/ seen'.told = seen.told \cup {u}
      BY <2>2 DEF HearAccepted, Histories
    <3> HIDE DEF u
    <3> QED
      BY <1>4, <1>5, <3>1, <3>2
  <2>3. CASE \E a \in Agents : AgentMoves(a)
    <3>1. seen' = seen \/ \E f : seen' = [seen EXCEPT !.failed = f]
      BY <2>3, AgentEffects DEF AgentScaffolds, AgentWrites
    <3> QED
      BY <1>4, <3>1 DEF Histories
  <2>4. CASE \/ \E s \in Sessions \ Steers, annotated \in BOOLEAN : Go(s, annotated)
             \/ \E late \in BOOLEAN : Reload(late)
             \/ Accept \/ Disconnect \/ ServerDies
    BY <1>4, <2>4 DEF Go, Reload, Accept, Disconnect, ServerDies, Histories
  <2>5. CASE HearError
    BY <1>4, <2>5 DEF HearError, Drops, Close, Histories
  <2> QED
    BY <1>6, <2>1, <2>2, <2>3, <2>4, <2>5 DEF Turns
<1>7. CASE Idles \/ (\E u \in Sessions : Enters(u)) \/ (\E u \in Ids : Leaves(u))
  BY <1>4, <1>7 DEF Idles, Enters, Leaves, Histories
<1> QED
  BY <1>6, <1>7, PageMoves

LEMMA AwaitedKept ==
  ASSUME OverlayInv, [OverlayNext]_allVars
  PROVE  Awaited'
<1> USE SameTyped DEF OverlayInv
<1>1. Advance
  BY ServerAdvances
<1>2. ASSUME NEW s \in Sessions, Shown(s),
             source[s] = "clean" \/ s \in seen'.alarmed \/ tab'.awaiting = s
      PROVE  Shown(s)' /\ (source'[s] = "clean" \/ s \in seen'.alarmed \/ tab'.awaiting = s)
  BY <1>1, <1>2, AgreedStays, SourceStays
<1>3. ASSUME NEW s \in seen.page
      PROVE  s \in Sessions /\ Shown(s) /\ (source[s] = "clean" \/ s \in seen.alarmed \/ tab.awaiting = s)
  BY <1>3 DEF Awaited, Histories
<1>4. ASSUME seen'.page \subseteq seen.page, tab'.awaiting = tab.awaiting,
             \A s \in seen'.page : s \in seen.alarmed => s \in seen'.alarmed
      PROVE  Awaited'
  BY <1>2, <1>3, <1>4 DEF Awaited
<1>5. CASE Idles \/ (\E u \in Sessions : Enters(u)) \/ (\E u \in Ids : Leaves(u))
  BY <1>4, <1>5 DEF Idles, Enters, Leaves, Histories
<1>6. CASE Turns
  <2>1. CASE \E a \in Agents : AgentMoves(a)
    <3>1. seen' = seen \/ \E f : seen' = [seen EXCEPT !.failed = f]
      BY <2>1, AgentEffects DEF AgentScaffolds, AgentWrites
    <3>2. tab' = tab
      BY <2>1, AgentsUnseen
    <3> QED
      BY <1>4, <3>1, <3>2 DEF Histories
  <2>2. CASE Disconnect \/ ServerDies
    BY <1>4, <2>2 DEF Disconnect, ServerDies, Histories
  <2>3. CASE \/ \E s \in Sessions \ Steers, annotated \in BOOLEAN : Go(s, annotated)
             \/ \E late \in BOOLEAN : Reload(late)
    BY <2>3 DEF Go, Reload, Histories, Awaited
  <2>4. CASE Accept
    BY <1>4, <2>4 DEF Accept, Histories, Tabs
  <2>5. ASSUME NEW m \in net, AcceptConfirmed(m), tab.pending = m.s
        PROVE  Awaited'
    <3>1. tab' = [ReleasedAccepted(tab) EXCEPT !.awaiting = m.s]
          /\ m.s \in Sessions /\ Agreed(m.s) /\ seen'.page = {m.s}
      BY <2>5 DEF AcceptConfirmed, AnswersHonest, Messages, Histories
    <3>2. tab'.awaiting = m.s
      BY <3>1, ReleasedType DEF Tabs
    <3> QED
      BY <1>2, <3>1, <3>2 DEF Agreed, Awaited
  <2>6. CASE HearAccepted
    <3>1. Said \in Sessions /\ source[Said] = "clean"
      BY <2>6, HearsType DEF HearAccepted, FeedHonest
    <3> DEFINE t == [tab EXCEPT !.awaiting = IF @ = Said THEN None ELSE @]
    <3>2. tab' \in {t, [t EXCEPT !.pending = None], ReleasedAccepted(t)}
      BY <2>6 DEF HearAccepted
    <3>3. t \in Tabs /\ (t.awaiting = tab.awaiting \/ tab.awaiting = Said)
      BY DEF Tabs, Ids
    <3> HIDE DEF t
    <3>4. tab'.awaiting = t.awaiting
      BY <3>2, <3>3 DEF ReleasedAccepted, Released, Tabs
    <3>5. seen'.page = seen.page /\ seen'.alarmed = seen.alarmed
      BY <2>6 DEF HearAccepted, Histories
    <3> QED
      BY <1>2, <1>3, <3>1, <3>3, <3>4, <3>5 DEF Awaited
  <2>7. CASE HearError
    <3>1. CASE tab.pending = Said
      <4>1. seen'.page \subseteq {Said} /\ seen'.page \subseteq seen.page /\ Said \in seen'.alarmed
        <5>1. seen' = [seen EXCEPT !.page = @ \cap {Said}, !.alarmed = @ \cup {Said}]
          BY <2>7, <3>1 DEF HearError
        <5> QED
          BY <5>1 DEF Histories
      <4> QED
        BY <1>2, <1>3, <4>1 DEF Awaited
    <3>2. CASE tab.pending # Said /\ tab.awaiting = Said
      <4>1. seen'.page = seen.page /\ seen'.alarmed = seen.alarmed \cup {Said}
        BY <2>7, <3>2 DEF HearError, Histories
      <4> QED
        BY <1>2, <1>3, <3>2, <4>1 DEF Awaited
    <3>3. CASE Said \notin {tab.pending, tab.awaiting}
      <4>1. tab'.awaiting = tab.awaiting /\ seen'.page = seen.page /\ seen'.alarmed = seen.alarmed
        BY <2>7, <3>3 DEF HearError, Dismiss, Released, Drops, Close, Tabs, Histories
      <4> QED
        BY <1>4, <4>1
    <3> QED
      BY <3>1, <3>2, <3>3
  <2> QED
    BY <1>6, <2>1, <2>2, <2>3, <2>4, <2>5, <2>6, <2>7 DEF Turns
<1> QED
  BY <1>5, <1>6, PageMoves

\* A failure on its way is not lost as long as the page stays connected.
LEMMA ErrorsStay ==
  ASSUME OverlayInv, [OverlayNext]_allVars, NEW s \in Sessions, InFeed("error", s)
  PROVE  InFeed("error", s)' \/ (HearError /\ s = Said) \/ seen'.failed = {}
<1> USE SameTyped DEF OverlayInv
<1>1. CASE feed' = feed
  BY <1>1 DEF InFeed
<1>2. CASE Hear
  BY <1>2, HearsType DEF Hear, HearDone, HearAccepted, HearDiscarded, HearError
<1>3. CASE Network
  <2>1. PICK m \in net : feed' = feed \/ Say("done", m.s)
    BY <1>3 DEF Network, Serves, ServeGenerate, ServeCheckpoint, ServeDecision, ServeOrphan, Refuse,
       Returns, AcceptConfirmed, AcceptFails, DiscardReturns, Acts
  <2>2. m.s \in Sessions
    BY DEF Messages
  <2> QED
    BY <1>1, <2>1, <2>2, SayType
<1>4. CASE \E a \in Agents : AgentMoves(a)
  <2>1. PICK a \in Agents : AgentMoves(a)
    BY <1>4
  <2>2. \/ feed' = feed
        \/ /\ agent[a].s \in Sessions
           /\ \E type \in {"done", "error", "accepted", "discarded"} : Say(type, agent[a].s)
    BY <2>1, AgentEffects DEF AgentScaffolds, AgentWrites
  <2> QED
    BY <1>1, <2>2, SayType
<1>5. CASE Disconnect \/ ServerDies \/ \E late \in BOOLEAN : Reload(late)
  BY <1>5 DEF Disconnect, ServerDies, Reload, Histories
<1>6. CASE \/ UNCHANGED allVars \/ Captured \/ Losses \/ HotReload \/ Read \/ Scout \/ Connect
           \/ ServerRestarts \/ Accept \/ Discard
           \/ (\E u \in Sessions \ Steers, annotated \in BOOLEAN : Go(u, annotated))
           \/ \E u \in Sessions, t \in EventTypes : Expires(u, t)
  BY <1>1, <1>6 DEF allVars, pageVars, Go, Accept, Discard, Captured, Losses, Lose,
     HotReload, Read, ReadVariants, ReadScaffold, ReadNothing, ReadDropped, Scout, Connect,
     ServerRestarts, Expires, Silent, Acts
<1> QED
  BY <1>2, <1>3, <1>4, <1>5, <1>6 DEF OverlayNext, User

LEMMA FailuresKept ==
  ASSUME OverlayInv, [OverlayNext]_allVars
  PROVE  FailuresHeard'
<1> USE SameTyped DEF OverlayInv
<1>1. Advance
  BY ServerAdvances
<1>2. ASSUME NEW s \in seen.failed
      PROVE  /\ s \in Sessions /\ Shown(s) /\ Shown(s)' /\ s # None
             /\ s \in seen.page \/ tab.pending = s
                  => source'[s] = "clean" \/ s \in seen.alarmed \/ InFeed("error", s)
  <2>1. s \in Sessions /\ Shown(s)
    BY <1>2 DEF FailuresHeard, Histories
  <2>2. s \in seen.page \/ tab.pending = s
          => source[s] = "clean" \/ s \in seen.alarmed \/ InFeed("error", s)
    BY <1>2 DEF FailuresHeard
  <2> QED
    BY <1>1, <2>1, <2>2, AgreedStays, SourceStays, NoneAssumption
\* Nothing more has failed, and nothing more is waited for.
<1>3. ASSUME seen'.failed \subseteq seen.failed,
             \A s \in seen'.failed :
                s \in seen'.page \/ tab'.pending = s =>
                   \/ s \in seen'.alarmed
                   \/ /\ s \in seen.page \/ tab.pending = s
                      /\ s \in seen.alarmed => s \in seen'.alarmed
                      /\ InFeed("error", s) => InFeed("error", s)'
      PROVE  FailuresHeard'
  <2>1. ASSUME NEW s \in seen'.failed
        PROVE  /\ Shown(s)'
               /\ s \in seen'.page \/ tab'.pending = s
                    => source'[s] = "clean" \/ s \in seen'.alarmed \/ InFeed("error", s)'
    BY <1>2, <1>3, <2>1
  <2> QED
    BY <2>1 DEF FailuresHeard
<1>4. CASE seen'.failed = {}
  BY <1>3, <1>4
<1>5. ASSUME ~HearError, seen'.failed # {}, NEW s \in seen.failed, InFeed("error", s)
      PROVE  InFeed("error", s)'
  BY <1>2, <1>5, ErrorsStay
<1>6. CASE ~HearError /\ (Idles \/ (\E u \in Sessions : Enters(u)) \/ (\E u \in Ids : Leaves(u)))
  <2>1. seen'.failed = seen.failed /\ seen'.page = seen.page /\ seen'.alarmed = seen.alarmed
        /\ tab'.pending \in {tab.pending, None}
    BY <1>6 DEF Idles, Enters, Leaves, Histories
  <2> QED
    BY <1>2, <1>3, <1>4, <1>5, <1>6, <2>1
<1>7. CASE Turns /\ ~HearError
  <2>1. CASE Disconnect \/ ServerDies \/ \E late \in BOOLEAN : Reload(late)
    BY <1>4, <2>1 DEF Disconnect, ServerDies, Reload, Histories
  <2>2. ASSUME NEW s \in Sessions \ Steers, NEW annotated \in BOOLEAN, Go(s, annotated)
        PROVE  FailuresHeard'
    <3>1. seen'.failed = seen.failed /\ seen'.page = {} /\ tab'.pending = None
      BY <2>2 DEF Go, Histories, Tabs
    <3> QED
      BY <1>2, <1>3, <3>1
  <2>3. CASE Accept
    <3>1. /\ seen'.failed = seen.failed \ {tab.cur} /\ seen'.page = seen.page \ {tab.cur}
          /\ seen'.alarmed = seen.alarmed \ {tab.cur} /\ tab'.pending = tab.cur
      BY <2>3 DEF Accept, Histories, Tabs
    <3> QED
      BY <1>3, <1>4, <1>5, <1>7, <3>1
  <2>4. ASSUME NEW m \in net, AcceptConfirmed(m), tab.pending = m.s
        PROVE  FailuresHeard'
    <3>1. seen'.failed = seen.failed /\ seen'.page = {m.s} /\ seen'.alarmed = seen.alarmed
          /\ tab'.pending = None
      BY <2>4 DEF AcceptConfirmed, ReleasedAccepted, Released, Histories, Tabs
    <3> QED
      BY <1>2, <1>3, <1>4, <1>5, <1>7, <2>4, <3>1
  <2>5. CASE HearAccepted
    <3> DEFINE t == [tab EXCEPT !.awaiting = IF @ = Said THEN None ELSE @]
    <3>1. tab' \in {t, [t EXCEPT !.pending = None], ReleasedAccepted(t)}
      BY <2>5 DEF HearAccepted
    <3>2. t \in Tabs /\ t.pending = tab.pending
      <4>1. Said \in Sessions
        BY <2>5, HearsType DEF HearAccepted
      <4> QED
        BY <4>1 DEF Tabs, Ids
    <3> HIDE DEF t
    <3>3. tab'.pending \in {tab.pending, None}
      BY <3>1, <3>2 DEF ReleasedAccepted, Released, Tabs
    <3>4. seen'.failed = seen.failed /\ seen'.page = seen.page /\ seen'.alarmed = seen.alarmed
      BY <2>5 DEF HearAccepted, Histories
    <3> QED
      BY <1>2, <1>3, <1>4, <1>5, <1>7, <3>3, <3>4
  <2>6. ASSUME NEW a \in Agents, AgentMoves(a)
        PROVE  FailuresHeard'
    <3> DEFINE u == agent[a].s
    <3>1. tab' = tab
      BY <2>6, AgentsUnseen
    <3>2. CASE seen' = seen
      BY <1>3, <1>4, <1>5, <1>7, <3>1, <3>2
    <3>3. CASE seen' # seen
      <4>1. PICK r \in AcceptReplies : AgentAccepts(a, r[1], r[2])
        BY <2>6, <3>3 DEF AgentMoves, AgentPolls, AgentScaffolds, AgentWrites, AgentAnswers, AgentDone,
           AgentError, AgentDiscards, AgentCompletes, Silent
      <4>2. /\ r[1] = "error" /\ conn /\ Say("error", u)
            /\ seen' = [seen EXCEPT !.failed = @ \cup {u}]
        <5>1. r[1] = "error" /\ conn /\ seen' = [seen EXCEPT !.failed = @ \cup {u}]
          BY <3>3, <4>1 DEF AgentAccepts
        <5>2. Say("error", u)
          BY <4>1, <5>1 DEF AgentAccepts
        <5> QED
          BY <5>1, <5>2
      <4>3. Task(a) /\ agent[a].type = "accept"
        <5>1. NoSteers
          BY DEF NoSteers, Begun
        <5>2. agent[a].at = "working" /\ agent[a].type = "accept"
          BY <4>1 DEF AgentAccepts, ReplyAccept, On
        <5> QED
          BY <5>1, <5>2, Tasks
      <4>4. u \in Sessions /\ Shown(u)
        BY <4>3 DEF Task
      <4>5. ASSUME NEW s \in seen'.failed
            PROVE  /\ Shown(s)'
                   /\ s \in seen'.page \/ tab'.pending = s
                        => source'[s] = "clean" \/ s \in seen'.alarmed \/ InFeed("error", s)'
        <5>1. seen'.failed = seen.failed \cup {u} /\ seen'.page = seen.page /\ seen'.alarmed = seen.alarmed
          BY <4>2 DEF Histories
        <5>2. CASE s = u
          BY <1>1, <4>2, <4>4, <5>2, AgreedStays, SayType
        <5>3. CASE s # u
          BY <1>2, <1>5, <1>7, <3>1, <4>5, <5>1, <5>3
        <5> QED
          BY <5>2, <5>3
      <4> QED
        BY <4>5 DEF FailuresHeard
    <3> QED
      BY <3>2, <3>3
  <2> QED
    BY <1>7, <2>1, <2>2, <2>3, <2>4, <2>5, <2>6 DEF Turns
<1>8. CASE HearError
  <2>1. Said \in Sessions
    BY <1>8, HearsType DEF HearError
  <2>2. ASSUME NEW s \in Sessions, s # Said, InFeed("error", s)
        PROVE  InFeed("error", s)'
    BY <1>8, <2>2, HearsType DEF HearError
  <2>3. CASE tab.pending = Said
    <3>1. /\ seen'.failed = seen.failed /\ seen'.page \subseteq {Said}
          /\ seen'.alarmed = seen.alarmed \cup {Said} /\ tab'.pending = None
      <4>1. /\ seen' = [seen EXCEPT !.page = @ \cap {Said}, !.alarmed = @ \cup {Said}]
            /\ tab' = [tab EXCEPT !.pending = None, !.awaiting = None, !.state = "CYCLING"]
        BY <1>8, <2>3 DEF HearError
      <4> QED
        BY <4>1 DEF Histories, Tabs
    <3> QED
      BY <1>2, <1>3, <3>1
  <2>4. CASE tab.pending # Said /\ tab.awaiting = Said
    <3>1. /\ seen'.failed = seen.failed /\ seen'.page = seen.page
          /\ seen'.alarmed = seen.alarmed \cup {Said} /\ tab'.pending = tab.pending
      BY <1>8, <2>4 DEF HearError, Histories, Tabs
    <3> QED
      BY <1>2, <1>3, <2>2, <3>1
  <2>5. CASE Said \notin {tab.pending, tab.awaiting}
    <3>1. /\ seen'.failed = seen.failed /\ seen'.page = seen.page
          /\ seen'.alarmed = seen.alarmed /\ tab'.pending = tab.pending
      BY <1>8, <2>5 DEF HearError, Dismiss, Released, Drops, Close, Histories, Tabs
    <3>2. ASSUME NEW s \in seen'.failed
          PROVE  /\ Shown(s)'
                 /\ s \in seen'.page \/ tab'.pending = s
                      => source'[s] = "clean" \/ s \in seen'.alarmed \/ InFeed("error", s)'
      <4>1. CASE s = Said
        \* The tab did not wait for it, so it had heard of it, or it had gone through.
        <5>1. s \in seen.page => source[s] = "clean" \/ s \in seen.alarmed
          BY <2>5, <4>1 DEF Awaited
        <5>2. source[s] = "clean" => source'[s] = "clean"
          BY <1>2, <3>1, <3>2, SourceStays
        <5> QED
          BY <1>2, <2>5, <3>1, <3>2, <4>1, <5>1, <5>2
      <4>2. CASE s # Said
        BY <1>2, <2>2, <3>1, <3>2, <4>2
      <4> QED
        BY <4>1, <4>2
    <3> QED
      BY <3>2 DEF FailuresHeard
  <2> QED
    BY <2>3, <2>4, <2>5
<1> QED
  BY <1>6, <1>7, <1>8, PageMoves

-----------------------------------------------------------------------------
(* The theorems.                                                            *)

LEMMA OverlayInit == Init /\ PageInit => OverlayInv
<1> SUFFICES ASSUME Init, PageInit  PROVE OverlayInv
  OBVIOUS
<1>1. LInv
  BY LiveInit
<1>2. \A s \in Sessions : journal[s] = EmptySnapshot
  BY DEF Init
<1>3. JournalsDecent
  BY <1>2 DEF Init, JournalsDecent, Decent, EmptySnapshot, Canceled
<1>4. tab \in Tabs /\ tab.cur = None /\ tab.capture = None
  BY NewTabType DEF PageInit, NewTab, Tabs
<1>5. store \in Stores
  <2>1. NoSession \in Saves /\ None \in Ids
    BY DEF NoSession, Saves, Ids, TabStates, Expected
  <2> QED
    BY <2>1 DEF PageInit, Stores
<1>6. PageTypes
  <2>1. seen \in Histories
    BY DEF PageInit, Histories
  <2>2. <<>> \in Seq(Notes) /\ "clean" \in Levels /\ 0 \in 0 .. MaxClicks /\ 0 \in 0 .. MaxReloads
    BY PageBoundsAssumption DEF Levels
  <2> QED
    BY <1>4, <1>5, <2>1, <2>2 DEF PageInit, PageTypes, OverlayTypeOK, Stores
<1>7. Begun
  BY <1>2, <1>4 DEF PageInit, Begun, Known, EmptySnapshot
<1>8. AnswersHonest /\ FeedHonest /\ ToldHonest /\ ClosedShut /\ Awaited /\ FailuresHeard
  BY DEF PageInit, AnswersHonest, FeedHonest, InFeed, ToldHonest, ClosedShut, Awaited, FailuresHeard
<1> QED
  BY <1>1, <1>3, <1>6, <1>7, <1>8 DEF OverlayInv

LEMMA DecentStays ==
  ASSUME Advance
  PROVE  JournalsDecent'
BY DEF Advance, Onward, JournalsDecent, Shown

LEMMA OverlayStep == OverlayInv /\ [OverlayNext]_allVars => OverlayInv'
<1> SUFFICES ASSUME OverlayInv, [OverlayNext]_allVars  PROVE OverlayInv'
  OBVIOUS
<1>1. LInv' /\ Advance
  BY ServerAdvances DEF OverlayInv
<1>2. PageTypes'
  BY PageTyped DEF OverlayInv
<1> QED
  BY <1>1, <1>2, DecentStays, BegunKept, AnswersKept, FeedKept, ToldKept, ClosedKept, AwaitedKept, FailuresKept
     DEF OverlayInv

LEMMA OverlayInvariant == OverlaySafe => []OverlayInv
BY OverlayInit, OverlayStep, PTL DEF OverlaySafe

\* The tab, its store, the source and the requests have their types
\* (live-browser.js, live-browser-session.js).
THEOREM OverlayTypeCorrect == OverlaySafe => []OverlayTypeOK
<1>1. OverlayInv => OverlayTypeOK
  BY DEF OverlayInv, PageTypes
<1> QED
  BY <1>1, OverlayInvariant, PTL

\* Under the requests, reloads and losses of the tab the server keeps what it
\* promises: its types, no agent left waiting for an event it could have, one
\* scaffold of a generation at a time, and a decision that survives a restart
\* (live-server.mjs, session-store.mjs).
THEOREM ServerCarriesOn ==
  OverlaySafe => [](TypeOK /\ NoMissedWakeup /\ OneScaffold /\ DecisionRecoverable)
<1>1. OverlayInv => TypeOK /\ NoMissedWakeup /\ OneScaffold /\ DecisionRecoverable
  BY TypesHold, WakeupsHold, ScaffoldsHold, RecoveryHolds DEF OverlayInv
<1> QED
  BY <1>1, OverlayInvariant, PTL

\* Every step of the two is one the server, its browsers or its agents may take.
LEMMA OverlayMoves == OverlayInv /\ [OverlayNext]_allVars => Moves
<1> SUFFICES ASSUME OverlayInv, [OverlayNext]_allVars  PROVE Moves
  OBVIOUS
<1>1. CASE UNCHANGED allVars \/ User \/ Captured \/ Hear \/ HotReload \/ Read \/ Scout \/ Connect
  <2>1. CASE UNCHANGED allVars
    BY <2>1 DEF allVars, vars, Moves
  <2>2. CASE User
    BY <2>2 DEF User, Go, Accept, Discard, Reload, Acts, QuietServer, vars, Moves
  <2>3. CASE Captured \/ HotReload \/ Scout \/ Connect
    BY <2>3 DEF Captured, HotReload, Scout, Connect, Acts, QuietServer, vars, Moves
  <2>4. CASE Hear
    BY <2>4 DEF Hear, HearDone, HearAccepted, HearDiscarded, HearError, Hearing, QuietServer, vars, Moves
  <2>5. CASE Read
    BY <2>5 DEF Read, ReadVariants, ReadScaffold, ReadNothing, ReadDropped, Acts, QuietServer, vars, Moves
  <2> QED
    BY <1>1, <2>1, <2>2, <2>3, <2>4, <2>5
<1>2. CASE Losses \/ Disconnect
  BY <1>2 DEF Losses, Lose, Disconnect, Moves
<1>3. CASE Network
  <2>1. PICK m \in net : Serves(m) \/ Returns(m)
    BY <1>3 DEF Network
  <2>2. CASE Refuse(m) \/ Returns(m)
    BY <2>2 DEF Refuse, Returns, AcceptConfirmed, AcceptFails, DiscardReturns, Acts, QuietServer, vars, Moves
  <2>3. CASE ServeGenerate(m) \/ ServeCheckpoint(m) \/ ServeDecision(m) \/ ServeOrphan(m)
    <3>1. m.s \in Sessions /\ (ServeCheckpoint(m) => m.ph \in {"steer", "generating", "cycling"})
      BY <2>1 DEF OverlayInv, PageTypes, OverlayTypeOK, Messages, ServeCheckpoint
    <3>2. Requests(m.s)
      BY <2>3, <3>1 DEF ServeGenerate, ServeCheckpoint, ServeDecision, ServeOrphan, Requests
    <3> QED
      BY <3>1, <3>2 DEF Moves
  <2> QED
    BY <2>1, <2>2, <2>3 DEF Serves
<1>4. CASE \E a \in Agents : AgentMoves(a)
  <2>1. PICK a \in Agents : AgentMoves(a)
    BY <1>4
  <2>2. CASE AgentWrites(a)
    BY <2>2 DEF AgentWrites, QuietServer, vars, Moves
  <2>3. CASE ~AgentWrites(a)
    <3>1. AgentStep(a)
      BY <2>1, <2>3 DEF AgentMoves, AgentPolls, AgentScaffolds, AgentAnswers, AgentDone,
                        AgentError, AgentAccepts, AgentDiscards, AgentCompletes, Answer,
                        Works, AgentStep
    <3> QED
      BY <3>1 DEF Moves
  <2> QED
    BY <2>2, <2>3
<1>5. CASE (\E s \in Sessions, t \in EventTypes : Expires(s, t)) \/ ServerDies \/ ServerRestarts
  BY <1>5 DEF Moves, Expires, ServerDies, ServerRestarts
<1> QED
  BY <1>1, <1>2, <1>3, <1>4, <1>5 DEF OverlayNext

\* No late request of the tab, from before a reload or a lost connection, and no
\* late reply shows a decided session as generating again.
THEOREM DecidedUnderTheTab == OverlaySafe => NoVariantsAfterDecision
<1>1. OverlayInv /\ [OverlayNext]_allVars => [NothingLate]_vars
  BY NothingComesLate, OverlayMoves DEF OverlayInv
<1> QED
  BY <1>1, OverlayInvariant, PTL DEF OverlaySafe, NoVariantsAfterDecision, NothingLate

\* A decision of the tab leaves the queue only after an agent was handed it.
THEOREM AnsweredUnderTheTab == OverlaySafe => DecisionAnswered
<1>1. OverlayInv /\ [OverlayNext]_allVars => [AllAnswered]_vars
  BY AllAreAnswered, OverlayMoves DEF OverlayInv
<1> QED
  BY <1>1, OverlayInvariant, PTL DEF OverlaySafe, DecisionAnswered, AllAnswered

\* What the user has closed comes back by no reload and no new connection
\* (markSessionHandled and the tests of the mark in resumeSession,
\* restoreSessionWithoutWrapper and findAdoptableServerSession).
THEOREM ClosedForGood == OverlaySafe => []HandledStaysClosed
<1>1. OverlayInv => HandledStaysClosed
  BY DEF OverlayInv, ClosedShut, Shut, HandledStaysClosed
<1> QED
  BY <1>1, OverlayInvariant, PTL

\* An accept the user was told of is kept until an agent has carried it out or has
\* failed to, and a failure is heard of (handleAccept and the server events
\* "complete", "agent_done" and "error", against the journal of the server).
THEOREM AcceptsAccounted == OverlaySafe => []AcceptAccounted
<1>1. OverlayInv => AcceptKept
  BY DEF OverlayInv, ToldHonest, Agreed, JournalsDecent, Decent, Canceled, Kept, AcceptKept, PageTypes, Histories
<1>2. OverlayInv => FailureHeard
  <2> SUFFICES ASSUME OverlayInv, NEW s \in seen.page \cap seen.failed, source[s] # "clean",
                      s \notin seen.alarmed
               PROVE  [type |-> "error", s |-> s] \in ToSet(feed)
    BY DEF FailureHeard
  <2>1. InFeed("error", s) /\ feed \in Seq(Notes)
    BY DEF OverlayInv, FailuresHeard, PageTypes
  <2>2. PICK i \in DOMAIN feed : feed[i].type = "error" /\ feed[i].s = s
    BY <2>1 DEF InFeed
  <2>3. feed[i] \in Notes
    BY <2>1, <2>2
  <2>4. feed[i] = [type |-> "error", s |-> s]
    BY <2>2, <2>3 DEF Notes
  <2> QED
    BY <2>2, <2>4 DEF ToSet
<1> QED
  BY <1>1, <1>2, OverlayInvariant, PTL DEF AcceptAccounted

-----------------------------------------------------------------------------
(* The server with browsers of its own, and the tab, each in a behaviour of *)
(* its own: what the types need of either.                                  *)

ScenarioInv ==
  /\ scenario = "server" => LInv /\ OverlayTypeOK
  /\ scenario = "tab" => OverlayInv
  /\ scenario \in {"server", "tab"}

LEMMA ScenarioStart == ScenarioInit => ScenarioInv
<1> SUFFICES ASSUME ScenarioInit  PROVE ScenarioInv
  OBVIOUS
<1>1. OverlayInv
  BY OverlayInit DEF ScenarioInit
<1> QED
  BY <1>1 DEF ScenarioInit, ScenarioInv, OverlayInv, PageTypes

LEMMA ScenarioStep == ScenarioInv /\ [ScenarioNext]_ScenarioVars => ScenarioInv'
<1> SUFFICES ASSUME ScenarioInv, [ScenarioNext]_ScenarioVars  PROVE ScenarioInv'
  OBVIOUS
<1>1. scenario' = scenario
  BY DEF ScenarioNext, ScenarioVars, TabClosed, OneFault
<1>2. CASE scenario = "server"
  <2>1. [Next]_vars /\ UNCHANGED pageVars
    BY <1>2 DEF ScenarioNext, ScenarioVars, allVars, TabClosed
  <2>2. LInv'
    BY <1>2, <2>1, LiveStep DEF ScenarioInv
  <2>3. OverlayTypeOK'
    BY <1>2, <2>1 DEF ScenarioInv, pageVars, OverlayTypeOK
  <2> QED
    BY <1>1, <1>2, <2>2, <2>3 DEF ScenarioInv
<1>3. CASE scenario = "tab"
  <2>1. [OverlayNext]_allVars
    BY <1>3 DEF ScenarioNext, ScenarioVars
  <2>2. OverlayInv'
    BY <1>3, <2>1, OverlayStep DEF ScenarioInv
  <2> QED
    BY <1>1, <1>3, <2>2 DEF ScenarioInv
<1> QED
  BY <1>2, <1>3 DEF ScenarioInv

\* The journals, the queue, the parked polls and the agents, and beside them the tab,
\* its store, the source and the requests keep their types in both scenarios
\* (session-store.mjs, live-server.mjs, live-browser.js).
THEOREM LiveTyped == ScenarioSpec => []LiveTypeOK
<1>1. ScenarioInv => LiveTypeOK
  BY TypesHold DEF ScenarioInv, LiveTypeOK, OverlayInv, PageTypes
<1> QED
  BY <1>1, ScenarioStart, ScenarioStep, PTL DEF ScenarioSpec

=============================================================================
