------------------------------- MODULE Questions -------------------------------
(***************************************************************************)
(* A question put to the user on a page (serve-question.mjs, detached):    *)
(* the daemon that serves one hand of cards after another, the tabs that   *)
(* show them, and the agent, which collects the answer with --wait and     *)
(* delivers the next hand with --update.  They share three files and       *)
(* nothing else: the state with the last heartbeat and the last claim, the *)
(* answer, and the next hand.                                              *)
(*                                                                         *)
(* The daemon has one thread, and takes nothing else up while it handles a *)
(* request; but each file it removes or writes is a step, and so is each   *)
(* file that --wait looks at, reads or removes, for those are two          *)
(* processes.  A file is emptied before it is written.  The state is       *)
(* written again for every heartbeat, so that while a page beats, whoever  *)
(* reads it may find it empty: these writes are no steps of their own.     *)
(*                                                                         *)
(* Elapsed time is modelled by what the code compares it with: a few       *)
(* seconds (a claim, a delivery), about fifteen (a silent page), ten       *)
(* minutes (the idle grace).  It passes only when nobody who is awake has  *)
(* something to do within seconds.                                         *)
(***************************************************************************)
EXTENDS Naturals

CONSTANTS
  Windows,      \* the tabs in which the address may be opened
  MaxHands,   \* bound: hands the agent deals, the first one included
  FollowUps,  \* hands with "followup": a pick keeps the table open
  MaxMoves,   \* bound: what the user does to tabs
  MaxRetries, \* bound: deliveries that fail
  NoPick,      \* no answer file
  HalfWritten, \* an answer file that is not written yet
  NoHand       \* no next file

ASSUME HandsAssumption == MaxHands \in Nat \ {0} /\ FollowUps \subseteq 1..MaxHands

ASSUME MovesAssumption == MaxMoves \in Nat /\ MaxRetries \in Nat

Hands == 1..MaxHands

VARIABLES
  daemon,   \* the server: up, leaving (150 ms after a last answer), or down
  hand,     \* the round it has loaded
  wait,     \* awaitingNext, and whether its allowance is spent
  beat,     \* how long ago the last heartbeat was
  claim,    \* lastClaimAt and claimedAt are recent
  task,     \* what is left to do of the request it is busy with
  listed,   \* the state file exists
  answer,   \* the answer file
  next,     \* the file with the next hand, and how old it is
  shown,    \* what each tab shows
  agent,    \* what the agent does and has been told
  moves,    \* how much the user has done
  mixed     \* history: cards were answered twice, or a hand was sent twice

serverVars == <<daemon, hand, wait, beat, claim, task>>
questionVars == <<serverVars, listed, answer, next, shown, agent, moves, mixed>>

-----------------------------------------------------------------------------
(***************************************************************************)
(* Types.                                                                  *)
(***************************************************************************)
Answer == [hand: Hands, open: BOOLEAN]

NextHand == [hand: Hands, age: {"torn", "new", "old"}]

ASSUME FilesAssumption ==
  /\ NoPick \notin Answer /\ HalfWritten \notin Answer \union {NoPick}
  /\ NoHand \notin NextHand

\* A next file is loaded and has to be removed and claimed; an answer file is created
\* and has to be filled.
NoTask == [at |-> "none"]
Task == [at: {"remove", "stamp"}, tab: Windows] \union [at: {"fill"}, tab: Windows, pick: Answer]

\* dealing is a page that has answered, loading one that has been sent or is about to
\* be: then it shows view.  more is the page's own FOLLOWUP, of the hand it was
\* rendered with; stale cards have been answered, in this tab or another.
Views == {"choosing", "waiting", "stalled", "done"}
PageStates == Views \union {"closed", "loading", "dealing", "gone"}
Page == [at: PageStates, view: Views, more: BOOLEAN, stale: BOOLEAN, asleep: BOOLEAN]

\* read is what --wait has read of the state, torn that it, or --update, found it empty.
AgentStates == {"idle", "waiting", "checking", "judging", "statting", "reading", "holding",
                "copying", "stamping", "over"}
BeatAges == {"never", "fresh", "silent", "idle"}
Verdicts == {"none", "closed", "gone"}
AgentState == [at: AgentStates, holds: Answer \union {NoPick, HalfWritten}, owes: BOOLEAN,
               sent: Hands, fails: 0..MaxRetries + 1, verdict: Verdicts,
               read: [beat: BeatAges, claim: BOOLEAN], torn: BOOLEAN]

QuestionsTypeOK ==
  /\ daemon \in {"up", "leaving", "down"}
  /\ hand \in Hands
  /\ wait \in {"no", "yes", "spent"}
  /\ beat \in BeatAges
  /\ claim \in BOOLEAN /\ listed \in BOOLEAN
  /\ task \in Task \union {NoTask}
  /\ answer \in Answer \union {NoPick, HalfWritten}
  /\ next \in NextHand \union {NoHand}
  /\ shown \in [Windows -> Page]
  /\ agent \in AgentState
  /\ moves \in 0..MaxMoves
  /\ mixed \in BOOLEAN

-----------------------------------------------------------------------------
(***************************************************************************)
(* Helpers.                                                                *)
(***************************************************************************)
Served == daemon # "down"
Awaiting == wait # "no"

\* The daemon takes up nothing else while it handles a request.
Ready == task = NoTask

Claiming == task.at \in {"remove", "stamp"}

Awake(t) == ~shown[t].asleep

\* The views that send heartbeats: only stall clears the timer.  A slip the runs must
\* notice: a stalled page keeps it as well.
BeatingWhenStalled == {"choosing", "dealing", "waiting", "done", "stalled"}

BeatingViews == {"choosing", "dealing", "waiting", "done"}

Beats(t) == Awake(t) /\ shown[t].at \in BeatingViews

\* A hand that has just been delivered, or has just been claimed.
Delivered == next # NoHand /\ next.age # "old"

\* --wait takes a silent page for a closed one, unless a hand is on its way, by the
\* file now and the state as it has been read.  A slip: the claim, which removes the
\* file, is not looked at.
MidDeliveryByFile == Delivered

MidDelivery == Delivered \/ agent.read.claim

\* The daemon outlives the idle grace by as much, for the same reasons.  A slip:
\* only the file holds it.
HeldByFile == Delivered

Held == Delivered \/ claim

\* What --wait and --update take for a living server: a fresh heartbeat, or a
\* process that a signal reaches or is kept from.
Alive == listed /\ (beat = "fresh" \/ Served)

\* The state file may be empty while a page beats, or claims a hand.
TornState == Served /\ listed /\ (task.at = "stamp" \/ \E t \in Windows : Beats(t))

\* A tab that somebody looks at: it beats, or has claimed a hand, or is about to.
Attended ==
  \E t \in Windows :
    \/ Beats(t)
    \/ shown[t].at = "loading" /\ (claim \/ Claiming)
    \/ Awake(t) /\ shown[t].at = "stalled" /\ Delivered

\* The server hears a tab.
Heard == beat' = IF Served THEN "fresh" ELSE beat

\* The process ends; what others know of it is in the state file.
GoesDown ==
  /\ daemon' = "down" /\ wait' = "no" /\ task' = NoTask
  /\ UNCHANGED <<hand, beat, claim>>

\* A tab without cards.
Empty(at) == [at |-> at, view |-> "choosing", more |-> FALSE, stale |-> FALSE, asleep |-> FALSE]

Unread == [beat |-> "never", claim |-> FALSE]

UserMoves == moves < MaxMoves /\ moves' = moves + 1

QuestionsInit ==
  /\ daemon = "up" /\ hand = 1 /\ wait = "no" /\ beat = "never" /\ claim = FALSE
  /\ task = NoTask
  /\ listed = TRUE /\ answer = NoPick /\ next = NoHand
  /\ shown = [t \in Windows |-> Empty("closed")]
  /\ agent = [at |-> "idle", holds |-> NoPick, owes |-> FALSE, sent |-> 1,
              fails |-> 0, verdict |-> "none", read |-> Unread, torn |-> FALSE]
  /\ moves = 0 /\ mixed = FALSE

-----------------------------------------------------------------------------
(***************************************************************************)
(* The page and the server's handlers.                                     *)
(***************************************************************************)

\* What GET / renders: the cards, unless they are answered and the next are not
\* there; then a wait with what is left of its allowance.  A slip: the cards,
\* whatever became of them.
RenderCards(w) == "choosing"

Render(w) == CASE w = "no" -> "choosing" [] w = "yes" -> "waiting" [] w = "spent" -> "stalled"

\* A tab that is sent the page for a hand, or the wait after it.
Sent(h, w) ==
  [Empty("loading") EXCEPT !.view = Render(w), !.more = (Render(w) = "choosing" /\ h \in FollowUps)]

\* GET /: the tab gets the page; a next file is loaded before, unless it is half
\* written ...
Get(t) ==
  LET loads == next # NoHand /\ next.age # "torn"
      w == IF loads THEN "no" ELSE wait
  IN  /\ Served /\ Ready
      /\ hand' = IF loads THEN next.hand ELSE hand
      /\ wait' = w
      /\ task' = IF next = NoHand THEN NoTask ELSE [at |-> "remove", tab |-> t]
      /\ shown' = [shown EXCEPT ![t] = Sent(hand', w)]
      /\ UNCHANGED <<daemon, beat, claim, listed, answer, next>>

\* ... and in any case removed ...
RemoveNext ==
  /\ task.at = "remove"
  /\ next' = NoHand
  /\ task' = [task EXCEPT !.at = "stamp"]
  /\ UNCHANGED <<daemon, hand, wait, beat, claim, listed, answer, shown, agent, moves, mixed>>

\* ... and the claim is noted, here and in the state.
StampClaim ==
  /\ task.at = "stamp"
  /\ claim' = TRUE
  /\ task' = NoTask
  /\ UNCHANGED <<daemon, hand, wait, beat, listed, answer, next, shown, agent, moves, mixed>>

\* The browser shows its own error for an address nobody serves.
GetsNothing(t) ==
  /\ ~Served
  /\ shown' = [shown EXCEPT ![t] = Empty("gone")]
  /\ UNCHANGED <<serverVars, listed, answer, next>>

\* The user opens the address, or refreshes it.
Open(t) ==
  /\ UserMoves
  /\ Awake(t) /\ shown[t].at # "loading"
  /\ Get(t) \/ GetsNothing(t)
  /\ UNCHANGED <<agent, mixed>>

\* The page runs, and beats at once unless it has nothing to wait for.
Load(t) ==
  /\ shown[t].at = "loading" /\ Ready
  /\ shown' = [shown EXCEPT ![t].at = shown[t].view, ![t].view = "choosing"]
  /\ IF shown[t].view = "stalled" THEN UNCHANGED beat ELSE Heard
  /\ UNCHANGED <<daemon, hand, wait, claim, task, listed, answer, next, agent, moves, mixed>>

\* A card, the exit or a re-roll is clicked; the cards stay clickable until they
\* are shuffled away, the other buttons do not.  POST /answer creates the answer file;
\* the allowance of a wait is issued once.  Whether the table stays open is decided by
\* the server's hand, and what the page shows next by its own; of two clicks, whichever
\* is answered last decides.
Picks(t, reroll) ==
  LET open == reroll \/ hand \in FollowUps
      shows == IF reroll \/ shown[t].more THEN "waiting" ELSE "done"
  IN  /\ UserMoves
      /\ Awake(t)
      /\ shown[t].at \in IF reroll THEN {"choosing"} ELSE {"choosing", "dealing"}
      /\ Served /\ Ready
      /\ answer' = HalfWritten
      /\ task' = [at |-> "fill", tab |-> t, pick |-> [hand |-> hand, open |-> open]]
      /\ wait' = IF ~open THEN "no" ELSE IF Awaiting THEN wait ELSE "yes"
      /\ \E view \in {shows} \union (IF shown[t].at = "dealing" THEN {shown[t].view} ELSE {}) :
           shown' = [u \in Windows |->
             CASE u = t -> [shown[u] EXCEPT !.at = "dealing", !.stale = TRUE, !.view = view]
               [] u # t /\ shown[u].at \in {"choosing", "loading"} -> [shown[u] EXCEPT !.stale = TRUE]
               [] OTHER -> shown[u]]
      /\ mixed' = (mixed \/ shown[t].stale)
      /\ UNCHANGED <<daemon, hand, beat, claim, listed, next, agent>>

\* The answer is written, to the file that was created, removed or not; after a last
\* one the server leaves.
FillAnswer ==
  /\ task.at = "fill"
  /\ answer' = IF answer = NoPick THEN NoPick ELSE task.pick
  /\ daemon' = IF task.pick.open THEN daemon ELSE "leaving"
  /\ task' = NoTask
  /\ UNCHANGED <<hand, wait, beat, claim, listed, next, shown, agent, moves, mixed>>

\* A click that no server hears says so.
AnswersNobody(t) ==
  /\ UserMoves
  /\ Awake(t) /\ shown[t].at = "choosing" /\ ~Served
  /\ shown' = [shown EXCEPT ![t] = Empty("gone")]
  /\ UNCHANGED <<serverVars, listed, answer, next, agent, mixed>>

\* The response is there: the page shuffles its cards away, or says goodbye.
Shuffle(t) ==
  /\ shown[t].at = "dealing"
  /\ shown' = [shown EXCEPT ![t] = Empty(shown[t].view)]
  /\ UNCHANGED <<serverVars, listed, answer, next, agent, moves, mixed>>

\* GET /next-status, by a page that waits or has stalled: it reloads into the hand.
Poll(t) ==
  /\ Awake(t) /\ shown[t].at \in {"waiting", "stalled"} /\ next # NoHand
  /\ Get(t)
  /\ UNCHANGED <<agent, moves, mixed>>

\* The allowance is spent, or the server does not answer eight times.
Stall(t) ==
  /\ Awake(t) /\ shown[t].at = "waiting"
  /\ ~Served \/ (wait = "spent" /\ next = NoHand)
  /\ shown' = [shown EXCEPT ![t].at = "stalled"]
  /\ UNCHANGED <<serverVars, listed, answer, next, agent, moves, mixed>>

\* The tab is closed, or the lid; timers that are overdue fire when it opens.
CloseTab(t) ==
  /\ UserMoves
  /\ shown[t].at \notin {"closed", "loading"}
  /\ shown' = [shown EXCEPT ![t] = Empty("closed")]
  /\ UNCHANGED <<serverVars, listed, answer, next, agent, mixed>>

Nap(t) ==
  /\ UserMoves
  /\ Awake(t) /\ shown[t].at \in Views
  /\ shown' = [shown EXCEPT ![t].asleep = TRUE]
  /\ UNCHANGED <<serverVars, listed, answer, next, agent, mixed>>

Wake(t) ==
  /\ ~Awake(t) /\ Ready
  /\ shown' = [shown EXCEPT ![t].asleep = FALSE]
  /\ IF shown[t].at \in BeatingViews THEN Heard ELSE UNCHANGED beat
  /\ UNCHANGED <<daemon, hand, wait, claim, task, listed, answer, next, agent, moves, mixed>>

-----------------------------------------------------------------------------
(***************************************************************************)
(* The agent.                                                              *)
(***************************************************************************)
AgentOnly == UNCHANGED <<serverVars, listed, answer, next, shown, moves, mixed>>

Says(verdict, at) == agent' = [agent EXCEPT !.at = at, !.verdict = verdict, !.read = Unread]

StartWait ==
  /\ agent.at = "idle"
  /\ agent' = [agent EXCEPT !.at = "waiting", !.verdict = "none", !.torn = FALSE]
  /\ AgentOnly

\* One turn of the loop of --wait: an answer comes before anything else ...
Answered == answer # NoPick

Looks ==
  /\ agent.at = "waiting"
  /\ agent' = [agent EXCEPT !.at = IF Answered THEN "reading" ELSE "checking"]
  /\ AgentOnly

\* ... then whether the server is alive (the state is read, and the process probed) ...
Checks ==
  /\ agent.at = "checking"
  /\ \/ IF Alive THEN agent' = [agent EXCEPT !.at = "judging"] ELSE Says("gone", "over")
     \/ /\ TornState
        /\ agent' = [agent EXCEPT !.at = "over", !.verdict = "gone", !.torn = TRUE]
  /\ AgentOnly

\* ... then the state is read again ...
ReadsState ==
  /\ agent.at = "judging"
  /\ \/ /\ listed
        /\ agent' = [agent EXCEPT !.at = "statting", !.read = [beat |-> beat, claim |-> claim]]
     \/ (~listed \/ TornState) /\ Says("none", "idle")
  /\ AgentOnly

\* ... and the next file is looked for: if the page is taken for closed, a last look
\* for the answer.
Judges ==
  /\ agent.at = "statting"
  /\ IF MidDelivery \/ agent.read.beat \in {"never", "fresh"} THEN Says("none", "idle")
     ELSE IF Answered THEN agent' = [agent EXCEPT !.at = "reading", !.read = Unread]
     ELSE Says("closed", "idle")
  /\ AgentOnly

\* The answer is read ...
ReadsAnswer ==
  /\ agent.at = "reading"
  /\ agent' = [agent EXCEPT !.at = "holding", !.holds = answer, !.torn = (answer = HalfWritten)]
  /\ AgentOnly

\* ... and removed, and the state with it if that was the end, as it is for an answer
\* that says nothing.
KeepsOpen == agent.holds # HalfWritten /\ agent.holds.open

Collects ==
  /\ agent.at = "holding"
  /\ answer' = NoPick
  /\ listed' = (listed /\ KeepsOpen)
  /\ agent' = [agent EXCEPT !.at = IF KeepsOpen THEN "idle" ELSE "over",
                            !.owes = KeepsOpen, !.holds = NoPick]
  /\ UNCHANGED <<serverVars, next, shown, moves, mixed>>

\* --update: if the server is alive, the file is created and then filled ...
Deals ==
  /\ agent.at = "idle" /\ agent.owes /\ agent.sent < MaxHands /\ agent.fails <= MaxRetries
  /\ \/ /\ Alive
        /\ agent' = [agent EXCEPT !.at = "copying", !.verdict = "none", !.torn = FALSE]
        /\ next' = [hand |-> agent.sent + 1, age |-> "torn"]
     \/ /\ ~Alive \/ TornState
        /\ agent' = [agent EXCEPT !.at = "over", !.verdict = "gone", !.torn = Alive]
        /\ UNCHANGED next
  /\ UNCHANGED <<serverVars, listed, answer, shown, moves, mixed>>

Fills ==
  /\ agent.at = "copying"
  /\ agent' = [agent EXCEPT !.at = "stamping"]
  /\ next' = IF next = NoHand THEN NoHand ELSE [next EXCEPT !.age = "new"]
  /\ UNCHANGED <<serverVars, listed, answer, shown, moves, mixed>>

\* ... and given the time of the delivery, which fails if a page has claimed it
\* meanwhile.  The agent then sends the same hand again, even if the server had
\* loaded it.
Stamps ==
  /\ agent.at = "stamping"
  /\ agent' = IF next = NoHand THEN [agent EXCEPT !.at = "idle", !.fails = @ + 1]
              ELSE [agent EXCEPT !.at = "idle", !.owes = FALSE, !.sent = agent.sent + 1]
  /\ mixed' = (mixed \/ (next = NoHand /\ hand = agent.sent + 1))
  /\ UNCHANGED <<serverVars, listed, answer, next, shown, moves>>

\* --stop: whom the server was talking to gets an error.  If the state cannot be read,
\* nobody is killed.
Stop ==
  /\ agent.at = "idle"
  /\ agent' = [agent EXCEPT !.at = "over", !.verdict = "none"]
  /\ \/ /\ GoesDown
        /\ shown' = IF Ready THEN shown ELSE [shown EXCEPT ![task.tab] = Empty("gone")]
     \/ TornState /\ UNCHANGED <<serverVars, shown>>
  /\ answer' = NoPick /\ listed' = FALSE
  /\ UNCHANGED <<next, moves, mixed>>

-----------------------------------------------------------------------------
(***************************************************************************)
(* Time, and the daemon's own end.                                         *)
(***************************************************************************)

\* Nothing happens within seconds.
Quiet ==
  /\ daemon # "leaving" /\ Ready
  /\ agent.at \in {"idle", "waiting", "over"}
  /\ \A t \in Windows :
       /\ shown[t].at \notin {"loading", "dealing"}
       /\ Awake(t) /\ shown[t].at \in {"waiting", "stalled"} => ~Served \/ next = NoHand

Unheard == ~Served \/ \A t \in Windows : ~Beats(t)

TimePasses ==
  /\ Quiet
  /\ \/ beat = "fresh" /\ Unheard /\ beat' = "silent" /\ UNCHANGED <<wait, claim, next>>
     \/ beat = "silent" /\ Unheard /\ beat' = "idle" /\ UNCHANGED <<wait, claim, next>>
     \/ wait = "yes" /\ wait' = "spent" /\ UNCHANGED <<beat, claim, next>>
     \/ claim /\ claim' = FALSE /\ UNCHANGED <<beat, wait, next>>
     \/ Delivered /\ next' = [next EXCEPT !.age = "old"] /\ UNCHANGED <<beat, wait, claim>>
  /\ UNCHANGED <<daemon, hand, task, listed, answer, shown, agent, moves, mixed>>

\* The daemon's timer: nobody came in time, or nobody has come back.
Expires ==
  /\ daemon = "up" /\ Ready
  /\ beat = "never" \/ (beat = "idle" /\ ~Held)
  /\ GoesDown
  /\ UNCHANGED <<listed, answer, next, shown, agent, moves, mixed>>

Leaves ==
  /\ daemon = "leaving" /\ Ready
  /\ GoesDown
  /\ UNCHANGED <<listed, answer, next, shown, agent, moves, mixed>>

-----------------------------------------------------------------------------
PageMoves(t) ==
  \/ Open(t) \/ AnswersNobody(t) \/ CloseTab(t) \/ Nap(t) \/ Wake(t)
  \/ \E reroll \in BOOLEAN : Picks(t, reroll)

AgentMoves == StartWait \/ Looks \/ Deals \/ Stop

\* What no user and no agent is needed for: timers, responses, a command that has
\* begun, time.
PagesGoOn ==
  \/ \E t \in Windows : Load(t) \/ Shuffle(t) \/ Poll(t) \/ Stall(t)
  \/ RemoveNext \/ StampClaim \/ FillAnswer
  \/ Expires \/ Leaves

CommandGoesOn ==
  \/ Checks \/ ReadsState \/ Judges \/ ReadsAnswer \/ Collects
  \/ Fills \/ Stamps

OnItsOwn == PagesGoOn \/ CommandGoesOn \/ TimePasses

QuestionsNext == (\E t \in Windows : PageMoves(t)) \/ AgentMoves \/ OnItsOwn

\* A --wait that is run again and again sleeps for a second in every turn: time passes
\* between its turns, which is strong fairness.
QuestionsFairness ==
  /\ WF_questionVars(PagesGoOn) /\ WF_questionVars(CommandGoesOn)
  /\ SF_questionVars(TimePasses)

QuestionsSpec == QuestionsInit /\ [][QuestionsNext]_questionVars /\ QuestionsFairness

-----------------------------------------------------------------------------
(***************************************************************************)
(* Properties.                                                             *)
(***************************************************************************)

\* The state has been written again since --wait read it, or is being.
Rewritten == agent.read # [beat |-> beat, claim |-> claim] \/ Claiming

\* An agent told that the server is gone, or the page closed, has no answer to
\* read, a server that is gone, a server or a page that nobody looks at that is: unless
\* it found a file half written, or a page came back, or claimed its hand, after it had
\* read the state.
VerdictsTrue ==
  [][agent'.verdict # agent.verdict /\ ~agent'.torn =>
       /\ agent'.verdict \in {"gone", "closed"} => answer = NoPick \/ mixed
       /\ agent'.verdict = "gone" => ~Served
       /\ agent'.verdict = "closed" => ~Served \/ ~Attended \/ Rewritten]_questionVars

\* The daemon never ends by its timer under a page that somebody looks at, and
\* not between the delivery of a hand and the page that shows it.
NotUnderThePage ==
  [][Expires => beat = "never" \/ ~Attended]_questionVars

\* What --wait collects was answered on the hand the agent has dealt last, if it could
\* read it.
AnswerOfTheHand ==
  agent.at = "holding" /\ agent.holds # HalfWritten /\ ~mixed => agent.holds.hand = agent.sent

\* A table that waits for a hand which is never dealt closes: neither refreshing
\* nor reopening it, nor a lid that closes, keeps the daemon, unless a tab shows cards,
\* or that the choice is recorded.
Abandoned == Served /\ Awaiting /\ \A t \in Windows : shown[t].at \notin {"choosing", "done"}
AbandonedCloses == Abandoned ~> ~Abandoned
=============================================================================
