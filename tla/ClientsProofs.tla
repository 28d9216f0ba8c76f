----------------------------- MODULE ClientsProofs -----------------------------
(***************************************************************************)
(* Theorems about three parts that run on somebody's own machine, for      *)
(* every number of tabs, tokens, runs, sessions, windows and hands,        *)
(* failures included: about BrowserSession, a user of one tab raises no    *)
(* alarm and stays logged out; about Accepts, what a run answers is so,    *)
(* and two runs are in the critical section at once only after a fault;    *)
(* about Questions, an answer is collected for the hand it was given to,   *)
(* what the agent is told is true, and the daemon outlives every page      *)
(* that somebody looks at.                                                 *)
(***************************************************************************)
EXTENDS BrowserSession, Accepts, Questions, FiniteSetTheorems, TLAPS

-----------------------------------------------------------------------------
(***************************************************************************)
(* Browser session.  A tab that refreshes has one message on its way, and  *)
(* the server counts the tokens it has promised (for any user).  For a     *)
(* user who keeps to one tab and never hurries, that tab is the only one   *)
(* with anything in it, what it presents is the token of localStorage, and *)
(* that token is live until the server has answered; a logout on its way   *)
(* only names tokens that nobody holds any more.                           *)
(***************************************************************************)
Refreshes(sent) == {m \in sent : m.kind = "refresh"}

\* The parts of silent refreshes, in either direction.
Answerable(sent) == {m \in sent : m.kind # "logout"}

\* Every token is one that the server has stored.
Stored(m) == m.kind # "refused" => m.token <= issued

Known ==
  /\ live \subseteq 1..issued
  /\ storage <= issued
  /\ \A w \in Tabs : mem[w] <= issued
  /\ \A m \in net : Stored(m)

\* The server can keep its promises within the bound.
Counted ==
  /\ IsFiniteSet(Refreshes(net))
  /\ issued + Cardinality(Refreshes(net)) <= MaxTokens

\* A tab that has a message on its way refreshes, and has no other.
Paired ==
  \A m \in Answerable(net) : m.tab # Gone =>
    /\ refreshing[m.tab]
    /\ \A n \in Answerable(net) : n.tab = m.tab => n = m

\* What holds of a user who keeps to one tab and never hurries ...
OneTab ==
  /\ ~alarm
  /\ \A v, w \in Tabs : Blank(v) \/ Blank(w) \/ v = w
  /\ \A w \in Tabs : mem[w] # 0 => mem[w] = storage /\ signedIn[w]
  /\ \A w \in Tabs : refreshing[w] => mem[w] # 0
  /\ \A m \in Answerable(net) : m.tab # Gone

\* ... and of the tokens of that user.
GoodTokens ==
  /\ storage # 0 => storage \in live \/ \E w \in Tabs : refreshing[w]
  /\ \A m \in net :
       /\ m.kind = "refresh" => m.token = mem[m.tab] /\ m.token \in live
       /\ m.kind = "granted" => m.token \in live
       /\ m.kind = "logout" => /\ m.token # storage
                               /\ \A n \in net : n.kind = "granted" => n.token # m.token

BInv ==
  /\ TabsTypeOK /\ Known /\ Counted /\ Paired
  /\ careful => OneTab /\ GoodTokens

-----------------------------------------------------------------------------
(***************************************************************************)
(* Messages.                                                               *)
(***************************************************************************)

\* The fields of a message, by its kind.
LEMMA Fields ==
  ASSUME NEW m \in Message
  PROVE  /\ m.kind \in {"refresh", "granted", "refused", "logout"}
         /\ m.kind # "logout" => m.tab \in Tabs \union {Gone}
         /\ m.kind # "refused" => m.token \in Token
  BY DEF Message

\* What moving a message to a page that is gone leaves as it is.
LEMMA Moving ==
  ASSUME NEW m \in Message, m.kind # "logout"
  PROVE  /\ [m EXCEPT !.tab = Gone] \in Message
         /\ [m EXCEPT !.tab = Gone].kind = m.kind
         /\ [m EXCEPT !.tab = Gone].tab = Gone
         /\ m.kind # "refused" => [m EXCEPT !.tab = Gone].token = m.token
  BY DEF Message

\* The messages that the actions send.
LEMMA Sending ==
  ASSUME NEW w \in Tabs \union {Gone}, NEW k \in Token
  PROVE  /\ [kind |-> "refresh", tab |-> w, token |-> k] \in Message
         /\ [kind |-> "granted", tab |-> w, token |-> k] \in Message
         /\ [kind |-> "refused", tab |-> w] \in Message
         /\ [kind |-> "logout", token |-> k] \in Message
  BY DEF Message

\* Room is left for the token of one more request.
LEMMA TokensLeft ==
  ASSUME TabsTypeOK, Counted, Room
  PROVE  issued + 1 \in Token /\ issued + 1 + Cardinality(Refreshes(net)) <= MaxTokens
  <1>1. Cardinality(Refreshes(net)) \in Nat
    BY FS_CardinalityType DEF Counted
  <1> QED
    BY <1>1, BoundsAssumption DEF TabsTypeOK, Counted, Room, Refreshes, Token

\* Room is left for the token that answers a request.
LEMMA PromiseKept ==
  ASSUME TabsTypeOK, Counted, NEW m \in net, m.kind = "refresh"
  PROVE  /\ issued + 1 \in Token
         /\ IsFiniteSet(Refreshes(net) \ {m})
         /\ Cardinality(Refreshes(net) \ {m}) = Cardinality(Refreshes(net)) - 1
  <1>1. m \in Refreshes(net) /\ IsFiniteSet(Refreshes(net))
    BY DEF Refreshes, Counted
  <1>2. /\ IsFiniteSet(Refreshes(net) \ {m})
        /\ Cardinality(Refreshes(net) \ {m}) = Cardinality(Refreshes(net)) - 1
    BY <1>1, FS_RemoveElement
  <1>3. Cardinality(Refreshes(net)) \in Nat /\ Cardinality(Refreshes(net) \ {m}) \in Nat
    BY <1>1, <1>2, FS_CardinalityType
  <1>4. issued + 1 \in Token
    BY <1>2, <1>3, BoundsAssumption DEF TabsTypeOK, Counted, Token
  <1> QED
    BY <1>2, <1>4

-----------------------------------------------------------------------------
(***************************************************************************)
(* Types.                                                                  *)
(***************************************************************************)

\* logout() sends a message that is one, and leaves nothing behind.
LEMMA LogoutTypes ==
  ASSUME TabsTypeOK, NEW w \in Tabs, NEW others \in SUBSET net, Logout(w, others)
  PROVE  /\ net' \in SUBSET Message
         /\ storage' \in 0..MaxTokens
         /\ mem' \in [Tabs -> 0..MaxTokens]
         /\ signedIn' \in [Tabs -> BOOLEAN]
  <1>1. others \in SUBSET Message
    BY DEF TabsTypeOK
  <1>2. 0 \in 0..MaxTokens
    BY BoundsAssumption
  <1>3. storage # 0 => [kind |-> "logout", token |-> storage] \in Message
    BY BoundsAssumption DEF TabsTypeOK, Message, Token
  <1> QED
    BY <1>1, <1>2, <1>3 DEF TabsTypeOK, Logout, Set

LEMMA TabsTypeKept ==
  ASSUME BInv, [TabsNext]_tabVars
  PROVE  TabsTypeOK'
  <1> USE DEF server, page
  <1>0. TabsTypeOK /\ Counted
    BY DEF BInv
  <1>1. 0 \in 0..MaxTokens /\ 0 \in 0..MaxWaiting /\ Token \subseteq 0..MaxTokens
    BY BoundsAssumption DEF Token
  <1>2. ASSUME NEW w \in Tabs, Login(w)
        PROVE  TabsTypeOK'
    <2>1. issued + 1 \in Token
      BY <1>0, <1>2, TokensLeft DEF Login
    <2>2. careful' \in BOOLEAN
      BY <1>0, <1>2 DEF Login, AtHand, TabsTypeOK
    <2> QED
      BY <1>0, <1>1, <1>2, <2>1, <2>2 DEF Login, TabsTypeOK, Set
  <1>3. ASSUME NEW w \in Tabs, ClickLogout(w)
        PROVE  TabsTypeOK'
    <2>1. Logout(w, net) /\ careful' \in BOOLEAN
      BY <1>0, <1>3 DEF ClickLogout, AtHand, TabsTypeOK
    <2> QED
      BY <1>0, <1>3, <2>1, LogoutTypes DEF ClickLogout, TabsTypeOK
  <1>4. ASSUME NEW w \in Tabs, SwitchTenant(w)
        PROVE  TabsTypeOK'
    <2>1. careful' \in BOOLEAN
      BY <1>0, <1>4 DEF SwitchTenant, AtHand, TabsTypeOK
    <2> QED
      BY <1>0, <1>1, <1>4, <2>1 DEF SwitchTenant, TabsTypeOK, Set
  <1>5. ASSUME NEW w \in Tabs, Reload(w)
        PROVE  TabsTypeOK'
    <2>1. careful' \in BOOLEAN
      BY <1>0, <1>5 DEF Reload, AtHand, TabsTypeOK
    <2>2. \A m \in Exchange(w) : m \in Message /\ [m EXCEPT !.tab = Gone] \in Message
      BY <1>0, Moving DEF Exchange, TabsTypeOK
    <2>3. net' \subseteq Message
      BY <1>0, <1>5, <2>2 DEF Reload, TabsTypeOK
    <2>4. signedIn' \in [Tabs -> BOOLEAN]
      BY <1>0, <1>5 DEF Reload, TabsTypeOK, Set
    <2>5. refreshing' \in [Tabs -> BOOLEAN]
      BY <1>0, <1>5 DEF Reload, TabsTypeOK, Set
    <2> QED
      BY <1>0, <1>1, <1>5, <2>1, <2>3, <2>4, <2>5 DEF Reload, TabsTypeOK, Set
  <1>6. ASSUME NEW w \in Tabs, StartRefresh(w)
        PROVE  TabsTypeOK'
    <2>1. mem[w] \in Token
      BY <1>0, <1>6, BoundsAssumption DEF StartRefresh, TabsTypeOK, Token
    <2>2. net' \subseteq Message
      BY <1>0, <1>6, <2>1, Sending DEF StartRefresh, TabsTypeOK
    <2> QED
      BY <1>0, <1>6, <2>2 DEF StartRefresh, TabsTypeOK, Set
  <1>7. ASSUME NEW w \in Tabs, JoinQueue(w)
        PROVE  TabsTypeOK'
    <2>1. waiting[w] + 1 \in 0..MaxWaiting
      BY <1>0, <1>7, BoundsAssumption DEF JoinQueue, TabsTypeOK
    <2> QED
      BY <1>0, <1>7, <2>1 DEF JoinQueue, TabsTypeOK, Set
  <1>8. ASSUME NEW w \in Tabs, GiveUp(w)
        PROVE  TabsTypeOK'
    <2>1. Logout(w, net)
      BY <1>8 DEF GiveUp
    <2> QED
      BY <1>0, <1>8, <2>1, LogoutTypes DEF GiveUp, TabsTypeOK
  <1>9. ASSUME NEW w \in Tabs, NEW m \in net, Granted(w, m)
        PROVE  TabsTypeOK'
    <2>1. m.token \in Token
      BY <1>0, <1>9, Fields DEF Granted, TabsTypeOK
    <2> QED
      BY <1>0, <1>1, <1>9, <2>1 DEF Granted, TabsTypeOK, Set
  <1>10. ASSUME NEW w \in Tabs, NEW m \in net, Refused(w, m)
         PROVE  TabsTypeOK'
    <2>1. Logout(w, net \ {m})
      BY <1>10 DEF Refused
    <2>2. net' \in SUBSET Message /\ storage' \in 0..MaxTokens
             /\ mem' \in [Tabs -> 0..MaxTokens] /\ signedIn' \in [Tabs -> BOOLEAN]
      BY <1>0, <2>1, LogoutTypes
    <2> QED
      BY <1>0, <1>1, <1>10, <2>2 DEF Refused, TabsTypeOK, Set
  <1>11. ASSUME NEW m \in net, ServeRefresh(m)
         PROVE  TabsTypeOK'
    <2>1. issued + 1 \in Token
      BY <1>0, <1>11, PromiseKept DEF ServeRefresh
    <2>2. m.tab \in Tabs \union {Gone}
      BY <1>0, <1>11, Fields DEF ServeRefresh, TabsTypeOK
    <2>3. /\ [kind |-> "granted", tab |-> m.tab, token |-> issued + 1] \in Message
          /\ [kind |-> "refused", tab |-> m.tab] \in Message
      BY <2>1, <2>2, Sending
    <2>4. net' \subseteq Message
      BY <1>0, <1>11, <2>3 DEF ServeRefresh, TabsTypeOK
    <2> QED
      BY <1>0, <1>1, <1>11, <2>1, <2>4 DEF ServeRefresh, TabsTypeOK
  <1>12. ASSUME NEW m \in net, ServeLogout(m)
         PROVE  TabsTypeOK'
    BY <1>0, <1>12 DEF ServeLogout, TabsTypeOK
  <1>13. ASSUME NEW m \in net, Lose(m)
         PROVE  TabsTypeOK'
    <2>1. net' \subseteq Message
      BY <1>0, <1>13, Fields DEF Lose, TabsTypeOK, Message
    <2> QED
      BY <1>0, <1>13, <2>1 DEF Lose, TabsTypeOK
  <1>14. ASSUME NEW m \in net, Drop(m)
         PROVE  TabsTypeOK'
    BY <1>0, <1>14 DEF Drop, TabsTypeOK
  <1>15. ASSUME UNCHANGED tabVars
         PROVE  TabsTypeOK'
    BY <1>0, <1>15 DEF tabVars, TabsTypeOK
  <1> QED
    BY <1>2, <1>3, <1>4, <1>5, <1>6, <1>7, <1>8, <1>9, <1>10, <1>11, <1>12, <1>13, <1>14, <1>15
       DEF TabsNext, People, Script, Server

-----------------------------------------------------------------------------
(***************************************************************************)
(* Tokens, and the bound on them.                                          *)
(***************************************************************************)

\* What becomes of the messages on their way: some are dropped, and each of
\* the others was there, is a logout of the stored token, presents a token
\* that its tab has, is a new grant, or tells as little or as much as one
\* that was there.
LEMMA NetSteps ==
  ASSUME TabsTypeOK, [TabsNext]_tabVars
  PROVE  \A n \in net' :
           \/ \E m \in net : n.kind = m.kind /\ (n.kind # "refused" => n.token = m.token)
           \/ n.kind = "refused"
           \/ n.kind = "logout" /\ n.token = storage
           \/ n.kind = "refresh" /\ \E w \in Tabs : n.token = mem[w]
           \/ n.kind = "granted" /\ issued' = issued + 1 /\ n.token = issued'
  <1> SUFFICES ASSUME NEW n \in net'
               PROVE  \/ \E m \in net : n.kind = m.kind /\ (n.kind # "refused" => n.token = m.token)
                      \/ n.kind = "refused"
                      \/ n.kind = "logout" /\ n.token = storage
                      \/ n.kind = "refresh" /\ \E w \in Tabs : n.token = mem[w]
                      \/ n.kind = "granted" /\ issued' = issued + 1 /\ n.token = issued'
    OBVIOUS
  <1> USE DEF server, page
  <1>1. CASE n \in net
    BY <1>1
  <1> SUFFICES ASSUME n \notin net
               PROVE  \/ \E m \in net : n.kind = m.kind /\ (n.kind # "refused" => n.token = m.token)
                      \/ n.kind = "refused"
                      \/ n.kind = "logout" /\ n.token = storage
                      \/ n.kind = "refresh" /\ \E w \in Tabs : n.token = mem[w]
                      \/ n.kind = "granted" /\ issued' = issued + 1 /\ n.token = issued'
    BY <1>1
  <1>2. ASSUME NEW w \in Tabs, NEW others \in SUBSET net, Logout(w, others)
        PROVE  n.kind = "logout" /\ n.token = storage
    BY <1>2 DEF Logout
  <1>3. ASSUME NEW w \in Tabs, People(w)
        PROVE  \/ \E m \in net : n.kind = m.kind /\ (n.kind # "refused" => n.token = m.token)
               \/ n.kind = "logout" /\ n.token = storage
    <2>1. CASE Login(w)
      BY <2>1 DEF Login
    <2>2. CASE ClickLogout(w)
      BY <1>2, <2>2 DEF ClickLogout
    <2>3. CASE SwitchTenant(w)
      BY <2>3 DEF SwitchTenant
    <2>4. CASE Reload(w)
      <3>1. PICK m \in Exchange(w) : n = [m EXCEPT !.tab = Gone]
        BY <2>4 DEF Reload
      <3>2. m \in net /\ m \in Message /\ m.kind # "logout"
        BY DEF Exchange, TabsTypeOK
      <3> QED
        BY <3>1, <3>2, Moving
    <2> QED
      BY <1>3, <2>1, <2>2, <2>3, <2>4 DEF People
  <1>4. ASSUME NEW w \in Tabs, Script(w)
        PROVE  \/ n.kind = "refresh" /\ n.token = mem[w]
               \/ n.kind = "logout" /\ n.token = storage
    <2>1. CASE StartRefresh(w)
      BY <2>1 DEF StartRefresh
    <2>2. CASE JoinQueue(w)
      BY <2>2 DEF JoinQueue
    <2>3. CASE GiveUp(w)
      BY <1>2, <2>3 DEF GiveUp
    <2>4. ASSUME NEW m \in net, Granted(w, m)
          PROVE  FALSE
      BY <2>4 DEF Granted
    <2>5. ASSUME NEW m \in net, Refused(w, m)
          PROVE  n.kind = "logout" /\ n.token = storage
      BY <1>2, <2>5 DEF Refused
    <2> QED
      BY <1>4, <2>1, <2>2, <2>3, <2>4, <2>5 DEF Script
  <1>5. ASSUME NEW m \in net, ServeRefresh(m)
        PROVE  \/ n.kind = "refused"
               \/ n.kind = "granted" /\ issued' = issued + 1 /\ n.token = issued'
    <2>1. CASE m.token \in live
      BY <1>5, <2>1 DEF ServeRefresh
    <2>2. CASE m.token \notin live
      BY <1>5, <2>2 DEF ServeRefresh
    <2> QED
      BY <2>1, <2>2
  <1>6. ASSUME NEW m \in net, ServeLogout(m) \/ Drop(m)
        PROVE  FALSE
    BY <1>6 DEF ServeLogout, Drop
  <1>7. ASSUME NEW m \in net, Lose(m)
        PROVE  n.kind = "refused"
    BY <1>7 DEF Lose
  <1>8. ~ UNCHANGED tabVars
    BY DEF tabVars
  <1> QED
    BY <1>3, <1>4, <1>5, <1>6, <1>7, <1>8 DEF TabsNext, Server

\* What becomes of the server's tokens and of those the browser keeps.
LEMMA TokenSteps ==
  ASSUME TabsTypeOK, Known, [TabsNext]_tabVars
  PROVE  /\ issued' = issued \/ issued' = issued + 1
         /\ live' \subseteq live \union {issued'}
         /\ storage' <= issued'
         /\ \A w \in Tabs : mem'[w] <= issued'
         /\ issued' = issued => live' \subseteq live
  <1> USE DEF server, page
  <1>1. issued \in Nat /\ 0 <= issued /\ issued <= issued + 1
    BY DEF TabsTypeOK
  <1>2. ASSUME NEW v \in Tabs, Login(v)
        PROVE  \A w \in Tabs : mem'[w] <= issued'
    BY <1>1, <1>2 DEF Login, Set, TabsTypeOK, Known
  <1>3. ASSUME NEW v \in Tabs, Login(v)
        PROVE  issued' = issued + 1 /\ live' \subseteq live \union {issued'} /\ storage' <= issued'
    BY <1>1, <1>3 DEF Login
  <1>4. ASSUME NEW v \in Tabs, ClickLogout(v) \/ SwitchTenant(v) \/ Reload(v) \/ GiveUp(v)
        PROVE  issued' = issued /\ live' = live /\ storage' <= issued' /\ \A w \in Tabs : mem'[w] <= issued'
    BY <1>1, <1>4 DEF ClickLogout, SwitchTenant, Reload, GiveUp, Logout, Set, TabsTypeOK, Known
  <1>5. ASSUME NEW v \in Tabs, StartRefresh(v) \/ JoinQueue(v)
        PROVE  issued' = issued /\ live' = live /\ storage' <= issued' /\ \A w \in Tabs : mem'[w] <= issued'
    BY <1>5 DEF StartRefresh, JoinQueue, Known
  <1>6. ASSUME NEW v \in Tabs, NEW m \in net, Granted(v, m) \/ Refused(v, m)
        PROVE  issued' = issued /\ live' = live /\ storage' <= issued' /\ \A w \in Tabs : mem'[w] <= issued'
    <2>1. m.kind # "refused" => m.token <= issued
      BY DEF Known, Stored
    <2> QED
      BY <1>1, <1>6, <2>1 DEF Granted, Refused, Logout, Set, TabsTypeOK, Known
  <1>7. ASSUME NEW m \in net, ServeRefresh(m)
        PROVE  /\ issued' = issued \/ issued' = issued + 1
               /\ live' \subseteq live \union {issued'}
               /\ issued' = issued => live' \subseteq live
               /\ storage' = storage /\ mem' = mem
    BY <1>1, <1>7 DEF ServeRefresh
  <1>8. ASSUME NEW m \in net, ServeLogout(m) \/ Lose(m) \/ Drop(m)
        PROVE  issued' = issued /\ live' \subseteq live /\ storage' = storage /\ mem' = mem
    BY <1>8 DEF ServeLogout, Lose, Drop
  <1>9. ASSUME UNCHANGED tabVars
        PROVE  issued' = issued /\ live' = live /\ storage' = storage /\ mem' = mem
    BY <1>9 DEF tabVars
  <1>10. storage \in Nat /\ \A w \in Tabs : mem[w] \in Nat
    BY DEF TabsTypeOK
  <1>11. storage <= issued /\ \A w \in Tabs : mem[w] <= issued
    BY DEF Known
  <1>12. storage <= issued + 1 /\ \A w \in Tabs : mem[w] <= issued + 1
    BY <1>1, <1>10, <1>11
  <1> QED
    BY <1>1, <1>2, <1>3, <1>4, <1>5, <1>6, <1>7, <1>8, <1>9, <1>11, <1>12
       DEF TabsNext, People, Script, Server

LEMMA KnownKept ==
  ASSUME BInv, [TabsNext]_tabVars
  PROVE  Known'
  <1>1. /\ TabsTypeOK /\ Known /\ issued \in Nat /\ issued' \in Nat
        /\ issued' = issued \/ issued' = issued + 1
    BY TabsTypeKept, TokenSteps DEF BInv, TabsTypeOK
  <1>2. live' \subseteq 1..issued'
    <2>1. live \subseteq 1..issued
      BY <1>1 DEF Known
    <2>2. live' \subseteq live \union {issued'} /\ (issued' = issued => live' \subseteq live)
      BY <1>1, TokenSteps
    <2>3. CASE issued' = issued
      BY <2>1, <2>2, <2>3
    <2>4. CASE issued' = issued + 1
      BY <1>1, <2>1, <2>2, <2>4
    <2> QED
      BY <1>1, <2>3, <2>4
  <1>3. ASSUME NEW n \in net', n.kind # "refused"
        PROVE  n.token <= issued'
    <2>1. \A m \in net : m.kind # "refused" => m.token \in Nat /\ m.token <= issued
      BY <1>1, Fields DEF Known, Stored, TabsTypeOK, Token
    <2>2. storage \in Nat /\ storage <= issued /\ \A w \in Tabs : mem[w] \in Nat /\ mem[w] <= issued
      BY <1>1 DEF Known, TabsTypeOK
    <2>3. (n.token \in Nat /\ n.token <= issued) \/ n.token = issued'
      BY <1>1, <1>3, <2>1, <2>2, NetSteps
    <2> QED
      BY <1>1, <2>3
  <1> QED
    BY <1>1, <1>2, <1>3, TokenSteps DEF Known, Stored

\* Fewer requests, or the same, on their way.
LEMMA FewerCounted ==
  ASSUME TabsTypeOK, Counted, issued' = issued, Refreshes(net') \subseteq Refreshes(net)
  PROVE  Counted'
  <1>1. /\ IsFiniteSet(Refreshes(net'))
        /\ Cardinality(Refreshes(net')) <= Cardinality(Refreshes(net))
    BY FS_Subset DEF Counted
  <1>2. Cardinality(Refreshes(net')) \in Nat /\ Cardinality(Refreshes(net)) \in Nat
    BY <1>1, FS_CardinalityType DEF Counted
  <1> QED
    BY <1>1, <1>2, BoundsAssumption DEF Counted, TabsTypeOK

\* A page that goes moves one message, which may meet its like.
LEMMA ReloadCounted ==
  ASSUME TabsTypeOK, Counted, Paired, NEW w \in Tabs, Reload(w)
  PROVE  Counted'
  <1>1. issued' = issued /\ w # Gone
    BY TabsAssumption DEF Reload, server
  <1>2. \A m \in Exchange(w) : m \in net /\ m \in Message /\ m.kind # "logout" /\ m.tab = w
    BY DEF Exchange, TabsTypeOK
  <1>3. \A m \in Exchange(w) : [m EXCEPT !.tab = Gone].kind = m.kind
    BY <1>2, Moving
  <1>4. CASE \A m \in Exchange(w) : m.kind # "refresh"
    <2>1. Refreshes(net') \subseteq Refreshes(net)
      BY <1>3, <1>4 DEF Reload, Refreshes
    <2> QED
      BY <1>1, <2>1, FewerCounted
  <1>5. CASE \E m \in Exchange(w) : m.kind = "refresh"
    <2>1. PICK m \in Exchange(w) : m.kind = "refresh"
      BY <1>5
    <2>2. \A n \in Exchange(w) : n = m
      BY <1>1, <1>2 DEF Paired, Answerable
    <2> DEFINE moved == [m EXCEPT !.tab = Gone]
    <2>3. moved.kind = "refresh"
      BY <1>3, <2>1
    <2>4. net' = (net \ {m}) \union {moved}
      BY <1>1, <2>1, <2>2 DEF Reload
    <2> HIDE DEF moved
    <2>5. Refreshes(net') = (Refreshes(net) \ {m}) \union {moved}
      BY <2>3, <2>4 DEF Refreshes
    <2>6. m \in Refreshes(net) /\ IsFiniteSet(Refreshes(net))
      BY <1>2, <2>1 DEF Refreshes, Counted
    <2>7. /\ IsFiniteSet(Refreshes(net) \ {m})
          /\ Cardinality(Refreshes(net) \ {m}) = Cardinality(Refreshes(net)) - 1
      BY <2>6, FS_RemoveElement
    <2>8. /\ IsFiniteSet(Refreshes(net'))
          /\ \/ Cardinality(Refreshes(net')) = Cardinality(Refreshes(net) \ {m})
             \/ Cardinality(Refreshes(net')) = Cardinality(Refreshes(net) \ {m}) + 1
      BY <2>5, <2>7, FS_AddElement
    <2>9. Cardinality(Refreshes(net)) \in Nat
      BY <2>6, FS_CardinalityType
    <2> QED
      BY <1>1, <2>7, <2>8, <2>9, BoundsAssumption DEF Counted, TabsTypeOK
  <1> QED
    BY <1>4, <1>5

LEMMA CountedKept ==
  ASSUME BInv, [TabsNext]_tabVars
  PROVE  Counted'
  <1> USE DEF server, page
  <1>0. TabsTypeOK /\ Counted /\ Paired
    BY DEF BInv
  <1>1. ASSUME NEW w \in Tabs, NEW others \in SUBSET net, Logout(w, others)
        PROVE  Refreshes(net') \subseteq Refreshes(net)
    BY <1>1 DEF Logout, Refreshes
  <1>2. ASSUME NEW w \in Tabs, Login(w)
        PROVE  Counted'
    <2>1. issued + 1 + Cardinality(Refreshes(net)) <= MaxTokens
      BY <1>0, <1>2, TokensLeft DEF Login
    <2> QED
      BY <1>0, <1>2, <2>1 DEF Login, Counted
  <1>3. ASSUME NEW w \in Tabs, ClickLogout(w) \/ SwitchTenant(w)
        PROVE  Counted'
    <2>1. issued' = issued /\ Refreshes(net') \subseteq Refreshes(net)
      BY <1>1, <1>3 DEF ClickLogout, SwitchTenant
    <2> QED
      BY <1>0, <2>1, FewerCounted
  <1>4. ASSUME NEW w \in Tabs, StartRefresh(w)
        PROVE  Counted'
    <2> DEFINE m == [kind |-> "refresh", tab |-> w, token |-> mem[w]]
    <2>1. Refreshes(net') = Refreshes(net) \union {m}
      BY <1>4 DEF StartRefresh, Refreshes
    <2> HIDE DEF m
    <2>2. /\ IsFiniteSet(Refreshes(net'))
          /\ \/ Cardinality(Refreshes(net')) = Cardinality(Refreshes(net))
             \/ Cardinality(Refreshes(net')) = Cardinality(Refreshes(net)) + 1
      BY <1>0, <2>1, FS_AddElement DEF Counted
    <2>3. Cardinality(Refreshes(net)) \in Nat
      BY <1>0, FS_CardinalityType DEF Counted
    <2>4. issued + 1 + Cardinality(Refreshes(net)) <= MaxTokens
      BY <1>0, <1>4, TokensLeft DEF StartRefresh
    <2>5. issued' = issued
      BY <1>4 DEF StartRefresh
    <2> QED
      BY <1>0, <2>2, <2>3, <2>4, <2>5, BoundsAssumption DEF Counted, TabsTypeOK
  <1>5. ASSUME NEW w \in Tabs, JoinQueue(w) \/ GiveUp(w)
        PROVE  Counted'
    <2>1. issued' = issued /\ Refreshes(net') \subseteq Refreshes(net)
      BY <1>1, <1>5 DEF JoinQueue, GiveUp
    <2> QED
      BY <1>0, <2>1, FewerCounted
  <1>6. ASSUME NEW w \in Tabs, NEW m \in net, Granted(w, m) \/ Refused(w, m)
        PROVE  Counted'
    <2>1. issued' = issued /\ Refreshes(net') \subseteq Refreshes(net)
      BY <1>1, <1>6 DEF Granted, Refused, Refreshes
    <2> QED
      BY <1>0, <2>1, FewerCounted
  <1>7. ASSUME NEW m \in net, ServeRefresh(m)
        PROVE  Counted'
    <2>1. Refreshes(net') = Refreshes(net) \ {m}
      BY <1>7 DEF ServeRefresh, Refreshes
    <2>2. /\ IsFiniteSet(Refreshes(net) \ {m})
          /\ Cardinality(Refreshes(net) \ {m}) = Cardinality(Refreshes(net)) - 1
      BY <1>0, <1>7, PromiseKept DEF ServeRefresh
    <2>3. Cardinality(Refreshes(net)) \in Nat
      BY <1>0, FS_CardinalityType DEF Counted
    <2>4. issued' = issued \/ issued' = issued + 1
      BY <1>7 DEF ServeRefresh
    <2> QED
      BY <1>0, <2>1, <2>2, <2>3, <2>4, BoundsAssumption DEF Counted, TabsTypeOK
  <1>8. ASSUME NEW m \in net, ServeLogout(m) \/ Lose(m) \/ Drop(m)
        PROVE  Counted'
    <2>1. issued' = issued /\ Refreshes(net') \subseteq Refreshes(net)
      BY <1>8 DEF ServeLogout, Lose, Drop, Refreshes
    <2> QED
      BY <1>0, <2>1, FewerCounted
  <1>9. ASSUME UNCHANGED tabVars
        PROVE  Counted'
    BY <1>0, <1>9 DEF tabVars, Counted
  <1> QED
    BY <1>0, <1>2, <1>3, <1>4, <1>5, <1>6, <1>7, <1>8, <1>9, ReloadCounted
       DEF TabsNext, People, Script, Server

-----------------------------------------------------------------------------
(***************************************************************************)
(* One message for each tab that refreshes.                                *)
(***************************************************************************)

\* Messages gone, and tabs that refresh no more but had none.
LEMMA FewerPaired ==
  ASSUME Paired, Answerable(net') \subseteq Answerable(net),
         \A m \in Answerable(net') : m.tab # Gone /\ refreshing[m.tab] => refreshing'[m.tab]
  PROVE  Paired'
  BY DEF Paired

\* An answer in the place of the message it answers, or of none.
LEMMA AnswerPaired ==
  ASSUME Paired, refreshing' = refreshing,
         NEW m \in Answerable(net), NEW n, n.kind # "logout", n.tab = m.tab,
         net' = (net \ {m}) \union {n}
  PROVE  Paired'
  BY DEF Paired, Answerable

LEMMA PairedKept ==
  ASSUME BInv, [TabsNext]_tabVars
  PROVE  Paired'
  <1> USE DEF server, page
  <1>0. TabsTypeOK /\ Paired
    BY DEF BInv
  <1>1. ASSUME NEW w \in Tabs, NEW others \in SUBSET net, Logout(w, others)
        PROVE  Answerable(net') = Answerable(others)
    BY <1>1 DEF Logout, Answerable
  <1>2. ASSUME NEW w \in Tabs, Login(w) \/ ClickLogout(w) \/ SwitchTenant(w) \/ JoinQueue(w) \/ GiveUp(w)
        PROVE  Paired'
    <2>1. refreshing' = refreshing /\ Answerable(net') = Answerable(net)
      BY <1>1, <1>2 DEF Login, ClickLogout, SwitchTenant, JoinQueue, GiveUp
    <2> QED
      BY <1>0, <2>1, FewerPaired
  <1>3. ASSUME NEW w \in Tabs, Reload(w)
        PROVE  Paired'
    <2>1. \A m \in Exchange(w) : /\ [m EXCEPT !.tab = Gone].kind # "logout"
                                 /\ [m EXCEPT !.tab = Gone].tab = Gone
      BY <1>0, Moving DEF Exchange, TabsTypeOK
    <2>2. \A m \in Answerable(net') : m.tab # Gone => m \in Answerable(net) /\ m.tab # w
      BY <1>3, <2>1 DEF Reload, Answerable, Exchange
    <2>3. \A m \in Answerable(net) : m.tab \in Tabs \union {Gone}
      BY <1>0, Fields DEF Answerable, TabsTypeOK
    <2>4. \A v \in Tabs \ {w} : refreshing'[v] = refreshing[v]
      BY <1>0, <1>3 DEF Reload, Set, TabsTypeOK
    <2> QED
      BY <1>0, <2>2, <2>3, <2>4 DEF Paired
  <1>4. ASSUME NEW w \in Tabs, StartRefresh(w)
        PROVE  Paired'
    <2> DEFINE r == [kind |-> "refresh", tab |-> w, token |-> mem[w]]
    <2>1. ~refreshing[w] /\ net' = net \union {r} /\ r.kind # "logout" /\ r.tab = w
      BY <1>4 DEF StartRefresh
    <2>2. refreshing'[w] /\ \A v \in Tabs : refreshing[v] => refreshing'[v]
      BY <1>0, <1>4 DEF StartRefresh, Set, TabsTypeOK
    <2> HIDE DEF r
    <2>3. \A m \in Answerable(net) : m.tab \in Tabs \union {Gone} /\ m.tab # w
      BY <1>0, <2>1, Fields, TabsAssumption DEF Answerable, Paired, TabsTypeOK
    <2>4. Answerable(net') = Answerable(net) \union {r}
      BY <2>1 DEF Answerable
    <2> QED
      BY <1>0, <2>1, <2>2, <2>3, <2>4 DEF Paired
  <1>5. ASSUME NEW w \in Tabs, NEW m \in net, Granted(w, m) \/ Refused(w, m)
        PROVE  Paired'
    <2>1. m \in Answerable(net) /\ m.tab = w /\ w # Gone
      BY <1>5, TabsAssumption DEF Granted, Refused, Answerable
    <2>2. Answerable(net') = Answerable(net) \ {m}
      <3>1. CASE Granted(w, m)
        BY <3>1 DEF Granted, Answerable
      <3>2. CASE Refused(w, m)
        <4>1. Answerable(net') = Answerable(net \ {m})
          BY <1>1, <3>2 DEF Refused
        <4> QED
          BY <4>1 DEF Answerable
      <3> QED
        BY <1>5, <3>1, <3>2
    <2>3. \A n \in Answerable(net') : n.tab # w /\ n.tab \in Tabs \union {Gone}
      BY <1>0, <2>1, <2>2, Fields DEF Paired, Answerable, TabsTypeOK
    <2>4. \A v \in Tabs \ {w} : refreshing'[v] = refreshing[v]
      BY <1>0, <1>5 DEF Granted, Refused, Set, TabsTypeOK
    <2> QED
      BY <1>0, <2>2, <2>3, <2>4, FewerPaired
  <1>6. ASSUME NEW m \in net, ServeRefresh(m)
        PROVE  Paired'
    <2>1. m \in Answerable(net) /\ refreshing' = refreshing
      BY <1>6 DEF ServeRefresh, Answerable
    <2> DEFINE yes == [kind |-> "granted", tab |-> m.tab, token |-> issued + 1]
               no == [kind |-> "refused", tab |-> m.tab]
    <2>2. yes.kind # "logout" /\ yes.tab = m.tab /\ no.kind # "logout" /\ no.tab = m.tab
      OBVIOUS
    <2>3. net' = (net \ {m}) \union {yes} \/ net' = (net \ {m}) \union {no}
      BY <1>6 DEF ServeRefresh
    <2> HIDE DEF yes, no
    <2> QED
      BY <1>0, <2>1, <2>2, <2>3, AnswerPaired
  <1>7. ASSUME NEW m \in net, Lose(m)
        PROVE  Paired'
    <2>1. CASE m.kind = "logout"
      <3>1. refreshing' = refreshing /\ Answerable(net') \subseteq Answerable(net)
        BY <1>7, <2>1 DEF Lose, Answerable
      <3> QED
        BY <1>0, <3>1, FewerPaired
    <2>2. CASE m.kind # "logout"
      <3> DEFINE no == [kind |-> "refused", tab |-> m.tab]
      <3>1. m \in Answerable(net) /\ refreshing' = refreshing /\ net' = (net \ {m}) \union {no}
        BY <1>7, <2>2 DEF Lose, Answerable
      <3>2. no.kind # "logout" /\ no.tab = m.tab
        OBVIOUS
      <3> HIDE DEF no
      <3> QED
        BY <1>0, <3>1, <3>2, AnswerPaired
    <2> QED
      BY <2>1, <2>2
  <1>8. ASSUME NEW m \in net, ServeLogout(m) \/ Drop(m)
        PROVE  Paired'
    <2>1. refreshing' = refreshing /\ Answerable(net') \subseteq Answerable(net)
      BY <1>8 DEF ServeLogout, Drop, Answerable
    <2> QED
      BY <1>0, <2>1, FewerPaired
  <1>9. ASSUME UNCHANGED tabVars
        PROVE  Paired'
    BY <1>0, <1>9 DEF tabVars, Paired
  <1> QED
    BY <1>2, <1>3, <1>4, <1>5, <1>6, <1>7, <1>8, <1>9 DEF TabsNext, People, Script, Server

-----------------------------------------------------------------------------
(***************************************************************************)
(* One tab, left alone while it refreshes.                                 *)
(***************************************************************************)

\* While no tab refreshes, nothing of a refresh is on its way.
LEMMA NobodyRefreshes ==
  ASSUME BInv, careful, \A w \in Tabs : ~refreshing[w]
  PROVE  \A m \in net : m.kind = "logout"
  <1> SUFFICES ASSUME NEW m \in net, m.kind # "logout"
               PROVE  FALSE
    OBVIOUS
  <1>1. m \in Answerable(net) /\ m.tab \in Tabs \union {Gone}
    BY Fields DEF BInv, TabsTypeOK, Answerable
  <1> QED
    BY <1>1 DEF BInv, OneTab, Paired

\* A careful user who touches a tab finds all calm, and the others empty.
LEMMA Careful ==
  ASSUME BInv, NEW w \in Tabs, AtHand(w), careful'
  PROVE  /\ careful
         /\ \A v \in Tabs : ~refreshing[v]
         /\ \A v \in Tabs \ {w} : mem[v] = 0 /\ ~signedIn[v]
         /\ \A m \in net : m.kind = "logout"
  <1>1. careful /\ ~refreshing[w] /\ \A v \in Tabs \ {w} : Blank(v)
    BY DEF AtHand
  <1>2. \A v \in Tabs : ~refreshing[v]
    BY <1>1 DEF Blank
  <1> QED
    BY <1>1, <1>2, NobodyRefreshes DEF Blank

\* A tab with anything in it is the only one.
LEMMA OneTabOnly ==
  ASSUME BInv, careful, NEW w \in Tabs, ~Blank(w)
  PROVE  \A v \in Tabs \ {w} : mem[v] = 0 /\ ~signedIn[v] /\ ~refreshing[v]
  BY DEF BInv, OneTab, Blank

\* A message of a refresh is the only one, and its tab the only one in use.
LEMMA OneRefreshes ==
  ASSUME BInv, careful, NEW m \in net, m.kind # "logout"
  PROVE  /\ m.tab \in Tabs /\ refreshing[m.tab]
         /\ mem[m.tab] = storage /\ storage # 0 /\ signedIn[m.tab]
         /\ \A v \in Tabs \ {m.tab} : mem[v] = 0 /\ ~signedIn[v] /\ ~refreshing[v]
         /\ \A n \in net : n.kind # "logout" => n = m
  <1>1. m \in Answerable(net) /\ m.tab \in Tabs
    BY Fields DEF BInv, TabsTypeOK, Answerable, OneTab
  <1>2. refreshing[m.tab] /\ mem[m.tab] = storage /\ storage # 0 /\ signedIn[m.tab]
    BY <1>1, TabsAssumption DEF BInv, Paired, OneTab
  <1>3. \A v \in Tabs \ {m.tab} : mem[v] = 0 /\ ~signedIn[v] /\ ~refreshing[v]
    BY <1>1, <1>2, OneTabOnly DEF Blank
  <1>4. ASSUME NEW n \in net, n.kind # "logout"
        PROVE  n = m
    <2>1. n \in Answerable(net) /\ n.tab \in Tabs
      BY <1>4, Fields DEF BInv, TabsTypeOK, Answerable, OneTab
    <2>2. refreshing[n.tab]
      BY <2>1, TabsAssumption DEF BInv, Paired
    <2> QED
      BY <1>1, <1>3, <2>1, <2>2, TabsAssumption DEF BInv, Paired
  <1> QED
    BY <1>1, <1>2, <1>3, <1>4

\* After a logout of the only tab in use, with nothing of a refresh on its
\* way, nobody holds a token.
LEMMA LoggedOut ==
  ASSUME BInv, ~alarm', NEW w \in Tabs, NEW others \in SUBSET net, Logout(w, others),
         \A v \in Tabs \ {w} : mem[v] = 0 /\ ~signedIn[v] /\ ~refreshing[v],
         ~refreshing'[w], \A v \in Tabs \ {w} : refreshing'[v] = refreshing[v],
         \A m \in others : m.kind = "logout"
  PROVE  OneTab' /\ GoodTokens'
  <1>1. \A v \in Tabs : mem'[v] = 0 /\ ~signedIn'[v] /\ ~refreshing'[v]
    BY DEF Logout, Set, BInv, TabsTypeOK
  <1>2. storage' = 0 /\ \A m \in net' : m.kind = "logout"
    BY DEF Logout
  <1>3. \A m \in net' : m.token # 0
    <2>1. \A m \in net' : m \in others \/ (m.token = storage /\ storage # 0)
      BY DEF Logout
    <2>2. \A m \in others : m.token \in Token
      BY Fields DEF BInv, TabsTypeOK
    <2> QED
      BY <2>1, <2>2, BoundsAssumption DEF Token
  <1> QED
    BY <1>1, <1>2, <1>3 DEF OneTab, GoodTokens, Blank, Answerable

\* One conjunct after the other, for the user, the scripts and the server.
LEMMA PeopleCareful ==
  ASSUME BInv, NEW w \in Tabs, People(w), careful'
  PROVE  OneTab' /\ GoodTokens'
  <1> USE DEF server, page
  <1>1. AtHand(w)
    BY DEF People, Login, ClickLogout, SwitchTenant, Reload
  <1>2. /\ careful
        /\ \A v \in Tabs : ~refreshing[v]
        /\ \A v \in Tabs \ {w} : mem[v] = 0 /\ ~signedIn[v]
        /\ \A m \in net : m.kind = "logout"
    BY <1>1, Careful
  <1>3. /\ TabsTypeOK /\ Known /\ OneTab /\ GoodTokens
        /\ issued \in Nat /\ storage \in Nat
        /\ \A m \in net : m.token \in Token /\ m.token <= issued /\ m.token # storage
    BY <1>2, Fields DEF BInv, TabsTypeOK, GoodTokens, Known, Stored
  <1>4. \A v \in Tabs : mem[v] # 0 => mem[v] = storage /\ signedIn[v]
    BY <1>3 DEF OneTab
  <1>5. storage # 0 => storage \in live
    BY <1>2, <1>3 DEF GoodTokens
  <1>6. CASE Login(w)
    <2>1. \A v \in Tabs \ {w} : mem'[v] = 0 /\ ~signedIn'[v]
      BY <1>2, <1>3, <1>6 DEF Login, Set, TabsTypeOK
    <2>2. mem'[w] = issued + 1 /\ signedIn'[w]
      BY <1>3, <1>6 DEF Login, Set, TabsTypeOK
    <2>3. /\ storage' = issued + 1 /\ storage' \in live' /\ net' = net /\ refreshing' = refreshing
          /\ ~alarm'
      BY <1>3, <1>6 DEF Login, OneTab
    <2>4. OneTab'
      BY <1>2, <2>1, <2>2, <2>3 DEF OneTab, Blank, Answerable
    <2>5. \A m \in net' : m.token # storage'
      BY <1>3, <2>3 DEF Token
    <2>6. GoodTokens'
      BY <1>2, <2>3, <2>5 DEF GoodTokens
    <2> QED
      BY <2>4, <2>6
  <1>7. CASE ClickLogout(w)
    <2>1. Logout(w, net) /\ refreshing' = refreshing /\ ~alarm'
      BY <1>3, <1>7 DEF ClickLogout, OneTab
    <2> QED
      BY <1>2, <2>1, LoggedOut
  <1>8. CASE SwitchTenant(w)
    <2>1. /\ \A v \in Tabs : mem'[v] = 0 
          /\ signedIn' = signedIn /\ storage' = storage /\ live' = live
          /\ net' = net /\ refreshing' = refreshing /\ ~alarm'
      BY <1>2, <1>3, <1>8 DEF SwitchTenant, Set, TabsTypeOK, OneTab
    <2>2. OneTab'
      BY <1>2, <2>1 DEF OneTab, Blank, Answerable
    <2>3. GoodTokens'
      BY <1>2, <1>3, <1>5, <2>1 DEF GoodTokens
    <2> QED
      BY <2>2, <2>3
  <1>9. CASE Reload(w)
    <2>1. \A v \in Tabs \ {w} : mem'[v] = 0 /\ ~signedIn'[v] /\ ~refreshing'[v]
      BY <1>2, <1>3, <1>9 DEF Reload, Set, TabsTypeOK
    <2>2. mem'[w] = storage /\ (storage # 0 => signedIn'[w]) /\ ~refreshing'[w]
      BY <1>3, <1>9 DEF Reload, Set, TabsTypeOK
    <2>3. Exchange(w) = {}
      BY <1>2 DEF Exchange
    <2>4. storage' = storage /\ live' = live /\ net' = net /\ ~alarm'
      BY <1>3, <1>9, <2>3 DEF Reload, OneTab
    <2>5. OneTab'
      BY <1>2, <2>1, <2>2, <2>4 DEF OneTab, Blank, Answerable
    <2>6. GoodTokens'
      BY <1>2, <1>3, <1>5, <2>4 DEF GoodTokens
    <2> QED
      BY <2>5, <2>6
  <1> QED
    BY <1>6, <1>7, <1>8, <1>9 DEF People

LEMMA ScriptCareful ==
  ASSUME BInv, NEW w \in Tabs, Script(w), careful'
  PROVE  OneTab' /\ GoodTokens'
  <1> USE DEF server, page
  <1>1. careful
    BY DEF Script, StartRefresh, JoinQueue, GiveUp, Granted, Refused
  <1>2. /\ TabsTypeOK /\ Known /\ OneTab /\ GoodTokens /\ ~alarm
        /\ storage \in Nat
    BY <1>1 DEF BInv, TabsTypeOK, OneTab
  <1>3. CASE StartRefresh(w)
    <2>1. /\ signedIn[w] /\ mem[w] # 0 /\ ~refreshing[w]
          /\ \A v \in Tabs \ {w} : mem[v] = 0 /\ ~signedIn[v] /\ ~refreshing[v]
      BY <1>1, <1>3, OneTabOnly DEF StartRefresh, Blank
    <2>2. \A m \in net : m.kind = "logout"
      BY <1>1, <2>1, NobodyRefreshes
    <2>3. mem[w] = storage /\ storage \in live
      BY <1>2, <2>1 DEF OneTab, GoodTokens
    <2> DEFINE r == [kind |-> "refresh", tab |-> w, token |-> mem[w]]
    <2>4. /\ net' = net \union {r} /\ r.kind = "refresh" /\ r.tab = w /\ r.token = mem[w]
          /\ mem' = mem /\ signedIn' = signedIn /\ storage' = storage /\ live' = live /\ ~alarm'
      BY <1>2, <1>3 DEF StartRefresh
    <2> HIDE DEF r
    <2>5. \A v \in Tabs \ {w} : ~refreshing'[v]
      BY <1>2, <1>3, <2>1 DEF StartRefresh, Set, TabsTypeOK
    <2>6. OneTab'
      BY <2>1, <2>2, <2>3, <2>4, <2>5, TabsAssumption DEF OneTab, Blank, Answerable
    <2>7. GoodTokens'
      BY <1>2, <2>2, <2>3, <2>4 DEF GoodTokens
    <2> QED
      BY <2>6, <2>7
  <1>4. CASE JoinQueue(w)
    BY <1>2, <1>4 DEF JoinQueue, OneTab, GoodTokens, Blank
  <1>5. CASE GiveUp(w)
    <2>1. signedIn[w] /\ mem[w] = 0 /\ Logout(w, net) /\ refreshing' = refreshing /\ ~alarm'
      BY <1>2, <1>5 DEF GiveUp
    <2>2. /\ ~refreshing[w]
          /\ \A v \in Tabs \ {w} : mem[v] = 0 /\ ~signedIn[v] /\ ~refreshing[v]
      BY <1>1, <1>2, <2>1, OneTabOnly DEF OneTab, Blank
    <2>3. \A m \in net : m.kind = "logout"
      BY <1>1, <2>2, NobodyRefreshes
    <2> QED
      BY <2>1, <2>2, <2>3, LoggedOut
  <1>6. ASSUME NEW m \in net, Granted(w, m) \/ Refused(w, m)
        PROVE  /\ refreshing[w] /\ storage # 0
               /\ \A v \in Tabs \ {w} : mem[v] = 0 /\ ~signedIn[v] /\ ~refreshing[v]
               /\ \A n \in net \ {m} : n.kind = "logout"
               /\ ~refreshing'[w]
               /\ \A v \in Tabs \ {w} : refreshing'[v] = refreshing[v]
    <2>1. m.kind # "logout" /\ m.tab = w
      BY <1>6 DEF Granted, Refused
    <2>2. Set(refreshing, w, FALSE)
      BY <1>6 DEF Granted, Refused
    <2>3. ~refreshing'[w] /\ \A v \in Tabs \ {w} : refreshing'[v] = refreshing[v]
      BY <1>2, <2>2 DEF Set, TabsTypeOK
    <2>4. /\ refreshing[w] /\ storage # 0
          /\ \A v \in Tabs \ {w} : mem[v] = 0 /\ ~signedIn[v] /\ ~refreshing[v]
          /\ \A n \in net : n.kind # "logout" => n = m
      BY <1>1, <2>1, OneRefreshes
    <2> QED
      BY <2>3, <2>4
  <1>7. ASSUME NEW m \in net, Granted(w, m)
        PROVE  OneTab' /\ GoodTokens'
    <2>1. /\ \A v \in Tabs \ {w} : mem'[v] = 0 /\ ~signedIn'[v]
          /\ mem'[w] = m.token /\ signedIn'[w]
      BY <1>2, <1>6, <1>7 DEF Granted, Set, TabsTypeOK
    <2>2. /\ m.kind = "granted" /\ m \in net
          /\ storage' = m.token /\ net' = net \ {m} /\ live' = live /\ ~alarm'
      BY <1>2, <1>7 DEF Granted
    <2>3. m.token \in live /\ \A n \in net : n.kind = "logout" => n.token # m.token
      BY <1>2, <2>2 DEF GoodTokens
    <2>4. \A v \in Tabs : ~refreshing'[v]
      BY <1>6, <1>7
    <2>5. \A n \in net' : n.kind = "logout"
      BY <1>6, <1>7, <2>2
    <2>6. OneTab'
      BY <2>1, <2>2, <2>4, <2>5 DEF OneTab, Blank, Answerable
    <2>7. GoodTokens'
      BY <2>2, <2>3, <2>5 DEF GoodTokens
    <2> QED
      BY <2>6, <2>7
  <1>8. ASSUME NEW m \in net, Refused(w, m)
        PROVE  OneTab' /\ GoodTokens'
    <2>1. Logout(w, net \ {m}) /\ ~alarm'
      BY <1>2, <1>8 DEF Refused
    <2> QED
      BY <1>6, <1>8, <2>1, LoggedOut
  <1> QED
    BY <1>3, <1>4, <1>5, <1>7, <1>8 DEF Script

\* An answer takes the place of a message of the refresh: the browser is as
\* it was, and the answer names no token that is not live.
LEMMA AnswerCareful ==
  ASSUME BInv, careful, NEW m \in net, m.kind # "logout",
         NEW n, n.kind \in {"granted", "refused"}, n.tab = m.tab,
         net' = (net \ {m}) \union {n},
         n.kind = "granted" => n.token \in live' /\ \A l \in net : l.kind = "logout" => l.token # n.token,
         ~alarm', UNCHANGED <<storage, page>>
  PROVE  OneTab' /\ GoodTokens'
  <1> USE DEF page
  <1>1. /\ m.tab \in Tabs /\ refreshing[m.tab] /\ \A l \in net \ {m} : l.kind = "logout"
    BY OneRefreshes
  <1>2. OneTab /\ GoodTokens
    BY DEF BInv
  <1>3. \A l \in net' : l = n \/ (l \in net /\ l.kind = "logout")
    BY <1>1
  <1>4. \A v \in Tabs : Blank(v)' <=> Blank(v)
    BY DEF Blank
  <1>5. \A l \in Answerable(net') : l.tab # Gone
    BY <1>1, <1>3, TabsAssumption DEF Answerable
  <1>6. OneTab'
    BY <1>2, <1>4, <1>5 DEF OneTab
  <1>7. GoodTokens'
    BY <1>1, <1>2, <1>3 DEF GoodTokens
  <1> QED
    BY <1>6, <1>7

LEMMA ServerCareful ==
  ASSUME BInv, NEW m \in net, ServeRefresh(m) \/ ServeLogout(m) \/ Lose(m) \/ Drop(m), careful'
  PROVE  OneTab' /\ GoodTokens'
  <1> USE DEF server, page
  <1>1. careful
    BY DEF ServeRefresh, ServeLogout, Lose, Drop
  <1>2. /\ TabsTypeOK /\ Known /\ OneTab /\ GoodTokens /\ ~alarm
        /\ issued \in Nat
    BY <1>1 DEF BInv, TabsTypeOK, OneTab
  <1>3. CASE ServeRefresh(m)
    <2>1. m.kind = "refresh" /\ m.token \in live
      BY <1>2, <1>3 DEF ServeRefresh, GoodTokens
    <2> DEFINE yes == [kind |-> "granted", tab |-> m.tab, token |-> issued + 1]
    <2>2. /\ yes.kind = "granted" /\ yes.tab = m.tab /\ yes.token = issued + 1
          /\ net' = (net \ {m}) \union {yes} /\ issued + 1 \in live' /\ ~alarm'
          /\ UNCHANGED <<storage, page>>
      BY <1>2, <1>3, <2>1 DEF ServeRefresh
    <2> HIDE DEF yes
    <2>3. \A l \in net : l.kind = "logout" => l.token # issued + 1
      BY <1>2, Fields DEF Known, Stored, TabsTypeOK, Token
    <2> QED
      BY <1>1, <2>1, <2>2, <2>3, AnswerCareful
  <1>4. CASE ServeLogout(m)
    <2>1. /\ m.kind = "logout" /\ live' = live \ {m.token} /\ net' = net \ {m} /\ ~alarm'
          /\ UNCHANGED <<storage, page>>
      BY <1>2, <1>4 DEF ServeLogout
    <2>2. OneTab'
      BY <1>2, <2>1 DEF OneTab, Blank, Answerable
    <2>3. ASSUME NEW n \in net, n.kind = "refresh"
          PROVE  n.token \in live'
      <3>1. n.token = storage
        BY <1>1, <1>2, <2>3, OneRefreshes DEF GoodTokens
      <3> QED
        BY <1>2, <2>1, <2>3, <3>1 DEF GoodTokens
    <2>4. GoodTokens'
      BY <1>2, <2>1, <2>3 DEF GoodTokens
    <2> QED
      BY <2>2, <2>4
  <1>5. CASE Lose(m) /\ m.kind = "logout"
    <2>1. net' = net \ {m} /\ ~alarm' /\ live' = live /\ UNCHANGED <<storage, page>>
      BY <1>2, <1>5 DEF Lose
    <2>2. OneTab'
      BY <1>2, <2>1 DEF OneTab, Blank, Answerable
    <2>3. GoodTokens'
      BY <1>2, <2>1 DEF GoodTokens
    <2> QED
      BY <2>2, <2>3
  <1>6. CASE Lose(m) /\ m.kind # "logout"
    <2> DEFINE no == [kind |-> "refused", tab |-> m.tab]
    <2>1. /\ no.kind = "refused" /\ no.tab = m.tab
          /\ net' = (net \ {m}) \union {no} /\ ~alarm' /\ UNCHANGED <<storage, page>>
      BY <1>2, <1>6 DEF Lose
    <2> HIDE DEF no
    <2> QED
      BY <1>1, <1>6, <2>1, AnswerCareful
  <1>7. CASE Drop(m)
    <2>1. m \in Answerable(net) /\ m.tab = Gone
      BY <1>7 DEF Drop, Answerable
    <2> QED
      BY <1>2, <2>1 DEF OneTab
  <1> QED
    BY <1>3, <1>4, <1>5, <1>6, <1>7

LEMMA CarefulKept ==
  ASSUME BInv, [TabsNext]_tabVars, careful'
  PROVE  OneTab' /\ GoodTokens'
  <1>1. ASSUME UNCHANGED tabVars
        PROVE  OneTab' /\ GoodTokens'
    BY <1>1 DEF tabVars, server, page, BInv, OneTab, GoodTokens, Blank
  <1> QED
    BY <1>1, PeopleCareful, ScriptCareful, ServerCareful DEF TabsNext, Server

-----------------------------------------------------------------------------
(***************************************************************************)
(* The results.                                                            *)
(***************************************************************************)
LEMMA TabsStart == TabsInit => BInv
  <1> SUFFICES ASSUME TabsInit
               PROVE  BInv
    OBVIOUS
  <1>1. TabsTypeOK
    <2>1. 0 \in 0..MaxTokens /\ 0 \in 0..MaxWaiting
      BY BoundsAssumption
    <2>2. signedIn \in [Tabs -> BOOLEAN] /\ refreshing \in [Tabs -> BOOLEAN] /\ careful \in BOOLEAN
      BY DEF TabsInit
    <2> QED
      BY <2>1, <2>2 DEF TabsInit, TabsTypeOK
  <1>2. Refreshes(net) = {} /\ Answerable(net) = {}
    BY DEF TabsInit, Refreshes, Answerable
  <1>3. Counted
    BY <1>2, FS_EmptySet, BoundsAssumption DEF TabsInit, Counted
  <1>4. Known /\ Paired
    BY <1>2 DEF TabsInit, Known, Paired
  <1>5. OneTab
    BY <1>2 DEF TabsInit, OneTab, Blank
  <1>6. GoodTokens
    BY DEF TabsInit, GoodTokens
  <1> QED
    BY <1>1, <1>3, <1>4, <1>5, <1>6 DEF BInv

LEMMA TabsInvariant == TabsSpec => []BInv
  <1>1. TabsInit => BInv
    BY TabsStart
  <1>2. BInv /\ [TabsNext]_tabVars => BInv'
    BY TabsTypeKept, KnownKept, CountedKept, PairedKept, CarefulKept DEF BInv
  <1> QED
    BY <1>1, <1>2, PTL DEF TabsSpec

\* The types of a browser's tabs and messages, and the server's bound on
\* tokens, for every number of tabs and whatever is lost (services/api.ts,
\* store/useAuthStore.ts).
THEOREM TabsTypeCorrect == TabsSpec => []TabsTypeOK
  <1>1. BInv => TabsTypeOK
    BY DEF BInv
  <1> QED
    BY <1>1, TabsInvariant, PTL

\* A user who keeps to one tab and leaves it alone while it refreshes never
\* sets off the server's reuse detection: whatever the network loses, the
\* token that the interceptor presents has not been exchanged before.
THEOREM OneTabIsSafe == TabsSpec => []NoAlarmInOneTab
  <1>1. BInv => NoAlarmInOneTab
    BY DEF BInv, OneTab, NoAlarmInOneTab
  <1> QED
    BY <1>1, TabsInvariant, PTL

\* After the logout of such a user no late answer of a refresh puts a token
\* back into localStorage: only a login does.
THEOREM LoggedOutStays == TabsSpec => StaysLoggedOut
  <1>1. BInv /\ [TabsNext]_tabVars
          => [careful /\ storage = 0 /\ storage' # 0 => issued' > issued]_tabVars
    <2> SUFFICES ASSUME BInv, [TabsNext]_tabVars, careful, storage = 0, storage' # 0
                 PROVE  issued' > issued
      OBVIOUS
    <2> USE DEF server, page
    <2>1. ASSUME NEW w \in Tabs, Login(w)
          PROVE  issued' > issued
      BY <2>1 DEF Login, BInv, TabsTypeOK
    <2>2. ASSUME NEW w \in Tabs, ClickLogout(w) \/ SwitchTenant(w) \/ Reload(w)
          PROVE  FALSE
      BY <2>2 DEF ClickLogout, SwitchTenant, Reload, Logout
    <2>3. ASSUME NEW w \in Tabs, StartRefresh(w) \/ JoinQueue(w) \/ GiveUp(w)
          PROVE  FALSE
      BY <2>3 DEF StartRefresh, JoinQueue, GiveUp, Logout
    <2>4. ASSUME NEW w \in Tabs, NEW m \in net, Granted(w, m) \/ Refused(w, m)
          PROVE  FALSE
      <3>1. m.kind # "logout"
        BY <2>4 DEF Granted, Refused
      <3> QED
        BY <3>1, OneRefreshes
    <2>5. ASSUME NEW m \in net, ServeRefresh(m) \/ ServeLogout(m) \/ Lose(m) \/ Drop(m)
          PROVE  FALSE
      BY <2>5 DEF ServeRefresh, ServeLogout, Lose, Drop
    <2> QED
      BY <2>1, <2>2, <2>3, <2>4, <2>5 DEF TabsNext, People, Script, Server, tabVars
  <1> QED
    BY <1>1, TabsInvariant, PTL DEF TabsSpec, StaysLoggedOut

-----------------------------------------------------------------------------
(***************************************************************************)
(* Source lock and accept.                                                 *)
(***************************************************************************)
-----------------------------------------------------------------------------
(***************************************************************************)
(* The inductive invariant.                                                *)
(***************************************************************************)
Pcs == Waiting \union {"fill"} \union Inside \union Leaving \union {"over"}

Begun(r) == runs[r] # NotStarted

\* What a run is about to write back is the file as it was whole.
Copied == \A r \in Runs : runs[r].pc \in {"truncate", "write"} => runs[r].copy \in Blocks

\* Who is before the lock, or gave up because of it, remembers runs that were
\* dead when it began.
Remembers == \A r \in Runs : Begun(r) => runs[r].early \subseteq dead

\* A run about to create its lock has just seen, or made sure, that no run it
\* remembers holds one; no dead run takes one since.  While it asks for the owner of
\* the lock it has read, that may still be one.
Judged ==
  \A r \in Runs : lock # NoLock /\ lock.filled =>
    /\ runs[r].pc \in {"stat", "create"} => lock.owner \notin runs[r].early
    /\ runs[r].pc = "probe" => lock.owner \notin runs[r].early \/ lock.owner = runs[r].by

\* Who gave up did so for a run it does not remember.
Blames == \A r \in Runs : runs[r].pc = "over" => runs[r].by \notin runs[r].early

\* A lock is in the hands of the one run past its creation and not past its removal,
\* or of one that was killed.  Whoever asks for the owner of a lock asks for the owner
\* of this one, and whoever is about to unlink it is right.  All this as long as no run
\* was suspended, and none created a lock while another was judging one.
Holders == {"fill", "release", "drop"} \union Inside

Owned ==
  lock # NoLock =>
    /\ lock.owner \in dead \/ runs[lock.owner].pc \in Holders
    /\ lock.old => lock.owner \in dead /\ ~lock.filled

LockHeld ==
  slow = {} /\ ~met =>
    /\ ~shared
    /\ Owned
    /\ \A r \in Runs \ dead :
         /\ runs[r].pc = "probe" /\ lock # NoLock => lock.owner = runs[r].by
         /\ runs[r].pc = "unlink" /\ lock # NoLock => lock.owner \in dead
         /\ runs[r].pc \in Holders =>
              lock # NoLock /\ lock.owner = r /\ (lock.filled <=> runs[r].pc # "fill")

\* f, a whole file, is as the receipts and the runs say.
Agrees(f, told, rs) ==
  /\ \A s \in Sessions : told[s] # Undecided => f[s] = told[s]
  /\ \A r \in Runs : rs[r] # NotStarted /\ rs[r].result = "handled" => f[rs[r].s] = rs[r].choice

\* As long as the lock has kept runs apart, the one inside has in hand what the
\* file holds, or held when it emptied it, and the file is as has been said.
Exact ==
  ~shared =>
    /\ \A r1, r2 \in Critical : r1 = r2
    /\ \A r \in Critical :
         /\ runs[r].pc = "truncate" => file # Torn /\ runs[r].copy = file
         /\ runs[r].pc = "write" => file = Torn /\ Agrees(runs[r].copy, receipts, runs)
         /\ runs[r].pc \in {"truncate", "write"} => runs[r].copy[runs[r].s] = Undecided
    /\ file # Torn => Agrees(file, receipts, runs)

AInv ==
  /\ AcceptsTypeOK /\ Copied
  /\ Remembers /\ Judged /\ Blames
  /\ LockHeld
  /\ Exact
-----------------------------------------------------------------------------
(***************************************************************************)
(* What a step does to the record of its run.                              *)
(***************************************************************************)
Becomes(r, pc, early, copy, result, by) ==
  /\ runs' \in [Runs -> {NotStarted} \union Run(Pcs)]
  /\ \A q \in Runs \ {r} : runs'[q] = runs[q]
  /\ runs'[r] # NotStarted
  /\ runs'[r].pc = pc
  /\ runs'[r].s = runs[r].s /\ runs'[r].choice = runs[r].choice
  /\ runs'[r].early = early /\ runs'[r].copy = copy
  /\ runs'[r].result = result /\ runs'[r].by = by

\* A run goes on, with all it has in hand.
GoesOn(r, pc) == Becomes(r, pc, runs[r].early, runs[r].copy, runs[r].result, runs[r].by)

\* A run that does something is no empty slot.
LEMMA RunType ==
  ASSUME AcceptsTypeOK, NEW r \in Runs, runs[r].pc # "off"
  PROVE  runs[r] \in Run(Pcs) /\ Begun(r)
BY DEF AcceptsTypeOK, NotStarted, Pcs, Begun

\* The record of a run is replaced by another.
LEMMA Replaced ==
  ASSUME AcceptsTypeOK, NEW r \in Runs, NEW t \in Run(Pcs), runs' = [runs EXCEPT ![r] = t]
  PROVE  /\ runs' \in [Runs -> {NotStarted} \union Run(Pcs)]
         /\ \A q \in Runs \ {r} : runs'[q] = runs[q]
         /\ runs'[r] = t /\ runs'[r] # NotStarted
<1>1. t # NotStarted
  BY DEF Run, NotStarted
<1>2. runs \in [Runs -> {NotStarted} \union Run(Pcs)]
  BY DEF AcceptsTypeOK, Pcs
<1> QED
  BY <1>1, <1>2

LEMMA Stepping ==
  ASSUME AcceptsTypeOK, NEW r \in Runs, runs[r].pc # "off", NEW pc \in Pcs, StepTo(r, pc)
  PROVE  GoesOn(r, pc)
<1> DEFINE t == [runs[r] EXCEPT !.pc = pc]
<1>1. /\ t \in Run(Pcs) /\ t.pc = pc
      /\ t.s = runs[r].s /\ t.choice = runs[r].choice
      /\ t.early = runs[r].early /\ t.copy = runs[r].copy
      /\ t.result = runs[r].result /\ t.by = runs[r].by
  BY RunType DEF Run
<1>2. runs' = [runs EXCEPT ![r] = t]
  BY DEF StepTo
<1> HIDE DEF t
<1> QED
  BY <1>1, <1>2, Replaced DEF GoesOn, Becomes

LEMMA Answering ==
  ASSUME AcceptsTypeOK, NEW r \in Runs, runs[r].pc # "off",
         NEW result \in Results, NEW by \in Runs \union {NoLock}, AnswerWith(r, result, by)
  PROVE  Becomes(r, "over", IF by = NoLock THEN {} ELSE runs[r].early, runs[r].copy, result, by)
<1> DEFINE t == [runs[r] EXCEPT !.pc = "over", !.result = result, !.by = by, !.tries = 0,
                                !.early = IF by = NoLock THEN {} ELSE @]
<1>1. 0 \in 0..MaxTries
  BY AcceptBoundsAssumption
<1>2. /\ t \in Run(Pcs) /\ t.pc = "over"
      /\ t.s = runs[r].s /\ t.choice = runs[r].choice
      /\ t.early = (IF by = NoLock THEN {} ELSE runs[r].early) /\ t.copy = runs[r].copy
      /\ t.result = result /\ t.by = by
  BY <1>1, RunType DEF Run, Pcs
<1>3. runs' = [runs EXCEPT ![r] = t]
  BY RunType DEF AnswerWith, Run
<1> HIDE DEF t
<1> QED
  BY <1>2, <1>3, Replaced DEF Becomes

LEMMA Creating ==
  ASSUME AcceptsTypeOK, NEW r \in Runs, CreateLock(r)
  PROVE  Becomes(r, "fill", {}, runs[r].copy, runs[r].result, runs[r].by)
<1> DEFINE t == [runs[r] EXCEPT !.pc = "fill", !.tries = 0, !.early = {}]
<1>1. 0 \in 0..MaxTries /\ runs[r].pc # "off"
  BY AcceptBoundsAssumption DEF CreateLock, At
<1>2. /\ t \in Run(Pcs) /\ t.pc = "fill"
      /\ t.s = runs[r].s /\ t.choice = runs[r].choice
      /\ t.early = {} /\ t.copy = runs[r].copy
      /\ t.result = runs[r].result /\ t.by = runs[r].by
  BY <1>1, RunType DEF Run, Pcs
<1>3. runs' = [runs EXCEPT ![r] = t]
  BY <1>1, RunType DEF CreateLock, Run
<1> HIDE DEF t
<1> QED
  BY <1>2, <1>3, Replaced DEF Becomes

\* The lock names its run, which is kept until the system has been asked for it.
LEMMA Sweeps ==
  ASSUME AcceptsTypeOK, NEW r \in Runs, SweepLock(r)
  PROVE  \/ GoesOn(r, "stat") /\ ~(lock # NoLock /\ lock.filled)
         \/ /\ lock # NoLock /\ lock.filled
            /\ Becomes(r, "probe", runs[r].early, runs[r].copy, runs[r].result, lock.owner)
<1>1. runs[r].pc # "off"
  BY DEF SweepLock, At
<1>2. CASE lock # NoLock /\ lock.filled
  <2> DEFINE t == [runs[r] EXCEPT !.pc = "probe", !.by = lock.owner]
  <2>1. lock.owner \in Runs
    BY <1>2 DEF AcceptsTypeOK, Lock
  <2>2. /\ t \in Run(Pcs) /\ t.pc = "probe"
        /\ t.s = runs[r].s /\ t.choice = runs[r].choice
        /\ t.early = runs[r].early /\ t.copy = runs[r].copy
        /\ t.result = runs[r].result /\ t.by = lock.owner
    BY <1>1, <2>1, RunType DEF Run, Pcs, Waiting
  <2>3. runs' = [runs EXCEPT ![r] = t]
    BY <1>1, <1>2, RunType DEF SweepLock, Run
  <2> HIDE DEF t
  <2> QED
    BY <1>2, <2>2, <2>3, Replaced DEF Becomes
<1>3. CASE ~(lock # NoLock /\ lock.filled)
  <2>1. "stat" \in Pcs /\ StepTo(r, "stat")
    BY <1>3 DEF SweepLock, Pcs, Waiting
  <2> QED
    BY <1>1, <1>3, <2>1, Stepping
<1> QED
  BY <1>2, <1>3

LEMMA Probing ==
  ASSUME AcceptsTypeOK, NEW r \in Runs, ProbeOwner(r)
  PROVE  Becomes(r, IF Ended(runs[r].by) THEN "unlink" ELSE "create",
                 runs[r].early, runs[r].copy, runs[r].result, NoLock)
<1> DEFINE pc == IF Ended(runs[r].by) THEN "unlink" ELSE "create"
           t == [runs[r] EXCEPT !.pc = pc, !.by = NoLock]
<1>1. runs[r].pc # "off" /\ pc \in Pcs
  BY DEF ProbeOwner, At, Pcs, Waiting
<1>2. runs' = [runs EXCEPT ![r] = t]
  BY <1>1, RunType DEF ProbeOwner, Run
<1> HIDE DEF pc
<1>3. /\ t \in Run(Pcs) /\ t.pc = pc
      /\ t.s = runs[r].s /\ t.choice = runs[r].choice
      /\ t.early = runs[r].early /\ t.copy = runs[r].copy
      /\ t.result = runs[r].result /\ t.by = NoLock
  BY <1>1, RunType DEF Run
<1> HIDE DEF t
<1>4. Becomes(r, pc, runs[r].early, runs[r].copy, runs[r].result, NoLock)
  BY <1>2, <1>3, Replaced DEF Becomes
<1> QED
  BY <1>4 DEF pc

LEMMA Trying ==
  ASSUME AcceptsTypeOK, NEW r \in Runs, TryAgain(r)
  PROVE  GoesOn(r, "sweep")
<1> DEFINE t == [runs[r] EXCEPT !.pc = "sweep", !.tries = @ + 1]
<1>1. /\ runs[r].pc # "off"
      /\ runs[r].tries + 1 \in 0..MaxTries
  <2>1. runs[r].pc # "off" /\ runs[r].tries < MaxTries
    BY DEF TryAgain, At
  <2>2. runs[r].tries \in 0..MaxTries
    BY <2>1, RunType DEF Run
  <2> QED
    BY <2>1, <2>2, AcceptBoundsAssumption
<1>2. /\ t \in Run(Pcs) /\ t.pc = "sweep"
      /\ t.s = runs[r].s /\ t.choice = runs[r].choice
      /\ t.early = runs[r].early /\ t.copy = runs[r].copy
      /\ t.result = runs[r].result /\ t.by = runs[r].by
  BY <1>1, RunType DEF Run, Pcs, Waiting
<1>3. runs' = [runs EXCEPT ![r] = t]
  BY <1>1, RunType DEF TryAgain, Run
<1> HIDE DEF t
<1> QED
  BY <1>2, <1>3, Replaced DEF GoesOn, Becomes

LEMMA Reading ==
  ASSUME AcceptsTypeOK, NEW r \in Runs, ReadSource(r), Marked(runs[r].s)
  PROVE  Becomes(r, "truncate", runs[r].early, file, runs[r].result, runs[r].by)
<1> DEFINE t == [runs[r] EXCEPT !.pc = "truncate", !.copy = file]
<1>1. runs[r].pc # "off" /\ file \in Blocks
  BY DEF ReadSource, At, Marked, AcceptsTypeOK
<1>2. /\ t \in Run(Pcs) /\ t.pc = "truncate"
      /\ t.s = runs[r].s /\ t.choice = runs[r].choice
      /\ t.early = runs[r].early /\ t.copy = file
      /\ t.result = runs[r].result /\ t.by = runs[r].by
  BY <1>1, RunType DEF Run, Pcs, Inside
<1>3. runs' = [runs EXCEPT ![r] = t]
  BY <1>1, RunType DEF ReadSource, Run
<1> HIDE DEF t
<1> QED
  BY <1>2, <1>3, Replaced DEF Becomes

LEMMA Writing ==
  ASSUME AcceptsTypeOK, NEW r \in Runs, WriteSource(r)
  PROVE  Becomes(r, "release", runs[r].early, Torn, "handled", runs[r].by)
<1> DEFINE t == [runs[r] EXCEPT !.pc = "release", !.copy = Torn, !.result = "handled"]
<1>1. runs[r].pc # "off"
  BY DEF WriteSource, At
<1>2. /\ t \in Run(Pcs) /\ t.pc = "release"
      /\ t.s = runs[r].s /\ t.choice = runs[r].choice
      /\ t.early = runs[r].early /\ t.copy = Torn
      /\ t.result = "handled" /\ t.by = runs[r].by
  BY <1>1, RunType DEF Run, Pcs, Leaving, Results
<1>3. runs' = [runs EXCEPT ![r] = t]
  BY <1>1, RunType DEF WriteSource, Run
<1> HIDE DEF t
<1> QED
  BY <1>2, <1>3, Replaced DEF Becomes

\* A slot is taken: what the run begins with depends on the receipt.
LEMMA Starting ==
  ASSUME AcceptsTypeOK, NEW r \in Runs, NEW s \in Sessions, NEW c \in Decisions,
         StartAccept(r, s, c)
  PROVE  /\ runs' \in [Runs -> {NotStarted} \union Run(Pcs)]
         /\ \A q \in Runs \ {r} : runs'[q] = runs[q]
         /\ ~Begun(r) /\ runs'[r] # NotStarted
         /\ runs'[r].s = s /\ runs'[r].choice = c
         /\ runs'[r].early = dead /\ runs'[r].by = NoLock
         /\ runs'[r].pc \in {"find", "over"}
         /\ runs'[r].pc = "find" => runs'[r].result = "missing"
         /\ runs'[r].pc = "over" => \/ runs'[r].result = "handled" /\ receipts[s] = c
                                    \/ runs'[r].result = "conflict" /\ receipts[s] \notin {Undecided, c}
         /\ runs'[r].result = "handled" => receipts[s] = c
<1> DEFINE b == [pc |-> "find", s |-> s, choice |-> c, early |-> dead, tries |-> 0,
                 copy |-> Torn, result |-> "missing", by |-> NoLock]
           t == IF receipts[s] = Undecided THEN b
                ELSE [b EXCEPT !.pc = "over",
                               !.result = IF receipts[s] = c THEN "handled" ELSE "conflict"]
<1>1. 0 \in 0..MaxTries /\ dead \subseteq Runs
  BY AcceptBoundsAssumption DEF AcceptsTypeOK
<1>2. b \in Run(Pcs)
  BY <1>1 DEF Run, Pcs, Waiting, Results
<1>3. /\ t \in Run(Pcs)
      /\ t.s = s /\ t.choice = c /\ t.early = dead /\ t.by = NoLock
      /\ t.pc \in {"find", "over"} /\ (t.result = "handled" => receipts[s] = c)
      /\ t.pc = "find" => t.result = "missing"
      /\ t.pc = "over" => \/ t.result = "handled" /\ receipts[s] = c
                          \/ t.result = "conflict" /\ receipts[s] \notin {Undecided, c}
  <2>1. CASE receipts[s] = Undecided
    BY <1>2, <2>1
  <2>2. CASE receipts[s] # Undecided
    <3> DEFINE result == IF receipts[s] = c THEN "handled" ELSE "conflict"
    <3>1. t = [b EXCEPT !.pc = "over", !.result = result]
      BY <2>2
    <3>2. result \in Results /\ "over" \in Pcs
      BY DEF Results, Pcs
    <3>3. t \in Run(Pcs) /\ t.s = s /\ t.choice = c /\ t.early = dead /\ t.by = NoLock
          /\ t.pc = "over" /\ t.result = result
      <4> HIDE DEF result, t
      <4> QED
        BY <1>2, <3>1, <3>2 DEF Run
    <3> QED
      BY <2>2, <3>3
  <2> QED
    BY <2>1, <2>2
<1>4. runs' = [runs EXCEPT ![r] = t] /\ ~Begun(r)
  BY DEF StartAccept, Begun
<1> HIDE DEF t
<1> QED
  BY <1>3, <1>4, Replaced

\* All steps of a run at once.
LEMMA Effects ==
  ASSUME AcceptsTypeOK, NEW r \in Runs
  PROVE  /\ FindMarkers(r) => \/ GoesOn(r, "sweep")
                              \/ Becomes(r, "over", {}, runs[r].copy, "missing", NoLock)
         /\ SweepLock(r) =>
              \/ GoesOn(r, "stat") /\ ~(lock # NoLock /\ lock.filled)
              \/ /\ lock # NoLock /\ lock.filled
                 /\ Becomes(r, "probe", runs[r].early, runs[r].copy, runs[r].result, lock.owner)
         /\ ProbeOwner(r) =>
              Becomes(r, IF Ended(runs[r].by) THEN "unlink" ELSE "create",
                      runs[r].early, runs[r].copy, runs[r].result, NoLock)
         /\ StatLock(r) => GoesOn(r, IF lock # NoLock /\ lock.old THEN "unlink" ELSE "create")
         /\ UnlinkLock(r) => GoesOn(r, "create")
         /\ CreateLock(r) => Becomes(r, "fill", {}, runs[r].copy, runs[r].result, runs[r].by)
         /\ TryAgain(r) => GoesOn(r, "sweep")
         /\ GiveUpLock(r) =>
              \/ Becomes(r, "over", {}, runs[r].copy, "locked", NoLock)
              \/ /\ lock # NoLock /\ lock.filled
                 /\ Becomes(r, "over", runs[r].early, runs[r].copy, "locked", lock.owner)
         /\ FillLock(r) => GoesOn(r, "read")
         /\ ReadSource(r) =>
              \/ GoesOn(r, "release")
              \/ /\ Marked(runs[r].s)
                 /\ Becomes(r, "truncate", runs[r].early, file, runs[r].result, runs[r].by)
         /\ TruncateSource(r) => GoesOn(r, "write")
         /\ WriteSource(r) => Becomes(r, "release", runs[r].early, Torn, "handled", runs[r].by)
         /\ ReleaseLock(r) => GoesOn(r, "receipt") \/ GoesOn(r, "drop")
         /\ DropLock(r) => GoesOn(r, "receipt")
         /\ WriteReceipt(r) => Becomes(r, "over", {}, runs[r].copy, runs[r].result, NoLock)
<1> USE DEF At, Pcs, Waiting, Inside, Leaving
<1>1. FindMarkers(r) => \/ GoesOn(r, "sweep")
                       \/ Becomes(r, "over", {}, runs[r].copy, "missing", NoLock)
  BY Stepping, Answering DEF FindMarkers, Ends, Results
<1>2. StatLock(r) => GoesOn(r, IF lock # NoLock /\ lock.old THEN "unlink" ELSE "create")
  BY Stepping DEF StatLock
<1>3. UnlinkLock(r) => GoesOn(r, "create")
  BY Stepping DEF UnlinkLock
<1>4. GiveUpLock(r) =>
        \/ Becomes(r, "over", {}, runs[r].copy, "locked", NoLock)
        \/ /\ lock # NoLock /\ lock.filled
           /\ Becomes(r, "over", runs[r].early, runs[r].copy, "locked", lock.owner)
  <2> SUFFICES ASSUME GiveUpLock(r)
               PROVE  \/ Becomes(r, "over", {}, runs[r].copy, "locked", NoLock)
                      \/ /\ lock # NoLock /\ lock.filled
                         /\ Becomes(r, "over", runs[r].early, runs[r].copy, "locked", lock.owner)
    OBVIOUS
  <2>1. /\ lock # NoLock /\ lock.owner \in Runs
        /\ "locked" \in Results /\ runs[r].pc # "off"
    BY DEF GiveUpLock, AcceptsTypeOK, Lock, Results
  <2>2. CASE lock.filled
    <3>1. lock.owner # NoLock /\ AnswerWith(r, "locked", lock.owner)
      BY <2>1, <2>2, MarksAssumption DEF GiveUpLock
    <3> QED
      BY <2>1, <2>2, <3>1, Answering
  <2>3. CASE ~lock.filled
    <3>1. AnswerWith(r, "locked", NoLock)
      BY <2>3 DEF GiveUpLock
    <3> QED
      BY <2>1, <3>1, Answering
  <2> QED
    BY <2>2, <2>3
<1>5. FillLock(r) => GoesOn(r, "read")
  BY Stepping DEF FillLock
<1>6. ReadSource(r) =>
        \/ GoesOn(r, "release")
        \/ /\ Marked(runs[r].s)
           /\ Becomes(r, "truncate", runs[r].early, file, runs[r].result, runs[r].by)
  BY Stepping, Reading DEF ReadSource
<1>7. TruncateSource(r) => GoesOn(r, "write")
  BY Stepping DEF TruncateSource
<1>8. ReleaseLock(r) => GoesOn(r, "receipt") \/ GoesOn(r, "drop")
  BY Stepping DEF ReleaseLock
<1>9. DropLock(r) => GoesOn(r, "receipt")
  BY Stepping DEF DropLock
<1>10. WriteReceipt(r) => Becomes(r, "over", {}, runs[r].copy, runs[r].result, NoLock)
  <2> SUFFICES ASSUME WriteReceipt(r)
               PROVE  Becomes(r, "over", {}, runs[r].copy, runs[r].result, NoLock)
    OBVIOUS
  <2>1. runs[r].pc # "off" /\ AnswerWith(r, runs[r].result, NoLock)
    BY DEF WriteReceipt, Ends, Outcome
  <2>2. runs[r].result \in Results
    BY <2>1, RunType DEF Run
  <2> QED
    BY <2>1, <2>2, Answering
<1> QED
  BY <1>1, <1>2, <1>3, <1>4, <1>5, <1>6, <1>7, <1>8, <1>9, <1>10, Sweeps, Probing, Creating, Trying, Writing
-----------------------------------------------------------------------------
(***************************************************************************)
(* Types, and what a run has in hand when it writes.                       *)
(***************************************************************************)
LEMMA TypeKept ==
  ASSUME AcceptsTypeOK, Copied, [AcceptsNext]_acceptVars
  PROVE  AcceptsTypeOK' /\ Copied'
<1> USE DEF Lock, At
<1>1. /\ file \in Blocks \union {Torn}
      /\ lock \in Lock \union {NoLock}
      /\ receipts \in Blocks
      /\ runs \in [Runs -> {NotStarted} \union Run(Pcs)]
      /\ dead \subseteq Runs /\ slow \subseteq Runs /\ shared \in BOOLEAN /\ met \in BOOLEAN
  BY DEF AcceptsTypeOK, Pcs
<1>2. ASSUME NEW r \in Runs, NEW s \in Sessions, NEW c \in Decisions, StartAccept(r, s, c)
      PROVE  AcceptsTypeOK' /\ Copied'
  <2>1. UNCHANGED <<file, lock, receipts, dead, slow, shared, met>>
    BY <1>2 DEF StartAccept
  <2>2. /\ runs' \in [Runs -> {NotStarted} \union Run(Pcs)]
        /\ \A q \in Runs \ {r} : runs'[q] = runs[q]
        /\ runs'[r].pc \in {"find", "over"}
    BY <1>2, Starting
  <2>3. AcceptsTypeOK'
    BY <1>1, <2>1, <2>2 DEF AcceptsTypeOK, Pcs
  <2>4. Copied'
    BY <2>2 DEF Copied
  <2> QED
    BY <2>3, <2>4
<1>3. ASSUME NEW r \in Runs,
             FindMarkers(r) \/ SweepLock(r) \/ ProbeOwner(r) \/ StatLock(r) \/ TryAgain(r) \/ GiveUpLock(r)
               \/ ReleaseLock(r)
      PROVE  AcceptsTypeOK' /\ Copied'
  <2>1. UNCHANGED <<file, lock, receipts, dead, slow, shared, met>>
    BY <1>3 DEF FindMarkers, SweepLock, ProbeOwner, StatLock, TryAgain, GiveUpLock, ReleaseLock
  <2>2. /\ runs' \in [Runs -> {NotStarted} \union Run(Pcs)]
        /\ \A q \in Runs \ {r} : runs'[q] = runs[q]
        /\ runs'[r].pc \notin {"truncate", "write"}
    BY <1>3, Effects DEF GoesOn, Becomes
  <2>3. AcceptsTypeOK'
    BY <1>1, <2>1, <2>2 DEF AcceptsTypeOK, Pcs
  <2>4. Copied'
    BY <2>2 DEF Copied
  <2> QED
    BY <2>3, <2>4
<1>4. ASSUME NEW r \in Runs, UnlinkLock(r) \/ CreateLock(r) \/ FillLock(r) \/ DropLock(r)
      PROVE  AcceptsTypeOK' /\ Copied'
  <2>1. lock' \in Lock \union {NoLock} /\ shared' \in BOOLEAN /\ met' \in BOOLEAN
    <3>1. CASE FillLock(r)
      <4>1. lock' \in Lock \union {NoLock}
        BY <1>1, <3>1 DEF FillLock
      <4>2. shared' \in BOOLEAN
        BY <1>1, <3>1, Zenon DEF FillLock
      <4>3. met' = met
        BY <3>1 DEF FillLock
      <4> QED
        BY <1>1, <4>1, <4>2, <4>3
    <3>2. CASE UnlinkLock(r) \/ CreateLock(r) \/ DropLock(r)
      <4>1. lock' = NoLock \/ lock' = [owner |-> r, filled |-> FALSE, old |-> FALSE]
        BY <3>2 DEF UnlinkLock, CreateLock, DropLock
      <4>2. shared' = shared
        BY <3>2 DEF UnlinkLock, CreateLock, DropLock
      <4>3. [owner |-> r, filled |-> FALSE, old |-> FALSE] \in Lock
        BY Zenon
      <4>4. lock' \in Lock \union {NoLock}
        BY <4>1, <4>3
      <4>5. met' \in BOOLEAN
        BY <1>1, <3>2, Zenon DEF UnlinkLock, CreateLock, DropLock
      <4> QED
        BY <1>1, <4>2, <4>4, <4>5
    <3> QED
      BY <1>4, <3>1, <3>2
  <2> QED
    BY <1>1, <1>4, <2>1, Effects
       DEF UnlinkLock, CreateLock, FillLock, DropLock, GoesOn, Becomes, AcceptsTypeOK, Copied, Pcs
<1>5. ASSUME NEW r \in Runs, ReadSource(r)
      PROVE  AcceptsTypeOK' /\ Copied'
  <2>1. UNCHANGED <<file, lock, receipts, dead, slow, shared, met>>
    BY <1>5 DEF ReadSource
  <2>2. CASE GoesOn(r, "release")
    BY <1>1, <2>1, <2>2 DEF GoesOn, Becomes, AcceptsTypeOK, Copied, Pcs
  <2>3. CASE /\ Marked(runs[r].s)
             /\ Becomes(r, "truncate", runs[r].early, file, runs[r].result, runs[r].by)
    <3>1. file \in Blocks
      BY <1>1, <2>3 DEF Marked
    <3> QED
      BY <1>1, <2>1, <2>3, <3>1 DEF Becomes, AcceptsTypeOK, Copied, Pcs
  <2> QED
    BY <1>5, <2>2, <2>3, Effects
<1>6. ASSUME NEW r \in Runs, TruncateSource(r)
      PROVE  AcceptsTypeOK' /\ Copied'
  BY <1>1, <1>6, Effects DEF TruncateSource, GoesOn, Becomes, AcceptsTypeOK, Copied, Pcs
<1>7. ASSUME NEW r \in Runs, WriteSource(r)
      PROVE  AcceptsTypeOK' /\ Copied'
  <2>1. runs[r].copy \in Blocks /\ runs[r].s \in Sessions /\ runs[r].choice \in Decisions
    BY <1>7, RunType DEF WriteSource, Copied, Run
  <2>2. file' \in Blocks
    BY <1>7, <2>1 DEF WriteSource, Blocks
  <2>3. /\ Becomes(r, "release", runs[r].early, Torn, "handled", runs[r].by)
        /\ UNCHANGED <<lock, receipts, dead, slow, shared, met>>
    BY <1>7, Effects DEF WriteSource
  <2>4. Copied'
    BY <1>1, <2>3 DEF Becomes, Copied
  <2> QED
    BY <1>1, <2>2, <2>3, <2>4 DEF Becomes, AcceptsTypeOK, Pcs
<1>8. ASSUME NEW r \in Runs, WriteReceipt(r)
      PROVE  AcceptsTypeOK' /\ Copied'
  <2>1. runs[r].s \in Sessions /\ runs[r].choice \in Decisions
    BY <1>8, RunType DEF WriteReceipt, Run
  <2>2. receipts' \in Blocks
    BY <1>1, <1>8, <2>1 DEF WriteReceipt, Blocks
  <2> QED
    BY <1>1, <1>8, <2>2, Effects DEF WriteReceipt, GoesOn, Becomes, AcceptsTypeOK, Copied, Pcs
<1>9. ASSUME NEW r \in Runs, Die(r)
      PROVE  AcceptsTypeOK' /\ Copied'
  BY <1>1, <1>9 DEF Die, AcceptsTypeOK, Copied, Pcs
<1>10. ASSUME GrowOld
       PROVE  AcceptsTypeOK' /\ Copied'
  <2>1. lock' \in Lock /\ slow' \subseteq Runs
    BY <1>1, <1>10, MarksAssumption DEF GrowOld
  <2> QED
    BY <1>1, <1>10, <2>1 DEF GrowOld, AcceptsTypeOK, Copied, Pcs
<1>11. CASE UNCHANGED acceptVars
  BY <1>1, <1>11 DEF acceptVars, AcceptsTypeOK, Copied, Pcs
<1> QED
  BY <1>2, <1>3, <1>4, <1>5, <1>6, <1>7, <1>8, <1>9, <1>10, <1>11 DEF AcceptsNext

-----------------------------------------------------------------------------
(***************************************************************************)
(* Who gives up, and because of whom.                                      *)
(***************************************************************************)
LEMMA CauseKept ==
  ASSUME AcceptsTypeOK, Remembers, Judged, Blames, [AcceptsNext]_acceptVars
  PROVE  Remembers' /\ Judged' /\ Blames'
<1> USE DEF At, Begun, Lock
<1>1. /\ lock \in Lock \union {NoLock}
      /\ runs \in [Runs -> {NotStarted} \union Run(Pcs)]
      /\ dead \subseteq Runs
      /\ NoLock \notin Runs
  BY MarksAssumption DEF AcceptsTypeOK, Pcs
<1>2. \A r \in Runs : runs[r].pc # "off" => Begun(r)
  BY RunType
<1>3. ASSUME NEW r \in Runs, NEW s \in Sessions, NEW c \in Decisions, StartAccept(r, s, c)
      PROVE  Remembers' /\ Judged' /\ Blames'
  <2>1. lock' = lock /\ dead' = dead
    BY <1>3 DEF StartAccept
  <2> QED
    BY <1>1, <1>3, <2>1, Starting DEF Remembers, Judged, Blames
<1>4. ASSUME NEW r \in Runs,
             FindMarkers(r) \/ TryAgain(r) \/ TruncateSource(r) \/ WriteSource(r)
               \/ ReadSource(r) \/ ReleaseLock(r) \/ WriteReceipt(r)
      PROVE  Remembers' /\ Judged' /\ Blames'
  <2>1. lock' = lock /\ dead' = dead /\ Begun(r)
    BY <1>2, <1>4 DEF FindMarkers, TryAgain, TruncateSource, WriteSource, ReadSource, ReleaseLock, WriteReceipt
  <2>2. /\ \A q \in Runs \ {r} : runs'[q] = runs[q]
        /\ runs'[r].pc \notin {"create", "stat", "probe"}
        /\ runs'[r].early \in {{}, runs[r].early}
        /\ runs'[r].pc = "over" => runs'[r].by = NoLock
    BY <1>4, Effects DEF GoesOn, Becomes
  <2>3. runs'[r].early \subseteq dead
    BY <2>1, <2>2 DEF Remembers
  <2>4. Remembers'
    BY <2>1, <2>2, <2>3 DEF Remembers
  <2>5. Judged'
    BY <2>1, <2>2 DEF Judged
  <2>6. Blames'
    BY <1>1, <2>2, <2>3 DEF Blames
  <2> QED
    BY <2>4, <2>5, <2>6
<1>5. ASSUME NEW r \in Runs, SweepLock(r) \/ ProbeOwner(r) \/ StatLock(r)
      PROVE  Remembers' /\ Judged' /\ Blames'
  <2>1. lock' = lock /\ dead' = dead /\ Begun(r)
    BY <1>2, <1>5 DEF SweepLock, ProbeOwner, StatLock
  <2>2. runs[r].early \subseteq dead
    BY <2>1 DEF Remembers
  <2>3. CASE SweepLock(r)
    BY <1>1, <2>1, <2>2, <2>3, Effects DEF GoesOn, Becomes, Remembers, Judged, Blames
  <2>4. CASE ProbeOwner(r)
    <3>1. runs[r].pc = "probe" /\ (Ended(runs[r].by) \/ runs[r].by \notin runs[r].early)
      BY <2>2, <2>4 DEF ProbeOwner, Ended
    <3>2. /\ \A q \in Runs \ {r} : runs'[q] = runs[q]
          /\ runs'[r].pc = IF Ended(runs[r].by) THEN "unlink" ELSE "create"
          /\ runs'[r].early = runs[r].early
      BY <2>4, Effects DEF Becomes
    <3>3. Remembers'
      BY <2>1, <2>2, <3>2 DEF Remembers
    <3>4. Judged'
      BY <2>1, <3>1, <3>2 DEF Judged
    <3>5. Blames'
      BY <3>2 DEF Blames
    <3> QED
      BY <3>3, <3>4, <3>5
  <2>5. CASE StatLock(r)
    BY <1>1, <2>1, <2>2, <2>5, Effects DEF StatLock, GoesOn, Becomes, Remembers, Judged, Blames
  <2> QED
    BY <1>5, <2>3, <2>4, <2>5
<1>6. ASSUME NEW r \in Runs, UnlinkLock(r) \/ DropLock(r)
      PROVE  Remembers' /\ Judged' /\ Blames'
  <2>1. lock' = NoLock /\ dead' = dead /\ Begun(r)
    BY <1>2, <1>6 DEF UnlinkLock, DropLock
  <2> QED
    BY <1>1, <1>6, <2>1, Effects DEF GoesOn, Becomes, Remembers, Judged, Blames
<1>7. ASSUME NEW r \in Runs, CreateLock(r)
      PROVE  Remembers' /\ Judged' /\ Blames'
  <2>1. ~lock'.filled /\ dead' = dead /\ Begun(r)
    BY <1>2, <1>7 DEF CreateLock
  <2> QED
    BY <1>1, <1>7, <2>1, Effects DEF Becomes, Remembers, Judged, Blames
<1>8. ASSUME NEW r \in Runs, GiveUpLock(r)
      PROVE  Remembers' /\ Judged' /\ Blames'
  <2>1. lock' = lock /\ dead' = dead /\ Begun(r) /\ runs[r].pc = "create"
    BY <1>2, <1>8 DEF GiveUpLock
  <2> QED
    BY <1>1, <1>8, <2>1, Effects DEF Becomes, Remembers, Judged, Blames
<1>9. ASSUME NEW r \in Runs, FillLock(r)
      PROVE  Remembers' /\ Judged' /\ Blames'
  <2>1. r \notin dead /\ dead' = dead /\ Begun(r) /\ GoesOn(r, "read")
    BY <1>2, <1>9, Effects DEF FillLock
  <2>2. \A q \in Runs \ {r} : lock' # NoLock /\ lock'.filled =>
          \/ lock # NoLock /\ lock.filled /\ lock'.owner = lock.owner
          \/ lock'.owner \notin dead
    BY <1>1, <1>9, <2>1 DEF FillLock
  <2>3. \A q \in Runs \ {r} : runs[q].pc # "off" => runs[q].early \subseteq dead
    BY <1>2 DEF Remembers
  <2> QED
    BY <1>1, <2>1, <2>2, <2>3 DEF GoesOn, Becomes, Remembers, Judged, Blames
<1>10. ASSUME NEW r \in Runs, Die(r)
       PROVE  Remembers' /\ Judged' /\ Blames'
  BY <1>10 DEF Die, Remembers, Judged, Blames
<1>11. ASSUME GrowOld
       PROVE  Remembers' /\ Judged' /\ Blames'
  <2>1. /\ lock # NoLock /\ lock'.filled = lock.filled /\ lock'.owner = lock.owner
        /\ dead' = dead /\ runs' = runs
    BY <1>1, <1>11 DEF GrowOld
  <2> QED
    BY <2>1 DEF Remembers, Judged, Blames
<1>12. CASE UNCHANGED acceptVars
  BY <1>12 DEF acceptVars, Remembers, Judged, Blames
<1> QED
  BY <1>3, <1>4, <1>5, <1>6, <1>7, <1>8, <1>9, <1>10, <1>11, <1>12 DEF AcceptsNext
-----------------------------------------------------------------------------
(***************************************************************************)
(* The lock is where it belongs, unless somebody was suspended, or a lock  *)
(* was created while another one was being judged.                         *)
(***************************************************************************)
LEMMA HeldKept ==
  ASSUME AcceptsTypeOK, LockHeld, [AcceptsNext]_acceptVars
  PROVE  LockHeld'
<1> USE DEF At, Begun, Lock, Holders, Inside
<1>1. /\ lock \in Lock \union {NoLock}
      /\ runs \in [Runs -> {NotStarted} \union Run(Pcs)]
      /\ NoLock \notin Runs /\ NoLock \notin Lock
      /\ dead \subseteq Runs
  BY MarksAssumption DEF AcceptsTypeOK, Pcs
<1>2. slow \subseteq slow' /\ (met => met')
  <2>1. slow \subseteq slow'
    BY DEF AcceptsNext, acceptVars, StartAccept, FindMarkers, SweepLock, ProbeOwner, StatLock, UnlinkLock,
           CreateLock, TryAgain, GiveUpLock, FillLock, ReadSource, TruncateSource, WriteSource, ReleaseLock,
           DropLock, WriteReceipt, Die, GrowOld
  <2>2. ASSUME NEW r \in Runs, CreateLock(r)
        PROVE  met => met'
    BY <2>2, Zenon DEF CreateLock
  <2>3. (\E r \in Runs : CreateLock(r)) \/ met' = met
    BY DEF AcceptsNext, acceptVars, StartAccept, FindMarkers, SweepLock, ProbeOwner, StatLock, UnlinkLock,
           TryAgain, GiveUpLock, FillLock, ReadSource, TruncateSource, WriteSource, ReleaseLock,
           DropLock, WriteReceipt, Die, GrowOld
  <2> QED
    BY <2>1, <2>2, <2>3
<1> SUFFICES ASSUME slow' = {}, ~met'
             PROVE  LockHeld'
  BY DEF LockHeld
<1>3. /\ ~shared
      /\ lock # NoLock =>
           /\ lock.owner \in Runs
           /\ lock.owner \in dead \/ runs[lock.owner].pc \in Holders
           /\ lock.old => lock.owner \in dead /\ ~lock.filled
      /\ \A r \in Runs \ dead :
           /\ runs[r].pc = "probe" /\ lock # NoLock => lock.owner = runs[r].by
           /\ runs[r].pc = "unlink" /\ lock # NoLock => lock.owner \in dead
           /\ runs[r].pc \in Holders =>
                lock # NoLock /\ lock.owner = r /\ (lock.filled <=> runs[r].pc # "fill")
  BY <1>1, <1>2 DEF LockHeld, Owned
<1>4. ASSUME NEW r \in Runs, NEW s \in Sessions, NEW c \in Decisions, StartAccept(r, s, c)
      PROVE  LockHeld'
  <2>1. UNCHANGED <<lock, shared, dead>> /\ runs[r].pc \notin Holders
    BY <1>4 DEF StartAccept, NotStarted
  <2> QED
    BY <1>3, <1>4, <2>1, Starting DEF LockHeld, Owned
<1>5. ASSUME NEW r \in Runs, FindMarkers(r) \/ TryAgain(r) \/ GiveUpLock(r) \/ WriteReceipt(r)
      PROVE  LockHeld'
  <2>1. UNCHANGED <<lock, shared, dead>> /\ runs[r].pc \notin Holders
    BY <1>5 DEF FindMarkers, TryAgain, GiveUpLock, WriteReceipt
  <2> QED
    BY <1>3, <1>5, <2>1, Effects DEF GoesOn, Becomes, LockHeld, Owned
<1>6. ASSUME NEW r \in Runs, SweepLock(r) \/ ProbeOwner(r) \/ StatLock(r)
      PROVE  LockHeld'
  <2>1. UNCHANGED <<lock, shared, dead>> /\ runs[r].pc \notin Holders /\ r \notin dead
    BY <1>6 DEF SweepLock, ProbeOwner, StatLock
  <2>2. CASE SweepLock(r)
    BY <1>3, <2>1, <2>2, Effects DEF GoesOn, Becomes, LockHeld, Owned
  <2>3. CASE ProbeOwner(r)
    <3>1. runs[r].pc = "probe"
      BY <2>3 DEF ProbeOwner
    <3>2. Ended(runs[r].by) /\ lock # NoLock => lock.owner \in dead
      BY <1>3, <2>1, <3>1 DEF Ended
    <3> QED
      BY <1>3, <2>1, <2>3, <3>2, Effects DEF Becomes, LockHeld, Owned
  <2>4. CASE StatLock(r)
    BY <1>3, <2>1, <2>4, Effects DEF GoesOn, Becomes, LockHeld, Owned
  <2> QED
    BY <1>6, <2>2, <2>3, <2>4
<1>7. ASSUME NEW r \in Runs, UnlinkLock(r)
      PROVE  LockHeld'
  <2>1. /\ lock' = NoLock /\ UNCHANGED <<shared, dead>>
        /\ r \notin dead /\ runs[r].pc = "unlink"
    BY <1>7 DEF UnlinkLock
  <2>2. \A q \in Runs \ dead : runs[q].pc \notin Holders
    BY <1>3, <2>1
  <2> QED
    BY <1>3, <1>7, <2>1, <2>2, Effects DEF GoesOn, Becomes, LockHeld, Owned
<1>8. ASSUME NEW r \in Runs, CreateLock(r)
      PROVE  LockHeld'
  <2>1. /\ lock = NoLock /\ UNCHANGED <<shared, dead>>
        /\ lock' # NoLock /\ lock'.owner = r /\ ~lock'.filled /\ ~lock'.old
    <3>1. /\ lock' = [owner |-> r, filled |-> FALSE, old |-> FALSE] /\ lock = NoLock
          /\ UNCHANGED <<shared, dead>>
      BY <1>8 DEF CreateLock
    <3>2. lock' \in Lock
      <4>1. [owner |-> r, filled |-> FALSE, old |-> FALSE] \in Lock
        BY Zenon
      <4> QED
        BY <3>1, <4>1
    <3> QED
      BY <3>1, <3>2, MarksAssumption
  <2>2. \A q \in Runs \ dead : runs[q].pc \notin {"probe", "unlink"}
    BY <1>8 DEF CreateLock, Sweeping
  <2> QED
    BY <1>3, <1>8, <2>1, <2>2, Effects DEF Becomes, LockHeld, Owned
<1>9. ASSUME NEW r \in Runs, FillLock(r)
      PROVE  LockHeld'
  <2>1. lock # NoLock /\ lock.owner = r /\ r \notin dead /\ UNCHANGED dead
    BY <1>3, <1>9 DEF FillLock
  <2>2. lock' # NoLock /\ lock'.owner = r /\ lock'.filled /\ ~lock'.old
    <3>1. lock' = [lock EXCEPT !.filled = TRUE, !.old = FALSE]
      BY <1>9, <2>1 DEF FillLock
    <3>2. lock' \in Lock
      BY <1>1, <2>1, <3>1
    <3> QED
      BY <1>1, <2>1, <3>1, <3>2, MarksAssumption
  <2>3. Critical = {}
    BY <1>3, <1>9, <2>1 DEF Critical, FillLock
  <2>4. ~shared'
    BY <1>3, <1>9, <2>3 DEF FillLock
  <2> QED
    BY <1>3, <1>9, <2>1, <2>2, <2>4, Effects DEF GoesOn, Becomes, LockHeld, Owned
<1>10. ASSUME NEW r \in Runs, ReadSource(r) \/ TruncateSource(r) \/ WriteSource(r)
       PROVE  LockHeld'
  <2>1. UNCHANGED <<lock, shared, dead>> /\ runs[r].pc \in Inside /\ r \notin dead
    BY <1>10 DEF ReadSource, TruncateSource, WriteSource
  <2>2. /\ \A q \in Runs \ {r} : runs'[q] = runs[q]
        /\ runs'[r].pc \in {"release"} \union Inside
    BY <1>10, Effects DEF GoesOn, Becomes
  <2> QED
    BY <1>3, <2>1, <2>2 DEF LockHeld, Owned
<1>11. ASSUME NEW r \in Runs, ReleaseLock(r)
       PROVE  LockHeld'
  <2>1. /\ UNCHANGED <<lock, shared, dead>> /\ runs[r].pc = "release" /\ r \notin dead
        /\ lock.owner = r
    BY <1>3, <1>11 DEF ReleaseLock
  <2>2. GoesOn(r, "drop")
    BY <1>11, <2>1, Stepping DEF ReleaseLock, Pcs, Leaving
  <2> QED
    BY <1>3, <2>1, <2>2 DEF GoesOn, Becomes, LockHeld, Owned
<1>12. ASSUME NEW r \in Runs, DropLock(r)
       PROVE  LockHeld'
  <2>1. /\ lock' = NoLock /\ UNCHANGED <<shared, dead>> /\ runs[r].pc = "drop" /\ r \notin dead
    BY <1>12 DEF DropLock
  <2> QED
    BY <1>3, <1>12, <2>1, Effects DEF GoesOn, Becomes, LockHeld, Owned
<1>13. ASSUME NEW r \in Runs, Die(r)
       PROVE  LockHeld'
  <2>1. UNCHANGED <<lock, shared, runs>> /\ dead' = dead \union {r}
    BY <1>13 DEF Die
  <2> QED
    BY <1>3, <2>1 DEF LockHeld, Owned
<1>14. ASSUME GrowOld
       PROVE  LockHeld'
  <2>1. /\ lock # NoLock /\ UNCHANGED <<shared, runs, dead>>
        /\ lock' = [lock EXCEPT !.old = TRUE]
        /\ ~lock.filled /\ lock.owner \in dead
    BY <1>3, <1>14 DEF GrowOld
  <2>2. lock' \in Lock /\ lock' # NoLock /\ lock'.owner = lock.owner /\ lock'.filled = lock.filled
    BY <1>1, <2>1
  <2> QED
    BY <1>3, <2>1, <2>2 DEF LockHeld, Owned
<1>15. CASE UNCHANGED acceptVars
  BY <1>3, <1>15 DEF acceptVars, LockHeld, Owned
<1> QED
  BY <1>4, <1>5, <1>6, <1>7, <1>8, <1>9, <1>10, <1>11, <1>12, <1>13, <1>14, <1>15 DEF AcceptsNext

-----------------------------------------------------------------------------
(***************************************************************************)
(* What is reported is what the file holds.                                *)
(***************************************************************************)

\* A step by which no run is handled and no receipt is written spoils no copy.
LEMMA AgreesStill ==
  ASSUME NEW f, NEW told, NEW rs, NEW rt, Agrees(f, told, rs),
         \A r \in Runs : rt[r] # NotStarted /\ rt[r].result = "handled" =>
           \/ /\ rs[r] # NotStarted /\ rs[r].result = "handled"
              /\ rt[r].s = rs[r].s /\ rt[r].choice = rs[r].choice
           \/ f[rt[r].s] = rt[r].choice
  PROVE  Agrees(f, told, rt)
BY DEF Agrees
\* A step outside the critical section, by which nobody is handled anew but
\* with what the receipt says.
LEMMA ExactOutside ==
  ASSUME AcceptsTypeOK, Exact, NEW r \in Runs,
         UNCHANGED <<file, receipts, shared>>, dead \subseteq dead',
         \A q \in Runs \ {r} : runs'[q] = runs[q],
         runs[r].pc \notin Inside, runs'[r].pc \notin Inside,
         runs'[r] # NotStarted /\ runs'[r].result = "handled" =>
           \/ /\ Begun(r) /\ runs[r].result = "handled"
              /\ runs'[r].s = runs[r].s /\ runs'[r].choice = runs[r].choice
           \/ /\ runs'[r].s \in Sessions /\ runs'[r].choice # Undecided
              /\ receipts[runs'[r].s] = runs'[r].choice
  PROVE  Exact'
<1> SUFFICES ASSUME ~shared
             PROVE  Exact'
  BY DEF Exact
<1>1. Critical' \subseteq Critical /\ \A q \in Critical' : runs'[q] = runs[q]
  BY DEF Critical
<1>2. ASSUME NEW f, Agrees(f, receipts, runs)
      PROVE  Agrees(f, receipts', runs')
  <2>1. \A q \in Runs : runs'[q] # NotStarted /\ runs'[q].result = "handled" =>
           \/ /\ runs[q] # NotStarted /\ runs[q].result = "handled"
              /\ runs'[q].s = runs[q].s /\ runs'[q].choice = runs[q].choice
           \/ f[runs'[q].s] = runs'[q].choice
    BY <1>2 DEF Agrees, Begun
  <2> QED
    BY <1>2, <2>1 DEF Agrees
<1> QED
  BY <1>1, <1>2 DEF Exact

LEMMA ExactKept ==
  ASSUME AcceptsTypeOK, Copied, Exact, [AcceptsNext]_acceptVars
  PROVE  Exact'
<1> USE DEF At, Begun
<1>1. /\ runs \in [Runs -> {NotStarted} \union Run(Pcs)]
      /\ receipts \in Blocks
  BY DEF AcceptsTypeOK, Pcs
<1>2. ASSUME NEW r \in Runs, NEW s \in Sessions, NEW c \in Decisions, StartAccept(r, s, c)
      PROVE  Exact'
  <2>1. UNCHANGED <<file, receipts, shared, dead>> /\ c # Undecided /\ runs[r].pc \notin Inside
    BY <1>2, MarksAssumption DEF StartAccept, NotStarted, Inside
  <2>2. runs'[r].pc \notin Inside
    BY <1>2, Starting DEF Inside
  <2> QED
    BY <1>2, <2>1, <2>2, Starting, ExactOutside
<1>3. ASSUME NEW r \in Runs,
             FindMarkers(r) \/ SweepLock(r) \/ ProbeOwner(r) \/ StatLock(r) \/ UnlinkLock(r) \/ CreateLock(r) \/ TryAgain(r)
               \/ GiveUpLock(r) \/ ReleaseLock(r) \/ DropLock(r)
      PROVE  Exact'
  <2>1. /\ UNCHANGED <<file, receipts, shared, dead>>
        /\ runs[r].pc \notin Inside \union {"off"}
    BY <1>3 DEF FindMarkers, SweepLock, ProbeOwner, StatLock, UnlinkLock, CreateLock, TryAgain, GiveUpLock, ReleaseLock, DropLock,
                Inside
  <2>2. /\ \A q \in Runs \ {r} : runs'[q] = runs[q]
        /\ runs'[r].pc \notin Inside
        /\ runs'[r].s = runs[r].s /\ runs'[r].choice = runs[r].choice
        /\ runs'[r].result \in {runs[r].result, "missing", "locked"}
    BY <1>3, Effects DEF GoesOn, Becomes, Inside
  <2> QED
    BY <2>1, <2>2, RunType, ExactOutside
<1>4. ASSUME NEW r \in Runs, FillLock(r)
      PROVE  Exact'
  <2> SUFFICES ASSUME ~shared'
               PROVE  Exact'
    BY DEF Exact
  <2>1. /\ ~shared /\ Critical = {} /\ UNCHANGED <<file, receipts, dead>>
        /\ runs[r].pc # "off" /\ GoesOn(r, "read")
    BY <1>4, Effects DEF FillLock
  <2>2. Critical' \subseteq {r} /\ runs'[r].pc = "read"
    BY <2>1 DEF Critical, GoesOn, Becomes
  <2>3. ASSUME Agrees(file, receipts, runs)
        PROVE  Agrees(file', receipts', runs')
    BY <2>1, <2>3, RunType DEF GoesOn, Becomes, Agrees
  <2> QED
    BY <2>1, <2>2, <2>3 DEF Exact
<1>5. ASSUME NEW r \in Runs, ReadSource(r) \/ TruncateSource(r)
      PROVE  Exact'
  <2> SUFFICES ASSUME ~shared
               PROVE  Exact'
    BY <1>5 DEF Exact, ReadSource, TruncateSource
  <2>1. /\ UNCHANGED <<receipts, dead>> /\ r \in Critical /\ Begun(r)
        /\ \A q \in Critical : q = r
    BY <1>5, RunType DEF ReadSource, TruncateSource, Exact, Critical, Inside
  <2>2. \E pc \in Pcs : \E copy : Becomes(r, pc, runs[r].early, copy, runs[r].result, runs[r].by)
    BY <1>5, Effects DEF GoesOn, Pcs, Inside, Leaving
  <2>3. ASSUME NEW f, Agrees(f, receipts, runs)
        PROVE  Agrees(f, receipts', runs')
    BY <2>1, <2>2, <2>3 DEF Becomes, Agrees
  <2>4. Critical' \subseteq {r}
    BY <2>1, <2>2 DEF Becomes, Critical
  <2>5. CASE ReadSource(r)
    <3>1. file' = file /\ (file # Torn => Agrees(file, receipts, runs))
      BY <2>5 DEF ReadSource, Exact
    <3>2. \/ runs'[r].pc = "release"
          \/ /\ runs'[r].pc = "truncate" /\ runs'[r].copy = file
             /\ file # Torn /\ file[runs'[r].s] = Undecided
      BY <2>5, Effects DEF GoesOn, Becomes, Marked
    <3> QED
      BY <2>3, <2>4, <3>1, <3>2 DEF Exact
  <2>6. CASE TruncateSource(r)
    <3>1. /\ file' = Torn /\ file # Torn /\ runs[r].copy = file
          /\ runs[r].copy[runs[r].s] = Undecided /\ Agrees(file, receipts, runs)
      BY <2>1, <2>6 DEF TruncateSource, Exact
    <3>2. /\ runs'[r].pc = "write" /\ runs'[r].copy = file
          /\ runs'[r].copy[runs'[r].s] = Undecided
      BY <2>6, <3>1, Effects DEF GoesOn, Becomes
    <3> QED
      BY <2>3, <2>4, <3>1, <3>2 DEF Exact
  <2> QED
    BY <1>5, <2>5, <2>6
<1>6. ASSUME NEW r \in Runs, WriteSource(r)
      PROVE  Exact'
  <2> SUFFICES ASSUME ~shared
               PROVE  Exact'
    BY <1>6 DEF Exact, WriteSource
  <2> DEFINE copy == runs[r].copy
             s == runs[r].s
             c == runs[r].choice
  <2>1. /\ UNCHANGED <<receipts, dead>> /\ r \in Critical /\ Begun(r)
        /\ \A q \in Critical : q = r
    BY <1>6, RunType DEF WriteSource, Exact, Critical, Inside
  <2>2. Becomes(r, "release", runs[r].early, Torn, "handled", runs[r].by)
    BY <1>6, Effects
  <2>3. /\ copy \in Blocks /\ s \in Sessions /\ c \in Decisions
        /\ copy[s] = Undecided /\ Agrees(copy, receipts, runs)
        /\ file' = [copy EXCEPT ![s] = c]
    BY <1>6, <2>1, RunType DEF WriteSource, Copied, Run, Exact
  <2>4. file'[s] = c /\ \A z \in Sessions \ {s} : file'[z] = copy[z]
    BY <2>3 DEF Blocks
  <2>5. \A z \in Sessions : receipts[z] # Undecided => file'[z] = receipts[z]
    BY <2>3, <2>4 DEF Agrees
  <2>6. ASSUME NEW q \in Runs, runs'[q] # NotStarted, runs'[q].result = "handled"
        PROVE  file'[runs'[q].s] = runs'[q].choice
    <3>1. CASE q = r
      BY <2>2, <2>4, <3>1 DEF Becomes
    <3>2. CASE q # r
      <4>1. runs[q] # NotStarted /\ runs[q].result = "handled" /\ runs'[q] = runs[q]
        BY <2>2, <2>6, <3>2 DEF Becomes
      <4>2. copy[runs[q].s] = runs[q].choice /\ runs[q].s \in Sessions /\ runs[q].choice \in Decisions
        BY <1>1, <2>3, <4>1 DEF Agrees, Run
      <4> QED
        BY <2>3, <2>4, <4>1, <4>2, MarksAssumption
    <3> QED
      BY <3>1, <3>2
  <2>7. Agrees(file', receipts', runs')
    BY <2>1, <2>5, <2>6 DEF Agrees
  <2>8. Critical' = {}
    BY <2>1, <2>2 DEF Becomes, Critical, Inside
  <2> QED
    BY <2>7, <2>8 DEF Exact
<1>7. ASSUME NEW r \in Runs, WriteReceipt(r)
      PROVE  Exact'
  <2> SUFFICES ASSUME ~shared
               PROVE  Exact'
    BY <1>7 DEF Exact, WriteReceipt
  <2>1. /\ UNCHANGED <<file, dead, shared>> /\ Begun(r) /\ runs[r].pc = "receipt"
        /\ receipts' = IF runs[r].result = "handled"
                         THEN [receipts EXCEPT ![runs[r].s] = runs[r].choice] ELSE receipts
        /\ Becomes(r, "over", {}, runs[r].copy, runs[r].result, NoLock)
    BY <1>7, RunType, Effects DEF WriteReceipt, Outcome
  <2>2. runs[r].s \in Sessions
    BY <2>1, RunType DEF Run
  <2>3. ASSUME NEW f, Agrees(f, receipts, runs)
        PROVE  Agrees(f, receipts', runs')
    <3>1. \A z \in Sessions : receipts'[z] # Undecided => f[z] = receipts'[z]
      BY <1>1, <2>1, <2>2, <2>3 DEF Agrees, Blocks
    <3>2. \A q \in Runs : runs'[q] # NotStarted /\ runs'[q].result = "handled" =>
            f[runs'[q].s] = runs'[q].choice
      BY <2>1, <2>3 DEF Agrees, Becomes
    <3> QED
      BY <3>1, <3>2 DEF Agrees
  <2>4. Critical' \subseteq Critical /\ \A q \in Critical' : runs'[q] = runs[q]
    BY <2>1 DEF Critical, Becomes, Inside
  <2> QED
    BY <2>1, <2>3, <2>4 DEF Exact
<1>8. ASSUME NEW r \in Runs, Die(r)
      PROVE  Exact'
  <2>1. Critical' \subseteq Critical /\ UNCHANGED <<file, receipts, runs, shared>>
    BY <1>8 DEF Die, Critical
  <2> QED
    BY <2>1 DEF Exact, Agrees
<1>9. ASSUME GrowOld \/ UNCHANGED acceptVars
      PROVE  Exact'
  <2>1. UNCHANGED <<file, receipts, runs, shared, dead>>
    BY <1>9 DEF GrowOld, acceptVars
  <2> QED
    BY <2>1 DEF Exact, Agrees, Critical
<1> QED
  BY <1>2, <1>3, <1>4, <1>5, <1>6, <1>7, <1>8, <1>9 DEF AcceptsNext

-----------------------------------------------------------------------------
(***************************************************************************)
(* The theorems.                                                           *)
(***************************************************************************)
LEMMA AcceptsStart == AcceptsInit => AInv
<1> SUFFICES ASSUME AcceptsInit
             PROVE  AInv
  OBVIOUS
<1>1. /\ file = [s \in Sessions |-> Undecided] /\ receipts = file
      /\ lock = NoLock /\ runs = [r \in Runs |-> NotStarted]
      /\ dead = {} /\ slow = {} /\ shared = FALSE /\ met = FALSE
  BY DEF AcceptsInit
<1>2. \A r \in Runs : runs[r] = NotStarted /\ runs[r].pc = "off"
  BY <1>1 DEF NotStarted
<1>3. AcceptsTypeOK
  BY <1>1 DEF AcceptsTypeOK, Blocks
<1>4. Copied /\ Remembers /\ Judged /\ Blames
  BY <1>1, <1>2 DEF Copied, Remembers, Judged, Blames, Begun
<1>5. LockHeld
  BY <1>1, <1>2 DEF LockHeld, Owned, Holders, Inside
<1>6. Exact
  BY <1>1, <1>2 DEF Exact, Agrees, Critical, Inside
<1> QED
  BY <1>3, <1>4, <1>5, <1>6 DEF AInv

LEMMA AcceptsInvariant == AcceptsSpec => []AInv
<1>1. AcceptsInit => AInv
  BY AcceptsStart
<1>2. AInv /\ [AcceptsNext]_acceptVars => AInv'
  BY TypeKept, CauseKept, HeldKept, ExactKept DEF AInv
<1> QED
  BY <1>1, <1>2, PTL DEF AcceptsSpec

\* Every reachable state is well typed.
THEOREM AcceptsTypeCorrect == AcceptsSpec => []AcceptsTypeOK
<1>1. AInv => AcceptsTypeOK
  BY DEF AInv
<1> QED
  BY <1>1, AcceptsInvariant, PTL

\* However many runs of live-accept.mjs wait, try again, are killed or end, two are in
\* the critical section of the source lock at once only after one was suspended for a
\* minute, or after a lock was created while another run was between reading a lock and
\* removing it.
THEOREM Exclusion == AcceptsSpec => []SharedAfterCrossing
<1>1. AInv => SharedAfterCrossing
  BY DEF AInv, LockHeld, SharedAfterCrossing
<1> QED
  BY <1>1, AcceptsInvariant, PTL

\* What a run of live-accept.mjs reports as handled, and what a receipt says, is
\* what the source file holds, and nobody gives up because of a run that was
\* dead before: for any number of sessions, runs, tries and faults.
THEOREM AnswersHold == AcceptsSpec => []AnswersTrue
<1>1. AInv => AnswersTrue
  <2> SUFFICES ASSUME AInv
               PROVE  HandledTrue /\ RefusedForCause
    BY DEF AnswersTrue
  <2>1. HandledTrue
    BY DEF AInv, Exact, Agrees, HandledTrue, NotStarted
  <2>2. RefusedForCause
    BY DEF AInv, Blames, Begun, RefusedForCause, NotStarted
  <2> QED
    BY <2>1, <2>2
<1> QED
  BY <1>1, AcceptsInvariant, PTL

-----------------------------------------------------------------------------
(***************************************************************************)
(* Seen from the outside, a decision takes effect in one step.             *)
(***************************************************************************)

\* A run that has not answered has written its decision or knows of no other answer,
\* and only a run that is writing leaves the file empty.
Untold == \A r \in Runs : runs[r].pc \notin {"off", "over"} => runs[r].result \in {"missing", "handled"}

Readable == ~Broken /\ Writers = {} => file # Torn

AllAnswers == [r \in Runs |-> AnswerOf(r)]

LEMMA UntoldKept ==
  ASSUME AcceptsTypeOK, Untold, [AcceptsNext]_acceptVars
  PROVE  Untold'
<1> USE DEF At
<1>1. ASSUME NEW r \in Runs, NEW s \in Sessions, NEW c \in Decisions, StartAccept(r, s, c)
      PROVE  Untold'
  BY <1>1, Starting DEF Untold
<1>2. ASSUME NEW r \in Runs,
             FindMarkers(r) \/ SweepLock(r) \/ ProbeOwner(r) \/ StatLock(r) \/ UnlinkLock(r) \/ CreateLock(r) \/ TryAgain(r)
               \/ GiveUpLock(r) \/ FillLock(r) \/ ReadSource(r) \/ TruncateSource(r)
               \/ WriteSource(r) \/ ReleaseLock(r) \/ DropLock(r) \/ WriteReceipt(r)
      PROVE  Untold'
  <2>1. runs[r].pc \notin {"off", "over"}
    BY <1>2 DEF FindMarkers, SweepLock, ProbeOwner, StatLock, UnlinkLock, CreateLock, TryAgain, GiveUpLock, FillLock,
                ReadSource, TruncateSource, WriteSource, ReleaseLock, DropLock, WriteReceipt
  <2>2. \A q \in Runs \ {r} : runs'[q] = runs[q]
    BY <1>2, Effects DEF GoesOn, Becomes
  <2>3. runs'[r].pc = "over" \/ runs'[r].result \in {runs[r].result, "missing", "handled"}
    BY <1>2, Effects DEF GoesOn, Becomes
  <2> QED
    BY <2>1, <2>2, <2>3 DEF Untold
<1>3. ASSUME (\E r \in Runs : Die(r)) \/ GrowOld \/ UNCHANGED acceptVars
      PROVE  Untold'
  BY <1>3 DEF Die, GrowOld, acceptVars, Untold
<1> QED
  BY <1>1, <1>2, <1>3 DEF AcceptsNext

\* A step of a run that neither begins nor ends a write leaves the writers alone.
LEMMA SameWriters ==
  ASSUME NEW r \in Runs, \A q \in Runs \ {r} : runs'[q] = runs[q],
         runs[r].pc # "write", runs'[r].pc # "write"
  PROVE  Writers' = Writers /\ (file' = file => Block' = Block)
<1>1. Writers' = Writers
  BY DEF Writers
<1>2. \A w \in Writers : runs'[w] = runs[w]
  BY DEF Writers
<1>3. ASSUME Writers # {}
      PROVE  (CHOOSE w \in Writers : TRUE) \in Writers
  BY <1>3
<1> QED
  BY <1>1, <1>2, <1>3 DEF Block

\* What the file holds from the outside, and who is writing.
LEMMA BlockFacts ==
  ASSUME AInv, Readable, ~Broken
  PROVE  /\ Block \in Blocks /\ Agrees(Block, receipts, runs)
         /\ Writers = {} => Block = file
         /\ \A r \in Writers : Writers = {r} /\ Block = runs[r].copy
         /\ \A r \in Critical : runs[r].pc # "write" => Writers = {}
<1>1. Writers \subseteq Critical /\ ~shared
  BY DEF Writers, Broken, Critical, Inside
<1>2. \A r1, r2 \in Critical : r1 = r2
  BY <1>1 DEF AInv, Exact
<1>3. ASSUME NEW r \in Writers
      PROVE  Writers = {r} /\ Block = runs[r].copy
  <2>1. Writers = {r}
    BY <1>1, <1>2
  <2> QED
    BY <2>1 DEF Block
<1>4. ASSUME NEW r \in Critical, runs[r].pc # "write"
      PROVE  Writers = {}
  BY <1>1, <1>2, <1>4 DEF Writers
<1>5. CASE Writers = {}
  <2>1. Block = file /\ file # Torn
    BY <1>5 DEF Block, Readable
  <2>2. file \in Blocks /\ Agrees(file, receipts, runs)
    BY <1>1, <2>1 DEF AInv, AcceptsTypeOK, Exact
  <2> QED
    BY <1>3, <1>4, <2>1, <2>2
<1>6. CASE Writers # {}
  <2>1. PICK r \in Writers : TRUE
    BY <1>6
  <2>2. r \in Critical /\ runs[r].pc = "write" /\ r \in Runs
    BY <1>1, <2>1 DEF Writers
  <2>3. runs[r].copy \in Blocks /\ Agrees(runs[r].copy, receipts, runs)
    BY <1>1, <2>2 DEF AInv, Copied, Exact
  <2> QED
    BY <1>3, <1>4, <1>6, <2>1, <2>3
<1> QED
  BY <1>5, <1>6

LEMMA StaysBroken ==
  ASSUME AcceptsTypeOK, [AcceptsNext]_acceptVars, Broken
  PROVE  Broken'
<1>1. CASE shared
  BY <1>1 DEF Broken, AcceptsNext, acceptVars, StartAccept, FindMarkers, SweepLock, ProbeOwner, StatLock, UnlinkLock,
              CreateLock, TryAgain, GiveUpLock, FillLock, ReadSource, TruncateSource, WriteSource,
              ReleaseLock, DropLock, WriteReceipt, Die, GrowOld
<1>2. CASE Writers \intersect dead # {}
  <2>1. PICK w \in Runs : runs[w].pc = "write" /\ w \in dead
    BY <1>2 DEF Writers
  <2>2. w \in dead'
    BY <2>1 DEF AcceptsNext, acceptVars, StartAccept, FindMarkers, SweepLock, ProbeOwner, StatLock, UnlinkLock,
              CreateLock, TryAgain, GiveUpLock, FillLock, ReadSource, TruncateSource, WriteSource,
              ReleaseLock, DropLock, WriteReceipt, Die, GrowOld
  <2>3. runs'[w] = runs[w]
    <3>1. CASE \E r \in Runs, s \in Sessions, c \in Decisions : StartAccept(r, s, c)
      BY <2>1, <3>1, Starting DEF Begun, NotStarted
    <3>2. CASE \E r \in Runs :
                 \/ FindMarkers(r) \/ SweepLock(r) \/ ProbeOwner(r) \/ StatLock(r) \/ UnlinkLock(r) \/ CreateLock(r) \/ TryAgain(r)
                 \/ GiveUpLock(r) \/ FillLock(r) \/ ReadSource(r) \/ TruncateSource(r)
                 \/ WriteSource(r) \/ ReleaseLock(r) \/ DropLock(r) \/ WriteReceipt(r)
      <4>1. PICK r \in Runs :
                 \/ FindMarkers(r) \/ SweepLock(r) \/ ProbeOwner(r) \/ StatLock(r) \/ UnlinkLock(r) \/ CreateLock(r) \/ TryAgain(r)
                 \/ GiveUpLock(r) \/ FillLock(r) \/ ReadSource(r) \/ TruncateSource(r)
                 \/ WriteSource(r) \/ ReleaseLock(r) \/ DropLock(r) \/ WriteReceipt(r)
        BY <3>2
      <4>2. r \notin dead
        BY <4>1 DEF At, FindMarkers, SweepLock, ProbeOwner, StatLock, UnlinkLock, CreateLock, TryAgain, GiveUpLock,
                    FillLock, ReadSource, TruncateSource, WriteSource, ReleaseLock, DropLock, WriteReceipt
      <4>3. \A q \in Runs \ {r} : runs'[q] = runs[q]
        BY <4>1, Effects DEF GoesOn, Becomes
      <4> QED
        BY <2>1, <4>2, <4>3
    <3>3. CASE (\E r \in Runs : Die(r)) \/ GrowOld \/ UNCHANGED acceptVars
      BY <3>3 DEF Die, GrowOld, acceptVars
    <3> QED
      BY <3>1, <3>2, <3>3 DEF AcceptsNext
  <2> QED
    BY <2>1, <2>2, <2>3 DEF Broken, Writers
<1> QED
  BY <1>1, <1>2 DEF Broken

\* A run that has not answered goes on, or answers, and the others are as they were.
LEMMA GoesUnanswered ==
  ASSUME NEW r \in Runs, \A q \in Runs \ {r} : runs'[q] = runs[q],
         runs[r].pc # "over", runs'[r].pc # "over"
  PROVE  AllAnswers' = AllAnswers
<1>1. \A q \in Runs : AnswerOf(q)' = AnswerOf(q)
  BY DEF AnswerOf
<1> QED
  BY <1>1 DEF AllAnswers

LEMMA OneAnswer ==
  ASSUME NEW r \in Runs, \A q \in Runs \ {r} : runs'[q] = runs[q],
         runs[r].pc # "over", runs'[r].pc = "over"
  PROVE  /\ AllAnswers[r] = NotStarted
         /\ AllAnswers' = [AllAnswers EXCEPT ![r] =
              [s |-> runs'[r].s, choice |-> runs'[r].choice, result |-> runs'[r].result]]
<1>1. \A q \in Runs \ {r} : AnswerOf(q)' = AnswerOf(q)
  BY DEF AnswerOf
<1>2. /\ AnswerOf(r) = NotStarted
      /\ AnswerOf(r)' = [s |-> runs'[r].s, choice |-> runs'[r].choice, result |-> runs'[r].result]
  BY DEF AnswerOf
<1> QED
  BY <1>1, <1>2 DEF AllAnswers

\* A run that answers, and changes nothing else that can be seen, makes a promise it
\* may make.
LEMMA AnswerPromised ==
  ASSUME NEW r \in Runs, \A q \in Runs \ {r} : runs'[q] = runs[q],
         runs[r].pc # "over", runs[r].pc # "write", runs'[r].pc = "over",
         runs'[r].s \in Sessions, runs'[r].choice \in Decisions, runs'[r].result \in Results,
         file' = file, Broken' = Broken,
         runs'[r].result = "handled" => Block[runs'[r].s] = runs'[r].choice,
         runs'[r].result = "conflict" => Block[runs'[r].s] \notin {Undecided, runs'[r].choice}
  PROVE  Promise!Next
<1> DEFINE a == [s |-> runs'[r].s, choice |-> runs'[r].choice, result |-> runs'[r].result]
<1>1. a \in Promise!Answers
  BY DEF Results, Promise!Answers
<1>2. Promise!Warranted(a)
  BY DEF Promise!Warranted
<1>3. AllAnswers[r] = NotStarted /\ AllAnswers' = [AllAnswers EXCEPT ![r] = a]
  BY OneAnswer
<1>4. Block' = Block
  BY SameWriters
<1>5. AllAnswers'[r] = a
  BY <1>3 DEF AllAnswers
<1> HIDE DEF a
<1>6. Promise!Answer(r)
  BY <1>1, <1>2, <1>3, <1>4, <1>5 DEF Promise!Answer, AllAnswers
<1> QED
  BY <1>6 DEF Promise!Next

\* Only a run that is writing leaves the file empty.
LEMMA ReadableKept ==
  ASSUME AInv, Readable, [AcceptsNext]_acceptVars
  PROVE  Readable'
<1> USE DEF At
<1>0. AcceptsTypeOK
  BY DEF AInv
<1> SUFFICES ASSUME ~Broken', Writers' = {}
             PROVE  file' # Torn
  BY DEF Readable
<1>1. ~Broken
  BY <1>0, StaysBroken
<1>2. ASSUME NEW r \in Runs, NEW s \in Sessions, NEW c \in Decisions, StartAccept(r, s, c)
      PROVE  file' # Torn
  <2>1. runs[r].pc # "write" /\ runs'[r].pc # "write" /\ \A q \in Runs \ {r} : runs'[q] = runs[q]
    BY <1>0, <1>2, Starting DEF Begun, NotStarted
  <2> QED
    BY <1>1, <1>2, <2>1, SameWriters DEF StartAccept, Readable
<1>3. ASSUME NEW r \in Runs,
             FindMarkers(r) \/ SweepLock(r) \/ ProbeOwner(r) \/ StatLock(r) \/ UnlinkLock(r) \/ CreateLock(r) \/ TryAgain(r)
               \/ GiveUpLock(r) \/ FillLock(r) \/ ReadSource(r) \/ ReleaseLock(r) \/ DropLock(r)
               \/ WriteReceipt(r)
      PROVE  file' # Torn
  <2>1. file' = file /\ runs[r].pc # "write"
    BY <1>3 DEF FindMarkers, SweepLock, ProbeOwner, StatLock, UnlinkLock, CreateLock, TryAgain, GiveUpLock, FillLock,
                ReadSource, ReleaseLock, DropLock, WriteReceipt
  <2>2. runs'[r].pc # "write" /\ \A q \in Runs \ {r} : runs'[q] = runs[q]
    BY <1>0, <1>3, Effects DEF GoesOn, Becomes
  <2> QED
    BY <1>1, <2>1, <2>2, SameWriters DEF Readable
<1>4. ASSUME NEW r \in Runs, TruncateSource(r)
      PROVE  FALSE
  BY <1>0, <1>4, Effects DEF GoesOn, Becomes, Writers
<1>5. ASSUME NEW r \in Runs, WriteSource(r)
      PROVE  file' # Torn
  <2>1. runs[r].copy \in Blocks /\ runs[r].s \in Sessions /\ runs[r].choice \in Decisions
    BY <1>0, <1>5, RunType DEF WriteSource, AInv, Copied, Run
  <2>2. file' \in Blocks
    BY <1>5, <2>1 DEF WriteSource, Blocks
  <2> QED
    BY <2>2, MarksAssumption
<1>6. ASSUME (\E r \in Runs : Die(r)) \/ GrowOld \/ UNCHANGED acceptVars
      PROVE  file' # Torn
  <2>1. file' = file /\ runs' = runs
    BY <1>6 DEF Die, GrowOld, acceptVars
  <2> QED
    BY <1>1, <2>1 DEF Readable, Writers
<1> QED
  BY <1>2, <1>3, <1>4, <1>5, <1>6 DEF AcceptsNext

\* Every step is a decision that takes effect, an answer that may be given, the end of
\* the promise, or nothing that can be seen.
LEMMA PromiseStep ==
  ASSUME AInv, Untold, Readable, [AcceptsNext]_acceptVars
  PROVE  [Promise!Next]_<<Block, AllAnswers, Broken>>
<1> USE DEF At
<1>0. AcceptsTypeOK /\ runs \in [Runs -> {NotStarted} \union Run(Pcs)]
  BY DEF AInv, AcceptsTypeOK, Pcs
<1>1. CASE Broken'
  BY <1>1 DEF Promise!Next, Promise!Break
<1> SUFFICES ASSUME ~Broken'
             PROVE  Promise!Next \/ UNCHANGED <<Block, AllAnswers, Broken>>
  BY <1>1
<1>2. ~Broken /\ Broken' = Broken
  BY <1>0, StaysBroken DEF Broken
<1>3. /\ Block \in Blocks /\ Agrees(Block, receipts, runs)
      /\ Writers = {} => Block = file
      /\ \A r \in Writers : Writers = {r} /\ Block = runs[r].copy
      /\ \A r \in Critical : runs[r].pc # "write" => Writers = {}
  BY <1>2, BlockFacts
<1>4. ASSUME NEW r \in Runs, NEW s \in Sessions, NEW c \in Decisions, StartAccept(r, s, c)
      PROVE  Promise!Next \/ UNCHANGED <<Block, AllAnswers, Broken>>
  <2>1. file' = file /\ runs[r].pc = "off"
    BY <1>4 DEF StartAccept, NotStarted
  <2>2. /\ \A q \in Runs \ {r} : runs'[q] = runs[q]
        /\ runs'[r].s = s /\ runs'[r].choice = c
        /\ runs'[r].pc \in {"find", "over"}
        /\ runs'[r].pc = "over" => \/ runs'[r].result = "handled" /\ receipts[s] = c
                                   \/ runs'[r].result = "conflict" /\ receipts[s] \notin {Undecided, c}
    BY <1>0, <1>4, Starting
  <2>3. CASE runs'[r].pc = "find"
    BY <1>2, <2>1, <2>2, <2>3, SameWriters, GoesUnanswered
  <2>4. CASE runs'[r].pc = "over"
    <3>1. receipts[s] # Undecided => Block[s] = receipts[s]
      BY <1>3 DEF Agrees
    <3>2. runs'[r].result \in Results /\ c # Undecided
      BY <2>2, <2>4, MarksAssumption DEF Results
    <3>3. runs'[r].result = "handled" => Block[s] = c
      BY <2>2, <2>4, <3>1, <3>2
    <3>4. runs'[r].result = "conflict" => Block[s] \notin {Undecided, c}
      BY <2>2, <2>4, <3>1, <3>2
    <3> QED
      BY <1>2, <2>1, <2>2, <2>4, <3>2, <3>3, <3>4, AnswerPromised
  <2> QED
    BY <2>2, <2>3, <2>4
<1>5. ASSUME NEW r \in Runs,
             FindMarkers(r) \/ SweepLock(r) \/ ProbeOwner(r) \/ StatLock(r) \/ UnlinkLock(r) \/ CreateLock(r) \/ TryAgain(r)
               \/ GiveUpLock(r) \/ FillLock(r) \/ ReadSource(r) \/ ReleaseLock(r) \/ DropLock(r)
               \/ WriteReceipt(r)
      PROVE  Promise!Next \/ UNCHANGED <<Block, AllAnswers, Broken>>
  <2>1. file' = file /\ runs[r].pc \notin {"off", "over", "write"}
    BY <1>5 DEF FindMarkers, SweepLock, ProbeOwner, StatLock, UnlinkLock, CreateLock, TryAgain, GiveUpLock, FillLock,
                ReadSource, ReleaseLock, DropLock, WriteReceipt
  <2>2. /\ \A q \in Runs \ {r} : runs'[q] = runs[q]
        /\ runs'[r].pc # "write"
        /\ runs'[r].s = runs[r].s /\ runs'[r].choice = runs[r].choice
        /\ runs'[r].pc = "over" => runs'[r].result \in {runs[r].result, "missing", "locked"}
    BY <1>0, <1>5, Effects DEF GoesOn, Becomes
  <2>3. CASE runs'[r].pc # "over"
    BY <1>2, <2>1, <2>2, <2>3, SameWriters, GoesUnanswered
  <2>4. CASE runs'[r].pc = "over"
    <3>1. /\ runs[r] \in Run(Pcs) /\ Begun(r)
          /\ runs[r].s \in Sessions /\ runs[r].choice \in Decisions
      BY <1>0, <2>1, RunType DEF Run
    <3>2. runs'[r].result \in {"missing", "handled", "locked"}
      BY <2>1, <2>2, <2>4 DEF Untold
    <3>3. runs'[r].result = "handled" => Block[runs[r].s] = runs[r].choice
      BY <1>3, <2>2, <2>4, <3>1 DEF Agrees, Begun
    <3>4. runs'[r].result \in Results
      BY <3>2 DEF Results
    <3> QED
      BY <1>2, <2>1, <2>2, <2>4, <3>1, <3>2, <3>3, <3>4, AnswerPromised
  <2> QED
    BY <2>3, <2>4
<1>6. ASSUME NEW r \in Runs, TruncateSource(r)
      PROVE  UNCHANGED <<Block, AllAnswers, Broken>>
  <2>1. /\ r \in Critical /\ runs[r].pc = "truncate" /\ ~shared
        /\ GoesOn(r, "write")
    BY <1>0, <1>2, <1>6, Effects DEF TruncateSource, Critical, Inside, Broken
  <2>2. Writers = {} /\ Block = file /\ runs[r].copy = file
    BY <1>3, <2>1 DEF AInv, Exact
  <2>3. Writers' = {r} /\ runs'[r].copy = runs[r].copy
    BY <2>1, <2>2 DEF Writers, GoesOn, Becomes
  <2>4. Block' = Block
    BY <2>2, <2>3 DEF Block
  <2>5. AllAnswers' = AllAnswers
    BY <2>1, GoesUnanswered DEF GoesOn, Becomes
  <2> QED
    BY <1>2, <2>4, <2>5
<1>7. ASSUME NEW r \in Runs, WriteSource(r)
      PROVE  Promise!Next
  <2> DEFINE s == runs[r].s
             c == runs[r].choice
  <2>1. /\ r \in Critical /\ r \in Writers /\ runs[r].pc = "write" /\ ~shared
        /\ Becomes(r, "release", runs[r].early, Torn, "handled", runs[r].by)
        /\ s \in Sessions /\ c \in Decisions
    BY <1>0, <1>2, <1>7, Effects, RunType DEF WriteSource, Critical, Inside, Broken, Run, Writers
  <2>2. Writers = {r} /\ Block = runs[r].copy /\ Block[s] = Undecided
    BY <1>3, <2>1 DEF AInv, Exact
  <2>3. Writers' = {}
    BY <2>1, <2>2 DEF Writers, Becomes
  <2>4. Block' = [Block EXCEPT ![s] = c]
    BY <1>7, <2>2, <2>3 DEF Block, WriteSource
  <2>5. AllAnswers' = AllAnswers
    BY <2>1, GoesUnanswered DEF Becomes
  <2> HIDE DEF s, c
  <2>6. Promise!Decide(s, c)
    BY <1>2, <2>2, <2>4, <2>5 DEF Promise!Decide, AllAnswers
  <2> QED
    BY <2>1, <2>6 DEF Promise!Next
<1>8. ASSUME (\E r \in Runs : Die(r)) \/ GrowOld \/ UNCHANGED acceptVars
      PROVE  UNCHANGED <<Block, AllAnswers, Broken>>
  <2>1. file' = file /\ runs' = runs
    BY <1>8 DEF Die, GrowOld, acceptVars
  <2>2. Block' = Block /\ AllAnswers' = AllAnswers
    BY <2>1 DEF Block, Writers, AllAnswers, AnswerOf
  <2> QED
    BY <1>2, <2>2
<1> QED
  BY <1>4, <1>5, <1>6, <1>7, <1>8 DEF AcceptsNext

LEMMA PromiseStart ==
  ASSUME AcceptsInit
  PROVE  Promise!Init /\ Untold /\ Readable
<1>1. /\ file = [s \in Sessions |-> Undecided]
      /\ runs = [r \in Runs |-> NotStarted] /\ \A r \in Runs : runs[r].pc = "off"
      /\ dead = {} /\ shared = FALSE
  BY DEF AcceptsInit, NotStarted
<1>2. Writers = {} /\ Block = file /\ Broken = FALSE
  BY <1>1 DEF Writers, Block, Broken
<1>3. AllAnswers = [r \in Runs |-> NotStarted]
  BY <1>1 DEF AllAnswers, AnswerOf
<1>4. file \in Blocks
  BY <1>1 DEF Blocks
<1>5. Untold /\ Readable
  BY <1>1, <1>4, MarksAssumption DEF Untold, Readable
<1> QED
  BY <1>1, <1>2, <1>3, <1>5 DEF Promise!Init, AllAnswers

\* Runs of live-accept.mjs, however they interleave, wait, retry and die, carry each
\* decision into the source in one step, on a block that is open, and answer for it only
\* if it is there, until two are inside the lock at once or one is killed while it
\* writes: what LiveOverlay takes for granted when an agent replies to an accept.
THEOREM AcceptsAtOnce == AcceptsSpec => DecisionsAtomic
<1>1. AInv /\ Untold /\ Readable /\ [AcceptsNext]_acceptVars
        => Untold' /\ Readable' /\ [Promise!Next]_<<Block, AllAnswers, Broken>>
  BY UntoldKept, ReadableKept, PromiseStep DEF AInv
<1>2. AcceptsInit => Promise!Init /\ Untold /\ Readable
  BY PromiseStart
<1> QED
  BY <1>1, <1>2, AcceptsInvariant, PTL DEF AcceptsSpec, DecisionsAtomic, Promise!Spec, AllAnswers

-----------------------------------------------------------------------------
(***************************************************************************)
(* The question page.                                                      *)
(***************************************************************************)
-----------------------------------------------------------------------------
(***************************************************************************)
(* What an update of some fields leaves of the others.                     *)
(***************************************************************************)
\* An agent, and below a page, with these fields.
AgentIs(x, at, holds, owes, sent, fails, verdict) ==
  /\ x \in AgentState
  /\ x.at = at /\ x.holds = holds /\ x.owes = owes /\ x.sent = sent
  /\ x.fails = fails /\ x.verdict = verdict

\* What the agent may hold.
Held3 == Answer \union {NoPick, HalfWritten}

\* What --wait may have read of the state.
Readings == [beat: BeatAges, claim: BOOLEAN]

\* What an update of some fields leaves of the others.
LEMMA AgentFields ==
  ASSUME NEW x \in AgentState, NEW at \in AgentStates
  PROVE  /\ AgentIs([x EXCEPT !.at = at], at, x.holds, x.owes, x.sent, x.fails, x.verdict)
         /\ \A v \in Verdicts :
              AgentIs([x EXCEPT !.at = at, !.verdict = v],
                      at, x.holds, x.owes, x.sent, x.fails, v)
         /\ \A v \in Verdicts, b \in BOOLEAN :
              AgentIs([x EXCEPT !.at = at, !.verdict = v, !.torn = b],
                      at, x.holds, x.owes, x.sent, x.fails, v)
         /\ \A r \in Readings :
              AgentIs([x EXCEPT !.at = at, !.read = r],
                      at, x.holds, x.owes, x.sent, x.fails, x.verdict)
         /\ \A v \in Verdicts, r \in Readings :
              AgentIs([x EXCEPT !.at = at, !.verdict = v, !.read = r],
                      at, x.holds, x.owes, x.sent, x.fails, v)
         /\ \A h \in Held3, b \in BOOLEAN :
              AgentIs([x EXCEPT !.at = at, !.holds = h, !.torn = b],
                      at, h, x.owes, x.sent, x.fails, x.verdict)
         /\ \A o \in BOOLEAN, h \in Held3 :
              AgentIs([x EXCEPT !.at = at, !.owes = o, !.holds = h],
                      at, h, o, x.sent, x.fails, x.verdict)
         /\ \A f \in 0..MaxRetries + 1 :
              AgentIs([x EXCEPT !.at = at, !.fails = f],
                      at, x.holds, x.owes, x.sent, f, x.verdict)
         /\ \A o \in BOOLEAN, n \in Hands :
              AgentIs([x EXCEPT !.at = at, !.owes = o, !.sent = n],
                      at, x.holds, o, n, x.fails, x.verdict)
  BY DEF AgentState, AgentIs, Held3, Readings

PageIs(p, at, view, stale, asleep) ==
  p \in Page /\ p.at = at /\ p.view = view /\ p.stale = stale /\ p.asleep = asleep

\* A page after an update of some fields.
LEMMA PageFields ==
  ASSUME NEW p \in Page, NEW at \in PageStates, NEW view \in Views, NEW b \in BOOLEAN
  PROVE  /\ PageIs([p EXCEPT !.at = at], at, p.view, p.stale, p.asleep)
         /\ PageIs([p EXCEPT !.asleep = b], p.at, p.view, p.stale, b)
         /\ PageIs([p EXCEPT !.stale = b], p.at, p.view, b, p.asleep)
         /\ PageIs([p EXCEPT !.at = at, !.view = view], at, view, p.stale, p.asleep)
         /\ PageIs([p EXCEPT !.at = at, !.stale = b, !.view = view], at, view, b, p.asleep)
  BY DEF Page, PageIs

\* The states a tab is put into are states of a tab.
LEMMA StatesAre ==
  /\ Views \subseteq PageStates /\ {"choosing", "waiting", "stalled", "done"} \subseteq Views
  /\ {"closed", "loading", "dealing", "done", "gone", "waiting", "stalled"} \subseteq PageStates
  BY DEF Views, PageStates

\* A page that is empty, or has just been sent.
LEMMA NewPages ==
  /\ \A at \in PageStates : PageIs(Empty(at), at, "choosing", FALSE, FALSE)
  /\ \A h \in Hands, w \in {"no", "yes", "spent"} :
       PageIs(Sent(h, w), "loading", Render(w), FALSE, FALSE)
  <1>1. \A at \in PageStates : PageIs(Empty(at), at, "choosing", FALSE, FALSE)
    BY StatesAre DEF Empty, Page, PageIs
  <1>2. ASSUME NEW h \in Hands, NEW w \in {"no", "yes", "spent"}
        PROVE  PageIs(Sent(h, w), "loading", Render(w), FALSE, FALSE)
    <2>1. Render(w) \in Views
      BY StatesAre DEF Render
    <2>2. Empty("loading") \in Page /\ PageIs(Empty("loading"), "loading", "choosing", FALSE, FALSE)
      BY <1>1, StatesAre DEF PageIs
    <2>3. ASSUME NEW p \in Page, NEW v \in Views, NEW m \in BOOLEAN
          PROVE  PageIs([p EXCEPT !.view = v, !.more = m], p.at, v, p.stale, p.asleep)
      BY DEF Page, PageIs
    <2> DEFINE more == Render(w) = "choosing" /\ h \in FollowUps
    <2>4. more \in BOOLEAN /\ Sent(h, w) = [Empty("loading") EXCEPT !.view = Render(w), !.more = more]
      BY DEF Sent
    <2> HIDE DEF more
    <2>5. PageIs(Sent(h, w), Empty("loading").at, Render(w), Empty("loading").stale,
                 Empty("loading").asleep)
      BY <2>1, <2>2, <2>3, <2>4
    <2> QED
      BY <2>2, <2>5 DEF PageIs
  <1> QED
    BY <1>1, <1>2

\* Only tab t changes.
Only(t, at, view, stale, asleep) ==
  /\ shown' \in [Windows -> Page]
  /\ \A u \in Windows \ {t} : shown'[u] = shown[u]
  /\ PageIs(shown'[t], at, view, stale, asleep)

\* The updates of one tab, by the fields they set.
LEMMA ShownFields ==
  ASSUME shown \in [Windows -> Page], NEW t \in Windows, NEW at \in PageStates, NEW b \in BOOLEAN
  PROVE  /\ shown' = [shown EXCEPT ![t].at = at] =>
              Only(t, at, shown[t].view, shown[t].stale, shown[t].asleep)
         /\ shown' = [shown EXCEPT ![t].asleep = b] =>
              Only(t, shown[t].at, shown[t].view, shown[t].stale, b)
         /\ shown' = [shown EXCEPT ![t].at = shown[t].view, ![t].view = "choosing"] =>
              Only(t, shown[t].view, "choosing", shown[t].stale, shown[t].asleep)
         /\ \A h \in Hands, w \in {"no", "yes", "spent"} :
              shown' = [shown EXCEPT ![t] = Sent(h, w)] => Only(t, "loading", Render(w), FALSE, FALSE)
         /\ shown' = [shown EXCEPT ![t] = Empty(at)] => Only(t, at, "choosing", FALSE, FALSE)
  <1>1. ASSUME NEW p, NEW a, NEW v, NEW s, NEW e, PageIs(p, a, v, s, e),
               shown' = [shown EXCEPT ![t] = p]
        PROVE  Only(t, a, v, s, e)
    BY <1>1 DEF Only, PageIs
  <1>2. shown[t] \in Page /\ at \in PageStates /\ "choosing" \in Views
        /\ shown[t].view \in Views /\ shown[t].view \in PageStates
    BY DEF Page, PageStates, Views
  <1>3. ASSUME shown' = [shown EXCEPT ![t].at = at]
        PROVE  Only(t, at, shown[t].view, shown[t].stale, shown[t].asleep)
    <2>1. shown' = [shown EXCEPT ![t] = [shown[t] EXCEPT !.at = at]]
      BY <1>3
    <2>2. PageIs([shown[t] EXCEPT !.at = at], at, shown[t].view, shown[t].stale, shown[t].asleep)
      BY <1>2, PageFields
    <2> QED
      BY <1>1, <2>1, <2>2
  <1>4. ASSUME shown' = [shown EXCEPT ![t].asleep = b]
        PROVE  Only(t, shown[t].at, shown[t].view, shown[t].stale, b)
    <2>1. shown' = [shown EXCEPT ![t] = [shown[t] EXCEPT !.asleep = b]]
      BY <1>4
    <2>2. PageIs([shown[t] EXCEPT !.asleep = b], shown[t].at, shown[t].view, shown[t].stale, b)
      BY <1>2, PageFields
    <2> QED
      BY <1>1, <2>1, <2>2
  <1>5. ASSUME shown' = [shown EXCEPT ![t].at = shown[t].view, ![t].view = "choosing"]
        PROVE  Only(t, shown[t].view, "choosing", shown[t].stale, shown[t].asleep)
    <2>1. shown' = [shown EXCEPT ![t] = [shown[t] EXCEPT !.at = shown[t].view, !.view = "choosing"]]
      BY <1>5
    <2>2. PageIs([shown[t] EXCEPT !.at = shown[t].view, !.view = "choosing"],
                 shown[t].view, "choosing", shown[t].stale, shown[t].asleep)
      BY <1>2, PageFields
    <2> QED
      BY <1>1, <2>1, <2>2
  <1>6. ASSUME NEW h \in Hands, NEW w \in {"no", "yes", "spent"},
               shown' = [shown EXCEPT ![t] = Sent(h, w)]
        PROVE  Only(t, "loading", Render(w), FALSE, FALSE)
    BY <1>1, <1>6, NewPages
  <1>7. shown' = [shown EXCEPT ![t] = Empty(at)] => Only(t, at, "choosing", FALSE, FALSE)
    BY <1>1, NewPages
  <1> QED
    BY <1>3, <1>4, <1>5, <1>6, <1>7

-----------------------------------------------------------------------------
(***************************************************************************)
(* The invariant.  A round is the hand the daemon has loaded, and what has *)
(* become of it: in play, answered, collected, followed by the next one.   *)
(***************************************************************************)
ShowsCards(t) ==
  \/ shown[t].at \in {"choosing", "dealing"}
  \/ shown[t].at = "loading" /\ shown[t].view = "choosing"

\* The round is over: no tab shows cards of it that can still be answered.
Spent ==
  /\ Served => Awaiting
  /\ \A t \in Windows : ShowsCards(t) => shown[t].stale

\* What the answer file says, or will.
Given == IF answer = HalfWritten THEN task.pick ELSE answer

Delivering == agent.at \in {"copying", "stamping"}

\* The answer the agent is about to collect is to the hand it has dealt last.
HeldRound ==
  agent.at = "holding" =>
    /\ ~agent.owes /\ hand = agent.sent /\ next = NoHand
    /\ agent.holds # HalfWritten => agent.holds.hand = agent.sent /\ (agent.holds.open => Spent)

\* So is the one in the file, unless it answers the hand that is being delivered
\* and has been loaded already.
AnsweredRound ==
  Given # NoPick =>
    /\ ~Claiming /\ next = NoHand
    /\ ~Delivering => hand = agent.sent /\ Given.hand = agent.sent /\ ~agent.owes
    /\ Given.open => Spent

\* An agent that owes a hand: the round is over and nobody has loaded another,
\* or its delivery has been claimed before it was stamped.
Owed ==
  /\ Delivering => agent.owes
  /\ agent.owes =>
       \/ /\ Spent /\ hand = agent.sent /\ Given = NoPick
          /\ next # NoHand => Delivering /\ next.hand = agent.sent + 1
       \/ /\ agent.at = "stamping" /\ hand = agent.sent + 1
          /\ next = NoHand \/ (task.at = "remove" /\ next.hand = hand)

\* An agent that owes none: its hand is on the table, or about to be loaded; or it has
\* been removed unread, because it was looked at before it was whole.
Dealt ==
  ~agent.owes =>
    \/ hand = agent.sent /\ (next = NoHand \/ task.at = "remove")
    \/ Spent /\ Given = NoPick /\ (next = NoHand \/ next.hand = agent.sent)

Round == HeldRound /\ AnsweredRound /\ Owed /\ Dealt

RoundInv == ~mixed /\ agent.at # "over" => Round

\* A page that has just answered is awake, its cards are answered, and it shows no others
\* next.
ShowsNext(view) == view \in {"waiting", "done"}

PagesInv ==
  \A t \in Windows :
    shown[t].at = "dealing" => shown[t].stale /\ Awake(t) /\ ShowsNext(shown[t].view)

ListedInv == agent.at # "over" => listed

\* While a tab beats, the server has heard it of late.
HeardInv == Served /\ beat # "fresh" => \A t \in Windows : ~Beats(t)

HalfDealt == next # NoHand => (next.age = "torn" <=> agent.at = "copying")

\* An answer is half written only as long as the daemon writes it, and a claimed hand is
\* there until it is removed.
FilesInv ==
  /\ answer = HalfWritten => task.at = "fill"
  /\ task.at = "fill" => answer \in {HalfWritten, NoPick}
  /\ task.at = "remove" => next # NoHand

\* Nobody is served by a daemon that has ended.
DownIdle == daemon = "down" => task = NoTask

\* What --wait has found of the answer is so; and one that has come since it looked is of
\* a page that beats.
FoundInv ==
  /\ agent.at = "reading" => answer # NoPick
  /\ agent.at = "holding" => agent.holds # NoPick
  /\ agent.at = "checking" /\ answer # NoPick => beat = "fresh"

\* Within the bounds there is room for the hand that is being delivered.
RoomLeft ==
  Delivering => agent.sent < MaxHands /\ agent.fails <= MaxRetries

QInv ==
  /\ QuestionsTypeOK /\ RoundInv /\ PagesInv /\ ListedInv /\ HeardInv
  /\ HalfDealt /\ FilesInv /\ DownIdle /\ FoundInv /\ RoomLeft

\* What the files hold.
LEMMA GivenType ==
  ASSUME QInv
  PROVE  /\ Given \in Answer \union {NoPick} /\ (answer = NoPick <=> Given = NoPick)
         /\ agent.at = "holding" => agent.holds \in Answer \union {HalfWritten}
         /\ Ready => answer \in Answer \union {NoPick} /\ Given = answer /\ ~Claiming
  <1>1. answer = HalfWritten => task.at = "fill" /\ task \in Task
    BY DEF QInv, FilesInv, QuestionsTypeOK, NoTask
  <1>2. answer = HalfWritten => task.pick \in Answer
    BY <1>1 DEF Task
  <1>3. answer \in Answer \union {NoPick, HalfWritten} /\ NoPick \notin Answer
        /\ HalfWritten # NoPick
    BY FilesAssumption DEF QInv, QuestionsTypeOK
  <1>4. Given \in Answer \union {NoPick} /\ (answer = NoPick <=> Given = NoPick)
    BY <1>2, <1>3 DEF Given
  <1>5. agent.at = "holding" => agent.holds \in Answer \union {HalfWritten}
    BY DEF QInv, FoundInv, QuestionsTypeOK, AgentState
  <1>6. Ready => task.at = "none"
    BY DEF Ready, NoTask
  <1> QED
    BY <1>1, <1>3, <1>4, <1>5, <1>6 DEF Given, Claiming

\* The round is kept by a step of nobody who deals or answers, if answered
\* cards stay answered.
LEMMA RoundKept ==
  ASSUME RoundInv, UNCHANGED <<hand, agent, mixed>>, Given' = Given,
         next' = NoHand <=> next = NoHand, next # NoHand => next'.hand = next.hand,
         Claiming' => Claiming, task.at = "remove" => task'.at = "remove",
         Spent => Spent'
  PROVE  RoundInv'
  BY DEF RoundInv, Round, HeldRound, AnsweredRound, Owed, Dealt, Delivering

\* What the invariant asks of a step that changes one tab.
LEMMA OnePage ==
  ASSUME QuestionsTypeOK, PagesInv, HeardInv, NEW t \in Windows,
         NEW at, NEW view, NEW stale, NEW asleep, Only(t, at, view, stale, asleep)
  PROVE  /\ shown' \in [Windows -> Page]
         /\ (at = "dealing" => stale /\ ~asleep /\ ShowsNext(view)) => PagesInv'
         /\ /\ Served' => Served
            /\ Served' /\ beat' # "fresh" =>
                 beat' = beat /\ (~asleep /\ at \in BeatingViews => Beats(t))
            => HeardInv'
         /\ /\ Served' => Served
            /\ Served' /\ Awaiting => Awaiting'
            /\ at \in {"choosing", "dealing"} \/ (at = "loading" /\ view = "choosing") =>
                 stale \/ (ShowsCards(t) /\ (shown[t].stale => stale))
            => (Spent => Spent')
  <1> USE DEF Only, PageIs
  <1>1. (at = "dealing" => stale /\ ~asleep /\ ShowsNext(view)) => PagesInv'
    BY DEF PagesInv, Awake
  <1>2. /\ Served' => Served
        /\ Served' /\ beat' # "fresh" =>
             beat' = beat /\ (~asleep /\ at \in BeatingViews => Beats(t))
        => HeardInv'
    BY DEF HeardInv, Beats, Awake
  <1>3. /\ Served' => Served
        /\ Served' /\ Awaiting => Awaiting'
        /\ at \in {"choosing", "dealing"} \/ (at = "loading" /\ view = "choosing") =>
             stale \/ (ShowsCards(t) /\ (shown[t].stale => stale))
        => (Spent => Spent')
    BY DEF Spent, ShowsCards
  <1> QED
    BY <1>1, <1>2, <1>3

-----------------------------------------------------------------------------
(***************************************************************************)
(* Steps of the page.                                                      *)
(***************************************************************************)
\* A step that changes one tab, and at most the heartbeat.
LEMMA PageStep ==
  ASSUME QInv, NEW t \in Windows,
         NEW at, NEW view, NEW stale, NEW asleep, Only(t, at, view, stale, asleep),
         UNCHANGED <<daemon, hand, wait, claim, task, listed, answer, next, agent, mixed>>,
         moves' \in 0..MaxMoves, beat' \in BeatAges, beat' = beat \/ beat' = "fresh",
         at = "dealing" => stale /\ ~asleep /\ ShowsNext(view),
         Served /\ beat' # "fresh" => (~asleep /\ at \in BeatingViews => Beats(t)),
         at \in {"choosing", "dealing"} \/ (at = "loading" /\ view = "choosing") =>
           ShowsCards(t) /\ (shown[t].stale => stale)
  PROVE  QInv'
  <1>1. QuestionsTypeOK /\ PagesInv /\ HeardInv /\ RoundInv
    BY DEF QInv
  <1>2. (Served' <=> Served) /\ (Awaiting' <=> Awaiting) /\ Given' = Given
        /\ (Claiming' <=> Claiming)
    BY DEF Served, Awaiting, Given, Claiming
  <1>3. shown' \in [Windows -> Page] /\ PagesInv' /\ HeardInv' /\ (Spent => Spent')
    BY <1>1, <1>2, OnePage
  <1>4. QuestionsTypeOK'
    BY <1>1, <1>3 DEF QuestionsTypeOK
  <1>5. RoundInv'
    BY <1>1, <1>2, <1>3, RoundKept
  <1>6. ListedInv' /\ HalfDealt' /\ FilesInv' /\ DownIdle' /\ FoundInv' /\ RoomLeft'
    BY DEF QInv, ListedInv, HalfDealt, FilesInv, DownIdle, FoundInv, RoomLeft, Delivering
  <1> QED
    BY <1>3, <1>4, <1>5, <1>6 DEF QInv

\* The types that the steps of one tab need.
LEMMA TabTypes ==
  ASSUME QInv, NEW t \in Windows
  PROVE  /\ shown \in [Windows -> Page] /\ beat \in BeatAges /\ "fresh" \in BeatAges
         /\ moves \in 0..MaxMoves /\ shown[t].view \in Views
         /\ shown[t].at \in PageStates /\ shown[t].stale \in BOOLEAN
  BY DEF QInv, QuestionsTypeOK, Page, BeatAges

\* The page that was sent runs.
LEMMA LoadStep ==
  ASSUME QInv, NEW t \in Windows, Load(t)
  PROVE  QInv'
  <1>1. Only(t, shown[t].view, "choosing", shown[t].stale, shown[t].asleep)
    BY TabTypes, ShownFields, StatesAre DEF Load
  <1>2. beat' \in BeatAges /\ (beat' = beat \/ beat' = "fresh")
        /\ (Served /\ beat' # "fresh" => shown[t].view = "stalled")
    BY TabTypes DEF Load, Heard
  <1>3. moves' \in 0..MaxMoves /\ shown[t].view \in Views /\ shown[t].at = "loading"
        /\ UNCHANGED <<daemon, hand, wait, claim, task, listed, answer, next, agent, mixed>>
    BY TabTypes DEF Load
  <1> QED
    BY <1>1, <1>2, <1>3, PageStep DEF Views, ShowsCards, BeatingViews

\* The page that has answered shuffles its cards away.
LEMMA ShuffleStep ==
  ASSUME QInv, NEW t \in Windows, Shuffle(t)
  PROVE  QInv'
  <1>1. Only(t, shown[t].view, "choosing", FALSE, FALSE)
    BY TabTypes, ShownFields, StatesAre DEF Shuffle
  <1>2. Beats(t)
    BY DEF QInv, PagesInv, Shuffle, Beats, BeatingViews
  <1>3. UNCHANGED <<daemon, hand, wait, beat, claim, task, listed, answer, next, agent, mixed>>
        /\ moves' \in 0..MaxMoves /\ beat \in BeatAges /\ shown[t].view \in Views
    BY TabTypes DEF Shuffle, serverVars
  <1>4. shown[t].view # "choosing"
    BY DEF QInv, PagesInv, Shuffle, ShowsNext
  <1> QED
    BY <1>1, <1>2, <1>3, <1>4, PageStep DEF Views

\* A tab is closed, or shows that nobody serves the address.
LEMMA EmptyStep ==
  ASSUME QInv, NEW t \in Windows, NEW at \in {"closed", "gone"},
         shown' = [shown EXCEPT ![t] = Empty(at)], moves' \in 0..MaxMoves,
         UNCHANGED <<serverVars, listed, answer, next, agent, mixed>>
  PROVE  QInv'
  <1>1. Only(t, at, "choosing", FALSE, FALSE)
    BY TabTypes, ShownFields, StatesAre
  <1>2. UNCHANGED <<daemon, hand, wait, beat, claim, task, listed, answer, next, agent, mixed>>
    BY DEF serverVars
  <1> QED
    BY <1>1, <1>2, TabTypes, PageStep DEF BeatingViews

\* A page gives up waiting.
LEMMA StallStep ==
  ASSUME QInv, NEW t \in Windows, Stall(t)
  PROVE  QInv'
  <1>1. Only(t, "stalled", shown[t].view, shown[t].stale, shown[t].asleep)
    BY TabTypes, ShownFields, StatesAre DEF Stall
  <1>2. UNCHANGED <<daemon, hand, wait, beat, claim, task, listed, answer, next, agent, moves, mixed>>
    BY DEF Stall, serverVars
  <1> QED
    BY <1>1, <1>2, TabTypes, PageStep DEF BeatingViews

\* There is room for what the user does.
LEMMA MovesType ==
  ASSUME QInv, UserMoves
  PROVE  moves' \in 0..MaxMoves
  BY MovesAssumption DEF QInv, QuestionsTypeOK, UserMoves

\* The lid closes.
LEMMA NapStep ==
  ASSUME QInv, NEW t \in Windows, Nap(t)
  PROVE  QInv'
  <1>1. Only(t, shown[t].at, shown[t].view, shown[t].stale, TRUE)
    BY TabTypes, ShownFields DEF Nap
  <1>2. UNCHANGED <<daemon, hand, wait, beat, claim, task, listed, answer, next, agent, mixed>>
        /\ shown[t].at \in Views /\ moves' \in 0..MaxMoves
    BY MovesType DEF Nap, serverVars
  <1> QED
    BY <1>1, <1>2, TabTypes, PageStep DEF Views, ShowsCards

\* The lid opens.
LEMMA WakeStep ==
  ASSUME QInv, NEW t \in Windows, Wake(t)
  PROVE  QInv'
  <1>1. Only(t, shown[t].at, shown[t].view, shown[t].stale, FALSE)
    BY TabTypes, ShownFields DEF Wake
  <1>2. shown[t].at # "dealing"
    BY DEF QInv, PagesInv, Wake
  <1>3. beat' \in BeatAges /\ (beat' = beat \/ beat' = "fresh")
        /\ (Served /\ beat' # "fresh" => shown[t].at \notin BeatingViews)
    BY TabTypes DEF Wake, Heard
  <1>4. UNCHANGED <<daemon, hand, wait, claim, task, listed, answer, next, agent, mixed>>
        /\ moves' \in 0..MaxMoves
    BY TabTypes DEF Wake
  <1> QED
    BY <1>1, <1>2, <1>3, <1>4, PageStep DEF ShowsCards

-----------------------------------------------------------------------------
(***************************************************************************)
(* The claim of a hand.                                                    *)
(***************************************************************************)
\* GET / and the reload of a waiting page: the only step that loads a hand.
LEMMA GetStep ==
  ASSUME QInv, NEW t \in Windows, Get(t), moves' \in 0..MaxMoves, UNCHANGED <<agent, mixed>>
  PROVE  QInv'
  <1> DEFINE loads == next # NoHand /\ next.age # "torn"
  <1>1. /\ Served /\ Ready /\ UNCHANGED <<daemon, beat, claim, listed, answer, next>>
        /\ loads => hand' = next.hand /\ wait' = "no"
        /\ ~loads => hand' = hand /\ wait' = wait
        /\ task' = IF next = NoHand THEN NoTask ELSE [at |-> "remove", tab |-> t]
    BY DEF Get
  <1>2. /\ hand' \in Hands /\ wait' \in {"no", "yes", "spent"}
        /\ task' \in Task \union {NoTask}
    BY <1>1 DEF QInv, QuestionsTypeOK, NextHand, Task
  <1>3. Render(wait') \in Views /\ (Render(wait') = "choosing" <=> wait' = "no")
    BY <1>2 DEF Render, Views
  <1>4. shown' = [shown EXCEPT ![t] = Sent(hand', wait')]
    BY DEF Get
  <1>5. Only(t, "loading", Render(wait'), FALSE, FALSE)
    BY <1>2, <1>4, TabTypes, ShownFields, StatesAre
  <1>6. /\ shown' \in [Windows -> Page] /\ PagesInv' /\ HeardInv'
        /\ ~loads /\ wait # "no" => (Spent => Spent')
    <2>1. Served' /\ (~loads /\ wait # "no" => Awaiting')
      BY <1>1 DEF Served, Awaiting
    <2>2. "loading" \notin BeatingViews /\ "loading" \notin {"choosing", "dealing"}
      BY DEF BeatingViews
    <2>3. QuestionsTypeOK /\ PagesInv /\ HeardInv
      BY DEF QInv
    <2>4. (Served' => Served) /\ (~loads /\ wait # "no" => (Awaiting => Awaiting'))
          /\ (~loads /\ wait # "no" => Render(wait') # "choosing") /\ beat' = beat
      BY <1>1, <1>3, <2>1
    <2> HIDE DEF loads
    <2> QED
      BY <1>5, <2>2, <2>3, <2>4, OnePage
  <1>7. Given' = Given /\ answer = Given
    BY <1>1, GivenType DEF Given, QInv, FilesInv, Ready, NoTask
  <1>8. task.at = "none" /\ (next = NoHand => task'.at = "none") /\ (next # NoHand => task'.at = "remove")
    BY <1>1 DEF Ready, NoTask
  <1>9. RoundInv'
    <2> SUFFICES ASSUME ~mixed, agent.at # "over" PROVE Round'
      BY DEF RoundInv
    <2>1. HeldRound /\ AnsweredRound /\ Owed /\ Dealt /\ HalfDealt
      BY DEF QInv, RoundInv, Round
    <2>2. ~loads => (Spent => Spent')
      BY <1>1, <1>6 DEF Spent, Awaiting
    <2>3. CASE loads
      <3>1. agent.at # "holding" /\ Given = NoPick /\ next' = next
        BY <1>1, <2>1, <2>3 DEF HeldRound, AnsweredRound
      <3>2. HeldRound' /\ AnsweredRound'
        BY <1>7, <3>1 DEF HeldRound, AnsweredRound
      <3>3. CASE agent.owes
        <4>1. agent.at = "stamping" /\ next.hand = agent.sent + 1
          BY <1>8, <2>1, <2>3, <3>3 DEF Owed, HalfDealt, Delivering
        <4> QED
          BY <1>1, <1>8, <2>3, <3>2, <3>3, <4>1 DEF Round, Owed, Dealt, Delivering
      <3>4. CASE ~agent.owes
        <4>1. next.hand = agent.sent /\ ~Delivering
          BY <1>8, <2>1, <2>3, <3>4 DEF Dealt, Owed
        <4> QED
          BY <1>1, <1>8, <2>3, <3>2, <3>4, <4>1 DEF Round, Owed, Dealt, Delivering
      <3> QED
        BY <3>3, <3>4
    <2>4. CASE ~loads
      <3>1. next # NoHand => agent.at = "copying" /\ Given = NoPick
        BY <2>1, <2>4 DEF HalfDealt, AnsweredRound
      <3>2. hand' = hand /\ next' = next
        BY <1>1, <2>4
      <3>3. HeldRound' /\ AnsweredRound'
        BY <1>7, <1>8, <2>1, <2>2, <2>4, <3>1, <3>2 DEF HeldRound, AnsweredRound, Delivering, Claiming
      <3>4. Owed' /\ Dealt'
        BY <1>7, <1>8, <2>1, <2>2, <2>4, <3>1, <3>2 DEF Owed, Dealt, Delivering
      <3> QED
        BY <3>3, <3>4 DEF Round
    <2> QED
      BY <2>3, <2>4
  <1>10. QuestionsTypeOK'
    BY <1>1, <1>2, <1>6 DEF QInv, QuestionsTypeOK
  <1>11. ListedInv' /\ HalfDealt' /\ FilesInv' /\ DownIdle' /\ FoundInv' /\ RoomLeft'
    BY <1>1, <1>8 DEF Served, QInv, ListedInv, HalfDealt, FilesInv, DownIdle, FoundInv, RoomLeft, Delivering
  <1> QED
    BY <1>6, <1>9, <1>10, <1>11 DEF QInv

\* A step of the daemon that changes no tab.
LEMMA BusyStep ==
  ASSUME QInv, UNCHANGED <<hand, wait, beat, listed, shown, agent, moves, mixed>>,
         daemon' = daemon \/ (daemon' = "leaving" /\ daemon # "down")
  PROVE  PagesInv' /\ HeardInv' /\ ListedInv' /\ RoomLeft' /\ (Spent => Spent')
  <1>1. Served' <=> Served
    BY DEF Served
  <1> QED
    BY <1>1 DEF QInv, PagesInv, HeardInv, ListedInv, RoomLeft, Delivering, Beats, Awake, Spent,
                ShowsCards, Awaiting

\* The delivered file is removed, loaded or not.
LEMMA RemoveStep ==
  ASSUME QInv, RemoveNext
  PROVE  QInv'
  <1>1. /\ UNCHANGED <<daemon, hand, wait, beat, claim, listed, answer, shown, agent, moves, mixed>>
        /\ task.at = "remove" /\ next' = NoHand /\ task' = [task EXCEPT !.at = "stamp"]
    BY DEF RemoveNext
  <1>2. task' \in Task /\ task'.at = "stamp"
    BY <1>1 DEF QInv, QuestionsTypeOK, NoTask, Task
  <1>3. PagesInv' /\ HeardInv' /\ ListedInv' /\ RoomLeft' /\ (Spent => Spent')
    BY <1>1, BusyStep
  <1>4. answer # HalfWritten /\ Given' = Given
    BY <1>1 DEF QInv, FilesInv, Given
  <1>5. RoundInv'
    <2> SUFFICES ASSUME ~mixed, agent.at # "over" PROVE Round'
      BY <1>1 DEF RoundInv
    <2>1. HeldRound /\ AnsweredRound /\ Owed /\ Dealt
      BY <1>1 DEF QInv, RoundInv, Round
    <2>2. Given = NoPick /\ agent.at # "holding"
      BY <1>1, <2>1 DEF AnsweredRound, Claiming, HeldRound, QInv, FilesInv
    <2> QED
      BY <1>1, <1>2, <1>3, <1>4, <2>1, <2>2
      DEF Round, HeldRound, AnsweredRound, Owed, Dealt, Delivering
  <1>6. QuestionsTypeOK'
    BY <1>1, <1>2 DEF QInv, QuestionsTypeOK
  <1>7. HalfDealt' /\ FilesInv' /\ DownIdle' /\ FoundInv'
    BY <1>1, <1>2, <1>4 DEF QInv, HalfDealt, FilesInv, DownIdle, FoundInv, NoTask
  <1> QED
    BY <1>3, <1>5, <1>6, <1>7 DEF QInv

\* The claim is noted.
LEMMA StampClaimStep ==
  ASSUME QInv, StampClaim
  PROVE  QInv'
  <1>1. /\ UNCHANGED <<daemon, hand, wait, beat, listed, answer, next, shown, agent, moves, mixed>>
        /\ task.at = "stamp" /\ task'.at = "none" /\ task' = NoTask /\ claim' = TRUE
    BY DEF StampClaim, NoTask
  <1>2. PagesInv' /\ HeardInv' /\ ListedInv' /\ RoomLeft' /\ (Spent => Spent')
    BY <1>1, BusyStep
  <1>3. answer # HalfWritten /\ Given' = Given /\ ~Claiming'
    BY <1>1 DEF QInv, FilesInv, Given, Claiming
  <1>4. RoundInv'
    BY <1>1, <1>2, <1>3, RoundKept DEF QInv
  <1>5. QuestionsTypeOK'
    BY <1>1 DEF QInv, QuestionsTypeOK
  <1>6. HalfDealt' /\ FilesInv' /\ DownIdle' /\ FoundInv'
    BY <1>1, <1>3 DEF QInv, HalfDealt, FilesInv, DownIdle, FoundInv
  <1> QED
    BY <1>2, <1>4, <1>5, <1>6 DEF QInv

-----------------------------------------------------------------------------
(***************************************************************************)
(* The answer.                                                             *)
(***************************************************************************)
\* What a click changes on the pages.
LEMMA PicksPages ==
  ASSUME QInv, NEW t \in Windows, NEW reroll \in BOOLEAN, Picks(t, reroll)
  PROVE  /\ shown' \in [Windows -> Page]
         /\ shown'[t].at = "dealing" /\ shown'[t].stale /\ Awake(t)' /\ ShowsNext(shown'[t].view)
         /\ \A u \in Windows \ {t} :
              /\ shown'[u].at = shown[u].at /\ shown'[u].view = shown[u].view
              /\ shown'[u].asleep = shown[u].asleep
              /\ shown'[u].stale = IF shown[u].at \in {"choosing", "loading"}
                                     THEN TRUE ELSE shown[u].stale
  <1> DEFINE shows == IF reroll \/ shown[t].more THEN "waiting" ELSE "done"
             P(u, view) ==
               CASE u = t -> [shown[u] EXCEPT !.at = "dealing", !.stale = TRUE, !.view = view]
                 [] u # t /\ shown[u].at \in {"choosing", "loading"} ->
                      [shown[u] EXCEPT !.stale = TRUE]
                 [] OTHER -> shown[u]
  <1>1. PICK view \in {shows} \union (IF shown[t].at = "dealing" THEN {shown[t].view} ELSE {}) :
          shown' = [u \in Windows |-> P(u, view)]
    BY DEF Picks
  <1>2. \A u \in Windows : shown[u] \in Page
    BY DEF QInv, QuestionsTypeOK
  <1>3. ShowsNext(view) /\ view \in Views
    <2>1. ShowsNext(shows)
      BY DEF ShowsNext
    <2>2. shown[t].at = "dealing" => ShowsNext(shown[t].view)
      BY DEF QInv, PagesInv
    <2>3. ShowsNext(view)
      BY <1>1, <2>1, <2>2
    <2> QED
      BY <2>3, StatesAre DEF ShowsNext
  <1>4. PageIs(P(t, view), "dealing", view, TRUE, shown[t].asleep)
    <2>1. "dealing" \in PageStates /\ TRUE \in BOOLEAN /\ shown[t] \in Page
      BY <1>2, StatesAre
    <2>2. PageIs([shown[t] EXCEPT !.at = "dealing", !.stale = TRUE, !.view = view],
                 "dealing", view, TRUE, shown[t].asleep)
      BY <1>3, <2>1, PageFields
    <2>3. P(t, view) = [shown[t] EXCEPT !.at = "dealing", !.stale = TRUE, !.view = view]
      OBVIOUS
    <2> QED
      BY <2>2, <2>3
  <1>5. ASSUME NEW u \in Windows \ {t}
        PROVE  PageIs(P(u, view), shown[u].at, shown[u].view,
                      IF shown[u].at \in {"choosing", "loading"} THEN TRUE ELSE shown[u].stale,
                      shown[u].asleep)
    <2>1. CASE shown[u].at \in {"choosing", "loading"}
      <3>1. P(u, view) = [shown[u] EXCEPT !.stale = TRUE]
        BY <2>1
      <3>2. PageIs([shown[u] EXCEPT !.stale = TRUE],
                   shown[u].at, shown[u].view, TRUE, shown[u].asleep)
        BY <1>2, <1>5, PageFields, StatesAre
      <3> QED
        BY <2>1, <3>1, <3>2
    <2>2. CASE ~(shown[u].at \in {"choosing", "loading"})
      <3>1. P(u, view) = shown[u]
        BY <2>2
      <3> QED
        BY <1>2, <2>2, <3>1 DEF PageIs
    <2> QED
      BY <2>1, <2>2
  <1> HIDE DEF P, shows
  <1>6. \A u \in Windows : shown'[u] = P(u, view) /\ P(u, view) \in Page
    BY <1>1, <1>4, <1>5 DEF PageIs
  <1>7. Awake(t)
    BY DEF Picks
  <1> QED
    BY <1>1, <1>3, <1>4, <1>5, <1>6, <1>7 DEF PageIs, Awake

\* POST /answer creates the file.
LEMMA PicksStep ==
  ASSUME QInv, NEW t \in Windows, NEW reroll \in BOOLEAN, Picks(t, reroll)
  PROVE  QInv'
  <1> DEFINE open == reroll \/ hand \in FollowUps
  <1>1. /\ moves' \in 0..MaxMoves /\ UNCHANGED <<daemon, hand, beat, claim, listed, next, agent>>
        /\ Awake(t) /\ shown[t].at \in {"choosing", "dealing"} /\ Served /\ Ready
        /\ mixed' = (mixed \/ shown[t].stale) /\ answer' = HalfWritten
        /\ task' = [at |-> "fill", tab |-> t, pick |-> [hand |-> hand, open |-> open]]
    BY MovesType DEF Picks
  <1>2. /\ task' \in Task /\ task'.at = "fill" /\ Given' = task'.pick /\ Given' \in Answer
        /\ Given'.hand = hand /\ (Given'.open <=> open)
        /\ wait' \in {"no", "yes", "spent"} /\ (open => Awaiting')
    <2>1. [hand |-> hand, open |-> open] \in Answer
      BY DEF QInv, QuestionsTypeOK, Answer
    <2>2. task' \in Task /\ task'.at = "fill" /\ task'.pick = [hand |-> hand, open |-> open]
      BY <1>1, <2>1 DEF Task
    <2>3. wait' \in {"no", "yes", "spent"} /\ (open => Awaiting')
      BY DEF Picks, Awaiting, QInv, QuestionsTypeOK
    <2> HIDE DEF open
    <2> QED
      BY <1>1, <2>1, <2>2, <2>3 DEF Given
  <1>3. /\ shown' \in [Windows -> Page] /\ mixed' \in BOOLEAN
    BY <1>1, PicksPages DEF QInv, QuestionsTypeOK, Page
  <1>4. QuestionsTypeOK'
    BY <1>1, <1>2, <1>3 DEF QInv, QuestionsTypeOK
  <1>5. PagesInv'
    BY PicksPages DEF QInv, PagesInv, Awake
  <1>6. beat = "fresh" /\ HeardInv'
    <2>1. Beats(t)
      BY <1>1 DEF Beats, BeatingViews
    <2> QED
      BY <1>1, <2>1 DEF QInv, HeardInv
  <1>7. ~Claiming /\ ~Claiming' /\ task.at = "none" /\ Given' # NoPick
    BY <1>1, <1>2, FilesAssumption DEF Claiming, Ready, NoTask
  <1>8. RoundInv'
    <2> SUFFICES ASSUME ~mixed, ~shown[t].stale, agent.at # "over" PROVE Round'
      BY <1>1 DEF RoundInv
    <2>1. HeldRound /\ AnsweredRound /\ Owed /\ Dealt
      BY DEF QInv, RoundInv, Round
    <2>2. ~Spent
      BY <1>1 DEF Spent, ShowsCards
    <2>3. open => Spent'
      BY <1>2, PicksPages DEF QInv, PagesInv, Spent, ShowsCards
    <2>4. HeldRound'
      BY <1>1, <2>1, <2>2 DEF HeldRound
    <2>5. CASE agent.owes
      <3>1. agent.at = "stamping" /\ hand = agent.sent + 1 /\ next = NoHand
        BY <1>7, <2>1, <2>2, <2>5 DEF Owed
      <3> QED
        BY <1>1, <1>2, <1>7, <2>3, <2>4, <2>5, <3>1 DEF Round, AnsweredRound, Owed, Dealt, Delivering
    <2>6. CASE ~agent.owes
      <3>1. hand = agent.sent /\ next = NoHand
        BY <1>7, <2>1, <2>2, <2>6 DEF Dealt
      <3> QED
        BY <1>1, <1>2, <1>7, <2>1, <2>3, <2>4, <2>6, <3>1
        DEF Round, AnsweredRound, Owed, Dealt, Delivering
    <2> QED
      BY <2>5, <2>6
  <1>9. ListedInv' /\ HalfDealt' /\ FilesInv' /\ DownIdle' /\ FoundInv' /\ RoomLeft'
    BY <1>1, <1>2, <1>6, FilesAssumption
    DEF Served, QInv, ListedInv, HalfDealt, FilesInv, DownIdle, FoundInv, RoomLeft, Delivering
  <1> QED
    BY <1>4, <1>5, <1>6, <1>8, <1>9 DEF QInv

\* The answer is written.
LEMMA FillAnswerStep ==
  ASSUME QInv, FillAnswer
  PROVE  QInv'
  <1>1. /\ UNCHANGED <<hand, wait, beat, claim, listed, next, shown, agent, moves, mixed>>
        /\ task.at = "fill" /\ task' = NoTask /\ task'.at = "none"
        /\ answer' = IF answer = NoPick THEN NoPick ELSE task.pick
        /\ daemon' = IF task.pick.open THEN daemon ELSE "leaving"
    BY DEF FillAnswer, NoTask
  <1>2. task.pick \in Answer /\ task # NoTask
    BY <1>1 DEF QInv, QuestionsTypeOK, Task, NoTask
  <1>3. daemon # "down"
    BY <1>2 DEF QInv, DownIdle, Served
  <1>4. PagesInv' /\ HeardInv' /\ ListedInv' /\ RoomLeft' /\ (Spent => Spent')
    BY <1>1, <1>3, BusyStep
  <1>5. /\ answer' # HalfWritten /\ Given' = Given /\ ~Claiming' /\ ~Claiming
        /\ (answer' = NoPick <=> answer = NoPick)
    BY <1>1, <1>2, FilesAssumption DEF QInv, FilesInv, Given, Claiming
  <1>6. RoundInv'
    BY <1>1, <1>4, <1>5, RoundKept DEF QInv
  <1>7. QuestionsTypeOK'
    BY <1>1, <1>2 DEF QInv, QuestionsTypeOK
  <1>8. HalfDealt' /\ FilesInv' /\ DownIdle' /\ FoundInv'
    BY <1>1, <1>5 DEF QInv, HalfDealt, FilesInv, DownIdle, FoundInv
  <1> QED
    BY <1>4, <1>6, <1>7, <1>8 DEF QInv

-----------------------------------------------------------------------------
(***************************************************************************)
(* Steps of the agent.                                                     *)
(***************************************************************************)
\* What no step of the agent touches.
LEMMA AgentOnlyKept ==
  ASSUME QInv, UNCHANGED <<serverVars, shown, moves>>
  PROVE  /\ PagesInv' /\ HeardInv' /\ DownIdle' /\ (Spent => Spent')
         /\ UNCHANGED <<daemon, hand, wait, beat, claim, task, shown, moves>>
  BY DEF QInv, PagesInv, HeardInv, DownIdle, Beats, Awake, Spent, ShowsCards, Served, Awaiting,
         serverVars

\* What the agent needs to be in the types.
LEMMA AgentTypes ==
  ASSUME QInv
  PROVE  /\ agent \in AgentState /\ agent.holds \in Held3 /\ agent.owes \in BOOLEAN
         /\ agent.verdict \in Verdicts /\ answer \in Held3 /\ Unread \in Readings
         /\ [beat |-> beat, claim |-> claim] \in Readings
         /\ agent.sent \in Hands /\ agent.fails \in 0..MaxRetries + 1
         /\ {"none", "closed", "gone"} \subseteq Verdicts /\ NoPick \in Held3
         /\ {"idle", "waiting", "checking", "judging", "statting", "reading", "holding",
             "copying", "stamping", "over"} \subseteq AgentStates
  BY DEF QInv, QuestionsTypeOK, AgentState, Held3, Readings, Verdicts, Unread, BeatAges, AgentStates

\* A turn of --wait, and of --update if there is nobody to deal to: the agent neither
\* takes nor gives anything.
LEMMA TurnKept ==
  ASSUME QInv, UNCHANGED <<serverVars, listed, answer, next, shown, moves, mixed>>,
         NEW at \in AgentStates \ {"holding", "copying", "stamping"}, NEW v,
         AgentIs(agent', at, agent.holds, agent.owes, agent.sent, agent.fails, v),
         agent.at \notin {"copying", "stamping", "over"},
         at = "reading" => answer # NoPick,
         at = "checking" => answer = NoPick
  PROVE  QInv'
  <1>1. /\ PagesInv' /\ HeardInv' /\ DownIdle' /\ (Spent => Spent')
        /\ UNCHANGED <<daemon, hand, wait, beat, claim, task, shown, moves>>
    BY AgentOnlyKept
  <1>2. QuestionsTypeOK'
    BY <1>1 DEF QInv, QuestionsTypeOK, AgentIs
  <1>3. Given' = Given /\ (Claiming' <=> Claiming)
    BY <1>1 DEF Given, Claiming
  <1>4. RoundInv'
    BY <1>1, <1>3
    DEF QInv, RoundInv, Round, HeldRound, AnsweredRound, Owed, Dealt, Delivering, AgentIs
  <1>5. ListedInv' /\ HalfDealt' /\ FilesInv' /\ FoundInv' /\ RoomLeft'
    BY <1>1 DEF QInv, ListedInv, HalfDealt, FilesInv, FoundInv, RoomLeft, Delivering, AgentIs
  <1> QED
    BY <1>1, <1>2, <1>4, <1>5 DEF QInv

\* --wait begins.
LEMMA StartWaitStep ==
  ASSUME QInv, StartWait
  PROVE  QInv'
  <1>1. AgentIs(agent', "waiting", agent.holds, agent.owes, agent.sent, agent.fails, "none")
    BY AgentTypes, AgentFields DEF StartWait
  <1> QED
    BY <1>1, AgentTypes, TurnKept DEF StartWait, AgentOnly

\* It looks for the answer.
LEMMA LooksStep ==
  ASSUME QInv, Looks
  PROVE  QInv'
  <1> DEFINE at == IF Answered THEN "reading" ELSE "checking"
  <1>1. at \in AgentStates \ {"holding", "copying", "stamping"}
        /\ agent' = [agent EXCEPT !.at = at] /\ agent.at = "waiting"
        /\ (at = "reading" => answer # NoPick) /\ (at = "checking" => answer = NoPick)
    BY AgentTypes DEF Looks, Answered
  <1> HIDE DEF at
  <1>2. AgentIs(agent', at, agent.holds, agent.owes, agent.sent, agent.fails, agent.verdict)
    BY <1>1, AgentTypes, AgentFields
  <1> QED
    BY <1>1, <1>2, TurnKept DEF Looks, AgentOnly

\* It looks for the server.
LEMMA ChecksStep ==
  ASSUME QInv, Checks
  PROVE  QInv'
  <1>1. CASE agent' = [agent EXCEPT !.at = "judging"]
    <2>1. AgentIs(agent', "judging", agent.holds, agent.owes, agent.sent, agent.fails, agent.verdict)
      BY <1>1, AgentTypes, AgentFields
    <2> QED
      BY <2>1, AgentTypes, TurnKept DEF Checks, AgentOnly
  <1>2. CASE Says("gone", "over")
    <2>1. AgentIs(agent', "over", agent.holds, agent.owes, agent.sent, agent.fails, "gone")
      BY <1>2, AgentTypes, AgentFields DEF Says
    <2> QED
      BY <2>1, AgentTypes, TurnKept DEF Checks, AgentOnly
  <1>3. CASE agent' = [agent EXCEPT !.at = "over", !.verdict = "gone", !.torn = TRUE]
    <2>1. AgentIs(agent', "over", agent.holds, agent.owes, agent.sent, agent.fails, "gone")
      BY <1>3, AgentTypes, AgentFields
    <2> QED
      BY <2>1, AgentTypes, TurnKept DEF Checks, AgentOnly
  <1> QED
    BY <1>1, <1>2, <1>3 DEF Checks

\* It reads the state.
LEMMA ReadsStateStep ==
  ASSUME QInv, ReadsState
  PROVE  QInv'
  <1>1. CASE agent' = [agent EXCEPT !.at = "statting", !.read = [beat |-> beat, claim |-> claim]]
    <2>1. AgentIs(agent', "statting", agent.holds, agent.owes, agent.sent, agent.fails, agent.verdict)
      BY <1>1, AgentTypes, AgentFields
    <2> QED
      BY <2>1, AgentTypes, TurnKept DEF ReadsState, AgentOnly
  <1>2. CASE Says("none", "idle")
    <2>1. AgentIs(agent', "idle", agent.holds, agent.owes, agent.sent, agent.fails, "none")
      BY <1>2, AgentTypes, AgentFields DEF Says
    <2> QED
      BY <2>1, AgentTypes, TurnKept DEF ReadsState, AgentOnly
  <1> QED
    BY <1>1, <1>2 DEF ReadsState

\* It judges the page.
LEMMA JudgesStep ==
  ASSUME QInv, Judges
  PROVE  QInv'
  <1>1. ASSUME NEW v \in {"none", "closed"}, Says(v, "idle")
        PROVE  QInv'
    <2>1. AgentIs(agent', "idle", agent.holds, agent.owes, agent.sent, agent.fails, v)
      BY <1>1, AgentTypes, AgentFields DEF Says
    <2> QED
      BY <2>1, AgentTypes, TurnKept DEF Judges, AgentOnly
  <1>2. CASE Answered /\ agent' = [agent EXCEPT !.at = "reading", !.read = Unread]
    <2>1. AgentIs(agent', "reading", agent.holds, agent.owes, agent.sent, agent.fails, agent.verdict)
      BY <1>2, AgentTypes, AgentFields
    <2> QED
      BY <1>2, <2>1, AgentTypes, TurnKept DEF Judges, AgentOnly, Answered
  <1> QED
    BY <1>1, <1>2 DEF Judges

\* It reads the answer.
LEMMA ReadsAnswerStep ==
  ASSUME QInv, ReadsAnswer
  PROVE  QInv'
  <1>1. /\ PagesInv' /\ HeardInv' /\ DownIdle' /\ (Spent => Spent')
        /\ UNCHANGED <<daemon, hand, wait, beat, claim, task, shown, moves, listed, answer, next, mixed>>
    BY AgentOnlyKept DEF ReadsAnswer, AgentOnly
  <1>2. agent.at = "reading" /\ answer # NoPick
    BY DEF ReadsAnswer, QInv, FoundInv
  <1>3. AgentIs(agent', "holding", answer, agent.owes, agent.sent, agent.fails, agent.verdict)
    BY AgentTypes, AgentFields DEF ReadsAnswer
  <1>4. QuestionsTypeOK'
    BY <1>1, <1>3 DEF QInv, QuestionsTypeOK, AgentIs
  <1>5. Given' = Given /\ (Claiming' <=> Claiming) /\ Given # NoPick
        /\ (answer # HalfWritten => Given = answer)
    BY <1>1, <1>2, GivenType DEF Given, Claiming
  <1>6. RoundInv'
    BY <1>1, <1>2, <1>3, <1>5
    DEF QInv, RoundInv, Round, HeldRound, AnsweredRound, Owed, Dealt, Delivering, AgentIs
  <1>7. ListedInv' /\ HalfDealt' /\ FilesInv' /\ FoundInv' /\ RoomLeft'
    BY <1>1, <1>2, <1>3
    DEF QInv, ListedInv, HalfDealt, FilesInv, FoundInv, RoomLeft, Delivering, AgentIs
  <1> QED
    BY <1>1, <1>4, <1>6, <1>7 DEF QInv

\* It removes the answer it has read.
LEMMA CollectsStep ==
  ASSUME QInv, Collects
  PROVE  QInv'
  <1> DEFINE at == IF KeepsOpen THEN "idle" ELSE "over"
  <1>1. /\ UNCHANGED <<serverVars, next, shown, moves, mixed>>
        /\ agent.at = "holding" /\ answer' = NoPick /\ listed' = (listed /\ KeepsOpen)
        /\ agent' = [agent EXCEPT !.at = at, !.owes = KeepsOpen, !.holds = NoPick]
    BY DEF Collects
  <1>2. /\ PagesInv' /\ HeardInv' /\ DownIdle' /\ (Spent => Spent')
        /\ UNCHANGED <<daemon, hand, wait, beat, claim, task, shown, moves>>
    BY <1>1, AgentOnlyKept
  <1>3. KeepsOpen \in BOOLEAN /\ at \in AgentStates /\ (at = "idle" <=> KeepsOpen)
        /\ (at = "over" <=> ~KeepsOpen)
    <2>1. agent.holds \in Answer \union {HalfWritten}
      BY <1>1, GivenType
    <2> QED
      BY <2>1, AgentTypes DEF KeepsOpen, Answer
  <1> HIDE DEF at
  <1>4. AgentIs(agent', at, NoPick, KeepsOpen, agent.sent, agent.fails, agent.verdict)
    BY <1>1, <1>3, AgentTypes, AgentFields
  <1>5. QuestionsTypeOK'
    BY <1>1, <1>2, <1>3, <1>4 DEF QInv, QuestionsTypeOK, AgentIs
  <1>6. Given' = NoPick
    BY <1>1, FilesAssumption DEF Given
  <1>7. RoundInv'
    BY <1>1, <1>2, <1>3, <1>4, <1>6
    DEF QInv, RoundInv, Round, HeldRound, AnsweredRound, Owed, Dealt, Delivering, AgentIs, KeepsOpen
  <1>8. ListedInv' /\ HalfDealt' /\ FilesInv' /\ FoundInv' /\ RoomLeft'
    BY <1>1, <1>2, <1>3, <1>4, FilesAssumption
    DEF QInv, ListedInv, HalfDealt, FilesInv, FoundInv, RoomLeft, Delivering, AgentIs
  <1> QED
    BY <1>2, <1>5, <1>7, <1>8 DEF QInv

\* --update creates the file.
LEMMA DealsStep ==
  ASSUME QInv, Deals
  PROVE  QInv'
  <1>1. /\ UNCHANGED <<serverVars, shown, moves, listed, answer, mixed>>
        /\ agent.at = "idle" /\ agent.owes /\ agent.sent < MaxHands /\ agent.fails <= MaxRetries
    BY DEF Deals
  <1>2. /\ PagesInv' /\ HeardInv' /\ DownIdle' /\ (Spent => Spent')
        /\ UNCHANGED <<daemon, hand, wait, beat, claim, task, shown, moves>>
    BY <1>1, AgentOnlyKept
  <1>3. CASE agent' = [agent EXCEPT !.at = "copying", !.verdict = "none", !.torn = FALSE]
             /\ next' = [hand |-> agent.sent + 1, age |-> "torn"]
    <2>1. AgentIs(agent', "copying", agent.holds, agent.owes, agent.sent, agent.fails, "none")
      BY <1>3, AgentTypes, AgentFields
    <2>2. next' \in NextHand /\ next' # NoHand /\ next'.hand = agent.sent + 1 /\ next'.age = "torn"
      <3>1. agent.sent + 1 \in Hands
        BY <1>1, AgentTypes, HandsAssumption DEF Hands
      <3> QED
        BY <1>3, <3>1, FilesAssumption DEF NextHand
    <2>3. QuestionsTypeOK'
      BY <1>1, <1>2, <2>1, <2>2 DEF QInv, QuestionsTypeOK, AgentIs
    <2>4. Given' = Given /\ (Claiming' <=> Claiming)
      BY <1>1, <1>2 DEF Given, Claiming
    <2>5. RoundInv'
      BY <1>1, <1>2, <2>1, <2>2, <2>4
      DEF QInv, RoundInv, Round, HeldRound, AnsweredRound, Owed, Dealt, Delivering, AgentIs
    <2>6. ListedInv' /\ HalfDealt' /\ FilesInv' /\ FoundInv' /\ RoomLeft'
      BY <1>1, <1>2, <2>1, <2>2
      DEF QInv, ListedInv, HalfDealt, FilesInv, FoundInv, RoomLeft, Delivering, AgentIs
    <2> QED
      BY <1>2, <2>3, <2>5, <2>6 DEF QInv
  <1>4. CASE agent' = [agent EXCEPT !.at = "over", !.verdict = "gone", !.torn = Alive] /\ next' = next
    <2>1. Alive \in BOOLEAN
      BY DEF Alive, QInv, QuestionsTypeOK
    <2>2. AgentIs(agent', "over", agent.holds, agent.owes, agent.sent, agent.fails, "gone")
      BY <1>4, <2>1, AgentTypes, AgentFields
    <2>3. UNCHANGED <<serverVars, listed, answer, next, shown, moves, mixed>>
          /\ "over" \in AgentStates \ {"holding", "copying", "stamping"}
      BY <1>1, <1>4, AgentTypes
    <2> QED
      BY <1>1, <2>2, <2>3, TurnKept
  <1> QED
    BY <1>3, <1>4 DEF Deals

\* --update fills it.
LEMMA FillsStep ==
  ASSUME QInv, Fills
  PROVE  QInv'
  <1>1. /\ UNCHANGED <<serverVars, shown, moves, listed, answer, mixed>>
        /\ agent.at = "copying" /\ next \in NextHand \union {NoHand}
    BY DEF Fills, QInv, QuestionsTypeOK
  <1>2. /\ PagesInv' /\ HeardInv' /\ DownIdle' /\ (Spent => Spent')
        /\ UNCHANGED <<daemon, hand, wait, beat, claim, task, shown, moves>>
    BY <1>1, AgentOnlyKept
  <1>3. AgentIs(agent', "stamping", agent.holds, agent.owes, agent.sent, agent.fails, agent.verdict)
    BY AgentTypes, AgentFields DEF Fills
  <1>4. /\ next = NoHand => next' = NoHand
        /\ next # NoHand => next' \in NextHand /\ next'.hand = next.hand /\ next'.age = "new"
    BY <1>1 DEF Fills, NextHand
  <1>5. next' = NoHand <=> next = NoHand
    BY <1>1, <1>4, FilesAssumption
  <1>6. QuestionsTypeOK'
    BY <1>1, <1>2, <1>3, <1>4 DEF QInv, QuestionsTypeOK, AgentIs
  <1>7. Given' = Given /\ (Claiming' <=> Claiming)
    BY <1>1, <1>2 DEF Given, Claiming
  <1>8. RoundInv'
    BY <1>1, <1>2, <1>3, <1>4, <1>5, <1>7
    DEF QInv, RoundInv, Round, HeldRound, AnsweredRound, Owed, Dealt, Delivering, AgentIs
  <1>9. ListedInv' /\ HalfDealt' /\ FilesInv' /\ FoundInv' /\ RoomLeft'
    BY <1>1, <1>2, <1>3, <1>4, <1>5
    DEF QInv, ListedInv, HalfDealt, FilesInv, FoundInv, RoomLeft, Delivering, AgentIs
  <1> QED
    BY <1>2, <1>6, <1>8, <1>9 DEF QInv

\* --update stamps it, or finds it claimed.
LEMMA StampsStep ==
  ASSUME QInv, Stamps
  PROVE  QInv'
  <1>1. /\ UNCHANGED <<serverVars, shown, moves, listed, answer, next>>
        /\ agent.at = "stamping"
        /\ mixed' = (mixed \/ (next = NoHand /\ hand = agent.sent + 1)) /\ mixed' \in BOOLEAN
    BY DEF Stamps, QInv, QuestionsTypeOK
  <1>2. /\ PagesInv' /\ HeardInv' /\ DownIdle' /\ (Spent => Spent')
        /\ UNCHANGED <<daemon, hand, wait, beat, claim, task, shown, moves>>
    BY <1>1, AgentOnlyKept
  <1>3. Given' = Given /\ (Claiming' <=> Claiming)
    BY <1>1, <1>2 DEF Given, Claiming
  <1>4. CASE next = NoHand
    <2>1. agent' = [agent EXCEPT !.at = "idle", !.fails = agent.fails + 1]
      BY <1>4 DEF Stamps
    <2>2. agent.fails + 1 \in 0..MaxRetries + 1
      BY <1>1, AgentTypes, MovesAssumption DEF QInv, RoomLeft, Delivering
    <2>3. AgentIs(agent', "idle", agent.holds, agent.owes, agent.sent, agent.fails + 1,
                  agent.verdict)
      BY <2>1, <2>2, AgentTypes, AgentFields
    <2>4. QuestionsTypeOK'
      BY <1>1, <1>2, <2>3 DEF QInv, QuestionsTypeOK, AgentIs
    <2>5. RoundInv'
      BY <1>1, <1>2, <1>3, <1>4, <2>3
      DEF QInv, RoundInv, Round, HeldRound, AnsweredRound, Owed, Dealt, Delivering, AgentIs
    <2>6. ListedInv' /\ HalfDealt' /\ FilesInv' /\ FoundInv' /\ RoomLeft'
      BY <1>1, <1>2, <1>4, <2>3
      DEF QInv, ListedInv, HalfDealt, FilesInv, FoundInv, RoomLeft, Delivering, AgentIs
    <2> QED
      BY <1>2, <2>4, <2>5, <2>6 DEF QInv
  <1>5. CASE next # NoHand
    <2>1. agent' = [agent EXCEPT !.at = "idle", !.owes = FALSE, !.sent = agent.sent + 1]
      BY <1>5 DEF Stamps
    <2>2. agent.sent + 1 \in Hands
      BY <1>1, AgentTypes, HandsAssumption DEF QInv, RoomLeft, Delivering, Hands
    <2>3. AgentIs(agent', "idle", agent.holds, FALSE, agent.sent + 1, agent.fails, agent.verdict)
      BY <2>1, <2>2, AgentTypes, AgentFields
    <2>4. QuestionsTypeOK'
      BY <1>1, <1>2, <2>3 DEF QInv, QuestionsTypeOK, AgentIs
    <2>5. RoundInv'
      <3> SUFFICES ASSUME ~mixed PROVE Round'
        BY <1>1 DEF RoundInv
      <3>1. HeldRound /\ AnsweredRound /\ Owed /\ Dealt /\ Given = NoPick
        BY <1>1, <1>5 DEF QInv, RoundInv, Round, AnsweredRound
      <3> QED
        BY <1>1, <1>2, <1>3, <1>5, <2>3, <3>1
        DEF Round, HeldRound, AnsweredRound, Owed, Dealt, Delivering, AgentIs
    <2>6. ListedInv' /\ HalfDealt' /\ FilesInv' /\ FoundInv' /\ RoomLeft'
      BY <1>1, <1>2, <1>5, <2>3
      DEF QInv, ListedInv, HalfDealt, FilesInv, FoundInv, RoomLeft, Delivering, AgentIs
    <2> QED
      BY <1>2, <2>4, <2>5, <2>6 DEF QInv
  <1> QED
    BY <1>4, <1>5

-----------------------------------------------------------------------------
(***************************************************************************)
(* Time, and the daemon's own end.                                         *)
(***************************************************************************)
\* The process of the daemon ends, and at most one tab notices.
LEMMA DownKept ==
  ASSUME QInv, GoesDown, UNCHANGED <<next, moves, mixed>>,
         shown' = shown \/ \E t \in Windows : shown' = [shown EXCEPT ![t] = Empty("gone")]
  PROVE  /\ ~Served' /\ PagesInv' /\ HeardInv' /\ DownIdle' /\ (Spent => Spent')
         /\ shown' \in [Windows -> Page] /\ ~Claiming' /\ task'.at = "none"
         /\ daemon' \in {"up", "leaving", "down"} /\ wait' \in {"no", "yes", "spent"}
         /\ UNCHANGED <<hand, beat, claim>>
  <1>1. daemon' = "down" /\ wait' = "no" /\ task' = NoTask /\ UNCHANGED <<hand, beat, claim>>
        /\ ~Served' /\ ~Claiming' /\ task'.at = "none"
    BY DEF GoesDown, Served, Claiming, NoTask
  <1>2. HeardInv' /\ DownIdle'
    BY <1>1 DEF HeardInv, DownIdle
  <1>3. QuestionsTypeOK /\ PagesInv /\ HeardInv
    BY DEF QInv
  <1>4. PagesInv' /\ (Spent => Spent') /\ shown' \in [Windows -> Page]
    <2>1. CASE shown' = shown
      BY <1>1, <1>3, <2>1 DEF PagesInv, Spent, ShowsCards, Awake, QuestionsTypeOK
    <2>2. ASSUME NEW t \in Windows, shown' = [shown EXCEPT ![t] = Empty("gone")]
          PROVE  PagesInv' /\ (Spent => Spent') /\ shown' \in [Windows -> Page]
      <3>1. Only(t, "gone", "choosing", FALSE, FALSE)
        BY <2>2, TabTypes, ShownFields, StatesAre
      <3>2. (Served' => Served) /\ (Served' /\ Awaiting => Awaiting')
        BY <1>1
      <3>3. \A u \in Windows : shown'[u] = shown[u] \/ shown'[u].at = "gone"
        BY <3>1 DEF Only, PageIs
      <3>4. shown' \in [Windows -> Page] /\ PagesInv'
        BY <1>3, <3>1, <3>3 DEF Only, PagesInv, Awake
      <3>5. Spent => Spent'
        BY <3>2, <3>3 DEF Spent, ShowsCards
      <3> QED
        BY <3>4, <3>5
    <2> QED
      BY <2>1, <2>2
  <1> QED
    BY <1>1, <1>2, <1>4

\* --stop.
LEMMA StopStep ==
  ASSUME QInv, Stop
  PROVE  QInv'
  <1>1. /\ UNCHANGED <<next, moves, mixed>> /\ answer' = NoPick /\ listed' = FALSE
        /\ agent.at = "idle" /\ agent' = [agent EXCEPT !.at = "over", !.verdict = "none"]
    BY DEF Stop
  <1>2. AgentIs(agent', "over", agent.holds, agent.owes, agent.sent, agent.fails, "none")
    BY <1>1, AgentTypes, AgentFields
  <1>3. /\ PagesInv' /\ HeardInv' /\ DownIdle' /\ shown' \in [Windows -> Page]
        /\ daemon' \in {"up", "leaving", "down"} /\ wait' \in {"no", "yes", "spent"}
        /\ UNCHANGED <<hand, beat, claim>> /\ (task' = task \/ task' = NoTask)
    <2>1. CASE GoesDown /\ shown' = IF Ready THEN shown ELSE [shown EXCEPT ![task.tab] = Empty("gone")]
      <3>1. ~Ready => task.tab \in Windows
        BY DEF Ready, QInv, QuestionsTypeOK, Task
      <3> QED
        BY <1>1, <2>1, <3>1, DownKept DEF GoesDown
    <2>2. CASE UNCHANGED <<serverVars, shown>>
      BY <1>1, <2>2, AgentOnlyKept DEF QInv, QuestionsTypeOK
    <2> QED
      BY <2>1, <2>2 DEF Stop
  <1>4. QuestionsTypeOK'
    BY <1>1, <1>2, <1>3 DEF QInv, QuestionsTypeOK, AgentIs
  <1>5. RoundInv' /\ ListedInv' /\ RoomLeft'
    BY <1>1, <1>2 DEF RoundInv, ListedInv, RoomLeft, Delivering, AgentIs
  <1>6. HalfDealt' /\ FilesInv' /\ FoundInv'
    BY <1>1, <1>2, <1>3, FilesAssumption
    DEF QInv, HalfDealt, FilesInv, FoundInv, AgentIs, NoTask
  <1> QED
    BY <1>3, <1>4, <1>5, <1>6 DEF QInv

\* The daemon ends.
LEMMA DownStep ==
  ASSUME QInv, Expires \/ Leaves
  PROVE  QInv'
  <1>1. UNCHANGED <<listed, answer, next, shown, agent, moves, mixed>> /\ GoesDown /\ Ready
    BY DEF Expires, Leaves
  <1>2. task = NoTask /\ task' = NoTask /\ answer # HalfWritten
    BY <1>1 DEF GoesDown, Ready, QInv, FilesInv, NoTask
  <1>3. /\ PagesInv' /\ HeardInv' /\ DownIdle' /\ (Spent => Spent')
        /\ shown' \in [Windows -> Page] /\ ~Claiming'
        /\ daemon' \in {"up", "leaving", "down"} /\ wait' \in {"no", "yes", "spent"}
        /\ UNCHANGED <<hand, beat, claim>>
    BY <1>1, DownKept
  <1>4. QuestionsTypeOK'
    BY <1>1, <1>2, <1>3 DEF QInv, QuestionsTypeOK
  <1>5. Given' = Given
    BY <1>1, <1>2 DEF Given
  <1>6. RoundInv'
    BY <1>1, <1>2, <1>3, <1>5, RoundKept DEF QInv
  <1>7. ListedInv' /\ HalfDealt' /\ FilesInv' /\ FoundInv' /\ RoomLeft'
    BY <1>1, <1>2, <1>3 DEF QInv, ListedInv, HalfDealt, FilesInv, FoundInv, RoomLeft, Delivering
  <1> QED
    BY <1>3, <1>4, <1>6, <1>7 DEF QInv

\* Time passes.
LEMMA TimeStep ==
  ASSUME QInv, TimePasses
  PROVE  QInv'
  <1>1. UNCHANGED <<daemon, hand, task, listed, answer, shown, agent, moves, mixed>>
        /\ agent.at \notin {"copying", "stamping", "checking"}
        /\ next \in NextHand \union {NoHand} /\ QuestionsTypeOK
    BY DEF TimePasses, Quiet, QInv, QuestionsTypeOK
  <1>2. /\ wait' \in {"no", "yes", "spent"} /\ (Awaiting' <=> Awaiting)
        /\ claim' \in BOOLEAN /\ beat' \in BeatAges
        /\ beat' # beat => Unheard
    BY <1>1 DEF TimePasses, Awaiting, QuestionsTypeOK, BeatAges
  <1>3. /\ next' = next \/ (Delivered /\ next' = [next EXCEPT !.age = "old"])
    BY DEF TimePasses
  <1>4. /\ next' \in NextHand \union {NoHand} /\ (next' = NoHand <=> next = NoHand)
        /\ next # NoHand => next'.hand = next.hand /\ (next'.age = "torn" <=> next.age = "torn")
    <2>1. CASE next' = next
      BY <1>1, <2>1
    <2>2. CASE Delivered /\ next' = [next EXCEPT !.age = "old"]
      <3>1. next # NoHand /\ next \in NextHand
        BY <1>1, <2>2 DEF Delivered
      <3>2. next.age # "torn"
        BY <1>1, <3>1 DEF QInv, HalfDealt
      <3>3. next' \in NextHand /\ next'.hand = next.hand /\ next'.age = "old"
        BY <2>2, <3>1 DEF NextHand
      <3> QED
        BY <3>1, <3>2, <3>3, FilesAssumption
    <2> QED
      BY <1>3, <2>1, <2>2
  <1>5. PagesInv' /\ DownIdle' /\ (Spent => Spent') /\ Given' = Given /\ (Claiming' <=> Claiming)
    BY <1>1, <1>2
    DEF QInv, PagesInv, Awake, DownIdle, Spent, Served, ShowsCards, Given, Claiming
  <1>6. HeardInv'
    BY <1>1, <1>2 DEF QInv, HeardInv, Unheard, Served, Beats, Awake
  <1>7. QuestionsTypeOK'
    BY <1>1, <1>2, <1>4 DEF QuestionsTypeOK
  <1>8. RoundInv'
    BY <1>1, <1>4, <1>5, RoundKept DEF QInv
  <1>9. ListedInv' /\ HalfDealt' /\ FilesInv' /\ FoundInv' /\ RoomLeft'
    BY <1>1, <1>4 DEF QInv, ListedInv, HalfDealt, FilesInv, FoundInv, RoomLeft, Delivering
  <1> QED
    BY <1>5, <1>6, <1>7, <1>8, <1>9 DEF QInv

-----------------------------------------------------------------------------
(***************************************************************************)
(* The invariant, and what follows from it.                                *)
(***************************************************************************)
\* The invariant holds at first.
LEMMA Started ==
  ASSUME QuestionsInit
  PROVE  QInv
  <1>1. /\ daemon = "up" /\ hand = 1 /\ wait = "no" /\ beat = "never" /\ claim = FALSE
        /\ task = NoTask
        /\ listed = TRUE /\ answer = NoPick /\ next = NoHand /\ moves = 0 /\ mixed = FALSE
        /\ shown = [t \in Windows |-> Empty("closed")]
        /\ agent.at = "idle" /\ agent.owes = FALSE /\ agent.sent = 1
    BY DEF QuestionsInit
  <1>2. 1 \in Hands /\ 0 \in 0..MaxMoves /\ 0 \in 0..MaxRetries + 1
    BY HandsAssumption, MovesAssumption DEF Hands
  <1>3. agent \in AgentState
    BY <1>2 DEF QuestionsInit, AgentState, AgentStates, Verdicts, Unread, BeatAges
  <1>4. \A t \in Windows : shown[t] \in Page /\ shown[t].at = "closed"
    BY <1>1, NewPages, StatesAre DEF PageIs
  <1>5. shown \in [Windows -> Page]
    BY <1>1, <1>4
  <1>6. QuestionsTypeOK
    BY <1>1, <1>2, <1>3, <1>5 DEF QuestionsTypeOK, BeatAges
  <1>7. answer # HalfWritten /\ Given = NoPick /\ task.at = "none"
    BY <1>1, FilesAssumption DEF Given, NoTask
  <1>8. RoomLeft /\ FoundInv /\ FilesInv /\ DownIdle /\ RoundInv
    BY <1>1, <1>7 DEF RoomLeft, FoundInv, FilesInv, DownIdle, RoundInv, Round, HeldRound,
                      AnsweredRound, Owed, Dealt, Delivering
  <1>9. PagesInv /\ ListedInv /\ HeardInv /\ HalfDealt
    BY <1>1, <1>4 DEF PagesInv, ListedInv, HeardInv, HalfDealt, Beats, BeatingViews
  <1> QED
    BY <1>6, <1>8, <1>9 DEF QInv

\* Every step keeps it.
LEMMA Stepped ==
  ASSUME QInv, [QuestionsNext]_questionVars
  PROVE  QInv'
  <1>1. CASE UNCHANGED questionVars
    <2> USE <1>1 DEF questionVars, serverVars
    <2>1. QuestionsTypeOK' /\ ListedInv'
      BY DEF QInv, QuestionsTypeOK, ListedInv
    <2>2. RoomLeft' /\ HalfDealt' /\ FilesInv' /\ FoundInv'
      BY DEF QInv, RoomLeft, HalfDealt, FilesInv, FoundInv, Delivering
    <2>3. PagesInv' /\ HeardInv' /\ DownIdle' /\ (Spent => Spent')
      BY AgentOnlyKept DEF QInv
    <2>4. Given' = Given /\ (Claiming' <=> Claiming)
      BY DEF Given, Claiming
    <2> QED
      BY <2>1, <2>2, <2>3, <2>4, RoundKept DEF QInv
  <1>2. ASSUME NEW t \in Windows, PageMoves(t)
        PROVE  QInv'
    <2>1. CASE Open(t)
      <3>1. moves' \in 0..MaxMoves /\ UNCHANGED <<agent, mixed>>
        BY <2>1, MovesType DEF Open
      <3> QED
        BY <1>2, <2>1, <3>1, GetStep, EmptyStep DEF Open, GetsNothing
    <2>2. CASE AnswersNobody(t)
      BY <1>2, <2>2, MovesType, EmptyStep DEF AnswersNobody
    <2>3. CASE CloseTab(t)
      BY <1>2, <2>3, MovesType, EmptyStep DEF CloseTab
    <2> QED
      BY <1>2, <2>1, <2>2, <2>3, NapStep, WakeStep, PicksStep DEF PageMoves
  <1>3. ASSUME NEW t \in Windows, Poll(t)
        PROVE  QInv'
    <2>1. moves' \in 0..MaxMoves /\ UNCHANGED <<agent, mixed>> /\ Get(t)
      BY <1>3 DEF Poll, QInv, QuestionsTypeOK
    <2> QED
      BY <1>3, <2>1, GetStep
  <1>4. CASE AgentMoves
    BY <1>4, StartWaitStep, LooksStep, DealsStep, StopStep DEF AgentMoves
  <1>5. CASE PagesGoOn
    BY <1>3, <1>5, LoadStep, ShuffleStep, StallStep, RemoveStep, StampClaimStep, FillAnswerStep,
       DownStep DEF PagesGoOn
  <1>6. CASE CommandGoesOn
    BY <1>6, ChecksStep, ReadsStateStep, JudgesStep, ReadsAnswerStep, CollectsStep, FillsStep,
       StampsStep DEF CommandGoesOn
  <1> QED
    BY <1>1, <1>2, <1>4, <1>5, <1>6, TimeStep DEF QuestionsNext, OnItsOwn

\* The invariant holds, for any number of hands, tabs and failed deliveries.
THEOREM QuestionsInvariant == QuestionsSpec => []QInv
  BY Started, Stepped, PTL DEF QuestionsSpec

\* The daemon, the files, the tabs and the agent keep their types, whatever any
\* of them does and however time passes.
THEOREM QuestionsTypeCorrect == QuestionsSpec => []QuestionsTypeOK
  <1>1. QInv => QuestionsTypeOK
    BY DEF QInv
  <1> QED
    BY <1>1, QuestionsInvariant, PTL

\* An answer that --wait has read was given to the hand the agent has dealt last,
\* although hands, answers and deliveries pass through unsynchronised files; only
\* cards answered twice, a hand sent twice, or a file read half written, void it.
THEOREM CollectsItsHand == QuestionsSpec => []AnswerOfTheHand
  <1>1. QInv => AnswerOfTheHand
    BY DEF QInv, RoundInv, Round, HeldRound, AnswerOfTheHand
  <1> QED
    BY <1>1, QuestionsInvariant, PTL

\* A silent heartbeat, no delivery, no claim and none being made: nobody looks at the page.
LEMMA NobodyLooks ==
  ASSUME QInv, Served, beat # "fresh", ~Delivered, ~claim, ~Claiming
  PROVE  ~Attended
  BY DEF QInv, HeardInv, Attended

\* The daemon's idle timer never ends it under a page that somebody looks at, nor
\* between the delivery of a hand and the page that shows it.
THEOREM NeverUnderThePage == QuestionsSpec => NotUnderThePage
  <1>1. ASSUME QInv, Expires
        PROVE  beat = "never" \/ ~Attended
    BY <1>1, GivenType, NobodyLooks DEF Expires, Held, Served
  <1>2. QInv /\ [QuestionsNext]_questionVars =>
          [Expires => beat = "never" \/ ~Attended]_questionVars
    BY <1>1
  <1> QED
    BY <1>2, QuestionsInvariant, PTL DEF QuestionsSpec, NotUnderThePage

\* What --wait and --update tell the agent, of whole files, is true when they do: a
\* server said to be gone is gone; a page said to be closed is looked at by nobody, unless
\* it came back or claimed its hand after --wait had read the state; and neither is said
\* over an answer.
THEOREM TrueVerdicts == QuestionsSpec => VerdictsTrue
  <1> DEFINE Fair ==
        agent'.verdict # agent.verdict /\ ~agent'.torn =>
          /\ agent'.verdict \in {"gone", "closed"} => answer = NoPick \/ mixed
          /\ agent'.verdict = "gone" => ~Served
          /\ agent'.verdict = "closed" => ~Served \/ ~Attended \/ Rewritten
  <1>1. ASSUME QInv, Checks
        PROVE  Fair
    <2>1. agent.at = "checking" /\ agent \in AgentState /\ listed
      BY <1>1 DEF Checks, QInv, ListedInv, QuestionsTypeOK
    <2>2. CASE Alive /\ agent' = [agent EXCEPT !.at = "judging"]
      BY <2>1, <2>2 DEF AgentState
    <2>3. CASE ~Alive /\ Says("gone", "over")
      <3>1. ~Served /\ answer = NoPick
        BY <1>1, <2>1, <2>3 DEF Alive, QInv, FoundInv
      <3>2. AgentIs(agent', "over", agent.holds, agent.owes, agent.sent, agent.fails, "gone")
        BY <2>1, <2>3, AgentTypes, AgentFields, <1>1 DEF Says
      <3> QED
        BY <3>1, <3>2 DEF AgentIs
    <2>4. CASE agent' = [agent EXCEPT !.at = "over", !.verdict = "gone", !.torn = TRUE]
      BY <2>1, <2>4 DEF AgentState
    <2> QED
      BY <1>1, <2>2, <2>3, <2>4 DEF Checks
  <1>2. ASSUME QInv, Judges
        PROVE  Fair
    <2>1. agent.at = "statting" /\ agent \in AgentState
      BY <1>2 DEF Judges, QInv, QuestionsTypeOK
    <2>2. ASSUME NEW v \in {"none", "closed"}, Says(v, "idle")
          PROVE  agent'.verdict = v
      BY <2>1, <2>2 DEF Says, AgentState
    <2>3. CASE Says("none", "idle")
      BY <2>2, <2>3
    <2>4. CASE agent' = [agent EXCEPT !.at = "reading", !.read = Unread]
      BY <2>1, <2>4 DEF AgentState
    <2>5. CASE ~MidDelivery /\ agent.read.beat \notin {"never", "fresh"} /\ ~Answered
               /\ Says("closed", "idle")
      <3>1. answer = NoPick /\ ~Delivered /\ ~agent.read.claim /\ agent.read.beat # "fresh"
        BY <2>5 DEF Answered, MidDelivery
      <3>2. ~Rewritten => beat # "fresh" /\ ~claim /\ ~Claiming
        BY <3>1 DEF Rewritten
      <3>3. ~Served \/ ~Attended \/ Rewritten
        BY <1>2, <3>1, <3>2, NobodyLooks
      <3> QED
        BY <2>2, <2>5, <3>1, <3>3
    <2> QED
      BY <1>2, <2>3, <2>4, <2>5 DEF Judges
  <1>3. ASSUME QInv, Deals
        PROVE  Fair
    <2>1. agent.at = "idle" /\ agent.owes /\ agent \in AgentState
      BY <1>3 DEF Deals, QInv, QuestionsTypeOK
    <2>2. answer = NoPick \/ mixed
      BY <1>3, <2>1, GivenType DEF QInv, RoundInv, Round, Owed
    <2>3. CASE agent' = [agent EXCEPT !.at = "copying", !.verdict = "none", !.torn = FALSE]
      BY <2>1, <2>3 DEF AgentState
    <2>4. CASE agent' = [agent EXCEPT !.at = "over", !.verdict = "gone", !.torn = Alive]
      <3>1. agent'.verdict = "gone" /\ agent'.torn = Alive
        BY <2>1, <2>4 DEF AgentState
      <3>2. ~Alive => ~Served
        BY <1>3, <2>1 DEF Alive, QInv, ListedInv
      <3> QED
        BY <2>2, <3>1, <3>2
    <2> QED
      BY <1>3, <2>3, <2>4 DEF Deals
  <1>4. ASSUME QInv, QuestionsNext, ~Checks, ~Judges, ~Deals
        PROVE  agent'.verdict = agent.verdict \/ agent'.verdict = "none"
    <2>1. agent \in AgentState
      BY <1>4 DEF QInv, QuestionsTypeOK
    <2>2. CASE StartWait \/ Stop \/ Looks
      BY <2>1, <2>2 DEF StartWait, Stop, Looks, AgentState
    <2>3. CASE Collects \/ Fills \/ Stamps \/ ReadsAnswer
      BY <2>1, <2>3 DEF Collects, Fills, Stamps, ReadsAnswer, AgentState
    <2>4. CASE ReadsState
      BY <2>1, <2>4 DEF ReadsState, Says, AgentState
    <2>5. ASSUME NEW t \in Windows, PageMoves(t) \/ Load(t) \/ Shuffle(t) \/ Poll(t) \/ Stall(t)
          PROVE  UNCHANGED agent
      BY <2>5 DEF PageMoves, Open, AnswersNobody, CloseTab, Nap, Wake, Picks, Load, Shuffle, Poll,
                  Stall
    <2>6. CASE TimePasses \/ Expires \/ Leaves \/ RemoveNext \/ StampClaim \/ FillAnswer
      BY <2>6 DEF TimePasses, Expires, Leaves, RemoveNext, StampClaim, FillAnswer
    <2> QED
      BY <1>4, <2>2, <2>3, <2>4, <2>5, <2>6
         DEF QuestionsNext, AgentMoves, OnItsOwn, PagesGoOn, CommandGoesOn
  <1>5. QInv /\ [QuestionsNext]_questionVars => [Fair]_questionVars
    BY <1>1, <1>2, <1>3, <1>4
  <1> QED
    BY <1>5, QuestionsInvariant, PTL DEF QuestionsSpec, VerdictsTrue

=============================================================================
