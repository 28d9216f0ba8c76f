--------------------------- MODULE BrowserSession ---------------------------
(***************************************************************************)
(* The browser's half of a login session: the axios interceptor of         *)
(* services/api.ts and the store of store/useAuthStore.ts, in the tabs of  *)
(* one browser, talking to the server over a network.                      *)
(*                                                                         *)
(* A tab keeps its refresh token in memory and reads localStorage only     *)
(* when its page loads; the tabs share localStorage.  A request that is    *)
(* answered 401 starts one silent refresh; requests answered 401 meanwhile *)
(* wait in failedQueue.  The server is seen through its answers: here an   *)
(* exchange is one step (RefreshTokens takes it apart).  Tokens are        *)
(* numbered in the order the server stores them, 0 stands for null.        *)
(*                                                                         *)
(* The access token, the cached user and tenant, and the cookies (which    *)
(* are written together with localStorage) are not modelled; a 401 may     *)
(* come at any time.  Tokens do not expire.                                *)
(***************************************************************************)
EXTENDS Naturals, FiniteSets

CONSTANTS
  Tabs,         \* the open tabs of the browser
  MaxTokens,    \* bound: how many refresh tokens the server hands out
  MaxWaiting,   \* bound: how many requests of a tab wait in failedQueue
  Loss,         \* may the network lose a request or an answer?
  Hasty,        \* may the user log out or reload during a silent refresh?
  Switching     \* may the user switch to another tenant?

ASSUME BoundsAssumption == MaxTokens \in Nat /\ MaxWaiting \in Nat

ASSUME EnvironmentAssumption ==
  Loss \in BOOLEAN /\ Hasty \in BOOLEAN /\ Switching \in BOOLEAN

VARIABLES
  issued,       \* server: how many tokens it has stored
  live,         \* server: the tokens that are not revoked
  alarm,        \* history: reuse detection has revoked everything
  storage,      \* localStorage: the refresh token
  mem,          \* per tab: refreshToken of the store
  signedIn,     \* per tab: does the store hold an access token?
  refreshing,   \* per tab: isRefreshing
  waiting,      \* per tab: the length of failedQueue
  careful,      \* history: the user has kept to one tab, and never hurried
  net           \* the messages on their way

server == <<issued, live, alarm>>

page == <<mem, signedIn, refreshing, waiting>>

tabVars == <<server, storage, page, careful, net>>

-----------------------------------------------------------------------------
(***************************************************************************)
(* Types.                                                                  *)
(***************************************************************************)
Token == 1..MaxTokens

\* The tab of a message whose page is gone: no script waits for the answer.
Gone == "gone"

ASSUME TabsAssumption == Gone \notin Tabs

Message ==
  [kind: {"refresh", "granted"}, tab: Tabs \union {Gone}, token: Token]
    \union [kind: {"refused"}, tab: Tabs \union {Gone}]
    \union [kind: {"logout"}, token: Token]

TabsTypeOK ==
  /\ issued \in 0..MaxTokens
  /\ live \in SUBSET Token
  /\ alarm \in BOOLEAN
  /\ storage \in 0..MaxTokens
  /\ mem \in [Tabs -> 0..MaxTokens]
  /\ signedIn \in [Tabs -> BOOLEAN]
  /\ refreshing \in [Tabs -> BOOLEAN]
  /\ waiting \in [Tabs -> 0..MaxWaiting]
  /\ careful \in BOOLEAN
  /\ net \in SUBSET Message

-----------------------------------------------------------------------------
(***************************************************************************)
(* Helpers.                                                                *)
(***************************************************************************)

\* The messages of tab w's silent refresh, in either direction.
Exchange(w) == {m \in net : m.kind # "logout" /\ m.tab = w}

Set(f, w, value) == f' = [f EXCEPT ![w] = value]

\* A tab in which nobody is, or is about to be, logged in.
Blank(w) == mem[w] = 0 /\ ~signedIn[w] /\ ~refreshing[w]

\* The user touches tab w.
AtHand(w) ==
  /\ Hasty \/ ~refreshing[w]
  /\ careful' = (careful /\ ~refreshing[w] /\ \A v \in Tabs \ {w} : Blank(v))

\* The bound MaxTokens: room for one more token, those on their way counted.
Room == issued + Cardinality({m \in net : m.kind = "refresh"}) < MaxTokens

\* A slip: only localStorage is cleared.
LogoutStorageOnly(w, others) ==
  /\ net' = others \union
              (IF storage = 0 THEN {} ELSE {[kind |-> "logout", token |-> storage]})
  /\ storage' = 0
  /\ UNCHANGED <<mem, signedIn>>

\* logout(): tell the server about the stored token (nobody waits for the
\* answer), forget it here and in localStorage.  Other tabs are told to drop
\* the access token, the user and the tenant from localStorage; they keep
\* what they have in memory.
Logout(w, others) ==
  /\ net' = others \union
              (IF storage = 0 THEN {} ELSE {[kind |-> "logout", token |-> storage]})
  /\ storage' = 0
  /\ Set(mem, w, 0)
  /\ Set(signedIn, w, FALSE)

-----------------------------------------------------------------------------
TabsInit ==
  /\ issued = 0 /\ live = {} /\ alarm = FALSE
  /\ storage = 0
  /\ mem = [w \in Tabs |-> 0]
  /\ signedIn = [w \in Tabs |-> FALSE]
  /\ refreshing = [w \in Tabs |-> FALSE]
  /\ waiting = [w \in Tabs |-> 0]
  /\ careful = TRUE
  /\ net = {}

(***************************************************************************)
(* What the user does.                                                     *)
(***************************************************************************)

\* LoginPage: POST /auth/login, then setAuth with both tokens.
Login(w) ==
  /\ ~signedIn[w]
  /\ AtHand(w)
  /\ Room
  /\ issued' = issued + 1
  /\ live' = live \union {issued + 1}
  /\ storage' = issued + 1
  /\ Set(mem, w, issued + 1)
  /\ Set(signedIn, w, TRUE)
  /\ UNCHANGED <<alarm, refreshing, waiting, net>>

\* handleLogout of MainLayout; the reload it asks for is Reload below.
ClickLogout(w) ==
  /\ signedIn[w]
  /\ AtHand(w)
  /\ Logout(w, net)
  /\ UNCHANGED <<server, refreshing, waiting>>

\* setAuth without a refresh token: localStorage keeps the one it has, the
\* store gets null.
SwitchTenant(w) ==
  /\ Switching
  /\ signedIn[w]
  /\ AtHand(w)
  /\ Set(mem, w, 0)
  /\ UNCHANGED <<server, storage, signedIn, refreshing, waiting, net>>

\* A page loads, in an old tab or in one just opened: the store starts from
\* localStorage.  What the old page was waiting for, nobody waits for now.
Reload(w) ==
  /\ AtHand(w)
  /\ Set(mem, w, storage)
  /\ Set(signedIn, w, storage # 0)
  /\ Set(refreshing, w, FALSE)
  /\ Set(waiting, w, 0)
  /\ net' = (net \ Exchange(w)) \union {[m EXCEPT !.tab = Gone] : m \in Exchange(w)}
  /\ UNCHANGED <<server, storage>>

(***************************************************************************)
(* The interceptor: a request of tab w was answered 401.                   *)
(***************************************************************************)
StartRefresh(w) ==
  /\ signedIn[w]
  /\ mem[w] # 0
  /\ ~refreshing[w]
  /\ Room
  /\ Set(refreshing, w, TRUE)
  /\ net' = net \union {[kind |-> "refresh", tab |-> w, token |-> mem[w]]}
  /\ UNCHANGED <<server, careful, storage, mem, signedIn, waiting>>

JoinQueue(w) ==
  /\ mem[w] # 0
  /\ refreshing[w]
  /\ waiting[w] < MaxWaiting
  /\ Set(waiting, w, waiting[w] + 1)
  /\ UNCHANGED <<server, careful, storage, mem, signedIn, refreshing, net>>

\* Nothing to refresh with: the user of a page that is not public is sent to the login page.
GiveUp(w) ==
  /\ signedIn[w]
  /\ mem[w] = 0
  /\ Logout(w, net)
  /\ UNCHANGED <<server, careful, refreshing, waiting>>

\* Slips: the store is not given the new refresh token; the queue is left as
\* it is.
GrantedStored(w, m) ==
  /\ m.kind = "granted" /\ m.tab = w
  /\ storage' = m.token
  /\ Set(signedIn, w, TRUE)
  /\ Set(waiting, w, 0)
  /\ Set(refreshing, w, FALSE)
  /\ net' = net \ {m}
  /\ UNCHANGED <<server, careful, mem>>

GrantedUnqueued(w, m) ==
  /\ m.kind = "granted" /\ m.tab = w
  /\ storage' = m.token
  /\ Set(mem, w, m.token)
  /\ Set(signedIn, w, TRUE)
  /\ Set(refreshing, w, FALSE)
  /\ net' = net \ {m}
  /\ UNCHANGED <<server, careful, waiting>>

\* The answer to the refresh: setTokens and the queue is resolved, ...
Granted(w, m) ==
  /\ m.kind = "granted" /\ m.tab = w
  /\ storage' = m.token
  /\ Set(mem, w, m.token)
  /\ Set(signedIn, w, TRUE)
  /\ Set(waiting, w, 0)
  /\ Set(refreshing, w, FALSE)
  /\ net' = net \ {m}
  /\ UNCHANGED <<server, careful>>

\* ... or it failed: the queue is rejected and the user logged out.
Refused(w, m) ==
  /\ m.kind = "refused" /\ m.tab = w
  /\ Logout(w, net \ {m})
  /\ Set(waiting, w, 0)
  /\ Set(refreshing, w, FALSE)
  /\ UNCHANGED <<server, careful>>

(***************************************************************************)
(* The server: RefreshToken and Logout of auth_usecase.go.                 *)
(***************************************************************************)
ServeRefresh(m) ==
  /\ m.kind = "refresh"
  /\ \/ /\ m.token \in live
        /\ issued' = issued + 1
        /\ live' = (live \ {m.token}) \union {issued + 1}
        /\ net' = (net \ {m})
                    \union {[kind |-> "granted", tab |-> m.tab, token |-> issued + 1]}
        /\ UNCHANGED alarm
     \/ /\ m.token \notin live
        /\ alarm' = TRUE
        /\ live' = {}
        /\ net' = (net \ {m}) \union {[kind |-> "refused", tab |-> m.tab]}
        /\ UNCHANGED issued
  /\ UNCHANGED <<careful, storage, page>>

ServeLogout(m) ==
  /\ m.kind = "logout"
  /\ live' = live \ {m.token}
  /\ net' = net \ {m}
  /\ UNCHANGED <<issued, alarm, careful, storage, page>>

\* The network: a request or an answer is lost (axios reports an error to
\* the page that waits), and nobody reads an answer to a page that is gone.
Lose(m) ==
  /\ Loss
  /\ m.kind # "refused"
  /\ net' = (net \ {m}) \union
              (IF m.kind = "logout" THEN {}
               ELSE {[kind |-> "refused", tab |-> m.tab]})
  /\ UNCHANGED <<server, careful, storage, page>>

Drop(m) ==
  /\ m.kind \in {"granted", "refused"} /\ m.tab = Gone
  /\ net' = net \ {m}
  /\ UNCHANGED <<server, careful, storage, page>>

-----------------------------------------------------------------------------
People(w) ==
  \/ Login(w) \/ ClickLogout(w) \/ SwitchTenant(w) \/ Reload(w)

Script(w) ==
  \/ StartRefresh(w) \/ JoinQueue(w) \/ GiveUp(w)
  \/ \E m \in net : Granted(w, m) \/ Refused(w, m)

Server == \E m \in net : ServeRefresh(m) \/ ServeLogout(m)

TabsNext ==
  \/ \E w \in Tabs : People(w) \/ Script(w)
  \/ Server
  \/ \E m \in net : Lose(m) \/ Drop(m)

\* The server answers every request that reaches it, each in a goroutine of its
\* own, and a page runs the continuation of an answer it has received.
TabsFairness ==
  \A w \in Tabs :
    /\ WF_tabVars(\E m \in Exchange(w) : ServeRefresh(m))
    /\ WF_tabVars(\E m \in net : Granted(w, m) \/ Refused(w, m))

TabsSpec == TabsInit /\ [][TabsNext]_tabVars /\ TabsFairness

-----------------------------------------------------------------------------
(***************************************************************************)
(* Properties.                                                             *)
(***************************************************************************)


\* ... and this holds, whatever the network loses, as long as the user keeps to
\* one tab and leaves it alone while it refreshes.
NoAlarmInOneTab == careful => ~alarm

\* Once such a user is logged out, the browser holds no refresh token until the
\* next login stores one.
StaysLoggedOut ==
  [][careful /\ storage = 0 /\ storage' # 0 => issued' > issued]_tabVars

\* A request that waits in failedQueue is settled in the end.
QueueSettled == \A w \in Tabs : waiting[w] > 0 ~> waiting[w] = 0
=============================================================================
