------------------------------ MODULE SignInProofs ------------------------------
(***************************************************************************)
(* Theorems about signing in, for every number of users, tokens, clients   *)
(* and concurrent requests, failures included: about RefreshTokens, its    *)
(* types, the exchange of tokens and the sessions that are over; about     *)
(* RateLimiter, its types, the bound of its map and its agreement with the *)
(* account of every client.                                                *)
(***************************************************************************)
EXTENDS RefreshTokens, RateLimiter, SequenceTheorems, FiniteSetTheorems, TLAPS

-----------------------------------------------------------------------------
(***************************************************************************)
(* Refresh tokens.                                                         *)
(***************************************************************************)
\* Every stored token descends from a stored login, which is its own origin.
Recorded ==
  \A t \in Tokens :
    /\ Issued(t) => /\ origin[t] \in Tokens
                    /\ Issued(origin[t])
                    /\ origin[origin[t]] = origin[t]
    /\ ~Issued(t) => origin[t] = NoToken

\* An exchange in service is about a stored token, spent once it is revoked.
Presented ==
  \A r \in Requests :
    /\ req[r].pc \in {"revoke_all", "rotate", "load", "store"}
         => Issued(req[r].token)
    /\ req[r].pc \in {"load", "store"} => ~Live(req[r].token)

\* A token that was exchanged is stored, and spent.
Parents ==
  \A t \in Tokens : parent[t] # NoToken => /\ Issued(parent[t])
                                           /\ ~Live(parent[t])

IInv == TypeOK /\ Recorded /\ Presented /\ Parents

-----------------------------------------------------------------------------
(***************************************************************************)
(* What the statements do to the table.                                    *)
(***************************************************************************)

\* Storing adds one live row and touches no other.
LEMMA StoreRow ==
  ASSUME TypeOK, NEW t \in Tokens, NEW u \in Users,
         NEW from \in Tokens \union {NoToken}, NEW login \in Tokens,
         Store(t, u, from, login)
  PROVE  /\ tokens' \in [Tokens -> Row \union {NoToken}]
         /\ parent' \in [Tokens -> Tokens \union {NoToken}]
         /\ origin' \in [Tokens -> Tokens \union {NoToken}]
         /\ ~Issued(t) /\ Issued(t)' /\ Usable(t)'
         /\ parent'[t] = from /\ origin'[t] = login
         /\ \A s \in Tokens \ {t} : /\ tokens'[s] = tokens[s]
                                    /\ parent'[s] = parent[s]
                                    /\ origin'[s] = origin[s]
  <1> DEFINE row == [user |-> u, state |-> "live", term |-> "running"]
  <1>1. row \in Row /\ row # NoToken
    BY NoTokenAssumption DEF Row
  <1>2. tokens' = [tokens EXCEPT ![t] = row]
    BY DEF Store
  <1>3. tokens'[t] = row
    BY <1>2 DEF TypeOK
  <1> QED BY <1>1, <1>2, <1>3 DEF TypeOK, Store, Issued, Usable, Live

\* Revoking kills the rows it is asked for and brings none back.
LEMMA RevokeRows ==
  ASSUME TypeOK, NEW T \in SUBSET Tokens, Revoke(T)
  PROVE  /\ tokens' \in [Tokens -> Row \union {NoToken}]
         /\ \A t \in Tokens : /\ Issued(t)' <=> Issued(t)
                              /\ Live(t)' <=> Live(t) /\ t \notin T
                              /\ Usable(t)' => Usable(t)
  <1>1. ASSUME NEW t \in Tokens
        PROVE  /\ tokens'[t] \in Row \union {NoToken}
               /\ Issued(t)' <=> Issued(t)
               /\ Live(t)' <=> Live(t) /\ t \notin T
               /\ Usable(t)' => Usable(t)
    <2>1. CASE t \in T /\ Live(t)
      <3>1. tokens[t] \in Row
        BY <2>1 DEF TypeOK, Live, Issued
      <3>2. tokens'[t] = [tokens[t] EXCEPT !.state = "revoked"]
        BY <2>1 DEF Revoke
      <3>3. tokens'[t] \in Row /\ tokens'[t].state = "revoked"
        BY <3>1, <3>2 DEF Row
      <3> QED BY <2>1, <3>3, NoTokenAssumption DEF Issued, Live, Usable
    <2>2. CASE ~(t \in T /\ Live(t))
      <3>1. tokens'[t] = tokens[t]
        BY <2>2 DEF Revoke
      <3> QED BY <2>2, <3>1 DEF TypeOK, Issued, Live, Usable
    <2> QED BY <2>1, <2>2
  <1>2. tokens' \in [Tokens -> Row \union {NoToken}]
    BY <1>1 DEF Revoke
  <1> QED BY <1>1, <1>2

\* The owner of a stored token is a user; its tokens are tokens.
LEMMA Owners ==
  ASSUME TypeOK
  PROVE  /\ \A t \in Tokens : Issued(t) => Owner(t) \in Users
         /\ \A u : Of(u) \in SUBSET Tokens
  BY DEF TypeOK, Issued, Owner, Row, Of

\* A request moves on alone.
LEMMA ServeRequest ==
  ASSUME TypeOK, NEW r \in Requests, NEW record \in Request, Serve(r, record)
  PROVE  /\ req' \in [Requests -> Request]
         /\ req'[r] = record
         /\ \A q \in Requests \ {r} : req'[q] = req[q]
  BY DEF TypeOK, Serve

LEMMA FinishRequest ==
  ASSUME TypeOK, NEW r \in Requests, Finish(r)
  PROVE  /\ req' \in [Requests -> Request]
         /\ req'[r].pc = "idle"
         /\ \A q \in Requests \ {r} : req'[q] = req[q]
  <1>1. Idle \in Request /\ Idle.pc = "idle"
    BY DEF Idle, Request
  <1> QED BY <1>1, ServeRequest DEF Finish

\* What a request in service holds.
LEMMA Shape ==
  ASSUME TypeOK, NEW r \in Requests
  PROVE  /\ req[r].pc = "login_store" => req[r].user \in Users
         /\ req[r].pc \in {"revoke_all", "rotate", "load", "store"}
              => req[r].token \in Tokens
  <1>1. req[r] \in Request
    BY DEF TypeOK
  <1> QED BY <1>1 DEF Request, Idle, Exchanging

\* A login that is being exchanged is a token.
LEMMA MetTyped ==
  ASSUME IInv, NEW T
  PROVE  Met(T) \in SUBSET Tokens
  <1>1. \A l : InExchange(l) => l \in Tokens
    BY Shape DEF IInv, TypeOK, Recorded, Presented, InExchange, Exchanging
  <1> QED BY <1>1 DEF Met

\* Ended and contended logins are tokens: what is live or being exchanged
\* has an origin.
LEMMA EndedTyped ==
  ASSUME IInv, NEW T \in SUBSET Tokens, EndLoginsOf(T)
  PROVE  ended' \in SUBSET Tokens /\ contended' \in SUBSET Tokens
  <1>1. \A t \in Tokens : Live(t) \/ BeingExchanged(t) => origin[t] \in Tokens
    BY DEF IInv, Recorded, Presented, Live, BeingExchanged, Exchanging
  <1>2. Met(T) \in SUBSET Tokens
    BY MetTyped
  <1> QED BY <1>1, <1>2 DEF IInv, TypeOK, EndLoginsOf

-----------------------------------------------------------------------------
(***************************************************************************)
(* The inductive invariant.                                                *)
(***************************************************************************)
LEMMA Initially == Init => IInv
  BY DEF Init, IInv, TypeOK, Recorded, Presented, Parents, Issued, Live,
         Request, Idle

\* The three parts about tokens survive every step that stores nothing,
\* brings no token back to life and keeps the history.
LEMMA NothingStored ==
  ASSUME IInv, UNCHANGED descent,
         \A t \in Tokens : /\ Issued(t)' <=> Issued(t)
                           /\ Live(t)' => Live(t)
  PROVE  Recorded' /\ Parents'
  BY DEF IInv, TypeOK, Recorded, Parents, descent

\* ... and so do the requests, when the one that moves is in order.
LEMMA OthersPresented ==
  ASSUME IInv, NEW r \in Requests,
         \A q \in Requests \ {r} : req'[q] = req[q],
         \A t \in Tokens : /\ Issued(t) => Issued(t)'
                           /\ Issued(t) /\ Live(t)' => Live(t),
         /\ req'[r].pc \in {"revoke_all", "rotate", "load", "store"}
              => Issued(req[r].token)'
         /\ req'[r].pc \in {"load", "store"} => ~Live(req[r].token)'
  PROVE  Presented'
  <1> SUFFICES ASSUME NEW q \in Requests
               PROVE  /\ req'[q].pc
                           \in {"revoke_all", "rotate", "load", "store"}
                             => Issued(req[q].token)'
                      /\ req'[q].pc \in {"load", "store"}
                           => ~Live(req[q].token)'
    BY DEF Presented
  <1>1. CASE q = r
    BY <1>1 DEF Issued, Live
  <1>2. CASE q # r
    BY <1>2, Shape DEF IInv, Presented, Issued, Live
  <1> QED BY <1>1, <1>2

\* Storing a token keeps the records of all the others.
LEMMA RecordsKept ==
  ASSUME IInv, NEW t \in Tokens, NEW u \in Users,
         NEW from \in Tokens \union {NoToken}, NEW login \in Tokens,
         Store(t, u, from, login),
         \/ login = t
         \/ Issued(login) /\ origin[login] = login,
         from # NoToken => Issued(from) /\ ~Live(from)
  PROVE  /\ Recorded' /\ Parents'
         /\ \A s \in Tokens : /\ Issued(s) => Issued(s)'
                              /\ Issued(s) /\ Live(s)' => Live(s)
  <1>1. TypeOK
    BY DEF IInv
  <1> DEFINE Others ==
        \A s \in Tokens \ {t} : /\ tokens'[s] = tokens[s]
                                /\ parent'[s] = parent[s]
                                /\ origin'[s] = origin[s]
  <1>2. /\ ~Issued(t) /\ Issued(t)'
        /\ parent'[t] = from /\ origin'[t] = login
        /\ Others
    BY <1>1, StoreRow
  <1>3. \A s \in Tokens \ {t} : /\ Issued(s)' <=> Issued(s)
                                /\ Live(s)' <=> Live(s)
    BY <1>2 DEF Issued, Live
  <1>4. Recorded'
    BY <1>2, <1>3 DEF IInv, Recorded, TypeOK
  <1>5. Parents'
    <2> SUFFICES ASSUME NEW s \in Tokens, parent'[s] # NoToken
                 PROVE  Issued(parent[s])' /\ ~Live(parent[s])'
      BY DEF Parents
    <2>1. /\ parent'[s] \in Tokens
          /\ Issued(parent'[s]) /\ ~Live(parent'[s])
      BY <1>1, <1>2 DEF IInv, Parents, TypeOK
    <2> QED BY <2>1, <1>2, <1>3 DEF Issued, Live
  <1> QED BY <1>2, <1>3, <1>4, <1>5

\* One action at a time.
LEMMA Step == IInv /\ [Next]_vars => IInv'
  <1> SUFFICES ASSUME IInv, [Next]_vars PROVE IInv'
    OBVIOUS
  <1>t. TypeOK
    BY DEF IInv
  <1> DEFINE Kept == \A t \in Tokens : /\ Issued(t)' <=> Issued(t)
                                       /\ Live(t)' => Live(t)
  <1>k. UNCHANGED tokens => Kept
    BY DEF Issued, Live
  <1>1. ASSUME NEW r \in Requests, NEW u \in Users, Login(r, u)
        PROVE  IInv'
    <2>1. [pc |-> "login_store", user |-> u] \in Request
      BY DEF Request, Exchanging
    <2>2. TypeOK'
      BY <1>1, <1>t, <2>1, ServeRequest DEF Login, TypeOK, history, descent
    <2>3. Recorded' /\ Parents'
      BY <1>1, <1>k, NothingStored DEF Login, history
    <2>4. Presented'
      BY <1>1, <1>t, <1>k, <2>1, ServeRequest, OthersPresented DEF Login
    <2> QED BY <2>2, <2>3, <2>4 DEF IInv
  <1>2. ASSUME NEW r \in Requests, NEW t \in Tokens, LoginStore(r, t)
        PROVE  IInv'
    <2>1. req[r].user \in Users
      BY <1>2, <1>t, Shape DEF LoginStore
    <2>2. Store(t, req[r].user, NoToken, t)
      BY <1>2 DEF LoginStore
    <2>3. TypeOK'
      BY <1>2, <1>t, <2>1, <2>2, StoreRow, FinishRequest DEF LoginStore, TypeOK
    <2>4. /\ Recorded' /\ Parents'
          /\ \A s \in Tokens : /\ Issued(s) => Issued(s)'
                               /\ Issued(s) /\ Live(s)' => Live(s)
      BY <2>1, <2>2, RecordsKept
    <2>5. Presented'
      BY <1>2, <1>t, <2>4, FinishRequest, OthersPresented DEF LoginStore
    <2> QED BY <2>3, <2>4, <2>5 DEF IInv
  <1>3. ASSUME NEW r \in Requests, NEW t \in Tokens, RefreshRead(r, t)
        PROVE  IInv'
    <2>1. PICK record \in {[pc |-> "revoke_all", token |-> t],
                           [pc |-> "rotate", token |-> t]} : Serve(r, record)
      BY <1>3 DEF RefreshRead
    <2>2. record \in Request
      BY <2>1 DEF Request, Exchanging
    <2>c. contended' \in SUBSET Tokens
      BY <1>3, <1>t, MetTyped DEF RefreshRead, TypeOK
    <2>3. TypeOK'
      BY <1>3, <1>t, <2>1, <2>2, <2>c, ServeRequest
      DEF RefreshRead, TypeOK, descent
    <2>4. Recorded' /\ Parents'
      BY <1>3, <1>k, NothingStored DEF RefreshRead
    <2>5. Presented'
      BY <1>3, <1>t, <1>k, <2>1, <2>2, ServeRequest, OthersPresented
      DEF RefreshRead, Issued, Live
    <2> QED BY <2>3, <2>4, <2>5 DEF IInv
  <1>4. ASSUME NEW r \in Requests, NEW t \in Tokens, RefreshStore(r, t)
        PROVE  IInv'
    <2> DEFINE old == req[r].token
    <2>1. old \in Tokens /\ Issued(old) /\ ~Live(old)
      BY <1>4, <1>t, Shape DEF RefreshStore, IInv, Presented
    <2>2. /\ Owner(old) \in Users
          /\ origin[old] \in Tokens
          /\ Issued(origin[old]) /\ origin[origin[old]] = origin[old]
      BY <1>t, <2>1, Owners DEF IInv, Recorded
    <2>3. Store(t, Owner(old), old, origin[old])
      BY <1>4 DEF RefreshStore
    <2>4. TypeOK'
      BY <1>4, <1>t, <2>1, <2>2, <2>3, StoreRow, FinishRequest
      DEF RefreshStore, TypeOK
    <2>5. /\ Recorded' /\ Parents'
          /\ \A s \in Tokens : /\ Issued(s) => Issued(s)'
                               /\ Issued(s) /\ Live(s)' => Live(s)
      BY <2>1, <2>2, <2>3, RecordsKept
    <2>6. Presented'
      BY <1>4, <1>t, <2>5, FinishRequest, OthersPresented DEF RefreshStore
    <2> QED BY <2>4, <2>5, <2>6 DEF IInv
  <1>5. ASSUME NEW r \in Requests, RefreshReuse(r)
        PROVE  IInv'
    <2> DEFINE T == Of(Owner(req[r].token))
    <2>1. T \in SUBSET Tokens
      BY <1>t, Owners
    <2>2. /\ tokens' \in [Tokens -> Row \union {NoToken}]
          /\ Kept
      BY <1>5, <1>t, <2>1, RevokeRows DEF RefreshReuse
    <2>3. TypeOK'
      BY <1>5, <1>t, <2>1, <2>2, EndedTyped, FinishRequest
      DEF RefreshReuse, TypeOK, history, descent
    <2>4. Recorded' /\ Parents'
      BY <1>5, <2>2, NothingStored DEF RefreshReuse
    <2>5. Presented'
      BY <1>5, <1>t, <2>2, FinishRequest, OthersPresented DEF RefreshReuse
    <2> QED BY <2>3, <2>4, <2>5 DEF IInv
  <1>6. ASSUME NEW r \in Requests, RefreshRotate(r)
        PROVE  IInv'
    <2>1. PICK old \in Tokens : old = req[r].token /\ Issued(old)
      BY <1>6, <1>t, Shape DEF RefreshRotate, IInv, Presented
    <2> DEFINE record == [pc |-> "load", token |-> old]
    <2>2. record \in Request
      BY <2>1 DEF Request, Exchanging
    <2>3. /\ tokens' \in [Tokens -> Row \union {NoToken}]
          /\ Kept /\ ~Live(old)'
      BY <1>6, <1>t, <2>1, RevokeRows DEF RefreshRotate
    <2>4. /\ req' \in [Requests -> Request]
          /\ req'[r] = record
          /\ \A q \in Requests \ {r} : req'[q] = req[q]
      BY <1>6, <1>t, <2>1, <2>2, ServeRequest DEF RefreshRotate
    <2>5. TypeOK'
      BY <1>6, <1>t, <2>3, <2>4 DEF RefreshRotate, TypeOK, history, descent
    <2>6. Recorded' /\ Parents'
      BY <1>6, <2>3, NothingStored DEF RefreshRotate, history
    <2>7. Presented'
      BY <2>1, <2>3, <2>4, OthersPresented DEF Issued, Live
    <2> QED BY <2>5, <2>6, <2>7 DEF IInv
  <1>7. ASSUME NEW r \in Requests, RefreshLoad(r)
        PROVE  IInv'
    <2>1. PICK old \in Tokens : /\ old = req[r].token
                               /\ Issued(old) /\ ~Live(old)
      BY <1>7, <1>t, Shape DEF RefreshLoad, IInv, Presented
    <2> DEFINE record == [pc |-> "store", token |-> old]
    <2>2. record \in Request
      BY <2>1 DEF Request, Exchanging
    <2>3. /\ req' \in [Requests -> Request]
          /\ req'[r] = record
          /\ \A q \in Requests \ {r} : req'[q] = req[q]
      BY <1>7, <1>t, <2>1, <2>2, ServeRequest DEF RefreshLoad
    <2>4. TypeOK'
      BY <1>7, <1>t, <2>3 DEF RefreshLoad, TypeOK, history, descent
    <2>5. Recorded' /\ Parents'
      BY <1>7, <1>k, NothingStored DEF RefreshLoad, history
    <2>6. Kept
      BY <1>7, <1>k DEF RefreshLoad
    <2>7. Presented'
      BY <2>1, <2>3, <2>6, OthersPresented DEF Issued, Live
    <2> QED BY <2>4, <2>5, <2>7 DEF IInv
  <1>8. ASSUME NEW r \in Requests, Fail(r)
        PROVE  IInv'
    <2>1. TypeOK'
      BY <1>8, <1>t, FinishRequest DEF Fail, TypeOK, history, descent
    <2>2. Recorded' /\ Parents'
      BY <1>8, <1>k, NothingStored DEF Fail, history
    <2>3. Presented'
      BY <1>8, <1>t, <1>k, FinishRequest, OthersPresented DEF Fail
    <2> QED BY <2>1, <2>2, <2>3 DEF IInv
  <1>9. ASSUME NEW T \in SUBSET Tokens, Revoke(T), EndLoginsOf(T),
               UNCHANGED <<users, req, descent>>
        PROVE  IInv'
    <2>1. /\ tokens' \in [Tokens -> Row \union {NoToken}]
          /\ Kept
      BY <1>9, <1>t, RevokeRows
    <2>2. TypeOK'
      BY <1>9, <1>t, <2>1, EndedTyped DEF TypeOK, history, descent
    <2>3. Recorded' /\ Parents'
      BY <1>9, <2>1, NothingStored
    <2>4. Presented'
      BY <1>9, <1>t, <2>1, Shape DEF IInv, Presented
    <2> QED BY <2>2, <2>3, <2>4 DEF IInv
  <1>10. ASSUME NEW t \in Tokens, Logout(t)
         PROVE  IInv'
    BY <1>9, <1>10 DEF Logout
  <1>11. ASSUME NEW u \in Users, RevokeUserSessions(u)
         PROVE  IInv'
    BY <1>9, <1>11, <1>t, Owners DEF RevokeUserSessions
  <1>12. ASSUME NEW u \in Users, DeleteUser(u)
         PROVE  IInv'
    BY <1>12 DEF DeleteUser, IInv, TypeOK, Recorded, Presented, Parents,
                 Issued, Live, history, descent
  <1>13. ASSUME NEW t \in Tokens, Expire(t)
         PROVE  IInv'
    <2> DEFINE row == [tokens[t] EXCEPT !.term = "past"]
    <2>1. tokens[t] \in Row
      BY <1>13, <1>t DEF Expire, Issued, TypeOK
    <2>2. row \in Row /\ row.state = tokens[t].state /\ row # NoToken
      BY <2>1, NoTokenAssumption DEF Row
    <2>3. tokens' = [tokens EXCEPT ![t] = row]
      BY <1>13 DEF Expire
    <2>4. /\ tokens' \in [Tokens -> Row \union {NoToken}]
          /\ Kept
      BY <2>1, <2>2, <2>3, <1>t, NoTokenAssumption DEF TypeOK, Issued, Live
    <2>5. TypeOK'
      BY <1>13, <1>t, <2>4 DEF Expire, TypeOK, history, descent
    <2>6. Recorded' /\ Parents'
      BY <1>13, <2>4, NothingStored DEF Expire, history
    <2>7. Presented'
      BY <1>13, <1>t, <2>4, Shape DEF Expire, IInv, Presented
    <2> QED BY <2>5, <2>6, <2>7 DEF IInv
  <1>14. CASE UNCHANGED vars
    BY <1>14 DEF vars, history, descent, IInv, TypeOK, Recorded, Presented,
                 Parents, Issued, Live
  <1> QED BY <1>1, <1>2, <1>3, <1>4, <1>5, <1>6, <1>7, <1>8, <1>10, <1>11,
             <1>12, <1>13, <1>14 DEF Next

\* Type correctness of the tokens table and of every request in service.
THEOREM TypeCorrect == Spec => []TypeOK
  <1>1. IInv => TypeOK
    BY DEF IInv
  <1> QED BY <1>1, Initially, Step, PTL DEF Spec

\* A token that was exchanged is never live, however requests interleave and
\* wherever they die: RefreshToken revokes before it stores.
THEOREM SpentForGood == Spec => []SpentParents
  <1>1. IInv => SpentParents
    BY DEF IInv, Parents, SpentParents
  <1> QED BY <1>1, Initially, Step, PTL DEF Spec
-----------------------------------------------------------------------------
(***************************************************************************)
(* A login that is not contended has one token and one exchange at a time. *)
(***************************************************************************)

\* Request r exchanges a token of login l.
Exchanges(r, l) == req[r].pc \in Exchanging /\ origin[req[r].token] = l

LiveOf(t, l) == Live(t) /\ origin[t] = l

OneRequest(l) ==
  \A r, q \in Requests : Exchanges(r, l) /\ Exchanges(q, l) => r = q

OneToken(l) ==
  \A s, t \in Tokens : LiveOf(s, l) /\ LiveOf(t, l) => s = t

\* While the exchange is in service, the only token that can be live is the
\* one it is about to revoke.
TokenOfExchange(l) ==
  \A r \in Requests, t \in Tokens :
    Exchanges(r, l) /\ LiveOf(t, l) => req[r].pc = "rotate" /\ req[r].token = t

\* What is being exchanged has not been exchanged before.
FirstExchange(l) ==
  \A r \in Requests, s \in Tokens :
    Exchanges(r, l) => parent[s] # req[r].token

\* An ended login has neither token nor exchange.
Closed(l) ==
  l \in ended => /\ \A r \in Requests : ~Exchanges(r, l)
                 /\ \A t \in Tokens : ~LiveOf(t, l)

Quiet ==
  \A l \in Tokens \ contended : /\ OneRequest(l)
                                /\ OneToken(l)
                                /\ TokenOfExchange(l)
                                /\ FirstExchange(l)
                                /\ Closed(l)

\* Logins that ended were stored.
EndedStored == \A l \in ended : Issued(l)

\* A token belongs to the login of the token it was exchanged for.
Inherited ==
  \A t \in Tokens : parent[t] # NoToken => origin[t] = origin[parent[t]]

QInv == Quiet /\ EndedStored /\ Inherited /\ ExchangedOnce

LEMMA QuietInitially == Init => QInv
  BY DEF Init, QInv, Quiet, EndedStored, Inherited, ExchangedOnce,
         Exchanges, Exchanging, LiveOf, Live, Issued, OneRequest, OneToken,
         TokenOfExchange,
         FirstExchange, Closed, Idle

\* What a step must not do to leave all logins as quiet as they were.
LEMMA QuietKept ==
  ASSUME IInv, QInv, UNCHANGED descent, contended \subseteq contended',
         \A t \in Tokens : /\ Issued(t) => Issued(t)'
                           /\ Live(t)' => Live(t),
         \A r \in Requests : req'[r].pc \in Exchanging =>
           /\ req[r].pc \in Exchanging /\ req'[r].token = req[r].token
           /\ \/ req'[r].pc = req[r].pc
              \/ \A t \in Tokens : t = req[r].token => ~Live(t)',
         \A l \in ended' \ ended :
           /\ l \in Tokens /\ Issued(l)
           /\ l \notin contended' => /\ \A r \in Requests : ~Exchanges(r, l)
                                     /\ \A t \in Tokens : ~LiveOf(t, l)'
  PROVE  QInv'
  <1>1. origin' = origin /\ parent' = parent
    BY DEF descent
  <1>2. \A r \in Requests : \A l : Exchanges(r, l)' => Exchanges(r, l)
    BY <1>1 DEF Exchanges
  <1>3. \A t \in Tokens : \A l : LiveOf(t, l)' => LiveOf(t, l)
    BY <1>1 DEF LiveOf
  <1>4. ASSUME NEW l \in Tokens \ contended'
        PROVE  /\ OneRequest(l)' /\ OneToken(l)' /\ TokenOfExchange(l)'
               /\ FirstExchange(l)' /\ Closed(l)'
    <2>1. /\ OneRequest(l) /\ OneToken(l) /\ TokenOfExchange(l)
          /\ FirstExchange(l) /\ Closed(l)
      BY <1>4 DEF QInv, Quiet
    <2>2. OneRequest(l)' /\ OneToken(l)'
      BY <1>2, <1>3, <2>1 DEF OneRequest, OneToken
    <2>3. TokenOfExchange(l)'
      <3> SUFFICES ASSUME NEW r \in Requests, NEW t \in Tokens,
                          Exchanges(r, l)', LiveOf(t, l)'
                   PROVE  req'[r].pc = "rotate" /\ req'[r].token = t
        BY DEF TokenOfExchange
      <3>1. req[r].pc = "rotate" /\ req[r].token = t
        BY <1>2, <1>3, <2>1 DEF TokenOfExchange
      <3> QED BY <3>1 DEF Exchanges, LiveOf
    <2>4. FirstExchange(l)'
      BY <1>1, <1>2, <2>1 DEF FirstExchange, Exchanges
    <2>5. Closed(l)'
      BY <1>2, <1>3, <1>4, <2>1 DEF Closed
    <2> QED BY <2>2, <2>3, <2>4, <2>5
  <1>5. EndedStored'
    BY DEF QInv, EndedStored, IInv, TypeOK
  <1>6. ExchangedOnce' /\ Inherited'
    BY <1>1 DEF QInv, ExchangedOnce, Inherited
  <1> QED BY <1>4, <1>5, <1>6 DEF QInv, Quiet

\* Revoking tokens closes the quiet logins it ends.
LEMMA QuietRevoke ==
  ASSUME IInv, QInv, NEW T \in SUBSET Tokens, Revoke(T), EndLoginsOf(T),
         UNCHANGED descent,
         \A r \in Requests : req'[r].pc \in Exchanging => req'[r] = req[r]
  PROVE  QInv'
  <1>1. \A t \in Tokens : /\ Issued(t)' <=> Issued(t)
                          /\ Live(t)' <=> Live(t) /\ t \notin T
    BY RevokeRows DEF IInv
  <1>2. ASSUME NEW l \in ended' \ ended
        PROVE  /\ l \in Tokens /\ Issued(l)
               /\ l \notin contended' =>
                    /\ \A r \in Requests : ~Exchanges(r, l)
                    /\ \A t \in Tokens : ~LiveOf(t, l)'
    <2>1. PICK s \in T : (Live(s) \/ BeingExchanged(s)) /\ l = origin[s]
      BY <1>2 DEF EndLoginsOf
    <2>2. Issued(s)
      BY <2>1 DEF Live, BeingExchanged, Exchanging, IInv, Presented
    <2>3. l \in Tokens /\ Issued(l)
      BY <2>1, <2>2 DEF IInv, Recorded
    <2>4. ASSUME l \notin contended'
          PROVE  /\ \A r \in Requests : ~Exchanges(r, l)
                 /\ \A t \in Tokens : ~LiveOf(t, l)'
      <3>1. ~InExchange(l) /\ l \notin contended
        BY <2>1, <2>4 DEF EndLoginsOf, Met
      <3>2. \A r \in Requests : ~Exchanges(r, l)
        BY <3>1 DEF InExchange, Exchanges
      <3>3. Live(s)
        BY <2>1, <3>1 DEF BeingExchanged, InExchange
      <3>4. \A t \in Tokens : LiveOf(t, l) => t = s
        BY <2>1, <2>3, <3>1, <3>3 DEF QInv, Quiet, OneToken, LiveOf
      <3> QED BY <1>1, <3>2, <3>4 DEF LiveOf, descent
    <2> QED BY <2>3, <2>4
  <1>3. contended \subseteq contended'
    BY DEF EndLoginsOf
  <1> QED BY <1>1, <1>2, <1>3, QuietKept

\* An exchange that starts contends its login, or is alone in it.
LEMMA QuietRead ==
  ASSUME IInv, QInv, NEW r \in Requests, NEW t \in Tokens, Live(t),
         Serve(r, [pc |-> "rotate", token |-> t]),
         contended' = contended \union Met({t}),
         UNCHANGED <<tokens, descent, ended>>
  PROVE  QInv'
  <1>1. /\ req'[r] = [pc |-> "rotate", token |-> t]
        /\ \A q \in Requests \ {r} : req'[q] = req[q]
    <2>1. [pc |-> "rotate", token |-> t] \in Request
      BY DEF Request, Exchanging
    <2> QED BY <2>1, ServeRequest DEF IInv
  <1>2. origin' = origin /\ parent' = parent /\ ended' = ended
    BY DEF descent
  <1>3. \A s \in Tokens : \A l : LiveOf(s, l)' <=> LiveOf(s, l)
    BY <1>2 DEF LiveOf, Live, Issued
  <1>4. \A q \in Requests \ {r} : \A l : Exchanges(q, l)' <=> Exchanges(q, l)
    BY <1>1, <1>2 DEF Exchanges
  <1>5. \A l : Exchanges(r, l)' => l = origin[t]
    BY <1>1, <1>2 DEF Exchanges
  <1>6. ASSUME NEW l \in Tokens \ contended'
        PROVE  /\ OneRequest(l)' /\ OneToken(l)' /\ TokenOfExchange(l)'
               /\ FirstExchange(l)' /\ Closed(l)'
    <2>1. /\ OneRequest(l) /\ OneToken(l) /\ TokenOfExchange(l)
          /\ FirstExchange(l) /\ Closed(l)
      BY <1>6 DEF QInv, Quiet
    <2>2. OneToken(l)'
      BY <1>3, <2>1 DEF OneToken
    <2>3. CASE l # origin[t]
      <3>1. ~Exchanges(r, l)'
        BY <1>5, <2>3
      <3>2. OneRequest(l)' /\ Closed(l)'
        BY <1>2, <1>3, <1>4, <2>1, <3>1 DEF OneRequest, Closed
      <3>3. TokenOfExchange(l)' /\ FirstExchange(l)'
        BY <1>1, <1>2, <1>3, <1>4, <2>1, <3>1
        DEF TokenOfExchange, FirstExchange
      <3> QED BY <2>2, <3>2, <3>3
    <2>4. CASE l = origin[t]
      <3>1. \A q \in Requests : ~Exchanges(q, l)
        BY <1>6, <2>4 DEF Met, InExchange, Exchanges
      <3>2. \A q \in Requests : Exchanges(q, l)' => q = r
        BY <1>4, <3>1
      <3>3. \A s \in Tokens : LiveOf(s, l) => s = t
        BY <2>1, <2>4 DEF OneToken, LiveOf
      <3>4. \A s \in Tokens : parent[s] # t
        BY NoTokenAssumption DEF IInv, Parents
      <3>5. l \notin ended
        BY <2>1, <2>4 DEF Closed, LiveOf
      <3>6. OneRequest(l)'
        BY <3>2 DEF OneRequest
      <3>7. TokenOfExchange(l)' /\ FirstExchange(l)'
        BY <1>1, <1>2, <1>3, <3>2, <3>3, <3>4
        DEF TokenOfExchange, FirstExchange
      <3> QED BY <1>2, <2>2, <3>5, <3>6, <3>7 DEF Closed
    <2> QED BY <2>3, <2>4
  <1>7. EndedStored' /\ ExchangedOnce' /\ Inherited'
    BY <1>2 DEF QInv, EndedStored, ExchangedOnce, Inherited, Issued
  <1> QED BY <1>6, <1>7 DEF QInv, Quiet

\* Storing a token opens a login nobody has used, or hands a quiet login to
\* its only token.
LEMMA QuietStore ==
  ASSUME IInv, QInv, NEW r \in Requests, NEW t \in Tokens, NEW u \in Users,
         NEW from \in Tokens \union {NoToken}, NEW login \in Tokens,
         Store(t, u, from, login), Finish(r), UNCHANGED <<ended, contended>>,
         \/ from = NoToken /\ login = t /\ req[r].pc = "login_store"
         \/ /\ from = req[r].token /\ from \in Tokens /\ Issued(from)
            /\ login = origin[from] /\ req[r].pc = "store"
  PROVE  QInv'
  <1>1. /\ ~Issued(t) /\ Issued(t)'
        /\ parent'[t] = from /\ origin'[t] = login
    BY StoreRow DEF IInv
  <1>2. \A s \in Tokens \ {t} : /\ Issued(s)' <=> Issued(s)
                                /\ Live(s)' <=> Live(s)
                                /\ parent'[s] = parent[s]
                                /\ origin'[s] = origin[s]
    BY StoreRow DEF IInv, Issued, Live
  <1>3. /\ req'[r].pc = "idle"
        /\ \A q \in Requests \ {r} : req'[q] = req[q]
    BY FinishRequest DEF IInv
  <1>4. \A q \in Requests : req[q].pc \in Exchanging =>
          req[q].token \in Tokens \ {t} /\ Issued(req[q].token)
    BY <1>1, Shape DEF IInv, Presented, Exchanging
  <1>5. \A q \in Requests : \A l : Exchanges(q, l)' => q # r /\ Exchanges(q, l)
    BY <1>2, <1>3, <1>4 DEF Exchanges, Exchanging
  <1>6. \A s \in Tokens \ {t} : \A l : LiveOf(s, l)' <=> LiveOf(s, l)
    BY <1>2 DEF LiveOf
  <1>7. \A s \in Tokens : Issued(s) => Issued(origin[s])
    BY DEF IInv, Recorded
  <1>8. ASSUME NEW l \in Tokens \ contended'
        PROVE  /\ OneRequest(l)' /\ OneToken(l)' /\ TokenOfExchange(l)'
               /\ FirstExchange(l)' /\ Closed(l)'
    <2>1. /\ OneRequest(l) /\ OneToken(l) /\ TokenOfExchange(l)
          /\ FirstExchange(l) /\ Closed(l)
      BY <1>8 DEF QInv, Quiet
    <2>2. CASE l # login
      <3>1. ~LiveOf(t, l)'
        BY <1>1, <2>2 DEF LiveOf
      <3>2. OneRequest(l)' /\ OneToken(l)' /\ Closed(l)'
        BY <1>5, <1>6, <2>1, <3>1 DEF OneRequest, OneToken, Closed
      <3>3. TokenOfExchange(l)'
        BY <1>3, <1>5, <1>6, <2>1, <3>1 DEF TokenOfExchange
      <3>4. FirstExchange(l)'
        <4> SUFFICES ASSUME NEW q \in Requests, NEW s \in Tokens,
                            Exchanges(q, l)'
                     PROVE  parent'[s] # req'[q].token
          BY DEF FirstExchange
        <4>1. Exchanges(q, l) /\ req'[q] = req[q]
          BY <1>3, <1>5
        <4>2. CASE s = t
          BY <1>1, <1>4, <2>2, <4>1, <4>2, NoTokenAssumption DEF Exchanges
        <4>3. CASE s # t
          BY <1>2, <2>1, <4>1, <4>3 DEF FirstExchange
        <4> QED BY <4>2, <4>3
      <3> QED BY <3>2, <3>3, <3>4
    <2>3. CASE l = login
      <3>1. /\ \A q \in Requests : ~Exchanges(q, l)'
            /\ \A s \in Tokens \ {t} : ~LiveOf(s, l)
            /\ l \notin ended
        <4>1. CASE login = t
          <5>1. \A q \in Requests : ~Exchanges(q, l)
            BY <1>1, <1>4, <1>7, <2>3, <4>1 DEF Exchanges
          <5>2. \A s \in Tokens \ {t} : ~LiveOf(s, l)
            BY <1>1, <1>7, <2>3, <4>1 DEF LiveOf, Live
          <5>3. l \notin ended
            BY <1>1, <2>3, <4>1 DEF QInv, EndedStored
          <5> QED BY <1>5, <5>1, <5>2, <5>3
        <4>2. CASE /\ login = origin[from] /\ from = req[r].token
                   /\ req[r].pc = "store"
          <5>1. Exchanges(r, l)
            BY <2>3, <4>2 DEF Exchanges, Exchanging
          <5>2. \A q \in Requests : ~Exchanges(q, l)'
            BY <1>5, <2>1, <5>1 DEF OneRequest
          <5>3. \A s \in Tokens : ~LiveOf(s, l)
            BY <2>1, <4>2, <5>1 DEF TokenOfExchange
          <5> QED BY <2>1, <5>1, <5>2, <5>3 DEF Closed
        <4> QED BY <4>1, <4>2
      <3>2. \A s \in Tokens : LiveOf(s, l)' => s = t
        BY <1>6, <3>1
      <3> QED BY <3>1, <3>2
              DEF OneRequest, OneToken, TokenOfExchange, FirstExchange, Closed
    <2> QED BY <2>2, <2>3
  <1>9. EndedStored'
    BY <1>1, <1>2 DEF QInv, EndedStored, IInv, TypeOK
  <1>10. \A s \in Tokens : parent[s] # NoToken =>
           parent[s] \in Tokens \ {t} /\ Issued(parent[s])
    BY <1>1 DEF IInv, TypeOK, Parents
  <1>11. from # NoToken => /\ from \in Tokens \ {t}
                           /\ login = origin[from] /\ origin'[from] = login
    BY <1>1, <1>2
  <1>12. Inherited'
    BY <1>1, <1>2, <1>10, <1>11 DEF QInv, Inherited
  <1>13. ASSUME NEW s \in Tokens \ {t}, from # NoToken, parent[s] = from
         PROVE  origin[s] = login /\ login \in contended
    <2>1. origin[s] = login
      BY <1>11, <1>13 DEF QInv, Inherited
    <2>2. Exchanges(r, login)
      BY <1>11, <1>13 DEF Exchanges, Exchanging
    <2>3. ~FirstExchange(login)
      BY <1>11, <1>13, <2>2 DEF FirstExchange
    <2> QED BY <2>1, <2>3 DEF QInv, Quiet
  <1>14. ExchangedOnce'
    BY <1>1, <1>2, <1>13 DEF QInv, ExchangedOnce
  <1> QED BY <1>8, <1>9, <1>12, <1>14 DEF QInv, Quiet

\* One action at a time.
LEMMA QuietStep == IInv /\ QInv /\ [Next]_vars => QInv'
  <1> SUFFICES ASSUME IInv, QInv, [Next]_vars PROVE QInv'
    OBVIOUS
  <1>t. TypeOK
    BY DEF IInv
  <1> DEFINE Kept == \A t \in Tokens : /\ Issued(t) => Issued(t)'
                                       /\ Live(t)' => Live(t)
  <1>k. UNCHANGED tokens => Kept
    BY DEF Issued, Live
  <1>1. ASSUME NEW r \in Requests, NEW u \in Users, Login(r, u)
        PROVE  QInv'
    <2>1. [pc |-> "login_store", user |-> u] \in Request
      BY DEF Request
    <2>2. /\ req'[r].pc = "login_store"
          /\ \A q \in Requests \ {r} : req'[q] = req[q]
      BY <1>1, <1>t, <2>1, ServeRequest DEF Login
    <2> QED BY <1>1, <1>k, <2>2, QuietKept DEF Login, history, Exchanging
  <1>2. ASSUME NEW r \in Requests, NEW t \in Tokens, LoginStore(r, t)
        PROVE  QInv'
    <2>1. req[r].user \in Users
      BY <1>2, <1>t, Shape DEF LoginStore
    <2> QED BY <1>2, <2>1, QuietStore DEF LoginStore
  <1>3. ASSUME NEW r \in Requests, NEW t \in Tokens, RefreshRead(r, t)
        PROVE  QInv'
    <2>1. CASE /\ Serve(r, [pc |-> "revoke_all", token |-> t])
               /\ UNCHANGED contended
      <3>1. [pc |-> "revoke_all", token |-> t] \in Request
        BY DEF Request
      <3>2. /\ req'[r].pc = "revoke_all"
            /\ \A q \in Requests \ {r} : req'[q] = req[q]
        BY <1>t, <2>1, <3>1, ServeRequest
      <3> QED BY <1>3, <1>k, <2>1, <3>2, QuietKept DEF RefreshRead, Exchanging
    <2>2. CASE /\ Exchangeable(tokens[t])
               /\ Serve(r, [pc |-> "rotate", token |-> t])
               /\ contended' = contended \union Met({t})
      BY <1>3, <2>2, QuietRead DEF RefreshRead, Exchangeable, Live
    <2> QED BY <1>3, <2>1, <2>2 DEF RefreshRead
  <1>4. ASSUME NEW r \in Requests, NEW t \in Tokens, RefreshStore(r, t)
        PROVE  QInv'
    <2>1. PICK old \in Tokens : old = req[r].token /\ Issued(old)
      BY <1>4, <1>t, Shape DEF RefreshStore, IInv, Presented
    <2>2. Owner(old) \in Users /\ origin[old] \in Tokens
      BY <1>t, <2>1, Owners DEF IInv, Recorded
    <2> QED BY <1>4, <2>1, <2>2, QuietStore DEF RefreshStore
  <1>5. ASSUME NEW r \in Requests, RefreshReuse(r)
        PROVE  QInv'
    <2> DEFINE T == Of(Owner(req[r].token))
    <2>1. T \in SUBSET Tokens
      BY <1>t, Owners
    <2>2. req'[r].pc = "idle" /\ \A q \in Requests \ {r} : req'[q] = req[q]
      BY <1>5, <1>t, FinishRequest DEF RefreshReuse
    <2> HIDE DEF T
    <2>3. Revoke(T) /\ EndLoginsOf(T)
      BY <1>5 DEF RefreshReuse, T
    <2> QED BY <1>5, <2>1, <2>2, <2>3, QuietRevoke DEF RefreshReuse, Exchanging
  <1>6. ASSUME NEW r \in Requests, RefreshRotate(r)
        PROVE  QInv'
    <2>1. PICK old \in Tokens : old = req[r].token
      BY <1>6, <1>t, Shape DEF RefreshRotate
    <2> DEFINE record == [pc |-> "load", token |-> old]
    <2>2. record \in Request
      BY <2>1 DEF Request, Exchanging
    <2>3. Kept /\ ~Live(old)'
      BY <1>6, <1>t, <2>1, RevokeRows DEF RefreshRotate
    <2>4. req'[r] = record /\ \A q \in Requests \ {r} : req'[q] = req[q]
      BY <1>6, <1>t, <2>1, <2>2, ServeRequest DEF RefreshRotate
    <2>5. \A q \in Requests : req'[q].pc \in Exchanging =>
            /\ req[q].pc \in Exchanging /\ req'[q].token = req[q].token
            /\ \/ req'[q].pc = req[q].pc
               \/ \A t \in Tokens : t = req[q].token => ~Live(t)'
      BY <1>6, <2>1, <2>3, <2>4 DEF RefreshRotate, Exchanging
    <2> QED BY <1>6, <2>3, <2>5, QuietKept DEF RefreshRotate, history
  <1>7. ASSUME NEW r \in Requests, RefreshLoad(r)
        PROVE  QInv'
    <2>1. PICK old \in Tokens : old = req[r].token /\ ~Live(old)
      BY <1>7, <1>t, Shape DEF RefreshLoad, IInv, Presented
    <2> DEFINE record == [pc |-> "store", token |-> old]
    <2>2. record \in Request
      BY <2>1 DEF Request, Exchanging
    <2>3. Kept
      BY <1>7, <1>k DEF RefreshLoad
    <2>4. req'[r] = record /\ \A q \in Requests \ {r} : req'[q] = req[q]
      BY <1>7, <1>t, <2>1, <2>2, ServeRequest DEF RefreshLoad
    <2>5. \A q \in Requests : req'[q].pc \in Exchanging =>
            /\ req[q].pc \in Exchanging /\ req'[q].token = req[q].token
            /\ \/ req'[q].pc = req[q].pc
               \/ \A t \in Tokens : t = req[q].token => ~Live(t)'
      BY <1>7, <2>1, <2>3, <2>4 DEF RefreshLoad, Exchanging
    <2> QED BY <1>7, <2>3, <2>5, QuietKept DEF RefreshLoad, history
  <1>8. ASSUME NEW r \in Requests, Fail(r)
        PROVE  QInv'
    <2>1. req'[r].pc = "idle" /\ \A q \in Requests \ {r} : req'[q] = req[q]
      BY <1>8, <1>t, FinishRequest DEF Fail
    <2> QED BY <1>8, <1>k, <2>1, QuietKept DEF Fail, history, Exchanging
  <1>9. ASSUME NEW t \in Tokens, Logout(t)
        PROVE  QInv'
    BY <1>9, QuietRevoke DEF Logout
  <1>10. ASSUME NEW u \in Users, RevokeUserSessions(u)
         PROVE  QInv'
    BY <1>10, <1>t, Owners, QuietRevoke DEF RevokeUserSessions
  <1>11. ASSUME NEW u \in Users, DeleteUser(u)
         PROVE  QInv'
    BY <1>11, <1>k, QuietKept DEF DeleteUser, history
  <1>12. ASSUME NEW t \in Tokens, Expire(t)
         PROVE  QInv'
    <2>1. Kept
      <3> DEFINE row == [tokens[t] EXCEPT !.term = "past"]
      <3>1. tokens[t] \in Row
        BY <1>12, <1>t DEF Expire, Issued, TypeOK
      <3>2. row.state = tokens[t].state /\ row # NoToken
        BY <3>1, NoTokenAssumption DEF Row
      <3>3. tokens' = [tokens EXCEPT ![t] = row]
        BY <1>12 DEF Expire
      <3>4. /\ tokens'[t] = row
            /\ \A s \in Tokens \ {t} : tokens'[s] = tokens[s]
        BY <3>3, <1>t DEF TypeOK
      <3> HIDE DEF row
      <3>5. (Issued(t) => Issued(t)') /\ (Live(t)' => Live(t))
        BY <1>12, <3>2, <3>4 DEF Expire, Issued, Live
      <3>6. \A s \in Tokens \ {t} : /\ Issued(s) => Issued(s)'
                                    /\ Live(s)' => Live(s)
        BY <3>4 DEF Issued, Live
      <3> QED BY <3>5, <3>6
    <2> QED BY <1>12, <2>1, QuietKept DEF Expire, history
  <1>13. CASE UNCHANGED vars
    BY <1>13, <1>k, QuietKept DEF vars, history
  <1> QED BY <1>1, <1>2, <1>3, <1>4, <1>5, <1>6, <1>7, <1>8, <1>9, <1>10,
             <1>11, <1>12, <1>13 DEF Next

\* A token is exchanged once, unless two requests about its login met.
THEOREM OnceOnly == Spec => []ExchangedOnce
  <1>1. QInv => ExchangedOnce
    BY DEF QInv
  <1> QED BY <1>1, Initially, Step, QuietInitially, QuietStep, PTL DEF Spec

\* A logout, a revocation or a detected reuse leaves no live token of a
\* login, unless an exchange of that very login was in service with another
\* request about it; all other requests may interleave and fail at will.
THEOREM EndingsFinal == Spec => []EndingsHold
  <1>1. IInv /\ QInv => EndingsHold
    BY DEF IInv, TypeOK, Recorded, QInv, Quiet, Closed, LiveOf, EndingsHold,
           Live
  <1> QED BY <1>1, Initially, Step, QuietInitially, QuietStep, PTL DEF Spec

-----------------------------------------------------------------------------
(***************************************************************************)
(* RefreshTokens implements LoginSessions.                                 *)
(***************************************************************************)
LEMMA SessionsInitially == Init => Promise!Init
  BY NoTokenAssumption DEF Init, Promise!Init, Session, Logins

\* A step that opens no login ends some, or does nothing that shows.
LEMMA SomeEnd ==
  ASSUME Logins' = Logins, \A l \in Tokens : Open(l)' => Open(l)
  PROVE  Promise!Next
  <1> DEFINE L == {l \in Logins : Open(l) /\ ~Open(l)'}
  <1>1. L \in SUBSET Tokens
    BY DEF Logins
  <1>2. \A l \in L : Session[l] = "open"
    BY <1>1 DEF Session
  <1>3. Session' = [l \in Tokens |-> IF l \in L THEN "over" ELSE Session[l]]
    <2>1. ASSUME NEW l \in Tokens
          PROVE  (IF l \notin Logins' THEN "unused"
                  ELSE IF Open(l)' THEN "open" ELSE "over")
                 = IF l \in L THEN "over" ELSE Session[l]
      BY <2>1 DEF Session
    <2> HIDE DEF L
    <2> QED BY <2>1 DEF Session
  <1>4. Promise!End(L)
    BY <1>2, <1>3 DEF Promise!End
  <1> QED BY <1>1, <1>4 DEF Promise!Next

\* No login opens when no token becomes usable and an exchange only starts
\* with a usable token.
LEMMA NoneOpens ==
  ASSUME UNCHANGED origin,
         \A t \in Tokens : Usable(t)' => Usable(t),
         \A q \in Requests : req'[q].pc \in Exchanging =>
           \/ req[q].pc \in Exchanging /\ req'[q].token = req[q].token
           \/ \E t \in Tokens : req'[q].token = t /\ Usable(t)
  PROVE  Promise!Next
  <1>1. Logins' = Logins
    BY DEF Logins
  <1>2. ASSUME NEW l \in Tokens, Open(l)'
        PROVE  Open(l)
    <2>1. CASE \E t \in Tokens : Usable(t)' /\ origin'[t] = l
      BY <2>1 DEF Open
    <2>2. CASE InExchange(l)'
      <3>1. PICK q \in Requests : /\ req'[q].pc \in Exchanging
                                  /\ origin'[req'[q].token] = l
        BY <2>2 DEF InExchange, Exchanging
      <3> QED BY <3>1 DEF Open, InExchange, Exchanging
    <2> QED BY <1>2, <2>1, <2>2 DEF Open
  <1> QED BY <1>1, <1>2, SomeEnd

\* A login opens exactly one session.
LEMMA OneOpens ==
  ASSUME IInv, NEW r \in Requests, NEW t \in Tokens, LoginStore(r, t)
  PROVE  Promise!Next
  <1>1. TypeOK /\ Store(t, req[r].user, NoToken, t) /\ Finish(r)
    BY DEF IInv, LoginStore
  <1>2. req[r].user \in Users
    BY <1>1, Shape DEF LoginStore
  <1>3. /\ ~Issued(t) /\ Usable(t)' /\ origin'[t] = t
        /\ \A s \in Tokens \ {t} : /\ tokens'[s] = tokens[s]
                                   /\ origin'[s] = origin[s]
    BY <1>1, <1>2, StoreRow
  <1>4. Logins' = Logins \union {t} /\ t \notin Logins
    BY <1>3, NoTokenAssumption DEF Logins, IInv, Recorded
  <1>5. Open(t)'
    BY <1>3 DEF Open
  <1>6. ASSUME NEW l \in Tokens, l # t
        PROVE  Open(l)' <=> Open(l)
    <2>1. (\E s \in Tokens : Usable(s)' /\ origin'[s] = l)
            <=> \E s \in Tokens : Usable(s) /\ origin[s] = l
      BY <1>3, <1>6 DEF Usable, Live, Issued
    <2>2. InExchange(l)' <=> InExchange(l)
      <3>1. \A q \in Requests :
              /\ req'[q].pc \in Exchanging <=> req[q].pc \in Exchanging
              /\ req[q].pc \in Exchanging
                   => /\ req'[q].token = req[q].token
                      /\ req[q].token \in Tokens \ {t}
        <4>1. \A q \in Requests \ {r} :
                req[q].pc \in Exchanging => req[q].token \in Tokens \ {t}
          BY <1>1, <1>3, Shape DEF IInv, Presented, Exchanging
        <4> QED BY <1>1, <4>1, FinishRequest DEF LoginStore, Exchanging
      <3> QED BY <1>3, <3>1 DEF InExchange, Exchanging
    <2> QED BY <2>1, <2>2 DEF Open
  <1>7. Session[t] = "unused"
    BY <1>4 DEF Session
  <1>8. Session' = [Session EXCEPT ![t] = "open"]
    BY <1>4, <1>5, <1>6 DEF Session
  <1>9. Promise!Open(t)
    BY <1>7, <1>8 DEF Promise!Open
  <1> QED BY <1>9 DEF Promise!Next

\* An exchange hands its session to the new token.
LEMMA Handover ==
  ASSUME IInv, NEW r \in Requests, NEW t \in Tokens, RefreshStore(r, t)
  PROVE  Promise!Next
  <1>1. PICK old \in Tokens : old = req[r].token /\ Issued(old)
    BY Shape DEF RefreshStore, IInv, Presented
  <1>2. TypeOK /\ Owner(old) \in Users /\ origin[old] \in Tokens
    BY <1>1, Owners DEF IInv, Recorded
  <1>3. /\ Store(t, Owner(old), old, origin[old]) /\ Finish(r)
        /\ req[r].pc = "store"
    BY <1>1 DEF RefreshStore
  <1>4. /\ ~Issued(t) /\ origin'[t] = origin[old]
        /\ \A s \in Tokens \ {t} : /\ tokens'[s] = tokens[s]
                                   /\ origin'[s] = origin[s]
    BY <1>2, <1>3, StoreRow
  <1>5. Logins' = Logins
    BY <1>1, <1>4, NoTokenAssumption DEF Logins, IInv, Recorded
  <1>6. Open(origin[old])
    BY <1>1, <1>3 DEF Open, InExchange, Exchanging
  <1>7. ASSUME NEW l \in Tokens, Open(l)'
        PROVE  Open(l)
    <2>1. CASE \E s \in Tokens : Usable(s)' /\ origin'[s] = l
      <3>1. PICK s \in Tokens : Usable(s)' /\ origin'[s] = l
        BY <2>1
      <3>2. CASE s = t
        BY <3>1, <3>2, <1>4, <1>6
      <3>3. CASE s # t
        BY <3>1, <3>3, <1>4 DEF Open, Usable, Live, Issued
      <3> QED BY <3>2, <3>3
    <2>2. CASE InExchange(l)'
      <3>1. PICK q \in Requests : /\ req'[q].pc \in Exchanging
                                  /\ origin'[req'[q].token] = l
        BY <2>2 DEF InExchange, Exchanging
      <3>2. q # r /\ req'[q] = req[q]
        BY <1>2, <1>3, <3>1, FinishRequest DEF Exchanging
      <3>3. req[q].token \in Tokens \ {t}
        BY <1>2, <1>4, <3>1, <3>2, Shape DEF IInv, Presented, Exchanging
      <3> QED BY <1>4, <3>1, <3>2, <3>3 DEF Open, InExchange, Exchanging
    <2> QED BY <1>7, <2>1, <2>2 DEF Open
  <1> QED BY <1>5, <1>7, SomeEnd

LEMMA SessionsStep == IInv /\ [Next]_vars => [Promise!Next]_Session
  <1> SUFFICES ASSUME IInv, [Next]_vars PROVE [Promise!Next]_Session
    OBVIOUS
  <1>t. TypeOK
    BY DEF IInv
  <1> DEFINE Same == \A t \in Tokens : Usable(t)' => Usable(t)
  <1>u. UNCHANGED tokens => Same
    BY DEF Usable, Live, Issued
  <1>1. ASSUME NEW r \in Requests, NEW u \in Users, Login(r, u)
        PROVE  Promise!Next
    <2>1. [pc |-> "login_store", user |-> u] \in Request
      BY DEF Request, Exchanging
    <2> QED BY <1>1, <1>t, <1>u, <2>1, ServeRequest, NoneOpens
            DEF Login, history, descent, Exchanging
  <1>2. ASSUME NEW r \in Requests, NEW t \in Tokens, RefreshRead(r, t)
        PROVE  Promise!Next
    <2>1. CASE Serve(r, [pc |-> "revoke_all", token |-> t])
      <3>1. [pc |-> "revoke_all", token |-> t] \in Request
        BY DEF Request, Exchanging
      <3> QED BY <1>2, <2>1, <3>1, <1>t, <1>u, ServeRequest, NoneOpens
              DEF RefreshRead, history, descent, Exchanging
    <2>2. CASE /\ Exchangeable(tokens[t])
               /\ Serve(r, [pc |-> "rotate", token |-> t])
      <3>1. [pc |-> "rotate", token |-> t] \in Request
        BY DEF Request, Exchanging
      <3>2. Usable(t)
        BY <1>2, <2>2 DEF RefreshRead, Exchangeable, Usable, Live
      <3> QED BY <1>2, <2>2, <3>1, <3>2, <1>t, <1>u, ServeRequest, NoneOpens
              DEF RefreshRead, history, descent, Exchanging
    <2> QED BY <1>2, <2>1, <2>2 DEF RefreshRead
  <1>3. ASSUME NEW r \in Requests, RefreshReuse(r)
        PROVE  Promise!Next
    <2>1. Same
      BY <1>3, <1>t, Owners, RevokeRows DEF RefreshReuse
    <2> QED BY <1>3, <1>t, <2>1, FinishRequest, NoneOpens
            DEF RefreshReuse, history, descent, Exchanging
  <1>4. ASSUME NEW r \in Requests, RefreshRotate(r)
        PROVE  Promise!Next
    <2>1. req[r].token \in Tokens
      BY <1>4, <1>t, Shape DEF RefreshRotate
    <2>2. Same
      BY <1>4, <1>t, <2>1, RevokeRows DEF RefreshRotate
    <2>3. [pc |-> "load", token |-> req[r].token] \in Request
      BY <2>1 DEF Request, Exchanging
    <2> QED BY <1>4, <1>t, <2>2, <2>3, ServeRequest, NoneOpens
            DEF RefreshRotate, history, descent, Exchanging
  <1>5. ASSUME NEW r \in Requests, RefreshLoad(r)
        PROVE  Promise!Next
    <2>1. req[r].token \in Tokens
      BY <1>5, <1>t, Shape DEF RefreshLoad
    <2>2. [pc |-> "store", token |-> req[r].token] \in Request
      BY <2>1 DEF Request, Exchanging
    <2> QED BY <1>5, <1>t, <1>u, <2>2, ServeRequest, NoneOpens
            DEF RefreshLoad, history, descent, Exchanging
  <1>6. ASSUME NEW r \in Requests, Fail(r)
        PROVE  Promise!Next
    BY <1>6, <1>t, <1>u, FinishRequest, NoneOpens
    DEF Fail, history, descent, Exchanging
  <1>7. ASSUME NEW T \in SUBSET Tokens, Revoke(T), UNCHANGED <<req, descent>>
        PROVE  Promise!Next
    BY <1>7, <1>t, RevokeRows, NoneOpens DEF history, descent
  <1>8. ASSUME NEW t \in Tokens, Logout(t)
        PROVE  Promise!Next
    BY <1>7, <1>8 DEF Logout
  <1>9. ASSUME NEW u \in Users, RevokeUserSessions(u)
        PROVE  Promise!Next
    BY <1>7, <1>9, <1>t, Owners DEF RevokeUserSessions
  <1>10. ASSUME NEW u \in Users, DeleteUser(u)
         PROVE  Promise!Next
    BY <1>10, <1>u, NoneOpens DEF DeleteUser, history, descent
  <1>11. ASSUME NEW t \in Tokens, Expire(t)
         PROVE  Promise!Next
    <2>1. Same
      BY <1>11, <1>t DEF Expire, Usable, Live, Issued, TypeOK, Row
    <2> QED BY <1>11, <2>1, NoneOpens DEF Expire, history, descent
  <1>12. CASE UNCHANGED vars
    BY <1>12 DEF vars, history, descent, Session, Logins, Open, InExchange,
                 Usable, Live, Issued
  <1> QED BY <1>1, <1>2, <1>3, <1>4, <1>5, <1>6, <1>8, <1>9, <1>10, <1>11,
             <1>12, OneOpens, Handover DEF Next

\* In every interleaving of logins, exchanges, logouts, revocations, expiry
\* and failures, a login session that is over never comes back.
THEOREM Implements == Spec => SessionsStayOver
  BY SessionsInitially, Initially, Step, SessionsStep, PTL
  DEF Spec, SessionsStayOver, Promise!Spec

-----------------------------------------------------------------------------
(***************************************************************************)
(* Whose request it is: the address the first proxy noted, whatever the    *)
(* header held before and however many proxies follow.                     *)
(***************************************************************************)
LEMMA Prefix ==
  ASSUME NEW S, NEW s \in Seq(S), NEW n \in 0..Len(s)
  PROVE  SubSeq(s, 1, n) \in Seq(S) /\ Len(SubSeq(s, 1, n)) = n
<1>1. \A i \in 1..n : s[i] \in S
  OBVIOUS
<1>2. /\ SubSeq(s, 1, n) \in Seq(S)
      /\ Len(SubSeq(s, 1, n)) = IF 1 <= n THEN n - 1 + 1 ELSE 0
  BY <1>1, SubSeqProperties
<1> QED
  BY <1>2

LEMMA HeaderEntries ==
  ASSUME NEW c \in Clients, NEW earlier \in Seq(Addresses), NEW route \in Seq(Proxies),
         route # <<>>,
         NEW n, n = Len(earlier) + 1,
         NEW h, h = Header(c, earlier, route)
  PROVE  /\ n \in DOMAIN h
         /\ h[n] = c
         /\ DOMAIN h \subseteq Nat
         /\ \A j \in DOMAIN h : j > n => h[j] \in Proxies
<1> DEFINE before == earlier \o <<c>>
           rest == SubSeq(route, 1, Len(route) - 1)
<1>1. /\ Len(route) \in Nat /\ Len(route) >= 1
      /\ \A i \in 1..Len(route) : route[i] \in Proxies
  BY EmptySeq
<1>2. /\ rest \in Seq(Proxies) /\ Len(rest) = Len(route) - 1
      /\ \A i \in 1..Len(rest) : rest[i] \in Proxies
  <2>1. Len(route) - 1 \in 0..Len(route)
    BY <1>1
  <2> QED
    BY <2>1, Prefix, LenProperties
<1>3. /\ before \in Seq(Addresses) /\ Len(before) = n
      /\ before[n] = c
  BY DEF Addresses
<1>4. /\ rest \in Seq(Addresses) /\ Len(rest) \in Nat /\ n \in Nat /\ n >= 1
  BY <1>2 DEF Addresses
<1> HIDE DEF before, rest
<1>5. h = before \o rest
  BY DEF Header, before, rest
<1>6. /\ Len(h) = n + Len(rest)
      /\ h \in Seq(Addresses)
      /\ \A i \in 1..Len(h) : h[i] = IF i <= n THEN before[i] ELSE rest[i - n]
  <2>1. /\ before \o rest \in Seq(Addresses)
        /\ Len(before \o rest) = Len(before) + Len(rest)
        /\ \A i \in 1..Len(before) + Len(rest) :
             (before \o rest)[i] = IF i <= Len(before) THEN before[i] ELSE rest[i - Len(before)]
    BY ONLY <1>3, <1>4, ConcatProperties, Zenon
  <2> QED
    BY <1>3, <1>5, <2>1
<1>7. DOMAIN h = 1..Len(h)
  BY <1>6, LenProperties
<1>8. h[n] = c
  BY <1>3, <1>4, <1>6
<1>9. ASSUME NEW j \in DOMAIN h, j > n
      PROVE  h[j] \in Proxies
  <2>1. /\ j \in 1..Len(h) /\ ~(j <= n) /\ j - n \in 1..Len(rest)
    BY <1>4, <1>6, <1>7, <1>9
  <2> QED
    BY <1>2, <1>6, <2>1
<1> QED
  BY <1>4, <1>6, <1>7, <1>8, <1>9

LEMMA KeyOfClient ==
  ASSUME NEW c \in Clients, NEW earlier \in Seq(Addresses), NEW route \in Seq(Proxies)
  PROVE  ClientKey(Peer(c, route), Header(c, earlier, route)) = c
<1>1. CASE route = <<>>
  BY <1>1, AddressesAssumption DEF ClientKey, Peer, Trusted
<1>2. CASE route # <<>>
  <2> DEFINE n == Len(earlier) + 1
             h == Header(c, earlier, route)
             untrusted == {i \in DOMAIN h : ~Trusted(h[i])}
             last == CHOOSE i \in untrusted : \A j \in untrusted : j <= i
  <2>1. /\ n \in DOMAIN h
        /\ h[n] = c
        /\ DOMAIN h \subseteq Nat
        /\ \A j \in DOMAIN h : j > n => h[j] \in Proxies
    BY <1>2, HeaderEntries
  <2>2. Trusted(Peer(c, route))
    BY <1>2, EmptySeq DEF Peer, Trusted
  <2>3. n \in untrusted /\ untrusted \subseteq Nat
    BY <2>1, AddressesAssumption DEF Trusted
  <2>4. \A j \in untrusted : j <= n
    BY <2>1, <2>3 DEF Trusted
  <2>5. last \in untrusted /\ \A j \in untrusted : j <= last
    BY <2>3, <2>4
  <2> HIDE DEF last
  <2>6. last = n
    BY <2>3, <2>4, <2>5
  <2>7. ClientKey(Peer(c, route), h) = h[last]
    BY <2>2, <2>3 DEF ClientKey, last
  <2> QED
    BY <2>1, <2>6, <2>7
<1> QED
  BY <1>1, <1>2

-----------------------------------------------------------------------------
(***************************************************************************)
(* The invariant that carries the theorems: what a client could spend from *)
(* its bucket lies between what its account holds, and that plus one full  *)
(* bucket per eviction.                                                    *)
(***************************************************************************)
Level(a) ==
  IF buckets[a] = NoBucket THEN Capacity
  ELSE AtMostFull(buckets[a].tokens + (now - buckets[a].lastRefill) * Refill)

Clocks ==
  /\ \A a \in Addresses :
       buckets[a] # NoBucket =>
         buckets[a].lastSeen = buckets[a].lastRefill /\ buckets[a].lastRefill <= now
  /\ \A c \in Clients : account[c].since <= now

Books ==
  \A c \in Clients :
    Credit(c) <= Level(c) /\ Level(c) <= Credit(c) + Capacity * evictions[c]

LimiterInv ==
  /\ LimiterTypeOK
  /\ IsFiniteSet(Present)
  /\ Clocks
  /\ Books
  /\ NobodyWronged
  /\ NobodyFavoured

(***************************************************************************)
(* Arithmetic.                                                             *)
(***************************************************************************)
LEMMA ProductNat ==
  ASSUME NEW m \in Nat, NEW n \in Nat
  PROVE  m * n \in Nat
  OBVIOUS

LEMMA Clamp ==
  ASSUME NEW n \in Int
  PROVE  AtMostFull(n) \in Int /\ AtMostFull(n) <= Capacity /\ (n <= Capacity => AtMostFull(n) = n)
  BY LimitsAssumption DEF AtMostFull

\* What a tick adds to a clamped amount.
LEMMA ClampTick ==
  ASSUME NEW n \in Int, NEW t \in Nat
  PROVE  AtMostFull(n + (t + 1) * Refill) = AtMostFull(AtMostFull(n + t * Refill) + Refill)
<1>1. (t + 1) * Refill = t * Refill + Refill /\ t * Refill \in Nat /\ Refill \in Nat
  BY LimitsAssumption
<1> QED
  BY <1>1, LimitsAssumption DEF AtMostFull

\* A bucket that idled too long is full.
LEMMA IdleIsFull ==
  ASSUME NEW n \in Nat, NEW t \in Nat, t > IdleTimeout
  PROVE  AtMostFull(n + t * Refill) = Capacity
<1>1. PICK d \in Nat : t = IdleTimeout + d
  <2>1. t - IdleTimeout \in Nat /\ t = IdleTimeout + (t - IdleTimeout)
    BY LimitsAssumption
  <2> QED
    BY <2>1
<1>2. t * Refill = Refill * IdleTimeout + d * Refill
  BY <1>1, LimitsAssumption
<1>3. d * Refill \in Nat /\ Refill * IdleTimeout \in Nat
  BY LimitsAssumption
<1> QED
  BY <1>2, <1>3, LimitsAssumption, IdleRefillsAssumption DEF AtMostFull

LEMMA LevelType ==
  ASSUME LimiterTypeOK, Clocks, NEW a \in Addresses
  PROVE  Level(a) \in 0..Capacity
<1>1. CASE buckets[a] = NoBucket
  BY <1>1, LimitsAssumption DEF Level
<1>2. CASE buckets[a] # NoBucket
  <2>1. /\ buckets[a].tokens \in 0..Capacity
        /\ now - buckets[a].lastRefill \in Nat
    BY <1>2 DEF LimiterTypeOK, Clocks, Bucket
  <2>2. (now - buckets[a].lastRefill) * Refill \in Nat
    BY <2>1, ProductNat, LimitsAssumption
  <2> QED
    BY <1>2, <2>1, <2>2, LimitsAssumption DEF Level, AtMostFull
<1> QED
  BY <1>1, <1>2

LEMMA CreditType ==
  ASSUME LimiterTypeOK, Clocks, NEW c \in Clients
  PROVE  Credit(c) \in Int /\ Credit(c) <= Capacity
<1>1. account[c].tokens \in Int /\ now - account[c].since \in Nat
  BY DEF LimiterTypeOK, Clocks
<1>2. (now - account[c].since) * Refill \in Nat
  BY <1>1, ProductNat, LimitsAssumption
<1> QED
  BY <1>1, <1>2, Clamp DEF Credit

(***************************************************************************)
(* Initial states.                                                         *)
(***************************************************************************)
LEMMA InitLimiterInv == LimiterInit => LimiterInv
<1> SUFFICES ASSUME LimiterInit PROVE LimiterInv
  OBVIOUS
<1>1. Present = {}
  BY DEF LimiterInit, Present
<1>2. LimiterTypeOK /\ IsFiniteSet(Present)
  BY <1>1, FS_EmptySet, LimitsAssumption DEF LimiterInit, LimiterTypeOK
<1>3. Clocks /\ NobodyWronged /\ NobodyFavoured
  BY DEF LimiterInit, Clocks, NobodyWronged, NobodyFavoured
<1>4. ASSUME NEW c \in Clients
      PROVE  Level(c) = Capacity /\ Credit(c) = Capacity /\ evictions[c] = 0
  BY LimitsAssumption DEF LimiterInit, Level, Credit, AtMostFull, Addresses
<1>5. Books
  BY <1>4, LimitsAssumption DEF Books
<1> QED
  BY <1>2, <1>3, <1>5 DEF LimiterInv

(***************************************************************************)
(* The clock.                                                              *)
(***************************************************************************)
LEMMA TickLimiterInv == LimiterInv /\ Tick => LimiterInv'
<1> SUFFICES ASSUME LimiterInv, Tick PROVE LimiterInv'
  OBVIOUS
<1> USE DEF LimiterInv
<1>1. LimiterTypeOK' /\ IsFiniteSet(Present)' /\ NobodyWronged' /\ NobodyFavoured'
  BY DEF Tick, LimiterTypeOK, Present, NobodyWronged, NobodyFavoured
<1>2. Clocks'
  BY DEF Tick, Clocks, LimiterTypeOK, Bucket
<1>3. ASSUME NEW c \in Clients
      PROVE  /\ Credit(c)' = AtMostFull(Credit(c) + Refill)
             /\ Level(c)' = AtMostFull(Level(c) + Refill)
  <2>1. account[c].tokens \in Int /\ now - account[c].since \in Nat
    BY DEF LimiterTypeOK, Clocks
  <2>2. Credit(c)' = AtMostFull(account[c].tokens + ((now - account[c].since) + 1) * Refill)
    <3>1. now' - account[c].since = (now - account[c].since) + 1 /\ account' = account
      BY DEF Tick, LimiterTypeOK
    <3> QED
      BY <3>1 DEF Credit, AtMostFull
  <2>3. Credit(c)' = AtMostFull(Credit(c) + Refill)
    BY <2>1, <2>2, ClampTick DEF Credit
  <2>4. CASE buckets[c] = NoBucket
    BY <2>3, <2>4, LimitsAssumption DEF Tick, Level, AtMostFull
  <2>5. CASE buckets[c] # NoBucket
    <3>1. /\ buckets[c].tokens \in Int
          /\ now - buckets[c].lastRefill \in Nat
      BY <2>5 DEF LimiterTypeOK, Clocks, Bucket, Addresses
    <3>2. Level(c)' = AtMostFull(buckets[c].tokens + ((now - buckets[c].lastRefill) + 1) * Refill)
      <4>1. now' - buckets[c].lastRefill = (now - buckets[c].lastRefill) + 1 /\ buckets' = buckets
        BY <2>5 DEF Tick, LimiterTypeOK, Bucket, Addresses
      <4> QED
        BY <2>5, <4>1 DEF Level, AtMostFull
    <3>3. Level(c)' = AtMostFull(Level(c) + Refill)
      BY <2>5, <3>1, <3>2, ClampTick DEF Level
    <3> QED
      BY <2>3, <3>3
  <2> QED
    BY <2>3, <2>4, <2>5
<1>4. ASSUME NEW c \in Clients
      PROVE  (Credit(c) <= Level(c) /\ Level(c) <= Credit(c) + Capacity * evictions[c])'
  <2>1. evictions[c] \in Nat /\ evictions' = evictions
    BY DEF Tick, LimiterTypeOK
  <2>2. Capacity * evictions[c] \in Nat
    BY <2>1, LimitsAssumption
  <2>3. Credit(c) \in Int /\ Level(c) \in Int
    BY CreditType, LevelType DEF Addresses
  <2>4. Credit(c) <= Level(c) /\ Level(c) <= Credit(c) + Capacity * evictions[c]
    BY DEF Books
  <2>5. /\ AtMostFull(Credit(c) + Refill) <= AtMostFull(Level(c) + Refill)
        /\ AtMostFull(Level(c) + Refill)
             <= AtMostFull(Credit(c) + Refill) + Capacity * evictions[c]
    BY <2>2, <2>3, <2>4, LimitsAssumption DEF AtMostFull
  <2> QED
    BY <1>3, <2>1, <2>5
<1>5. Books'
  BY <1>4 DEF Books
<1> QED
  BY <1>1, <1>2, <1>5

(***************************************************************************)
(* A request.                                                              *)
(***************************************************************************)
LEMMA FoundType ==
  ASSUME LimiterTypeOK, Clocks, NEW c \in Clients
  PROVE  /\ Found(c) \in Bucket
         /\ Found(c).tokens = Level(c)
         /\ Found(c).lastRefill = now
         /\ Found(c).lastSeen = now
<1>1. Level(c) \in 0..Capacity /\ now \in Nat
  BY LevelType DEF Addresses, LimiterTypeOK
<1>2. CASE buckets[c] = NoBucket
  BY <1>1, <1>2, LimitsAssumption DEF Found, FullBucket, Level, Bucket
<1>3. CASE buckets[c] # NoBucket
  BY <1>1, <1>3 DEF Found, Refilled, Level, Bucket
<1> QED
  BY <1>2, <1>3

\* What is left in the bucket of the client that was served or refused.
LEMMA SpendType ==
  ASSUME LimiterTypeOK, Clocks, NEW c \in Clients
  PROVE  /\ Spend(Found(c)) \in Bucket
         /\ Spend(Found(c)).tokens = IF Level(c) >= 1 THEN Level(c) - 1 ELSE Level(c)
         /\ Spend(Found(c)).lastRefill = now
         /\ Spend(Found(c)).lastSeen = now
         /\ Spend(Found(c)) # NoBucket
<1>1. Level(c) \in 0..Capacity /\ now \in Nat
  BY LevelType DEF Addresses, LimiterTypeOK
<1>2. CASE Found(c).tokens >= 1
  BY <1>1, <1>2, FoundType, LimitsAssumption, NoBucketAssumption DEF Spend, Bucket
<1>3. CASE ~(Found(c).tokens >= 1)
  BY <1>1, <1>3, FoundType, NoBucketAssumption DEF Spend
<1> QED
  BY <1>2, <1>3

LEMMA AllowTypes ==
  ASSUME LimiterInv, NEW c \in Clients, NEW victim \in Evicted(c), Allow(c, c, victim)
  PROVE  /\ buckets' \in [Addresses -> Bucket \union {NoBucket}]
         /\ opsSinceSweep' \in 0..SweepEvery
         /\ account' \in [Clients -> [tokens: Int, since: Nat]]
         /\ evictions' \in [Clients -> Nat]
         /\ now' = now /\ now \in Nat
<1> USE DEF LimiterInv
<1>1. buckets' \in [Addresses -> Bucket \union {NoBucket}]
  BY SpendType DEF Allow, LimiterTypeOK
<1>2. opsSinceSweep' \in 0..SweepEvery
  BY LimitsAssumption DEF Allow, LimiterTypeOK, Sweeps
<1>3. account' \in [Clients -> [tokens: Int, since: Nat]]
  <2>1. Credit(c) \in Int /\ now \in Nat
    BY CreditType DEF LimiterTypeOK
  <2>2. PICK k \in {0, 1} :
          account' = [account EXCEPT ![c] = [tokens |-> Credit(c) - k, since |-> now]]
    BY DEF Allow, Charged
  <2> QED
    BY <2>1, <2>2 DEF LimiterTypeOK
<1>4. evictions' \in [Clients -> Nat]
  BY DEF Allow, LimiterTypeOK
<1> QED
  BY <1>1, <1>2, <1>3, <1>4 DEF Allow, LimiterTypeOK

\* The map keeps its bound: it gains the bucket of the request at most, and
\* loses the victim where there was no room.
LEMMA AllowBound ==
  ASSUME LimiterInv, NEW c \in Clients, NEW victim \in Evicted(c), Allow(c, c, victim)
  PROVE  IsFiniteSet(Present') /\ Cardinality(Present') <= MaxEntries
<1> USE DEF LimiterInv
<1>1. IsFiniteSet(Present) /\ Cardinality(Present) \in Nat /\ Cardinality(Present) <= MaxEntries
  BY FS_CardinalityType DEF LimiterTypeOK
<1>2. Present' \subseteq (Present \ {victim}) \union {c}
  BY DEF Allow, Present, LimiterTypeOK
<1>3. IsFiniteSet(Present \ {victim}) /\ IsFiniteSet((Present \ {victim}) \union {c})
  BY <1>1, FS_RemoveElement, FS_AddElement
<1>4. /\ IsFiniteSet(Present')
      /\ Cardinality(Present') <= Cardinality((Present \ {victim}) \union {c})
      /\ Cardinality(Present') \in Nat
  BY <1>2, <1>3, FS_Subset, FS_CardinalityType
<1>5. Cardinality((Present \ {victim}) \union {c}) <= MaxEntries
  <2>1. CASE buckets[c] # NoBucket
    <3>1. c \in Present /\ victim = NoBucket /\ NoBucket \notin Present
      BY <2>1, NoBucketAssumption DEF Present, Evicted, Addresses
    <3>2. (Present \ {victim}) \union {c} = Present
      BY <3>1
    <3> QED
      BY <1>1, <3>2
  <2>2. CASE buckets[c] = NoBucket /\ Room(c)
    <3>1. victim = NoBucket /\ NoBucket \notin Present
      BY <2>2, NoBucketAssumption DEF Present, Evicted
    <3>2. (Present \ {victim}) \union {c} = Present \union {c}
      BY <3>1
    <3>3. Cardinality(Present \union {c}) = Cardinality(Present) + 1
      BY <1>1, <2>2, FS_AddElement DEF Present
    <3>4. Cardinality(Present \union {c}) \in Nat
      BY <1>1, FS_AddElement, FS_CardinalityType
    <3> QED
      BY <1>1, <2>2, <3>2, <3>3, <3>4, LimitsAssumption DEF Room
  <2>3. CASE buckets[c] = NoBucket /\ ~Room(c)
    <3>1. victim \in Present
      BY <2>3 DEF Evicted
    <3>2. Cardinality(Present \ {victim}) = Cardinality(Present) - 1
      BY <1>1, <3>1, FS_RemoveElement
    <3>3. Cardinality((Present \ {victim}) \union {c}) <= Cardinality(Present \ {victim}) + 1
      BY <1>1, <1>3, <3>2, FS_AddElement, FS_CardinalityType
    <3>4. Cardinality((Present \ {victim}) \union {c}) \in Nat
      BY <1>3, FS_CardinalityType
    <3> QED
      BY <1>1, <3>2, <3>3, <3>4, LimitsAssumption
  <2> QED
    BY <2>1, <2>2, <2>3
<1>6. Cardinality((Present \ {victim}) \union {c}) \in Nat
  BY <1>3, FS_CardinalityType
<1> QED
  BY <1>4, <1>5, <1>6, LimitsAssumption

\* The client of the request: bucket and account pay alike.
LEMMA AllowOwn ==
  ASSUME LimiterInv, NEW c \in Clients, NEW victim \in Evicted(c), Allow(c, c, victim)
  PROVE  /\ (Credit(c) <= Level(c) /\ Level(c) <= Credit(c) + Capacity * evictions[c])'
         /\ wronged' = {} /\ favoured' = {}
<1> USE DEF LimiterInv
<1> DEFINE owed == Capacity * evictions[c]
<1>1. /\ Level(c) \in 0..Capacity
      /\ Credit(c) \in Int /\ Credit(c) <= Capacity
      /\ Credit(c) <= Level(c) /\ Level(c) <= Credit(c) + owed
  BY LevelType, CreditType DEF Addresses, Books
<1>2. owed \in Nat
  BY LimitsAssumption DEF LimiterTypeOK
<1>3. evictions'[c] = evictions[c]
  <2>1. victim # c
    BY NoBucketAssumption DEF Evicted, Present, Addresses
  <2> QED
    BY <2>1 DEF Allow, LimiterTypeOK
<1>4. Found(c).tokens = Level(c)
  BY FoundType
<1>5. now \in Nat /\ now' = now /\ (now - now) * Refill = 0
  BY LimitsAssumption DEF Allow, LimiterTypeOK
<1> DEFINE spent == IF Level(c) >= 1 THEN 1 ELSE 0
<1>6. Level(c)' = Level(c) - spent
  <2>1. buckets'[c] = Spend(Found(c))
    BY DEF Allow, Addresses
  <2>2. /\ buckets'[c] # NoBucket
        /\ buckets'[c].tokens = Level(c) - spent
        /\ buckets'[c].lastRefill = now
    BY <1>1, <2>1, SpendType
  <2>3. Level(c)' = AtMostFull((Level(c) - spent) + (now - now) * Refill)
    BY <1>5, <2>2 DEF Level, AtMostFull
  <2>4. /\ Level(c) - spent \in Int /\ Level(c) - spent <= Capacity
        /\ (Level(c) - spent) + (now - now) * Refill = Level(c) - spent
    BY <1>1, <1>5, LimitsAssumption
  <2>5. AtMostFull(Level(c) - spent) = Level(c) - spent
    BY <2>4, Clamp
  <2> QED
    BY <2>3, <2>4, <2>5
<1>7. Credit(c)' = Credit(c) - spent
  <2>1. account'[c] = [tokens |-> Credit(c) - spent, since |-> now]
    BY <1>4 DEF Allow, Charged, LimiterTypeOK
  <2>2. Credit(c)' = AtMostFull((Credit(c) - spent) + (now - now) * Refill)
    BY <1>5, <2>1 DEF Credit, AtMostFull
  <2>4. /\ Credit(c) - spent \in Int /\ Credit(c) - spent <= Capacity
        /\ (Credit(c) - spent) + (now - now) * Refill = Credit(c) - spent
    BY <1>1, <1>5, LimitsAssumption
  <2>5. AtMostFull(Credit(c) - spent) = Credit(c) - spent
    BY <2>4, Clamp
  <2> QED
    BY <2>2, <2>4, <2>5
<1>8. wronged' = {}
  BY <1>1, <1>4 DEF Allow, NobodyWronged
<1>9. favoured' = {}
  BY <1>1, <1>2, <1>4 DEF Allow, NobodyFavoured
<1>10. (Credit(c) <= Level(c) /\ Level(c) <= Credit(c) + Capacity * evictions[c])'
  BY <1>1, <1>2, <1>3, <1>6, <1>7
<1> QED
  BY <1>8, <1>9, <1>10

\* Every other client: its bucket stays, or goes because it was full anyway,
\* or makes room.
LEMMA AllowOther ==
  ASSUME LimiterInv, NEW c \in Clients, NEW victim \in Evicted(c), Allow(c, c, victim),
         NEW d \in Clients, d # c
  PROVE  (Credit(d) <= Level(d) /\ Level(d) <= Credit(d) + Capacity * evictions[d])'
<1> USE DEF LimiterInv
<1>1. /\ Level(d) \in 0..Capacity
      /\ Credit(d) \in Int /\ Credit(d) <= Capacity
      /\ Credit(d) <= Level(d) /\ Level(d) <= Credit(d) + Capacity * evictions[d]
  BY LevelType, CreditType DEF Addresses, Books
<1>2. evictions[d] \in Nat /\ Capacity * evictions[d] \in Nat
  BY LimitsAssumption DEF LimiterTypeOK
<1>3. Credit(d)' = Credit(d)
  BY DEF Allow, Charged, Credit, AtMostFull, LimiterTypeOK
<1>4. d \in Addresses
  BY DEF Addresses
<1>5. CASE d = victim
  <2>1. buckets'[d] = NoBucket
    BY <1>4, <1>5 DEF Allow
  <2>2. Level(d)' = Capacity
    BY <2>1 DEF Level
  <2>3. evictions'[d] = evictions[d] + 1
    BY <1>5 DEF Allow, LimiterTypeOK
  <2>4. Capacity * (evictions[d] + 1) = Capacity * evictions[d] + Capacity
    BY <1>2, LimitsAssumption
  <2> QED
    BY <1>1, <1>2, <1>3, <2>2, <2>3, <2>4, LimitsAssumption
<1>6. CASE d # victim
  <2>1. evictions'[d] = evictions[d]
    BY <1>6 DEF Allow, LimiterTypeOK
  <2>2. Level(d)' = Level(d)
    <3>1. CASE buckets'[d] = buckets[d]
      BY <3>1 DEF Allow, Level, AtMostFull
    <3>2. CASE buckets'[d] # buckets[d]
      <4>1. buckets[d] # NoBucket /\ IdleTooLong(d) /\ buckets'[d] = NoBucket
        BY <1>4, <1>6, <3>2 DEF Allow
      <4>2. /\ buckets[d].tokens \in Nat
            /\ now - buckets[d].lastRefill \in Nat
            /\ now - buckets[d].lastRefill > IdleTimeout
        BY <1>4, <4>1, LimitsAssumption DEF LimiterTypeOK, Clocks, Bucket, IdleTooLong
      <4>3. Level(d) = Capacity
        BY <4>1, <4>2, IdleIsFull DEF Level
      <4>4. Level(d)' = Capacity
        BY <4>1 DEF Level
      <4> QED
        BY <4>3, <4>4
    <3> QED
      BY <3>1, <3>2
  <2> QED
    BY <1>1, <1>2, <1>3, <2>1, <2>2
<1> QED
  BY <1>5, <1>6

LEMMA AllowLimiterInv ==
  ASSUME LimiterInv, NEW c \in Clients, NEW victim \in Evicted(c), Allow(c, c, victim)
  PROVE  LimiterInv'
<1>1. wronged' = {} /\ favoured' = {}
  BY AllowOwn
<1>2. LimiterTypeOK' /\ IsFiniteSet(Present)'
  BY <1>1, AllowTypes, AllowBound DEF LimiterTypeOK
<1>3. Clocks'
  <2>1. now' = now /\ now \in Nat
    BY AllowTypes
  <2>2. ASSUME NEW a \in Addresses, buckets'[a] # NoBucket
        PROVE  buckets'[a].lastSeen = buckets'[a].lastRefill /\ buckets'[a].lastRefill <= now
    <3>1. CASE a = c
      <4>1. buckets'[c] = Spend(Found(c))
        BY <2>2, <3>1 DEF Allow
      <4> QED
        BY <2>1, <3>1, <4>1, SpendType DEF LimiterInv
    <3>2. CASE a # c
      <4>1. buckets'[a] = buckets[a]
        BY <2>2, <3>2 DEF Allow
      <4> QED
        BY <2>2, <4>1 DEF LimiterInv, Clocks
    <3> QED
      BY <3>1, <3>2
  <2>3. ASSUME NEW d \in Clients PROVE account'[d].since <= now
    BY <2>1, <2>3 DEF Allow, Charged, LimiterInv, LimiterTypeOK, Clocks
  <2> QED
    BY <2>1, <2>2, <2>3 DEF Clocks
<1>4. Books'
  BY AllowOwn, AllowOther DEF Books
<1> QED
  BY <1>1, <1>2, <1>3, <1>4 DEF LimiterInv, NobodyWronged, NobodyFavoured

LEMMA NextLimiterInv == LimiterInv /\ [LimiterNext]_limiterVars => LimiterInv'
<1> SUFFICES ASSUME LimiterInv, [LimiterNext]_limiterVars PROVE LimiterInv'
  OBVIOUS
<1>1. CASE Tick
  BY <1>1, TickLimiterInv
<1>2. ASSUME NEW c \in Clients, NEW earlier \in Headers, NEW route \in Routes,
             Arrive(c, earlier, route)
      PROVE  LimiterInv'
  <2>1. earlier \in Seq(Addresses) /\ route \in Seq(Proxies)
    BY AddressesAssumption
  <2>2. ClientKey(Peer(c, route), Header(c, earlier, route)) = c
    BY <2>1, KeyOfClient
  <2>3. PICK victim \in Evicted(c) : Allow(c, c, victim)
    BY <1>2, <2>2 DEF Arrive
  <2> QED
    BY <2>3, AllowLimiterInv
<1>3. CASE UNCHANGED limiterVars
  BY <1>3 DEF limiterVars, LimiterInv, LimiterTypeOK, Present, Clocks, Books, Credit,
              Level, AtMostFull, NobodyWronged, NobodyFavoured
<1> QED
  BY <1>1, <1>2, <1>3 DEF LimiterNext

-----------------------------------------------------------------------------
(***************************************************************************)
(* Theorems.                                                               *)
(***************************************************************************)
THEOREM LimiterInvariant == LimiterSpec => []LimiterInv
<1>1. LimiterInit => LimiterInv
  BY InitLimiterInv
<1>2. LimiterInv /\ [LimiterNext]_limiterVars => LimiterInv'
  BY NextLimiterInv
<1> QED
  BY <1>1, <1>2, PTL DEF LimiterSpec

\* The map of the limiter never holds more buckets than it may, and its
\* buckets never more tokens than fit.
THEOREM LimiterTypeCorrect == LimiterSpec => []LimiterTypeOK
<1>1. LimiterInv => LimiterTypeOK
  BY DEF LimiterInv
<1> QED
  BY <1>1, LimiterInvariant, PTL

\* Nobody is refused for the requests of others.
THEOREM OwnRequestsOnly == LimiterSpec => []NobodyWronged
<1>1. LimiterInv => NobodyWronged
  BY DEF LimiterInv
<1> QED
  BY <1>1, LimiterInvariant, PTL

\* Nobody gets more than the budget and one full bucket per eviction.
THEOREM BudgetKept == LimiterSpec => []NobodyFavoured
<1>1. LimiterInv => NobodyFavoured
  BY DEF LimiterInv
<1> QED
  BY <1>1, LimiterInvariant, PTL
================================================================================
