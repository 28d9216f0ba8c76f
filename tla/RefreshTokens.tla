---------------------------- MODULE RefreshTokens ----------------------------
(***************************************************************************)
(* Login sessions: public.refresh_tokens as usecase/auth_usecase.go and    *)
(* repository/refresh_token_repository.go use it.                          *)
(*                                                                         *)
(* A login stores a refresh token.  The browser exchanges it for a new one *)
(* (rotation); presenting a token that was already exchanged or revoked    *)
(* revokes everything its user has (reuse detection).  The exchange is     *)
(* four statements, each committed on its own: SELECT the token, UPDATE it *)
(* to revoked, SELECT the user, INSERT the new token.  A request in        *)
(* service is a record in req whose pc names the statement it sends next.  *)
(*                                                                         *)
(* Hashes, addresses, the access token and its claims are not modelled.    *)
(* Thirty-two random bytes never collide: a stored token is a fresh row.   *)
(***************************************************************************)
EXTENDS Naturals, FiniteSets

CONSTANTS
  Users,          \* identifiers of rows of users
  Tokens,         \* identifiers of rows of refresh_tokens
  Requests,       \* request slots: the goroutines that may be in service
  MaxInService,   \* how many requests are in service at the same time
  Failures,       \* may a request die between two of its statements?
  NoToken         \* marks a token that has no row

ASSUME BoundsAssumption == MaxInService \in Nat /\ Failures \in BOOLEAN

VARIABLES
  tokens,   \* refresh_tokens: what the table holds for every token
  users,    \* the accounts that were not deleted (deleted_at IS NULL)
  req,      \* what every request in service has read and will do next
  origin,   \* history: for a token, the token its login had stored
  parent,   \* history: for a token, the token it was exchanged for
  ended,    \* history: the logins that a logout or a revocation has ended
  contended \* history: the logins whose exchange met another request

descent == <<origin, parent>>

history == <<descent, ended, contended>>

vars == <<tokens, users, req, history>>

-----------------------------------------------------------------------------
(***************************************************************************)
(* Types.  state is revoked_at (NULL or not), term is expires_at against   *)
(* the clock of the server.                                                *)
(***************************************************************************)
Row == [user: Users, state: {"live", "revoked"}, term: {"running", "past"}]

ASSUME NoTokenAssumption == NoToken \notin Tokens /\ NoToken \notin Row

Idle == [pc |-> "idle"]

\* What a request that exchanges a token sends next.
Exchanging == {"rotate", "load", "store"}

Request ==
  {Idle}
    \union [pc: {"login_store"}, user: Users]
    \union [pc: {"revoke_all"}, token: Tokens]
    \union [pc: Exchanging, token: Tokens]

TypeOK ==
  /\ tokens \in [Tokens -> Row \union {NoToken}]
  /\ users \in SUBSET Users
  /\ req \in [Requests -> Request]
  /\ origin \in [Tokens -> Tokens \union {NoToken}]
  /\ parent \in [Tokens -> Tokens \union {NoToken}]
  /\ ended \in SUBSET Tokens
  /\ contended \in SUBSET Tokens

-----------------------------------------------------------------------------
(***************************************************************************)
(* Helpers.                                                                *)
(***************************************************************************)
InService == {r \in Requests : req[r].pc # "idle"}

CanServe == Cardinality(InService) < MaxInService

Issued(t) == tokens[t] # NoToken

Live(t) == Issued(t) /\ tokens[t].state = "live"

Usable(t) == Live(t) /\ tokens[t].term = "running"

\* A slip the runs must notice: expiry is not looked at.
ExchangeableForever(row) == row.state = "live"

\* A slip: a revoked token is exchanged.
ExchangeableSpent(row) == row.term = "running"

\* What an exchange requires of the row it read.
Exchangeable(row) == row.state = "live" /\ row.term = "running"

Owner(t) == tokens[t].user

Of(u) == {t \in Tokens : Issued(t) /\ Owner(t) = u}

Serve(r, record) == req' = [req EXCEPT ![r] = record]

Finish(r) == Serve(r, Idle)

\* INSERT INTO refresh_tokens: a row nobody has seen, for user u.
Store(t, u, from, login) ==
  /\ tokens[t] = NoToken
  /\ tokens' = [tokens EXCEPT ![t] =
                  [user |-> u, state |-> "live", term |-> "running"]]
  /\ parent' = [parent EXCEPT ![t] = from]
  /\ origin' = [origin EXCEPT ![t] = login]

\* UPDATE ... SET revoked_at = NOW() WHERE ... AND revoked_at IS NULL.
Revoke(T) ==
  tokens' = [t \in Tokens |->
               IF t \in T /\ Live(t) THEN [tokens[t] EXCEPT !.state = "revoked"]
                                     ELSE tokens[t]]

\* Token t, or any token of login l, is being exchanged.
BeingExchanged(t) ==
  \E r \in Requests : req[r].pc \in Exchanging /\ req[r].token = t

InExchange(l) ==
  \E r \in Requests : req[r].pc \in Exchanging /\ origin[req[r].token] = l

\* The logins of the tokens T that an exchange in service is about.
Met(T) == {l \in {origin[t] : t \in T} : InExchange(l)}

\* Revoking T ends the logins T represents, now or after an exchange.
EndLoginsOf(T) ==
  /\ ended' = ended \union
       {origin[t] : t \in {s \in T : Live(s) \/ BeingExchanged(s)}}
  /\ contended' = contended \union Met(T)

-----------------------------------------------------------------------------
Init ==
  /\ tokens = [t \in Tokens |-> NoToken]
  /\ users = Users
  /\ req = [r \in Requests |-> Idle]
  /\ origin = [t \in Tokens |-> NoToken]
  /\ parent = [t \in Tokens |-> NoToken]
  /\ ended = {}
  /\ contended = {}

(***************************************************************************)
(* LoginWithRefresh: check the password, then store the first token.  The  *)
(* SELECT by e-mail does not ask whether the account was deleted.          *)
(***************************************************************************)
Login(r, u) ==
  /\ CanServe
  /\ req[r] = Idle
  /\ Serve(r, [pc |-> "login_store", user |-> u])
  /\ UNCHANGED <<tokens, users, history>>

LoginStore(r, t) ==
  /\ req[r].pc = "login_store"
  /\ Store(t, req[r].user, NoToken, t)
  /\ Finish(r)
  /\ UNCHANGED <<users, ended, contended>>

(***************************************************************************)
(* RefreshToken: a token somebody was given is presented.  An expired one  *)
(* is refused and changes nothing.                                         *)
(***************************************************************************)
RefreshRead(r, t) ==
  /\ CanServe
  /\ req[r] = Idle
  /\ Issued(t)
  /\ \/ /\ tokens[t].state = "revoked"
        /\ Serve(r, [pc |-> "revoke_all", token |-> t])
        /\ UNCHANGED contended
     \/ /\ Exchangeable(tokens[t])
        /\ Serve(r, [pc |-> "rotate", token |-> t])
        /\ contended' = contended \union Met({t})
  /\ UNCHANGED <<tokens, users, descent, ended>>

\* A slip: reuse detection revokes the presented token only.
RefreshReuseNarrow(r) ==
  /\ req[r].pc = "revoke_all"
  /\ Revoke({req[r].token})
  /\ EndLoginsOf(Of(Owner(req[r].token)))
  /\ Finish(r)
  /\ UNCHANGED <<users, descent>>

\* Reuse detection: every token of the user goes.
RefreshReuse(r) ==
  /\ req[r].pc = "revoke_all"
  /\ Revoke(Of(Owner(req[r].token)))
  /\ EndLoginsOf(Of(Owner(req[r].token)))
  /\ Finish(r)
  /\ UNCHANGED <<users, descent>>

\* A slip: the exchanged token is not revoked.
RefreshRotateKeeping(r) ==
  /\ req[r].pc = "rotate"
  /\ Serve(r, [pc |-> "load", token |-> req[r].token])
  /\ UNCHANGED <<tokens, users, history>>

\* The statement does not say how many rows it revoked, and nobody asks.
RefreshRotate(r) ==
  /\ req[r].pc = "rotate"
  /\ Revoke({req[r].token})
  /\ Serve(r, [pc |-> "load", token |-> req[r].token])
  /\ UNCHANGED <<users, history>>

\* The SELECT of the user by id finds the rows of deleted accounts too, and
\* rows of users are never removed.
RefreshLoad(r) ==
  /\ req[r].pc = "load"
  /\ Serve(r, [pc |-> "store", token |-> req[r].token])
  /\ UNCHANGED <<tokens, users, history>>

RefreshStore(r, t) ==
  /\ req[r].pc = "store"
  /\ Store(t, Owner(req[r].token), req[r].token, origin[req[r].token])
  /\ Finish(r)
  /\ UNCHANGED <<users, ended, contended>>

(***************************************************************************)
(* The operations that are one statement.                                  *)
(***************************************************************************)
Logout(t) ==
  /\ CanServe
  /\ Issued(t)
  /\ Revoke({t})
  /\ EndLoginsOf({t})
  /\ UNCHANGED <<users, req, descent>>

RevokeUserSessions(u) ==
  /\ CanServe
  /\ Revoke(Of(u))
  /\ EndLoginsOf(Of(u))
  /\ UNCHANGED <<users, req, descent>>

\* An account is deleted by setting deleted_at: its tokens stay.
DeleteUser(u) ==
  /\ CanServe
  /\ u \in users
  /\ users' = users \ {u}
  /\ UNCHANGED <<tokens, req, history>>

(***************************************************************************)
(* The environment: fourteen days pass; a request ends early.              *)
(***************************************************************************)
Expire(t) ==
  /\ Issued(t)
  /\ tokens[t].term = "running"
  /\ tokens' = [tokens EXCEPT ![t].term = "past"]
  /\ UNCHANGED <<users, req, history>>

Fail(r) ==
  /\ Failures
  /\ req[r] # Idle
  /\ Finish(r)
  /\ UNCHANGED <<tokens, users, history>>

-----------------------------------------------------------------------------
Next ==
  \/ \E r \in Requests :
       \/ \E u \in Users : Login(r, u)
       \/ \E t \in Tokens :
            \/ LoginStore(r, t)
            \/ RefreshRead(r, t)
            \/ RefreshStore(r, t)
       \/ RefreshReuse(r)
       \/ RefreshRotate(r)
       \/ RefreshLoad(r)
       \/ Fail(r)
  \/ \E t \in Tokens : Logout(t) \/ Expire(t)
  \/ \E u \in Users : RevokeUserSessions(u) \/ DeleteUser(u)

Spec == Init /\ [][Next]_vars

-----------------------------------------------------------------------------
(***************************************************************************)
(* Properties.                                                             *)
(***************************************************************************)

\* A token that was exchanged for another is revoked, in every interleaving:
\* presenting it again is always noticed (or refused as expired).  It rests
\* on the order of the statements: revoke first, store last.
SpentParents ==
  \A t \in Tokens : parent[t] # NoToken => ~Live(parent[t])

\* A token is exchanged at most once, unless two requests about its login
\* met.
ExchangedOnce ==
  \A s, t \in Tokens :
    s # t /\ parent[s] # NoToken /\ parent[s] = parent[t]
      => origin[s] \in contended

\* After a logout with the token in use, a revocation by an administrator
\* or a detected reuse, no token of the logins it ended can be exchanged.
NoSurvivors == \A t \in Tokens : Live(t) => origin[t] \notin ended

\* NoSurvivors fails only for a login one of whose exchanges was in service
\* while another request exchanged or revoked its tokens.  All the others
\* may run at the same time, and any request may fail.
EndingsHold ==
  \A t \in Tokens : Live(t) /\ origin[t] \in ended => origin[t] \in contended

(***************************************************************************)
(* A login is open while one of its tokens can be exchanged, or while an   *)
(* exchange that read such a token is still in service.                    *)
(***************************************************************************)
Logins == {t \in Tokens : origin[t] = t}

Open(l) == InExchange(l) \/ \E t \in Tokens : Usable(t) /\ origin[t] = l

Session ==
  [l \in Tokens |-> IF l \notin Logins THEN "unused"
                    ELSE IF Open(l) THEN "open" ELSE "over"]

Promise == INSTANCE LoginSessions WITH Logins <- Tokens, session <- Session

\* In every interleaving, a login session that is over stays over: the
\* tokens implement LoginSessions.
SessionsStayOver == Promise!Spec
=============================================================================
