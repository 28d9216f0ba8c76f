---------------------------- MODULE LoginSessions ----------------------------
(***************************************************************************)
(* What the refresh tokens promise, seen from the outside: a login opens a *)
(* session; a session that is over stays over, whatever requests are       *)
(* served at the same time.  How many tokens represent a session, and when *)
(* they are exchanged, is not visible here.                                *)
(***************************************************************************)
CONSTANT Logins

VARIABLE session

States == {"unused", "open", "over"}

TypeOK == session \in [Logins -> States]

Init == session = [l \in Logins |-> "unused"]

Open(l) ==
  /\ session[l] = "unused"
  /\ session' = [session EXCEPT ![l] = "open"]

\* Logout, expiry and failures end one session, revocation any number.
End(L) ==
  /\ \A l \in L : session[l] = "open"
  /\ session' = [l \in Logins |-> IF l \in L THEN "over" ELSE session[l]]

Next ==
  \/ \E l \in Logins : Open(l)
  \/ \E L \in SUBSET Logins : End(L)

Spec == Init /\ [][Next]_session
=============================================================================
