------------------------------ MODULE Accounts ------------------------------
(***************************************************************************)
(* Accounts and the sessions that keep a browser signed in                 *)
(* (src/auth/auth.service.ts, src/users/users.service.ts,                  *)
(* src/session/session.service.ts).  A session row holds the hash of the   *)
(* refresh token given out last; every refresh puts a new one in its place *)
(* and a refusal clears the browser's cookie.                              *)
(*                                                                         *)
(* A refresh reads the row by its hash and then updates it by its id;      *)
(* request[r] holds the cookie it was sent with.  All tabs of a browser    *)
(* share the cookie.                                                       *)
(***************************************************************************)
EXTENDS Naturals, FiniteSets

CONSTANTS Users,      \* app_users
          Emails,
          Sessions,   \* auth_sessions
          Browsers,
          Requests,   \* refreshes in flight at the same time
          MaxHash,    \* bound: hashes drawn
          NULL        \* the SQL null

(* What the constants are.                                                 *)
AccountsAssumption == MaxHash \in Nat /\ NULL \notin Sessions

VARIABLES
  user,     \* email and account_status of each account
  mail,     \* links mailed: to confirm an account, a new email, or a reset
  session,  \* table auth_sessions
  cookie,   \* refresh cookie of each browser
  request,  \* the refreshes in flight
  hashes,   \* how many hashes were drawn
  behind    \* browsers an answer of whose refresh was lost
vars == <<user, mail, session, cookie, request, hashes, behind>>
-----------------------------------------------------------------------------
NoUser == [status |-> "NONE"]
User == [status : {"INACTIVE", "ACTIVE", "DISABLED"}, email : Emails]
NoSession == [user |-> NULL]
Session == [user : Users, hash : 1..MaxHash, live : BOOLEAN]
Cookie == [session : Sessions, hash : 1..MaxHash]
None == [session |-> NULL]
Idle == [at |-> "idle"]
Request == [at : {"read", "write"}, by : Browsers, sent : Cookie] \cup
           [at : {"answer"}, by : Browsers, got : Cookie \cup {None}]

TypeOK ==
  /\ user \in [Users -> User \cup {NoUser}]
  /\ mail \subseteq [kind : {"CONFIRM", "EMAIL", "RESET"}, user : Users, email : Emails]
  /\ session \in [Sessions -> Session \cup {NoSession}]
  /\ cookie \in [Browsers -> Cookie \cup {None}]
  /\ request \in [Requests -> Request \cup {Idle}] /\ hashes \in 0..MaxHash
  /\ behind \subseteq Browsers

Init ==
  /\ user = [u \in Users |-> NoUser] /\ mail = {} /\ session = [s \in Sessions |-> NoSession]
  /\ cookie = [b \in Browsers |-> None] /\ request = [r \in Requests |-> Idle] /\ hashes = 0
  /\ behind = {}

Exists(u) == user[u] # NoUser
FindByEmail(e) == {u \in Users : Exists(u) /\ user[u].email = e}
(* users.service.update refuses an email that is another's.                *)
MayHave(u, e) == FindByEmail(e) \subseteq {u}
Revoked(kept, u) ==
  [s \in Sessions |-> IF session[s].user = u /\ s # kept
                      THEN [session[s] EXCEPT !.live = FALSE] ELSE session[s]]
-----------------------------------------------------------------------------
Register(u, e) ==
  /\ ~Exists(u) /\ FindByEmail(e) = {}
  /\ user' = [user EXCEPT ![u] = [status |-> "INACTIVE", email |-> e]]
  /\ mail' = mail \cup {[kind |-> "CONFIRM", user |-> u, email |-> e]}
  /\ UNCHANGED <<session, cookie, request, hashes, behind>>
ConfirmEmail(l) ==
  /\ l.kind = "CONFIRM" /\ user[l.user].status = "INACTIVE"
  /\ user' = [user EXCEPT ![l.user].status = "ACTIVE"]
  /\ UNCHANGED <<mail, session, cookie, request, hashes, behind>>
ConfirmNewEmail(l) ==
  /\ l.kind = "EMAIL" /\ MayHave(l.user, l.email)
  /\ user' = [user EXCEPT ![l.user] = [status |-> "ACTIVE", email |-> l.email]]
  /\ UNCHANGED <<mail, session, cookie, request, hashes, behind>>
ForgotPassword(u) ==
  /\ Exists(u) /\ mail' = mail \cup {[kind |-> "RESET", user |-> u, email |-> user[u].email]}
  /\ UNCHANGED <<user, session, cookie, request, hashes, behind>>
ResetPassword(l) ==
  /\ l.kind = "RESET" /\ session' = Revoked(NULL, l.user)
  /\ UNCHANGED <<user, mail, cookie, request, hashes, behind>>
(* update: a new password ends the other sessions, a new email only takes  *)
(* effect when its link is followed.                                       *)
UpdateMe(b, pass, e) ==
  LET s == cookie[b].session u == session[s].user IN
  /\ s # NULL /\ session[s].live /\ FindByEmail(e) \subseteq {u}
  /\ session' = IF pass THEN Revoked(s, u) ELSE session
  /\ mail' = IF e = user[u].email THEN mail
             ELSE mail \cup {[kind |-> "EMAIL", user |-> u, email |-> e]}
  /\ UNCHANGED <<user, cookie, request, hashes, behind>>
(* users.service.update and remove, by an administrator.                   *)
SetStatus(u, status) ==
  /\ Exists(u) /\ user' = [user EXCEPT ![u].status = status]
  /\ UNCHANGED <<mail, session, cookie, request, hashes, behind>>
SoftDelete(u) ==
  /\ Exists(u) /\ user' = [user EXCEPT ![u].status = "DISABLED"] /\ session' = Revoked(NULL, u)
  /\ UNCHANGED <<mail, cookie, request, hashes, behind>>
-----------------------------------------------------------------------------
Drawn == hashes + 1
Draw == hashes < MaxHash /\ hashes' = Drawn
(* validateLogin, which identifier and PIN logins end in.                  *)
ValidateLogin(b, u, s) ==
  /\ user[u].status = "ACTIVE" /\ session[s] = NoSession /\ Draw
  /\ session' = [session EXCEPT ![s] = [user |-> u, hash |-> Drawn, live |-> TRUE]]
  /\ cookie' = [cookie EXCEPT ![b] = [session |-> s, hash |-> Drawn]]
  /\ behind' = behind \ {b} /\ UNCHANGED <<user, mail, request>>
(* logoutByRefreshToken, of whatever session the cookie names.             *)
Logout(b) ==
  LET s == cookie[b].session IN
  /\ s # NULL /\ session' = [session EXCEPT ![s].live = FALSE]
  /\ cookie' = [cookie EXCEPT ![b] = None] /\ UNCHANGED <<user, mail, request, hashes, behind>>

Goto(r, state) == request' = [request EXCEPT ![r] = state]
Refresh(r, b) ==
  /\ request[r] = Idle /\ cookie[b] # None
  /\ Goto(r, [at |-> "read", by |-> b, sent |-> cookie[b]])
  /\ UNCHANGED <<user, mail, session, cookie, hashes, behind>>
(* refreshToken: updateByHash finds the session,                           *)
FindByHash(r) ==
  LET q == request[r] row == session[q.sent.session] IN
  /\ q.at = "read"
  /\ Goto(r, IF row.live /\ row.hash = q.sent.hash THEN [q EXCEPT !.at = "write"]
             ELSE [at |-> "answer", by |-> q.by, got |-> None])
  /\ UNCHANGED <<user, mail, session, cookie, hashes, behind>>
(* puts the new hash in, and the account is looked at afterwards.          *)
(* Mutant: the answer carries the hash that was there.                     *)
HashKept(s) == session[s].hash
HashGiven(s) == Drawn
UpdateByHash(r) ==
  LET q == request[r] s == q.sent.session IN
  /\ q.at = "write" /\ Draw /\ session' = [session EXCEPT ![s].hash = Drawn]
  /\ Goto(r, [at |-> "answer", by |-> q.by,
              got |-> IF user[session[s].user].status = "ACTIVE"
                      THEN [session |-> s, hash |-> HashGiven(s)] ELSE None])
  /\ UNCHANGED <<user, mail, cookie, behind>>
(* The answer sets the cookie or, for a refusal, clears it.                *)
Answer(r) ==
  /\ request[r].at = "answer" /\ Goto(r, Idle)
  /\ cookie' = [cookie EXCEPT ![request[r].by] = request[r].got]
  /\ UNCHANGED <<user, mail, session, hashes, behind>>
Lose(r) ==
  /\ request[r].at = "answer" /\ Goto(r, Idle) /\ behind' = behind \cup {request[r].by}
  /\ UNCHANGED <<user, mail, session, cookie, hashes>>

Signing ==
  \/ \E u \in Users : \/ ForgotPassword(u) \/ SoftDelete(u)
                      \/ \E e \in Emails : Register(u, e)
                      \/ \E st \in {"ACTIVE", "INACTIVE"} : SetStatus(u, st)
  \/ \E l \in mail : ConfirmEmail(l) \/ ConfirmNewEmail(l) \/ ResetPassword(l)
Holding ==
  \/ \E b \in Browsers :
       \/ \E pass \in BOOLEAN, e \in Emails : UpdateMe(b, pass, e)
       \/ \E u \in Users, s \in Sessions :
            (\A r \in Requests : request[r] = Idle) /\ ValidateLogin(b, u, s)
       \/ Logout(b) \/ \E r \in Requests : Refresh(r, b)
  \/ \E r \in Requests : FindByHash(r) \/ UpdateByHash(r) \/ Answer(r) \/ Lose(r)
Next == Signing \/ Holding

Spec == Init /\ [][Next]_vars
-----------------------------------------------------------------------------
(* While no refresh is under way a browser's cookie is the one its session *)
(* knows, so that it stays signed in until the session ends, but for a     *)
(* browser that never got an answer.  True of one refresh at a time: a     *)
(* second tab's finds the hash gone, and its refusal clears the cookie the *)
(* first was given.                                                        *)
CookieIsCurrent ==
  \A b \in Browsers \ behind : cookie[b] # None /\ (\A r \in Requests : request[r] = Idle) =>
    (session[cookie[b].session].live => session[cookie[b].session].hash = cookie[b].hash)
(* An email belongs to one account, however confirmations interleave.      *)
EmailsDiffer == \A e \in Emails : Cardinality(FindByEmail(e)) <= 1
=============================================================================
