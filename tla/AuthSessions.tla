---------------------------- MODULE AuthSessions ----------------------------
(***************************************************************************)
(* authAPI: users and refresh tokens in maps under a.mu, access tokens     *)
(* that carry the user's id and role until they expire.  Every handler     *)
(* leaves the mutex before it issues tokens, and issuing takes it again.   *)
(*                                                                         *)
(* Handlers that answer an error and change nothing (a taken e-mail, wrong *)
(* credentials, an unknown refresh token) are the disabled actions.        *)
(***************************************************************************)
EXTENDS Integers, Sequences, FiniteSets

CONSTANTS
  Emails,        \* normalised e-mail addresses
  AuthRequests,  \* concurrent requests of the auth endpoints
  AccessTTL,     \* defaultAccessTTL
  RefreshTTL,    \* defaultRefreshTTL
  MaxTokens,     \* bound on refresh tokens issued
  MaxLogins,     \* bound on signups and logins
  MaxTime        \* bound on the clock

ASSUME AuthAssumption ==
  /\ AccessTTL \in Nat /\ RefreshTTL \in Nat
  /\ MaxTokens \in Nat /\ MaxLogins \in Nat /\ MaxTime \in Nat

VARIABLES
  users,     \* users[id]: a.usersByID, ids count from 1
  byMail,    \* byMail[m]: the id a.usersByMail has for m, 0 if none
  sessions,  \* a.refreshTokens: each token with its user, its expiry and the
             \* signup or login its rotations go back to
  issued,    \* refresh tokens generated so far; they are numbered
  access,    \* the access tokens issued, each with who it was issued to
  issuing,   \* issuing[r]: for whom r is about to issue tokens
  logins,    \* successful signups and logins
  now,       \* the clock
  life       \* how often the process was started again: ids mean something in one life

authVars == <<users, byMail, sessions, issued, access, issuing, logins, now, life>>

Roles == {"user", "admin"}
NoOne == [uid |-> 0, origin |-> 0]

AuthInit ==
  /\ users = <<>> /\ byMail = [m \in Emails |-> 0]
  /\ sessions = {} /\ issued = 0 /\ access = {}
  /\ issuing = [r \in AuthRequests |-> NoOne]
  /\ logins = 0 /\ now = 0 /\ life = 0
-----------------------------------------------------------------------------
\* r has found its user and goes on to issueTokens.
Grant(r, uid, origin) == issuing' = [issuing EXCEPT ![r] = [uid |-> uid, origin |-> origin]]

\* No user has this e-mail address.
Free(m) == byMail[m] = 0

\* signup, after the password is hashed: check and insert under the mutex.
Signup(r, m, role) ==
  /\ issuing[r] = NoOne /\ Free(m) /\ logins < MaxLogins
  /\ users' = Append(users, [email |-> m, role |-> role])
  /\ byMail' = [byMail EXCEPT ![m] = Len(users) + 1]
  /\ logins' = logins + 1
  /\ Grant(r, Len(users) + 1, logins + 1)
  /\ UNCHANGED <<sessions, issued, access, now, life>>

\* login with the right password.
Login(r, m) ==
  /\ issuing[r] = NoOne /\ byMail[m] # 0 /\ logins < MaxLogins
  /\ logins' = logins + 1
  /\ Grant(r, byMail[m], logins + 1)
  /\ UNCHANGED <<users, byMail, sessions, issued, access, now, life>>

\* Mutant of Refresh: the token is not deleted.
RefreshKeeps(r, s) ==
  /\ issuing[r] = NoOne /\ now <= s.expires /\ issued < MaxTokens
  /\ Grant(r, s.uid, s.origin)
  /\ UNCHANGED <<users, byMail, sessions, issued, access, logins, now, life>>

\* refresh under the mutex: the token is used up.  (The clock is read just before
\* the mutex is taken; here both are one step.)
Refresh(r, s) ==
  /\ issuing[r] = NoOne /\ now <= s.expires /\ issued < MaxTokens
  /\ sessions' = sessions \ {s}
  /\ Grant(r, s.uid, s.origin)
  /\ UNCHANGED <<users, byMail, issued, access, logins, now, life>>

\* refresh with an expired token removes it and answers 401.
RefreshExpired(s) ==
  /\ s.expires < now
  /\ sessions' = sessions \ {s}
  /\ UNCHANGED <<users, byMail, issued, access, issuing, logins, now, life>>

\* The user with this id.  A token has only the id; address and life are kept to
\* tell who stands behind it.
Who(uid) == [uid |-> uid, mail |-> users[uid].email, life |-> life]

\* issueTokens; the role is the user's.
IssueTokens(r) ==
  /\ issuing[r] # NoOne /\ issued < MaxTokens
  /\ issued' = issued + 1
  /\ sessions' = sessions \cup {[token |-> issued + 1, uid |-> issuing[r].uid,
                                 expires |-> now + RefreshTTL, origin |-> issuing[r].origin]}
  /\ access' = access \cup {[who |-> Who(issuing[r].uid), role |-> users[issuing[r].uid].role,
                             expires |-> now + AccessTTL]}
  /\ issuing' = [issuing EXCEPT ![r] = NoOne]
  /\ UNCHANGED <<users, byMail, logins, now, life>>

\* Signing or the random source fails: the user stays, a used token stays used.
IssueFails(r) ==
  /\ issuing[r] # NoOne
  /\ issuing' = [issuing EXCEPT ![r] = NoOne]
  /\ UNCHANGED <<users, byMail, sessions, issued, access, logins, now, life>>

PassTime ==
  /\ now < MaxTime
  /\ now' = now + 1
  /\ UNCHANGED <<users, byMail, sessions, issued, access, issuing, logins, life>>

\* The process ends and starts again: users, their ids and the refresh tokens were
\* in memory; access tokens stay good, for the signing key is the same.
Forget ==
  /\ users' = <<>> /\ byMail' = [m \in Emails |-> 0]
  /\ sessions' = {}
  /\ issuing' = [r \in AuthRequests |-> NoOne]
  /\ life' = life + 1
  /\ UNCHANGED <<issued, access, logins, now>>

AuthNext ==
  \/ \E r \in AuthRequests :
       \/ \E m \in Emails : (\E role \in Roles : Signup(r, m, role)) \/ Login(r, m)
       \/ \E s \in sessions : Refresh(r, s)
       \/ IssueTokens(r) \/ IssueFails(r)
  \/ \E s \in sessions : RefreshExpired(s)
  \/ PassTime

\* authMiddleware: the access token is good.
Valid(a) == now < a.expires
-----------------------------------------------------------------------------
Whos == [uid : 1..MaxLogins, mail : Emails, life : Nat]

\* Types, and that the two user maps agree: one user per e-mail address.
AuthTypeOK ==
  /\ users \in Seq([email : Emails, role : Roles])
  /\ byMail \in [Emails -> 0..Len(users)]
  /\ \A id \in DOMAIN users : byMail[users[id].email] = id
  /\ sessions \subseteq [token : 1..MaxTokens, uid : DOMAIN users, expires : Nat, origin : Nat]
  /\ issued \in 0..MaxTokens
  /\ access \subseteq [who : Whos, role : Roles, expires : Nat]
  /\ issuing \in [AuthRequests -> [uid : 0..Len(users), origin : Nat]]
  /\ logins \in Nat /\ now \in 0..MaxTime /\ life \in Nat

\* "Refresh endpoint rotates refresh token (one-time use)": however requests
\* interleave, fail, are repeated or meet a restart, what one login started is never
\* more than one usable refresh token, counting the one that is being issued; and a
\* session, like its address, is that of one user who exists.
SessionsNeverFork ==
  /\ \A n \in 1..logins :
       Cardinality({s \in sessions : s.origin = n})
         + Cardinality({r \in AuthRequests : issuing[r].origin = n}) <= 1
  /\ \A s \in sessions : s.uid \in DOMAIN users
  /\ \A id \in DOMAIN users : byMail[users[id].email] = id
=============================================================================
