-------------------------- MODULE TaskServiceProofs --------------------------
(***************************************************************************)
(* For any users, requests, tokens, tasks and restarts: what one login     *)
(* started is never more than one refresh token, and within one life of    *)
(* the process a task is written only by its owner or an admin.            *)
(***************************************************************************)
EXTENDS TaskService, FiniteSetTheorems, SequenceTheorems, TLAPS

\* Ids count the signups; whoever is being issued tokens is a user.
UserInv ==
  /\ AuthTypeOK
  /\ Len(users) <= logins /\ logins <= MaxLogins
  /\ \A r \in AuthRequests :
       issuing[r] # NoOne => issuing[r].uid \in DOMAIN users /\ issuing[r].origin \in 1..logins

\* A login is the origin of one token at most, or of one that is being issued.
OriginInv ==
  /\ \A s \in sessions : s.origin \in 1..logins
  /\ \A s, t \in sessions : s.origin = t.origin => s = t
  /\ \A r, q \in AuthRequests : r # q /\ issuing[r] # NoOne => issuing[r].origin # issuing[q].origin
  /\ \A r \in AuthRequests, s \in sessions : issuing[r].origin # s.origin

\* Those who ever got an access token.
Known == {a.who : a \in access}

\* In one life of the process an id is one person's, this life's being a user.
PersonInv ==
  /\ \A x \in Known : x.life <= life
  /\ \A x \in Known : x.life = life => x.uid \in DOMAIN users /\ users[x.uid].email = x.mail
  /\ \A x, y \in Known : x.uid = y.uid /\ x.life = y.life => x.mail = y.mail

AuthInv == UserInv /\ OriginInv /\ PersonInv

TaskRows == [id : Nat \ {0}, owner : Whos, by : Whos, admin : BOOLEAN]

Edits == [op : {"update", "delete"}, id : Nat \ {0}, by : Whos, admin : BOOLEAN]

\* Ids of tasks are not used again, owners and writers had tokens, and a check that
\* passed stays true of the row.
TaskInv ==
  /\ tasks \subseteq TaskRows /\ ended \subseteq TaskRows
  /\ nextID \in 1..(MaxTasks + 1)
  /\ edit \in [TaskRequests -> Edits \cup {Nothing}]
  /\ \A t \in tasks \cup ended : t.id < nextID
  /\ \A t \in tasks : t.owner \in Known
  /\ \A r \in TaskRequests : edit[r] # Nothing =>
       /\ edit[r].id < nextID /\ edit[r].by \in Known
       /\ \A t \in tasks : t.id = edit[r].id => t.owner.uid = edit[r].by.uid \/ edit[r].admin

ServiceInv == AuthInv /\ TaskInv /\ OnlyOwnerWrites

\* What a.usersByID holds.
LEMMA UserRow ==
  ASSUME AuthTypeOK, NEW i \in DOMAIN users
  PROVE  users[i] \in [email : Emails, role : Roles]
  <1> DEFINE Rows == [email : Emails, role : Roles]
  <1>1. users \in Seq(Rows)
    BY DEF AuthTypeOK
  <1> HIDE DEF Rows
  <1>2. i \in 1..Len(users)
    BY <1>1
  <1>3. users[i] \in Rows
    BY <1>1, <1>2, ElementOfSeq
  <1> QED BY <1>3 DEF Rows

\* No users and no tokens at first.
LEMMA AuthInitInv == AuthInit => AuthInv
  <1> SUFFICES ASSUME AuthInit PROVE AuthInv
    OBVIOUS
  <1> USE DEF AuthInit, NoOne
  <1>1. /\ users \in Seq([email : Emails, role : Roles]) /\ Len(users) = 0 /\ DOMAIN users = {}
    OBVIOUS
  <1>2. AuthTypeOK
    BY <1>1, AuthAssumption DEF AuthTypeOK
  <1>3. PersonInv
    BY DEF PersonInv, Known
  <1> QED BY <1>1, <1>2, <1>3, AuthAssumption DEF AuthInv, UserInv, OriginInv

\* Who had tokens stays who they were while users only come.
LEMMA SamePeople ==
  ASSUME AuthInv, UNCHANGED <<access, life>>, DOMAIN users \subseteq DOMAIN users',
         \A i \in DOMAIN users : users'[i] = users[i]
  PROVE  PersonInv' /\ Known' = Known
  <1>1. Known' = Known
    BY DEF Known
  <1> QED BY <1>1 DEF AuthInv, PersonInv

\* signup gives the new user the next id.
LEMMA SignupInv ==
  ASSUME AuthInv, NEW r \in AuthRequests, NEW m \in Emails, NEW role \in Roles, Signup(r, m, role)
  PROVE  AuthInv'
  <1> DEFINE u == [email |-> m, role |-> role]
             id == Len(users) + 1
             g == [uid |-> id, origin |-> logins + 1]
  <1>1. /\ issuing[r] = NoOne /\ byMail[m] = 0 /\ logins < MaxLogins
        /\ users' = Append(users, u) /\ byMail' = [byMail EXCEPT ![m] = id]
        /\ logins' = logins + 1 /\ issuing' = [issuing EXCEPT ![r] = g]
        /\ UNCHANGED <<sessions, issued, access, now, life>>
    BY DEF Signup, Free, Grant
  <1>2. /\ users \in Seq([email : Emails, role : Roles]) /\ byMail \in [Emails -> 0..Len(users)]
        /\ issuing \in [AuthRequests -> [uid : 0..Len(users), origin : Nat]]
        /\ logins \in Nat /\ Len(users) \in Nat /\ Len(users) <= logins /\ MaxLogins \in Nat
        /\ DOMAIN users = 1..Len(users)
    BY AuthAssumption DEF AuthInv, UserInv, AuthTypeOK
  <1>3. u \in [email : Emails, role : Roles] /\ u.email = m
    OBVIOUS
  <1> HIDE DEF u
  <1>4. /\ users' \in Seq([email : Emails, role : Roles]) /\ Len(users') = id
        /\ DOMAIN users' = 1..id /\ users'[id] = u
        /\ \A i \in 1..Len(users) : users'[i] = users[i]
    BY <1>1, <1>2, <1>3
  <1>5. DOMAIN users \subseteq DOMAIN users' /\ id \in DOMAIN users'
    BY <1>2, <1>4
  <1>6. byMail' \in [Emails -> 0..Len(users')]
    BY <1>1, <1>2, <1>4
  <1>7. \A i \in DOMAIN users' : byMail'[users'[i].email] = i
    <2> SUFFICES ASSUME NEW i \in 1..id PROVE byMail'[users'[i].email] = i
      BY <1>4
    <2>1. CASE i = id
      BY <1>1, <1>2, <1>3, <1>4, <2>1
    <2>2. CASE i \in 1..Len(users)
      <3>1. byMail[users[i].email] = i /\ users[i].email \in Emails /\ i # 0
        <4>1. users[i] \in [email : Emails, role : Roles] /\ i \in DOMAIN users /\ i # 0
          BY <1>2, <2>2, UserRow DEF AuthInv, UserInv
        <4> QED BY <4>1 DEF AuthInv, UserInv, AuthTypeOK
      <3> QED BY <1>1, <1>2, <1>4, <2>2, <3>1
    <2> QED BY <1>2, <2>1, <2>2
  <1>8. \A q \in AuthRequests : issuing'[q] = IF q = r THEN g ELSE issuing[q]
    BY <1>1, <1>2
  <1>9. g \in [uid : 0..Len(users'), origin : Nat] /\ g.uid = id /\ g.origin = logins + 1 /\ g # NoOne
    BY <1>2, <1>4 DEF NoOne
  <1> HIDE DEF g
  <1>10. issuing' \in [AuthRequests -> [uid : 0..Len(users'), origin : Nat]]
    <2>1. 0..Len(users) \subseteq 0..Len(users')
      BY <1>2, <1>4
    <2>2. \A q \in AuthRequests : issuing[q] \in [uid : 0..Len(users'), origin : Nat]
      BY <1>2, <2>1
    <2> QED BY <1>1, <1>2, <1>9, <2>2
  <1>11. sessions' \subseteq [token : 1..MaxTokens, uid : DOMAIN users', expires : Nat, origin : Nat]
    BY <1>1, <1>5 DEF AuthInv, UserInv, AuthTypeOK
  <1>12. AuthTypeOK'
    BY <1>1, <1>2, <1>4, <1>6, <1>7, <1>10, <1>11, SMTT(30) DEF AuthInv, UserInv, AuthTypeOK
  <1>13. UserInv'
    <2>1. \A q \in AuthRequests :
            issuing'[q] # NoOne => issuing'[q].uid \in DOMAIN users' /\ issuing'[q].origin \in 1..logins'
      BY <1>1, <1>2, <1>5, <1>8, <1>9 DEF AuthInv, UserInv
    <2> QED BY <1>1, <1>2, <1>4, <1>12, <2>1 DEF UserInv
  <1>14. OriginInv'
    <2>1. \A q \in AuthRequests : issuing[q].origin \in Nat /\ issuing[q].origin <= logins
      BY <1>2 DEF AuthInv, UserInv, NoOne
    <2>2. \A t \in sessions : t.origin \in 1..logins
      BY DEF AuthInv, OriginInv
    <2>3. \A t \in sessions' : t.origin \in 1..logins'
      BY <1>1, <1>2, <2>2
    <2>4. \A q \in AuthRequests : issuing[q].origin # g.origin
      BY <1>2, <1>9, <2>1
    <2>5. \A p, q \in AuthRequests : p # q /\ issuing'[p] # NoOne => issuing'[p].origin # issuing'[q].origin
      <3>1. \A p, q \in AuthRequests : p # q /\ issuing[p] # NoOne => issuing[p].origin # issuing[q].origin
        BY DEF AuthInv, OriginInv
      <3> QED BY <1>8, <2>4, <3>1
    <2>6. \A t \in sessions : g.origin # t.origin
      BY <1>2, <1>9, <2>2
    <2>7. \A q \in AuthRequests, t \in sessions : issuing'[q].origin # t.origin
      BY <1>8, <2>6 DEF AuthInv, OriginInv
    <2> QED BY <1>1, <2>3, <2>5, <2>7 DEF AuthInv, OriginInv
  <1>15. PersonInv'
    BY <1>1, <1>2, <1>4, <1>5, SamePeople
  <1> QED BY <1>13, <1>14, <1>15 DEF AuthInv

\* login, a refresh and a failure change only who is issued tokens, and sessions go.
LEMMA GrantInv ==
  ASSUME AuthInv, NEW r \in AuthRequests, NEW g \in [uid : Nat, origin : Nat],
         issuing' = [issuing EXCEPT ![r] = g],
         UNCHANGED <<users, byMail, issued, access, now, life>>,
         sessions' \subseteq sessions, logins' \in Nat, logins <= logins', logins' <= MaxLogins,
         \/ g = NoOne
         \/ /\ g.uid \in DOMAIN users /\ g.origin \in 1..logins'
            /\ \A q \in AuthRequests : q # r => issuing[q].origin # g.origin
            /\ \A s \in sessions' : s.origin # g.origin
  PROVE  AuthInv'
  <1>1. /\ issuing \in [AuthRequests -> [uid : 0..Len(users), origin : Nat]]
        /\ logins \in Nat /\ Len(users) \in Nat /\ Len(users) <= logins /\ DOMAIN users = 1..Len(users)
    BY DEF AuthInv, UserInv, AuthTypeOK
  <1>2. \A q \in AuthRequests : issuing'[q] = IF q = r THEN g ELSE issuing[q]
    BY <1>1
  <1>3. g.uid \in 0..Len(users) /\ NoOne.origin = 0
    BY <1>1 DEF NoOne
  <1>4. AuthTypeOK'
    <2>1. issuing' \in [AuthRequests -> [uid : 0..Len(users), origin : Nat]]
      BY <1>1, <1>3
    <2> QED BY <2>1 DEF AuthInv, UserInv, AuthTypeOK
  <1>5. UserInv'
    BY <1>1, <1>2, <1>4 DEF AuthInv, UserInv
  <1>6. OriginInv'
    <2>1. \A s \in sessions' : s \in sessions /\ s.origin \in 1..logins /\ s.origin \in 1..logins'
      BY <1>1 DEF AuthInv, OriginInv
    <2>2. \A p, q \in AuthRequests : p # q /\ issuing'[p] # NoOne => issuing'[p].origin # issuing'[q].origin
      <3>1. \A q \in AuthRequests : issuing[q] # NoOne => issuing[q].origin # 0
        BY <1>1 DEF AuthInv, UserInv
      <3> QED BY <1>2, <1>3, <3>1 DEF AuthInv, OriginInv
    <2>3. \A q \in AuthRequests, s \in sessions' : issuing'[q].origin # s.origin
      BY <1>2, <1>3, <2>1 DEF AuthInv, OriginInv
    <2> QED BY <2>1, <2>2, <2>3 DEF AuthInv, OriginInv
  <1>7. PersonInv'
    BY SamePeople
  <1> QED BY <1>5, <1>6, <1>7 DEF AuthInv

\* login, refresh, and a request whose tokens cannot be issued.
LEMMA RequestInv ==
  ASSUME AuthInv, NEW r \in AuthRequests,
         \/ \E m \in Emails : Login(r, m)
         \/ \E s \in sessions : Refresh(r, s)
         \/ IssueFails(r)
  PROVE  AuthInv'
  <1>1. /\ byMail \in [Emails -> 0..Len(users)] /\ Len(users) \in Nat /\ DOMAIN users = 1..Len(users)
        /\ logins \in Nat /\ MaxLogins \in Nat /\ logins <= MaxLogins
        /\ sessions \subseteq [token : 1..MaxTokens, uid : DOMAIN users, expires : Nat, origin : Nat]
    BY AuthAssumption DEF AuthInv, UserInv, AuthTypeOK
  <1>2. \A q \in AuthRequests : issuing[q].origin \in Nat /\ issuing[q].origin <= logins
    BY <1>1 DEF AuthInv, UserInv, AuthTypeOK, NoOne
  <1>3. \A s \in sessions : s.origin \in 1..logins
    BY DEF AuthInv, OriginInv
  <1>4. CASE \E m \in Emails : Login(r, m)
    <2> PICK m \in Emails : Login(r, m)
      BY <1>4
    <2> DEFINE g == [uid |-> byMail[m], origin |-> logins + 1]
    <2>1. /\ byMail[m] # 0 /\ logins < MaxLogins /\ logins' = logins + 1
          /\ issuing' = [issuing EXCEPT ![r] = g]
          /\ UNCHANGED <<users, byMail, sessions, issued, access, now, life>>
      BY DEF Login, Grant
    <2>2. byMail[m] \in DOMAIN users /\ byMail[m] \in Nat /\ logins' \in Nat /\ logins <= logins'
          /\ logins' <= MaxLogins
      BY <1>1, <2>1
    <2>3. /\ g \in [uid : Nat, origin : Nat] /\ g.uid \in DOMAIN users /\ g.origin = logins + 1
          /\ g.origin \in 1..logins'
      BY <1>1, <2>1, <2>2
    <2> HIDE DEF g
    <2>4. /\ \A q \in AuthRequests : q # r => issuing[q].origin # g.origin
          /\ \A s \in sessions' : s.origin # g.origin
      BY <1>1, <1>2, <1>3, <2>1, <2>3
    <2> QED BY <2>1, <2>2, <2>3, <2>4, GrantInv
  <1>5. CASE \E s \in sessions : Refresh(r, s)
    <2> PICK s \in sessions : Refresh(r, s)
      BY <1>5
    <2> DEFINE g == [uid |-> s.uid, origin |-> s.origin]
    <2>1. /\ sessions' = sessions \ {s} /\ logins' = logins
          /\ issuing' = [issuing EXCEPT ![r] = g]
          /\ UNCHANGED <<users, byMail, issued, access, now, life>>
      BY DEF Refresh, Grant
    <2>2. /\ g \in [uid : Nat, origin : Nat] /\ g.uid \in DOMAIN users /\ g.origin = s.origin
          /\ g.origin \in 1..logins'
      BY <1>1, <1>3, <2>1
    <2> HIDE DEF g
    <2>3. /\ \A q \in AuthRequests : q # r => issuing[q].origin # g.origin
          /\ \A t \in sessions' : t.origin # g.origin
      BY <2>1, <2>2 DEF AuthInv, OriginInv
    <2>4. sessions' \subseteq sessions /\ logins' \in Nat /\ logins <= logins' /\ logins' <= MaxLogins
      BY <1>1, <2>1
    <2> QED BY <2>1, <2>2, <2>3, <2>4, GrantInv
  <1>6. CASE IssueFails(r)
    <2>1. /\ sessions' = sessions /\ logins' = logins /\ issuing' = [issuing EXCEPT ![r] = NoOne]
          /\ UNCHANGED <<users, byMail, issued, access, now, life>>
      BY <1>6 DEF IssueFails
    <2>2. NoOne \in [uid : Nat, origin : Nat]
      BY DEF NoOne
    <2>3. sessions' \subseteq sessions /\ logins' \in Nat /\ logins <= logins' /\ logins' <= MaxLogins
      BY <1>1, <2>1
    <2> QED BY <2>1, <2>2, <2>3, GrantInv
  <1> QED BY <1>4, <1>5, <1>6

\* issueTokens stores a session of the origin it was granted.
LEMMA IssueInv ==
  ASSUME AuthInv, NEW r \in AuthRequests, IssueTokens(r)
  PROVE  AuthInv'
  <1> DEFINE u == issuing[r].uid
             o == issuing[r].origin
             s == [token |-> issued + 1, uid |-> u, expires |-> now + RefreshTTL, origin |-> o]
             w == [uid |-> u, mail |-> users[u].email, life |-> life]
             a == [who |-> w, role |-> users[u].role, expires |-> now + AccessTTL]
  <1>1. /\ issuing[r] # NoOne /\ issued < MaxTokens /\ issued' = issued + 1
        /\ sessions' = sessions \cup {s} /\ access' = access \cup {a}
        /\ issuing' = [issuing EXCEPT ![r] = NoOne]
        /\ UNCHANGED <<users, byMail, logins, now, life>>
    BY DEF IssueTokens, Who
  <1>2. /\ users \in Seq([email : Emails, role : Roles]) /\ issued \in 0..MaxTokens /\ MaxTokens \in Nat
        /\ issuing \in [AuthRequests -> [uid : 0..Len(users), origin : Nat]]
        /\ logins \in Nat /\ Len(users) \in Nat /\ Len(users) <= logins /\ logins <= MaxLogins
        /\ DOMAIN users = 1..Len(users) /\ now \in Nat /\ AccessTTL \in Nat /\ RefreshTTL \in Nat
        /\ MaxLogins \in Nat /\ life \in Nat
    BY AuthAssumption DEF AuthInv, UserInv, AuthTypeOK
  <1>3. u \in DOMAIN users /\ o \in 1..logins
    BY <1>1 DEF AuthInv, UserInv
  <1>4. users[u] \in [email : Emails, role : Roles] /\ u \in 1..MaxLogins
    BY <1>2, <1>3, UserRow DEF AuthInv, UserInv
  <1>5. issued + 1 \in 1..MaxTokens /\ now + RefreshTTL \in Nat /\ now + AccessTTL \in Nat /\ o \in Nat
    BY <1>1, <1>2, <1>3
  <1>6. s \in [token : 1..MaxTokens, uid : DOMAIN users, expires : Nat, origin : Nat] /\ s.origin = o
    BY <1>3, <1>5
  <1>7. a \in [who : Whos, role : Roles, expires : Nat] /\ a.who = w
    BY <1>2, <1>4, <1>5 DEF Whos
  <1>8. \A q \in AuthRequests : q # r => issuing[q].origin # o
    BY <1>1 DEF AuthInv, OriginInv
  <1>9. \A t \in sessions : t.origin # o
    BY DEF AuthInv, OriginInv
  <1> HIDE DEF u, o, s, a
  <1>10. \A q \in AuthRequests : issuing'[q] = IF q = r THEN NoOne ELSE issuing[q]
    BY <1>1, <1>2
  <1>11. NoOne \in [uid : 0..Len(users), origin : Nat] /\ NoOne.origin = 0
    BY <1>2 DEF NoOne
  <1>12. AuthTypeOK'
    <2>1. issuing' \in [AuthRequests -> [uid : 0..Len(users), origin : Nat]]
      BY <1>1, <1>2, <1>11
    <2>2. issued' \in 0..MaxTokens
      BY <1>1, <1>2
    <2> QED BY <1>1, <1>6, <1>7, <2>1, <2>2 DEF AuthInv, UserInv, AuthTypeOK
  <1>13. UserInv'
    BY <1>1, <1>10, <1>12 DEF AuthInv, UserInv
  <1>14. OriginInv'
    <2>1. \A t \in sessions' : t.origin \in 1..logins'
      BY <1>1, <1>3, <1>6 DEF AuthInv, OriginInv
    <2>2. \A t, v \in sessions' : t.origin = v.origin => t = v
      BY <1>1, <1>6, <1>9 DEF AuthInv, OriginInv
    <2>3. \A p, q \in AuthRequests : p # q /\ issuing'[p] # NoOne => issuing'[p].origin # issuing'[q].origin
      <3>1. \A q \in AuthRequests : issuing[q] # NoOne => issuing[q].origin # 0
        BY <1>2 DEF AuthInv, UserInv
      <3> QED BY <1>10, <1>11, <3>1 DEF AuthInv, OriginInv
    <2>4. \A q \in AuthRequests, t \in sessions' : issuing'[q].origin # t.origin
      BY <1>1, <1>3, <1>6, <1>8, <1>10, <1>11 DEF AuthInv, OriginInv
    <2> QED BY <2>1, <2>2, <2>3, <2>4 DEF OriginInv
  <1>15. PersonInv'
    <2>1. /\ w.uid = u /\ w.mail = users[u].email /\ w.life = life
          /\ Known' = Known \cup {w} /\ life' = life /\ users' = users
      BY <1>1, <1>7 DEF Known
    <2> HIDE DEF w
    <2>2. PersonInv
      BY DEF AuthInv
    <2> QED BY <1>2, <1>3, <2>1, <2>2 DEF PersonInv
  <1> QED BY <1>13, <1>14, <1>15 DEF AuthInv

\* Expired tokens, the clock and a restart only take away.
LEMMA ExpireInv ==
  ASSUME AuthInv, (\E s \in sessions : RefreshExpired(s)) \/ PassTime \/ UNCHANGED authVars
  PROVE  AuthInv'
  <1>1. /\ UNCHANGED <<users, byMail, issued, access, issuing, logins, life>> /\ sessions' \subseteq sessions
        /\ now' = now \/ (now < MaxTime /\ now' = now + 1)
    BY DEF RefreshExpired, PassTime, authVars
  <1>2. AuthTypeOK'
    BY <1>1, AuthAssumption, SMTT(30) DEF AuthInv, UserInv, AuthTypeOK
  <1>3. PersonInv'
    BY <1>1, SamePeople
  <1> QED BY <1>1, <1>2, <1>3 DEF AuthInv, UserInv, OriginInv

\* A restart that empties the maps keeps what is known of the tokens: nobody has one
\* of the new life.
LEMMA ForgetInv ==
  ASSUME AuthInv, Forget
  PROVE  AuthInv'
  <1>1. /\ users' = <<>> /\ byMail' = [m \in Emails |-> 0] /\ sessions' = {}
        /\ issuing' = [r \in AuthRequests |-> NoOne] /\ UNCHANGED <<issued, access, logins, now>>
        /\ life' = life + 1
    BY DEF Forget
  <1>2. /\ users' \in Seq([email : Emails, role : Roles]) /\ Len(users') = 0 /\ DOMAIN users' = {}
    BY <1>1
  <1>3. NoOne \in [uid : 0..0, origin : Nat]
    BY DEF NoOne
  <1>4. AuthTypeOK'
    BY <1>1, <1>2, <1>3 DEF AuthInv, UserInv, AuthTypeOK
  <1>5. UserInv'
    BY <1>1, <1>2, <1>4 DEF AuthInv, UserInv, AuthTypeOK
  <1>6. PersonInv'
    <2>1. life \in Nat /\ life' = life + 1 /\ Known' = Known
      BY <1>1 DEF AuthInv, UserInv, AuthTypeOK, Known
    <2>2. \A x \in Known : x.life \in Nat /\ x.life <= life
      BY DEF AuthInv, UserInv, AuthTypeOK, PersonInv, Known, Whos
    <2> QED BY <2>1, <2>2 DEF AuthInv, PersonInv
  <1> QED BY <1>1, <1>5, <1>6 DEF AuthInv, OriginInv

\* Every step of the sessions preserves their part.
LEMMA AuthNextInv ==
  ASSUME AuthInv, AuthNext
  PROVE  AuthInv'
  BY SignupInv, RequestInv, IssueInv, ExpireInv DEF AuthNext

\* Nobody who had a token is forgotten.
LEMMA KnownStay == AuthNext \/ Forget \/ UNCHANGED authVars => Known \subseteq Known'
  <1> SUFFICES ASSUME AuthNext \/ Forget \/ UNCHANGED authVars PROVE Known \subseteq Known'
    OBVIOUS
  <1>1. access \subseteq access'
    BY DEF AuthNext, Signup, Login, Refresh, RefreshExpired, IssueTokens, IssueFails, PassTime,
           Forget, authVars
  <1> QED BY <1>1 DEF Known

\* A task is created with a new id.
LEMMA CreateTaskInv ==
  ASSUME ServiceInv, NEW a \in access, CreateTask(a)
  PROVE  TaskInv' /\ OnlyOwnerWrites'
  <1> DEFINE n == [id |-> nextID, owner |-> a.who, by |-> a.who, admin |-> FALSE]
  <1>1. /\ nextID <= MaxTasks /\ nextID' = nextID + 1 /\ tasks' = tasks \cup {n}
        /\ UNCHANGED <<edit, ended>> /\ Known' = Known
    BY DEF CreateTask, authVars, Known
  <1>2. nextID \in Nat \ {0} /\ nextID' \in 1..(MaxTasks + 1) /\ MaxTasks \in Nat
    BY <1>1, TaskAssumption DEF ServiceInv, TaskInv
  <1>3. a.who \in Whos /\ a.who \in Known
    BY DEF ServiceInv, AuthInv, UserInv, AuthTypeOK, Known
  <1>4. n \in TaskRows /\ n.id = nextID /\ n.by = n.owner /\ n.owner \in Known
    BY <1>2, <1>3 DEF TaskRows
  <1> HIDE DEF n
  <1>5. \A t \in tasks \cup ended : t.id < nextID /\ t.id \in Nat
    BY DEF ServiceInv, TaskInv, TaskRows
  <1>6. \A r \in TaskRequests : edit[r] # Nothing =>
          /\ edit[r].id < nextID' /\ edit[r].by \in Known
          /\ \A t \in tasks' : t.id = edit[r].id => t.owner.uid = edit[r].by.uid \/ edit[r].admin
    <2> SUFFICES ASSUME NEW r \in TaskRequests, edit[r] # Nothing
                 PROVE  /\ edit[r].id < nextID' /\ edit[r].by \in Known
                        /\ \A t \in tasks' : t.id = edit[r].id => t.owner.uid = edit[r].by.uid \/ edit[r].admin
      OBVIOUS
    <2>1. edit[r] \in Edits /\ edit[r].id < nextID
      BY DEF ServiceInv, TaskInv
    <2>2. edit[r].id \in Nat /\ edit[r].id # n.id
      BY <1>2, <1>4, <2>1 DEF Edits
    <2> QED BY <1>1, <1>2, <2>1, <2>2 DEF ServiceInv, TaskInv
  <1>7. TaskInv'
    BY <1>1, <1>2, <1>4, <1>5, <1>6 DEF ServiceInv, TaskInv
  <1>8. OnlyOwnerWrites'
    BY <1>1, <1>2, <1>4, <1>5 DEF ServiceInv, OnlyOwnerWrites
  <1> QED BY <1>7, <1>8

\* The owner check of an update or a deletion.
LEMMA CheckTaskInv ==
  ASSUME ServiceInv, NEW r \in TaskRequests, NEW op \in {"update", "delete"},
         NEW a \in access, NEW t \in tasks, CheckTask(r, op, a, t)
  PROVE  TaskInv' /\ OnlyOwnerWrites'
  <1> DEFINE e == [op |-> op, id |-> t.id, by |-> a.who, admin |-> a.role = "admin"]
  <1>1. /\ UNCHANGED <<tasks, nextID, ended>> /\ edit' = [edit EXCEPT ![r] = e]
        /\ a.role = "admin" \/ t.owner.uid = a.who.uid
        /\ Known' = Known
    BY DEF CheckTask, MayWrite, authVars, Known
  <1>2. t \in TaskRows /\ t.id < nextID /\ edit \in [TaskRequests -> Edits \cup {Nothing}]
    BY DEF ServiceInv, TaskInv
  <1>3. a.who \in Whos /\ a.who \in Known
    BY DEF ServiceInv, AuthInv, UserInv, AuthTypeOK, Known
  <1>4. (a.role = "admin") \in BOOLEAN
    OBVIOUS
  <1>5. e \in Edits /\ e.id = t.id /\ e.by = a.who
    BY <1>2, <1>3, <1>4 DEF Edits, TaskRows
  <1>6. t.owner.uid = e.by.uid \/ e.admin
    BY <1>1
  <1> HIDE DEF e
  <1>7. \A q \in TaskRequests : edit'[q] = IF q = r THEN e ELSE edit[q]
    BY <1>1, <1>2
  <1>8. edit' \in [TaskRequests -> Edits \cup {Nothing}]
    BY <1>1, <1>2, <1>5
  <1>9. \A v \in tasks : v.id = t.id => v = t
    BY DEF ServiceInv, OnlyOwnerWrites
  <1>10. TaskInv'
    <2>1. \A q \in TaskRequests : edit'[q] # Nothing =>
            /\ edit'[q].id < nextID /\ edit'[q].by \in Known
            /\ \A v \in tasks : v.id = edit'[q].id => v.owner.uid = edit'[q].by.uid \/ edit'[q].admin
      <3> SUFFICES ASSUME NEW q \in TaskRequests, edit'[q] # Nothing
                   PROVE  /\ edit'[q].id < nextID /\ edit'[q].by \in Known
                          /\ \A v \in tasks :
                               v.id = edit'[q].id => v.owner.uid = edit'[q].by.uid \/ edit'[q].admin
        OBVIOUS
      <3>1. CASE q = r
        BY <1>2, <1>3, <1>5, <1>6, <1>7, <1>9, <3>1
      <3>2. CASE q # r
        BY <1>7, <3>2 DEF ServiceInv, TaskInv
      <3> QED BY <3>1, <3>2
    <2> QED BY <1>1, <1>8, <2>1 DEF ServiceInv, TaskInv
  <1>11. OnlyOwnerWrites'
    BY <1>1 DEF ServiceInv, OnlyOwnerWrites
  <1> QED BY <1>10, <1>11

\* A write, or one that fails: r's check is used up, and rows keep their owners.
LEMMA WriteTaskInv ==
  ASSUME ServiceInv, NEW r \in TaskRequests, UpdateTask(r) \/ DeleteTask(r) \/ WriteFails(r)
  PROVE  TaskInv' /\ OnlyOwnerWrites'
  <1> DEFINE e == edit[r]
             Allowed(t) == \/ t.admin
                           \/ /\ t.by.uid = t.owner.uid
                              /\ t.by.mail = t.owner.mail \/ t.by.life # t.owner.life
             new(t) == [t EXCEPT !.by = e.by, !.admin = e.admin]
             gone(t) == [id |-> t.id, owner |-> t.owner, by |-> e.by, admin |-> e.admin]
  <1>1. /\ nextID' = nextID /\ Known' = Known /\ edit' = [edit EXCEPT ![r] = Nothing]
        /\ \/ /\ e.op = "update" /\ ended' = ended
              /\ tasks' = (tasks \ Target(r)) \cup {new(t) : t \in Target(r)}
           \/ /\ e.op = "delete" /\ tasks' = tasks \ Target(r)
              /\ ended' = ended \cup {gone(t) : t \in Target(r)}
           \/ tasks' = tasks /\ ended' = ended
    BY DEF UpdateTask, DeleteTask, WriteFails, authVars, Known
  <1>2. /\ tasks \subseteq TaskRows /\ ended \subseteq TaskRows /\ nextID \in Nat
        /\ edit \in [TaskRequests -> Edits \cup {Nothing}]
        /\ \A t \in tasks \cup ended : t.id < nextID
        /\ \A t \in tasks : t.owner \in Known
    BY TaskAssumption DEF ServiceInv, TaskInv
  <1>3. /\ \A t \in tasks \cup ended : Allowed(t)
        /\ \A t \in tasks, u \in ended : t.id # u.id
        /\ \A t, u \in tasks : t.id = u.id => t = u
    BY DEF ServiceInv, OnlyOwnerWrites, Allowed
  <1>4. e.op \in {"update", "delete"} => e \in Edits /\ e # Nothing
    BY <1>2 DEF Nothing
  <1>5. ASSUME e.op \in {"update", "delete"}, NEW t \in Target(r)
        PROVE  /\ t \in tasks
               /\ new(t) \in TaskRows /\ new(t).id = t.id /\ new(t).owner = t.owner /\ Allowed(new(t))
               /\ gone(t) \in TaskRows /\ gone(t).id = t.id /\ Allowed(gone(t))
    <2>1. t \in tasks /\ t.id = e.id /\ t \in TaskRows /\ e \in Edits /\ e # Nothing
      BY <1>2, <1>4, <1>5 DEF Target
    <2>2. (t.owner.uid = e.by.uid \/ e.admin) /\ e.by \in Known /\ t.owner \in Known
      BY <2>1 DEF ServiceInv, TaskInv
    <2>3. e.by \in Whos /\ e.admin \in BOOLEAN
      BY <2>1 DEF Edits
    <2>4. e.admin \/ (e.by.uid = t.owner.uid /\ (e.by.mail = t.owner.mail \/ e.by.life # t.owner.life))
      BY <2>2 DEF ServiceInv, AuthInv, PersonInv
    <2> HIDE DEF e
    <2>5. /\ new(t) \in TaskRows /\ gone(t) \in TaskRows
          /\ new(t).id = t.id /\ new(t).owner = t.owner /\ new(t).by = e.by /\ new(t).admin = e.admin
          /\ gone(t).id = t.id /\ gone(t).owner = t.owner /\ gone(t).by = e.by
          /\ gone(t).admin = e.admin
      BY <2>1, <2>3 DEF TaskRows
    <2> QED BY <2>1, <2>4, <2>5
  <1> HIDE DEF e, new, gone, Allowed
  <1>6. /\ \A t \in tasks' : t \in TaskRows /\ Allowed(t)
                             /\ \E o \in tasks : o.id = t.id /\ o.owner = t.owner
        /\ \A t, u \in tasks' : t.id = u.id => t = u
        /\ \A t \in ended' : t \in TaskRows /\ Allowed(t) /\ t.id < nextID
        /\ \A t \in tasks', u \in ended' : t.id # u.id
    <2>1. CASE /\ e.op = "update" /\ ended' = ended
               /\ tasks' = (tasks \ Target(r)) \cup {new(t) : t \in Target(r)}
      <3>1. \A t \in tasks' : (t \in tasks /\ t \notin Target(r)) \/ (\E o \in Target(r) : t = new(o))
        BY <2>1
      <3>2. \A t \in tasks' : t \in TaskRows /\ Allowed(t)
                              /\ \E o \in tasks : o.id = t.id /\ o.owner = t.owner
        BY <1>2, <1>3, <1>5, <2>1, <3>1
      <3>3. \A t, u \in tasks' : t.id = u.id => t = u
        BY <1>3, <1>5, <2>1, <3>1
      <3>4. \A t \in tasks', u \in ended' : t.id # u.id
        BY <1>3, <2>1, <3>2
      <3> QED BY <1>2, <1>3, <2>1, <3>2, <3>3, <3>4
    <2>2. CASE /\ e.op = "delete" /\ tasks' = tasks \ Target(r)
               /\ ended' = ended \cup {gone(t) : t \in Target(r)}
      <3>1. \A u \in ended' : u \in ended \/ (\E o \in Target(r) : u = gone(o))
        BY <2>2
      <3>2. \A t \in ended' : t \in TaskRows /\ Allowed(t) /\ t.id < nextID
        BY <1>2, <1>3, <1>5, <2>2, <3>1
      <3>3. \A t \in tasks', u \in ended' : t.id # u.id
        BY <1>3, <1>5, <2>2, <3>1
      <3> QED BY <1>2, <1>3, <2>2, <3>2, <3>3
    <2>3. CASE tasks' = tasks /\ ended' = ended
      BY <1>2, <1>3, <2>3
    <2> QED BY <1>1, <2>1, <2>2, <2>3
  <1>7. \A q \in TaskRequests : edit'[q] = IF q = r THEN Nothing ELSE edit[q]
    BY <1>1, <1>2
  <1>8. TaskInv'
    <2>1. \A q \in TaskRequests : edit'[q] # Nothing =>
            /\ edit'[q].id < nextID /\ edit'[q].by \in Known
            /\ \A v \in tasks' : v.id = edit'[q].id => v.owner.uid = edit'[q].by.uid \/ edit'[q].admin
      BY <1>6, <1>7 DEF ServiceInv, TaskInv
    <2>2. edit' \in [TaskRequests -> Edits \cup {Nothing}]
      BY <1>1, <1>2
    <2>3. \A t \in tasks' \cup ended' : t.id < nextID
      BY <1>2, <1>6
    <2>4. \A t \in tasks' : t.owner \in Known
      BY <1>2, <1>6
    <2> QED BY <1>1, <1>6, <2>1, <2>2, <2>3, <2>4 DEF ServiceInv, TaskInv
  <1>9. OnlyOwnerWrites'
    BY <1>6 DEF OnlyOwnerWrites, Allowed
  <1> QED BY <1>8, <1>9

\* No tasks and no requests at first.
LEMMA ServiceInitInv == ServiceInit => ServiceInv
  <1> SUFFICES ASSUME ServiceInit PROVE ServiceInv
    OBVIOUS
  <1>1. AuthInv
    BY AuthInitInv DEF ServiceInit
  <1>2. TaskInv /\ OnlyOwnerWrites
    BY TaskAssumption DEF ServiceInit, TaskInv, OnlyOwnerWrites
  <1> QED BY <1>1, <1>2 DEF ServiceInv

\* The invariant of the auth and task APIs holds in every reachable state.
THEOREM ServiceInvariance == ServiceSpec => []ServiceInv
  <1>1. ServiceInv /\ [ServiceNext]_serviceVars => ServiceInv'
    <2> SUFFICES ASSUME ServiceInv, [ServiceNext]_serviceVars PROVE ServiceInv'
      OBVIOUS
    <2>1. AuthInv
      BY DEF ServiceInv
    <2>2. ASSUME UNCHANGED taskVars, Known \subseteq Known' PROVE TaskInv' /\ OnlyOwnerWrites'
      BY <2>2 DEF taskVars, ServiceInv, TaskInv, OnlyOwnerWrites
    <2>3. CASE UNCHANGED serviceVars
      <3>1. UNCHANGED authVars /\ UNCHANGED taskVars
        BY <2>3 DEF serviceVars
      <3> QED BY <2>1, <2>2, <3>1, ExpireInv, KnownStay DEF ServiceInv
    <2>4. CASE AuthStep
      BY <2>1, <2>2, <2>4, AuthNextInv, KnownStay DEF AuthStep, ServiceInv
    <2>5. CASE TaskStep
      <3>1. UNCHANGED authVars
        BY <2>5 DEF TaskStep, CreateTask, CheckTask, UpdateTask, DeleteTask, WriteFails
      <3>2. AuthInv'
        BY <2>1, <3>1, ExpireInv
      <3>3. TaskInv' /\ OnlyOwnerWrites'
        BY <2>5, CreateTaskInv, CheckTaskInv, WriteTaskInv DEF TaskStep
      <3> QED BY <3>2, <3>3 DEF ServiceInv
    <2>6. CASE Restart
      <3>1. AuthInv'
        BY <2>1, <2>6, ForgetInv DEF Restart
      <3>2. UNCHANGED <<tasks, nextID, ended>> /\ edit' = [r \in TaskRequests |-> Nothing]
        BY <2>6 DEF Restart
      <3>3. TaskInv' /\ OnlyOwnerWrites'
        <4>1. Known \subseteq Known'
          BY <2>6, KnownStay DEF Restart
        <4> QED BY <3>2, <4>1 DEF ServiceInv, TaskInv, OnlyOwnerWrites
      <3> QED BY <3>1, <3>3 DEF ServiceInv
    <2> QED BY <2>3, <2>4, <2>5, <2>6 DEF ServiceNext
  <1> QED BY <1>1, ServiceInitInv, PTL DEF ServiceSpec

\* A set whose members are all equal has at most one.
LEMMA AtMostOne ==
  ASSUME NEW S, \A x, y \in S : x = y
  PROVE  Cardinality(S) \in 0..1 /\ (S = {} => Cardinality(S) = 0)
  <1>1. CASE S = {}
    BY <1>1, FS_EmptySet
  <1>2. CASE S # {}
    <2> PICK x : x \in S
      BY <1>2
    <2>1. S = {x}
      OBVIOUS
    <2>2. Cardinality({x}) = 1
      BY FS_Singleton
    <2> QED BY <1>2, <2>1, <2>2
  <1> QED BY <1>1, <1>2

\* However signups, logins, refreshes and restarts interleave, one login has at most
\* one refresh token, stored or being issued (refresh, issueTokens), and the two user
\* maps agree (signup).
THEOREM RefreshTokensNeverFork == ServiceSpec => []SessionsNeverFork
  <1>1. ServiceInv => SessionsNeverFork
    <2> SUFFICES ASSUME ServiceInv PROVE SessionsNeverFork
      OBVIOUS
    <2>1. AuthTypeOK /\ OriginInv
      BY DEF ServiceInv, AuthInv, UserInv
    <2>2. \A s \in sessions : s.uid \in DOMAIN users
      BY <2>1 DEF AuthTypeOK
    <2>3. ASSUME NEW n \in 1..logins
          PROVE  Cardinality({s \in sessions : s.origin = n})
                   + Cardinality({r \in AuthRequests : issuing[r].origin = n}) <= 1
      <3> DEFINE S == {s \in sessions : s.origin = n}
                 R == {r \in AuthRequests : issuing[r].origin = n}
      <3>1. \A s, t \in S : s = t
        BY <2>1 DEF OriginInv
      <3>2. \A r, q \in R : r = q
        <4>1. logins \in Nat /\ n # 0
          BY <2>1 DEF AuthTypeOK
        <4>2. \A r \in R : issuing[r] # NoOne
          BY <4>1 DEF NoOne
        <4> QED BY <2>1, <4>2 DEF OriginInv
      <3>3. S = {} \/ R = {}
        BY <2>1 DEF OriginInv
      <3> HIDE DEF S, R
      <3>4. Cardinality(S) \in 0..1 /\ (S = {} => Cardinality(S) = 0)
        BY <3>1, AtMostOne
      <3>5. Cardinality(R) \in 0..1 /\ (R = {} => Cardinality(R) = 0)
        BY <3>2, AtMostOne
      <3>6. Cardinality(S) + Cardinality(R) <= 1
        BY <3>3, <3>4, <3>5
      <3> QED BY <3>6 DEF S, R
    <2> QED BY <2>1, <2>2, <2>3 DEF SessionsNeverFork, AuthTypeOK
  <1> QED BY <1>1, ServiceInvariance, PTL

\* The owner check of updateTask and deleteTask still holds when the repository
\* writes: whoever writes is the owner, an admin, or has the owner's id from another
\* life of the process; and no write revives a deleted task (updateTask, deleteTask).
THEOREM TasksWrittenByOwners == ServiceSpec => []OnlyOwnerWrites
  <1>1. ServiceInv => OnlyOwnerWrites
    BY DEF ServiceInv
  <1> QED BY <1>1, ServiceInvariance, PTL
=============================================================================
