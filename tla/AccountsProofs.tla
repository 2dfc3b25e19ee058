--------------------------- MODULE AccountsProofs ---------------------------
(***************************************************************************)
(* Proofs about Accounts, for any number of names and requests.            *)
(***************************************************************************)
EXTENDS Accounts, TLAPS

\* What Append does to length, domain and elements.
LEMMA AppendFacts ==
  ASSUME NEW S, NEW s \in Seq(S), NEW e \in S
  PROVE  /\ Append(s, e) \in Seq(S)
         /\ Len(s) \in Nat
         /\ DOMAIN s = 1..Len(s)
         /\ DOMAIN Append(s, e) = 1..(Len(s) + 1)
         /\ \A n \in 1..Len(s) : Append(s, e)[n] = s[n]
         /\ Append(s, e)[Len(s) + 1] = e
         /\ \A n \in 1..(Len(s) + 1) : n \in 1..Len(s) \/ n = Len(s) + 1
  OBVIOUS

\* The domain and the elements of a sequence.
LEMMA ElementFacts ==
  ASSUME NEW S, NEW s \in Seq(S)
  PROVE  /\ Len(s) \in Nat
         /\ DOMAIN s = 1..Len(s)
         /\ \A n \in DOMAIN s : s[n] \in S
         /\ \A n \in 1..Len(s) : s[n] \in S
  OBVIOUS

\* The users of the history are users.
LEMMA NamesInHistory ==
  ASSUME NEW s \in Seq(CreationRecord)
  PROVE  /\ \A n \in DOMAIN s : s[n].user \in Usernames
         /\ \A n \in 1..Len(s) : s[n].user \in Usernames
<1>1. ASSUME NEW n \in DOMAIN s PROVE s[n].user \in Usernames
  <2>1. s[n] \in CreationRecord
    BY ElementFacts
  <2> QED
    BY <2>1 DEF CreationRecord
<1> QED
  BY <1>1, ElementFacts

\* Everything holds before the first user.
LEMMA InitIInv == Init => IInv
  BY AccountIds DEF Init, IInv, TypeOK, RequestRecord, Idle, ChecksRemembered,
     SomeAdministrator, CreatorsPrecede, ExtraBootstrapOnlyByOverlap,
     OneUserPerName, UserExists

\* A request that read what it needs keeps the invariant: nothing it
\* remembers can change, for roles never do.
LEMMA PassStep ==
  ASSUME IInv, NEW r \in Requests, NEW u \in Usernames, NEW p \in UserRole,
         NEW by \in Usernames \union {Bootstrap}, Pass(r, u, p, by),
         UNCHANGED <<role, created>>, tokens' = tokens,
         \/ by = Bootstrap /\ Len(created) = 0
         \/ by \in Usernames /\ role[by] = "admin"
  PROVE  IInv'
<1> DEFINE q == [pc |-> "checked", user |-> u, asked |-> p, by |-> by,
                 seen |-> Len(created)]
<1>0. created \in Seq(CreationRecord) /\ Len(created) \in Nat
      /\ req \in [Requests -> RequestRecord]
  BY DEF IInv, TypeOK
<1>1. q \in RequestRecord
  BY <1>0 DEF RequestRecord
<1>2. req' = [req EXCEPT ![r] = q]
  BY DEF Pass
<1>3. q.pc = "checked" /\ q.user = u /\ q.asked = p /\ q.by = by
      /\ q.seen = Len(created)
  OBVIOUS
<1> HIDE DEF q
<1>4. TypeOK'
  BY <1>0, <1>1, <1>2 DEF IInv, TypeOK
<1>5. ChecksRemembered'
  BY <1>0, <1>2, <1>3 DEF IInv, ChecksRemembered
<1> QED
  BY <1>4, <1>5 DEF IInv, SomeAdministrator, CreatorsPrecede,
     ExtraBootstrapOnlyByOverlap, OneUserPerName, UserExists

\* The commit of create_user keeps the invariant.
LEMMA CreateStep ==
  ASSUME IInv, NEW r \in Requests, CreateUser(r)
  PROVE  IInv'
<1> DEFINE u == req[r].user
           by == req[r].by
           asked == req[r].asked
           p == RoleFor(by, asked)
           e == [user |-> u, asked |-> asked, by |-> by, seen |-> req[r].seen]
           N == Len(created) + 1
<1>0. /\ req \in [Requests -> RequestRecord] /\ req[r] \in RequestRecord
      /\ created \in Seq(CreationRecord)
      /\ role \in [Usernames -> UserRole \union {"none"}]
  BY DEF IInv, TypeOK
<1>1. /\ u \in Usernames /\ p \in UserRole /\ role[u] = "none"
      /\ p = IF by = Bootstrap THEN "admin" ELSE asked
      /\ \/ by = Bootstrap /\ req[r].seen = 0 /\ p = "admin"
         \/ by \in Usernames /\ role[by] = "admin"
  BY AccountIds DEF CreateUser, NameFree, IInv, ChecksRemembered, UserExists, RoleFor, UserRole
<1>2. /\ role' = [role EXCEPT ![u] = p]
      /\ created' = Append(created, e)
      /\ req' = [req EXCEPT ![r] = Idle]
      /\ tokens' = tokens
  BY DEF CreateUser
<1>3. e \in CreationRecord /\ e.user = u /\ e.asked = asked /\ e.by = by /\ e.seen = req[r].seen
  BY <1>0, <1>1 DEF RequestRecord, CreationRecord
<1> HIDE DEF u, p, by, asked, e
<1>4. /\ created' \in Seq(CreationRecord)
      /\ Len(created) \in Nat
      /\ DOMAIN created = 1..Len(created)
      /\ DOMAIN created' = 1..N
      /\ \A n \in 1..Len(created) : created'[n] = created[n]
      /\ created'[N] = e
      /\ \A n \in 1..N : n \in 1..Len(created) \/ n = N
  BY <1>0, <1>2, <1>3, AppendFacts
<1>5. TypeOK'
  BY <1>0, <1>1, <1>2, <1>4 DEF IInv, TypeOK, Idle, RequestRecord
<1>6. \A v \in Usernames : role[v] = "admin" => role'[v] = "admin"
  BY <1>0, <1>1, <1>2
<1>7. ChecksRemembered'
  BY <1>0, <1>2, <1>6 DEF IInv, ChecksRemembered, Idle
<1>8. role'[u] = p /\ \A v \in Usernames \ {u} : role'[v] = role[v]
  BY <1>0, <1>1, <1>2
<1>9. SomeAdministrator'
  BY <1>1, <1>6, <1>8 DEF IInv, SomeAdministrator, UserExists
<1>10. \A v \in Usernames :
         role[v] # "none" => \E m \in 1..Len(created) : created[m].user = v
  BY <1>4 DEF IInv, OneUserPerName, UserExists
<1>11. CreatorsPrecede'
  <2> SUFFICES ASSUME NEW n \in 1..N
               PROVE  \/ created'[n].by = Bootstrap /\ role'[created'[n].user] = "admin"
                      \/ /\ role'[created'[n].by] = "admin"
                         /\ \E m \in 1..(n-1) : created'[m].user = created'[n].by
    BY <1>4 DEF CreatorsPrecede
  <2>1. CASE n \in 1..Len(created)
    <3>0. created[n] \in CreationRecord
      BY <1>0, <2>1, ElementFacts
    <3>1. created'[n] = created[n] /\ created[n] \in CreationRecord
      BY <1>4, <2>1, <3>0
    <3>2. \A m \in 1..(n-1) : created'[m] = created[m]
      BY <1>4, <2>1
    <3>3. \/ created[n].by = Bootstrap /\ role[created[n].user] = "admin"
          \/ /\ role[created[n].by] = "admin"
             /\ \E m \in 1..(n-1) : created[m].user = created[n].by
      BY <1>4, <2>1 DEF IInv, CreatorsPrecede
    <3>4. created[n].user \in Usernames
      BY <3>1 DEF CreationRecord
    <3>5. \A m \in 1..(n-1) : created[m].user \in Usernames
      <4>1. \A m \in 1..(n-1) : m \in 1..Len(created)
        BY <1>4, <2>1
      <4> QED
        BY <1>0, <4>1, NamesInHistory
    <3> QED
      BY <1>6, <3>1, <3>2, <3>3, <3>4, <3>5
  <2>2. CASE n = N
    <3>1. created'[n].user = u /\ created'[n].by = by /\ n - 1 = Len(created)
      BY <1>3, <1>4, <2>2
    <3>2. CASE by = Bootstrap /\ p = "admin"
      BY <1>8, <3>1, <3>2
    <3>3. CASE by \in Usernames /\ role[by] = "admin"
      BY <1>4, <1>6, <1>10, <3>1, <3>3
    <3> QED
      BY <1>1, <3>2, <3>3
  <2> QED
    BY <1>4, <2>1, <2>2
<1>12. ExtraBootstrapOnlyByOverlap'
  BY <1>1, <1>3, <1>4, AccountIds DEF IInv, ExtraBootstrapOnlyByOverlap
<1>13. OneUserPerName'
  <2>1. \A m \in 1..Len(created) : created[m].user # u
    BY <1>1, <1>4 DEF IInv, OneUserPerName, UserExists
  <2>2. \A n, m \in 1..N : created'[n].user = created'[m].user => n = m
    BY <1>3, <1>4, <2>1 DEF IInv, OneUserPerName
  <2>3. \A v \in Usernames :
          role'[v] # "none" <=> \E n \in 1..N : created'[n].user = v
    <3> SUFFICES ASSUME NEW v \in Usernames
                 PROVE  role'[v] # "none" <=> \E n \in 1..N : created'[n].user = v
      OBVIOUS
    <3>1. CASE v = u
      BY <1>1, <1>3, <1>4, <1>8, <3>1 DEF UserRole
    <3>2. CASE v # u
      <4>1. role[v] # "none" <=> \E n \in 1..Len(created) : created[n].user = v
        BY <1>4 DEF IInv, OneUserPerName, UserExists
      <4>2. (\E n \in 1..N : created'[n].user = v)
              <=> \E n \in 1..Len(created) : created[n].user = v
        BY <1>3, <1>4, <3>2
      <4> QED
        BY <1>8, <3>2, <4>1, <4>2
    <3> QED
      BY <3>1, <3>2
  <2>4. ASSUME NEW n \in 1..N
        PROVE  role'[created'[n].user] =
                 IF created'[n].by = Bootstrap THEN "admin" ELSE created'[n].asked
    <3>1. CASE n \in 1..Len(created)
      <4>1. created'[n] = created[n] /\ created[n].user \in Usernames
        BY <1>0, <1>4, <3>1, NamesInHistory
      <4>2. role'[created[n].user] = role[created[n].user]
        BY <1>8, <2>1, <3>1, <4>1
      <4> QED
        BY <1>4, <3>1, <4>1, <4>2 DEF IInv, OneUserPerName
    <3>2. CASE n = N
      BY <1>1, <1>3, <1>4, <1>8, <3>2
    <3> QED
      BY <1>4, <3>1, <3>2
  <2> QED
    BY <1>4, <2>2, <2>3, <2>4 DEF OneUserPerName, UserExists
<1> QED
  BY <1>5, <1>7, <1>9, <1>11, <1>12, <1>13 DEF IInv

\* Every step keeps the inductive invariant.
LEMMA StepIInv == IInv /\ [Next]_vars => IInv'
<1> SUFFICES ASSUME IInv, [Next]_vars PROVE IInv'
  OBVIOUS
<1>1. ASSUME NEW r \in Requests, NEW u \in Usernames, NEW p \in UserRole, CountUsers(r, u, p)
      PROVE  IInv'
  <2>1. Len(created) = 0
    <3>1. created \in Seq(CreationRecord) /\ \A v \in Usernames : ~UserExists(v)
      BY <1>1 DEF CountUsers, NoUsers, IInv, TypeOK
    <3>2. \A n \in DOMAIN created : created[n].user \in Usernames
      BY <3>1, NamesInHistory
    <3>3. DOMAIN created = {}
      BY <3>1, <3>2 DEF IInv, OneUserPerName
    <3>4. Len(created) \in Nat /\ DOMAIN created = 1..Len(created)
      BY <3>1, ElementFacts
    <3>5. Len(created) > 0 => 1 \in 1..Len(created)
      BY <3>4
    <3> QED
      BY <3>3, <3>4, <3>5
  <2> QED
    BY <1>1, <2>1, PassStep DEF CountUsers, NoUsers
<1>2. ASSUME NEW r \in Requests, NEW by \in Usernames, NEW u \in Usernames,
             NEW p \in UserRole, Authorize(r, by, u, p)
      PROVE  IInv'
  BY <1>2, PassStep DEF Authorize, IsAdmin
<1>3. ASSUME NEW r \in Requests, CreateUser(r) PROVE IInv'
  BY <1>3, CreateStep
<1>4. ASSUME NEW r \in Requests, Refuse(r) PROVE IInv'
  BY <1>4, AccountIds DEF Refuse, IInv, TypeOK, RequestRecord, Idle,
     ChecksRemembered, SomeAdministrator, CreatorsPrecede,
     ExtraBootstrapOnlyByOverlap, OneUserPerName, UserExists
<1>5. ASSUME NEW u \in Usernames, Login(u) \/ Expire(u) PROVE IInv'
  BY <1>5 DEF Login, Expire, IInv, TypeOK, ChecksRemembered,
     SomeAdministrator, CreatorsPrecede, ExtraBootstrapOnlyByOverlap,
     OneUserPerName, UserExists
<1>6. CASE UNCHANGED vars
  BY <1>6 DEF vars, IInv, TypeOK, ChecksRemembered, SomeAdministrator,
     CreatorsPrecede, ExtraBootstrapOnlyByOverlap, OneUserPerName, UserExists
<1> QED
  BY <1>1, <1>2, <1>3, <1>4, <1>5, <1>6 DEF Next

-----------------------------------------------------------------------------
(* The theorems.                                                           *)

\* The inductive invariant holds in every reachable state.
THEOREM Invariance == Spec => []IInv
<1> QED
  BY InitIInv, StepIInv, PTL DEF Spec

\* Every variable keeps its type.
THEOREM TypeCorrect == Spec => []TypeOK
<1>1. IInv => TypeOK
  BY DEF IInv
<1> QED
  BY <1>1, Invariance, PTL

\* As soon as there is a user there is an administrator (bootstrap_admin
\* forces the role, add_user requires it of the caller).
THEOREM NeverLockedOut == Spec => []SomeAdministrator
<1>1. IInv => SomeAdministrator
  BY DEF IInv
<1> QED
  BY <1>1, Invariance, PTL

\* Every user was created by a bootstrap or by an administrator created
\* before (require_roles on add_user).
THEOREM CreatorsAreEarlierAdmins == Spec => []CreatorsPrecede
<1>1. IInv => CreatorsPrecede
  BY DEF IInv
<1> QED
  BY <1>1, Invariance, PTL

\* Bootstraps after the first had counted before the first committed
\* (bootstrap_admin), for any number of concurrent requests.
THEOREM ExtraBootstrapsOverlap == Spec => []ExtraBootstrapOnlyByOverlap
<1>1. IInv => ExtraBootstrapOnlyByOverlap
  BY DEF IInv
<1> QED
  BY <1>1, Invariance, PTL

\* One request gets each name (create_user and the unique constraint).
THEOREM NamesAreUnique == Spec => []OneUserPerName
<1>1. IInv => OneUserPerName
  BY DEF IInv
<1> QED
  BY <1>1, Invariance, PTL

=============================================================================
