------------------------------ MODULE Accounts ------------------------------
(***************************************************************************)
(* Users, the bootstrap of the first administrator, and who may create     *)
(* whom (app/api/routes/auth.py, app/core/security.py,                     *)
(* app/repositories/users.py).                                             *)
(*                                                                         *)
(* Both ways to create a user read first and insert at a later await: the  *)
(* bootstrap counts the users, POST /auth/users reads the role of the      *)
(* token's owner.  Nothing deletes a user or changes a role.  A refused    *)
(* request (401, 403, 409 from the count) changes nothing and is no step.  *)
(***************************************************************************)
EXTENDS Naturals, Sequences

CONSTANTS
  Usernames,
  Requests,   \* requests that can be in flight together
  Bootstrap,  \* the creator of a user made with the machine API key
  NoUser

ASSUME AccountIds ==
  Bootstrap \notin Usernames /\ NoUser \notin Usernames \union {Bootstrap}

VARIABLES
  role,     \* users.role by username, "none" when there is no such user
  tokens,   \* users who hold an unexpired bearer token
  created,  \* history: the users in the order of their commits
  req       \* what each request in flight has read

vars == <<role, tokens, created, req>>

UserRole == {"analyst", "admin"}

Idle == [pc |-> "idle", user |-> NoUser, asked |-> "none", by |-> NoUser, seen |-> 0]

RequestRecord ==
  [pc : {"idle", "checked"}, user : Usernames \union {NoUser},
   asked : UserRole \union {"none"}, by : Usernames \union {Bootstrap, NoUser},
   seen : Nat]

CreationRecord ==
  [user : Usernames, asked : UserRole \union {"none"},
   by : Usernames \union {Bootstrap, NoUser}, seen : Nat]

Init ==
  /\ role = [u \in Usernames |-> "none"]
  /\ tokens = {}
  /\ created = << >>
  /\ req = [r \in Requests |-> Idle]

UserExists(u) == role[u] # "none"

\* The request goes on to create user u; its body asks for role p.
Pass(r, u, p, by) ==
  req' = [req EXCEPT ![r] = [pc |-> "checked", user |-> u, asked |-> p,
                             by |-> by, seen |-> Len(created)]]

\* Wrong: a limit off by one.
AtMostOneUser == \A v, w \in Usernames : UserExists(v) /\ UserExists(w) => v = w

\* count_users reads zero.
NoUsers == \A v \in Usernames : ~UserExists(v)

\* bootstrap_admin, called with the service principal.
CountUsers(r, u, p) ==
  /\ req[r].pc = "idle"
  /\ NoUsers
  /\ Pass(r, u, p, Bootstrap)
  /\ UNCHANGED <<role, tokens, created>>

\* Wrong: any user may add users.
AnyUser(by) == by \in tokens

\* require_principal decodes the token and reads its owner's row, and
\* require_roles("admin") passes.
IsAdmin(by) == by \in tokens /\ role[by] = "admin"

\* add_user up to the insert.
Authorize(r, by, u, p) ==
  /\ req[r].pc = "idle"
  /\ IsAdmin(by)
  /\ Pass(r, u, p, by)
  /\ UNCHANGED <<role, tokens, created>>

\* Wrong: no unique constraint.
NameUnchecked(u) == TRUE

\* The unique constraint on users.username lets the name in.
NameFree(u) == ~UserExists(u)

\* Wrong: user_data.role or forced_role.
RoleAsked(by, asked) == asked

\* forced_role or user_data.role: only a bootstrap forces one.
RoleFor(by, asked) == IF by = Bootstrap THEN "admin" ELSE asked

\* create_user up to its commit.
CreateUser(r) ==
  LET q == req[r] IN
  /\ q.pc = "checked"
  /\ NameFree(q.user)
  /\ role' = [role EXCEPT ![q.user] = RoleFor(q.by, q.asked)]
  /\ created' = Append(created, [user |-> q.user, asked |-> q.asked,
                                by |-> q.by, seen |-> q.seen])
  /\ req' = [req EXCEPT ![r] = Idle]
  /\ UNCHANGED tokens

\* The unique constraint refuses (409), or the session ends uncommitted.
Refuse(r) ==
  /\ req[r].pc = "checked"
  /\ req' = [req EXCEPT ![r] = Idle]
  /\ UNCHANGED <<role, tokens, created>>

\* login: an existing user with the right password gets a token.
Login(u) ==
  /\ UserExists(u)
  /\ tokens' = tokens \union {u}
  /\ UNCHANGED <<role, created, req>>

\* The token's exp passes; requests it has already authorized go on.
Expire(u) ==
  /\ u \in tokens
  /\ tokens' = tokens \ {u}
  /\ UNCHANGED <<role, created, req>>

Next ==
  \/ \E r \in Requests :
       \/ \E u \in Usernames, p \in UserRole : CountUsers(r, u, p)
       \/ \E by, u \in Usernames, p \in UserRole : Authorize(r, by, u, p)
       \/ CreateUser(r)
       \/ Refuse(r)
  \/ \E u \in Usernames : Login(u) \/ Expire(u)

Spec == Init /\ [][Next]_vars

-----------------------------------------------------------------------------
(* Properties.                                                             *)

\* Every variable keeps its type.
TypeOK ==
  /\ role \in [Usernames -> UserRole \union {"none"}]
  /\ tokens \subseteq Usernames
  /\ created \in Seq(CreationRecord)
  /\ req \in [Requests -> RequestRecord]

\* The service is never locked out: as soon as there is a user there is an
\* administrator, so a bootstrap that is refused leaves someone who can add
\* users.
SomeAdministrator ==
  (\E u \in Usernames : UserExists(u)) => \E u \in Usernames : role[u] = "admin"

\* Who created a user was an administrator created before: following the
\* creators back always ends at a bootstrap (require_roles on add_user).
CreatorsPrecede ==
  \A n \in DOMAIN created :
    \/ created[n].by = Bootstrap /\ role[created[n].user] = "admin"
    \/ /\ role[created[n].by] = "admin"
       /\ \E m \in 1..(n-1) : created[m].user = created[n].by

\* A bootstrap that starts when a user is stored is refused: any bootstrap
\* after the first had counted before the first committed.
ExtraBootstrapOnlyByOverlap ==
  \A n \in DOMAIN created : created[n].by = Bootstrap => created[n].seen = 0

\* However requests race for a name, one of them gets it, and the role it has
\* is the one that request asked for, or administrator when it was a
\* bootstrap: no loser's role reaches the row (users.username is unique).
OneUserPerName ==
  /\ \A n, m \in DOMAIN created : created[n].user = created[m].user => n = m
  /\ \A u \in Usernames :
       UserExists(u) <=> \E n \in DOMAIN created : created[n].user = u
  /\ \A n \in DOMAIN created :
       role[created[n].user] =
         IF created[n].by = Bootstrap THEN "admin" ELSE created[n].asked

-----------------------------------------------------------------------------
(* The inductive invariant.                                                *)

\* What a request carries was true when it read it: no users for a bootstrap,
\* a stored administrator for an addition.
ChecksRemembered ==
  \A r \in Requests : req[r].pc = "checked" =>
    /\ req[r].user \in Usernames
    /\ req[r].asked \in UserRole
    /\ \/ req[r].by = Bootstrap /\ req[r].seen = 0
       \/ req[r].by \in Usernames /\ role[req[r].by] = "admin"

IInv ==
  /\ TypeOK
  /\ ChecksRemembered
  /\ SomeAdministrator
  /\ CreatorsPrecede
  /\ ExtraBootstrapOnlyByOverlap
  /\ OneUserPerName

-----------------------------------------------------------------------------
(* A statement of the repository that the code does not keep.              *)

\* "The same credential bootstraps the first administrator exactly once"
\* (README.md).
BootstrapOnce ==
  \A n, m \in DOMAIN created :
    created[n].by = Bootstrap /\ created[m].by = Bootstrap => n = m

=============================================================================
