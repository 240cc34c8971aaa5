------------------------------- MODULE Accounts -------------------------------
(***************************************************************************)
(* The accounts of an instance and what signs in as them: UsersService,    *)
(* AuthService, SessionService, ApiKeyService and the guard.  A request    *)
(* passes the guard, reads the account it is about, checks, and writes, in *)
(* separate statements; requests of several people interleave.             *)
(*                                                                         *)
(* A username names its account and is not taken a second time here.       *)
(* Passwords are the numbers of their versions.                            *)
(***************************************************************************)
EXTENDS Naturals, FiniteSets

CONSTANTS
    User,
    Request,        \* requests in flight at once
    MaxRequests,    \* requests ever made
    MaxPassword,    \* versions of a password
    Null

Role == {"admin", "viewer"}
Task == {"create", "update", "remove", "setup", "login", "setPassword", "changePassword"}
Account == [role: Role, active: BOOLEAN, password: 1..MaxPassword]

\* What the theorems about this module assume.
Parameters ==
    /\ IsFiniteSet(User) /\ User # {}
    /\ Null \notin Account \cup Task
    /\ MaxRequests \in Nat /\ MaxPassword \in Nat \ {0}

VARIABLES
    users,          \* per username: the account, or Null
    sessions,       \* live rows of Session: owner, password it was opened with
    keys,           \* live rows of ApiKey: owner or Null, and role
    request,        \* per request in flight: what it does and how far it is
    made,           \* requests made
    setups,         \* accounts created by first-run setup
    lapse           \* what overlapped or broke off: see the properties

vars == <<users, sessions, keys, request, made, setups, lapse>>

AtLeast(role, least) == role = "admin" \/ least = "viewer"
Accounts == {u \in User : users[u] # Null}
ActiveAdmins(us) == {u \in User : us[u] # Null /\ us[u].role = "admin" /\ us[u].active}

NoChange == [role |-> Null, active |-> Null]
Idle == [step |-> "idle", task |-> Null, target |-> Null, actor |-> Null,
         change |-> NoChange, seen |-> Null, raced |-> FALSE]

NewAccount(role) == [role |-> role, active |-> TRUE, password |-> 1]

\* An instance nobody has set up, or one in use: every account an administrator's and
\* signed in.
Init ==
    /\ \/ /\ users = [u \in User |-> Null]
          /\ sessions = {}
          /\ setups = 0
       \/ /\ users = [u \in User |-> NewAccount("admin")]
          /\ sessions = {[owner |-> u, password |-> 1] : u \in User}
          /\ setups = 1
    /\ keys = {}
    /\ request = [r \in Request |-> Idle]
    /\ made = 0
    /\ lapse = {}

-------------------------------------------------------------------------------
At(r, task, step) == request[r].task = task /\ request[r].step = step
Done(r) == request' = [request EXCEPT ![r] = Idle]
Goto(r, step) == request' = [request EXCEPT ![r].step = step]

Begin(r, task, step, target, actor, change) ==
    /\ request[r].step = "idle" /\ made < MaxRequests
    /\ made' = made + 1
    /\ request' = [request EXCEPT ![r] = [Idle EXCEPT !.task = task, !.step = step,
                      !.target = target, !.actor = actor, !.change = change]]

\* A changed password still has sessions to revoke; anything else is done once written.
Written(r) == IF request[r].task \in {"setPassword", "changePassword"}
              THEN [request[r] EXCEPT !.step = "written"] ELSE Idle

\* A write of accounts: a change of who administers races the other requests in flight.
Write(r, us) ==
    /\ users' = us
    /\ LET moved == ActiveAdmins(us) # ActiveAdmins(users)
       IN  request' = [q \in Request |->
                         IF q = r THEN Written(r)
                         ELSE IF request[q].step # "idle" /\ moved
                              THEN [request[q] EXCEPT !.raced = TRUE]
                              ELSE request[q]]
    /\ lapse' = lapse \cup {l \in {"overlap"} :
                   request[r].raced /\ ActiveAdmins(users) \ ActiveAdmins(us) # {}}

-------------------------------------------------------------------------------
\* The guard resolves a live session of an active account, or a key that is its owner's
\* or, once its owner is deleted, nobody's; either must act as an administrator.
AdminSession(u) == u \in ActiveAdmins(users) /\ \E s \in sessions : s.owner = u
AdminKey(k) == k.role = "admin" /\ (k.owner = Null \/ users[k.owner].active)
Administrators ==
    {u \in Accounts : AdminSession(u)} \cup {k.owner : k \in {k \in keys : AdminKey(k)}}

Change ==
    {[NoChange EXCEPT !.role = role] : role \in Role}
    \cup {[NoChange EXCEPT !.active = active] : active \in BOOLEAN}

AskAdmin(r) ==
    \E actor \in Administrators, target \in User :
        /\ \/ Begin(r, "create", "load", target, actor, NoChange)
           \/ \E change \in Change : Begin(r, "update", "load", target, actor, change)
           \/ Begin(r, "remove", "load", target, actor, NoChange)
           \/ Begin(r, "setPassword", "load", target, actor, NoChange)
        /\ UNCHANGED <<users, sessions, keys, setups, lapse>>

\* An account is created under a free username; a taken one is refused by the index.
Create(r) ==
    /\ At(r, "create", "load")
    /\ LET u == request[r].target
       IN  IF users[u] = Null
           THEN \E role \in Role : Write(r, [users EXCEPT ![u] = NewAccount(role)])
           ELSE Done(r) /\ UNCHANGED <<users, lapse>>
    /\ UNCHANGED <<sessions, keys, made, setups>>

\* What makes update and remove ask whether an administrator would be left.
TakesAnAdmin(job) ==
    /\ job.seen.role = "admin"
    /\ \/ job.task = "remove"
       \/ job.change.role \notin {Null, "admin"}
       \/ job.change.active = FALSE /\ job.seen.active

Sabotages(job) ==
    /\ job.target = job.actor
    /\ \/ job.task = "remove"
       \/ job.change.role \notin {Null, job.seen.role}
       \/ job.change.active = FALSE /\ job.seen.active

\* The account is read; one that is gone, and an attempt on one's own, are refused.
Load(r) ==
    /\ request[r].step = "load" /\ request[r].task \in {"update", "remove"}
    /\ LET job == [request[r] EXCEPT !.seen = users[request[r].target], !.raced = FALSE]
       IN  IF job.seen = Null \/ (job.seen # Null /\ Sabotages(job))
           THEN Done(r)
           ELSE request' = [request EXCEPT ![r] =
                   [job EXCEPT !.step = IF TakesAnAdmin(job) THEN "count" ELSE "write"]]
    /\ UNCHANGED <<users, sessions, keys, made, setups, lapse>>

\* Mutant of Count: the check only looks at whether there is an administrator now.
CountAny(r) ==
    /\ request[r].step = "count"
    /\ IF ActiveAdmins(users) = {} THEN Done(r) ELSE Goto(r, "write")
    /\ UNCHANGED <<users, sessions, keys, made, setups, lapse>>

\* assertNotLastAdmin: the active administrators are counted, the account is as it was read.
Count(r) ==
    /\ request[r].step = "count"
    /\ IF Cardinality(ActiveAdmins(users)) <= 1 /\ request[r].seen.active
       THEN Done(r)
       ELSE Goto(r, "write")
    /\ UNCHANGED <<users, sessions, keys, made, setups, lapse>>

Changed(account, change) ==
    [account EXCEPT !.role = IF change.role = Null THEN @ ELSE change.role,
                    !.active = IF change.active = Null THEN @ ELSE change.active]

Update(r) ==
    /\ At(r, "update", "write")
    /\ LET u == request[r].target
       IN  IF users[u] # Null
           THEN Write(r, [users EXCEPT ![u] = Changed(@, request[r].change)])
           ELSE Done(r) /\ UNCHANGED <<users, lapse>>
    /\ UNCHANGED <<sessions, keys, made, setups>>

\* The schema deletes the sessions with the account and takes its name off its keys.
Remove(r) ==
    /\ At(r, "remove", "write")
    /\ LET u == request[r].target
       IN  IF users[u] # Null
           THEN /\ Write(r, [users EXCEPT ![u] = Null])
                /\ sessions' = {s \in sessions : s.owner # u}
                /\ keys' = {[k EXCEPT !.owner = IF @ = u THEN Null ELSE @] : k \in keys}
           ELSE Done(r) /\ UNCHANGED <<users, sessions, keys, lapse>>
    /\ UNCHANGED <<made, setups>>

-------------------------------------------------------------------------------
\* Mutant of AskSetup: refused from the second account on.
AskSetupOffByOne(r) ==
    /\ Cardinality(Accounts) <= 1
    /\ \E u \in User : Begin(r, "setup", "load", u, Null, NoChange)
    /\ lapse' = lapse \cup {l \in {"setups"} : \E q \in Request : request[q].task = "setup"}
    /\ UNCHANGED <<users, sessions, keys, setups>>

\* First-run setup: refused as soon as there is an account, whoever it is.
AskSetup(r) ==
    /\ Accounts = {}
    /\ \E u \in User : Begin(r, "setup", "load", u, Null, NoChange)
    /\ lapse' = lapse \cup {l \in {"setups"} : \E q \in Request : request[q].task = "setup"}
    /\ UNCHANGED <<users, sessions, keys, setups>>

\* Two setups at once are decided by the index on the username, if they use the same one.
Setup(r) ==
    /\ At(r, "setup", "load")
    /\ LET u == request[r].target
       IN  IF users[u] = Null
           THEN Write(r, [users EXCEPT ![u] = NewAccount("admin")]) /\ setups' = setups + 1
           ELSE Done(r) /\ UNCHANGED <<users, setups, lapse>>
    /\ UNCHANGED <<sessions, keys, made>>

\* Signing in: the password is verified against the row, then the session is written.
AskLogin(r) ==
    /\ \E u \in Accounts :
          /\ users[u].active
          /\ Begin(r, "login", "load", u, Null, NoChange)
    /\ UNCHANGED <<users, sessions, keys, setups, lapse>>

Verify(r) ==
    /\ At(r, "login", "load")
    /\ LET account == users[request[r].target]
       IN  IF account # Null /\ account.active
           THEN request' = [request EXCEPT ![r].step = "write", ![r].seen = account]
           ELSE Done(r)
    /\ UNCHANGED <<users, sessions, keys, made, setups, lapse>>

\* lastLoginAt, then the session; the account may be gone by now.
Issue(r) ==
    /\ At(r, "login", "write")
    /\ Done(r)
    /\ LET u == request[r].target
           Late(password) == users[u].password # password
       IN  IF users[u] = Null
           THEN UNCHANGED <<sessions, lapse>>
           ELSE /\ sessions' = sessions \cup {[owner |-> u,
                                               password |-> request[r].seen.password]}
                /\ lapse' = lapse \cup {l \in {"lateSession"} : Late(request[r].seen.password)}
    /\ UNCHANGED <<users, keys, made, setups>>

\* Changing one's own password needs the current one, verified on the row that was read.
AskChangePassword(r) ==
    /\ \E s \in sessions :
          /\ users[s.owner].active
          /\ Begin(r, "changePassword", "load", s.owner, s.owner, NoChange)
    /\ UNCHANGED <<users, sessions, keys, setups, lapse>>

SetPassword(r) ==
    /\ request[r].task \in {"setPassword", "changePassword"} /\ request[r].step = "load"
    /\ LET u == request[r].target
       IN  IF users[u] # Null /\ users[u].password < MaxPassword
           THEN Write(r, [users EXCEPT ![u].password = @ + 1])
           ELSE Done(r) /\ UNCHANGED <<users, lapse>>
    /\ UNCHANGED <<sessions, keys, made, setups>>

\* Mutant of RevokeAll: the sessions opened since are taken for those to cut.
RevokeNewest(r) ==
    /\ request[r].step = "written"
    /\ sessions' = {s \in sessions : \/ s.owner # request[r].target
                                    \/ s.password # users[s.owner].password}
    /\ Done(r)
    /\ UNCHANGED <<users, keys, made, setups, lapse>>

\* Every live session of the account is revoked in a second statement.
RevokeAll(r) ==
    /\ request[r].step = "written"
    /\ sessions' = {s \in sessions : s.owner # request[r].target}
    /\ Done(r)
    /\ UNCHANGED <<users, keys, made, setups, lapse>>

SignOut(s) ==
    /\ made < MaxRequests
    /\ made' = made + 1
    /\ sessions' = sessions \ {s}
    /\ UNCHANGED <<users, keys, request, setups, lapse>>

\* A key may not be granted a role above its owner's; its role is its own from then on.
IssueKey(u) ==
    /\ made < MaxRequests
    /\ made' = made + 1
    /\ \E role \in Role :
          /\ AtLeast(users[u].role, role)
          /\ keys' = keys \cup {[owner |-> u, role |-> role]}
    /\ UNCHANGED <<users, sessions, request, setups, lapse>>

RevokeKey(k) ==
    /\ made < MaxRequests
    /\ made' = made + 1
    /\ keys' = keys \ {k}
    /\ UNCHANGED <<users, sessions, request, setups, lapse>>

\* The process is killed, or the second statement fails: the sessions stay.
BreakOff(r) ==
    /\ request[r].step = "written"
    /\ Done(r)
    /\ lapse' = lapse \cup {"unrevoked"}
    /\ UNCHANGED <<users, sessions, keys, made, setups>>

Next ==
    \/ \E r \in Request :
          \/ AskAdmin(r) \/ Create(r) \/ Load(r) \/ Count(r) \/ Update(r) \/ Remove(r)
          \/ AskSetup(r) \/ Setup(r)
          \/ AskLogin(r) \/ Verify(r) \/ Issue(r)
          \/ AskChangePassword(r) \/ SetPassword(r) \/ RevokeAll(r)
          \/ BreakOff(r)
    \/ \E s \in sessions : SignOut(s)
    \/ \E u \in Accounts : IssueKey(u)
    \/ \E k \in keys : RevokeKey(k)

Spec == Init /\ [][Next]_vars

-------------------------------------------------------------------------------
TypeOK ==
    /\ users \in [User -> Account \cup {Null}]
    /\ sessions \subseteq [owner: User, password: 1..MaxPassword]
    /\ keys \subseteq [owner: User \cup {Null}, role: Role]
    /\ request \in [Request ->
          [step: {"idle", "load", "count", "write", "written"},
           task: Task \cup {Null},
           target: User \cup {Null}, actor: User \cup {Null},
           change: Change \cup {NoChange}, seen: Account \cup {Null}, raced: BOOLEAN]]
    /\ made \in 0..MaxRequests /\ setups \in Nat
    /\ lapse \subseteq {"overlap", "setups", "lateSession", "unrevoked"}

\* "The last active admin cannot be demoted or deactivated by anyone": once an instance has
\* been set up an active administrator remains, unless a request that takes one away was
\* in flight while another changed who administers.
AdminRemains ==
    setups > 0 /\ "overlap" \notin lapse => ActiveAdmins(users) # {}

\* Setting or changing a password cuts every session opened with an older one; left over
\* are those of a change still to revoke, of a sign-in that verified the old password
\* before the change and wrote its session after it, and of a change broken off half way.
OldPasswordsAreCut ==
    \A s \in sessions :
        \/ s.password = users[s.owner].password
        \/ lapse \cap {"lateSession", "unrevoked"} # {}
        \/ \E r \in Request : request[r].step = "written" /\ request[r].target = s.owner

\* "Only permitted while the instance has no users": setup makes a second administrator only
\* where two setups were under way at once.  No sequence of requests one after another
\* empties an instance and opens setup again.
SetupHappensOnce ==
    setups > 1 => lapse \cap {"setups", "overlap"} # {}

\* "Deletion really does end the account rather than leaving usable credentials behind"
\* (users.service.ts:227): a key resolves only while its owner exists.
KeysDieWithTheirOwner == \A k \in keys : k.owner # Null
===============================================================================
