--------------------------------- MODULE SignIn ---------------------------------
(***************************************************************************)
(* Single sign-on and the settings it runs on: SettingsService.update,     *)
(* AuthSettingsService and OidcService.  The stored settings are rows and  *)
(* a secret beside them; each replica works from a snapshot of both, which *)
(* a save reloads and which is re-read in the background once it has aged, *)
(* and from a discovery document it keeps for an hour.                     *)
(*                                                                         *)
(* An issuer stands for its URL and the client registered with it; a       *)
(* secret is the issuer that gave it out.  Who may administer accounts by  *)
(* hand is the module Accounts; what operators do there is one step here.  *)
(***************************************************************************)
EXTENDS Naturals, FiniteSets

CONSTANTS
    Issuer,
    Subject,        \* people the providers know
    Replica,
    Job,            \* saves and re-reads of the settings at once
    Browser,        \* sign-ins under way at once
    MaxSaves,
    MaxLogins,
    MaxMishaps,     \* processes killed, providers out of reach, operators' changes of accounts
    Null

VARIABLES
    stored,         \* the rows of Setting and the stored secret
    snapshot,       \* per replica: the settings it works from
    document,       \* per replica: the issuer whose discovery document it holds, or Null
    pinned,         \* fields the environment declares, which no save may touch
    job,            \* saves and re-reads in flight
    login,          \* per browser: the sign-in under way
    users,          \* per subject, and for the operator's own account: the account, or Null
    used,
    lapse           \* what overlapped, broke off or was changed meanwhile

\* Nothing is not a value of a setting, a role or an account; the bounds are numbers.
Parameters ==
    /\ Null \notin BOOLEAN /\ Null \notin Issuer \cup {"admin", "viewer"}
    /\ Null \notin [role: {"admin", "viewer"}, active: BOOLEAN]
    /\ MaxSaves \in Nat /\ MaxLogins \in Nat /\ MaxMishaps \in Nat

vars == <<stored, snapshot, document, pinned, job, login, users, used, lapse>>

Role == {"admin", "viewer"}
Operator == "operator"
Who == Subject \cup {Operator}

Blank == [enabled |-> FALSE, issuer |-> Null, secret |-> Null, claim |-> FALSE, local |-> TRUE]
NoPatch == [enabled |-> Null, issuer |-> Null, secret |-> Null, claim |-> Null, local |-> Null]

\* A section of the form at a time: the provider, switched on with it or not; the switch; how
\* roles are decided; the password door, alone or together with another provider.
Patch ==
    {[NoPatch EXCEPT !.issuer = i, !.secret = i] : i \in Issuer}
    \cup {[NoPatch EXCEPT !.issuer = i, !.secret = i, !.enabled = TRUE] : i \in Issuer}
    \cup {[NoPatch EXCEPT !.enabled = e] : e \in BOOLEAN}
    \cup {[NoPatch EXCEPT !.claim = c] : c \in BOOLEAN}
    \cup {[NoPatch EXCEPT !.local = l] : l \in BOOLEAN}

NoJob == [step |-> "idle", at |-> Null, patch |-> NoPatch, read |-> Blank]
NoLogin == [step |-> "idle", issuer |-> Null, subject |-> Null, role |-> Null, found |-> Null]

NewAccount(role) == [role |-> role, active |-> TRUE]

IsActive(us, w) == us[w] # Null /\ us[w].active
Admins(us) == {w \in Who : IsActive(us, w) /\ us[w].role = "admin"}

\* An instance its operator has set up with a password, or one deployed with a provider in
\* its environment and nobody in it yet.
Init ==
    /\ \/ /\ stored = Blank /\ pinned = {}
          /\ users = [w \in Who |-> IF w = Operator THEN NewAccount("admin") ELSE Null]
       \/ /\ \E i \in Issuer, c \in BOOLEAN :
                stored = [Blank EXCEPT !.enabled = TRUE, !.issuer = i, !.secret = i, !.claim = c]
          /\ pinned = {"enabled", "issuer", "secret", "claim"}
          /\ users = [w \in Who |-> Null]
    /\ snapshot = [p \in Replica |-> stored]
    /\ document = [p \in Replica |-> Null]
    /\ job = [j \in Job |-> NoJob]
    /\ login = [b \in Browser |-> NoLogin]
    /\ used = [saves |-> 0, logins |-> 0, mishaps |-> 0]
    /\ lapse = {}

settings == <<stored, snapshot, pinned, job>>
people == <<document, login, users>>

-------------------------------------------------------------------------------
Mishap == /\ used.mishaps < MaxMishaps
          /\ used' = [used EXCEPT !.mishaps = @ + 1]

JobAt(j, step) == job[j].step = step
JobGoes(j, step) == job' = [job EXCEPT ![j].step = step]
JobDone(j) == job' = [job EXCEPT ![j] = NoJob]
Overlap == {l \in {"overlap"} : \E j \in Job : job[j].step # "idle"}

Merged(from, patch, fields) ==
    LET Of(f, old, new) == IF f \in fields /\ new # Null THEN new ELSE old
    IN  [enabled |-> Of("enabled", from.enabled, patch.enabled),
         issuer |-> Of("issuer", from.issuer, patch.issuer),
         secret |-> Of("secret", from.secret, patch.secret),
         claim |-> Of("claim", from.claim, patch.claim),
         local |-> Of("local", from.local, patch.local)]
Touches(patch, fields) == \E f \in fields : patch[f] # Null
AllFields == {"enabled", "issuer", "secret", "claim", "local"}
RowFields == AllFields \ {"secret"}

\* What the form would leave is judged against the replica's snapshot.
AskSave(j, p) ==
    /\ JobAt(j, "idle") /\ used.saves < MaxSaves /\ Admins(users) # {}
    /\ used' = [used EXCEPT !.saves = @ + 1]
    /\ lapse' = lapse \cup Overlap
    /\ \E patch \in Patch :
          job' = [job EXCEPT ![j] = [NoJob EXCEPT !.step = "check", !.at = p, !.patch = patch]]
    /\ UNCHANGED <<stored, snapshot, pinned, people>>

\* Switching on needs a provider and a secret, and the provider's answer, while it is saved.
Enables(j) ==
    Merged(snapshot[job[j].at], job[j].patch, AllFields).enabled /\ ~snapshot[job[j].at].enabled

MayEnable(j) ==
    LET next == Merged(snapshot[job[j].at], job[j].patch, AllFields)
    IN  next.issuer # Null /\ next.secret # Null

\* Mutant of Check: the password door is closed on the operator's word.
CheckSwitchOnly(j) ==
    /\ JobAt(j, "check")
    /\ IF Touches(job[j].patch, pinned) \/ (Enables(j) /\ ~MayEnable(j))
       THEN JobDone(j)
       ELSE JobGoes(j, "rows")
    /\ UNCHANGED <<stored, snapshot, pinned, people, used, lapse>>

\* "Refuse to close the password door until SSO has actually let someone in."
Check(j) ==
    /\ JobAt(j, "check")
    /\ IF \/ Touches(job[j].patch, pinned)
          \/ Enables(j) /\ ~MayEnable(j)
          \/ job[j].patch.local = FALSE
             /\ \A s \in Subject : ~IsActive(users, s)
       THEN JobDone(j)
       ELSE JobGoes(j, "rows")
    /\ UNCHANGED <<stored, snapshot, pinned, people, used, lapse>>

\* The provider does not answer while it is tested.
TestFails(j) ==
    /\ JobAt(j, "check") /\ Enables(j) /\ Mishap
    /\ JobDone(j)
    /\ UNCHANGED <<stored, snapshot, pinned, people, lapse>>

\* The rows in one transaction, the secret in a statement of its own, then the reload.
SaveRows(j) ==
    /\ JobAt(j, "rows")
    /\ stored' = Merged(stored, job[j].patch, RowFields)
    /\ JobGoes(j, IF job[j].patch.secret = Null THEN "query" ELSE "secret")
    /\ UNCHANGED <<snapshot, pinned, people, used, lapse>>

SaveSecret(j) ==
    /\ JobAt(j, "secret")
    /\ stored' = Merged(stored, job[j].patch, {"secret"})
    /\ JobGoes(j, "query")
    /\ UNCHANGED <<snapshot, pinned, people, used, lapse>>

\* Mutant of Refresh: the settings are re-read only while there are none.
RefreshUntilLoaded(j, p) ==
    /\ JobAt(j, "idle") /\ snapshot[p] = Blank
    /\ lapse' = lapse \cup Overlap
    /\ job' = [job EXCEPT ![j] = [NoJob EXCEPT !.step = "query", !.at = p]]
    /\ UNCHANGED <<stored, snapshot, pinned, people, used>>

\* A snapshot that has aged for ten seconds is re-read by the next call that asks for the
\* settings, which does not wait for it.  They may be over at any time.
Refresh(j, p) ==
    /\ JobAt(j, "idle")
    /\ lapse' = lapse \cup Overlap
    /\ job' = [job EXCEPT ![j] = [NoJob EXCEPT !.step = "query", !.at = p]]
    /\ UNCHANGED <<stored, snapshot, pinned, people, used>>

\* The rows are read and take effect; then the secret is read and takes effect.
Query(j) ==
    /\ JobAt(j, "query")
    /\ job' = [job EXCEPT ![j].step = "install", ![j].read = [stored EXCEPT !.secret = Null]]
    /\ UNCHANGED <<stored, snapshot, pinned, people, used, lapse>>

Install(j) ==
    /\ JobAt(j, "install")
    /\ snapshot' = [snapshot EXCEPT ![job[j].at] = Merged(@, job[j].read, RowFields)]
    /\ job' = [job EXCEPT ![j].step = "finish", ![j].read.secret = stored.secret]
    /\ UNCHANGED <<stored, pinned, people, used, lapse>>

Finish(j) ==
    /\ JobAt(j, "finish")
    /\ snapshot' = [snapshot EXCEPT ![job[j].at].secret = job[j].read.secret]
    /\ JobDone(j)
    /\ UNCHANGED <<stored, pinned, people, used, lapse>>

\* A save or a re-read dies half way.
BreakOff(j) ==
    /\ ~JobAt(j, "idle") /\ Mishap
    /\ JobDone(j)
    /\ lapse' = lapse \cup {"broken"}
    /\ UNCHANGED <<stored, snapshot, pinned, people>>

-------------------------------------------------------------------------------
\* discover(): the document held, or a new one of the issuer in the snapshot.
Discovered(p) == IF document[p] = Null THEN snapshot[p].issuer ELSE document[p]

Enabled(p) == snapshot[p].enabled /\ snapshot[p].issuer # Null

\* The browser is sent to the provider of the document with the client of the settings; a
\* provider that does not know the client keeps it.
Start(b, p) ==
    /\ login[b].step = "idle" /\ used.logins < MaxLogins /\ Enabled(p)
    /\ used' = [used EXCEPT !.logins = @ + 1]
    /\ document' = [document EXCEPT ![p] = Discovered(p)]
    /\ IF Discovered(p) = snapshot[p].issuer
       THEN /\ login' = [login EXCEPT ![b] = [NoLogin EXCEPT !.step = "away",
                                                            !.issuer = Discovered(p)]]
            /\ UNCHANGED lapse
       ELSE UNCHANGED login /\ lapse' = lapse \cup {"astray"}
    /\ UNCHANGED <<settings, users>>

\* The browser is back, at any replica: the code is redeemed with the secret in the settings,
\* and the token names a subject and the role its groups are mapped to.
Return(b, p) ==
    /\ login[b].step = "away"
    /\ \E s \in Subject, r \in Role :
          login' = [login EXCEPT ![b] =
             IF /\ Enabled(p) /\ Discovered(p) = @.issuer
                /\ snapshot[p].issuer = @.issuer /\ snapshot[p].secret = @.issuer
             THEN [@ EXCEPT !.step = "resolve", !.subject = s, !.role = r]
             ELSE NoLogin]
    /\ document' = IF Enabled(p) THEN [document EXCEPT ![p] = Discovered(p)] ELSE document
    /\ UNCHANGED <<settings, users, used, lapse>>

\* The provider refuses, the login took too long, or the browser never comes back.
Abandon(b) ==
    /\ login[b].step = "away"
    /\ login' = [login EXCEPT ![b] = NoLogin]
    /\ UNCHANGED <<settings, document, users, used, lapse>>

\* resolveUser: the account is looked up; a new one is an administrator's where there is no
\* other, and otherwise has the role its groups are mapped to, or the default one.
Resolve(b, p) ==
    /\ login[b].step = "resolve"
    /\ LET found == users[login[b].subject]
           mapped == IF snapshot[p].claim THEN login[b].role ELSE Null
           role == IF found # Null THEN mapped
                   ELSE IF \A w \in Who : users[w] = Null THEN "admin"
                   ELSE IF mapped = Null THEN "viewer" ELSE mapped
       IN  login' = [login EXCEPT ![b] =
                       IF found # Null /\ ~IsActive(users, @.subject) THEN NoLogin
                       ELSE [@ EXCEPT !.step = "write", !.role = role, !.found = found]]
    /\ UNCHANGED <<settings, document, users, used, lapse>>

\* Mutant of Write: the role is written by every sign-in, mapped or not.
WriteDefault(b) ==
    /\ login[b].step = "write"
    /\ LET s == login[b].subject
           role == IF login[b].role = Null THEN "viewer" ELSE login[b].role
       IN  IF (login[b].found = Null) = (users[s] = Null)
           THEN users' = [users EXCEPT ![s] = IF @ = Null THEN NewAccount(role)
                                              ELSE [@ EXCEPT !.role = role]]
           ELSE UNCHANGED users
    /\ login' = [login EXCEPT ![b] = NoLogin]
    /\ UNCHANGED <<settings, document, used, lapse>>

\* An account that is gone cannot be updated, one that is there not be created; with a claim
\* configured the role is reapplied, whoever is left.
Write(b) ==
    /\ login[b].step = "write"
    /\ LET s == login[b].subject
           role == login[b].role
       IN  /\ IF (login[b].found = Null) = (users[s] = Null)
              THEN users' = [users EXCEPT ![s] = IF @ = Null THEN NewAccount(role)
                                                 ELSE IF role = Null THEN @
                                                 ELSE [@ EXCEPT !.role = role]]
              ELSE UNCHANGED users
           /\ lapse' = lapse \cup {l \in {"mapped"} : role # Null /\ login[b].found # Null}
    /\ login' = [login EXCEPT ![b] = NoLogin]
    /\ UNCHANGED <<settings, document, used>>

-------------------------------------------------------------------------------
\* The hour of a discovery document is over.
Expire(p) ==
    /\ document[p] # Null
    /\ document' = [document EXCEPT ![p] = Null]
    /\ UNCHANGED <<settings, login, users, used, lapse>>

\* An administrator changes another account; the last administrator's stays (see Accounts).
ChangeAccount(w) ==
    /\ users[w] # Null /\ Admins(users) \ {w} # {}
    /\ Mishap
    /\ \E account \in {Null, [users[w] EXCEPT !.active = FALSE]}
                        \cup {[users[w] EXCEPT !.role = r] : r \in Role} :
          /\ users' = [users EXCEPT ![w] = account]
          /\ lapse' = lapse \cup {l \in {"left"} : ~IsActive(users', w)}
    /\ UNCHANGED <<settings, document, login>>

Next ==
    \/ \E j \in Job :
          \/ \E p \in Replica : AskSave(j, p) \/ Refresh(j, p)
          \/ Check(j) \/ TestFails(j) \/ SaveRows(j) \/ SaveSecret(j)
          \/ Query(j) \/ Install(j) \/ Finish(j) \/ BreakOff(j)
    \/ \E p \in Replica : Expire(p)
    \/ \E b \in Browser :
          \/ \E p \in Replica : Start(b, p) \/ Return(b, p) \/ Resolve(b, p)
          \/ Abandon(b) \/ Write(b)
    \/ \E w \in Who : ChangeAccount(w)

\* The steps of a save or of a re-read, up to its end.
Step(j) == Check(j) \/ SaveRows(j) \/ SaveSecret(j) \/ Query(j) \/ Install(j) \/ Finish(j)

Spec == Init /\ [][Next]_vars

\* A request under way is carried on; a replica is asked for its settings again and again,
\* as every request of a browser that is signed out does.
FairSpec ==
    /\ Spec
    /\ \A j \in Job : WF_vars(Step(j))
    /\ \A p \in Replica : WF_vars(\E j \in Job : Refresh(j, p))

-------------------------------------------------------------------------------
Settings == [enabled: BOOLEAN, issuer: Issuer \cup {Null}, secret: Issuer \cup {Null},
             claim: BOOLEAN, local: BOOLEAN]
Account == [role: Role, active: BOOLEAN]

TypeOK ==
    /\ stored \in Settings /\ snapshot \in [Replica -> Settings] /\ pinned \subseteq AllFields
    /\ document \in [Replica -> Issuer \cup {Null}]
    /\ job \in [Job -> [step: {"idle", "check", "rows", "secret", "query", "install", "finish"},
                        at: Replica \cup {Null}, patch: Patch \cup {NoPatch}, read: Settings]]
    /\ login \in [Browser -> [step: {"idle", "away", "resolve", "write"},
                              issuer: Issuer \cup {Null}, subject: Subject \cup {Null},
                              role: Role \cup {Null}, found: Account \cup {Null}]]
    /\ users \in [Who -> Account \cup {Null}]
    /\ used \in [saves: 0..MaxSaves, logins: 0..MaxLogins, mishaps: 0..MaxMishaps]
    /\ lapse \subseteq {"overlap", "broken", "astray", "mapped", "left"}

\* An instance with accounts keeps an active administrator, however people sign in and
\* operators change accounts; only a role reapplied by a sign-in can take the last one away.
AdminIsKept ==
    (\E w \in Who : users[w] # Null) /\ "mapped" \notin lapse => Admins(users) # {}

\* "A mistyped redirect URI would lock everyone out": passwords are refused only where an
\* active person has signed in through the provider, or had until an account was changed.
DoorClosesBehindSomeone ==
    ~stored.local /\ "left" \notin lapse =>
        \E s \in Subject : IsActive(users, s)

\* The secret stored is the one of the provider stored, unless a save is between the two,
\* broke off there, or overlapped another.
SecretFitsIssuer ==
    \/ stored.secret = stored.issuer
    \/ lapse \cap {"overlap", "broken"} # {}
    \/ \E j \in Job : JobAt(j, "secret")

SignInHolds == AdminIsKept /\ DoorClosesBehindSomeone /\ SecretFitsIssuer

\* "The staleness that buys is bounded": once nobody saves any more, every replica comes to
\* work from what is stored, whatever re-reads and saves overlapped.
SettingsCatchUp == <>[](\A p \in Replica : snapshot[p] = stored)

\* "Applies immediately" (settings.controller.ts:126): no sign-in is sent to a provider the
\* settings no longer name.
AppliesImmediately == "astray" \notin lapse

\* "Everything here exists to stop an operator locking themselves out" (settings.service.ts):
\* some administrator can sign in.
SomeoneCanAdminister ==
    (\E w \in Who : users[w] # Null) /\ lapse = {} =>
        \E w \in Admins(users) : IF w = Operator THEN stored.local \/ ~stored.enabled
                                 ELSE stored.enabled /\ stored.secret = stored.issuer
===============================================================================
