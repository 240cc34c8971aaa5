------------------------------ MODULE AlertFlags -------------------------------
(***************************************************************************)
(* The flags AlertsService keeps for conditions that last, and the inbox   *)
(* an operator works through.  A flag is named by its source: kind and     *)
(* channel, the other two parts of its key, are the same for all of them   *)
(* here.  raiseFlag and clearFlag look for an open row and then write, in  *)
(* two statements and no transaction, so anything may happen in between.   *)
(***************************************************************************)
EXTENDS Naturals, FiniteSets, Sequences

CONSTANTS
    Source,         \* the flags: one per condition that is watched
    Swept,          \* the sources whose sweep also clears the flag
    MaxChanges,     \* times a condition starts, ends or changes severity
    MaxMishaps,     \* operator clicks and killed workers together
    Null

\* What the theorems about this module assume.
Parameters ==
    /\ IsFiniteSet(Source) /\ Swept \subseteq Source
    /\ Null \notin Nat /\ Null \notin {"critical", "warning", "raise", "clear"}
    /\ MaxChanges \in Nat /\ MaxMishaps \in Nat

VARIABLES
    trouble,        \* per source: the severity of the condition now, or Null
    alerts,         \* the rows of Alert, in the order they were created
    worker,         \* per caller: where it is in raiseFlag or clearFlag
    mailed,         \* <<row, severity>>: the calls of EmailService.notifyAlert
    unmailed,       \* rows whose mail died with the process that owed it
    budget          \* changes, clicks and crashes so far

vars == <<trouble, alerts, worker, mailed, unmailed, budget>>

Severity == {"critical", "warning"}
Rank == [critical |-> 0, warning |-> 1]
Status == {"open", "acknowledged", "resolved"}

\* Every source has a worker of its own; a sweep can also be asked for by hand.
Worker == (Source \X {"scheduled"}) \cup (Swept \X {"onDemand"})

Row == DOMAIN alerts
Open(s) == {a \in Row : alerts[a].source = s /\ alerts[a].status = "open"}

Mishaps == budget.clicks + budget.crashes

Idle == [step |-> "idle", verb |-> Null, severity |-> Null, found |-> Null,
         seen |-> Null]

Init ==
    /\ trouble = [s \in Source |-> Null]
    /\ alerts = <<>>
    /\ worker = [w \in Worker |-> Idle]
    /\ mailed = {}
    /\ unmailed = {}
    /\ budget = [changes |-> 0, clicks |-> 0, crashes |-> 0]

-------------------------------------------------------------------------------
\* The condition itself changes: a token expires, drift appears, a sweep finds nothing.
Change(s) ==
    /\ budget.changes < MaxChanges
    /\ \E now \in (Severity \cup {Null}) \ {trouble[s]} :
          trouble' = [trouble EXCEPT ![s] = now]
    /\ budget' = [budget EXCEPT !.changes = @ + 1]
    /\ UNCHANGED <<alerts, worker, mailed, unmailed>>

\* A caller has seen how things are: it raises the flag, or clears it where it is a sweep.
Report(w) ==
    LET s == w[1]
    IN  /\ worker[w].step = "idle"
        /\ trouble[s] # Null \/ s \in Swept
        /\ worker' = [worker EXCEPT ![w] =
                        [Idle EXCEPT !.step = "find",
                                     !.verb = IF trouble[s] = Null THEN "clear" ELSE "raise",
                                     !.severity = trouble[s]]]
        /\ UNCHANGED <<trouble, alerts, mailed, unmailed, budget>>

\* Mutant of Matches: every raise adds a row.
MatchesNothing(s) == {Null}

\* Mutant of Matches: a row an operator has acknowledged still counts as the flag.
MatchesUnresolved(s) ==
    LET unresolved == {a \in Row : alerts[a].source = s /\ alerts[a].status # "resolved"}
    IN  IF unresolved = {} THEN {Null} ELSE unresolved

Matches(s) == IF Open(s) = {} THEN {Null} ELSE Open(s)

\* findFlag: the first open row of the source, in whatever order the database gives them.
FindFlag(w) ==
    /\ worker[w].step = "find"
    /\ \E found \in Matches(w[1]) :
          worker' = [worker EXCEPT ![w] =
                       IF found = Null /\ @.verb = "clear"
                       THEN Idle
                       ELSE [@ EXCEPT !.step = "write", !.found = found,
                                      !.seen = IF found = Null THEN Null
                                               ELSE alerts[found].severity]]
    /\ UNCHANGED <<trouble, alerts, mailed, unmailed, budget>>

\* Mutant of Worsened: ranks compared the wrong way round.
Eased(job) == Rank[job.severity] > Rank[job.seen]

\* A refresh mails only when it makes the flag more urgent than it was seen to be.
Worsened(job) == Rank[job.severity] < Rank[job.seen]

Refresh(w) ==
    LET job == worker[w]
    IN  /\ job.step = "write" /\ job.verb = "raise" /\ job.found # Null
        /\ alerts' = [alerts EXCEPT ![job.found].severity = job.severity]
        /\ worker' = [worker EXCEPT ![w] =
                        IF Worsened(job) THEN [@ EXCEPT !.step = "mail"] ELSE Idle]
        /\ UNCHANGED <<trouble, mailed, unmailed, budget>>

Raise(w) ==
    LET job == worker[w]
    IN  /\ job.step = "write" /\ job.verb = "raise" /\ job.found = Null
        /\ alerts' = Append(alerts, [source |-> w[1], status |-> "open",
                                     severity |-> job.severity])
        /\ worker' = [worker EXCEPT ![w] = [@ EXCEPT !.step = "mail",
                                                     !.found = Len(alerts) + 1]]
        /\ UNCHANGED <<trouble, mailed, unmailed, budget>>

\* Mutant of Clear: the row takes the severity of the report, which has none.
ClearSeverity(w) ==
    LET job == worker[w]
    IN  /\ job.step = "write" /\ job.verb = "clear"
        /\ alerts' = [alerts EXCEPT ![job.found].status = "resolved",
                                    ![job.found].severity = job.severity]
        /\ worker' = [worker EXCEPT ![w] = Idle]
        /\ UNCHANGED <<trouble, mailed, unmailed, budget>>

Clear(w) ==
    LET job == worker[w]
    IN  /\ job.step = "write" /\ job.verb = "clear"
        /\ alerts' = [alerts EXCEPT ![job.found].status = "resolved"]
        /\ worker' = [worker EXCEPT ![w] = Idle]
        /\ UNCHANGED <<trouble, mailed, unmailed, budget>>

\* notifyAlert, called once the row is written and never waited for.
Mail(w) ==
    LET job == worker[w]
    IN  /\ job.step = "mail"
        /\ mailed' = mailed \cup {<<job.found, job.severity>>}
        /\ worker' = [worker EXCEPT ![w] = Idle]
        /\ UNCHANGED <<trouble, alerts, unmailed, budget>>

\* The process dies between two statements; the scheduler starts its work over later.
Crash(w) ==
    /\ worker[w].step # "idle" /\ Mishaps < MaxMishaps
    /\ worker' = [worker EXCEPT ![w] = Idle]
    /\ unmailed' = unmailed \cup {a \in Row : worker[w].step = "mail" /\ a = worker[w].found}
    /\ budget' = [budget EXCEPT !.crashes = @ + 1]
    /\ UNCHANGED <<trouble, alerts, mailed>>

\* An operator acts on a row, whatever its status: nothing is ever deleted.
Click(a, status) ==
    /\ Mishaps < MaxMishaps
    /\ alerts' = [alerts EXCEPT ![a].status = status]
    /\ budget' = [budget EXCEPT !.clicks = @ + 1]
    /\ UNCHANGED <<trouble, worker, mailed, unmailed>>

Acknowledge(a) == Click(a, "acknowledged")
Resolve(a) == Click(a, "resolved")
Reopen(a) == Click(a, "open")

Step(w) == FindFlag(w) \/ Refresh(w) \/ Raise(w) \/ Clear(w) \/ Mail(w)

Next ==
    \/ \E s \in Source : Change(s)
    \/ \E w \in Worker : Report(w) \/ Step(w) \/ Crash(w)
    \/ \E a \in Row : Acknowledge(a) \/ Resolve(a) \/ Reopen(a)

\* A worker goes on with what it began, and the scheduler repeats every sweep.
Fairness ==
    /\ \A w \in Worker : WF_vars(Step(w))
    /\ \A s \in Swept : WF_vars(Report(<<s, "scheduled">>))

Spec == Init /\ [][Next]_vars /\ Fairness

-------------------------------------------------------------------------------
TypeOK ==
    /\ trouble \in [Source -> Severity \cup {Null}]
    /\ alerts \in Seq([source: Source, status: Status, severity: Severity])
    /\ worker \in [Worker -> [step: {"idle", "find", "write", "mail"},
                              verb: {"raise", "clear", Null},
                              severity: Severity \cup {Null},
                              found: Row \cup {Null},
                              seen: Severity \cup {Null}]]
    /\ mailed \subseteq Row \X Severity
    /\ unmailed \subseteq Row
    /\ budget \in [changes: 0..MaxChanges, clicks: 0..MaxMishaps,
                  crashes: 0..MaxMishaps]

\* "One open alert per condition" is only almost true: nothing makes the row unique, so
\* two callers that both found none both create one (alerts.service.ts:150).  What the
\* code does bound is how far it goes: a source never has more open rows than callers,
\* counting those an operator has reopened besides.
OpenFlagsBounded ==
    \A s \in Source :
        Cardinality(Open(s)) <= Cardinality({w \in Worker : w[1] = s}) + budget.clicks

\* Whatever refreshes and duplicates race, an operator has been mailed about every flag at
\* a severity no less urgent than the one it shows, unless the process that owed the mail is
\* about to send it or was killed.
SeverityIsMailed ==
    \A a \in Row : LET Enough(severity) == Rank[severity] <= Rank[alerts[a].severity]
                   IN  \/ \E mail \in mailed : mail[1] = a /\ Enough(mail[2])
                       \/ a \in unmailed
                       \/ \E w \in Worker : /\ worker[w].step = "mail"
                                            /\ worker[w].found = a
                                            /\ Enough(worker[w].severity)

\* A condition that stays is in the inbox again however often its flag is resolved or
\* acknowledged: the next sweep raises it anew.
BrokenIsShown ==
    \A s \in Swept : <>[](trouble[s] # Null) => []<>(Open(s) # {})

\* A condition that is gone for good leaves no open flag behind, duplicates included: each
\* sweep resolves one.  (An acknowledged flag is not seen by findFlag and stays.)
HealthyIsCleared ==
    \A s \in Swept : <>[](trouble[s] = Null) => <>[](Open(s) = {})

\* The inbox follows the conditions, both ways.
FlagsFollow == BrokenIsShown /\ HealthyIsCleared
===============================================================================
