--------------------------------- MODULE Notices ---------------------------------
(***************************************************************************)
(* EmailService and SyslogService: settings that are rows of Setting, with *)
(* a password beside them for e-mail, a snapshot in the process that is    *)
(* re-read when it is ten seconds old, and notices that go out by it.      *)
(* A save reads everything, merges what the form sent into the snapshot,   *)
(* and writes every field back, one statement each.                        *)
(*                                                                         *)
(* A host stands for a server with its addresses; a password is the host   *)
(* it belongs to.  Which alerts are raised is the module AlertFlags.       *)
(***************************************************************************)
EXTENDS Naturals

CONSTANTS
    Host,
    Task,           \* saves and notices at once
    MaxSaves,
    MaxNotices,
    MaxMishaps,     \* statements that fail and processes killed
    Null

VARIABLES
    rows,           \* per service: the rows of Setting
    password,       \* the stored credentials of e-mail, or Null
    snapshot,       \* per service: the settings the process works from
    known,          \* the password the process works from
    task,           \* what is under way
    given,          \* per service: what the saves accepted so far set, by hindsight
    sent,           \* the last notice that went out, or Null
    used,
    lapse           \* per service: what overlapped or broke off

\* Nothing is not a value of a setting or a service; the bounds are numbers.
Parameters ==
    /\ Null \notin BOOLEAN
    /\ Null \notin Host \cup {"unset", "critical", "warning", "email", "syslog"}
    /\ MaxSaves \in Nat /\ MaxNotices \in Nat /\ MaxMishaps \in Nat

vars == <<rows, password, snapshot, known, task, given, sent, used, lapse>>

Service == {"email", "syslog"}
Unset == "unset"                            \* a host that is the empty string
Level == {"critical", "warning"}
Off == [enabled |-> FALSE, host |-> Unset, level |-> "warning"]
NoPatch == [enabled |-> Null, host |-> Null, level |-> Null]

\* update writes the switch, the server and the threshold, a row each and in this order; n of
\* them are written.
Rows == 3

WithRow(n, s, from) ==
    [enabled |-> IF n = 1 THEN from.enabled ELSE s.enabled,
     host |-> IF n = 2 THEN from.host ELSE s.host,
     level |-> IF n = 3 THEN from.level ELSE s.level]

\* One section of the form: the server, perhaps with its password; the switch; the threshold.
Patch(v) ==
    {[NoPatch EXCEPT !.host = h] : h \in Host \cup {Unset}}
    \cup {[NoPatch EXCEPT !.enabled = e] : e \in BOOLEAN}
    \cup {[NoPatch EXCEPT !.level = l] : l \in IF v = "email" THEN Level ELSE {}}

Idle == [step |-> "idle", service |-> Null, kind |-> Null, patch |-> NoPatch, secret |-> Null,
         severity |-> Null, read |-> Off, next |-> 0]

Init ==
    /\ rows = [v \in Service |-> Off] /\ snapshot = rows /\ given = rows
    /\ password = Null /\ known = Null
    /\ task = [t \in Task |-> Idle]
    /\ sent = Null
    /\ used = [saves |-> 0, notices |-> 0, mishaps |-> 0]
    /\ lapse = [v \in Service |-> {}]

At(t, step) == task[t].step = step
Goto(t, step) == task' = [task EXCEPT ![t].step = step]
Done(t) == task' = [task EXCEPT ![t] = Idle]
Use(what, most) == used[what] < most /\ used' = [used EXCEPT ![what] = @ + 1]
Note(v, why) == lapse' = [lapse EXCEPT ![v] = @ \cup why]

-------------------------------------------------------------------------------
Merged(from, patch) ==
    LET Of(old, new) == IF new # Null THEN new ELSE old
    IN  [enabled |-> Of(from.enabled, patch.enabled), host |-> Of(from.host, patch.host),
         level |-> Of(from.level, patch.level)]

Complete(s) == s.enabled => s.host # Unset

Urgent(severity, level) == severity = "critical" \/ level = "warning"

\* A notice that is sent, by the settings in effect, and whether they are the stored ones.
Notice(v, s) == [service |-> v, host |-> s.host,
                 stored |-> s = rows[v] /\ (v = "email" => known = password)]

\* What overlaps a save of the same service: another save, or a notice that may re-read.
Overlap(v, kind) ==
    LET others == {task[t].kind : t \in {u \in Task : task[u].service = v}}
    IN  {c \in {"saves"} : kind = "save" /\ "save" \in others}
        \cup {c \in {"read"} : IF kind = "save" THEN "notice" \in others ELSE "save" \in others}

\* A save forces a read of everything first.
AskSave(t, v) ==
    /\ At(t, "idle") /\ Use("saves", MaxSaves)
    /\ \E p \in Patch(v), s \in {Null} \cup Host :
          /\ s # Null => v = "email" /\ p.host = s
          /\ task' = [task EXCEPT ![t] = [Idle EXCEPT !.step = "query", !.service = v,
                                                      !.kind = "save", !.patch = p, !.secret = s]]
    /\ Note(v, Overlap(v, "save"))
    /\ UNCHANGED <<rows, password, snapshot, known, given, sent>>

\* notifyAlert and emit do not wait; the snapshot is read anew once it is ten seconds old,
\* which it may be at any time.
AskNotice(t, v) ==
    /\ At(t, "idle") /\ Use("notices", MaxNotices)
    /\ \E fresh \in BOOLEAN, l \in Level :
          task' = [task EXCEPT ![t] = [Idle EXCEPT !.step = IF fresh THEN "decide" ELSE "query",
                                                   !.service = v, !.kind = "notice",
                                                   !.severity = l]]
    /\ Note(v, Overlap(v, "notice"))
    /\ UNCHANGED <<rows, password, snapshot, known, given, sent>>

-------------------------------------------------------------------------------
\* Mutant of MergeForm: the switch is judged by what the form sent with it.
MergeFormAlone(t, s) ==
    LET next == Merged(s, task[t].patch)
    IN  IF task[t].patch.host = Unset => ~task[t].patch.enabled = TRUE
        THEN task' = [task EXCEPT ![t].step = "write", ![t].read = next, ![t].next = 1]
        ELSE Done(t)

\* What the form sent is merged into the settings in effect, and refused when that would be
\* switched on without a server.
MergeForm(t, s) ==
    LET next == Merged(s, task[t].patch)
    IN  IF Complete(next)
        THEN task' = [task EXCEPT ![t].step = "write", ![t].read = next, ![t].next = 1]
        ELSE Done(t)

\* An e-mail is decided about, and then waits for the channel's name; a line to the
\* collector is sent at once.
DecideMail(t, s) ==
    IF s.enabled /\ Urgent(task[t].severity, s.level)
    THEN task' = [task EXCEPT ![t].step = "send", ![t].read = Off] ELSE Done(t)

Emit(t, s) ==
    /\ sent' = IF s.enabled /\ s.host # Unset THEN Notice("syslog", s) ELSE sent
    /\ Done(t)

\* What follows once the settings s are in effect.
Loaded(t, s) ==
    \/ task[t].kind = "save" /\ MergeForm(t, s) /\ UNCHANGED sent
    \/ task[t].kind = "notice" /\ task[t].service = "email" /\ DecideMail(t, s) /\ UNCHANGED sent
    \/ task[t].kind = "notice" /\ task[t].service = "syslog" /\ Emit(t, s)

Decide(t) ==
    /\ At(t, "decide")
    /\ Loaded(t, snapshot[task[t].service])
    /\ UNCHANGED <<rows, password, snapshot, known, given, used, lapse>>

\* load(): the rows are read and take effect; for e-mail the password is read after that,
\* and takes effect then.
Query(t) ==
    /\ At(t, "query")
    /\ task' = [task EXCEPT ![t].step = "install", ![t].read = rows[task[t].service]]
    /\ UNCHANGED <<rows, password, snapshot, known, given, sent, used, lapse>>

InstallLines(t) ==
    /\ At(t, "install") /\ task[t].service = "syslog"
    /\ snapshot' = [snapshot EXCEPT !["syslog"] = task[t].read]
    /\ Loaded(t, task[t].read)
    /\ UNCHANGED <<rows, password, known, given, used, lapse>>

InstallMail(t) ==
    /\ At(t, "install") /\ task[t].service = "email"
    /\ snapshot' = [snapshot EXCEPT !["email"] = task[t].read]
    /\ task' = [task EXCEPT ![t].step = "secret", ![t].read = Off]
    /\ UNCHANGED <<rows, password, known, given, sent, used, lapse>>

InstallSecret(t) ==
    /\ At(t, "secret")
    /\ known' = password
    /\ Loaded(t, snapshot["email"])
    /\ UNCHANGED <<rows, password, snapshot, given, used, lapse>>

-------------------------------------------------------------------------------
\* Every field is written, whether the form sent it or not.
WriteRow(t) ==
    LET v == task[t].service
        n == task[t].next
    IN  /\ At(t, "write")
        /\ rows' = [rows EXCEPT ![v] = WithRow(n, rows[v], task[t].read)]
        /\ given' = [given EXCEPT ![v] = IF n = 1 THEN Merged(@, task[t].patch) ELSE @]
        /\ task' = [task EXCEPT ![t].next = IF n < Rows THEN n + 1 ELSE 0,
                                ![t].step = IF n < Rows THEN "write"
                                            ELSE IF task[t].secret # Null THEN "store" ELSE "adopt"]
        /\ UNCHANGED <<password, snapshot, known, sent, used, lapse>>

StoreSecret(t) ==
    /\ At(t, "store")
    /\ password' = task[t].secret
    /\ Goto(t, "adopt")
    /\ UNCHANGED <<rows, snapshot, known, given, sent, used, lapse>>

Adopt(t) ==
    /\ At(t, "adopt")
    /\ snapshot' = [snapshot EXCEPT ![task[t].service] = task[t].read]
    /\ known' = IF task[t].secret # Null THEN task[t].secret ELSE known
    /\ Done(t)
    /\ UNCHANGED <<rows, password, given, sent, used, lapse>>

\* send(): with the settings there are by now.
Send(t) ==
    /\ At(t, "send")
    /\ sent' = Notice("email", snapshot["email"])
    /\ Done(t)
    /\ UNCHANGED <<rows, password, snapshot, known, given, used, lapse>>

\* A statement fails, or the process is killed.
BreakOff(t) ==
    /\ ~At(t, "idle") /\ Use("mishaps", MaxMishaps)
    /\ Done(t)
    /\ Note(task[t].service, {"broken"})
    /\ UNCHANGED <<rows, password, snapshot, known, given, sent>>

Next ==
    \E t \in Task :
        \/ \E v \in Service : AskSave(t, v) \/ AskNotice(t, v)
        \/ Decide(t) \/ Query(t) \/ InstallLines(t) \/ InstallMail(t) \/ InstallSecret(t)
        \/ WriteRow(t) \/ StoreSecret(t) \/ Adopt(t) \/ Send(t)
        \/ BreakOff(t)

Spec == Init /\ [][Next]_vars

-------------------------------------------------------------------------------
Settings == [enabled: BOOLEAN, host: Host \cup {Unset}, level: Level]

TypeOK ==
    /\ rows \in [Service -> Settings] /\ snapshot \in [Service -> Settings]
    /\ given \in [Service -> Settings]
    /\ password \in Host \cup {Null} /\ known \in Host \cup {Null}
    /\ \A t \in Task :
          /\ task[t].step \in {"idle", "decide", "query", "install", "secret", "write", "store",
                               "adopt", "send"}
          /\ task[t].service \in Service \cup {Null} /\ task[t].read \in Settings
          /\ task[t].next \in 0..Rows
    /\ used \in [saves: 0..MaxSaves, notices: 0..MaxNotices, mishaps: 0..MaxMishaps]
    /\ lapse \in [Service -> SUBSET {"saves", "read", "broken"}]

Writing(v) == \E t \in Task : task[t].service = v /\ task[t].step \in {"write", "store", "adopt"}

\* "A server, a from address and at least one recipient are required to enable email": what
\* is stored can be delivered by, unless two saves overlapped, one broke off, or is writing.
EnabledIsComplete ==
    \A v \in Service : Complete(rows[v]) \/ lapse[v] \cap {"saves", "broken"} # {} \/ Writing(v)

\* A save writes every field back, and yet what earlier ones set stays: only overlapping
\* saves, one that broke off, or a notice's re-read of old rows in the middle of a save of
\* the e-mail settings can undo it.
SavesAreKept ==
    \A v \in Service :
        \/ rows[v] = given[v] \/ Writing(v)
        \/ lapse[v] \cap {"saves", "broken"} # {}
        \/ v = "email" /\ "read" \in lapse[v]

\* A notice goes out by the settings that are stored, unless a save was at work or a re-read
\* of older rows took effect after one.
NoticesFollowSettings == sent # Null => sent.stored \/ lapse[sent.service] # {}

NoticesHold == EnabledIsComplete /\ SavesAreKept /\ NoticesFollowSettings
===============================================================================
