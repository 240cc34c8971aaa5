-------------------------------- MODULE Channels --------------------------------
(***************************************************************************)
(* A channel's settings and its credentials: ChannelsService.create,       *)
(* update and remove over the rows of ChannelInstance and Credential.  A   *)
(* save reads the row and the stored secrets, merges, and writes each back *)
(* in a statement of its own; a removal counts the allocations, deletes    *)
(* the credentials and then the channel, with whatever points at it.       *)
(*                                                                         *)
(* A configuration or a bundle of secrets is the set of its filled fields. *)
(***************************************************************************)
EXTENDS Naturals, FiniteSets

CONSTANTS
    Field,          \* fields of the connector's schema, and its secret fields
    Ref,            \* references a credential is stored under
    Request,        \* requests in flight at once
    MaxRequests,
    MaxMishaps,     \* crashes and unreadable credentials
    Null

VARIABLES
    channel,        \* the row of ChannelInstance, or Null
    credentials,    \* per reference: the stored fields, or Null
    allocations,    \* the rows of ChannelAllocation that point at the channel
    request,        \* per request in flight: what it does and how far it is
    given,          \* the fields of every save that was carried out
    cascaded,       \* allocations deleted with a channel
    used,           \* requests made and mishaps so far
    lapse           \* what overlapped or broke off: see the properties

vars == <<channel, credentials, allocations, request, given, cascaded, used, lapse>>

NoChange == [secrets |-> {}, config |-> {}, autoList |-> Null, defaults |-> Null]

\* What a form sends: a section of fields, of secrets, or of switches; or secrets with the
\* switch.  Absent fields are not touched, an absent switch keeps its value.
Change ==
    LET none == {{}}  one == {{f} : f \in Field}  switch == BOOLEAN \cup {Null}
    IN  [secrets: none, config: one, autoList: {Null}, defaults: {Null}]
        \cup [secrets: one, config: none, autoList: {Null, TRUE}, defaults: {Null}]
        \cup [secrets: none, config: none, autoList: switch, defaults: switch]

Idle == [step |-> "idle", change |-> NoChange, row |-> Null, stored |-> {}, ref |-> Null]

Init ==
    /\ channel = Null
    /\ credentials = [c \in Ref |-> Null]
    /\ allocations = 0
    /\ request = [r \in Request |-> Idle]
    /\ given = [secrets |-> {}, config |-> {}]
    /\ cascaded = 0
    /\ used = [requests |-> 0, mishaps |-> 0]
    /\ lapse = {}

-------------------------------------------------------------------------------
At(r, step) == request[r].step = step
Others(r) == {q \in Request \ {r} : request[q].step # "idle"}
Removing(q) == request[q].step \in {"uncredential", "delete"}

\* A request begins; a save beside another save, or a removal beside anything, overlaps.
Begin(r, job) ==
    /\ At(r, "idle") /\ used.requests < MaxRequests
    /\ used' = [used EXCEPT !.requests = @ + 1]
    /\ request' = [request EXCEPT ![r] = job]
    /\ lapse' = lapse \cup {l \in {"overlap"} : Others(r) # {}}

Goto(r, step) == request' = [request EXCEPT ![r].step = step]
Done(r) == request' = [request EXCEPT ![r] = Idle]

\* A reference nobody holds: newRef is random.
Fresh(c) == /\ credentials[c] = Null
            /\ (IF channel = Null THEN TRUE ELSE channel.ref # c)
            /\ \A q \in Request : request[q].ref # c

\* Create, with which the channel's life begins: the credentials first, "so a failure here
\* cannot leave a channel pointing at credentials that do not exist", then the row.
AskCreate(r) ==
    /\ used.requests = 0
    /\ \E fields \in SUBSET Field, secrets \in SUBSET Field, c \in Ref \cup {Null} :
          /\ IF secrets = {} THEN c = Null ELSE c # Null /\ Fresh(c)
          /\ Begin(r, [Idle EXCEPT !.step = IF secrets = {} THEN "insert" ELSE "store",
                          !.change = [NoChange EXCEPT !.config = fields, !.secrets = secrets],
                          !.ref = c])
    /\ UNCHANGED <<channel, credentials, allocations, given, cascaded>>

\* Mutant of Store: the row is written first, and points at what is to come.
StoreLast(r) ==
    /\ At(r, "store")
    /\ channel' = [config |-> request[r].change.config, ref |-> request[r].ref,
                   autoList |-> FALSE, defaults |-> FALSE]
    /\ Goto(r, "insert")
    /\ UNCHANGED <<credentials, allocations, given, cascaded, used, lapse>>

Store(r) ==
    /\ At(r, "store")
    /\ credentials' = [credentials EXCEPT ![request[r].ref] = request[r].change.secrets]
    /\ Goto(r, "insert")
    /\ UNCHANGED <<channel, allocations, given, cascaded, used, lapse>>

Insert(r) ==
    /\ At(r, "insert")
    /\ channel' = [config |-> request[r].change.config, ref |-> request[r].ref,
                   autoList |-> FALSE, defaults |-> FALSE]
    /\ given' = [secrets |-> request[r].change.secrets, config |-> request[r].change.config]
    /\ allocations' = 0
    /\ Done(r)
    /\ UNCHANGED <<credentials, cascaded, used, lapse>>

-------------------------------------------------------------------------------
\* Update: the row is read; the secrets only if some are sent.
AskUpdate(r) ==
    /\ channel # Null
    /\ \E change \in Change :
          Begin(r, [Idle EXCEPT !.step = IF change.secrets = {} THEN "check" ELSE "read",
                       !.change = change, !.row = channel, !.ref = channel.ref])
    /\ UNCHANGED <<channel, credentials, allocations, given, cascaded>>

\* What is stored is read to be merged with; what cannot be read counts as nothing stored.
ReadSecrets(r) ==
    /\ At(r, "read")
    /\ \E readable \in BOOLEAN, c \in Ref :
          /\ IF request[r].ref = Null THEN Fresh(c) ELSE c = request[r].ref
          /\ readable \/ used.mishaps < MaxMishaps
          /\ used' = [used EXCEPT !.mishaps = IF readable THEN @ ELSE @ + 1]
          /\ lapse' = lapse \cup {l \in {"unreadable"} : ~readable}
          /\ request' = [request EXCEPT ![r] = [@ EXCEPT !.step = "put", !.ref = c,
                !.stored = IF credentials[c] = Null \/ ~readable THEN {} ELSE credentials[c]]]
    /\ UNCHANGED <<channel, credentials, allocations, given, cascaded>>

\* Mutant of PutSecrets: the secrets sent replace the bundle.
PutSecretsAlone(r) ==
    /\ At(r, "put")
    /\ credentials' = [credentials EXCEPT ![request[r].ref] = request[r].change.secrets]
    /\ Goto(r, "check")
    /\ UNCHANGED <<channel, allocations, given, cascaded, used, lapse>>

PutSecrets(r) ==
    /\ At(r, "put")
    /\ credentials' = [credentials EXCEPT ![request[r].ref] =
                          request[r].stored \cup request[r].change.secrets]
    /\ Goto(r, "check")
    /\ UNCHANGED <<channel, allocations, given, cascaded, used, lapse>>

Resolved(sent, kept) == IF sent = Null THEN kept ELSE sent

\* Mutant of MayAutoList: the switch is checked only by the save that sets it.
MayAutoListWhenSet(job) ==
    job.change.autoList = TRUE => Resolved(job.change.defaults, job.row.defaults)

\* New stock lists itself only where a product's defaults are declared: by this save, or by
\* the row as it was read.
MayAutoList(job) ==
    Resolved(job.change.autoList, job.row.autoList)
        => Resolved(job.change.defaults, job.row.defaults)

\* A refused save has stored its secrets all the same, and pointed nothing at new ones.
CheckAutoList(r) ==
    /\ At(r, "check")
    /\ IF MayAutoList(request[r])
       THEN Goto(r, "write") /\ UNCHANGED lapse
       ELSE /\ Done(r)
            /\ lapse' = lapse \cup {l \in {"refused"} : request[r].change.secrets # {}}
    /\ UNCHANGED <<channel, credentials, allocations, given, cascaded, used>>

\* Columns that were not sent are left alone; the configuration is merged with the one read.
WriteRow(r) ==
    /\ At(r, "write")
    /\ LET job == request[r]
       IN  IF channel = Null
           THEN UNCHANGED <<channel, given>>
           ELSE /\ channel' =
                     [config |-> IF job.change.config = {} THEN channel.config
                                 ELSE job.row.config \cup job.change.config,
                      ref |-> IF job.ref # job.row.ref THEN job.ref ELSE channel.ref,
                      autoList |-> Resolved(job.change.autoList, channel.autoList),
                      defaults |-> Resolved(job.change.defaults, channel.defaults)]
                /\ given' = [secrets |-> given.secrets \cup job.change.secrets,
                             config |-> given.config \cup job.change.config]
    /\ Done(r)
    /\ UNCHANGED <<credentials, allocations, cascaded, used, lapse>>

-------------------------------------------------------------------------------
\* Remove: refused while allocations point at the channel.
AskRemove(r) ==
    /\ channel # Null /\ allocations = 0
    /\ Begin(r, [Idle EXCEPT !.step = IF channel.ref = Null THEN "delete" ELSE "uncredential",
                             !.ref = channel.ref])
    /\ UNCHANGED <<channel, credentials, allocations, given, cascaded>>

DropCredentials(r) ==
    /\ At(r, "uncredential")
    /\ credentials' = [credentials EXCEPT ![request[r].ref] = Null]
    /\ Goto(r, "delete")
    /\ UNCHANGED <<channel, allocations, given, cascaded, used, lapse>>

\* The schema deletes the allocations that point at the channel by now.
Delete(r) ==
    /\ At(r, "delete")
    /\ channel' = Null
    /\ given' = [secrets |-> {}, config |-> {}]
    /\ cascaded' = cascaded + allocations
    /\ allocations' = 0
    /\ Done(r)
    /\ UNCHANGED <<credentials, used, lapse>>

-------------------------------------------------------------------------------
\* An item is allocated to the channel: a write of the ledger, or a confirmed link.
Allocate ==
    /\ channel # Null /\ allocations = 0
    /\ allocations' = 1
    /\ lapse' = lapse \cup {l \in {"late"} : \E q \in Request : Removing(q)}
    /\ UNCHANGED <<channel, credentials, request, given, cascaded, used>>

Deallocate ==
    /\ allocations > 0
    /\ allocations' = 0
    /\ UNCHANGED <<channel, credentials, request, given, cascaded, used, lapse>>

\* A request dies between two statements, or the second one fails.
BreakOff(r) ==
    /\ ~At(r, "idle") /\ used.mishaps < MaxMishaps
    /\ used' = [used EXCEPT !.mishaps = @ + 1]
    /\ Done(r)
    /\ lapse' = lapse \cup (IF Removing(r) THEN {"broken", "halfRemoved"} ELSE {"broken"})
    /\ UNCHANGED <<channel, credentials, allocations, given, cascaded>>

Next ==
    \/ \E r \in Request :
          \/ AskCreate(r) \/ Store(r) \/ Insert(r)
          \/ AskUpdate(r) \/ ReadSecrets(r) \/ PutSecrets(r) \/ CheckAutoList(r) \/ WriteRow(r)
          \/ AskRemove(r) \/ DropCredentials(r) \/ Delete(r)
          \/ BreakOff(r)
    \/ Allocate \/ Deallocate

Spec == Init /\ [][Next]_vars

-------------------------------------------------------------------------------
Channel == [config: SUBSET Field, ref: Ref \cup {Null}, autoList: BOOLEAN, defaults: BOOLEAN]

\* What the theorems about this module assume.
Parameters ==
    /\ \A c \in Ref : c # Null
    /\ \A fields \in SUBSET Field : fields # Null
    /\ \A row \in Channel : row # Null
    /\ \A switch \in BOOLEAN : switch # Null
    /\ MaxRequests \in Nat /\ MaxMishaps \in Nat

TypeOK ==
    /\ channel \in Channel \cup {Null}
    /\ credentials \in [Ref -> (SUBSET Field) \cup {Null}]
    /\ allocations \in 0..1 /\ cascaded \in Nat
    /\ given \in [secrets: SUBSET Field, config: SUBSET Field]
    /\ used \in [requests: 0..MaxRequests, mishaps: 0..MaxMishaps]
    /\ request \in [Request ->
          [step: {"idle", "store", "insert", "read", "put", "check", "write", "uncredential",
                  "delete"},
           change: [secrets: SUBSET Field, config: SUBSET Field,
                    autoList: BOOLEAN \cup {Null}, defaults: BOOLEAN \cup {Null}],
           row: Channel \cup {Null}, stored: SUBSET Field, ref: Ref \cup {Null}]]
    /\ lapse \subseteq {"overlap", "unreadable", "refused", "broken", "halfRemoved", "late"}

\* A channel never points at credentials that do not exist, except while it is being
\* removed, or where a removal broke off half way; however saves overlap.
RefResolves ==
    channel # Null /\ channel.ref # Null =>
        \/ credentials[channel.ref] # Null
        \/ "halfRemoved" \in lapse
        \/ \E r \in Request : At(r, "delete")

\* "Updating one secret does not have to re-enter the others", and a partial save clears no
\* setting: every field given to the channel is still set, unless two requests overlapped
\* or the stored secrets could not be read when they were merged.
NothingIsCleared ==
    channel # Null /\ lapse \cap {"overlap", "unreadable", "halfRemoved"} = {} =>
        /\ given.config \subseteq channel.config
        /\ \/ given.secrets = {}
           \/ channel.ref # Null /\ credentials[channel.ref] # Null
              /\ given.secrets \subseteq credentials[channel.ref]
           \/ \E r \in Request : At(r, "delete")

\* "Automatic creation with nothing declared puts untagged, uncategorised drafts on a
\* storefront at the speed of intake": only two saves at once can leave it switched on.
AutoListHasDefaults ==
    channel # Null /\ "overlap" \notin lapse => (channel.autoList => channel.defaults)

\* What saves leave set, they leave set for good and together.
SavesKeepSettings == NothingIsCleared /\ AutoListHasDefaults

\* Removing a channel deletes an operator's quantities and prices only where they came to
\* be after its allocations were counted.
RemovalCostsNothing == cascaded > 0 => "late" \in lapse

\* Credentials nobody points at are left only by a request that broke off, a refused save
\* that had stored them, or requests that overlapped.
NoStraySecrets ==
    \A c \in Ref :
        credentials[c] # Null =>
            \/ channel # Null /\ channel.ref = c
            \/ \E r \in Request : request[r].ref = c
            \/ lapse \cap {"broken", "refused", "overlap"} # {}

\* A channel and what hangs off it come, change and go together, up to what is named above.
ChannelIsWhole == RefResolves /\ NoStraySecrets /\ RemovalCostsNothing
===============================================================================
