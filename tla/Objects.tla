------------------------------ MODULE Objects ------------------------------
(***************************************************************************)
(* internal/domain: objects, work items, incidents and projects.  All are  *)
(* rows of objects, and a client changes one by sending the version it     *)
(* saw.  A handler reads the row, then runs an UPDATE that asks for that   *)
(* version; what it announces is what it read first.                       *)
(*                                                                         *)
(* Statements see what has committed when each begins (READ COMMITTED).    *)
(* Title, summary, priority, owner and metadata go with the status, which  *)
(* stands for all of them.                                                 *)
(***************************************************************************)
EXTENDS Naturals, FiniteSets

CONSTANTS
    Objs,        \* ids of objects
    Clients,     \* clients, each with one request at a time
    MaxVersion   \* bound: no row is changed at this version

ObjectsAssumption == Objs # {} /\ MaxVersion \in Nat \ {0}

VARIABLES
    object,  \* the row, with those of work_items and incidents
    desk,    \* what each client saw and its request has read
    slips,   \* history: what went wrong with an object
    loose    \* history: why it could: requests that no version orders

ovars == <<object, desk, slips, loose>>

Kinds == {"object", "work_item", "incident", "project"}
Statuses == {"open", "resolved"}
Severities == {"sev2", "sev3"}

Rows ==
    [kind : Kinds \cup {"absent"}, status : Statuses, severity : Severities,
     version : 1 .. MaxVersion, resolved : BOOLEAN, deleted : BOOLEAN]
NoRow ==
    [kind |-> "absent", status |-> "open", severity |-> "sev3",
     version |-> 1, resolved |-> FALSE, deleted |-> FALSE]

\* The row a client saw, and the status and severity its request read since.
\* unseen: what others changed in the row since the client saw it.
Desks ==
    [step : {"away", "seen", "begun", "known", "checked", "deleting"},
     about : Objs, version : 1 .. MaxVersion, status : Statuses,
     severity : Severities, unseen : SUBSET {"status", "severity"}]
Away(o) ==
    [step |-> "away", about |-> o, version |-> 1, status |-> "open",
     severity |-> "sev3", unseen |-> {}]

Slips ==
    {"lost", "false", "late"} \X {"status", "severity"} \cup {<<"late", "deletion">>}

OTypeOK ==
    /\ object \in [Objs -> Rows]
    /\ desk \in [Clients -> Desks]
    /\ slips \in [Objs -> SUBSET Slips]
    /\ loose \in [Objs -> SUBSET {"severity", "deletion", "status"}]

OInit ==
    /\ object = [o \in Objs |-> NoRow]
    /\ desk \in [Clients -> {Away(CHOOSE o \in Objs : TRUE)}]
    /\ slips = [o \in Objs |-> {}]
    /\ loose = [o \in Objs |-> {}]

-----------------------------------------------------------------------------
(* Creation; every INSERT of one object is in one transaction *)

Creates(o, kind) ==
    /\ object[o].kind = "absent"
    /\ object' = [object EXCEPT ![o].kind = kind]
    /\ UNCHANGED <<desk, slips, loose>>

\* Any type may be named, also those that have a handler of their own; the row
\* has then none in work_items or incidents.
CreateObject(o) == Creates(o, "object")
CreateWorkItem(o) == Creates(o, "work_item")
CreateIncident(o) == Creates(o, "incident")
CreateProject(o) == Creates(o, "project")

-----------------------------------------------------------------------------
(* Requests *)

Live(o) == object[o].kind # "absent" /\ ~object[o].deleted
About(c) == desk[c].about
At(c, step) == desk[c].step = step
Proceeds(c, step) == desk' = [desk EXCEPT ![c].step = step]
Quits(c) == desk' = [desk EXCEPT ![c] = Away(About(c))]

\* One statement each.
ViewObject(c, o) ==
    /\ At(c, "away")
    /\ Live(o)
    /\ desk' = [desk EXCEPT ![c] = [Away(o) EXCEPT !.step = "seen", !.version = object[o].version]]
    /\ UNCHANGED <<object, slips, loose>>

ViewWorkItem(c, o) == object[o].kind \in {"work_item", "incident"} /\ ViewObject(c, o)
ViewIncident(c, o) == object[o].kind = "incident" /\ ViewObject(c, o)

\* The first SELECT of every update.
BeginUpdate(c) ==
    LET o == About(c) IN
    /\ At(c, "seen")
    /\ Live(o)
    /\ desk' = [desk EXCEPT ![c].step = "begun", ![c].status = object[o].status]
    /\ UNCHANGED <<object, slips, loose>>

\* UpdateIncident reads the severity of the incident when it is to change it;
\* an object that is none has no severity.
ReadSeverity(c) ==
    LET o == About(c) IN
    /\ At(c, "begun")
    /\ object[o].kind = "incident"
    /\ desk' = [desk EXCEPT ![c].step = "known", ![c].severity = object[o].severity]
    /\ UNCHANGED <<object, slips, loose>>

\* A request changes some parts of a row: what others see of it, and what it
\* overwrites, announces wrongly, or changes too late.
Changes(c, parts, false) ==
    LET o == About(c)
        lost == {<<"lost", p>> : p \in parts \cap desk[c].unseen}
        late == IF object[o].deleted THEN {<<"late", p>> : p \in parts} ELSE {} IN
    /\ slips' = [slips EXCEPT ![o] = @ \cup lost \cup late \cup {<<"false", p>> : p \in false}]
    /\ desk' = [z \in Clients |->
            IF z = c THEN Away(o)
            ELSE IF ~At(z, "away") /\ About(z) = o
                 THEN [desk[z] EXCEPT !.unseen = @ \cup parts] ELSE desk[z]]

\* Mutant: the UPDATE does not ask for the version.
MatchesUnlessDeleted(c) == Live(About(c)) /\ object[About(c)].version < MaxVersion

\* ... WHERE id AND version AND deleted_at IS NULL; a request that matches no
\* row answers 409 and changes nothing.
Matches(c) ==
    /\ Live(About(c))
    /\ object[About(c)].version = desk[c].version
    /\ object[About(c)].version < MaxVersion

\* The UPDATE of objects.
NewRow(c, status) ==
    [object EXCEPT ![About(c)].status = status, ![About(c)].version = @ + 1]

\* The status of an incident may be changed here, without resolved_at.
Sidesteps(c, status) ==
    loose' = IF object[About(c)].kind = "incident" /\ object[About(c)].status # status
             THEN [loose EXCEPT ![About(c)] = @ \cup {"status"}] ELSE loose

UpdateObject(c, status) ==
    /\ At(c, "begun")
    /\ Matches(c)
    /\ object' = NewRow(c, status)
    /\ Changes(c, {"status"}, IF desk[c].status # object[About(c)].status THEN {"status"} ELSE {})
    /\ Sidesteps(c, status)

\* An incident has a row in work_items too.  A change of status is announced
\* with the one read first; the permission needed is anybody's own.
UpdateWorkItem(c, status) ==
    /\ object[About(c)].kind \in {"work_item", "incident"}
    /\ UpdateObject(c, status)

\* Announces no status.
UpdateProject(c, status) ==
    /\ At(c, "begun")
    /\ object[About(c)].kind = "project"
    /\ Matches(c)
    /\ object' = NewRow(c, status)
    /\ Changes(c, {"status"}, {})
    /\ UNCHANGED loose

\* A severity is announced to change from the one read.
FalseSeverity(c) ==
    IF desk[c].severity # object[About(c)].severity THEN {"severity"} ELSE {}

Resolves(c, status) == status = "resolved" /\ desk[c].status # "resolved"

\* With a status (or title, or summary): the version is asked for, and the
\* severity goes with it if it is given and differs from the one read.  Any
\* object will do; one that is no incident has nothing to resolve.
UpdateIncident(c, status, severity) ==
    LET o == About(c)
        both == At(c, "known") /\ severity # desk[c].severity IN
    /\ At(c, "known") \/ At(c, "begun")
    /\ Matches(c)
    /\ object' = [NewRow(c, status) EXCEPT
            ![o].resolved = object[o].resolved \/
                (Resolves(c, status) /\ object[o].kind = "incident"),
            ![o].severity = IF both THEN severity ELSE object[o].severity]
    /\ Changes(c, IF both THEN {"status", "severity"} ELSE {"status"},
                  IF both THEN FalseSeverity(c) ELSE {})
    /\ UNCHANGED loose

\* The severity alone: the version is looked at in a statement of its own ...
CheckVersion(c) ==
    /\ At(c, "known")
    /\ Live(About(c))
    /\ object[About(c)].version = desk[c].version
    /\ Proceeds(c, "checked")
    /\ UNCHANGED <<object, slips, loose>>

\* ... and stays as it is.
UpdateSeverity(c, severity) ==
    LET o == About(c) IN
    /\ At(c, "checked")
    /\ severity # desk[c].severity
    /\ object' = [object EXCEPT ![o].severity = severity]
    /\ Changes(c, {"severity"}, FalseSeverity(c))
    /\ loose' = [loose EXCEPT ![o] = @ \cup {"severity"}]

\* DeleteObject, which is DeleteProject, and DeleteWorkItem: read, then set
\* deleted_at by id alone.
BeginDelete(c, o) ==
    /\ At(c, "away")
    /\ Live(o)
    /\ desk' = [desk EXCEPT ![c] = [Away(o) EXCEPT !.step = "deleting"]]
    /\ UNCHANGED <<object, slips, loose>>

\* The row of work_items is read too, for the permission.
BeginDeleteWorkItem(c, o) ==
    object[o].kind \in {"work_item", "incident"} /\ BeginDelete(c, o)

DeleteObject(c) ==
    LET o == About(c)
        others == {z \in Clients \ {c} : At(z, "deleting") /\ About(z) = o} IN
    /\ At(c, "deleting")
    /\ object' = [object EXCEPT ![o].deleted = TRUE]
    /\ slips' = [slips EXCEPT ![o] =
            IF object[o].deleted THEN @ \cup {<<"late", "deletion">>} ELSE @]
    /\ loose' = [loose EXCEPT ![o] = IF others # {} THEN @ \cup {"deletion"} ELSE @]
    /\ Quits(c)

DeleteWorkItem(c) == object[About(c)].kind \in {"work_item", "incident"} /\ DeleteObject(c)

\* A request is refused, or ends without a word: nothing has changed.
Refuse(c) ==
    /\ ~At(c, "away")
    /\ Quits(c)
    /\ UNCHANGED <<object, slips, loose>>

-----------------------------------------------------------------------------
ClientStep(c) ==
    \/ \E o \in Objs :
        \/ ViewObject(c, o) \/ ViewWorkItem(c, o) \/ ViewIncident(c, o)
        \/ BeginDelete(c, o) \/ BeginDeleteWorkItem(c, o)
    \/ BeginUpdate(c)
    \/ ReadSeverity(c)
    \/ CheckVersion(c)
    \/ DeleteObject(c) \/ DeleteWorkItem(c)
    \/ Refuse(c)
    \/ \E status \in Statuses :
        \/ UpdateObject(c, status) \/ UpdateWorkItem(c, status) \/ UpdateProject(c, status)
        \/ \E severity \in Severities : UpdateIncident(c, status, severity)
    \/ \E severity \in Severities : UpdateSeverity(c, severity)

ONext ==
    \/ \E o \in Objs :
        CreateObject(o) \/ CreateWorkItem(o) \/ CreateIncident(o) \/ CreateProject(o)
    \/ \E c \in Clients : ClientStep(c)

OSpec == OInit /\ [][ONext]_ovars

-----------------------------------------------------------------------------
(* Properties *)

\* No accepted change of a row overwrites a status that its client had not
\* seen, announces an old status that was not the one replaced, or touches a
\* row that was deleted (UpdateObject, UpdateWorkItem, UpdateIncident).  For
\* the severity the same holds as long as nobody changes it alone, which moves
\* no version; a row is deleted a second time only by a request that overlapped
\* the first.  A resolved incident has its resolved_at unless its status was
\* changed as that of a mere object.
ObjectsTracked ==
    \A o \in Objs :
        /\ \A s \in slips[o] : s[2] \in loose[o] /\ s[2] # "status"
        /\ object[o].kind = "incident" /\ object[o].status = "resolved" =>
            object[o].resolved \/ "status" \in loose[o]
=============================================================================
