------------------------------- MODULE Teams -------------------------------
(***************************************************************************)
(* internal/team, and the accounts of internal/iam that start a platform:  *)
(* bootstrapping, registration, the members of one team (the first that is *)
(* founded), its invitations and its access grants.                        *)
(*                                                                         *)
(* Which role may ask for what, whether an invitation has expired and      *)
(* whether a name is taken are left to chance: requests may be refused.    *)
(* Roles other than owner are one.  A transaction is split where others    *)
(* can come between; the database runs at READ COMMITTED.                  *)
(***************************************************************************)
EXTENDS Naturals, FiniteSets

CONSTANTS
    People,       \* accounts, by their e-mail address
    Invitations,  \* ids of invitations
    Grants,       \* ids of team_access_grants
    Clerks,       \* requests in progress at a time
    Nobody        \* no account, no invitation

TeamsAssumption == Nobody \notin People \cup Invitations \cup Grants

VARIABLES
    locked,       \* bootstrap_lock.is_locked
    account,      \* users
    platform,     \* those with the role platform_owner
    member,       \* team_memberships: the role, and which row of the person's it is
    invitation,   \* the row of each invitation
    grant,        \* the status of each access grant
    clerk,        \* what each request has read and does next
    founded,      \* history: how often the platform was bootstrapped
    joined,       \* history: the memberships inserted for each invitation
    recalled,     \* history: how often each grant was revoked
    crossing      \* history: what two requests did at once

tvars == <<locked, account, platform, member, invitation, grant, clerk,
           founded, joined, recalled, crossing>>

Roles == {"none", "member", "owner"}
Joins == Cardinality(Invitations) * Cardinality(Clerks) + 1
NoClerk == [step |-> "idle", id |-> Nobody, role |-> "none", row |-> 0]

TTypeOK ==
    /\ locked \in BOOLEAN
    /\ account \subseteq People /\ platform \subseteq account
    /\ member \in [People -> [role : Roles, row : 0 .. Joins]]
    /\ invitation \in [Invitations ->
            [status : {"absent", "open", "accepted", "gone"},
             person : People \cup {Nobody}, role : Roles]]
    /\ grant \in [Grants -> {"absent", "live", "revoked"}]
    /\ clerk \in [Clerks ->
            [step : {"idle", "founding", "accepting", "changing", "committing", "recalling"},
             id : People \cup Invitations \cup Grants \cup {Nobody},
             role : Roles, row : 0 .. Joins]]
    /\ founded \in 0 .. Cardinality(Clerks)
    /\ joined \in [Invitations -> 0 .. Cardinality(Clerks)]
    /\ recalled \in [Grants -> 0 .. Cardinality(Clerks)]
    /\ crossing \subseteq {"founding", "owners"} \cup Invitations \cup Grants

TInit ==
    /\ locked = FALSE
    /\ account = {} /\ platform = {}
    /\ member = [p \in People |-> [role |-> "none", row |-> 0]]
    /\ invitation = [i \in Invitations |-> [status |-> "absent", person |-> Nobody, role |-> "none"]]
    /\ grant = [g \in Grants |-> "absent"]
    /\ clerk = [h \in Clerks |-> NoClerk]
    /\ founded = 0
    /\ joined = [i \in Invitations |-> 0]
    /\ recalled = [g \in Grants |-> 0]
    /\ crossing = {}

At(h, step) == clerk[h].step = step
Others(h, step) == {z \in Clerks \ {h} : At(z, step)}
Crosses(id, is) == crossing' = IF is THEN crossing \cup {id} ELSE crossing
Ends(h) == clerk' = [clerk EXCEPT ![h] = NoClerk]

\* A request has read what it needs about id.
Reads(h, step, id, role, row) ==
    /\ At(h, "idle")
    /\ clerk' = [clerk EXCEPT ![h] = [step |-> step, id |-> id, role |-> role, row |-> row]]
    /\ UNCHANGED <<locked, account, platform, member, invitation, grant,
                   founded, joined, recalled>>

Owns(p) == member[p].role = "owner"
Owners == {p \in People : Owns(p)}

Joined(p, role) == [role |-> role, row |-> member[p].row + 1]

-----------------------------------------------------------------------------
(* Accounts *)

BeginBootstrap(h) ==
    /\ ~locked
    /\ Reads(h, "founding", Nobody, "none", 0)
    /\ Crosses("founding", Others(h, "founding") # {})

\* The transaction does not look at the lock again.
Bootstrap(h, p) ==
    /\ At(h, "founding")
    /\ p \notin account
    /\ locked' = TRUE
    /\ account' = account \cup {p}
    /\ platform' = platform \cup {p}
    /\ member' = IF founded = 0 THEN [member EXCEPT ![p] = Joined(p, "owner")] ELSE member
    /\ founded' = founded + 1
    /\ Ends(h)
    /\ UNCHANGED <<invitation, grant, joined, recalled, crossing>>

Register(p) ==
    /\ locked
    /\ p \notin account
    /\ account' = account \cup {p}
    /\ UNCHANGED <<locked, platform, member, invitation, grant, clerk,
                   founded, joined, recalled, crossing>>

-----------------------------------------------------------------------------
(* Invitations *)

CreateInvitation(i, p, role) ==
    /\ founded > 0
    /\ invitation[i].status = "absent"
    /\ invitation' = [invitation EXCEPT ![i] = [status |-> "open", person |-> p, role |-> role]]
    /\ UNCHANGED <<locked, account, platform, member, grant, clerk,
                   founded, joined, recalled, crossing>>

BeginAccept(h, i) ==
    /\ invitation[i].status = "open" /\ invitation[i].person \in account
    /\ Reads(h, "accepting", i, invitation[i].role, 0)
    /\ Crosses(i, \E z \in Others(h, "accepting") : clerk[z].id = i)

\* The invitation may be gone, or accepted, by now: its UPDATE does not ask.
\* The INSERT fails for a member.
AcceptInvitation(h) ==
    LET i == clerk[h].id
        p == invitation[i].person
    IN
    /\ At(h, "accepting")
    /\ member[p].role = "none"
    /\ invitation' = IF invitation[i].status = "gone" THEN invitation
                     ELSE [invitation EXCEPT ![i].status = "accepted"]
    /\ member' = [member EXCEPT ![p] = Joined(p, clerk[h].role)]
    /\ joined' = [joined EXCEPT ![i] = @ + 1]
    /\ Ends(h)
    /\ UNCHANGED <<locked, account, platform, grant, founded, recalled, crossing>>

RevokeInvitation(i) ==
    /\ invitation[i].status \in {"open", "accepted"}
    /\ invitation' = [invitation EXCEPT ![i].status = "gone"]
    /\ Crosses(i, \E z \in Clerks : At(z, "accepting") /\ clerk[z].id = i)
    /\ UNCHANGED <<locked, account, platform, member, grant, clerk,
                   founded, joined, recalled>>

-----------------------------------------------------------------------------
(* Members: UpdateMemberRole, and RemoveMember when the role is none *)

BeginChange(h, p, role) ==
    /\ member[p].role # "none"
    /\ Owns(p) => Cardinality(Owners) > 1
    /\ Reads(h, "changing", p, role, member[p].row)
    /\ UNCHANGED crossing

UpdateMemberRole(h, p, role) == role # "none" /\ BeginChange(h, p, role)
RemoveMember(h, p) == BeginChange(h, p, "none")

\* Does the row that was read exist, and what does the change do to it now?
RowKept(h) ==
    LET p == clerk[h].id IN
    member[p].role # "none" /\ member[p].row = clerk[h].row
Dethrones(h) == RowKept(h) /\ Owns(clerk[h].id) /\ clerk[h].role # "owner"

\* Mutant: a trigger that trusts the handler's count.
TrustHandler(h) == TRUE

\* The trigger counts the owners of committed transactions.
protect_last_team_owner(h) == Dethrones(h) => Cardinality(Owners) > 1

\* The UPDATE or DELETE waits for another transaction's lock of the row.  Two
\* transactions may each take the crown from another owner.
WriteChange(h) ==
    /\ At(h, "changing")
    /\ \A z \in Others(h, "committing") : clerk[z].id # clerk[h].id
    /\ protect_last_team_owner(h)
    /\ clerk' = [clerk EXCEPT ![h].step = "committing"]
    /\ Crosses("owners", Dethrones(h) /\ \E z \in Others(h, "committing") : Dethrones(z))
    /\ UNCHANGED <<locked, account, platform, member, invitation, grant,
                   founded, joined, recalled>>

CommitChange(h) ==
    /\ At(h, "committing")
    /\ member' = IF RowKept(h) THEN [member EXCEPT ![clerk[h].id].role = clerk[h].role]
                 ELSE member
    /\ Ends(h)
    /\ UNCHANGED <<locked, account, platform, invitation, grant,
                   founded, joined, recalled, crossing>>

-----------------------------------------------------------------------------
(* Access grants *)

CreateAccessGrant(g) ==
    /\ founded > 0
    /\ grant[g] = "absent"
    /\ grant' = [grant EXCEPT ![g] = "live"]
    /\ UNCHANGED <<locked, account, platform, member, invitation, clerk,
                   founded, joined, recalled, crossing>>

BeginRevoke(h, g) ==
    /\ grant[g] = "live"
    /\ Reads(h, "recalling", g, "none", 0)
    /\ Crosses(g, \E z \in Others(h, "recalling") : clerk[z].id = g)

\* By id alone.
RevokeAccessGrant(h) ==
    LET g == clerk[h].id IN
    /\ At(h, "recalling")
    /\ grant' = [grant EXCEPT ![g] = "revoked"]
    /\ recalled' = [recalled EXCEPT ![g] = @ + 1]
    /\ Ends(h)
    /\ UNCHANGED <<locked, account, platform, member, invitation, founded, joined, crossing>>

\* A request is refused, its transaction rolled back, or its process dies.
Refuse(h) ==
    /\ ~At(h, "idle")
    /\ Ends(h)
    /\ UNCHANGED <<locked, account, platform, member, invitation, grant,
                   founded, joined, recalled, crossing>>

-----------------------------------------------------------------------------
TNext ==
    \/ \E p \in People : Register(p)
    \/ \E i \in Invitations :
        \/ RevokeInvitation(i)
        \/ \E p \in People, role \in Roles \ {"none"} : CreateInvitation(i, p, role)
    \/ \E g \in Grants : CreateAccessGrant(g)
    \/ \E h \in Clerks :
        \/ BeginBootstrap(h)
        \/ \E p \in People : Bootstrap(h, p)
        \/ \E i \in Invitations : BeginAccept(h, i)
        \/ AcceptInvitation(h)
        \/ \E p \in People :
            \/ RemoveMember(h, p)
            \/ \E role \in Roles : UpdateMemberRole(h, p, role)
        \/ WriteChange(h) \/ CommitChange(h)
        \/ \E g \in Grants : BeginRevoke(h, g)
        \/ RevokeAccessGrant(h)
        \/ Refuse(h)

TSpec == TInit /\ [][TNext]_tvars

-----------------------------------------------------------------------------
(* Properties *)

\* The platform is bootstrapped once, and an account is there only then; the
\* team keeps an owner; an invitation admits its person once, and not after it
\* was revoked; every member but the founder was admitted; a grant is revoked
\* once: all this unless the requests concerned overlapped (Bootstrap,
\* UpdateMemberRole, RemoveMember, AcceptInvitation, RevokeAccessGrant).
TeamsSound ==
    /\ (account # {}) = locked /\ (platform # {}) = locked
    /\ founded <= 1 \/ "founding" \in crossing
    /\ founded > 0 => Owners # {} \/ "owners" \in crossing
    /\ \A i \in Invitations \ crossing :
        /\ joined[i] <= 1
        /\ joined[i] = 1 => invitation[i].status \in {"accepted", "gone"}
        /\ invitation[i].status = "accepted" => joined[i] = 1
    /\ \A p \in People \ platform : member[p].role # "none" =>
        \E i \in Invitations : joined[i] > 0 /\ invitation[i].person = p
    /\ \A g \in Grants \ crossing : recalled[g] <= 1
=============================================================================
