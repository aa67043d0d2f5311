----------------------------- MODULE Workspace -----------------------------
(***************************************************************************)
(* The parts of the API that members use from day to day, and that signing *)
(* in, inviting and integrating need.  No handler of one of them writes a  *)
(* row on which a step of another depends in a way its properties tell     *)
(* apart; what they share is how they fail: two requests, or one request   *)
(* and an end of the process, between two statements.  So each of them is  *)
(* explored on its own; which one is chosen at the start.  Requests in     *)
(* progress are the same ones for all of them.                             *)
(***************************************************************************)
EXTENDS Naturals, Sequences, FiniteSets

CONSTANTS
    Handlers, Requesters,
    Objs, MaxVersion,
    CommentIds, LinkIds, Bodies, NoNote,
    Keys, Alerts, Origins, MaxRequests, MaxDeliveries, NoKey,
    Tokens, Prints, MaxEffects, NoToken,
    SessionIds, TokenIds, ResetIds, MaxPassword, Nil,
    Codes, Challenges, MaxFailed, MaxEnrolled, NoneOf,
    SecurityKeyIds, Ceremonies, MaxCount, NoCeremony,
    People, Invitations, Grants, Nobody,
    Texts, Titles, MaxTxs, Nothing,
    Contents, NoText,
    FileKeys

VARIABLES
    focus,
    object, desk, slips, loose,
    note, told, author, torn,
    key, entry, admitted, alert, handler, crossed,
    reserved, request, effects, heard, dropped,
    password, session, token, reset, browser, frayed, forked, opened, floor, resets, rushed,
    factor, code, challenge, recent, phone, redeemed, guesses, mingled, stray,
    slot, ceremony, credential, counter, tab, completed, accepted, clashed, unkeyed, cut,
    locked, account, platform, member, invitation, grant, clerk,
    founded, joined, recalled, crossing,
    document, versions, rowlock, editor, clock, surprises,
    source, index, job, excuse,
    s3, stored, rows, upload, linked, broken, storeless

O == INSTANCE Objects WITH Clients <- Handlers
N == INSTANCE Notes WITH Authors <- Handlers
I == INSTANCE Integrations
M == INSTANCE Idempotency
S == INSTANCE Sessions WITH Browsers <- Handlers
F == INSTANCE Mfa WITH Phones <- Handlers
K == INSTANCE SecurityKeys WITH Keys <- SecurityKeyIds, Tabs <- Handlers
T == INSTANCE Teams WITH Clerks <- Handlers
D == INSTANCE Documents WITH Editors <- Handlers
X == INSTANCE Knowledge WITH Texts <- Contents, Jobs <- Handlers
L == INSTANCE Files WITH Keys <- FileKeys, Servers <- Handlers

ASSUME WorkspaceAssumption ==
    /\ O!ObjectsAssumption /\ N!NotesAssumption
    /\ D!DocumentsAssumption /\ X!KnowledgeAssumption /\ L!FilesAssumption
    /\ S!SessionsAssumption /\ F!MfaAssumption /\ K!KeysAssumption /\ T!TeamsAssumption
    /\ I!IntegrationsAssumption /\ M!IdempotencyAssumption

objects == <<object, desk, slips, loose>>
notes == <<note, told, author, torn>>
integrations == <<key, entry, admitted, alert, handler, crossed>>
idempotency == <<reserved, request, effects, heard, dropped>>
sessions == <<password, session, token, reset, browser,
              frayed, forked, opened, floor, resets, rushed>>
mfa == <<factor, code, challenge, recent, phone, redeemed, guesses, mingled, stray>>
securityKeys == <<slot, ceremony, credential, counter, tab,
                  completed, accepted, clashed, unkeyed, cut>>
teams == <<locked, account, platform, member, invitation, grant, clerk,
           founded, joined, recalled, crossing>>
documents == <<document, versions, rowlock, editor, clock, surprises>>
knowledge == <<source, index, job, excuse>>
files == <<s3, stored, rows, upload, linked, broken, storeless>>

rowsOfMembers == <<objects, notes, documents, knowledge, files>>
rowsOfSignIn == <<sessions, mfa, securityKeys, teams>>
rowsOfRequests == <<integrations, idempotency>>

vars == <<focus, rowsOfMembers, rowsOfSignIn, rowsOfRequests>>

Components ==
    {"objects", "notes", "integrations", "idempotency", "sessions", "mfa",
     "security keys", "teams", "documents", "knowledge", "files"}

Init ==
    /\ focus \in Components
    /\ O!OInit /\ N!NInit /\ D!DInit /\ X!KnInit
    /\ S!SInit /\ F!FInit /\ K!KInit /\ T!TInit
    /\ I!IInit /\ M!MInit
    /\ L!LInit /\ (focus # "files" => s3)

-----------------------------------------------------------------------------
ObjectsNext ==
    /\ focus = "objects" /\ O!ONext
    /\ UNCHANGED <<focus, notes, documents, knowledge, files, rowsOfSignIn, rowsOfRequests>>

NotesNext ==
    /\ focus = "notes" /\ N!NNext
    /\ UNCHANGED <<focus, objects, documents, knowledge, files, rowsOfSignIn, rowsOfRequests>>

DocumentsNext ==
    /\ focus = "documents" /\ D!DNext
    /\ UNCHANGED <<focus, objects, notes, knowledge, files, rowsOfSignIn, rowsOfRequests>>

KnowledgeNext ==
    /\ focus = "knowledge" /\ X!KnNext
    /\ UNCHANGED <<focus, objects, notes, documents, files, rowsOfSignIn, rowsOfRequests>>

FilesNext ==
    /\ focus = "files" /\ L!LNext
    /\ UNCHANGED <<focus, objects, notes, documents, knowledge, rowsOfSignIn, rowsOfRequests>>

SessionsNext ==
    /\ focus = "sessions" /\ S!SNext
    /\ UNCHANGED <<focus, rowsOfMembers, mfa, securityKeys, teams, rowsOfRequests>>

MfaNext ==
    /\ focus = "mfa" /\ F!FNext
    /\ UNCHANGED <<focus, rowsOfMembers, sessions, securityKeys, teams, rowsOfRequests>>

SecurityKeysNext ==
    /\ focus = "security keys" /\ K!KNext
    /\ UNCHANGED <<focus, rowsOfMembers, sessions, mfa, teams, rowsOfRequests>>

TeamsNext ==
    /\ focus = "teams" /\ T!TNext
    /\ UNCHANGED <<focus, rowsOfMembers, sessions, mfa, securityKeys, rowsOfRequests>>

IntegrationsNext ==
    /\ focus = "integrations" /\ I!INext
    /\ UNCHANGED <<focus, rowsOfMembers, rowsOfSignIn, idempotency>>

IdempotencyNext ==
    /\ focus = "idempotency" /\ M!MNext
    /\ UNCHANGED <<focus, rowsOfMembers, rowsOfSignIn, integrations>>

Next ==
    \/ ObjectsNext \/ NotesNext \/ DocumentsNext \/ KnowledgeNext \/ FilesNext
    \/ SessionsNext \/ MfaNext \/ SecurityKeysNext \/ TeamsNext
    \/ IntegrationsNext \/ IdempotencyNext

Spec == Init /\ [][Next]_vars

-----------------------------------------------------------------------------
(* Properties: those of the components *)

\* Every row and every request is of its type.
TypeOK ==
    /\ O!OTypeOK /\ N!NTypeOK /\ D!DTypeOK /\ X!KnTypeOK /\ L!LTypeOK
    /\ S!STypeOK /\ F!FTypeOK /\ K!KTypeOK /\ T!TTypeOK
    /\ I!ITypeOK /\ M!MTypeOK

\* See Objects: no update lost where versions order them (UpdateObject).
ObjectsTracked == O!ObjectsTracked

\* See Notes: the last event tells the row's state (CreateComment, CreateLink).
NotesTold == N!NotesTold

\* See Documents: no save on top of an unseen one, and versions in order
\* (PatchDocument, RestoreVersion).
DocumentsSound == D!DocumentsSound

\* See Knowledge: an item out of date has a reason (IndexSource).
KnowledgeSound == X!KnowledgeSound

\* See Files: a row's file is in the store (Upload, Generate).
FilesSound == L!FilesSound

\* See Sessions: what ends a session ends its tokens (Refresh, ResetPassword).
SessionsSound == S!SessionsSound

\* See Mfa and SecurityKeys: each code and each ceremony serves once
\* (VerifyChallenge, AuthenticateFinish).
SecondFactorSound == F!MfaSound /\ K!KeysSound

\* See Teams: an owner in every team, an invitation used once (UpdateMemberRole,
\* AcceptInvitation).
TeamsSound == T!TeamsSound

\* See Integrations: one live key of a line, and the limiter's count (RotateKey,
\* ReceiveWebhook).
IntegrationsSound == I!IntegrationsSound

\* See Idempotency: a key's request works once (Idempotency's middleware).
CallsOnce == M!CallsOnce
=============================================================================
