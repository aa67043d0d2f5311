------------------------------- MODULE Notes -------------------------------
(***************************************************************************)
(* internal/domain: comments, entries of an incident's timeline (rows of   *)
(* object_comments too) and links between objects.  But for DeleteLink,    *)
(* their handlers write the row in one transaction and the event in a      *)
(* second one, whose error nobody looks at.                                *)
(*                                                                         *)
(* Whether the objects exist and what the caller's role permits is left to *)
(* chance: each request may be refused.                                    *)
(***************************************************************************)
EXTENDS Naturals, FiniteSets

CONSTANTS
    CommentIds, LinkIds,  \* ids of object_comments and of object_links
    Authors,              \* clients, each with one request at a time
    Bodies,               \* what a comment may say
    NoNote                \* no comment or link

NoteIds == CommentIds \cup LinkIds

\* What a link says does not change.
Linked == "linked"
Wordings(n) == IF n \in LinkIds THEN {Linked} ELSE Bodies

NotesAssumption ==
    /\ CommentIds \cap LinkIds = {}
    /\ NoNote \notin NoteIds
    /\ {Linked, "absent", "gone"} \cap Bodies = {}

VARIABLES
    note,    \* the text of each row, or that there is none (yet, any more)
    told,    \* what the last event about it said
    author,  \* what each client's request is about and does next
    torn     \* history: of these, an event was lost or overtaken

nvars == <<note, told, author, torn>>

Words == Bodies \cup {Linked, "absent", "gone"}

NTypeOK ==
    /\ note \in [NoteIds -> Words]
    /\ told \in [NoteIds -> Words]
    /\ author \in [Authors ->
            [step : {"idle", "updating", "deleting", "announcing"},
             note : NoteIds \cup {NoNote}, word : Words]]
    /\ torn \subseteq NoteIds

NoErrand == [step |-> "idle", note |-> NoNote, word |-> "absent"]

NInit ==
    /\ note = [n \in NoteIds |-> "absent"]
    /\ told = [n \in NoteIds |-> "absent"]
    /\ author = [c \in Authors |-> NoErrand]
    /\ torn = {}

At(c, step) == author[c].step = step
On(c) == author[c].note
Kept(n) == note[n] \in Wordings(n)

\* A request goes on about a note; two about one note may overtake each other.
Goes(c, step, n, word) ==
    /\ author' = [author EXCEPT ![c] = [step |-> step, note |-> n, word |-> word]]
    /\ torn' = IF \E z \in Authors \ {c} : On(z) = n THEN torn \cup {n} ELSE torn
Ends(c) == author' = [author EXCEPT ![c] = NoErrand]

-----------------------------------------------------------------------------
Creates(c, n, text) ==
    /\ At(c, "idle")
    /\ note[n] = "absent"
    /\ note' = [note EXCEPT ![n] = text]
    /\ Goes(c, "announcing", n, text)
    /\ UNCHANGED told

CreateComment(c, n, text) == n \in CommentIds /\ Creates(c, n, text)
AddTimeline(c, n, text) == CreateComment(c, n, text)
CreateLink(c, n) == n \in LinkIds /\ Creates(c, n, Linked)

\* The first SELECT of UpdateComment, DeleteComment and DeleteLink.
Begin(c, step, n) ==
    /\ At(c, "idle")
    /\ Kept(n)
    /\ step = "updating" => n \in CommentIds
    /\ Goes(c, step, n, note[n])
    /\ UNCHANGED <<note, told>>

\* The UPDATE; that no row matched is no error.
UpdateComment(c, text) ==
    LET n == On(c) IN
    /\ At(c, "updating")
    /\ note' = IF Kept(n) THEN [note EXCEPT ![n] = text] ELSE note
    /\ Goes(c, "announcing", n, text)
    /\ UNCHANGED told

\* The DELETE, likewise.
DeleteComment(c) ==
    LET n == On(c) IN
    /\ At(c, "deleting")
    /\ n \in CommentIds
    /\ note' = [note EXCEPT ![n] = "gone"]
    /\ Goes(c, "announcing", n, "gone")
    /\ UNCHANGED told

\* The DELETE and the event in one transaction.
DeleteLink(c) ==
    LET n == On(c) IN
    /\ At(c, "deleting")
    /\ n \in LinkIds
    /\ note' = [note EXCEPT ![n] = "gone"]
    /\ told' = [told EXCEPT ![n] = "gone"]
    /\ Ends(c)
    /\ UNCHANGED torn

\* Mutant: the event tells the row that was read first.
AnnounceRead(c) ==
    /\ At(c, "announcing")
    /\ told' = [told EXCEPT ![On(c)] = IF @ = "absent" THEN author[c].word ELSE @]
    /\ Ends(c)
    /\ UNCHANGED <<note, torn>>

\* The second transaction.
Announce(c) ==
    /\ At(c, "announcing")
    /\ told' = [told EXCEPT ![On(c)] = author[c].word]
    /\ Ends(c)
    /\ UNCHANGED <<note, torn>>

\* A request is refused or its process dies; the second transaction fails.
Abandon(c) ==
    /\ ~At(c, "idle")
    /\ torn' = IF At(c, "announcing") THEN torn \cup {On(c)} ELSE torn
    /\ Ends(c)
    /\ UNCHANGED <<note, told>>

NNext ==
    \E c \in Authors :
        \/ \E n \in NoteIds :
            \/ CreateLink(c, n)
            \/ \E text \in Bodies : CreateComment(c, n, text) \/ AddTimeline(c, n, text)
            \/ \E step \in {"updating", "deleting"} : Begin(c, step, n)
        \/ \E text \in Bodies : UpdateComment(c, text)
        \/ DeleteComment(c)
        \/ DeleteLink(c)
        \/ Announce(c)
        \/ Abandon(c)

NSpec == NInit /\ [][NNext]_nvars

-----------------------------------------------------------------------------
(* Properties *)

\* What the last event said of a comment or a link is what the row says,
\* unless a request has yet to announce its change, an event was lost, or two
\* requests about the row overlapped; only then is a row announced that does
\* not exist, or a deleted one never announced (CreateComment, UpdateComment,
\* DeleteComment, AddTimeline, CreateLink, DeleteLink).
NotesTold ==
    \A n \in NoteIds \ torn :
        told[n] = note[n] \/ \E c \in Authors : At(c, "announcing") /\ On(c) = n
=============================================================================
