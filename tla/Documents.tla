----------------------------- MODULE Documents -----------------------------
(***************************************************************************)
(* internal/artifact: one native document, its row of artifacts, its row   *)
(* of artifact_documents (the body) and its numbered versions.  A save     *)
(* checks the row, then takes the row locks by its UPDATEs, then numbers   *)
(* the version it adds; all that in one transaction, which sees what has   *)
(* committed when each statement begins.  A save takes artifacts first, a  *)
(* restoration the body first: two of them may wait for each other until   *)
(* the database ends one.                                                  *)
(*                                                                         *)
(* updated_at is the time at which the last writer's transaction began,    *)
(* which differs between transactions: here, their number.  The title      *)
(* stands for the description and the document type too.                   *)
(***************************************************************************)
EXTENDS Naturals, Sequences, FiniteSets

CONSTANTS
    Texts, Titles,  \* contents and titles
    Editors,        \* clients, each with one request at a time
    MaxTxs,         \* bound: how many transactions begin
    Nothing         \* no text, no editor

DocumentsAssumption ==
    /\ Titles # {} /\ MaxTxs \in Nat
    /\ Nothing \notin Texts \cup Titles \cup Editors

VARIABLES
    document,   \* the row of artifacts, and the body's text
    versions,   \* artifact_document_versions: texts by number
    rowlock,    \* who holds each row's lock
    editor,     \* what each client saw and its request does
    clock,      \* how many transactions have begun
    surprises   \* history: what no client would expect

dvars == <<document, versions, rowlock, editor, clock, surprises>>

Rows == {"artifact", "body"}
Statuses == {"draft", "published", "archived"}
Numbers == 1 .. MaxTxs

NoDocument == [status |-> "absent", title |-> CHOOSE t \in Titles : TRUE,
               text |-> Nothing, stamp |-> 0]
\* seen: updated_at at the last GetDocument; todo: the rows still to lock;
\* title: the title read; rename: the one asked for; beside: whether the
\* document was changed since this transaction looked at it.
Away == [step |-> "away", seen |-> 0, match |-> FALSE, todo |-> <<>>,
         title |-> NoDocument.title, rename |-> NoDocument.title,
         text |-> Nothing, number |-> 0, begun |-> 0, beside |-> FALSE]

DTypeOK ==
    /\ document \in [status : Statuses \cup {"absent"}, title : Titles,
                     text : Texts \cup {Nothing}, stamp : 0 .. MaxTxs]
    /\ versions \in [Numbers -> Texts \cup {Nothing}]
    /\ rowlock \in [Rows -> Editors \cup {Nothing}]
    /\ editor \in [Editors ->
            [step : {"away", "reading", "saving", "restoring"}, seen : 0 .. MaxTxs,
             match : BOOLEAN, todo : {<<>>, <<"artifact">>, <<"body">>,
                                      <<"artifact", "body">>, <<"body", "artifact">>},
             title : Titles, rename : Titles, text : Texts \cup {Nothing},
             number : 0 .. MaxTxs + 1, begun : 0 .. MaxTxs, beside : BOOLEAN]]
    /\ clock \in 0 .. MaxTxs
    /\ surprises \subseteq {"blind", "title", "archived", "number"}

DInit ==
    /\ document = NoDocument
    /\ versions = [n \in Numbers |-> Nothing]
    /\ rowlock = [r \in Rows |-> Nothing]
    /\ editor = [e \in Editors |-> Away]
    /\ clock = 0
    /\ surprises = {}

Exists == document.status # "absent"
InTx(e) == editor[e].step \in {"saving", "restoring"}
Begins == clock < MaxTxs /\ clock' = clock + 1

\* The others' transactions see that the document has changed; e is done.
Changed(e) ==
    editor' = [z \in Editors |->
        IF z = e THEN Away
        ELSE [editor[z] EXCEPT !.beside = @ \/ InTx(z)]]

Taken == {n \in Numbers : versions[n] # Nothing}
NextNumber == IF Taken = {} THEN 1 ELSE 1 + CHOOSE n \in Taken : \A k \in Taken : k <= n

-----------------------------------------------------------------------------
(* Creation: one transaction *)

\* Also InstantiateTemplate with a template that holds a document: the rows and
\* version 1.
CreateDocument(title, text, status) ==
    /\ ~Exists
    /\ Begins
    /\ document' = [status |-> status, title |-> title, text |-> text, stamp |-> clock + 1]
    /\ versions' = [versions EXCEPT ![1] = text]
    /\ UNCHANGED <<rowlock, editor, surprises>>

\* A draft, once a worker has answered.
GenerateDocument(title, text) == CreateDocument(title, text, "draft")

\* Create, and InstantiateTemplate with a template of markdown, for the type
\* 'document': a row of artifacts without a body.
CreateArtifact(title, status) ==
    /\ ~Exists
    /\ Begins
    /\ document' = [status |-> status, title |-> title, text |-> Nothing, stamp |-> clock + 1]
    /\ UNCHANGED <<versions, rowlock, editor, surprises>>

-----------------------------------------------------------------------------
(* One UPDATE of the row of artifacts: Patch and Delete *)

\* Patch sets what it is given, the status among it, and Delete archives;
\* neither looks at the row first but for its existence.
Patch(title, status) ==
    /\ Exists
    /\ rowlock["artifact"] = Nothing
    /\ Begins
    /\ document' = [document EXCEPT !.title = title, !.status = status, !.stamp = clock + 1]
    /\ editor' = [e \in Editors |-> [editor[e] EXCEPT !.beside = @ \/ InTx(e)]]
    /\ UNCHANGED <<versions, rowlock, surprises>>

Delete == Patch(document.title, "archived")

-----------------------------------------------------------------------------
(* PatchDocument and RestoreVersion *)

\* GetDocument.
Open(e) ==
    /\ editor[e].step = "away"
    /\ Exists
    /\ editor' = [editor EXCEPT ![e].step = "reading", ![e].seen = document.stamp]
    /\ UNCHANGED <<document, versions, rowlock, clock, surprises>>

\* A save, with If-Match or without, of a title (that read, if none is given)
\* and perhaps of a text.
BeginSave(e, match, rename, text) ==
    /\ editor[e].step = "reading"
    /\ document.status \in {"draft", "published"}
    /\ match => editor[e].seen = document.stamp
    /\ Begins
    /\ editor' = [editor EXCEPT ![e] =
            [@ EXCEPT !.step = "saving", !.match = match, !.title = document.title,
                      !.rename = rename, !.text = text, !.begun = clock + 1,
                      !.todo = IF text = Nothing THEN <<"artifact">>
                               ELSE <<"artifact", "body">>]]
    /\ UNCHANGED <<document, versions, rowlock, surprises>>

\* The version is read before the transaction begins; it never changes.
BeginRestore(e, n) ==
    /\ editor[e].step = "reading"
    /\ versions[n] # Nothing
    /\ document.status \in {"draft", "published"}
    /\ Begins
    /\ editor' = [editor EXCEPT ![e] =
            [@ EXCEPT !.step = "restoring", !.text = versions[n], !.begun = clock + 1,
                      !.todo = <<"body", "artifact">>]]
    /\ UNCHANGED <<document, versions, rowlock, surprises>>

\* An UPDATE waits for the row's lock and keeps it.
Update(e) ==
    /\ InTx(e)
    /\ editor[e].todo # <<>>
    /\ rowlock[Head(editor[e].todo)] = Nothing
    /\ rowlock' = [rowlock EXCEPT ![Head(editor[e].todo)] = e]
    /\ editor' = [editor EXCEPT ![e].todo = Tail(@)]
    /\ UNCHANGED <<document, versions, clock, surprises>>

\* Mutant: the version is numbered before the rows are updated.
NumberEarly(e) ==
    /\ InTx(e)
    /\ editor[e].text # Nothing /\ editor[e].number = 0
    /\ editor' = [editor EXCEPT ![e].number = NextNumber]
    /\ UNCHANGED <<document, versions, rowlock, clock, surprises>>

\* createDocumentVersion: one more than the largest number.
Number(e) ==
    /\ InTx(e)
    /\ editor[e].todo = <<>>
    /\ editor[e].text # Nothing /\ editor[e].number = 0
    /\ editor' = [editor EXCEPT ![e].number = NextNumber]
    /\ UNCHANGED <<document, versions, rowlock, clock, surprises>>

Unlocked(e) == [r \in Rows |-> IF rowlock[r] = e THEN Nothing ELSE rowlock[r]]

\* What e's commit does that its client would not expect, though nobody
\* changed the document since e looked at it.
Surprise(e) ==
    IF editor[e].beside THEN {}
    ELSE (IF editor[e].match /\ document.stamp # editor[e].seen THEN {"blind"} ELSE {})
         \cup (IF document.status = "archived" THEN {"archived"} ELSE {})
         \cup (IF editor[e].step = "saving" /\ document.title # editor[e].title
               THEN {"title"} ELSE {})

\* The number is unique: if it was taken the transaction is refused, in
\* PatchDocument at its COMMIT since the error is ignored.
Commit(e) ==
    LET n == editor[e].number
        numbered == editor[e].text = Nothing \/ n # 0
        refused == n \in Taken IN
    /\ InTx(e)
    /\ editor[e].todo = <<>>
    /\ numbered
    /\ Exists /\ document.text # Nothing  \* the body is read for the answer
    /\ rowlock' = Unlocked(e)
    /\ IF refused
       THEN /\ surprises' = surprises \cup {"number"}
            /\ editor' = [editor EXCEPT ![e] = Away]
            /\ UNCHANGED <<document, versions>>
       ELSE /\ surprises' = surprises \cup Surprise(e)
            /\ Changed(e)
            /\ document' = [document EXCEPT
                    !.title = IF editor[e].step = "saving" THEN editor[e].rename ELSE @,
                    !.text = IF n = 0 THEN @ ELSE editor[e].text,
                    !.stamp = editor[e].begun]
            /\ versions' = IF n = 0 THEN versions ELSE [versions EXCEPT ![n] = editor[e].text]
    /\ UNCHANGED clock

\* A request is refused or fails, its client leaves, or the database ends one
\* of two transactions that wait for each other.
Abort(e) ==
    /\ editor[e].step # "away"
    /\ editor' = [editor EXCEPT ![e] = Away]
    /\ rowlock' = Unlocked(e)
    /\ UNCHANGED <<document, versions, clock, surprises>>

-----------------------------------------------------------------------------
EditorStep(e) ==
    \/ Open(e)
    \/ \E match \in BOOLEAN, text \in Texts \cup {Nothing} :
        \E rename \in Titles : BeginSave(e, match, rename, text)
    \/ \E n \in Numbers : BeginRestore(e, n)
    \/ Update(e)
    \/ Number(e)
    \/ Commit(e)
    \/ Abort(e)

DNext ==
    \/ \E title \in Titles, status \in Statuses :
        \/ \E text \in Texts : CreateDocument(title, text, status)
        \/ CreateArtifact(title, status)
        \/ Patch(title, status)
    \/ \E title \in Titles, text \in Texts : GenerateDocument(title, text)
    \/ Delete
    \/ \E e \in Editors : EditorStep(e)

DSpec == DInit /\ [][DNext]_dvars

-----------------------------------------------------------------------------
(* Properties *)

\* The versions of a document are numbered from 1 without a gap, the last one
\* is the text of its body, and no save or restoration is refused for the
\* number of its version, in whatever order two of them take the rows.  Unless
\* the document was changed after the request had looked at it, a save with
\* If-Match replaces what its client saw, no save undoes another title, and an
\* archived document keeps its text (PatchDocument, RestoreVersion).
DocumentsSound ==
    /\ surprises = {}
    /\ \A n \in Taken : n > 1 => n - 1 \in Taken
    /\ Exists => document.text =
        (IF Taken = {} THEN Nothing ELSE versions[NextNumber - 1])
=============================================================================
