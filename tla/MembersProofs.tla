--------------------------- MODULE MembersProofs ---------------------------
(***************************************************************************)
(* Proofs about the parts of Workspace that members use from day to day:   *)
(* comments and links, files, the knowledge index, objects, documents.  A  *)
(* step of Workspace is one of a single component, which leaves the        *)
(* variables of the others alone: so an invariant that the steps of a      *)
(* component keep holds in every behaviour of Workspace.                   *)
(***************************************************************************)
EXTENDS Workspace, FiniteSetTheorems, TLAPS

\* A step of Workspace is one of a component or leaves its variables alone.
LEMMA OneAtATime ==
    ASSUME [Next]_vars
    PROVE  /\ O!ONext \/ UNCHANGED objects
           /\ N!NNext \/ UNCHANGED notes
           /\ D!DNext \/ UNCHANGED documents
           /\ X!KnNext \/ UNCHANGED knowledge
           /\ L!LNext \/ UNCHANGED files
           /\ S!SNext \/ UNCHANGED sessions
           /\ F!FNext \/ UNCHANGED mfa
           /\ K!KNext \/ UNCHANGED securityKeys
           /\ T!TNext \/ UNCHANGED teams
           /\ I!INext \/ UNCHANGED integrations
<1> USE DEF rowsOfMembers, rowsOfSignIn, rowsOfRequests
<1>1. CASE Next
  <2> USE DEF ObjectsNext, NotesNext, DocumentsNext, KnowledgeNext, FilesNext,
        SessionsNext, MfaNext, SecurityKeysNext, TeamsNext, IntegrationsNext, IdempotencyNext
  <2>1. CASE ObjectsNext \/ NotesNext \/ DocumentsNext \/ KnowledgeNext \/ FilesNext
    BY <2>1
  <2>2. CASE SessionsNext \/ MfaNext \/ SecurityKeysNext \/ TeamsNext
    BY <2>2
  <2>3. CASE IntegrationsNext \/ IdempotencyNext
    BY <2>3
  <2> QED BY <1>1, <2>1, <2>2, <2>3 DEF Next
<1>2. CASE UNCHANGED vars
  BY <1>2 DEF vars
<1> QED BY <1>1, <1>2

-----------------------------------------------------------------------------
(* Comments and links *)

\* A request is about a row from its first step to its last.
NotesAbout ==
    \A c \in Handlers : IF N!At(c, "idle") THEN N!On(c) = NoNote ELSE N!On(c) \in N!NoteIds

\* Of a row that no two requests were about at once, and of which no event was
\* lost, the event that is due tells what the row says; without one the last
\* event does; and a row that is about to be updated is there.
NotesLast ==
    \A n \in N!NoteIds \ torn :
        /\ \A c, d \in Handlers : N!On(c) = n /\ N!On(d) = n => c = d
        /\ \A c \in Handlers : N!On(c) = n =>
            /\ N!At(c, "announcing") => author[c].word = note[n]
            /\ N!At(c, "updating") => N!Kept(n)
        /\ told[n] = note[n] \/ \E c \in Handlers : N!At(c, "announcing") /\ N!On(c) = n

NotesInv == N!NTypeOK /\ NotesAbout /\ NotesLast

\* A request that goes on about a row tears it if another one is about it; what
\* it writes first, its event will tell.
LEMMA NoteWritten ==
    ASSUME NotesInv, NEW c \in Handlers, NEW n \in N!NoteIds, NEW word \in N!Words,
           NEW step \in {"updating", "deleting", "announcing"},
           N!Goes(c, step, n, word),
           N!At(c, "idle") \/ N!On(c) = n,
           UNCHANGED told,
           note' \in [N!NoteIds -> N!Words],
           \A m \in N!NoteIds \ {n} : note'[m] = note[m],
           step = "announcing" /\ n \notin torn' => note'[n] = word,
           step = "updating" => N!Kept(n),
           step # "announcing" => N!At(c, "idle") /\ note' = note
    PROVE  NotesInv'
<1> USE DEF N!At, N!On
<1>1. N!NTypeOK /\ NotesAbout /\ NotesLast
  BY DEF NotesInv
<1>2. /\ author'[c].step = step /\ author'[c].note = n /\ author'[c].word = word
      /\ \A d \in Handlers \ {c} : author'[d] = author[d]
      /\ torn \subseteq torn' /\ torn' \subseteq torn \cup {n}
      /\ n \notin torn' => \A d \in Handlers \ {c} : author[d].note # n
  BY <1>1 DEF N!Goes, N!NTypeOK
<1>3. N!NTypeOK'
  BY <1>1 DEF N!Goes, N!NTypeOK
<1>4. NotesAbout'
  BY <1>1, <1>2 DEF NotesAbout
<1>5. ASSUME NEW m \in N!NoteIds \ torn'
      PROVE  /\ \A a, d \in Handlers : author'[a].note = m /\ author'[d].note = m => a = d
             /\ \A a \in Handlers : author'[a].note = m =>
                 /\ author'[a].step = "announcing" => author'[a].word = note'[m]
                 /\ author'[a].step = "updating" => note'[m] \in N!Wordings(m)
             /\ \/ told[m] = note'[m]
                \/ \E a \in Handlers : author'[a].step = "announcing" /\ author'[a].note = m
  <2>1. CASE m = n
    <3>1. \A d \in Handlers : author'[d].note = n => d = c
      BY <1>2, <1>5, <2>1
    <3>2. step = "updating" => note'[n] \in N!Wordings(n)
      BY DEF N!Kept
    <3>3. step # "announcing" => told[n] = note'[n]
      <4>1. SUFFICES ASSUME step # "announcing"
                     PROVE  told[n] = note[n]
        OBVIOUS
      <4>2. author[c].step = "idle" /\ author[c].note # n
        BY <1>1, <4>1, WorkspaceAssumption DEF NotesAbout, N!NotesAssumption
      <4>3. \A d \in Handlers : author[d].note # n
        BY <1>2, <1>5, <2>1, <4>2
      <4> QED BY <1>1, <1>2, <1>5, <2>1, <4>3 DEF NotesLast
    <3> QED BY <1>2, <1>5, <2>1, <3>1, <3>2, <3>3
  <2>2. CASE m # n
    <3>1. note'[m] = note[m] /\ m \notin torn
      BY <1>2, <1>5, <2>2
    <3>2. author[c].note # m
      BY <1>1, <2>2, WorkspaceAssumption DEF NotesAbout, N!NotesAssumption
    <3> QED BY <1>1, <1>2, <1>5, <2>2, <3>1, <3>2 DEF NotesLast, N!Kept
  <2> QED BY <2>1, <2>2
<1>6. NotesLast'
  BY <1>5 DEF NotesLast, N!Kept
<1> QED BY <1>3, <1>4, <1>6 DEF NotesInv

\* A request that ends leaves the event of its row sent, or the row torn.
LEMMA NoteLeft ==
    ASSUME NotesInv, NEW c \in Handlers, ~N!At(c, "idle"), N!Ends(c),
           note' \in [N!NoteIds -> N!Words], told' \in [N!NoteIds -> N!Words],
           \A m \in N!NoteIds \ {N!On(c)} : note'[m] = note[m] /\ told'[m] = told[m],
           torn \subseteq torn', torn' \subseteq N!NoteIds,
           N!On(c) \notin torn' => told'[N!On(c)] = note'[N!On(c)]
    PROVE  NotesInv'
<1> USE DEF N!At, N!On
<1>1. N!NTypeOK /\ NotesAbout /\ NotesLast
  BY DEF NotesInv
<1>2. PICK n \in N!NoteIds : n = author[c].note
  BY <1>1 DEF NotesAbout
<1>3. NoNote \notin N!NoteIds
  BY WorkspaceAssumption DEF N!NotesAssumption
<1>4. /\ author'[c].step = "idle" /\ author'[c].note = NoNote
      /\ \A d \in Handlers \ {c} : author'[d] = author[d]
  BY <1>1 DEF N!Ends, N!NoErrand, N!NTypeOK
<1>5. N!NTypeOK'
  BY <1>1 DEF N!Ends, N!NoErrand, N!NTypeOK, N!Words
<1>6. NotesAbout'
  BY <1>1, <1>4 DEF NotesAbout
<1>7. ASSUME NEW m \in N!NoteIds \ torn'
      PROVE  /\ \A a, d \in Handlers : author'[a].note = m /\ author'[d].note = m => a = d
             /\ \A a \in Handlers : author'[a].note = m =>
                 /\ author'[a].step = "announcing" => author'[a].word = note'[m]
                 /\ author'[a].step = "updating" => note'[m] \in N!Wordings(m)
             /\ \/ told'[m] = note'[m]
                \/ \E a \in Handlers : author'[a].step = "announcing" /\ author'[a].note = m
  <2>1. m \notin torn
    BY <1>7
  <2>2. CASE m = n
    <3>1. \A d \in Handlers : author'[d].note # n
      BY <1>1, <1>2, <1>3, <1>4, <2>1, <2>2 DEF NotesLast
    <3> QED BY <1>2, <1>7, <2>2, <3>1
  <2>3. CASE m # n
    <3>1. note'[m] = note[m] /\ told'[m] = told[m]
      BY <1>2, <2>3
    <3> QED BY <1>1, <1>2, <1>3, <1>4, <2>1, <2>3, <3>1 DEF NotesLast, N!Kept
  <2> QED BY <2>2, <2>3
<1>8. NotesLast'
  BY <1>7 DEF NotesLast, N!Kept
<1> QED BY <1>5, <1>6, <1>8 DEF NotesInv

\* Every step of the component keeps the invariant.
LEMMA NotesStep == NotesInv /\ N!NNext => NotesInv'
<1> SUFFICES ASSUME NotesInv, N!NNext
             PROVE  NotesInv'
  OBVIOUS
<1>1. N!NTypeOK /\ NotesAbout /\ NotesLast
  BY DEF NotesInv
<1> USE DEF N!At, N!On
<1>2. ASSUME NEW c \in Handlers, NEW n \in N!NoteIds, NEW text \in N!Words, N!Creates(c, n, text)
      PROVE  NotesInv'
  <2>1. /\ note' \in [N!NoteIds -> N!Words] /\ note'[n] = text
        /\ \A m \in N!NoteIds \ {n} : note'[m] = note[m]
    BY <1>1, <1>2 DEF N!Creates, N!NTypeOK
  <2> QED BY <1>2, <2>1, NoteWritten DEF N!Creates
<1>3. ASSUME NEW c \in Handlers, NEW n \in N!NoteIds, NEW step \in {"updating", "deleting"},
             N!Begin(c, step, n)
      PROVE  NotesInv'
  <2>1. note[n] \in N!Words /\ note \in [N!NoteIds -> N!Words]
    BY <1>1 DEF N!NTypeOK
  <2> QED BY <1>3, <2>1, NoteWritten DEF N!Begin
<1>4. ASSUME NEW c \in Handlers, NEW text \in Bodies, N!UpdateComment(c, text)
      PROVE  NotesInv'
  <2>1. PICK n \in N!NoteIds : n = author[c].note
    BY <1>1, <1>4 DEF NotesAbout, N!UpdateComment
  <2>2. /\ note' \in [N!NoteIds -> N!Words]
        /\ \A m \in N!NoteIds \ {n} : note'[m] = note[m]
        /\ N!Kept(n) => note'[n] = text
    BY <1>1, <1>4, <2>1 DEF N!UpdateComment, N!NTypeOK, N!Words
  <2>3. n \notin torn' => N!Kept(n)
    BY <1>1, <1>4, <2>1 DEF N!UpdateComment, N!Goes, NotesLast
  <2>4. N!Goes(c, "announcing", n, text) /\ UNCHANGED told
    BY <1>4, <2>1 DEF N!UpdateComment
  <2> QED BY <2>1, <2>2, <2>3, <2>4, NoteWritten DEF N!Words
<1>5. ASSUME NEW c \in Handlers, N!DeleteComment(c)
      PROVE  NotesInv'
  <2>1. PICK n \in N!NoteIds : n = author[c].note
    BY <1>1, <1>5 DEF NotesAbout, N!DeleteComment
  <2>2. /\ note' \in [N!NoteIds -> N!Words] /\ note'[n] = "gone"
        /\ \A m \in N!NoteIds \ {n} : note'[m] = note[m]
    BY <1>1, <1>5, <2>1 DEF N!DeleteComment, N!NTypeOK, N!Words
  <2>3. N!Goes(c, "announcing", n, "gone") /\ UNCHANGED told
    BY <1>5, <2>1 DEF N!DeleteComment
  <2> QED BY <2>1, <2>2, <2>3, NoteWritten DEF N!Words
<1>6. ASSUME NEW c \in Handlers, N!DeleteLink(c)
      PROVE  NotesInv'
  <2>1. /\ note' \in [N!NoteIds -> N!Words] /\ told' \in [N!NoteIds -> N!Words]
        /\ note'[author[c].note] = told'[author[c].note]
        /\ \A m \in N!NoteIds \ {author[c].note} : note'[m] = note[m] /\ told'[m] = told[m]
    BY <1>1, <1>6 DEF N!DeleteLink, N!NTypeOK, N!Words, N!NoteIds
  <2>2. torn' = torn /\ torn \subseteq N!NoteIds /\ ~N!At(c, "idle") /\ N!Ends(c)
    BY <1>1, <1>6 DEF N!DeleteLink, N!NTypeOK
  <2> QED BY <2>1, <2>2, NoteLeft
<1>7. ASSUME NEW c \in Handlers, N!Announce(c)
      PROVE  NotesInv'
  <2>1. PICK n \in N!NoteIds : n = author[c].note
    BY <1>1, <1>7 DEF NotesAbout, N!Announce
  <2>2. author[c].word \in N!Words
    BY <1>1 DEF N!NTypeOK
  <2>3. /\ note' = note /\ note \in [N!NoteIds -> N!Words] /\ told' \in [N!NoteIds -> N!Words]
        /\ told'[n] = author[c].word
        /\ \A m \in N!NoteIds \ {n} : told'[m] = told[m]
    BY <1>1, <1>7, <2>1, <2>2 DEF N!Announce, N!NTypeOK
  <2>4. torn' = torn /\ torn \subseteq N!NoteIds /\ ~N!At(c, "idle") /\ N!Ends(c)
    BY <1>1, <1>7 DEF N!Announce, N!NTypeOK
  <2>5. n \notin torn => author[c].word = note[n]
    BY <1>1, <1>7, <2>1 DEF N!Announce, NotesLast
  <2> QED BY <2>1, <2>3, <2>4, <2>5, NoteLeft
<1>8. ASSUME NEW c \in Handlers, N!Abandon(c)
      PROVE  NotesInv'
  <2>1. PICK n \in N!NoteIds : n = author[c].note
    BY <1>1, <1>8 DEF NotesAbout, N!Abandon
  <2>2. /\ note' = note /\ told' = told
        /\ note \in [N!NoteIds -> N!Words] /\ told \in [N!NoteIds -> N!Words]
        /\ ~N!At(c, "idle") /\ N!Ends(c)
        /\ torn \subseteq torn' /\ torn' \subseteq N!NoteIds
        /\ n \notin torn' => author[c].step # "announcing"
    BY <1>1, <1>8, <2>1 DEF N!Abandon, N!NTypeOK
  <2>3. n \notin torn' => told[n] = note[n]
    BY <1>1, <2>1, <2>2 DEF NotesLast
  <2> QED BY <2>1, <2>2, <2>3, NoteLeft
<1>9. CommentIds \subseteq N!NoteIds /\ LinkIds \subseteq N!NoteIds /\ Bodies \subseteq N!Words
        /\ N!Linked \in N!Words
  BY DEF N!NoteIds, N!Words
<1> QED
  BY <1>2, <1>3, <1>4, <1>5, <1>6, <1>7, <1>8, <1>9
     DEF N!NNext, N!CreateComment, N!AddTimeline, N!CreateLink

\* The last event about a comment or a link says what its row says (CreateComment,
\* UpdateComment, DeleteComment, CreateLink, DeleteLink), unless an event is due,
\* was lost or was overtaken.
THEOREM NotesAreTold == Spec => []NotesTold
<1>1. Init => NotesInv
  <2> SUFFICES ASSUME Init PROVE NotesInv
    OBVIOUS
  <2>1. N!NTypeOK
    BY DEF Init, N!NInit, N!NTypeOK, N!NoErrand, N!Words
  <2>2. NotesAbout
    BY DEF Init, N!NInit, NotesAbout, N!At, N!On, N!NoErrand
  <2>3. NotesLast
    BY WorkspaceAssumption
       DEF Init, N!NInit, NotesLast, N!At, N!On, N!NoErrand, N!NotesAssumption
  <2> QED BY <2>1, <2>2, <2>3 DEF NotesInv
<1>2. NotesInv /\ [Next]_vars => NotesInv'
  <2> SUFFICES ASSUME NotesInv, [Next]_vars PROVE NotesInv'
    OBVIOUS
  <2>1. CASE UNCHANGED notes
    BY <2>1 DEF notes, NotesInv, N!NTypeOK, NotesAbout, NotesLast, N!At, N!On, N!Kept
  <2> QED BY <2>1, OneAtATime, NotesStep
<1>3. NotesInv => NotesTold
  BY DEF NotesInv, NotesLast, NotesTold, N!NotesTold
<1> QED BY <1>1, <1>2, <1>3, PTL DEF Spec

-----------------------------------------------------------------------------
(* Files in the object store *)

\* A request has a key from when the file is named; once the file was stored, or
\* an attachment was taken without a store, its key says so.
UploadsNamed ==
    \A h \in Handlers :
        /\ upload[h].step \in {"idle", "generating", "downloading"} => upload[h].key = NoKey
        /\ upload[h].step \in {"storing", "stored"} => upload[h].key \in FileKeys
        /\ L!At(h, "stored") =>
            \/ upload[h].key \in stored
            \/ upload[h].key \in storeless /\ upload[h].kind = "attachment"

FilesInv == L!LTypeOK /\ UploadsNamed /\ FilesSound

\* Every step of the component keeps the invariant.
LEMMA FilesStep == FilesInv /\ L!LNext => FilesInv'
<1> SUFFICES ASSUME FilesInv, L!LNext
             PROVE  FilesInv'
  OBVIOUS
<1> USE DEF L!At, FilesSound, L!FilesSound
<1>1. L!LTypeOK /\ UploadsNamed /\ FilesSound
  BY DEF FilesInv
<1>2. NoKey \notin FileKeys
  BY WorkspaceAssumption DEF L!FilesAssumption
<1>3. ASSUME NEW h \in Handlers, L!Generate(h) \/ L!DownloadFile(h)
      PROVE  FilesInv'
  <2>1. /\ UNCHANGED <<s3, stored, rows, linked, broken, storeless>>
        /\ upload[h].step \in {"idle", "generating"}
        /\ upload'[h].step \in {"generating", "downloading"} /\ upload'[h].key = NoKey
        /\ \A z \in Handlers \ {h} : upload'[z] = upload[z]
    <3>1. CASE L!Generate(h)
      BY <1>1, <3>1 DEF L!Generate, L!Free, L!LTypeOK
    <3>2. CASE L!DownloadFile(h)
      BY <1>1, <3>2 DEF L!DownloadFile, L!LTypeOK, UploadsNamed
    <3> QED BY <1>3, <3>1, <3>2
  <2>2. L!LTypeOK'
    <3>1. CASE L!Generate(h)
      BY <1>1, <3>1 DEF L!Generate, L!Free, L!LTypeOK
    <3>2. CASE L!DownloadFile(h)
      BY <1>1, <3>2 DEF L!DownloadFile, L!LTypeOK
    <3> QED BY <1>3, <3>1, <3>2
  <2>3. UploadsNamed'
    BY <1>1, <2>1 DEF UploadsNamed
  <2>4. FilesSound'
    BY <1>1, <1>2, <2>1 DEF UploadsNamed, L!LTypeOK
  <2> QED BY <2>2, <2>3, <2>4 DEF FilesInv
<1>4. ASSUME NEW h \in Handlers, NEW k \in FileKeys, L!Name(h, k) \/ L!Upload(h, k)
      PROVE  FilesInv'
  <2>1. /\ UNCHANGED <<s3, stored, rows, linked, broken>>
        /\ storeless \subseteq storeless' /\ storeless' \subseteq FileKeys
        /\ upload[h].step \in {"idle", "downloading"}
        /\ upload'[h].step \in {"storing", "stored"} /\ upload'[h].key = k
        /\ upload'[h].step = "stored" => k \in storeless' /\ upload'[h].kind = "attachment"
        /\ \A z \in Handlers \ {h} : upload'[z] = upload[z]
    BY <1>1, <1>4 DEF L!Name, L!Upload, L!LTypeOK
  <2>2. upload' \in [Handlers ->
            [step : {"idle", "generating", "downloading", "storing", "stored"},
             kind : {"attachment", "presentation"}, key : FileKeys \cup {NoKey}]]
    BY <1>1, <1>4 DEF L!Name, L!Upload, L!LTypeOK
  <2>3. L!LTypeOK'
    BY <1>1, <2>1, <2>2 DEF L!LTypeOK
  <2>4. UploadsNamed'
    BY <1>1, <2>1 DEF UploadsNamed
  <2>5. FilesSound'
    BY <1>1, <1>2, <2>1 DEF UploadsNamed, L!LTypeOK
  <2> QED BY <2>3, <2>4, <2>5 DEF FilesInv
<1>5. ASSUME NEW h \in Handlers, L!PutObject(h)
      PROVE  FilesInv'
  <2>1. /\ UNCHANGED <<s3, rows, linked, broken, storeless>>
        /\ upload[h].key \in FileKeys /\ stored' = stored \cup {upload[h].key}
        /\ upload'[h].step = "stored" /\ upload'[h].key = upload[h].key
        /\ \A z \in Handlers \ {h} : upload'[z] = upload[z]
    BY <1>1, <1>5 DEF L!PutObject, L!LTypeOK, UploadsNamed
  <2>2. L!LTypeOK'
    BY <1>1, <1>5, <2>1 DEF L!PutObject, L!LTypeOK
  <2>3. UploadsNamed'
    BY <1>1, <2>1 DEF UploadsNamed
  <2>4. FilesSound'
    BY <1>1, <2>1
  <2> QED BY <2>2, <2>3, <2>4 DEF FilesInv
<1>6. ASSUME NEW h \in Handlers, L!Record(h)
      PROVE  FilesInv'
  <2>1. PICK k \in FileKeys : k = upload[h].key
    BY <1>1, <1>6 DEF L!Record, UploadsNamed
  <2>2. /\ UNCHANGED <<s3, stored, linked, broken, storeless>>
        /\ rows'[k] = upload[h].kind
        /\ \A z \in FileKeys \ {k} : rows'[z] = rows[z]
        /\ upload'[h].step = "idle" /\ upload'[h].key = NoKey
        /\ \A z \in Handlers \ {h} : upload'[z] = upload[z]
        /\ upload[h].kind \in {"attachment", "presentation"}
        /\ k \in stored \/ (k \in storeless /\ upload[h].kind = "attachment")
    BY <1>1, <1>6, <2>1 DEF L!Record, L!Free, L!LTypeOK, UploadsNamed
  <2>3. L!LTypeOK'
    BY <1>1, <1>6, <2>1 DEF L!Record, L!Free, L!LTypeOK
  <2>4. UploadsNamed'
    BY <1>1, <2>2 DEF UploadsNamed
  <2>5. FilesSound'
    BY <1>1, <2>1, <2>2 DEF L!LTypeOK
  <2> QED BY <2>3, <2>4, <2>5 DEF FilesInv
<1>7. ASSUME NEW h \in Handlers, L!Fail(h)
      PROVE  FilesInv'
  <2>1. /\ UNCHANGED <<s3, rows, linked, storeless>>
        /\ stored \subseteq stored' /\ stored' \subseteq stored \cup {upload[h].key}
        /\ stored' # stored => upload[h].key \in FileKeys
        /\ broken' = broken \cup ({upload[h].key} \ {NoKey})
        /\ upload'[h].step = "idle" /\ upload'[h].key = NoKey
        /\ \A z \in Handlers \ {h} : upload'[z] = upload[z]
    BY <1>1, <1>7 DEF L!Fail, L!Free, L!LTypeOK, UploadsNamed
  <2>2. L!LTypeOK'
    BY <1>1, <1>7, <2>1 DEF L!Fail, L!Free, L!LTypeOK
  <2>3. UploadsNamed'
    BY <1>1, <2>1 DEF UploadsNamed
  <2>4. FilesSound'
    BY <1>1, <1>2, <2>1, <2>2 DEF L!LTypeOK
  <2> QED BY <2>2, <2>3, <2>4 DEF FilesInv
<1>8. CASE L!Restart \/ \E k \in FileKeys : L!Link(k)
  <2>1. /\ UNCHANGED <<stored, rows, upload, broken, storeless>>
        /\ s3' \in BOOLEAN
        /\ \A k \in linked' : k \in linked \/ (k \in FileKeys /\ rows[k] # "none")
    BY <1>1, <1>8 DEF L!Restart, L!Link, L!LTypeOK
  <2> QED BY <1>1, <2>1 DEF FilesInv, L!LTypeOK, UploadsNamed
<1> QED BY <1>3, <1>4, <1>5, <1>6, <1>7, <1>8 DEF L!LNext

\* A row names a file that is in the store, or an attachment that was taken
\* without one; and a file without rows has a request that failed, or has yet to
\* write them (Upload, Generate, Download).
THEOREM FilesAreSound == Spec => []FilesSound
<1>1. Init => FilesInv
  BY DEF Init, L!LInit, L!Free, FilesInv, L!LTypeOK, UploadsNamed, L!At, FilesSound, L!FilesSound
<1>2. FilesInv /\ [Next]_vars => FilesInv'
  <2> SUFFICES ASSUME FilesInv, [Next]_vars PROVE FilesInv'
    OBVIOUS
  <2>1. CASE UNCHANGED files
    BY <2>1 DEF files, FilesInv, L!LTypeOK, UploadsNamed, L!At, FilesSound, L!FilesSound
  <2> QED BY <2>1, OneAtATime, FilesStep
<1>3. FilesInv => FilesSound
  BY DEF FilesInv
<1> QED BY <1>1, <1>2, <1>3, PTL DEF Spec

-----------------------------------------------------------------------------
(* The index of an artifact *)

\* The jobs of a source type that have yet to read the artifact, and those that
\* have read it.
Asked(type) == {j \in X!AtWork(type) : job[j].step = "asked"}
Read(type) == X!AtWork(type) \ Asked(type)

\* What is in the index, or will be, is what the artifact says.
Follows(type) ==
    /\ \A j \in Read(type) : job[j].text = source.text
    /\ index[type] = source.text \/ Read(type) # {}

\* Without an excuse, an artifact that is indexed under a source type is up to
\* date there, or a job has yet to read it.
IndexFollows ==
    \A type \in X!Extracted(source.kind) :
        source.live /\ excuse[type] = {} => Asked(type) # {} \/ Follows(type)

KnowledgeInv == X!KnTypeOK /\ IndexFollows

\* A job that was started is at its first step; the others are as they were.
LEMMA JobFired ==
    ASSUME X!KnTypeOK, NEW type \in X!SourceTypes, X!Fires(type)
    PROVE  \E j \in Handlers :
            /\ job[j].step = "idle"
            /\ job'[j].step = "asked" /\ job'[j].type = type
            /\ \A k \in Handlers \ {j} : job'[k] = job[k]
            /\ job' \in [Handlers -> [step : {"idle", "asked", "extracted", "differs"},
                                     type : X!SourceTypes, text : Contents \cup {NoText}]]
<1>1. PICK j \in Handlers :
        /\ job[j].step = "idle"
        /\ job' = [job EXCEPT ![j] = [X!Idle EXCEPT !.step = "asked", !.type = type]]
  BY DEF X!Fires
<1> DEFINE States == [step : {"idle", "asked", "extracted", "differs"},
                      type : X!SourceTypes, text : Contents \cup {NoText}]
           new == [X!Idle EXCEPT !.step = "asked", !.type = type]
<1>2. X!Idle \in States
  BY DEF X!Idle, X!SourceTypes
<1>3. new \in States /\ new.step = "asked" /\ new.type = type
  BY <1>2
<1>4. job \in [Handlers -> States] /\ job' = [job EXCEPT ![j] = new]
  BY <1>1 DEF X!KnTypeOK
<1> HIDE DEF States, new
<1>5. job'[j] = new /\ (\A k \in Handlers \ {j} : job'[k] = job[k]) /\ job' \in [Handlers -> States]
  BY <1>3, <1>4
<1> QED BY <1>1, <1>3, <1>5 DEF States

\* After a mutation of the artifact each item of it has an excuse, or a new job.
LEMMA MutationKeeps ==
    ASSUME KnowledgeInv, NEW types \in SUBSET X!SourceTypes,
           NEW new \in [kind : X!Kinds, text : Contents, live : BOOLEAN],
           X!Behind(new, types),
           \/ types = {} /\ UNCHANGED job
           \/ \E type \in X!SourceTypes : types = {type} /\ X!Fires(type)
    PROVE  KnowledgeInv'
<1>1. X!KnTypeOK
  BY DEF KnowledgeInv
<1>2. job' \in [Handlers -> [step : {"idle", "asked", "extracted", "differs"},
                             type : X!SourceTypes, text : Contents \cup {NoText}]]
  BY <1>1, JobFired DEF X!KnTypeOK
<1>3. X!KnTypeOK'
  BY <1>1, <1>2 DEF X!KnTypeOK, X!Behind
<1>4. ASSUME NEW type \in X!SourceTypes, type \in types
      PROVE  Asked(type)' # {}
  <2>1. X!Fires(type)
    BY <1>4
  <2>2. \E j \in Handlers : job'[j].step = "asked" /\ job'[j].type = type
    BY <1>1, <2>1, JobFired
  <2> QED BY <2>2 DEF Asked, X!AtWork
<1>5. X!Extracted(new.kind) \subseteq X!SourceTypes
  BY DEF X!Extracted, X!SourceTypes
<1>6. \A type \in X!Extracted(new.kind) \ types : excuse'[type] # {}
  BY <1>5 DEF X!Behind
<1>7. source' = new
  BY DEF X!Behind
<1>8. IndexFollows'
  BY <1>4, <1>5, <1>6, <1>7 DEF IndexFollows
<1> QED BY <1>3, <1>8 DEF KnowledgeInv

\* Every step of the component keeps the invariant.
LEMMA KnowledgeStep == KnowledgeInv /\ X!KnNext => KnowledgeInv'
<1> SUFFICES ASSUME KnowledgeInv, X!KnNext
             PROVE  KnowledgeInv'
  OBVIOUS
<1>1. X!KnTypeOK /\ IndexFollows
  BY DEF KnowledgeInv
<1>2. X!Extracted(source.kind) \subseteq X!SourceTypes
  BY DEF X!Extracted, X!SourceTypes
<1>3. ASSUME NEW text \in Contents, NEW live \in BOOLEAN, NEW kind \in X!Kinds,
             X!Create(kind, text, live)
      PROVE  KnowledgeInv'
  BY <1>3, MutationKeeps DEF X!Create, X!SourceTypes
<1>4. ASSUME NEW text \in Contents, NEW live \in BOOLEAN, X!InstantiateDocument(text, live)
      PROVE  KnowledgeInv'
  BY <1>4, MutationKeeps DEF X!InstantiateDocument, X!Kinds
<1>5. ASSUME NEW text \in Contents, X!PatchDocument(text) \/ X!RestoreVersion(text)
      PROVE  KnowledgeInv'
  <2>1. [source EXCEPT !.text = text] \in [kind : X!Kinds, text : Contents, live : BOOLEAN]
    BY <1>1, <1>5 DEF X!KnTypeOK, X!PatchDocument, X!RestoreVersion, X!Kinds
  <2> QED BY <1>5, <2>1, MutationKeeps DEF X!PatchDocument, X!RestoreVersion, X!SourceTypes
<1>6. ASSUME NEW text \in Contents, NEW live \in BOOLEAN,
             X!PatchMeetingSummary(text, live) \/ X!Patch(text, live)
      PROVE  KnowledgeInv'
  <2>1. [source EXCEPT !.text = text, !.live = live] \in
            [kind : X!Kinds, text : Contents, live : BOOLEAN]
    BY <1>1, <1>6 DEF X!KnTypeOK, X!PatchMeetingSummary, X!Patch, X!Exists, X!Kinds
  <2> QED BY <1>6, <2>1, MutationKeeps DEF X!PatchMeetingSummary, X!Patch, X!SourceTypes
<1>7. CASE X!Delete
  <2>1. source' \in [kind : X!Kinds \cup {"absent"}, text : Contents, live : BOOLEAN]
        /\ ~source'.live /\ UNCHANGED <<index, job, excuse>>
    BY <1>1, <1>7 DEF X!Delete, X!KnTypeOK
  <2> QED BY <1>1, <2>1 DEF KnowledgeInv, X!KnTypeOK, IndexFollows
<1>8. ASSUME NEW type \in X!SourceTypes, X!Reindex(type)
      PROVE  KnowledgeInv'
  <2>1. PICK j \in Handlers :
            /\ job[j].step = "idle"
            /\ job'[j].step = "asked" /\ job'[j].type = type
            /\ \A k \in Handlers \ {j} : job'[k] = job[k]
            /\ job' \in [Handlers -> [step : {"idle", "asked", "extracted", "differs"},
                                     type : X!SourceTypes, text : Contents \cup {NoText}]]
    BY <1>1, <1>8, JobFired DEF X!Reindex
  <2>3. X!KnTypeOK'
    BY <1>1, <1>8, <2>1 DEF X!KnTypeOK, X!Reindex
  <2>4. \A t \in X!SourceTypes : Asked(t) \subseteq Asked(t)' /\ Read(t)' = Read(t)
    BY <2>1 DEF Asked, Read, X!AtWork
  <2>5. \A t \in X!SourceTypes : \A k \in Read(t) : job'[k] = job[k]
    BY <2>1 DEF Asked, Read, X!AtWork
  <2>6. \A t \in X!SourceTypes : Follows(t) => Follows(t)'
    BY <1>8, <2>4, <2>5 DEF Follows, X!Reindex
  <2> QED BY <1>1, <1>2, <1>8, <2>3, <2>4, <2>6 DEF KnowledgeInv, IndexFollows, X!Reindex
<1>9. ASSUME NEW j \in Handlers, X!Extract(j) \/ X!Compare(j) \/ X!Upsert(j) \/ X!Lose(j)
      PROVE  KnowledgeInv'
  <2>1. PICK type \in X!SourceTypes : type = job[j].type
    BY <1>1 DEF X!KnTypeOK
  <2>2. X!KnTypeOK'
    BY <1>1, <1>9 DEF X!KnTypeOK, X!Extract, X!Compare, X!Upsert, X!Lose, X!Idle, X!SourceTypes
  <2>3. /\ source' = source
        /\ \A k \in Handlers \ {j} : job'[k] = job[k]
        /\ job'[j].step # "idle" => job'[j].type = type
        /\ job[j].step # "idle"
        /\ \A t \in X!SourceTypes \ {type} : index'[t] = index[t] /\ excuse'[t] = excuse[t]
    BY <1>1, <1>9, <2>1 DEF X!KnTypeOK, X!Extract, X!Compare, X!Upsert, X!Lose, X!Idle
  <2>4. ASSUME NEW t \in X!SourceTypes \ {type}
        PROVE  Asked(t)' = Asked(t) /\ (Follows(t) <=> Follows(t)')
    <3>1. \A k \in X!AtWork(t) : k # j
      BY <2>1 DEF X!AtWork
    <3>2. X!AtWork(t)' = X!AtWork(t) /\ \A k \in X!AtWork(t) : job'[k] = job[k]
      BY <2>3, <3>1 DEF X!AtWork
    <3>3. Asked(t)' = Asked(t) /\ Read(t)' = Read(t) /\ Read(t) \subseteq X!AtWork(t)
      BY <3>2 DEF Asked, Read
    <3> QED BY <2>3, <3>2, <3>3 DEF Follows
  <2>5. ASSUME type \in X!Extracted(source.kind), source.live, excuse'[type] = {}
        PROVE  Asked(type)' # {} \/ Follows(type)'
    <3>1. ASSUME job[j].step # "asked", job'[j].step \in {"idle", "differs"},
                 excuse[type] = {},
                 index'[type] = (IF job'[j].step = "idle" THEN job[j].text ELSE index[type]),
                 job'[j].step = "differs" => job'[j].text = job[j].text
          PROVE  Asked(type)' # {} \/ Follows(type)'
      <4>1. Asked(type)' = Asked(type)
        BY <2>1, <2>3, <3>1 DEF Asked, X!AtWork
      <4>2. Read(type)' = IF job'[j].step = "idle" THEN Read(type) \ {j} ELSE Read(type)
        BY <2>1, <2>3, <3>1, <4>1 DEF Asked, Read, X!AtWork
      <4>3. j \in Read(type) /\ Read(type) \subseteq Handlers
        BY <2>1, <2>3, <3>1 DEF Asked, Read, X!AtWork
      <4>4. Follows(type) => Follows(type)'
        BY <2>3, <3>1, <4>2, <4>3 DEF Follows
      <4> QED BY <1>1, <2>5, <3>1, <4>1, <4>4 DEF IndexFollows
    <3>2. CASE X!Extract(j)
      <4>1. /\ job'[j].step = "extracted" /\ job'[j].text = source.text /\ job'[j].type = type
            /\ {k \in X!AtWork(type) \ {j} : job[k].step # "asked"} = {}
        <5> DEFINE others == {k \in X!AtWork(type) \ {j} : job[k].step # "asked"}
        <5>1. /\ job' = [job EXCEPT ![j].step = "extracted", ![j].text = source.text]
              /\ excuse' = [excuse EXCEPT ![type] = IF others = {} THEN {} ELSE {"overlap"}]
          BY <2>1, <2>5, <3>2 DEF X!Extract
        <5>2. excuse'[type] = IF others = {} THEN {} ELSE {"overlap"}
          BY <1>1, <5>1 DEF X!KnTypeOK
        <5>3. others = {}
          BY <2>5, <5>2
        <5> HIDE DEF others
        <5>4. /\ job'[j].step = "extracted" /\ job'[j].text = source.text
              /\ job'[j].type = type
          BY <1>1, <2>1, <5>1 DEF X!KnTypeOK
        <5> QED BY <5>3, <5>4 DEF others
      <4>2. \A k \in Read(type)' : k = j
        BY <2>3, <4>1 DEF Asked, Read, X!AtWork
      <4>3. j \in Read(type)'
        BY <4>1 DEF Asked, Read, X!AtWork
      <4> QED BY <2>3, <4>1, <4>2, <4>3 DEF Follows
    <3>3. CASE X!Compare(j)
      BY <1>1, <2>1, <2>5, <3>1, <3>3 DEF X!Compare, X!KnTypeOK, X!Idle
    <3>4. CASE X!Upsert(j)
      BY <1>1, <2>1, <2>5, <3>1, <3>4 DEF X!Upsert, X!KnTypeOK, X!Idle
    <3>5. CASE X!Lose(j)
      BY <1>1, <2>1, <2>5, <3>5 DEF X!Lose, X!KnTypeOK
    <3> QED BY <1>9, <3>2, <3>3, <3>4, <3>5
  <2>6. IndexFollows'
    BY <1>1, <1>2, <2>3, <2>4, <2>5 DEF IndexFollows
  <2> QED BY <2>2, <2>6 DEF KnowledgeInv
<1> QED
  BY <1>3, <1>4, <1>5, <1>6, <1>7, <1>8, <1>9 DEF X!KnNext

\* An artifact is indexed with the text it has, unless a job is at work or
\* there is an excuse (IndexSource, fireIndexHook).
THEOREM KnowledgeIsSound == Spec => []KnowledgeSound
<1>1. Init => KnowledgeInv
  <2> SUFFICES ASSUME Init PROVE KnowledgeInv
    OBVIOUS
  <2>1. Contents # {}
    BY WorkspaceAssumption DEF X!KnowledgeAssumption
  <2>2. X!KnTypeOK
    BY <2>1 DEF Init, X!KnInit, X!KnTypeOK, X!Idle, X!SourceTypes
  <2>3. IndexFollows
    BY DEF Init, X!KnInit, IndexFollows
  <2> QED BY <2>2, <2>3 DEF KnowledgeInv
<1>2. KnowledgeInv /\ [Next]_vars => KnowledgeInv'
  <2> SUFFICES ASSUME KnowledgeInv, [Next]_vars PROVE KnowledgeInv'
    OBVIOUS
  <2>1. CASE UNCHANGED knowledge
    BY <2>1 DEF knowledge, KnowledgeInv, X!KnTypeOK, IndexFollows, Asked, Read, Follows, X!AtWork
  <2> QED BY <2>1, OneAtATime, KnowledgeStep
<1>3. KnowledgeInv => KnowledgeSound
  BY DEF KnowledgeInv, X!KnTypeOK, IndexFollows, Follows, Asked, Read, KnowledgeSound, X!KnowledgeSound
<1> QED BY <1>1, <1>2, <1>3, PTL DEF Spec

-----------------------------------------------------------------------------
(* Objects, work items, incidents and projects *)

\* What a client saw of a row r, and what its request read, is still so as long
\* as the version is, except for a severity that somebody changed alone; a row
\* that was deleted before a request could delete it excuses that request.
UpToDate(d, r, excused) ==
    /\ d.step \in {"seen", "begun", "known", "checked"} =>
        /\ d.version <= r.version
        /\ d.version = r.version =>
            /\ "status" \notin d.unseen
            /\ "severity" \in d.unseen => "severity" \in excused
            /\ d.step # "seen" => d.status = r.status
            /\ d.step \in {"known", "checked"} =>
                d.severity = r.severity \/ "severity" \in excused
    /\ d.step = "deleting" /\ r.deleted => "deletion" \in excused

ObjectsSeen ==
    \A c \in Handlers : UpToDate(desk[c], object[desk[c].about], loose[desk[c].about])

\* An incident is created open.
RowsBeginOpen == \A o \in Objs : object[o].kind = "absent" => object[o].status = "open"

ObjectsInv == O!OTypeOK /\ ObjectsSeen /\ RowsBeginOpen /\ ObjectsTracked

\* A change of some parts of the row of a request keeps the invariant when it
\* moves the version, or is excused, and replaces nothing that the client had
\* not seen without an excuse.
LEMMA ChangeKeeps ==
    ASSUME ObjectsInv, NEW c \in Handlers, NEW o \in Objs, o = desk[c].about,
           NEW parts \in SUBSET {"status", "severity"}, NEW false \in SUBSET parts,
           O!Changes(c, parts, false),
           object' \in [Objs -> O!Rows],
           \A x \in Objs \ {o} : object'[x] = object[x],
           object'[o].kind = object[o].kind, object'[o].deleted = object[o].deleted,
           loose' \in [Objs -> SUBSET {"severity", "deletion", "status"}],
           \A x \in Objs : loose[x] \subseteq loose'[x],
           \/ object'[o].version = object[o].version + 1
           \/ /\ parts = {"severity"} /\ object'[o].version = object[o].version
              /\ "severity" \in loose'[o]
              /\ object'[o].status = object[o].status
              /\ object'[o].resolved = object[o].resolved,
           \A p \in (parts \cap desk[c].unseen) \cup false : p # "status" /\ p \in loose'[o],
           object[o].deleted => parts = {"severity"} /\ "severity" \in loose'[o],
           object[o].kind = "absent" => object'[o].status = "open",
           /\ object[o].kind = "incident" /\ object'[o].status = "resolved"
           => object'[o].resolved \/ "status" \in loose'[o]
    PROVE  ObjectsInv'
<1> USE DEF O!At, O!About
<1>1. O!OTypeOK /\ ObjectsSeen /\ RowsBeginOpen /\ ObjectsTracked
  BY DEF ObjectsInv
<1>2. desk \in [Handlers -> O!Desks] /\ slips \in [Objs -> SUBSET O!Slips]
  BY <1>1 DEF O!OTypeOK
<1>3. /\ desk'[c] = O!Away(o)
      /\ \A z \in Handlers \ {c} :
            desk'[z] = IF desk[z].step # "away" /\ desk[z].about = o
                       THEN [desk[z] EXCEPT !.unseen = desk[z].unseen \cup parts]
                       ELSE desk[z]
  BY DEF O!Changes
<1>4. \A z \in Handlers : desk'[z] \in O!Desks
  <2>1. O!Away(o) \in O!Desks
    BY WorkspaceAssumption DEF O!Away, O!Desks, O!ObjectsAssumption, O!Statuses, O!Severities
  <2>2. ASSUME NEW d \in O!Desks
        PROVE  [d EXCEPT !.unseen = d.unseen \cup parts] \in O!Desks
    <3>1. d.unseen \cup parts \in SUBSET {"status", "severity"}
      BY DEF O!Desks
    <3> QED BY <3>1 DEF O!Desks
  <2>3. ASSUME NEW z \in Handlers PROVE desk'[z] \in O!Desks
    <3>1. PICK d \in O!Desks : d = desk[z]
      BY <1>2
    <3>2. z # c => desk'[z] = d \/ desk'[z] = [d EXCEPT !.unseen = d.unseen \cup parts]
      BY <1>3, <3>1
    <3> HIDE DEF O!Desks
    <3> QED BY <1>3, <2>1, <2>2, <3>2
  <2> QED BY <2>3
<1>5. desk' \in [Handlers -> O!Desks]
  BY <1>4 DEF O!Changes
<1>6. PICK lost, late :
        /\ lost = {<<"lost", p>> : p \in parts \cap desk[c].unseen}
        /\ late = (IF object[o].deleted THEN {<<"late", p>> : p \in parts} ELSE {})
        /\ slips' = [slips EXCEPT ![o] = slips[o] \cup lost \cup late \cup {<<"false", p>> : p \in false}]
  BY DEF O!Changes
<1>7. ASSUME NEW s \in slips'[o], s \notin slips[o]
      PROVE  s \in O!Slips /\ s[2] \in loose'[o] /\ s[2] # "status"
  <2>1. s \in lost \/ s \in late \/ \E p \in false : s = <<"false", p>>
    BY ZenonT(30), <1>2, <1>6, <1>7
  <2>2. CASE s \in lost
    <3>1. PICK p \in parts \cap desk[c].unseen : s = <<"lost", p>>
      BY <1>6, <2>2
    <3> QED BY <3>1 DEF O!Slips
  <2>3. CASE s \in late
    <3>1. PICK p \in parts : s = <<"late", p>>
      BY <1>6, <2>3
    <3>2. p = "severity" /\ "severity" \in loose'[o]
      BY <1>6, <2>3
    <3> QED BY <3>1, <3>2 DEF O!Slips
  <2>4. CASE \E p \in false : s = <<"false", p>>
    <3>1. PICK p \in false : s = <<"false", p>>
      BY <2>4
    <3> QED BY <3>1 DEF O!Slips
  <2> QED BY <2>1, <2>2, <2>3, <2>4
<1>8. \A s \in slips'[o] \ slips[o] : s[2] \in loose'[o] /\ s[2] # "status"
  BY <1>7
<1>9. slips' \in [Objs -> SUBSET O!Slips]
  <2>1. slips'[o] \in SUBSET O!Slips
    BY <1>2, <1>7 DEF O!Slips
  <2> QED BY <1>2, <1>6, <2>1
<1>10. O!OTypeOK'
  BY <1>5, <1>9 DEF O!OTypeOK
<1>11. ASSUME NEW z \in Handlers
       PROVE  UpToDate(desk'[z], object'[desk'[z].about], loose'[desk'[z].about])
  <2>1. CASE z = c
    BY <1>3, <2>1 DEF UpToDate, O!Away
  <2>2. CASE z # c /\ desk[z].step # "away" /\ desk[z].about = o
    <3>1. PICK d \in O!Desks : d = desk[z]
      BY <1>2
    <3>2. desk'[z] = [d EXCEPT !.unseen = d.unseen \cup parts]
      BY <1>3, <2>2, <3>1
    <3>3. UpToDate(d, object[o], loose[o])
      BY <1>1, <2>2, <3>1 DEF ObjectsSeen
    <3>4. /\ desk'[z].step = d.step /\ desk'[z].version = d.version /\ desk'[z].about = o
          /\ desk'[z].status = d.status /\ desk'[z].severity = d.severity
          /\ desk'[z].unseen = d.unseen \cup parts
      BY <2>2, <3>1, <3>2 DEF O!Desks
    <3>5. object[o].version \in Nat /\ d.version \in Nat
      BY <1>1, <3>1, WorkspaceAssumption DEF O!OTypeOK, O!Rows, O!Desks, O!ObjectsAssumption
    <3>6. loose[o] \subseteq loose'[o]
      OBVIOUS
    <3>7. CASE object'[o].version = object[o].version + 1
      <4>1. d.step = "deleting" /\ object'[o].deleted => "deletion" \in loose'[o]
        BY <3>3, <3>6 DEF UpToDate
      <4>2. d.step \in {"seen", "begun", "known", "checked"} =>
              d.version <= object'[o].version /\ d.version # object'[o].version
        BY <3>3, <3>5, <3>7 DEF UpToDate
      <4> QED BY <3>4, <4>1, <4>2 DEF UpToDate
    <3>8. CASE /\ parts = {"severity"} /\ object'[o].version = object[o].version
               /\ "severity" \in loose'[o]
               /\ object'[o].status = object[o].status
      BY <3>3, <3>4, <3>6, <3>8 DEF UpToDate
    <3> QED BY <3>7, <3>8
  <2>3. CASE z # c /\ (desk[z].step = "away" \/ desk[z].about # o)
    <3>1. desk'[z] = desk[z] /\ desk[z].about \in Objs
      BY <1>2, <1>3, <2>3 DEF O!Desks
    <3>2. CASE desk[z].step = "away"
      BY <3>1, <3>2 DEF UpToDate
    <3>3. CASE desk[z].about # o
      <4>1. PICK x \in Objs : x = desk[z].about
        BY <3>1
      <4>2. object'[x] = object[x] /\ loose[x] \subseteq loose'[x]
        BY <3>3, <4>1
      <4>3. UpToDate(desk[z], object[x], loose[x])
        BY <1>1, <4>1 DEF ObjectsSeen
      <4> QED BY <3>1, <4>1, <4>2, <4>3 DEF UpToDate
    <3> QED BY <2>3, <3>2, <3>3
  <2> QED BY <2>1, <2>2, <2>3
<1>12. ObjectsSeen'
  BY <1>11 DEF ObjectsSeen
<1>13. RowsBeginOpen'
  BY <1>1 DEF RowsBeginOpen
<1>14. \A x \in Objs : \A s \in slips'[x] : s[2] \in loose'[x] /\ s[2] # "status"
  <2>1. \A x \in Objs : \A s \in slips[x] : s[2] \in loose[x] /\ s[2] # "status"
    BY <1>1 DEF ObjectsTracked, O!ObjectsTracked
  <2>2. \A x \in Objs \ {o} : slips'[x] = slips[x]
    BY <1>2, <1>6
  <2> QED BY <1>8, <2>1, <2>2
<1>15. \A x \in Objs : object'[x].kind = "incident" /\ object'[x].status = "resolved" =>
            object'[x].resolved \/ "status" \in loose'[x]
  BY <1>1 DEF ObjectsTracked, O!ObjectsTracked
<1>16. ObjectsTracked'
  BY <1>14, <1>15 DEF ObjectsTracked, O!ObjectsTracked
<1> QED BY <1>10, <1>12, <1>13, <1>16 DEF ObjectsInv

\* A request that reads, moves on or ends changes what one client has read.
LEMMA ReadKeeps ==
    ASSUME ObjectsInv, NEW c \in Handlers, NEW d \in O!Desks,
           UpToDate(d, object[d.about], loose[d.about]),
           desk' = [desk EXCEPT ![c] = d], UNCHANGED <<object, slips, loose>>
    PROVE  ObjectsInv'
<1>1. O!OTypeOK /\ ObjectsSeen /\ RowsBeginOpen /\ ObjectsTracked
  BY DEF ObjectsInv
<1>2. /\ desk'[c] = d /\ \A z \in Handlers \ {c} : desk'[z] = desk[z]
      /\ desk' \in [Handlers -> O!Desks]
  BY <1>1 DEF O!OTypeOK
<1>3. O!OTypeOK'
  BY <1>1, <1>2 DEF O!OTypeOK
<1>4. ObjectsSeen'
  <2>1. ASSUME NEW z \in Handlers
        PROVE  UpToDate(desk'[z], object[desk'[z].about], loose[desk'[z].about])
    BY <1>1, <1>2 DEF ObjectsSeen
  <2> QED BY <2>1 DEF ObjectsSeen
<1>5. RowsBeginOpen' /\ ObjectsTracked'
  BY <1>1 DEF RowsBeginOpen, ObjectsTracked, O!ObjectsTracked
<1> QED BY <1>3, <1>4, <1>5 DEF ObjectsInv

\* Nobody sees anything at first, or after a request.
LEMMA AwayIsUpToDate ==
    ASSUME NEW o \in Objs
    PROVE  O!Away(o) \in O!Desks /\ \A r, x : UpToDate(O!Away(o), r, x)
BY WorkspaceAssumption
   DEF O!Away, O!Desks, O!ObjectsAssumption, O!Statuses, O!Severities, UpToDate

\* Each client that is not away is about an object, and has seen what it is.
LEMMA DeskOf ==
    ASSUME ObjectsInv, NEW c \in Handlers
    PROVE  /\ desk[c] \in O!Desks /\ desk[c].about \in Objs
           /\ object[desk[c].about] \in O!Rows
           /\ loose[desk[c].about] \in SUBSET {"severity", "deletion", "status"}
           /\ UpToDate(desk[c], object[desk[c].about], loose[desk[c].about])
<1>1. O!OTypeOK /\ ObjectsSeen
  BY DEF ObjectsInv
<1>2. desk[c] \in O!Desks
  BY <1>1 DEF O!OTypeOK
<1>3. desk[c].about \in Objs
  BY <1>2 DEF O!Desks
<1> QED BY <1>1, <1>2, <1>3 DEF O!OTypeOK, ObjectsSeen

\* CreateObject, CreateWorkItem and CreateIncident keep the invariant.
LEMMA CreateKeeps ==
    ASSUME ObjectsInv, NEW o \in Objs, NEW kind \in O!Kinds, O!Creates(o, kind)
    PROVE  ObjectsInv'
<1> USE DEF O!Creates
<1>1. O!OTypeOK /\ ObjectsSeen /\ RowsBeginOpen /\ ObjectsTracked
  BY DEF ObjectsInv
<1>2. object \in [Objs -> O!Rows]
  BY <1>1 DEF O!OTypeOK
<1>3. [object[o] EXCEPT !.kind = kind] \in O!Rows
  BY <1>2 DEF O!Rows
<1>4. object' = [object EXCEPT ![o] = [object[o] EXCEPT !.kind = kind]]
  OBVIOUS
<1>5. object' \in [Objs -> O!Rows]
  BY <1>2, <1>3, <1>4
<1>6. \A x \in Objs : /\ object'[x].version = object[x].version
                      /\ object'[x].status = object[x].status
                      /\ object'[x].severity = object[x].severity
                      /\ object'[x].deleted = object[x].deleted
                      /\ object'[x].resolved = object[x].resolved
                      /\ x # o => object'[x] = object[x]
  BY <1>2, <1>4 DEF O!Rows
<1>7. O!OTypeOK'
  BY <1>1, <1>5 DEF O!OTypeOK
<1>8. ObjectsSeen'
  <2>1. ASSUME NEW c \in Handlers
        PROVE  UpToDate(desk[c], object'[desk[c].about], loose[desk[c].about])
    BY <1>6, DeskOf DEF UpToDate
  <2> QED BY <2>1 DEF ObjectsSeen
<1>9. object[o].status = "open" /\ object'[o].kind = kind /\ kind # "absent"
  BY <1>1, <1>2, <1>4 DEF RowsBeginOpen, O!Kinds, O!Rows
<1>10. RowsBeginOpen'
  BY <1>1, <1>6, <1>9 DEF RowsBeginOpen
<1>11. ObjectsTracked'
  BY <1>1, <1>6, <1>9 DEF ObjectsTracked, O!ObjectsTracked
<1> QED BY <1>7, <1>8, <1>10, <1>11 DEF ObjectsInv

\* The steps that read: what is read is up to date.
LEMMA ReadingKeeps ==
    ASSUME ObjectsInv, NEW c \in Handlers,
           \/ \E o \in Objs : O!ViewObject(c, o) \/ O!BeginDelete(c, o)
           \/ O!BeginUpdate(c) \/ O!ReadSeverity(c) \/ O!CheckVersion(c) \/ O!Refuse(c)
    PROVE  ObjectsInv'
<1> USE DEF O!At, O!About
<1>1. O!OTypeOK
  BY DEF ObjectsInv
<1>2. desk \in [Handlers -> O!Desks] /\ object \in [Objs -> O!Rows]
  BY <1>1 DEF O!OTypeOK
<1>3. ASSUME NEW o \in Objs, O!ViewObject(c, o) PROVE ObjectsInv'
  <2>1. PICK d : d = [O!Away(o) EXCEPT !.step = "seen", !.version = object[o].version]
    OBVIOUS
  <2>2. object[o].version \in 1 .. MaxVersion
    BY <1>2 DEF O!Rows
  <2>3. /\ d \in O!Desks /\ d.about = o /\ d.step = "seen"
        /\ d.version = object[o].version /\ d.unseen = {}
    BY <2>1, <2>2, AwayIsUpToDate DEF O!Away, O!Desks, O!Statuses, O!Severities
  <2>4. UpToDate(d, object[o], loose[o])
    BY <2>2, <2>3 DEF UpToDate
  <2>5. desk' = [desk EXCEPT ![c] = d] /\ UNCHANGED <<object, slips, loose>>
    BY <1>3, <2>1 DEF O!ViewObject
  <2> QED BY <2>3, <2>4, <2>5, ReadKeeps
<1>4. ASSUME NEW o \in Objs, O!BeginDelete(c, o) PROVE ObjectsInv'
  <2>1. PICK d : d = [O!Away(o) EXCEPT !.step = "deleting"]
    OBVIOUS
  <2>2. d \in O!Desks /\ d.about = o /\ d.step = "deleting"
    BY <2>1, AwayIsUpToDate DEF O!Away, O!Desks, O!Statuses, O!Severities
  <2>3. UpToDate(d, object[o], loose[o])
    BY <1>4, <2>2 DEF UpToDate, O!BeginDelete, O!Live
  <2>4. desk' = [desk EXCEPT ![c] = d] /\ UNCHANGED <<object, slips, loose>>
    BY <1>4, <2>1 DEF O!BeginDelete
  <2> QED BY <2>2, <2>3, <2>4, ReadKeeps
<1>5. CASE O!BeginUpdate(c)
  <2>1. PICK o \in Objs : o = desk[c].about /\ UpToDate(desk[c], object[o], loose[o])
    BY DeskOf
  <2>2. PICK d : d = [desk[c] EXCEPT !.step = "begun", !.status = object[o].status]
    OBVIOUS
  <2>3. object[o].status \in O!Statuses
    BY <1>2 DEF O!Rows
  <2>4. /\ d \in O!Desks /\ d.about = o /\ d.step = "begun" /\ d.status = object[o].status
        /\ d.version = desk[c].version /\ d.unseen = desk[c].unseen
    BY <1>2, <2>1, <2>2, <2>3, DeskOf DEF O!Desks
  <2>5. UpToDate(d, object[o], loose[o])
    BY <1>5, <2>1, <2>4 DEF UpToDate, O!BeginUpdate
  <2>6. desk' = [desk EXCEPT ![c] = d] /\ UNCHANGED <<object, slips, loose>>
    BY <1>2, <1>5, <2>1, <2>2 DEF O!BeginUpdate, O!Desks
  <2> QED BY <2>4, <2>5, <2>6, ReadKeeps
<1>6. CASE O!ReadSeverity(c)
  <2>1. PICK o \in Objs : o = desk[c].about /\ UpToDate(desk[c], object[o], loose[o])
    BY DeskOf
  <2>2. PICK d : d = [desk[c] EXCEPT !.step = "known", !.severity = object[o].severity]
    OBVIOUS
  <2>3. object[o].severity \in O!Severities
    BY <1>2 DEF O!Rows
  <2>4. /\ d \in O!Desks /\ d.about = o /\ d.step = "known" /\ d.severity = object[o].severity
        /\ d.status = desk[c].status
        /\ d.version = desk[c].version /\ d.unseen = desk[c].unseen
    BY <1>2, <2>1, <2>2, <2>3, DeskOf DEF O!Desks
  <2>5. UpToDate(d, object[o], loose[o])
    BY <1>6, <2>1, <2>4 DEF UpToDate, O!ReadSeverity
  <2>6. desk' = [desk EXCEPT ![c] = d] /\ UNCHANGED <<object, slips, loose>>
    BY <1>2, <1>6, <2>1, <2>2 DEF O!ReadSeverity, O!Desks
  <2> QED BY <2>4, <2>5, <2>6, ReadKeeps
<1>7. CASE O!CheckVersion(c)
  <2>1. PICK o \in Objs : o = desk[c].about /\ UpToDate(desk[c], object[o], loose[o])
    BY DeskOf
  <2>2. PICK d : d = [desk[c] EXCEPT !.step = "checked"]
    OBVIOUS
  <2>3. /\ d \in O!Desks /\ d.about = o /\ d.step = "checked" /\ d.severity = desk[c].severity
        /\ d.status = desk[c].status
        /\ d.version = desk[c].version /\ d.unseen = desk[c].unseen
    BY <1>2, <2>1, <2>2, DeskOf DEF O!Desks
  <2>4. UpToDate(d, object[o], loose[o])
    BY <1>7, <2>1, <2>3 DEF UpToDate, O!CheckVersion
  <2>5. desk' = [desk EXCEPT ![c] = d] /\ UNCHANGED <<object, slips, loose>>
    BY <1>2, <1>7, <2>1, <2>2 DEF O!CheckVersion, O!Proceeds, O!Desks
  <2> QED BY <2>3, <2>4, <2>5, ReadKeeps
<1>8. CASE O!Refuse(c)
  <2>1. desk[c].about \in Objs
    BY DeskOf
  <2>2. O!Away(desk[c].about).about = desk[c].about
    BY DEF O!Away
  <2> QED BY <1>8, <2>1, <2>2, AwayIsUpToDate, ReadKeeps DEF O!Refuse, O!Quits
<1> QED BY <1>3, <1>4, <1>5, <1>6, <1>7, <1>8

\* What a request changes it asks for with the version it saw, or is excused.
LEMMA UpdateKeeps ==
    ASSUME ObjectsInv, NEW c \in Handlers, NEW status \in O!Statuses,
           O!UpdateObject(c, status) \/ O!UpdateProject(c, status)
    PROVE  ObjectsInv'
<1> USE DEF O!At, O!About, O!Live, O!Matches
<1>1. O!OTypeOK /\ RowsBeginOpen /\ ObjectsTracked
  BY DEF ObjectsInv
<1>2. /\ object \in [Objs -> O!Rows]
      /\ loose \in [Objs -> SUBSET {"severity", "deletion", "status"}]
  BY <1>1 DEF O!OTypeOK
<1>3. PICK o \in Objs : o = desk[c].about /\ UpToDate(desk[c], object[o], loose[o])
  BY DeskOf
<1>4. /\ desk[c].step = "begun" /\ desk[c].version = object[o].version
      /\ object[o].kind # "absent" /\ ~object[o].deleted
      /\ object[o].version \in 1 .. MaxVersion /\ object[o].version < MaxVersion
  BY <1>2, <1>3 DEF O!UpdateObject, O!UpdateProject, O!Rows
<1>5. desk[c].status = object[o].status /\ "status" \notin desk[c].unseen
  BY <1>3, <1>4 DEF UpToDate
<1>6. O!Changes(c, {"status"}, {})
  BY <1>3, <1>5 DEF O!UpdateObject, O!UpdateProject
<1>7. PICK r : r = [object[o] EXCEPT !.status = status, !.version = object[o].version + 1]
  OBVIOUS
<1>8. object[o].version + 1 \in 1 .. MaxVersion
  BY <1>4, WorkspaceAssumption DEF O!ObjectsAssumption
<1>9. /\ r \in O!Rows /\ r.kind = object[o].kind /\ r.deleted = object[o].deleted
      /\ r.version = object[o].version + 1 /\ r.status = status
      /\ r.resolved = object[o].resolved
  BY <1>2, <1>7, <1>8 DEF O!Rows
<1>10. object' = [object EXCEPT ![o] = r]
  BY <1>2, <1>3, <1>7 DEF O!UpdateObject, O!UpdateProject, O!NewRow, O!Rows
<1>11. object' \in [Objs -> O!Rows] /\ object'[o] = r /\ \A x \in Objs \ {o} : object'[x] = object[x]
  BY <1>2, <1>9, <1>10
<1>12. /\ loose' \in [Objs -> SUBSET {"severity", "deletion", "status"}]
       /\ \A x \in Objs : loose[x] \subseteq loose'[x]
       /\ object[o].kind = "incident" => status = object[o].status \/ "status" \in loose'[o]
  BY <1>2, <1>3, <1>4 DEF O!UpdateObject, O!UpdateProject, O!Sidesteps
<1>13. object[o].kind = "incident" /\ status = "resolved" => r.resolved \/ "status" \in loose'[o]
  BY <1>1, <1>9, <1>12 DEF ObjectsTracked, O!ObjectsTracked
<1> QED BY <1>3, <1>4, <1>5, <1>6, <1>9, <1>11, <1>12, <1>13, ChangeKeeps

\* UpdateIncident's change of status keeps the invariant.
LEMMA UpdateIncidentKeeps ==
    ASSUME ObjectsInv, NEW c \in Handlers, NEW status \in O!Statuses,
           NEW severity \in O!Severities, O!UpdateIncident(c, status, severity)
    PROVE  ObjectsInv'
<1> USE DEF O!At, O!About, O!Live, O!Matches
<1>1. O!OTypeOK /\ RowsBeginOpen /\ ObjectsTracked
  BY DEF ObjectsInv
<1>2. /\ object \in [Objs -> O!Rows]
      /\ loose \in [Objs -> SUBSET {"severity", "deletion", "status"}]
  BY <1>1 DEF O!OTypeOK
<1>3. PICK o \in Objs : o = desk[c].about /\ UpToDate(desk[c], object[o], loose[o])
  BY DeskOf
<1>4. /\ desk[c].step \in {"begun", "known"} /\ desk[c].version = object[o].version
      /\ object[o].kind # "absent" /\ ~object[o].deleted
      /\ object[o].version \in 1 .. MaxVersion /\ object[o].version < MaxVersion
  BY <1>2, <1>3 DEF O!UpdateIncident, O!Rows
<1>5. /\ desk[c].status = object[o].status /\ "status" \notin desk[c].unseen
      /\ "severity" \in desk[c].unseen => "severity" \in loose[o]
      /\ desk[c].step = "known" =>
            desk[c].severity = object[o].severity \/ "severity" \in loose[o]
  BY <1>3, <1>4 DEF UpToDate
<1> DEFINE both == desk[c].step = "known" /\ severity # desk[c].severity
<1>6. PICK parts, false \in SUBSET {"status", "severity"} :
        /\ false \subseteq parts
        /\ O!Changes(c, parts, false)
        /\ false \subseteq {"severity"}
        /\ "severity" \in false => "severity" \in loose[o]
  <2>1. O!Changes(c, IF both THEN {"status", "severity"} ELSE {"status"},
                     IF both THEN O!FalseSeverity(c) ELSE {})
    BY DEF O!UpdateIncident
  <2>2. /\ O!FalseSeverity(c) \subseteq {"severity"}
        /\ both /\ "severity" \in O!FalseSeverity(c) => "severity" \in loose[o]
    BY <1>3, <1>5 DEF O!FalseSeverity
  <2>3. CASE both
    BY <2>1, <2>2, <2>3
  <2>4. CASE ~both
    BY <2>1, <2>4
  <2> QED BY <2>3, <2>4
<1>7. PICK resolved \in BOOLEAN :
        resolved = (object[o].resolved \/ (O!Resolves(c, status) /\ object[o].kind = "incident"))
  BY <1>2 DEF O!Rows
<1>8. PICK sev \in O!Severities : sev = IF both THEN severity ELSE object[o].severity
  BY <1>2 DEF O!Rows
<1>9. PICK r : r = [object[o] EXCEPT !.status = status, !.version = object[o].version + 1,
                                     !.resolved = resolved, !.severity = sev]
  OBVIOUS
<1>10. object[o].version + 1 \in 1 .. MaxVersion
  BY <1>4, WorkspaceAssumption DEF O!ObjectsAssumption
<1>11. /\ r \in O!Rows /\ r.kind = object[o].kind /\ r.deleted = object[o].deleted
       /\ r.version = object[o].version + 1 /\ r.status = status
       /\ r.resolved = resolved
  BY <1>2, <1>9, <1>10 DEF O!Rows
<1>12. object' = [object EXCEPT ![o] = r]
  <2>1. PICK q : q = O!NewRow(c, status)
    OBVIOUS
  <2>2. q = [object EXCEPT ![o] =
            [object[o] EXCEPT !.status = status, !.version = object[o].version + 1]]
    BY <1>2, <1>3, <2>1 DEF O!NewRow, O!Rows
  <2>3. object' = [q EXCEPT ![o].resolved = resolved, ![o].severity = sev]
    BY <1>3, <1>7, <1>8, <2>1 DEF O!UpdateIncident
  <2> QED BY <1>2, <1>9, <2>2, <2>3 DEF O!Rows
<1>13. object' \in [Objs -> O!Rows] /\ object'[o] = r /\ \A x \in Objs \ {o} : object'[x] = object[x]
  BY <1>2, <1>11, <1>12
<1>14. loose' = loose
  BY DEF O!UpdateIncident
<1>15. object[o].kind = "incident" /\ status = "resolved" => resolved \/ "status" \in loose[o]
  BY <1>1, <1>5, <1>7 DEF ObjectsTracked, O!ObjectsTracked, O!Resolves
<1>16. \A p \in (parts \cap desk[c].unseen) \cup false : p # "status" /\ p \in loose[o]
  BY <1>5, <1>6
<1> QED BY <1>2, <1>3, <1>4, <1>6, <1>11, <1>13, <1>14, <1>15, <1>16, ChangeKeeps

\* UpdateIncident's change of severity alone keeps the invariant.
LEMMA UpdateSeverityKeeps ==
    ASSUME ObjectsInv, NEW c \in Handlers, NEW severity \in O!Severities,
           O!UpdateSeverity(c, severity)
    PROVE  ObjectsInv'
<1> USE DEF O!About
<1>1. O!OTypeOK /\ RowsBeginOpen /\ ObjectsTracked
  BY DEF ObjectsInv
<1>2. /\ object \in [Objs -> O!Rows]
      /\ loose \in [Objs -> SUBSET {"severity", "deletion", "status"}]
  BY <1>1 DEF O!OTypeOK
<1>3. PICK o \in Objs : o = desk[c].about
  BY DeskOf
<1>4. O!Changes(c, {"severity"}, O!FalseSeverity(c))
  BY DEF O!UpdateSeverity
<1>5. O!FalseSeverity(c) \in SUBSET {"severity"}
  BY DEF O!FalseSeverity
<1>6. PICK r : r = [object[o] EXCEPT !.severity = severity]
  OBVIOUS
<1>7. /\ r \in O!Rows /\ r.kind = object[o].kind /\ r.deleted = object[o].deleted
      /\ r.version = object[o].version /\ r.status = object[o].status
      /\ r.resolved = object[o].resolved
  BY <1>2, <1>6 DEF O!Rows
<1>8. object' = [object EXCEPT ![o] = r]
  BY <1>2, <1>3, <1>6 DEF O!UpdateSeverity
<1>9. object' \in [Objs -> O!Rows] /\ object'[o] = r /\ \A x \in Objs \ {o} : object'[x] = object[x]
  BY <1>2, <1>7, <1>8
<1>10. /\ loose' \in [Objs -> SUBSET {"severity", "deletion", "status"}]
       /\ \A x \in Objs : loose[x] \subseteq loose'[x]
       /\ "severity" \in loose'[o]
  BY <1>2, <1>3 DEF O!UpdateSeverity
<1>11. object[o].kind = "absent" => r.status = "open"
  BY <1>1, <1>7 DEF RowsBeginOpen
<1>12. object[o].kind = "incident" /\ r.status = "resolved" => r.resolved \/ "status" \in loose'[o]
  BY <1>1, <1>7, <1>10 DEF ObjectsTracked, O!ObjectsTracked
<1> QED BY <1>3, <1>4, <1>5, <1>7, <1>9, <1>10, <1>11, <1>12, ChangeKeeps

\* A row is deleted again only by a request that overlapped the first one.
LEMMA DeleteKeeps ==
    ASSUME ObjectsInv, NEW c \in Handlers, O!DeleteObject(c)
    PROVE  ObjectsInv'
<1> USE DEF O!About, O!At
<1>1. O!OTypeOK /\ ObjectsSeen /\ RowsBeginOpen /\ ObjectsTracked
  BY DEF ObjectsInv
<1>2. /\ object \in [Objs -> O!Rows] /\ desk \in [Handlers -> O!Desks]
      /\ slips \in [Objs -> SUBSET O!Slips]
      /\ loose \in [Objs -> SUBSET {"severity", "deletion", "status"}]
  BY <1>1 DEF O!OTypeOK
<1>3. PICK o \in Objs : o = desk[c].about /\ UpToDate(desk[c], object[o], loose[o])
  BY DeskOf
<1>4. PICK r : r = [object[o] EXCEPT !.deleted = TRUE]
  OBVIOUS
<1>5. /\ r \in O!Rows /\ r.kind = object[o].kind
      /\ r.version = object[o].version /\ r.status = object[o].status
      /\ r.severity = object[o].severity /\ r.resolved = object[o].resolved
  BY <1>2, <1>4 DEF O!Rows
<1>6. object' = [object EXCEPT ![o] = r]
  BY <1>2, <1>3, <1>4 DEF O!DeleteObject
<1>7. object' \in [Objs -> O!Rows] /\ object'[o] = r /\ \A x \in Objs \ {o} : object'[x] = object[x]
  BY <1>2, <1>5, <1>6
<1>8. /\ loose' \in [Objs -> SUBSET {"severity", "deletion", "status"}]
      /\ \A x \in Objs : loose[x] \subseteq loose'[x]
      /\ \A z \in Handlers \ {c} :
            desk[z].step = "deleting" /\ desk[z].about = o => "deletion" \in loose'[o]
  BY <1>2, <1>3 DEF O!DeleteObject
<1>9. /\ desk' = [desk EXCEPT ![c] = O!Away(o)] /\ desk' \in [Handlers -> O!Desks]
  BY <1>2, <1>3, AwayIsUpToDate DEF O!DeleteObject, O!Quits
<1>10. /\ slips' \in [Objs -> SUBSET O!Slips]
       /\ \A x \in Objs : \A s \in slips'[x] :
            s \in slips[x] \/ (x = o /\ s = <<"late", "deletion">> /\ object[o].deleted)
  BY <1>2, <1>3 DEF O!DeleteObject, O!Slips
<1>11. object[o].deleted => "deletion" \in loose[o]
  BY <1>3 DEF UpToDate, O!DeleteObject
<1>12. O!OTypeOK'
  BY <1>7, <1>8, <1>9, <1>10 DEF O!OTypeOK
<1>13. ObjectsSeen'
  <2>1. ASSUME NEW z \in Handlers
        PROVE  UpToDate(desk'[z], object'[desk'[z].about], loose'[desk'[z].about])
    <3>1. CASE z = c
      BY <1>2, <1>3, <1>9, <3>1, AwayIsUpToDate
    <3>2. CASE z # c
      <4>1. desk'[z] = desk[z]
        BY <1>2, <1>9, <3>2
      <4>2. PICK x \in Objs : x = desk[z].about /\ UpToDate(desk[z], object[x], loose[x])
        BY DeskOf
      <4>3. loose[x] \subseteq loose'[x]
        BY <1>8
      <4>4. CASE x = o
        <5>1. /\ object'[x].version = object[x].version /\ object'[x].status = object[x].status
              /\ object'[x].severity = object[x].severity
          BY <1>5, <1>7, <4>4
        <5>2. desk[z].step = "deleting" => "deletion" \in loose'[x]
          BY <1>8, <3>2, <4>2, <4>4
        <5>3. UpToDate(desk[z], object'[x], loose'[x])
          BY <4>2, <4>3, <5>1, <5>2 DEF UpToDate
        <5> QED BY <4>1, <4>2, <5>3
      <4>5. CASE x # o
        BY <1>7, <4>1, <4>2, <4>3, <4>5 DEF UpToDate
      <4> QED BY <4>4, <4>5
    <3> QED BY <3>1, <3>2
  <2> QED BY <2>1 DEF ObjectsSeen
<1>14. RowsBeginOpen'
  BY <1>1, <1>5, <1>7 DEF RowsBeginOpen
<1>15. ObjectsTracked'
  <2>1. \A x \in Objs : \A s \in slips'[x] : s[2] \in loose'[x] /\ s[2] # "status"
    BY <1>1, <1>8, <1>10, <1>11 DEF ObjectsTracked, O!ObjectsTracked
  <2>2. \A x \in Objs : object'[x].kind = "incident" /\ object'[x].status = "resolved" =>
            object'[x].resolved \/ "status" \in loose'[x]
    BY <1>1, <1>5, <1>7, <1>8 DEF ObjectsTracked, O!ObjectsTracked
  <2> QED BY <2>1, <2>2 DEF ObjectsTracked, O!ObjectsTracked
<1> QED BY <1>12, <1>13, <1>14, <1>15 DEF ObjectsInv

\* The invariant of Objects holds in every behaviour of Workspace.
LEMMA ObjectsInvariant == Spec => []ObjectsInv
<1>1. Init => ObjectsInv
  <2> SUFFICES ASSUME Init
               PROVE  ObjectsInv
    OBVIOUS
  <2>1. O!OInit
    BY DEF Init
  <2>2. PICK o \in Objs : o = CHOOSE x \in Objs : TRUE
    BY WorkspaceAssumption DEF O!ObjectsAssumption
  <2>3. \A c \in Handlers : desk[c] = O!Away(o)
    BY <2>1, <2>2 DEF O!OInit
  <2>4. O!NoRow \in O!Rows /\ O!NoRow.status = "open" /\ O!NoRow.kind = "absent"
    BY WorkspaceAssumption
       DEF O!NoRow, O!Rows, O!Statuses, O!Severities, O!ObjectsAssumption
  <2>5. desk \in [Handlers -> O!Desks]
    BY <2>1, <2>2, AwayIsUpToDate DEF O!OInit
  <2>6. O!OTypeOK
    BY <2>1, <2>4, <2>5 DEF O!OInit, O!OTypeOK
  <2>7. ObjectsSeen
    BY <2>3, AwayIsUpToDate DEF ObjectsSeen
  <2>8. RowsBeginOpen /\ ObjectsTracked
    BY <2>1, <2>4 DEF O!OInit, RowsBeginOpen, ObjectsTracked, O!ObjectsTracked
  <2> QED BY <2>6, <2>7, <2>8 DEF ObjectsInv
<1>2. ObjectsInv /\ [Next]_vars => ObjectsInv'
  <2> SUFFICES ASSUME ObjectsInv, [Next]_vars
               PROVE  ObjectsInv'
    OBVIOUS
  <2>1. CASE UNCHANGED objects
    BY <2>1 DEF ObjectsInv, O!OTypeOK, ObjectsSeen, RowsBeginOpen, ObjectsTracked,
                O!ObjectsTracked, objects
  <2>2. ASSUME NEW o \in Objs,
               O!CreateObject(o) \/ O!CreateWorkItem(o) \/ O!CreateIncident(o) \/ O!CreateProject(o)
        PROVE  ObjectsInv'
    BY <2>2, CreateKeeps
       DEF O!CreateObject, O!CreateWorkItem, O!CreateIncident, O!CreateProject, O!Kinds
  <2>3. ASSUME NEW c \in Handlers, O!ClientStep(c)
        PROVE  ObjectsInv'
    <3>1. CASE \E status \in O!Statuses :
                \/ O!UpdateObject(c, status) \/ O!UpdateWorkItem(c, status)
                \/ O!UpdateProject(c, status)
      BY <3>1, UpdateKeeps DEF O!UpdateWorkItem
    <3>2. CASE \E status \in O!Statuses : \E severity \in O!Severities :
                O!UpdateIncident(c, status, severity)
      BY <3>2, UpdateIncidentKeeps
    <3>3. CASE \E severity \in O!Severities : O!UpdateSeverity(c, severity)
      BY <3>3, UpdateSeverityKeeps
    <3>4. CASE O!DeleteObject(c) \/ O!DeleteWorkItem(c)
      BY <3>4, DeleteKeeps DEF O!DeleteWorkItem
    <3>5. CASE \/ \E o \in Objs :
                    \/ O!ViewObject(c, o) \/ O!ViewWorkItem(c, o) \/ O!ViewIncident(c, o)
                    \/ O!BeginDelete(c, o) \/ O!BeginDeleteWorkItem(c, o)
               \/ O!BeginUpdate(c) \/ O!ReadSeverity(c) \/ O!CheckVersion(c) \/ O!Refuse(c)
      BY <3>5, ReadingKeeps DEF O!ViewWorkItem, O!ViewIncident, O!BeginDeleteWorkItem
    <3> QED BY <2>3, <3>1, <3>2, <3>3, <3>4, <3>5 DEF O!ClientStep
  <2> QED BY <2>1, <2>2, <2>3, OneAtATime DEF O!ONext
<1> QED BY <1>1, <1>2, PTL DEF Spec

\* No accepted change of a row overwrites a status its client had not seen,
\* announces another one than it replaced, or touches a deleted row, and a
\* resolved incident has its resolved_at, but for the changes that no version
\* orders (UpdateObject, UpdateWorkItem, UpdateIncident, DeleteObject).
THEOREM ChangesAreTracked == Spec => []ObjectsTracked
<1>1. ObjectsInv => ObjectsTracked
  BY DEF ObjectsInv
<1> QED BY <1>1, ObjectsInvariant, PTL

-----------------------------------------------------------------------------
(* Documents *)

\* How many versions there are, and which transactions are open.
Last == D!NextNumber - 1
OpenTxs == {e \in Handlers : D!InTx(e)}

\* Versions are numbered without a gap, and the last one is the text of the body.
VersionsNumbered ==
    /\ Last \in 0 .. MaxTxs
    /\ D!Taken = 1 .. Last
    /\ document.text = (IF Last = 0 THEN Nothing ELSE versions[Last])
    /\ D!Exists \/ Last = 0

\* Every version was added by a transaction of its own.
VersionsCounted == IsFiniteSet(OpenTxs) /\ Last + Cardinality(OpenTxs) <= clock

\* The rows that the transaction d has still to lock.
ToLock(d) ==
    IF d.step = "restoring" THEN {<<"body", "artifact">>, <<"artifact">>, <<>>}
    ELSE IF d.text = Nothing THEN {<<"artifact">>, <<>>}
    ELSE {<<"artifact", "body">>, <<"body">>, <<>>}

\* The rows that it has locked.
Locked(d) ==
    CASE d.todo = <<>> -> IF d.text = Nothing THEN {"artifact"} ELSE {"artifact", "body"}
      [] d.todo = <<"body">> -> {"artifact"}
      [] d.todo = <<"artifact">> /\ d.step = "restoring" -> {"body"}
      [] OTHER -> {}

\* The transaction d of e, where doc is the document, locks who holds its rows
\* and last the number of its last version: d has the rows it has locked, only
\* then has it numbered its version, and the document is what d looked at
\* unless that was changed.
EditorSound(d, e, doc, locks, last) ==
    /\ d.step \in {"saving", "restoring"} =>
        /\ doc.status # "absent"
        /\ d.todo \in ToLock(d)
        /\ \A r \in Locked(d) : locks[r] = e
        /\ ~d.beside =>
            /\ doc.status # "archived"
            /\ d.match => doc.stamp = d.seen
            /\ d.step = "saving" => doc.title = d.title
    /\ d.step = "restoring" => d.text # Nothing
    /\ d.step # "saving" => ~d.match
    /\ d.number # 0 =>
        /\ d.step \in {"saving", "restoring"}
        /\ d.todo = <<>> /\ d.text # Nothing /\ d.number = last + 1

EditorsSound == \A e \in Handlers : EditorSound(editor[e], e, document, rowlock, Last)

DocumentsInv ==
    /\ D!DTypeOK /\ surprises = {}
    /\ VersionsNumbered /\ VersionsCounted /\ EditorsSound

\* The next number after 1 .. last.
LEMMA NumberAfter ==
    ASSUME NEW last \in Nat, NEW taken, taken = 1 .. last
    PROVE  (IF taken = {} THEN 1 ELSE 1 + CHOOSE n \in taken : \A k \in taken : k <= n) = last + 1
<1>1. CASE last = 0
  BY <1>1
<1>2. CASE last # 0
  <2>1. taken # {} /\ last \in taken /\ \A k \in taken : k <= last
    BY <1>2
  <2>2. \A n \in taken : (\A k \in taken : k <= n) => n = last
    BY <2>1
  <2>3. (CHOOSE n \in taken : \A k \in taken : k <= n) = last
    BY <2>1, <2>2
  <2> QED BY <2>1, <2>3
<1> QED BY <1>1, <1>2

\* A transaction that opens or ends changes the number of open ones by one.
LEMMA OpenTxsChange ==
    ASSUME IsFiniteSet(OpenTxs), NEW e \in Handlers,
           \A z \in Handlers \ {e} : editor'[z].step = editor[z].step
    PROVE  /\ IsFiniteSet(OpenTxs') /\ Cardinality(OpenTxs) \in Nat
           /\ Cardinality(OpenTxs') \in Nat
           /\ D!InTx(e)' /\ ~D!InTx(e) => Cardinality(OpenTxs') = Cardinality(OpenTxs) + 1
           /\ ~D!InTx(e)' /\ D!InTx(e) => Cardinality(OpenTxs') = Cardinality(OpenTxs) - 1
           /\ (D!InTx(e)' <=> D!InTx(e)) => Cardinality(OpenTxs') = Cardinality(OpenTxs)
           /\ D!InTx(e) => Cardinality(OpenTxs) >= 1
<1>1. Cardinality(OpenTxs) \in Nat
  BY FS_CardinalityType
<1>2. CASE D!InTx(e)' /\ ~D!InTx(e)
  <2>1. OpenTxs' = OpenTxs \cup {e} /\ e \notin OpenTxs
    BY <1>2 DEF OpenTxs, D!InTx
  <2> QED BY SMTT(30), <1>1, <1>2, <2>1, FS_AddElement
<1>3. CASE ~D!InTx(e)' /\ D!InTx(e)
  <2>1. OpenTxs' = OpenTxs \ {e} /\ e \in OpenTxs
    BY <1>3 DEF OpenTxs, D!InTx
  <2>2. IsFiniteSet(OpenTxs') /\ Cardinality(OpenTxs') = Cardinality(OpenTxs) - 1
    BY <2>1, FS_RemoveElement
  <2>3. Cardinality(OpenTxs') \in Nat
    BY <2>2, FS_CardinalityType
  <2> QED BY <1>1, <1>3, <2>2, <2>3
<1>4. CASE D!InTx(e)' <=> D!InTx(e)
  <2>1. OpenTxs' = OpenTxs
    BY <1>4 DEF OpenTxs, D!InTx
  <2>2. D!InTx(e) => OpenTxs # {}
    BY DEF OpenTxs
  <2>3. OpenTxs # {} => Cardinality(OpenTxs) >= 1
    BY <1>1, FS_EmptySet
  <2> QED BY <1>1, <1>4, <2>1, <2>2, <2>3
<1> QED BY <1>2, <1>3, <1>4

\* The types of what the steps change.
DeskRecords ==
    [step : {"away", "reading", "saving", "restoring"}, seen : 0 .. MaxTxs,
     match : BOOLEAN, todo : {<<>>, <<"artifact">>, <<"body">>,
                              <<"artifact", "body">>, <<"body", "artifact">>},
     title : Titles, rename : Titles, text : Texts \cup {Nothing},
     number : 0 .. MaxTxs + 1, begun : 0 .. MaxTxs, beside : BOOLEAN]
DocumentRecords ==
    [status : D!Statuses \cup {"absent"}, title : Titles,
     text : Texts \cup {Nothing}, stamp : 0 .. MaxTxs]

\* An editor who has opened nothing has nothing to answer for.
LEMMA AwayIsSound ==
    /\ D!Away \in DeskRecords
    /\ D!Away.step = "away" /\ D!Away.number = 0
    /\ \A e, doc, locks, last : EditorSound(D!Away, e, doc, locks, last)
<1>1. PICK t \in Titles : t = CHOOSE x \in Titles : TRUE
  BY WorkspaceAssumption DEF D!DocumentsAssumption
<1>2. D!NoDocument.title = t
  BY <1>1 DEF D!NoDocument
<1>3. MaxTxs \in Nat
  BY WorkspaceAssumption DEF D!DocumentsAssumption
<1> QED BY <1>2, <1>3 DEF D!Away, DeskRecords, EditorSound

\* What another step does to a transaction that it does not belong to: rows it
\* had locked stay locked, and it may have been overtaken.
LEMMA OthersKeepSound ==
    ASSUME NEW e, NEW d \in DeskRecords, NEW q,
           NEW doc \in DocumentRecords, NEW after \in DocumentRecords,
           NEW locks, NEW held, NEW last, NEW n,
           EditorSound(d, e, doc, locks, last),
           q = d \/ (q.beside /\ q = [d EXCEPT !.beside = q.beside]),
           d.step \in {"saving", "restoring"} => q.beside \/ after = doc,
           doc.status # "absent" => after.status # "absent",
           \A r \in D!Rows : locks[r] = e => held[r] = e,
           d.number # 0 => n = last
    PROVE  q \in DeskRecords /\ EditorSound(q, e, after, held, n)
<1>1. /\ q \in DeskRecords
      /\ q.step = d.step /\ q.todo = d.todo /\ q.text = d.text /\ q.number = d.number
      /\ q.match = d.match
      /\ q = d \/ q.beside
  BY DEF DeskRecords
<1>2. Locked(q) = Locked(d) /\ ToLock(q) = ToLock(d)
  BY <1>1 DEF Locked, ToLock
<1>3. Locked(d) \subseteq D!Rows
  BY DEF Locked, D!Rows
<1>4. d.step \in {"saving", "restoring"} => \A r \in Locked(d) : held[r] = e
  BY <1>3 DEF EditorSound
<1> QED BY <1>1, <1>2, <1>4 DEF EditorSound

\* What the types of Documents say, conjunct by conjunct.
LEMMA DocumentTypes ==
    ASSUME DocumentsInv
    PROVE  /\ document \in DocumentRecords /\ editor \in [Handlers -> DeskRecords]
           /\ versions \in [D!Numbers -> Texts \cup {Nothing}]
           /\ rowlock \in [D!Rows -> Handlers \cup {Nothing}]
           /\ clock \in 0 .. MaxTxs /\ surprises = {} /\ MaxTxs \in Nat
           /\ Last \in 0 .. MaxTxs
           /\ Nothing \notin Texts /\ Nothing \notin Handlers
BY WorkspaceAssumption
   DEF DocumentsInv, D!DTypeOK, DocumentRecords, DeskRecords, VersionsNumbered, D!DocumentsAssumption

\* Nobody adds a version before the document is there.
LEMMA DocumentCreated ==
    ASSUME DocumentsInv, NEW title \in Titles, NEW text \in Texts \cup {Nothing},
           NEW status \in D!Statuses,
           \/ text \in Texts /\ D!CreateDocument(title, text, status)
           \/ D!CreateArtifact(title, status)
    PROVE  DocumentsInv'
<1> USE DEF D!Exists, D!Begins
<1>1. VersionsNumbered /\ VersionsCounted /\ EditorsSound
  BY DEF DocumentsInv
<1>2. /\ document \in DocumentRecords /\ editor \in [Handlers -> DeskRecords]
      /\ versions \in [D!Numbers -> Texts \cup {Nothing}]
      /\ clock \in 0 .. MaxTxs /\ MaxTxs \in Nat /\ Nothing \notin Texts
  BY DocumentTypes
<1>3. /\ document.status = "absent" /\ Last = 0 /\ D!Taken = {}
      /\ clock < MaxTxs /\ clock' = clock + 1
      /\ UNCHANGED <<rowlock, editor, surprises>>
  BY <1>1 DEF VersionsNumbered, D!CreateDocument, D!CreateArtifact
<1>4. PICK words \in Texts \cup {Nothing} :
        document' = [status |-> status, title |-> title, text |-> words, stamp |-> clock + 1]
        /\ words = (IF versions' = versions THEN Nothing ELSE text)
  <2>1. CASE D!CreateArtifact(title, status)
    BY <2>1 DEF D!CreateArtifact
  <2>2. CASE text \in Texts /\ D!CreateDocument(title, text, status)
    <3>1. 1 \in D!Numbers /\ versions[1] = Nothing
      BY <1>2, <1>3 DEF D!Numbers, D!Taken
    <3>2. versions'[1] = text /\ text # Nothing
      BY <1>2, <2>2, <3>1 DEF D!CreateDocument
    <3> QED BY <2>2, <3>1, <3>2 DEF D!CreateDocument
  <2> QED BY <2>1, <2>2
<1>5. document' \in DocumentRecords /\ document'.status # "absent" /\ document'.text = words
  BY <1>2, <1>3, <1>4 DEF DocumentRecords, D!Statuses
<1>6. /\ versions' \in [D!Numbers -> Texts \cup {Nothing}]
      /\ versions' = versions \/ versions' = [versions EXCEPT ![1] = text]
  BY <1>2 DEF D!CreateDocument, D!CreateArtifact
<1>7. VersionsNumbered' /\ Last' \in {0, 1}
  <2>1. CASE versions' = versions
    BY <1>1, <1>3, <1>4, <1>5, <2>1
       DEF VersionsNumbered, D!Taken, Last, D!NextNumber
  <2>2. CASE versions' # versions
    <3>1. D!Taken' = 1 .. 1
      BY <1>2, <1>3, <1>6, <2>2 DEF D!Taken, D!Numbers
    <3>2. Last' = 1
      <4>1. D!NextNumber' = 1 + 1
        BY <3>1, NumberAfter DEF D!NextNumber
      <4> QED BY <4>1 DEF Last
    <3>3. versions'[1] = text
      BY <1>2, <1>3, <1>6, <2>2 DEF D!Numbers
    <3> QED BY <1>2, <1>3, <1>4, <1>5, <2>2, <3>1, <3>2, <3>3 DEF VersionsNumbered
  <2> QED BY <2>1, <2>2
<1>8. VersionsCounted'
  <2>1. OpenTxs' = OpenTxs /\ Cardinality(OpenTxs) \in Nat
    BY <1>1, <1>3, FS_CardinalityType DEF OpenTxs, D!InTx, VersionsCounted
  <2> QED BY <1>1, <1>2, <1>3, <1>7, <2>1 DEF VersionsCounted
<1>9. EditorsSound'
  BY <1>1, <1>3 DEF EditorsSound, EditorSound
<1>10. D!DTypeOK'
  BY <1>2, <1>3, <1>5, <1>6 DEF DocumentsInv, D!DTypeOK, DocumentRecords
<1> QED BY <1>3, <1>7, <1>8, <1>9, <1>10 DEF DocumentsInv

\* What Patch changes, the open transactions have been overtaken by.
LEMMA DocumentPatched ==
    ASSUME DocumentsInv, NEW title \in Titles, NEW status \in D!Statuses,
           D!Patch(title, status)
    PROVE  DocumentsInv'
<1> USE DEF D!Exists, D!Begins
<1>1. VersionsNumbered /\ VersionsCounted /\ EditorsSound
  BY DEF DocumentsInv
<1>2. /\ document \in DocumentRecords /\ editor \in [Handlers -> DeskRecords]
      /\ clock \in 0 .. MaxTxs /\ MaxTxs \in Nat
  BY DocumentTypes
<1>3. /\ clock' = clock + 1 /\ clock' \in 0 .. MaxTxs
      /\ document' = [document EXCEPT !.title = title, !.status = status, !.stamp = clock + 1]
      /\ UNCHANGED <<versions, rowlock, surprises>>
  BY <1>2 DEF D!Patch
<1>4. document' \in DocumentRecords /\ document'.text = document.text /\ document'.status # "absent"
  BY <1>2, <1>3 DEF DocumentRecords, D!Statuses
<1>5. VersionsNumbered' /\ Last' = Last
  <2>1. D!Taken' = D!Taken
    BY <1>3 DEF D!Taken
  <2>2. D!NextNumber' = D!NextNumber
    BY <2>1 DEF D!NextNumber
  <2>3. Last' = Last
    BY <2>2 DEF Last
  <2> QED BY <1>1, <1>3, <1>4, <2>1, <2>3 DEF VersionsNumbered
<1>6. ASSUME NEW z \in Handlers
      PROVE  /\ editor'[z] \in DeskRecords /\ editor'[z].step = editor[z].step
             /\ EditorSound(editor'[z], z, document', rowlock', Last')
  <2>1. PICK d \in DeskRecords : d = editor[z]
    BY <1>2
  <2>2. editor'[z] = [d EXCEPT !.beside = d.beside \/ D!InTx(z)]
    BY <2>1 DEF D!Patch
  <2>3. /\ editor'[z].step = d.step
        /\ d.step \in {"saving", "restoring"} => editor'[z].beside
        /\ editor'[z] = d \/ (editor'[z].beside /\ editor'[z] = [d EXCEPT !.beside = editor'[z].beside])
    <3>1. CASE D!InTx(z)
      <4>1. editor'[z] = [d EXCEPT !.beside = TRUE]
        BY <2>2, <3>1
      <4> QED BY <4>1 DEF DeskRecords
    <3>2. CASE ~D!InTx(z)
      <4>1. editor'[z] = [d EXCEPT !.beside = d.beside] /\ d.beside \in BOOLEAN
        BY <2>2, <3>2 DEF DeskRecords
      <4>2. editor'[z] = d
        BY <4>1 DEF DeskRecords
      <4> QED BY <2>1, <3>2, <4>2 DEF D!InTx
    <3> QED BY <3>1, <3>2
  <2>4. EditorSound(d, z, document, rowlock, Last)
    BY <1>1, <2>1 DEF EditorsSound
  <2>5. editor'[z] \in DeskRecords /\ EditorSound(editor'[z], z, document', rowlock, Last)
    BY <1>2, <1>4, <2>3, <2>4, OthersKeepSound
  <2> QED BY <1>3, <1>5, <2>1, <2>3, <2>5
<1>7. EditorsSound' /\ editor' \in [Handlers -> DeskRecords]
  BY <1>6 DEF EditorsSound, D!Patch
<1>8. VersionsCounted'
  <2>1. OpenTxs' = OpenTxs /\ Cardinality(OpenTxs) \in Nat
    BY <1>1, <1>6, FS_CardinalityType DEF OpenTxs, D!InTx, VersionsCounted
  <2> QED BY <1>1, <1>2, <1>3, <1>5, <2>1 DEF VersionsCounted, VersionsNumbered
<1>9. D!DTypeOK'
  BY <1>3, <1>4, <1>7 DEF DocumentsInv, D!DTypeOK, DocumentRecords, DeskRecords
<1> QED BY <1>3, <1>5, <1>7, <1>8, <1>9 DEF DocumentsInv

\* A step of one editor that leaves the document alone, and the locks of the
\* others.
LEMMA EditorMoves ==
    ASSUME DocumentsInv, NEW e \in Handlers, NEW d \in DeskRecords,
           editor' = [editor EXCEPT ![e] = d],
           UNCHANGED <<document, versions, surprises>>,
           rowlock' \in [D!Rows -> Handlers \cup {Nothing}],
           \A z \in Handlers \ {e} : \A r \in D!Rows : rowlock[r] = z => rowlock'[r] = z,
           EditorSound(d, e, document, rowlock', Last),
           \/ clock' = clock + 1 /\ clock < MaxTxs
           \/ clock' = clock /\ (d.step \in {"saving", "restoring"} => D!InTx(e))
    PROVE  DocumentsInv'
<1>1. VersionsNumbered /\ VersionsCounted /\ EditorsSound
  BY DEF DocumentsInv
<1>2. /\ document \in DocumentRecords /\ editor \in [Handlers -> DeskRecords]
      /\ clock \in 0 .. MaxTxs /\ MaxTxs \in Nat /\ Last \in 0 .. MaxTxs
  BY DocumentTypes
<1>3. VersionsNumbered' /\ Last' = Last
  <2>1. D!Taken' = D!Taken
    BY DEF D!Taken
  <2>2. D!NextNumber' = D!NextNumber
    BY <2>1 DEF D!NextNumber
  <2>3. Last' = Last
    BY <2>2 DEF Last
  <2> QED BY <1>1, <2>1, <2>3 DEF VersionsNumbered, D!Exists
<1>4. /\ editor'[e] = d /\ \A z \in Handlers \ {e} : editor'[z] = editor[z]
      /\ editor' \in [Handlers -> DeskRecords]
  BY <1>2
<1>5. EditorsSound'
  <2>1. ASSUME NEW z \in Handlers, z # e
        PROVE  EditorSound(editor[z], z, document, rowlock', Last)
    <3>1. EditorSound(editor[z], z, document, rowlock, Last) /\ editor[z] \in DeskRecords
      BY <1>1, <1>2 DEF EditorsSound
    <3> QED BY <1>2, <2>1, <3>1, OthersKeepSound
  <2> QED BY <1>3, <1>4, <2>1 DEF EditorsSound
<1>6. VersionsCounted'
  <2>1. D!InTx(e)' => d.step \in {"saving", "restoring"}
    BY <1>4 DEF D!InTx
  <2>2. clock' \in Nat
    BY <1>2
  <2> QED BY <1>1, <1>2, <1>3, <1>4, <2>1, <2>2, OpenTxsChange DEF VersionsCounted
<1>7. clock' \in 0 .. MaxTxs
  BY <1>2
<1>8. D!DTypeOK'
  BY <1>4, <1>7 DEF DocumentsInv, D!DTypeOK, DeskRecords
<1> QED BY <1>3, <1>5, <1>6, <1>8 DEF DocumentsInv

\* A request begins: what it looks at is the document.
LEMMA DocumentBegun ==
    ASSUME DocumentsInv, NEW e \in Handlers,
           \/ D!Open(e)
           \/ \E match \in BOOLEAN : \E text \in Texts \cup {Nothing} : \E rename \in Titles :
                D!BeginSave(e, match, rename, text)
           \/ \E n \in D!Numbers : D!BeginRestore(e, n)
    PROVE  DocumentsInv'
<1> USE DEF D!Exists, D!Begins
<1>1. EditorsSound
  BY DEF DocumentsInv
<1>2. /\ document \in DocumentRecords /\ editor \in [Handlers -> DeskRecords]
      /\ versions \in [D!Numbers -> Texts \cup {Nothing}]
      /\ rowlock \in [D!Rows -> Handlers \cup {Nothing}]
      /\ clock \in 0 .. MaxTxs /\ MaxTxs \in Nat /\ Nothing \notin Texts
  BY DocumentTypes
<1>3. PICK old \in DeskRecords : old = editor[e] /\ EditorSound(old, e, document, rowlock, Last)
  BY <1>1, <1>2 DEF EditorsSound
<1>4. CASE D!Open(e)
  <2>1. PICK d : d = [old EXCEPT !.step = "reading", !.seen = document.stamp]
    OBVIOUS
  <2>2. document.stamp \in 0 .. MaxTxs
    BY <1>2 DEF DocumentRecords
  <2>3. /\ d \in DeskRecords /\ d.step = "reading" /\ d.match = old.match
        /\ d.number = old.number
    BY <2>1, <2>2 DEF DeskRecords
  <2>4. editor' = [editor EXCEPT ![e] = d] /\ old.step = "away"
    BY <1>2, <1>3, <1>4, <2>1 DEF D!Open, DeskRecords
  <2>5. EditorSound(d, e, document, rowlock, Last)
    BY <1>3, <2>3, <2>4 DEF EditorSound
  <2>6. UNCHANGED <<document, versions, rowlock, clock, surprises>>
    BY <1>4 DEF D!Open
  <2> QED BY <1>2, <2>3, <2>4, <2>5, <2>6, EditorMoves
<1>5. ASSUME NEW match \in BOOLEAN, NEW text \in Texts \cup {Nothing}, NEW rename \in Titles,
             D!BeginSave(e, match, rename, text)
      PROVE  DocumentsInv'
  <2>1. PICK todo : todo = IF text = Nothing THEN <<"artifact">> ELSE <<"artifact", "body">>
    OBVIOUS
  <2>2. PICK d : d = [old EXCEPT !.step = "saving", !.match = match, !.title = document.title,
                      !.rename = rename, !.text = text, !.begun = clock + 1, !.todo = todo]
    OBVIOUS
  <2>3. /\ old.step = "reading" /\ clock < MaxTxs /\ clock' = clock + 1
        /\ document.status \in {"draft", "published"}
        /\ match => old.seen = document.stamp
        /\ UNCHANGED <<document, versions, rowlock, surprises>>
    BY <1>3, <1>5 DEF D!BeginSave
  <2>4. document.title \in Titles /\ clock + 1 \in 0 .. MaxTxs
    BY <1>2, <2>3 DEF DocumentRecords
  <2>5. /\ d \in DeskRecords /\ d.step = "saving" /\ d.match = match /\ d.title = document.title
        /\ d.text = text /\ d.todo = todo /\ d.seen = old.seen /\ d.number = old.number
    BY <2>1, <2>2, <2>4 DEF DeskRecords
  <2>6. editor' = [editor EXCEPT ![e] = d]
    BY <1>3, <1>5, <2>1, <2>2 DEF D!BeginSave
  <2>7. Locked(d) = {} /\ d.todo \in ToLock(d)
    <3>1. <<"artifact">> # <<>> /\ <<"artifact">> # <<"body">>
      OBVIOUS
    <3>2. /\ <<"artifact", "body">> # <<>> /\ <<"artifact", "body">> # <<"body">>
          /\ <<"artifact", "body">> # <<"artifact">>
      OBVIOUS
    <3> QED BY <2>1, <2>5, <3>1, <3>2 DEF Locked, ToLock
  <2>8. EditorSound(d, e, document, rowlock, Last)
    BY <1>3, <2>3, <2>5, <2>7 DEF EditorSound
  <2> QED BY <1>2, <2>3, <2>5, <2>6, <2>8, EditorMoves
<1>6. ASSUME NEW n \in D!Numbers, D!BeginRestore(e, n)
      PROVE  DocumentsInv'
  <2>1. PICK d : d = [old EXCEPT !.step = "restoring", !.text = versions[n], !.begun = clock + 1,
                      !.todo = <<"body", "artifact">>]
    OBVIOUS
  <2>2. /\ old.step = "reading" /\ clock < MaxTxs /\ clock' = clock + 1
        /\ document.status \in {"draft", "published"}
        /\ versions[n] \in Texts /\ versions[n] # Nothing
        /\ UNCHANGED <<document, versions, rowlock, surprises>>
    BY <1>2, <1>3, <1>6 DEF D!BeginRestore
  <2>3. clock + 1 \in 0 .. MaxTxs
    BY <1>2, <2>2
  <2>4. /\ d \in DeskRecords /\ d.step = "restoring" /\ d.match = old.match
        /\ d.text = versions[n] /\ d.todo = <<"body", "artifact">> /\ d.number = old.number
    BY <2>1, <2>2, <2>3 DEF DeskRecords
  <2>5. editor' = [editor EXCEPT ![e] = d]
    BY <1>3, <1>6, <2>1 DEF D!BeginRestore
  <2>6. Locked(d) = {} /\ d.todo \in ToLock(d)
    BY <2>4 DEF Locked, ToLock
  <2>7. EditorSound(d, e, document, rowlock, Last)
    BY <1>3, <2>2, <2>4, <2>6 DEF EditorSound
  <2> QED BY <1>2, <2>2, <2>4, <2>5, <2>7, EditorMoves
<1> QED BY <1>4, <1>5, <1>6

\* A transaction takes the lock of a row that nobody has, and then numbers its
\* version.
LEMMA DocumentLocked ==
    ASSUME DocumentsInv, NEW e \in Handlers, D!Update(e) \/ D!Number(e)
    PROVE  DocumentsInv'
<1>1. EditorsSound /\ VersionsNumbered
  BY DEF DocumentsInv
<1>2. /\ editor \in [Handlers -> DeskRecords] /\ rowlock \in [D!Rows -> Handlers \cup {Nothing}]
      /\ Last \in 0 .. MaxTxs /\ MaxTxs \in Nat /\ Nothing \notin Handlers
  BY DocumentTypes
<1>3. PICK old \in DeskRecords : old = editor[e] /\ EditorSound(old, e, document, rowlock, Last)
  BY <1>1, <1>2 DEF EditorsSound
<1>4. D!InTx(e) /\ old.step \in {"saving", "restoring"}
  BY <1>3 DEF D!Update, D!Number, D!InTx
<1>5. CASE D!Update(e)
  <2>1. PICK row, rest : row = Head(old.todo) /\ rest = Tail(old.todo)
    OBVIOUS
  <2>2. PICK d : d = [old EXCEPT !.todo = rest]
    OBVIOUS
  <2>3. /\ old.todo # <<>> /\ rowlock[row] = Nothing
        /\ rowlock' = [rowlock EXCEPT ![row] = e]
        /\ editor' = [editor EXCEPT ![e] = d]
        /\ UNCHANGED <<document, versions, clock, surprises>>
    BY <1>3, <1>5, <2>1, <2>2 DEF D!Update
  <2>4. /\ row \in D!Rows
        /\ rest \in {<<>>, <<"artifact">>, <<"body">>}
        /\ old.todo \in ToLock(old)
        /\ old.todo = <<"artifact">> => row = "artifact" /\ rest = <<>>
        /\ old.todo = <<"body">> => row = "body" /\ rest = <<>>
        /\ old.todo = <<"artifact", "body">> => row = "artifact" /\ rest = <<"body">>
        /\ old.todo = <<"body", "artifact">> => row = "body" /\ rest = <<"artifact">>
    <3>1. /\ Head(<<"artifact">>) = "artifact" /\ Tail(<<"artifact">>) = <<>>
          /\ Head(<<"body">>) = "body" /\ Tail(<<"body">>) = <<>>
      OBVIOUS
    <3>2. /\ Head(<<"artifact", "body">>) = "artifact"
          /\ Tail(<<"artifact", "body">>) = <<"body">>
      OBVIOUS
    <3>3. /\ Head(<<"body", "artifact">>) = "body"
          /\ Tail(<<"body", "artifact">>) = <<"artifact">>
      OBVIOUS
    <3>4. old.todo \in {<<"artifact">>, <<"body">>, <<"artifact", "body">>, <<"body", "artifact">>}
      BY <2>3 DEF DeskRecords
    <3>5. old.todo \in ToLock(old)
      BY <1>3, <1>4 DEF EditorSound
    <3>6. CASE old.todo = <<"artifact">>
      BY <2>1, <3>1, <3>5, <3>6 DEF D!Rows
    <3>9. CASE old.todo = <<"body">>
      BY <2>1, <3>1, <3>5, <3>9 DEF D!Rows
    <3>7. CASE old.todo = <<"artifact", "body">>
      BY <2>1, <3>2, <3>5, <3>7 DEF D!Rows
    <3>8. CASE old.todo = <<"body", "artifact">>
      BY <2>1, <3>3, <3>5, <3>8 DEF D!Rows
    <3> QED BY <3>4, <3>6, <3>7, <3>8, <3>9
  <2>5. /\ d \in DeskRecords /\ d.step = old.step /\ d.text = old.text /\ d.todo = rest
        /\ d.match = old.match /\ d.seen = old.seen /\ d.title = old.title
        /\ d.beside = old.beside /\ d.number = old.number
    BY <2>2, <2>4 DEF DeskRecords
  <2>6. d.todo \in ToLock(d) /\ Locked(d) \subseteq Locked(old) \cup {row}
    <3>1. /\ <<>> # <<"artifact">> /\ <<>> # <<"body">> /\ <<"artifact">> # <<"body">>
          /\ <<"artifact", "body">> \notin {<<>>, <<"artifact">>, <<"body">>, <<"body", "artifact">>}
          /\ <<"body", "artifact">> \notin {<<>>, <<"artifact">>, <<"body">>}
      OBVIOUS
    <3>2. CASE old.step = "restoring"
      <4>1. old.todo \in {<<"body", "artifact">>, <<"artifact">>} /\ old.text # Nothing
        BY <1>3, <2>3, <2>4, <3>2 DEF ToLock, EditorSound
      <4> QED BY <2>4, <2>5, <3>1, <3>2, <4>1 DEF ToLock, Locked
    <3>3. CASE old.step # "restoring" /\ old.text = Nothing
      <4>1. old.todo = <<"artifact">>
        BY <2>3, <2>4, <3>3 DEF ToLock
      <4> QED BY <2>4, <2>5, <3>1, <3>3, <4>1 DEF ToLock, Locked
    <3>4. CASE old.step # "restoring" /\ old.text # Nothing
      <4>1. old.todo \in {<<"artifact", "body">>, <<"body">>}
        BY <2>3, <2>4, <3>4 DEF ToLock
      <4> QED BY <2>4, <2>5, <3>1, <3>4, <4>1 DEF ToLock, Locked
    <3> QED BY <3>2, <3>3, <3>4
  <2>7. /\ rowlock' \in [D!Rows -> Handlers \cup {Nothing}] /\ rowlock'[row] = e
        /\ \A r \in D!Rows \ {row} : rowlock'[r] = rowlock[r]
    BY <1>2, <2>3, <2>4
  <2>8. Locked(old) \subseteq D!Rows
    BY DEF Locked, D!Rows
  <2>9. \A r \in Locked(d) : rowlock'[r] = e
    BY <1>3, <1>4, <2>6, <2>7, <2>8 DEF EditorSound
  <2>10. EditorSound(d, e, document, rowlock', Last)
    BY <1>3, <1>4, <2>3, <2>5, <2>6, <2>9 DEF EditorSound
  <2>11. \A z \in Handlers \ {e} : \A r \in D!Rows : rowlock[r] = z => rowlock'[r] = z
    BY <1>2, <2>3, <2>7
  <2> QED BY <1>4, <2>3, <2>5, <2>7, <2>10, <2>11, EditorMoves
<1>6. CASE D!Number(e)
  <2>1. PICK d : d = [old EXCEPT !.number = Last + 1]
    OBVIOUS
  <2>2. D!NextNumber = Last + 1
    <3>1. PICK k \in Nat : k = Last
      BY <1>2
    <3>2. D!Taken = 1 .. k
      BY <1>1, <3>1 DEF VersionsNumbered
    <3>3. D!NextNumber = k + 1
      BY <3>2, NumberAfter DEF D!NextNumber
    <3> QED BY <3>1, <3>3
  <2>3. /\ old.todo = <<>> /\ old.text # Nothing
        /\ editor' = [editor EXCEPT ![e] = d]
        /\ UNCHANGED <<document, versions, rowlock, clock, surprises>>
    BY <1>3, <1>6, <2>1, <2>2 DEF D!Number
  <2>4. Last + 1 \in 0 .. MaxTxs + 1
    BY <1>2
  <2>5. /\ d \in DeskRecords /\ d.step = old.step /\ d.text = old.text /\ d.todo = old.todo
        /\ d.match = old.match /\ d.seen = old.seen /\ d.title = old.title
        /\ d.beside = old.beside /\ d.number = Last + 1
    BY <2>1, <2>4 DEF DeskRecords
  <2>6. ToLock(d) = ToLock(old) /\ Locked(d) = Locked(old)
    BY <2>5 DEF ToLock, Locked
  <2>7. EditorSound(d, e, document, rowlock, Last)
    BY <1>3, <1>4, <2>3, <2>5, <2>6 DEF EditorSound
  <2> QED BY <1>2, <1>4, <2>3, <2>5, <2>7, EditorMoves
<1> QED BY <1>5, <1>6

\* An end gives up the locks of its own transaction.
LEMMA UnlocksItsOwn ==
    ASSUME DocumentsInv, NEW e \in Handlers, rowlock' = D!Unlocked(e)
    PROVE  /\ rowlock' \in [D!Rows -> Handlers \cup {Nothing}]
           /\ \A z \in Handlers \ {e} : \A r \in D!Rows : rowlock[r] = z => rowlock'[r] = z
<1>1. rowlock \in [D!Rows -> Handlers \cup {Nothing}]
  BY DocumentTypes
<1> QED BY <1>1 DEF D!Unlocked

\* A transaction of Documents that is rolled back keeps the invariant.
LEMMA DocumentAborted ==
    ASSUME DocumentsInv, NEW e \in Handlers, D!Abort(e)
    PROVE  DocumentsInv'
<1>1. /\ editor' = [editor EXCEPT ![e] = D!Away] /\ rowlock' = D!Unlocked(e)
      /\ UNCHANGED <<document, versions, clock, surprises>>
  BY DEF D!Abort
<1>2. EditorSound(D!Away, e, document, rowlock', Last)
  BY AwayIsSound
<1> QED BY <1>1, <1>2, AwayIsSound, UnlocksItsOwn, EditorMoves

\* A commit has the locks of what it writes, so that nobody took its number,
\* and what it looked at is still so or it has been overtaken.
LEMMA DocumentCommitted ==
    ASSUME DocumentsInv, NEW e \in Handlers, D!Commit(e)
    PROVE  DocumentsInv'
<1> DEFINE n == editor[e].number
<1>1. VersionsNumbered /\ VersionsCounted /\ EditorsSound
  BY DEF DocumentsInv
<1>2. /\ document \in DocumentRecords /\ editor \in [Handlers -> DeskRecords]
      /\ versions \in [D!Numbers -> Texts \cup {Nothing}]
      /\ clock \in 0 .. MaxTxs /\ MaxTxs \in Nat /\ Last \in 0 .. MaxTxs
      /\ surprises = {} /\ Nothing \notin Texts
  BY DocumentTypes
<1>3. PICK old \in DeskRecords : old = editor[e] /\ EditorSound(old, e, document, rowlock, Last)
  BY <1>1, <1>2 DEF EditorsSound
<1>4. /\ D!InTx(e) /\ old.step \in {"saving", "restoring"} /\ old.todo = <<>>
      /\ old.text = Nothing \/ old.number # 0
      /\ document.status # "absent" /\ rowlock' = D!Unlocked(e) /\ clock' = clock
  BY <1>3 DEF D!Commit, D!InTx, D!Exists
<1>5. old.number # 0 => old.number = Last + 1 /\ old.text \in Texts
  BY <1>3 DEF EditorSound, DeskRecords
<1>6. n \notin D!Taken
  BY <1>1, <1>2, <1>3, <1>5 DEF VersionsNumbered
<1>7. D!Surprise(e) = {}
  BY <1>3, <1>4 DEF D!Surprise, EditorSound
<1>8. PICK title, text :
        /\ title = IF old.step = "saving" THEN old.rename ELSE document.title
        /\ text = IF old.number = 0 THEN document.text ELSE old.text
  OBVIOUS
<1>9. /\ surprises' = {}
      /\ D!Changed(e)
      /\ document' = [document EXCEPT !.title = title, !.text = text, !.stamp = old.begun]
      /\ versions' = IF old.number = 0 THEN versions
                     ELSE [versions EXCEPT ![old.number] = old.text]
  BY <1>2, <1>3, <1>6, <1>7, <1>8 DEF D!Commit
<1>10. title \in Titles /\ text \in Texts \cup {Nothing} /\ old.begun \in 0 .. MaxTxs
  BY <1>2, <1>8 DEF DocumentRecords, DeskRecords
<1>11. document' \in DocumentRecords /\ document'.text = text /\ document'.status = document.status
  BY <1>2, <1>9, <1>10 DEF DocumentRecords
<1>12. /\ editor'[e] = D!Away
       /\ \A z \in Handlers \ {e} :
            editor'[z] = [editor[z] EXCEPT !.beside = editor[z].beside \/ D!InTx(z)]
       /\ editor' = [z \in Handlers |-> editor'[z]]
  BY <1>9 DEF D!Changed
<1>13. ASSUME NEW z \in Handlers \ {e}
       PROVE  \E d \in DeskRecords :
                /\ d = editor[z] /\ editor'[z].step = d.step
                /\ d.step \in {"saving", "restoring"} => editor'[z].beside
                /\ \/ editor'[z] = d
                   \/ editor'[z].beside /\ editor'[z] = [d EXCEPT !.beside = editor'[z].beside]
  <2>1. PICK d \in DeskRecords : d = editor[z]
    BY <1>2
  <2>2. editor'[z] = [d EXCEPT !.beside = d.beside \/ D!InTx(z)]
    BY <1>12, <2>1
  <2>3. CASE D!InTx(z)
    <3>1. editor'[z] = [d EXCEPT !.beside = TRUE]
      BY <2>2, <2>3
    <3>2. editor'[z].step = d.step /\ editor'[z].beside = TRUE
      BY <3>1 DEF DeskRecords
    <3> QED BY <2>1, <3>1, <3>2
  <2>4. CASE ~D!InTx(z)
    <3>1. editor'[z] = [d EXCEPT !.beside = d.beside]
      BY <2>2, <2>4 DEF DeskRecords
    <3>2. editor'[z] = d
      BY <3>1 DEF DeskRecords
    <3> QED BY <2>1, <2>4, <3>2 DEF D!InTx
  <2> QED BY <2>3, <2>4
<1>14. /\ IsFiniteSet(OpenTxs) /\ Last + Cardinality(OpenTxs) <= clock
       /\ Cardinality(OpenTxs) \in Nat /\ Cardinality(OpenTxs) >= 1
       /\ IsFiniteSet(OpenTxs') /\ Cardinality(OpenTxs') = Cardinality(OpenTxs) - 1
  <2>1. ~D!InTx(e)'
    BY <1>12, AwayIsSound DEF D!InTx
  <2> QED BY ZenonT(30), <1>1, <1>4, <1>13, <2>1, OpenTxsChange DEF VersionsCounted
<1>15. /\ VersionsNumbered' /\ Last' \in Nat
       /\ Last' = IF old.number = 0 THEN Last ELSE Last + 1
  <2>1. CASE old.number = 0
    <3>1. D!Taken' = D!Taken
      BY <1>9, <2>1 DEF D!Taken
    <3>2. D!NextNumber' = D!NextNumber
      BY <3>1 DEF D!NextNumber
    <3>3. Last' = Last
      BY <3>2 DEF Last
    <3> QED BY <1>1, <1>2, <1>4, <1>8, <1>9, <1>11, <2>1, <3>1, <3>3
            DEF VersionsNumbered, D!Exists
  <2>2. CASE old.number # 0
    <3>1. Last + 1 \in D!Numbers /\ old.number = Last + 1 /\ old.text \in Texts
      BY <1>2, <1>5, <1>14, <2>2 DEF D!Numbers
    <3>2. \A k \in D!Numbers : versions'[k] = IF k = Last + 1 THEN old.text ELSE versions[k]
      BY <1>2, <1>9, <2>2, <3>1
    <3>3. D!Taken' = 1 .. Last + 1
      BY <1>1, <1>2, <3>1, <3>2 DEF VersionsNumbered, D!Taken, D!Numbers
    <3>4. Last' = Last + 1
      <4>1. PICK k \in Nat : k = Last + 1
        BY <1>2
      <4>2. D!Taken' = 1 .. k
        BY <3>3, <4>1
      <4>3. D!NextNumber' = k + 1
        BY <4>2, NumberAfter DEF D!NextNumber
      <4>4. Last' = k
        BY <4>3 DEF Last
      <4> QED BY <4>1, <4>4
    <3>5. Last + 1 \in 0 .. MaxTxs
      BY <1>2, <3>1 DEF D!Numbers
    <3> QED BY <1>2, <1>4, <1>8, <1>11, <2>2, <3>1, <3>2, <3>3, <3>4, <3>5
            DEF VersionsNumbered, D!Exists
  <2> QED BY <2>1, <2>2
<1>16. VersionsCounted'
  BY <1>2, <1>4, <1>14, <1>15 DEF VersionsCounted
<1>17. ASSUME NEW z \in Handlers
       PROVE  editor'[z] \in DeskRecords /\ EditorSound(editor'[z], z, document', rowlock', Last')
  <2>1. CASE z = e
    BY <1>12, <2>1, AwayIsSound
  <2>2. CASE z # e
    <3>1. PICK d \in DeskRecords :
                /\ d = editor[z] /\ editor'[z].step = d.step
                /\ d.step \in {"saving", "restoring"} => editor'[z].beside
                /\ \/ editor'[z] = d
                   \/ editor'[z].beside /\ editor'[z] = [d EXCEPT !.beside = editor'[z].beside]
      BY <1>13, <2>2
    <3>2. EditorSound(d, z, document, rowlock, Last)
      BY <1>1, <3>1 DEF EditorsSound
    <3>3. \A r \in D!Rows : rowlock[r] = z => rowlock'[r] = z
      BY <1>4, <2>2, UnlocksItsOwn
    <3>4. d.number # 0 => Last' = Last
      <4>1. SUFFICES ASSUME d.number # 0, old.number # 0
                     PROVE  FALSE
        BY <1>15
      <4>2. Locked(d) = {"artifact", "body"} /\ Locked(old) = {"artifact", "body"}
        BY <1>3, <3>2, <4>1 DEF EditorSound, Locked
      <4>3. rowlock["body"] = z /\ rowlock["body"] = e
        BY <1>3, <3>2, <4>1, <4>2 DEF EditorSound
      <4> QED BY <2>2, <4>3
    <3>5. /\ document \in DocumentRecords /\ document' \in DocumentRecords
          /\ document.status # "absent" => document'.status # "absent"
      BY <1>2, <1>11
    <3>6. d.step \in {"saving", "restoring"} => editor'[z].beside \/ document' = document
      BY <3>1
    <3>7. \/ editor'[z] = d
          \/ editor'[z].beside /\ editor'[z] = [d EXCEPT !.beside = editor'[z].beside]
      BY <3>1
    <3>8. d.number # 0 => Last' = Last
      BY <3>4
    <3>9. PICK q, k, doc, locks :
            q = editor'[z] /\ k = Last' /\ doc = document' /\ locks = rowlock'
      OBVIOUS
    <3>10. /\ q = d \/ (q.beside /\ q = [d EXCEPT !.beside = q.beside])
           /\ d.step \in {"saving", "restoring"} => q.beside \/ doc = document
           /\ doc \in DocumentRecords
           /\ document.status # "absent" => doc.status # "absent"
           /\ \A r \in D!Rows : rowlock[r] = z => locks[r] = z
           /\ d.number # 0 => k = Last
      BY <3>3, <3>5, <3>6, <3>7, <3>8, <3>9
    <3>11. q \in DeskRecords /\ EditorSound(q, z, doc, locks, k)
      BY <3>2, <3>5, <3>10, OthersKeepSound
    <3> QED BY <3>9, <3>11
  <2> QED BY <2>1, <2>2
<1>18. EditorsSound' /\ editor' \in [Handlers -> DeskRecords]
  BY <1>12, <1>17 DEF EditorsSound
<1>19. versions' \in [D!Numbers -> Texts \cup {Nothing}]
  BY <1>2, <1>5, <1>9
<1>20. D!DTypeOK'
  BY <1>2, <1>4, <1>9, <1>11, <1>18, <1>19, UnlocksItsOwn
     DEF D!DTypeOK, DocumentRecords, DeskRecords
<1> QED BY <1>9, <1>15, <1>16, <1>18, <1>20 DEF DocumentsInv

\* The invariant of Documents holds in every behaviour of Workspace.
LEMMA DocumentsInvariant == Spec => []DocumentsInv
<1>1. Init => DocumentsInv
  <2> SUFFICES ASSUME Init
               PROVE  DocumentsInv
    OBVIOUS
  <2>1. D!DInit /\ MaxTxs \in Nat /\ Nothing \notin Texts
    BY WorkspaceAssumption DEF Init, D!DocumentsAssumption
  <2>2. D!NoDocument \in DocumentRecords /\ D!NoDocument.text = Nothing
    <3>1. PICK t \in Titles : t = CHOOSE x \in Titles : TRUE
      BY WorkspaceAssumption DEF D!DocumentsAssumption
    <3> QED BY <2>1, <3>1 DEF D!NoDocument, DocumentRecords
  <2>3. \A e \in Handlers : editor[e] = D!Away
    BY <2>1 DEF D!DInit
  <2>4. editor \in [Handlers -> DeskRecords]
    BY <2>1, AwayIsSound DEF D!DInit
  <2>5. D!DTypeOK
    BY <2>1, <2>2, <2>4 DEF D!DInit, D!DTypeOK, DocumentRecords, DeskRecords
  <2>6. D!Taken = {} /\ Last = 0
    BY <2>1 DEF D!DInit, D!Taken, Last, D!NextNumber
  <2>7. VersionsNumbered
    BY <2>1, <2>2, <2>6 DEF VersionsNumbered, D!DInit
  <2>8. OpenTxs = {}
    BY <2>3, AwayIsSound DEF OpenTxs, D!InTx
  <2>9. VersionsCounted
    BY <2>1, <2>6, <2>8, FS_EmptySet DEF VersionsCounted, D!DInit
  <2>10. EditorsSound
    BY <2>3, AwayIsSound DEF EditorsSound
  <2> QED BY <2>1, <2>5, <2>7, <2>9, <2>10 DEF DocumentsInv, D!DInit
<1>2. DocumentsInv /\ [Next]_vars => DocumentsInv'
  <2> SUFFICES ASSUME DocumentsInv, [Next]_vars
               PROVE  DocumentsInv'
    OBVIOUS
  <2>1. CASE UNCHANGED documents
    BY ZenonT(30), <2>1 DEF DocumentsInv, D!DTypeOK, VersionsNumbered, VersionsCounted, EditorsSound,
                Last, OpenTxs, D!NextNumber, D!Taken, D!Exists, D!InTx, documents
  <2>2. ASSUME NEW title \in Titles, NEW status \in D!Statuses, D!Patch(title, status)
        PROVE  DocumentsInv'
    BY <2>2, DocumentPatched
  <2>3. ASSUME NEW title \in Titles, NEW status \in D!Statuses,
               \/ \E text \in Texts : D!CreateDocument(title, text, status)
               \/ D!CreateArtifact(title, status)
        PROVE  DocumentsInv'
    <3>1. CASE \E text \in Texts : D!CreateDocument(title, text, status)
      BY <3>1, DocumentCreated
    <3>2. CASE D!CreateArtifact(title, status)
      <4>1. Nothing \in Texts \cup {Nothing}
        OBVIOUS
      <4> QED BY <3>2, <4>1, DocumentCreated
    <3> QED BY <2>3, <3>1, <3>2
  <2>4. ASSUME NEW title \in Titles, NEW text \in Texts, D!GenerateDocument(title, text)
        PROVE  DocumentsInv'
    BY <2>4, DocumentCreated DEF D!GenerateDocument, D!Statuses
  <2>5. CASE D!Delete
    <3>1. document.title \in Titles
      BY DocumentTypes DEF DocumentRecords
    <3> QED BY <2>5, <3>1, DocumentPatched DEF D!Delete, D!Statuses
  <2>6. ASSUME NEW e \in Handlers, D!EditorStep(e)
        PROVE  DocumentsInv'
    BY <2>6, DocumentBegun, DocumentLocked, DocumentCommitted, DocumentAborted DEF D!EditorStep
  <2> QED BY <2>1, <2>2, <2>3, <2>4, <2>5, <2>6, OneAtATime DEF D!DNext
<1> QED BY <1>1, <1>2, PTL DEF Spec

\* The versions of a document are numbered without a gap, the last is the text
\* of its body, and no save or restoration is refused for its number or does
\* what its client would not expect unless it was overtaken (PatchDocument,
\* RestoreVersion, createDocumentVersion).
THEOREM DocumentsAreSound == Spec => []DocumentsSound
<1>1. DocumentsInv => DocumentsSound
  <2> SUFFICES ASSUME DocumentsInv
               PROVE  DocumentsSound
    OBVIOUS
  <2>1. VersionsNumbered /\ surprises = {} /\ Last \in Nat /\ D!NextNumber = Last + 1
    <3>1. VersionsNumbered /\ surprises = {} /\ Last \in Nat
      BY DocumentTypes DEF DocumentsInv
    <3> QED BY SMTT(30), <3>1, NumberAfter DEF VersionsNumbered, D!NextNumber
  <2>2. \A n \in D!Taken : n > 1 => n - 1 \in D!Taken
    BY <2>1 DEF VersionsNumbered
  <2>3. document.text = (IF D!Taken = {} THEN Nothing ELSE versions[D!NextNumber - 1])
    BY <2>1 DEF VersionsNumbered
  <2> QED BY <2>1, <2>2, <2>3 DEF DocumentsSound, D!DocumentsSound
<1> QED BY <1>1, DocumentsInvariant, PTL
=============================================================================
