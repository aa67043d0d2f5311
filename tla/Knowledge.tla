----------------------------- MODULE Knowledge -----------------------------
(***************************************************************************)
(* internal/knowledge: the index of one artifact.  A mutation of it may    *)
(* start a job in the background, by the hook that main.go gives to the    *)
(* artifact handler, and an administrator may reindex everything.  A job   *)
(* reads the artifact, compares it with its item in the index and, if they *)
(* differ, replaces the item and its chunks.  The hook's job runs with the *)
(* context of the request, which ends when the handler returns: it may be  *)
(* cut off at any step.                                                    *)
(*                                                                         *)
(* An item is named by a source type and an artifact: a meeting summary is *)
(* indexed as such and as an artifact.  RemoveFromIndex is never called.   *)
(***************************************************************************)
EXTENDS FiniteSets

CONSTANTS
    Texts,   \* what an artifact says: title, summary and content
    Jobs,    \* bound: jobs at work at a time
    NoText   \* no item

KnowledgeAssumption == Texts # {} /\ NoText \notin Texts

VARIABLES
    source,  \* the artifact
    index,   \* its items: the text of each
    job,     \* the jobs in the background
    excuse   \* history: why an item may be out of date, of each source type

kvars == <<source, index, job, excuse>>

\* own: clarity_document or meeting_summary.
SourceTypes == {"own", "artifact"}
Kinds == {"document", "meeting", "plain"}
Idle == [step |-> "idle", type |-> "own", text |-> NoText]

KnTypeOK ==
    /\ source \in [kind : Kinds \cup {"absent"}, text : Texts, live : BOOLEAN]
    /\ index \in [SourceTypes -> Texts \cup {NoText}]
    /\ job \in [Jobs -> [step : {"idle", "asked", "extracted", "differs"},
                         type : SourceTypes, text : Texts \cup {NoText}]]
    /\ excuse \in [SourceTypes -> SUBSET {"unasked", "lost", "overlap"}]

KnInit ==
    /\ source = [kind |-> "absent", text |-> CHOOSE t \in Texts : TRUE, live |-> FALSE]
    /\ index = [t \in SourceTypes |-> NoText]
    /\ job = [j \in Jobs |-> Idle]
    /\ excuse = [t \in SourceTypes |-> {}]

\* The extractors that find an artifact of a kind: that of artifacts leaves
\* documents out, and the others find one kind each.
Extracted(kind) ==
    CASE kind = "document" -> {"own"}
      [] kind = "meeting" -> SourceTypes
      [] kind = "plain" -> {"artifact"}
      [] OTHER -> {}

AtWork(type) == {j \in Jobs : job[j].step # "idle" /\ job[j].type = type}
Exists == source.kind # "absent"

\* The hook starts a job, or there is none.
Fires(type) ==
    \E j \in Jobs :
        /\ job[j].step = "idle"
        /\ job' = [job EXCEPT ![j] = [Idle EXCEPT !.step = "asked", !.type = type]]

\* After the artifact has become new, its items but those of types are behind.
Behind(new, types) ==
    /\ source' = new
    /\ excuse' = [t \in SourceTypes |->
            IF t \in Extracted(new.kind) \ types THEN excuse[t] \cup {"unasked"} ELSE excuse[t]]
    /\ UNCHANGED index

-----------------------------------------------------------------------------
(* Mutations of the artifact, each with its hook *)

\* CreateDocument, GenerateDocument, CreateMeetingSummary, Create,
\* GenerateStatusReport and InstantiateTemplate.
Create(kind, text, live) ==
    LET type == IF kind = "plain" THEN "artifact" ELSE "own" IN
    /\ ~Exists
    /\ Fires(type)
    /\ Behind([kind |-> kind, text |-> text, live |-> live], {type})

\* InstantiateTemplate answers early for a template that holds a document.
InstantiateDocument(text, live) ==
    /\ ~Exists
    /\ Behind([kind |-> "document", text |-> text, live |-> live], {})
    /\ UNCHANGED job

PatchDocument(text) ==
    /\ source.kind = "document" /\ source.live
    /\ Fires("own")
    /\ Behind([source EXCEPT !.text = text], {"own"})

\* RestoreVersion has no hook.
RestoreVersion(text) ==
    /\ source.kind = "document" /\ source.live
    /\ Behind([source EXCEPT !.text = text], {})
    /\ UNCHANGED job

\* PatchMeetingSummary has none either.
PatchMeetingSummary(text, live) ==
    /\ source.kind = "meeting"
    /\ Behind([source EXCEPT !.text = text, !.live = live], {})
    /\ UNCHANGED job

\* Patch takes every artifact for one of type 'artifact'.
Patch(text, live) ==
    /\ Exists
    /\ Fires("artifact")
    /\ Behind([source EXCEPT !.text = text, !.live = live], {"artifact"})

\* Delete archives, and has no hook; the items stay.
Delete ==
    /\ Exists
    /\ source' = [source EXCEPT !.live = FALSE]
    /\ UNCHANGED <<index, job, excuse>>

-----------------------------------------------------------------------------
(* Jobs *)

\* ReindexAll runs every extractor, one after another.
Reindex(type) ==
    /\ Fires(type)
    /\ UNCHANGED <<source, index, excuse>>

\* The extractor reads; one that does not find the artifact ends the job.  A
\* job that reads while another has read may be overtaken by it.
Extract(j) ==
    LET type == job[j].type
        found == type \in Extracted(source.kind) /\ source.live
        others == {k \in AtWork(type) \ {j} : job[k].step # "asked"} IN
    /\ job[j].step = "asked"
    /\ IF found
       THEN /\ job' = [job EXCEPT ![j].step = "extracted", ![j].text = source.text]
            /\ excuse' = [excuse EXCEPT ![type] = IF others = {} THEN {} ELSE {"overlap"}]
       ELSE job' = [job EXCEPT ![j] = Idle] /\ UNCHANGED excuse
    /\ UNCHANGED <<source, index>>

\* Mutant: whatever is in the index is left as it is.
CompareExistence(j) ==
    /\ job[j].step = "extracted"
    /\ job' = IF index[job[j].type] # NoText THEN [job EXCEPT ![j] = Idle]
              ELSE [job EXCEPT ![j].step = "differs"]
    /\ UNCHANGED <<source, index, excuse>>

\* IndexSource skips what has the same hash ...
Compare(j) ==
    /\ job[j].step = "extracted"
    /\ job' = IF index[job[j].type] = job[j].text THEN [job EXCEPT ![j] = Idle]
              ELSE [job EXCEPT ![j].step = "differs"]
    /\ UNCHANGED <<source, index, excuse>>

\* ... and replaces the rest, in one transaction, whatever is there by then.
Upsert(j) ==
    /\ job[j].step = "differs"
    /\ index' = [index EXCEPT ![job[j].type] = job[j].text]
    /\ job' = [job EXCEPT ![j] = Idle]
    /\ UNCHANGED <<source, excuse>>

\* The context of the request has ended, or the database fails.
Lose(j) ==
    /\ job[j].step # "idle"
    /\ job' = [job EXCEPT ![j] = Idle]
    /\ excuse' = [excuse EXCEPT ![job[j].type] = @ \cup {"lost"}]
    /\ UNCHANGED <<source, index>>

-----------------------------------------------------------------------------
KnNext ==
    \/ \E text \in Texts, live \in BOOLEAN :
        \/ \E kind \in Kinds : Create(kind, text, live)
        \/ InstantiateDocument(text, live)
        \/ PatchMeetingSummary(text, live)
        \/ Patch(text, live)
    \/ \E text \in Texts : PatchDocument(text) \/ RestoreVersion(text)
    \/ Delete
    \/ \E type \in SourceTypes : Reindex(type)
    \/ \E j \in Jobs : Extract(j) \/ Compare(j) \/ Upsert(j) \/ Lose(j)

KnSpec == KnInit /\ [][KnNext]_kvars

-----------------------------------------------------------------------------
(* Properties *)

\* An artifact that is not archived is indexed with the text it has, under
\* every source type that its extractors give it, unless a job is about to, or
\* nothing but these has happened since it was last read alone: a mutation
\* without a hook for that type, a job that was cut off, two jobs that
\* overlapped (IndexSource, fireIndexHook).
KnowledgeSound ==
    \A type \in Extracted(source.kind) :
        source.live /\ index[type] # source.text =>
            AtWork(type) # {} \/ excuse[type] # {}
=============================================================================
