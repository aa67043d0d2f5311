---------------------------- MODULE ContextGraph ----------------------------
(***************************************************************************)
(* The context graph that internal/contextx builds from events: the rows   *)
(* that one call of Ingest adds to context_nodes, context_edges and        *)
(* context_edge_evidence.  A table is the set of its unique keys: every    *)
(* INSERT of Ingest names its key in an ON CONFLICT clause.                *)
(***************************************************************************)
CONSTANT Null  \* a field that is missing, or does not parse

Node(team, kind, id) == [team |-> team, kind |-> kind, id |-> id]

\* A missing or unparseable team is the zero UUID, which Null stands for.
Aggregate(env) == Node(env.team, env.kind, env.aggregate)

\* ingestLinkedEdge
LinkedEdge(env) ==
    {e \in {[from |-> Node(env.team, "object", env.from),
             to |-> Node(env.team, "object", env.to),
             relation |-> IF env.relation = Null THEN "linked_to" ELSE env.relation]} :
        env.from # Null /\ env.to # Null}

\* ingestWorkItemEdges
OwnerEdge(env) ==
    {e \in {[from |-> Aggregate(env),
             to |-> Node(env.team, "user", env.to),
             relation |-> "assigned_to_owner"]} : env.to # Null}

\* ingestCommentEdge
CommentEdge(env) ==
    {e \in {[from |-> Node(env.team, "object", env.from),
             to |-> Node(env.team, "comment", env.to),
             relation |-> "has_comment"]} : env.from # Null /\ env.to # Null}

\* ingestTimelineEdge
TimelineEdge(env) ==
    {e \in {[from |-> Aggregate(env),
             to |-> Node(env.team, "comment", env.to),
             relation |-> "timeline_entry"]} : env.to # Null}

\* The edge that the mapping of the event's type asks for, if any.
WantedEdge(env) ==
    CASE env.type = "object.linked" -> LinkedEdge(env)
      [] env.type = "work.item.created" -> OwnerEdge(env)
      [] env.type = "object.commented" -> CommentEdge(env)
      [] env.type = "incident.timeline_added" -> TimelineEdge(env)
      [] OTHER -> {}

\* createDirectEdge: no self-loop, and no edge without an event to witness it.
NewEdges(env) == {e \in WantedEdge(env) : e.from # e.to /\ env.id # Null}

NewNodes(env) ==
    {Aggregate(env)} \cup UNION {{e.from, e.to} : e \in WantedEdge(env)}

NewEvidence(env) == {[edge |-> e, event |-> env.id] : e \in NewEdges(env)}

EmptyGraph == [nodes |-> {}, edges |-> {}, evidence |-> {}]

\* Ingest: one transaction adds all the rows.
Ingest(graph, env) ==
    [nodes |-> graph.nodes \cup NewNodes(env),
     edges |-> graph.edges \cup NewEdges(env),
     evidence |-> graph.evidence \cup NewEvidence(env)]

\* The rows of an event are all there: another delivery of it changes nothing.
Ingested(graph, env) == Ingest(graph, env) = graph
=============================================================================
