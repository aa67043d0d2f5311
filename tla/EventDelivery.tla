--------------------------- MODULE EventDelivery ---------------------------
(***************************************************************************)
(* What the event path promises to the rest of the system, whatever the    *)
(* queue, the stream and the workers do in between: an event takes effect  *)
(* only after its mutation has committed, its effect is that of one        *)
(* Ingest, and effects and reports of failure are never taken back.        *)
(*                                                                         *)
(* The effect is what the graph gains, not a set of events applied: many   *)
(* events only name a node that others name too, so that the rows of an    *)
(* event may all be there before it has happened.                          *)
(***************************************************************************)
CONSTANTS Events, Envelope, Null

VARIABLES
    committed,  \* events whose mutation has committed
    graph,      \* the context graph
    reported    \* events an operator can see as dead letters

INSTANCE ContextGraph

dvars == <<committed, graph, reported>>

Init == committed = {} /\ graph = EmptyGraph /\ reported = {}

Commit(e) ==
    /\ e \notin committed
    /\ committed' = committed \cup {e}
    /\ UNCHANGED <<graph, reported>>

\* Delivery is at least once: an event may be applied again, and be applied
\* and reported.
Apply(e) ==
    /\ e \in committed
    /\ graph' = Ingest(graph, Envelope[e])
    /\ UNCHANGED <<committed, reported>>

Report(e) ==
    /\ e \in committed
    /\ reported' = reported \cup {e}
    /\ UNCHANGED <<committed, graph>>

Next == \E e \in Events : Commit(e) \/ Apply(e) \/ Report(e)

Spec == Init /\ [][Next]_dvars
=============================================================================
