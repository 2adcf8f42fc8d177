------------------------------ MODULE Traversal ------------------------------
(***************************************************************************)
(* get_neighborhood (app/core/graph/service.py): a breadth-first walk from *)
(* one entity over the relationships that its caller may see, bounded in   *)
(* depth, nodes and relationships.  It is a loop in one request; the order *)
(* of the relationships of a node (_sort_key) is any order here.           *)
(***************************************************************************)
EXTENDS Naturals, FiniteSets

CONSTANTS
    Entities,    \* incidents, postmortems, documents, projects, investigations
    Origin,      \* the entity the walk begins at
    Projects,    \* relationships are not followed back from these
    MaxDepth,    \* MAX_TRAVERSAL_DEPTH
    MaxNodes,    \* DEFAULT_MAX_NODES
    MaxRelations \* DEFAULT_MAX_EDGES

ASSUME TraversalConstants ==
    /\ Origin \in Entities
    /\ Projects \subseteq Entities
    /\ MaxDepth \in Nat \ {0} /\ MaxNodes \in Nat \ {0} /\ MaxRelations \in Nat \ {0}

VARIABLES
    related,    \* <<source, target>> of each relationship; never changes
    hidden,     \* entities that _resolve_entity does not show; never changes
    visited, frontier, ahead, depth, seen, truncated,  \* ... of the function
    node,       \* the entity whose relationships are looked at
    todo        \* the relationships of it that are still to be looked at

traversalVars ==
    <<related, hidden, visited, frontier, ahead, depth, seen, truncated, node, todo>>

TraversalInit ==
    /\ related \in SUBSET {e \in Entities \X Entities : e[1] # e[2]}
    /\ hidden \in SUBSET (Entities \ {Origin})
    /\ visited = {Origin} /\ frontier = {Origin} /\ ahead = {}
    /\ depth = 1 /\ seen = {} /\ truncated = FALSE
    /\ node = Origin /\ todo = {}

-----------------------------------------------------------------------------
\* _fk_relationships and _derived_relationships of n, both ends resolved.
DirectRelationships(n) ==
    {e \in related :
        /\ e[1] \notin hidden /\ e[2] \notin hidden
        /\ \/ e[1] = n
           \/ e[2] = n /\ n \notin Projects}

OtherEnd(e) == IF e[2] # node THEN e[2] ELSE e[1]

ExpandNode ==
    /\ todo = {} /\ Cardinality(seen) < MaxRelations
    /\ \E n \in frontier :
        /\ node' = n
        /\ todo' = DirectRelationships(n)
        /\ frontier' = frontier \ {n}
    /\ UNCHANGED <<related, hidden, visited, ahead, depth, seen, truncated>>

Room == Cardinality(visited) < MaxNodes

\* With a plausible mistake: a node that is left out goes unnoticed.
LeftOut_Never(n) == FALSE

\* A node that is new, and for which there is no room.
LeftOut(n) == n \notin visited /\ ~Room

\* `edge_key in seen_edges`: the relationship was found from its other end.
SkipSeen ==
    /\ \E e \in todo \cap seen : todo' = todo \ {e}
    /\ UNCHANGED <<related, hidden, visited, frontier, ahead, depth, seen, truncated, node>>

\* A relationship is recorded even when there is no room for its other end.
TakeRelationship ==
    /\ Cardinality(seen) < MaxRelations
    /\ \E e \in todo \ seen :
        LET other == OtherEnd(e) IN
        /\ seen' = seen \cup {e}
        /\ todo' = todo \ {e}
        /\ truncated' = (truncated \/ LeftOut(other))
        /\ visited' = IF Room THEN visited \cup {other} ELSE visited
        /\ ahead' = IF Room THEN ahead \cup ({other} \ visited) ELSE ahead
    /\ UNCHANGED <<related, hidden, frontier, depth, node>>

\* The cap on relationships ends the depth: at another relationship, and at
\* the end of a node, even if nothing was left.
RelationCapHit ==
    /\ Cardinality(seen) >= MaxRelations
    /\ todo # {} => todo \ seen # {}
    /\ frontier \cup todo # {} \/ ~truncated
    /\ truncated' = TRUE
    /\ todo' = {} /\ frontier' = {}
    /\ UNCHANGED <<related, hidden, visited, ahead, depth, seen, node>>

\* With a plausible mistake: the depths are 0 up to the ceiling.
Deeper_OneMore == depth <= MaxDepth

Deeper == depth < MaxDepth

NextDepth ==
    /\ frontier = {} /\ todo = {} /\ ahead # {}
    /\ Cardinality(seen) >= MaxRelations => truncated
    /\ Deeper
    /\ depth' = depth + 1
    /\ frontier' = ahead /\ ahead' = {}
    /\ UNCHANGED <<related, hidden, visited, seen, truncated, node, todo>>

TraversalNext ==
    \/ ExpandNode
    \/ SkipSeen
    \/ TakeRelationship
    \/ RelationCapHit
    \/ NextDepth

TraversalSpec == TraversalInit /\ [][TraversalNext]_traversalVars

-----------------------------------------------------------------------------
TraversalTypeOK ==
    /\ visited \subseteq Entities /\ frontier \subseteq visited
    /\ ahead \subseteq Entities /\ node \in visited
    /\ seen \subseteq related /\ todo \subseteq related
    /\ Cardinality(visited) <= MaxNodes /\ Cardinality(seen) <= MaxRelations
    /\ depth \in 1..MaxDepth /\ truncated \in BOOLEAN

WalkEnded ==
    /\ frontier = {} /\ todo = {}
    /\ Cardinality(seen) >= MaxRelations => truncated
    /\ ahead = {} \/ ~Deeper

\* What can be reached in at most k steps.
Within[k \in 0..MaxDepth] ==
    IF k = 0 THEN {Origin}
    ELSE Within[k - 1] \cup
            {n \in Entities : \E m \in Within[k - 1] : \E e \in DirectRelationships(m) : n \in {e[1], e[2]}}

(***************************************************************************)
(* "truncated" is honest: a walk that does not report it has returned every*)
(* visible entity within the depth, and every relationship found on the    *)
(* way, in whatever order the relationships came; and no walk leaves the   *)
(* depth or steps on a hidden entity, not even as a bridge.                *)
(***************************************************************************)
CompleteUnlessTruncated ==
    /\ visited \subseteq Within[MaxDepth] \ hidden
    /\ WalkEnded /\ ~truncated =>
        /\ visited = Within[MaxDepth]
        /\ seen = UNION {DirectRelationships(n) : n \in Within[MaxDepth - 1]}
=============================================================================
