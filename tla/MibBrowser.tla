----------------------------- MODULE MibBrowser -----------------------------
(***************************************************************************)
(* What the MIB browser computes from the bundle in memory: the tree by    *)
(* module, the tree by OID and the search (services/browser_service.py),   *)
(* and what a user gets to see of a tree by expanding it: a row has an     *)
(* expander only if the service says that it has children, and expanding   *)
(* it asks for the tree below its OID (frontend/js/modules/browser.js).    *)
(*                                                                         *)
(* Of the texts a search compares only the outcome is kept: how well each  *)
(* node matches.  place is the node's place by module and name.            *)
(***************************************************************************)
EXTENDS Integers, Sequences, FiniteSets, SequencesExt

CONSTANTS
    NodesOf,  \* the objects and notifications of each content of a bundle
    Hits,     \* for each query, the nodes that match with their search_rank
    Internet, \* 1.3.6.1, the root of the tree by OID
    MaxDepth, \* bound: arcs of an OID
    Limits    \* how many results a search may ask for

ASSUME NodesAssumption ==
    /\ MaxDepth \in Nat /\ Internet \in Seq(Nat)
    /\ \A content \in DOMAIN NodesOf :
          /\ IsFiniteSet(NodesOf[content])
          /\ \A n \in NodesOf[content] : n.oid \in Seq(Nat) /\ Len(n.oid) \in 1 .. MaxDepth

\* A search orders its matches: no two have the same place.
ASSUME RanksAssumption ==
    /\ Limits \subseteq Nat
    /\ \A query \in DOMAIN Hits : \A n \in DOMAIN Hits[query] : Hits[query][n] \in Int
    /\ \A content \in DOMAIN NodesOf :
          \A m, n \in NodesOf[content] : m.place \in Int /\ (m.place = n.place => m = n)

NoFilter == ""

\* _UI_TYPE_TO_OBJECT_TYPES
ObjectTypes ==
    [NotificationType |-> {"NOTIFICATION-TYPE", "TRAP-TYPE"},
     MibScalar |-> {"OBJECT-TYPE"},
     MibTable |-> {"OBJECT-TYPE"},
     MibTableRow |-> {"OBJECT-TYPE"},
     MibTableColumn |-> {"OBJECT-TYPE"},
     ObjectGroup |-> {"OBJECT-GROUP"},
     ModuleCompliance |-> {"MODULE-COMPLIANCE"},
     ModuleIdentity |-> {"MODULE-IDENTITY"}]

TypeLabels == DOMAIN ObjectTypes
Flavours == {"MibScalar", "MibTable", "MibTableRow", "MibTableColumn"}

\* The compiler tells flavours of OBJECT-TYPE apart and of nothing else, and the
\* name of a macro, in capitals, is never a label.
ASSUME TypesAssumption ==
    \A content \in DOMAIN NodesOf :
        \A n \in NodesOf[content] :
            /\ n.nodeType \in {"table", "row", "column", "scalar"} => n.objectType = "OBJECT-TYPE"
            /\ n.objectType \notin TypeLabels

\* _ui_type
UiType(n) ==
    CASE n.objectType \in {"NOTIFICATION-TYPE", "TRAP-TYPE"} -> "NotificationType"
      [] n.objectType = "OBJECT-GROUP" -> "ObjectGroup"
      [] n.objectType = "MODULE-COMPLIANCE" -> "ModuleCompliance"
      [] n.objectType = "MODULE-IDENTITY" -> "ModuleIdentity"
      [] n.nodeType = "table" -> "MibTable"
      [] n.nodeType = "row" -> "MibTableRow"
      [] n.nodeType = "column" -> "MibTableColumn"
      [] n.nodeType = "scalar" -> "MibScalar"
      [] OTHER -> n.objectType

\* The nodes a tree request is about.
InView(nodes, module, label) ==
    {n \in nodes : module \in {NoFilter, n.module} /\ label \in {NoFilter, UiType(n)}}

Below(oid, root) == IsStrictPrefix(root, oid)

-----------------------------------------------------------------------------
(* The trees.  A row is a node and whether it has an expander.             *)

\* _build_children_by_parent has an entry for n: it is the nearest ancestor of
\* some node.
HasNearestChild(n, nodes) ==
    \E m \in nodes :
        /\ Below(m.oid, n.oid)
        /\ ~\E between \in nodes : Below(between.oid, n.oid) /\ Below(m.oid, between.oid)

\* Mutant: a node below any other node of the view is left to its expander.
TopLevelOutermost(nodes) == {n \in nodes : ~\E m \in nodes : Below(n.oid, m.oid)}

TopLevel(nodes) == {n \in nodes : ~\E m \in nodes : m.oid = Front(n.oid)}

\* get_module_tree, the rows of one module.
ModuleTree(nodes) ==
    {[node |-> n, opens |-> HasNearestChild(n, nodes)] : n \in TopLevel(nodes)}

\* parents_with_descendants
Marked(nodes, root) ==
    {SubSeq(n.oid, 1, Len(root) + 1) :
        n \in {m \in nodes : Below(m.oid, root) /\ Len(m.oid) > Len(root) + 1}}

\* get_oid_tree: the nodes one arc below root.
OidTree(nodes, root) ==
    {[node |-> n, opens |-> n.oid \in Marked(nodes, root)] :
        n \in {m \in nodes : Below(m.oid, root) /\ Len(m.oid) = Len(root) + 1}}

\* toggleNodeElement and loadChildrenIntoNode, on every row with an expander,
\* until nothing is left to expand.
Unfolded(rows, nodes) ==
    LET level[k \in 0 .. MaxDepth] ==
            IF k = 0 THEN rows
            ELSE UNION {OidTree(nodes, row.node.oid) : row \in {r \in level[k - 1] : r.opens}}
    IN  {row.node : row \in UNION {level[k] : k \in 0 .. MaxDepth}}

-----------------------------------------------------------------------------
(* The search.                                                             *)

\* Mutant: a scalar, table, row or column filter takes any OBJECT-TYPE.
AcceptsAnyFlavour(n, label) == n.objectType \in ObjectTypes[label]

Accepts(n, label) ==
    /\ n.objectType \in ObjectTypes[label]
    /\ label \in Flavours => UiType(n) = label

Matches(nodes, query, module, label) ==
    {n \in nodes \cap DOMAIN Hits[query] :
        /\ module \in {NoFilter, n.module}
        /\ label = NoFilter \/ Accepts(n, label)}

\* search_rank
RanksBefore(query, m, n) ==
    \/ Hits[query][m] < Hits[query][n]
    \/ Hits[query][m] = Hits[query][n] /\ m.place < n.place

\* search_bundle: filter, rank, and return the first limit matches.
Results(nodes, query, module, label, limit) ==
    LET matches == Matches(nodes, query, module, label)
    IN  {n \in matches : Cardinality({m \in matches : RanksBefore(query, m, n)}) < limit}

-----------------------------------------------------------------------------
(* What holds of a content, each a table; BundleViews has the properties.  *)

ModulesIn(nodes) == {n.module : n \in nodes}

ModuleTreeIsComplete ==
    [content \in DOMAIN NodesOf |->
        \A m \in ModulesIn(NodesOf[content]), label \in TypeLabels \cup {NoFilter} :
            LET nodes == InView(NodesOf[content], m, label)
            IN  Unfolded(ModuleTree(nodes), nodes) = nodes]

\* The nodes whose every ancestor below the root is a node as well.
Unbroken(nodes, root) ==
    {n \in nodes :
        /\ Below(n.oid, root)
        /\ \A k \in Len(root) + 1 .. Len(n.oid) - 1 :
              \E m \in nodes : m.oid = SubSeq(n.oid, 1, k)}

OidTreeIsComplete ==
    [content \in DOMAIN NodesOf |->
        LET nodes == NodesOf[content]
        IN  Unfolded(OidTree(nodes, Internet), nodes) = Unbroken(nodes, Internet)]

SearchShowsBestOfTree ==
    [content \in DOMAIN NodesOf |->
        LET nodes == NodesOf[content]
        IN  \A query \in DOMAIN Hits, m \in ModulesIn(nodes) \cup {NoFilter},
               label \in TypeLabels \cup {NoFilter}, limit \in Limits :
                LET eligible == InView(nodes, m, label) \cap DOMAIN Hits[query]
                    shown == Results(nodes, query, m, label, limit)
                IN  /\ shown \subseteq eligible
                    /\ \A n \in shown, left \in eligible \ shown : Hits[query][n] <= Hits[query][left]
                    /\ eligible # shown => Cardinality(shown) = limit]
=============================================================================
