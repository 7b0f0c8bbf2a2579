----------------------------- MODULE BundleDiff -----------------------------
(***************************************************************************)
(* What the bundle pages compute from compiled modules: the difference of  *)
(* two bundles and the dependency graph of one (services/bundles.py).  A   *)
(* bundle is a function from module names to compiled modules; a value is  *)
(* only compared, so it is a model value.  Lists are sorted sets of        *)
(* names: the order is presentation.                                       *)
(***************************************************************************)
EXTENDS Integers, FiniteSets, FiniteSetsExt

CONSTANT ModulesOf  \* the compiled modules of each content a bundle may have

\* A dict: so many keys, and equal to another if the items are.
IsMap(f) == IsFiniteSet(DOMAIN f) /\ f = [key \in DOMAIN f |-> f[key]]

\* The catalogues of a compiled module, by name, and its imports, by module.
HasCatalogue(module) ==
    IsMap(module.objects) /\ IsMap(module.notifications) /\ IsMap(module.imports)

ASSUME MapsAssumption ==
    \A content \in DOMAIN ModulesOf :
        /\ IsFiniteSet(DOMAIN ModulesOf[content])
        /\ \A m \in DOMAIN ModulesOf[content] : HasCatalogue(ModulesOf[content][m])

-----------------------------------------------------------------------------
(* Two maps by name.                                                       *)

\* _named_map_diff
NamedMapDiff(left, right) ==
    [added |-> DOMAIN right \ DOMAIN left,
     removed |-> DOMAIN left \ DOMAIN right,
     changed |-> {name \in DOMAIN left \cap DOMAIN right : left[name] # right[name]}]

\* _imports_diff: the same, down to the symbols of a module both import from.
ImportsDiff(left, right) ==
    [added |-> DOMAIN right \ DOMAIN left,
     removed |-> DOMAIN left \ DOMAIN right,
     changed |-> {[module |-> m, added |-> right[m] \ left[m], removed |-> left[m] \ right[m]] :
                    m \in {name \in DOMAIN left \cap DOMAIN right : left[name] # right[name]}}]

Empty(diff) == diff.added = {} /\ diff.removed = {} /\ diff.changed = {}

-----------------------------------------------------------------------------
(* Two bundles.                                                            *)

\* _bundle_module_inventory
Inventory(name, module) ==
    [name |-> name,
     objects |-> Cardinality(DOMAIN module.objects),
     notifications |-> Cardinality(DOMAIN module.notifications),
     imports |-> DOMAIN module.imports]

\* _module_diff of a module both bundles have.
ModuleDiff(name, left, right) ==
    [name |-> name,
     objects |-> NamedMapDiff(left.objects, right.objects),
     notifications |-> NamedMapDiff(left.notifications, right.notifications),
     imports |-> ImportsDiff(left.imports, right.imports)]

\* Mutant: a module whose imports alone differ counts as unchanged.
ReportedForItems(change) == ~Empty(change.objects) \/ ~Empty(change.notifications)

Reported(change) ==
    ~Empty(change.objects) \/ ~Empty(change.notifications) \/ ~Empty(change.imports)

\* The modules of the bundle whose names are given.
Listed(bundle, names) == {Inventory(name, bundle[name]) : name \in names}

\* How many items of a kind a set of inventories has.
Total(inventories, kind) == MapThenSumSet(LAMBDA i : i[kind], inventories)

\* How many of them the changed modules gained, or lost.
Gained(changes, kind) == MapThenSumSet(LAMBDA c : Cardinality(c[kind].added), changes)
Lost(changes, kind) == MapThenSumSet(LAMBDA c : Cardinality(c[kind].removed), changes)

\* What "summary" says of one kind of item.
Summary(left, right, gone, come, changes, kind) ==
    [left_total |-> Total(left, kind),
     right_total |-> Total(right, kind),
     added |-> Total(come, kind) + Gained(changes, kind),
     removed |-> Total(gone, kind) + Lost(changes, kind)]

\* The comparison proper, module by module.
Comparison(left, right) ==
    LET gone == Listed(left, DOMAIN left \ DOMAIN right)
        come == Listed(right, DOMAIN right \ DOMAIN left)
        changes == {change \in {ModuleDiff(name, left[name], right[name]) :
                                  name \in DOMAIN left \cap DOMAIN right} : Reported(change)}
        summary(kind) ==
            Summary(Listed(left, DOMAIN left), Listed(right, DOMAIN right),
                    gone, come, changes, kind)
    IN  [identical |-> FALSE,
         objects |-> summary("objects"),
         notifications |-> summary("notifications"),
         modules_added |-> come,
         modules_removed |-> gone,
         modules_changed |-> changes]

\* diff_bundles.  A hash is over the bytes of the module files and tells
\* different files apart; rows older than its column have none.
Diff(left, right, hashed) ==
    IF hashed /\ left = right
    THEN [identical |-> TRUE]
    ELSE Comparison(left, right)

-----------------------------------------------------------------------------
(* _dependency_graph                                                       *)

Edges(bundle) ==
    {edge \in {[source |-> m, target |-> i, target_present |-> i \in DOMAIN bundle] :
                 m \in DOMAIN bundle, i \in UNION {DOMAIN bundle[n].imports : n \in DOMAIN bundle}} :
        edge.target \in DOMAIN bundle[edge.source].imports}

ImportedBy(bundle, name) ==
    {edge.source : edge \in {e \in Edges(bundle) : e.target_present /\ e.target = name}}

ExternalDependencies(bundle) ==
    {edge.target : edge \in {e \in Edges(bundle) : ~e.target_present}}

-----------------------------------------------------------------------------
(* What holds of two contents, each a table; BundleViews has the properties. *)

Compared == {<<a, b>> : a, b \in DOMAIN ModulesOf}

Balanced(summary) == summary.left_total - summary.removed + summary.added = summary.right_total

AddsUp ==
    [pair \in Compared |->
        LET left == ModulesOf[pair[1]]
            right == ModulesOf[pair[2]]
            diff == Diff(left, right, FALSE)
        IN  /\ Balanced(diff.objects)
            /\ Balanced(diff.notifications)
            /\ Cardinality(DOMAIN left) - Cardinality(diff.modules_removed)
                  + Cardinality(diff.modules_added) = Cardinality(DOMAIN right)]

Arcs(bundle) == {<<edge.source, edge.target>> : edge \in Edges(bundle)}

\* The imports of the modules a diff lists as added or removed and as changed.
ArcsListed(inventories, changes, side) ==
    (UNION {{<<i.name, m>> : m \in i.imports} : i \in inventories})
        \cup (UNION {{<<c.name, m>> : m \in c.imports[side]} : c \in changes})

FollowsDiff ==
    [pair \in Compared |->
        LET left == ModulesOf[pair[1]]
            right == ModulesOf[pair[2]]
            diff == Diff(left, right, FALSE)
            come == ArcsListed(diff.modules_added, diff.modules_changed, "added")
            gone == ArcsListed(diff.modules_removed, diff.modules_changed, "removed")
        IN  /\ Arcs(right) = (Arcs(left) \ gone) \cup come
            /\ \A m \in ExternalDependencies(left) \ ExternalDependencies(right) :
                  \/ \E inventory \in diff.modules_added : inventory.name = m
                  \/ ImportedBy(right, m) = {} /\ \E arc \in gone : arc[2] = m]

\* The catalogue a bundle serves, without what a compile adds to the files.
Served(bundle) ==
    [m \in DOMAIN bundle |->
        [objects |-> bundle[m].objects, notifications |-> bundle[m].notifications,
         imports |-> bundle[m].imports]]

ListsNothing(diff) ==
    diff.identical \/ diff.modules_added \cup diff.modules_removed \cup diff.modules_changed = {}

EmptyIfSame ==
    [pair \in Compared |->
        \A hashed \in BOOLEAN :
            LET left == ModulesOf[pair[1]]
                right == ModulesOf[pair[2]]
            IN  ListsNothing(Diff(left, right, hashed)) <=> Served(left) = Served(right)]
=============================================================================
