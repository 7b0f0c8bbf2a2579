---------------------------- MODULE MCBundleViews ----------------------------
(* BundleViews on a small instance: contents that differ in every way a    *)
(* comparison tells apart, and node trees with tables, gaps and one OID    *)
(* that two modules define.                                                *)
EXTENDS BundleViews, TLC

CONSTANTS base, vendor, x, y, old, new

Items(names, value) == [name \in names |-> value]

Module(objects, notifications, imports) ==
    [objects |-> objects, notifications |-> notifications, imports |-> imports, rest |-> old]

Alone == Module(Items({x}, old), Items({}, old), Items({}, {}))
Vendor == Module(Items({x, y}, old), Items({x}, old), Items({base}, {x}))

MCModulesOf ==
    ("starter" :> (base :> Alone))
    @@ ("upload" :> (base :> Alone @@ vendor :> Vendor))
    @@ ("detached" :> (base :> [Alone EXCEPT !.rest = new]
                       @@ vendor :> [Vendor EXCEPT !.imports = Items({}, {})]))
    @@ ("replaced" :> (vendor :> [Vendor EXCEPT !.objects = Items({y}, new), !.imports = Items({base}, {y})]))

MCContents == DOMAIN MCModulesOf

Node(module, place, oid, objectType, nodeType) ==
    [module |-> module, place |-> place, oid |-> oid,
     objectType |-> objectType, nodeType |-> nodeType]

Root == <<1>>
Object(module, place, arcs, nodeType) == Node(module, place, Root \o arcs, "OBJECT-TYPE", nodeType)

\* A table, a scalar, and a trap and a group below arcs that are not nodes.
BaseNodes ==
    {Node(base, 1, Root \o <<1>>, "MODULE-IDENTITY", ""),
     Object(base, 2, <<1, 1>>, "table"),
     Object(base, 3, <<1, 1, 1>>, "row"),
     Object(base, 4, <<1, 1, 1, 1>>, "column"),
     Object(base, 5, <<1, 2>>, "scalar"),
     Node(base, 6, Root \o <<1, 3, 1>>, "NOTIFICATION-TYPE", ""),
     Node(base, 7, Root \o <<2, 1>>, "OBJECT-GROUP", "")}

\* A column in the table of base, an OID base has as well, a tree of its own.
VendorNodes ==
    {Object(vendor, 8, <<1, 1, 1, 2>>, "column"),
     Node(vendor, 9, Root \o <<1>>, "OBJECT IDENTIFIER", ""),
     Object(vendor, 10, <<3, 1>>, "scalar"),
     Object(vendor, 11, <<3, 1, 1, 1>>, "table"),
     Node(vendor, 12, Root \o <<3>>, "MODULE-IDENTITY", ""),
     Node(vendor, 13, Root \o <<3, 2, 1>>, "TRAP-TYPE", ""),
     Node(vendor, 14, Root \o <<3, 2, 1, 1>>, "MODULE-COMPLIANCE", "")}

MCNodesOf ==
    ("starter" :> BaseNodes)
    @@ ("upload" :> BaseNodes \cup VendorNodes)
    @@ ("detached" :> BaseNodes \cup {n \in VendorNodes : n.objectType # "MODULE-IDENTITY"})
    @@ ("replaced" :> VendorNodes)

\* One query that everything mentions and one that some nodes are named by.
MCHits ==
    ("anything" :> [n \in BaseNodes \cup VendorNodes |-> 3])
    @@ ("named" :> [n \in {m \in BaseNodes \cup VendorNodes : m.place % 3 # 0} |->
                       IF n.place = 13 THEN 0 ELSE IF n.place = 5 THEN 1 ELSE 2 + (n.place % 2)])
=============================================================================
