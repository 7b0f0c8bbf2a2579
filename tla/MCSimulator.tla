---------------------------- MODULE MCSimulator ----------------------------
(* Simulator on a small instance: two bundles that declare the same object *)
(* differently, and one object that only the first of them declares.       *)
EXTENDS Simulator, TLC

CONSTANTS new, old, level, label

Limits(kind, pairs) == [kind |-> kind, pairs |-> pairs, parts |-> <<>>]
Union(parts) == [kind |-> "union", pairs |-> <<>>, parts |-> parts]

MCTypes ==
    ("DateAndTime" :> [base |-> "OCTET STRING", limits |-> Limits("size", <<<<8, 8>>, <<11, 11>>>>)])
    @@ ("DisplayString" :> [base |-> "OCTET STRING", limits |-> Limits("size", <<<<0, 255>>>>)])
    @@ ("MacAddress" :> [base |-> "OCTET STRING", limits |-> Limits("size", <<<<6, 6>>>>)])
    @@ ("PhysAddress" :> [base |-> "OCTET STRING", limits |-> NoLimits])
    @@ ("Depth" :> [base |-> "Integer32", limits |-> Limits("range", <<<<-9, -3>>>>)])
    @@ ("Gone" :> [base |-> "Lost", limits |-> NoLimits])
    @@ ("Lost" :> [base |-> "Gone", limits |-> NoLimits])
    @@ ("Flags" :> [base |-> "BITS", limits |-> Limits("bits", <<>>)])

Ranges ==
    {Limits("range", <<<<0, 10>>>>), Limits("range", <<<<3, 7>>, <<20, 30>>>>),
     Union(<<Limits("range", <<<<5, 5>>>>), Limits("range", <<<<8, 9>>>>)>>)}
SignedRanges ==
    {Limits("range", <<<<-5, 5>>>>), Limits("range", <<<<-9, -3>>, <<4, 8>>>>),
     Limits("range", <<<<-100, 0>>>>)}
Sizes ==
    {Limits("size", <<<<0, 4>>>>), Limits("size", <<<<20, 32>>>>), Limits("size", <<<<0, 0>>>>),
     Union(<<Limits("size", <<<<8, 8>>>>), Limits("size", <<<<11, 11>>>>)>>)}

Node(kind, syntax, limits, enums, name, length) ==
    [kind |-> kind, syntax |-> syntax, limits |-> limits, enums |-> enums,
     name |-> name, nameLength |-> length]

Kinds == {"scalar", "column"}
Names == {"plain", "mac", "index"}

AllNodes ==
    {Node(k, s, l, <<>>, n, 5) : k \in Kinds, n \in Names,
        s \in {"Counter32", "Counter64", "Gauge32", "TimeTicks"}, l \in Ranges \cup {NoLimits}}
    \cup {Node(k, s, l, <<>>, n, 5) : k \in Kinds, n \in Names,
        s \in {"Integer32", "Depth", "Unknown"}, l \in Ranges \cup SignedRanges \cup {NoLimits}}
    \cup {Node(k, s, NoLimits, <<2, 1>>, n, 5) : k \in Kinds, n \in Names,
        s \in {"INTEGER", "BITS", "Flags"}}
    \cup {Node(k, s, l, <<>>, n, len) : k \in Kinds, n \in Names, len \in {1, 30},
        s \in {"OCTET STRING", "DisplayString", "DateAndTime", "MacAddress", "PhysAddress", NoSyntax, "Gone"},
        l \in Sizes \cup {NoLimits}}
    \cup {Node(k, s, NoLimits, <<>>, n, 5) : k \in Kinds, n \in Names,
        s \in {"OBJECT IDENTIFIER", "IpAddress", "Opaque"}}

\* An OID one module declares, and one that two declare.
Alone(node) == [node |-> node, found |-> node]
Shared(node, other) == [node |-> node, found |-> other]

Text30(syntax) == Node("scalar", syntax, NoLimits, <<>>, "plain", 30)
Level(syntax, limits) == Node("scalar", syntax, limits, <<>>, "plain", 5)

\* The newer bundle's level is declared by two modules.
MCDeclared ==
    (old :> (level :> Alone(Level("Integer32", NoLimits)) @@ label :> Alone(Text30("DisplayString"))))
    @@ (new :> (level :> Shared(Level("Gauge32", Limits("range", <<<<0, 10>>>>)),
                                Level("Unknown", Limits("range", <<<<0, 10>>>>)))))

\* Between them the bundles declare everything, columns only in the newer, where
\* two modules agree about the limits of one object and not about another's.
MCObjects ==
    (old :> {Alone(n) : n \in {m \in AllNodes : m.kind = "scalar"}})
    @@ (new :> {Alone(n) : n \in AllNodes}
               \cup {MCDeclared[new][level],
                     Shared(Level("Integer32", NoLimits), Level("Integer32", Limits("range", <<<<3, 7>>>>)))})

Entry(oid, spelling, form, value) ==
    [oid |-> oid, spelling |-> spelling, form |-> form, value |-> value]

\* An override for each way the two bundles can differ about it.
MCPayloads ==
    {{},
     {Entry(level, "symbolic", "plain", Raw("whole", 7, 1))},
     {Entry(level, "numeric", "plain", Raw("whole", 50, 2)),
      Entry(label, "numeric", "plain", Raw("words", 0, 4))},
     {Entry(label, "symbolic", "plain", Raw("words", 0, 4)),
      Entry(level, "numeric", "typed", Number("integer", 50))}}
=============================================================================
