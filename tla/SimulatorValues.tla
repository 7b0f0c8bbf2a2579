--------------------------- MODULE SimulatorValues ---------------------------
(***************************************************************************)
(* The values a simulated object may have: the default drawn for a node    *)
(* and the coercion of an operator's override (simulator_service.py), the  *)
(* constraints both must satisfy (mib_metadata.py), and the runtime's own  *)
(* parsing, which has the last word (runtime.py).                          *)
(*                                                                         *)
(* A text is its length.  A declared limit has a kind, its pairs of bounds *)
(* and, for a union, its alternatives.                                     *)
(***************************************************************************)
EXTENDS Integers, Sequences, SequencesExt

CONSTANT Types  \* textual conventions: the base type and limits of each

NoSyntax == ""  \* of a node or a type record without one

Counters == {"Counter", "Counter32", "Counter64"}
Gauges == {"Gauge32", "Gauge", "Unsigned32"}
TickTypes == {"TimeTicks", "TimeStamp", "TimeTicks32"}
IntegerTypes == {"Integer32", "INTEGER", "Integer", "TruthValue"}
OidTypes == {"OBJECT IDENTIFIER", "AutonomousType", "ObjectIdentifier"}
IpTypes == {"IpAddress", "InetAddress", "IpV4orV6Addr"}
StringTypes == {"OCTET STRING", "OctetString", "DisplayString", "SnmpAdminString",
                "DateAndTime", "PhysAddress", "MacAddress"}
WireTypes ==
    Counters \cup Gauges \cup TickTypes \cup IntegerTypes \cup OidTypes
        \cup {"IpAddress", "OCTET STRING", "OctetString", "BITS", "Opaque"}

Unsigned == {"counter32", "counter64", "gauge32", "timeticks"}
Numeric == Unsigned \cup {"integer"}

-----------------------------------------------------------------------------
(* Declared limits.                                                        *)

NoLimits == [kind |-> "none", pairs |-> <<>>, parts |-> <<>>]

EffectiveLimits(node) ==
    IF node.limits = NoLimits /\ node.syntax \in DOMAIN Types
    THEN Types[node.syntax].limits
    ELSE node.limits

\* range_bounds and size_bounds: the pairs of that kind, nested ones included.
Bounds(limits, kind) ==
    CASE limits.kind = kind -> limits.pairs
      [] limits.kind = "union" ->
            FlattenSeq([i \in DOMAIN limits.parts |->
                IF limits.parts[i].kind = kind THEN limits.parts[i].pairs ELSE <<>>])
      [] OTHER -> <<>>

Within(n, pairs) == pairs = <<>> \/ \E p \in Range(pairs) : p[1] <= n /\ n <= p[2]

\* constraint_violation: ranges bind numbers, sizes bind octets, and a union
\* asks for one of its alternatives.
BreaksOne(value, limits) ==
    \/ limits.kind = "range" /\ value.sort = "number" /\ ~Within(value.n, limits.pairs)
    \/ limits.kind = "size" /\ value.sort = "octets" /\ ~Within(value.n, limits.pairs)

Breaks(value, limits) ==
    IF limits.kind = "union"
    THEN \A part \in Range(limits.parts) : BreaksOne(value, part)
    ELSE BreaksOne(value, limits)

-----------------------------------------------------------------------------
(* A value specification and what the runtime makes of it.                 *)

Number(type, n) == [type |-> type, n |-> n, encoding |-> "none"]
Text(length) == [type |-> "octet-string", n |-> length, encoding |-> "utf-8"]
Hex(digits) == [type |-> "octet-string", n |-> digits, encoding |-> "hex"]
Other(type) == [type |-> type, n |-> 0, encoding |-> "none"]

\* _parse_value_spec raises for a negative unsigned, for half an octet and for
\* an object identifier (n = -1) that is not dotted digits.
Malformed(spec) ==
    \/ spec.type \in Unsigned \cup {"object-identifier"} /\ spec.n < 0
    \/ spec.encoding = "hex" /\ spec.n % 2 = 1

Parsed(spec) ==
    CASE spec.type \in Numeric -> [sort |-> "number", n |-> spec.n]
      [] spec.encoding = "utf-8" -> [sort |-> "octets", n |-> spec.n]
      [] spec.encoding = "hex" -> [sort |-> "octets", n |-> spec.n \div 2]
      [] OTHER -> [sort |-> "other", n |-> 0]

\* _parse_runtime_objects takes the specification for an object so limited.
Taken(spec, limits) == ~Malformed(spec) /\ ~Breaks(Parsed(spec), limits)

-----------------------------------------------------------------------------
(* Defaults.                                                               *)

\* The wire syntax a textual convention comes down to; a chain that closes on
\* itself or ends in a name without a record stops where it is.
WireSyntax[s \in STRING, seen \in SUBSET STRING] ==
    IF s \in WireTypes \/ s \in seen \/ s \notin DOMAIN Types
    THEN s
    ELSE IF Types[s].base = NoSyntax THEN s ELSE WireSyntax[Types[s].base, seen \cup {s}]

IsBits(node) ==
    \/ node.syntax = "BITS"
    \/ EffectiveLimits(node).kind = "bits"
    \/ node.syntax \in DOMAIN Types /\ Types[node.syntax].base = "BITS"

\* random.randint(lo, hi), by its extremes: what follows only compares the draw
\* with the ends of intervals.
Draw(type, lo, hi) == {Number(type, lo), Number(type, hi)}

NumericType(s) ==
    CASE s = "Counter64" -> "counter64"
      [] s \in Counters \ {"Counter64"} -> "counter32"
      [] s \in Gauges -> "gauge32"
      [] s \in TickTypes -> "timeticks"
      [] OTHER -> "integer"

\* Ranges that reach zero are drawn from zero upwards.
DrawInRange(s, lo, hi) ==
    Draw(NumericType(s), IF hi >= 0 /\ lo < 0 THEN 0 ELSE lo, hi)

Clamped(length, pairs) ==
    IF pairs = <<>> THEN length
    ELSE IF length > pairs[1][2] THEN pairs[1][2]
    ELSE IF length < pairs[1][1] THEN pairs[1][1]
    ELSE length

\* Mutant: the size bound is applied to the hexadecimal digits.
MacByDigits(limits) == Hex(Clamped(12, Bounds(limits, "size")))

\* _clamp_mac_to_size: six octets, cut or padded to the bound in octets.
Mac(limits) == Hex(2 * Clamped(6, Bounds(limits, "size")))

DefaultOfWire(s, node, limits) ==
    CASE s \in Counters -> Draw(NumericType(s), 1000, 999999)
      [] s \in Gauges -> Draw("gauge32", 1, 1000000000)
      [] s \in TickTypes -> Draw("timeticks", 0, 5000000)
      [] s \in OidTypes -> {Other("object-identifier")}
      [] s \in IpTypes -> {Other("ip-address")}
      [] s = "Opaque" -> {Other("opaque")}
      [] s \in StringTypes \cup {NoSyntax} ->
            IF node.name = "mac" \/ node.syntax \in {"PhysAddress", "MacAddress"}
            THEN {Mac(limits)}
            ELSE {Text(Clamped(node.nameLength + 2, Bounds(limits, "size")))}
      [] OTHER -> Draw("integer", 1, 100)

\* _default_value_for_syntax
DefaultFor(node) ==
    LET limits == EffectiveLimits(node)
        s == WireSyntax[node.syntax, {}]
        ranges == Bounds(limits, "range")
    IN  IF s = "BITS" \/ IsBits(node) THEN {Text(0)}
        ELSE IF node.enums # <<>> THEN {Number("integer", node.enums[1])}
        ELSE IF ranges # <<>> THEN DrawInRange(s, ranges[1][1], ranges[1][2])
        ELSE DefaultOfWire(s, node, limits)

\* An index column is numbered by row where its declaration allows that.
RowValue(node, row, spec) ==
    IF /\ node.name = "index"
       /\ spec.type \in Numeric
       /\ node.enums = <<>>
       /\ ~Breaks([sort |-> "number", n |-> row], EffectiveLimits(node))
    THEN [spec EXCEPT !.n = row]
    ELSE spec

\* _bundle_objects for one node: a scalar's value, or those of two rows.
Defaults(node) ==
    IF node.kind = "scalar" THEN DefaultFor(node)
    ELSE {RowValue(node, row, spec) : row \in 1 .. 2, spec \in DefaultFor(node)}

-----------------------------------------------------------------------------
(* What a MIB that compiles declares, and _default_value_for_syntax builds *)
(* on without looking.                                                     *)

\* _bounds_pairs keeps pairs of whole numbers only; a range or a size is declared
\* from its lower to its upper end.
WellBounded(limits) ==
    /\ limits.pairs \in Seq(Int \X Int)
    /\ \A p \in Range(limits.pairs) : p[1] <= p[2]

\* A union has alternatives.
WellLimited(limits) ==
    /\ WellBounded(limits)
    /\ limits.parts \in Seq(Range(limits.parts))
    /\ \A part \in Range(limits.parts) : WellBounded(part)
    /\ limits.kind = "union" => limits.parts # <<>>

\* Named numbers and bits restrict a type in place of a range or a size, and
\* what is unsigned is not confined to negative numbers.
WellDeclared(node) ==
    LET limits == EffectiveLimits(node)
        s == WireSyntax[node.syntax, {}]
    IN  /\ WellLimited(limits)
        /\ node.nameLength \in Nat
        /\ node.enums \in Seq(Int)
        /\ node.enums # <<>> => Bounds(limits, "range") = <<>>
        /\ s = "BITS" \/ IsBits(node) => Bounds(limits, "size") = <<>>
        /\ NumericType(s) \in Unsigned =>
              \A p \in Range(Bounds(limits, "range")) : p[2] >= 0

-----------------------------------------------------------------------------
(* Overrides.                                                              *)

\* An operator's value: a whole number n, some other number or other text, with
\* the length it has when written out.
Raw(form, n, length) == [form |-> form, n |-> n, length |-> length]

\* The declared syntax decides, unresolved; without one the value does.
CustomType(raw, s) ==
    CASE s \in Counters \cup Gauges \cup TickTypes \cup IntegerTypes -> NumericType(s)
      [] s \in OidTypes -> "object-identifier"
      [] s \in IpTypes -> "ip-address"
      [] s = NoSyntax /\ raw.form # "words" -> "gauge32"
      [] OTHER -> "octet-string"

\* _coerce_custom_value: the specifications the value becomes, none when it is
\* rejected.
Coerced(raw, s, limits) ==
    LET type == CustomType(raw, s)
    IN  CASE type \in Numeric ->
                {spec \in {Number(type, raw.n)} :
                    raw.form = "whole" /\ ~Breaks(Parsed(spec), limits)}
          [] type = "octet-string" ->
                {spec \in {Text(raw.length)} : ~Breaks(Parsed(spec), limits)}
          [] OTHER -> {[Other(type) EXCEPT !.n = IF raw.form = "words" THEN -1 ELSE 0]}
=============================================================================
