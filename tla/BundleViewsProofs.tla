-------------------------- MODULE BundleViewsProofs --------------------------
(***************************************************************************)
(* The bundle listing for any number of bundles, runs and modules: put     *)
(* together from three reads next to jobs that commit between them, it     *)
(* still counts every bundle it shows.  What holds of Bundles holds next   *)
(* to a listing too, which writes nothing a job reads.                     *)
(***************************************************************************)
EXTENDS BundleViews, BundlesProofs, FiniteSetTheorems, WellFoundedInduction

LEMMA JobsUndisturbed == [ViewNext]_viewVars => [Next]_vars
    BY DEF ViewNext, ListStep, ListEnds, viewVars

LEMMA JobsSpec == ViewSpec => Spec
<1>1. ViewInit => Init
    BY DEF ViewInit
<1> QED
    BY <1>1, JobsUndisturbed, PTL DEF ViewSpec, Spec

-----------------------------------------------------------------------------

\* What a listing may rely on while jobs go on: bundles come and never change
\* or go, and once a bundle is active there always is one.
LEMMA OnlyMore ==
    ASSUME IInv, [Next]_vars
    PROVE  /\ Len(bundles) \in Nat /\ Len(bundles') \in Nat /\ Len(bundles) <= Len(bundles')
           /\ \A b \in Ids : bundles'[b] = bundles[b]
           /\ activeId # 0 => activeId' # 0
<1>0. bundles \in Seq(BundleRow) /\ Len(bundles) \in Nat
    BY LenProperties DEF IInv, TypeOK
<1>1. CASE CompileSucceeds
    <2>1. bundles' = Append(bundles, [content |-> job.content, starter |-> job.starter])
          /\ activeId' = activeId
        BY <1>1 DEF CompileSucceeds, pointerVars
    <2>2. [content |-> job.content, starter |-> job.starter] \in BundleRow
        BY DEF IInv, TypeOK, BundleRow
    <2> QED
        BY <1>0, <2>1, <2>2, AppendProperties DEF Ids
<1>2. CASE ActivateCommits
    <2>1. target \in Ids /\ activeId' = target /\ bundles' = bundles
        BY <1>2 DEF IInv, JobShape, ActivateCommits, bundleVars
    <2> QED
        BY <1>0, <2>1 DEF Ids
<1>3. CASE UNCHANGED <<bundles, activeId>>
    BY <1>0, <1>3
<1>4. ASSUME NEW c \in Contents, NEW a \in YesNo, Compile(c, a)
      PROVE  UNCHANGED <<bundles, activeId>>
    BY <1>4 DEF Compile, BeginCompile, pointerVars
<1>5. ASSUME NEW b, Activate(b) PROVE UNCHANGED <<bundles, activeId>>
    BY <1>5 DEF Activate, bundleVars, pointerVars
<1>6. ASSUME CompileStarter \/ CompileFails \/ CompileRaises \/ ActivateFails
             \/ SetBundle \/ BootStep \/ Crash \/ UNCHANGED vars
      PROVE  UNCHANGED <<bundles, activeId>>
    BY <1>6
    DEF CompileStarter, CompileFails, CompileRaises, ActivateFails, SetBundle,
        BootStep, Boot, BootSkips, BootActivatesStarter, BootCompilesStarter,
        BootGoesOn, BootLoads, Crash, BeginCompile, bundleVars, pointerVars, vars
<1> QED
    BY <1>1, <1>2, <1>3, <1>4, <1>5, <1>6 DEF Next, JobStep, Rollback

-----------------------------------------------------------------------------
(* The invariant of a listing in progress.                                 *)

Shape ==
    /\ listing = [done |-> listing.done, rows |-> listing.rows, flagged |-> listing.flagged,
                  counts |-> listing.counts, active |-> listing.active]
    /\ listing.done \in {0, 1, 2, 3}
    /\ listing.rows \in Nat

\* The rows read are a prefix of the bundles there are by now.
RowsRead ==
    listing.done \in {1, 2, 3} =>
        /\ listing.rows <= Len(bundles)
        /\ \A a, b \in listing.flagged : a = b
        /\ listing.flagged # {} => activeId # 0

\* The counts read are those of at least these bundles, and still right.
CountsRead ==
    listing.done \in {2, 3} =>
        /\ \A b \in 1 .. listing.rows : b \in DOMAIN listing.counts
        /\ \A b \in DOMAIN listing.counts : b \in Ids /\ listing.counts[b] = ModuleCount(b)

ActiveRead == listing.done = 3 /\ listing.flagged # {} => listing.active # 0

ListInv == Shape /\ RowsRead /\ CountsRead /\ ActiveRead

LEMMA SelectsInOrder ==
    /\ Len(Selects) = 3
    /\ Selects[1] = "rows" /\ Selects[2] = "counts" /\ Selects[3] = "active"
    BY DEF Selects

LEMMA BlankInv == listing = Blank => ListInv
    BY DEF Blank, ListInv, Shape, RowsRead, CountsRead, ActiveRead

\* A job's step leaves what was read as good as it was.
LEMMA JobKeepsListing ==
    ASSUME IInv, ListInv, [Next]_vars, UNCHANGED listing
    PROVE  ListInv'
<1> USE OnlyMore
<1>1. Shape'
    BY DEF ListInv, Shape
<1>2. RowsRead'
    BY DEF ListInv, Shape, RowsRead
<1>3. CountsRead'
    BY DEF ListInv, CountsRead, ModuleCount, Ids
<1>4. ActiveRead'
    BY DEF ListInv, ActiveRead
<1> QED
    BY <1>1, <1>2, <1>3, <1>4 DEF ListInv

\* Each read finds what the later ones rely on.
LEMMA ReadKeepsListing ==
    ASSUME IInv, ListInv, ListStep
    PROVE  ListInv'
<1>0. UNCHANGED <<bundles, flags, activeId>> /\ Len(bundles) \in Nat
    BY LenProperties DEF ListStep, vars, bundleVars, pointerVars, IInv, TypeOK
<1>1. CASE listing.done = 0
    <2>1. listing' = [listing EXCEPT !.done = 1, !.rows = Len(bundles), !.flagged = flags]
        BY <1>1, SelectsInOrder DEF ListStep, ReadRows
    <2>2. flags = IF activeId = 0 THEN {} ELSE {activeId}
        BY DEF IInv, FlagIsPointer
    <2>3. listing' = [done |-> 1, rows |-> Len(bundles), flagged |-> flags,
                      counts |-> listing.counts, active |-> listing.active]
        BY <2>1 DEF ListInv, Shape
    <2>4. Shape' /\ listing'.done = 1
        BY <1>0, <2>3 DEF Shape
    <2>5. RowsRead'
        BY <1>0, <2>2, <2>3 DEF RowsRead
    <2> QED
        BY <2>4, <2>5 DEF ListInv, CountsRead, ActiveRead
<1>2. CASE listing.done = 1
    <2>1. listing' = [listing EXCEPT !.done = 2, !.counts = [b \in Ids |-> ModuleCount(b)]]
        BY <1>2, SelectsInOrder DEF ListStep, ReadCounts
    <2> DEFINE counted == [b \in Ids |-> ModuleCount(b)]
    <2> HIDE DEF counted
    <2>2. listing' = [done |-> 2, rows |-> listing.rows, flagged |-> listing.flagged,
                      counts |-> counted, active |-> listing.active]
        BY <2>1 DEF ListInv, Shape, counted
    <2>3. Shape' /\ RowsRead' /\ ActiveRead'
        BY <1>0, <1>2, <2>2 DEF ListInv, Shape, RowsRead, ActiveRead
    <2>4. listing'.rows = listing.rows /\ listing'.counts = [b \in Ids |-> ModuleCount(b)]
        BY <2>2 DEF counted
    <2>5. \A b \in 1 .. listing.rows : b \in Ids
        BY <1>0, <1>2 DEF ListInv, Shape, RowsRead, Ids
    <2>6. CountsRead'
        BY <1>0, <2>4, <2>5 DEF CountsRead, ModuleCount, Ids
    <2> QED
        BY <2>3, <2>6 DEF ListInv
<1>3. CASE listing.done = 2
    <2>1. listing' = [listing EXCEPT !.done = 3, !.active = activeId]
        BY <1>3, SelectsInOrder DEF ListStep, ReadActive
    <2>2. Shape' /\ RowsRead' /\ ActiveRead'
        BY <1>0, <1>3, <2>1 DEF ListInv, Shape, RowsRead, ActiveRead
    <2>3. listing'.rows = listing.rows /\ listing'.counts = listing.counts
        BY <2>1 DEF ListInv, Shape
    <2>4. CountsRead'
        BY <1>0, <1>3, <2>3 DEF ListInv, CountsRead, ModuleCount, Ids
    <2> QED
        BY <2>2, <2>4 DEF ListInv
<1> QED
    BY <1>1, <1>2, <1>3, SelectsInOrder DEF ListInv, Shape, ListStep

LEMMA ListInvStep == IInv /\ ListInv /\ [ViewNext]_viewVars => ListInv'
<1> SUFFICES ASSUME IInv, ListInv, [ViewNext]_viewVars PROVE ListInv'
    OBVIOUS
<1>1. CASE listing' = Blank
    <2>1. ListInv'
        BY <1>1 DEF Blank, ListInv, Shape, RowsRead, CountsRead, ActiveRead
    <2> QED
        BY <2>1
<1>2. CASE [Next]_vars /\ UNCHANGED listing
    BY <1>2, JobKeepsListing
<1>3. CASE ListStep
    BY <1>3, ReadKeepsListing
<1> QED
    BY <1>1, <1>2, <1>3 DEF ViewNext, ListEnds, viewVars

LEMMA ListInductive == ViewSpec => []ListInv
<1>1. ViewInit => ListInv
    BY BlankInv DEF ViewInit
<1> QED
    BY <1>1, ListInvStep, JobsSpec, Inductive, PTL DEF ViewSpec

-----------------------------------------------------------------------------

\* Whatever is compiled or activated between its reads, a listing counts the
\* modules of every bundle it shows, marks at most one of them active, and
\* with one marked names an active bundle.
THEOREM ListingCounts == ViewSpec => []ListingHangsTogether
<1>1. ListInv => ListingHangsTogether
    BY SelectsInOrder
    DEF ListInv, Shape, RowsRead, CountsRead, ActiveRead, ListingHangsTogether
<1> QED
    BY <1>1, ListInductive, PTL

-----------------------------------------------------------------------------
(* Sums over a finite set, as a fold makes them: one element after another *)
(* is picked out and left out.                                             *)

\* What holds of a set once it holds of the set without any one of its
\* elements holds of every subset of a finite set.
LEMMA FromSmaller ==
    ASSUME NEW U, IsFiniteSet(U), NEW Good,
           \A s \in SUBSET U : (\A x \in s : s \ {x} \in Good) => s \in Good
    PROVE  SUBSET U \subseteq Good
<1> DEFINE Bad == (SUBSET U) \ Good
<1> SUFFICES ASSUME Bad # {} PROVE FALSE
    OBVIOUS
<1>1. IsWellFoundedOn(StrictSubsetOrdering(U), SUBSET U)
    <2>1. IsWellFoundedOn(StrictSubsetOrdering(U), FiniteSubsetsOf(U))
        BY FS_StrictSubsetOrderingWellFounded
    <2>2. FiniteSubsetsOf(U) = SUBSET U
        BY FS_FiniteSubsetsOfFinite
    <2> QED
        BY <2>1, <2>2
<1>2. Bad \subseteq SUBSET U
    OBVIOUS
<1>3. PICK s \in Bad : \A t \in Bad : ~(<<t, s>> \in StrictSubsetOrdering(U))
    BY <1>1, <1>2, WFMin
<1>4. \A x \in s : s \ {x} \in Good
    <2> TAKE x \in s
    <2>1. <<s \ {x}, s>> \in StrictSubsetOrdering(U)
        BY DEF StrictSubsetOrdering
    <2> QED
        BY <1>3, <2>1
<1> QED
    BY <1>4

First(s) == CHOOSE x \in s : TRUE

\* f is the sum of the weights of the elements of each subset of S.
Sums(f, weight, S) ==
    f = [s \in SUBSET S |->
            IF s = {} THEN 0 ELSE weight[First(s)] + f[s \ {First(s)}]]

LEMMA FirstIn == ASSUME NEW s, s # {} PROVE First(s) \in s
    BY DEF First

LEMMA SumsAt ==
    ASSUME NEW f, NEW weight, NEW S, Sums(f, weight, S), NEW s \in SUBSET S
    PROVE  f[s] = IF s = {} THEN 0 ELSE weight[First(s)] + f[s \ {First(s)}]
    BY DEF Sums

\* The elements of the things in s; and that no two things share any.
Union(items, s) == UNION {items[x] : x \in s}

Apart(items, weight, S) ==
    \A x \in S :
        /\ IsFiniteSet(items[x]) /\ weight[x] = Cardinality(items[x])
        /\ \A y \in S : x = y \/ items[x] \cap items[y] = {}

\* A thing's elements are counted once.
LEMMA UnionGrows ==
    ASSUME NEW S, NEW items, NEW weight, Apart(items, weight, S),
           NEW s \in SUBSET S, NEW x \in s, IsFiniteSet(Union(items, s \ {x}))
    PROVE  /\ IsFiniteSet(Union(items, s))
           /\ Cardinality(Union(items, s)) = weight[x] + Cardinality(Union(items, s \ {x}))
<1> DEFINE rest == Union(items, s \ {x})
<1>1. Union(items, s) = items[x] \cup rest
    BY DEF Union
<1>2. items[x] \cap rest = {}
    BY DEF Union, Apart
<1>3. IsFiniteSet(items[x]) /\ weight[x] = Cardinality(items[x])
    BY DEF Apart
<1> HIDE DEF rest
<1>4. IsFiniteSet(items[x] \cup rest)
      /\ Cardinality(items[x] \cup rest) = Cardinality(items[x]) + Cardinality(rest) - Cardinality({})
    BY <1>2, <1>3, FS_Union DEF rest
<1>5. Cardinality(items[x]) \in Nat /\ Cardinality(rest) \in Nat /\ Cardinality({}) = 0
    BY <1>3, FS_CardinalityType, FS_EmptySet DEF rest
<1> QED
    BY <1>1, <1>3, <1>4, <1>5 DEF rest

LEMMA UnionsFinite ==
    ASSUME NEW S, IsFiniteSet(S), NEW items, NEW weight, Apart(items, weight, S)
    PROVE  \A s \in SUBSET S : IsFiniteSet(Union(items, s))
<1> DEFINE Good == {s \in SUBSET S : IsFiniteSet(Union(items, s))}
<1>1. {} \in Good
    <2>1. Union(items, {}) = {}
        BY DEF Union
    <2> QED
        BY <2>1, FS_EmptySet
<1>2. \A s \in SUBSET S : (\A x \in s : s \ {x} \in Good) => s \in Good
    BY <1>1, UnionGrows
<1> HIDE DEF Good
<1>3. SUBSET S \subseteq Good
    BY <1>2, FromSmaller
<1> QED
    BY <1>3 DEF Good

\* The sum of the sizes of disjoint sets is the size of their union, however
\* the sum is made; and it can be made.
LEMMA SumsExist ==
    ASSUME NEW S, IsFiniteSet(S), NEW items, NEW weight, Apart(items, weight, S)
    PROVE  \E f : Sums(f, weight, S)
<1> DEFINE f == [s \in SUBSET S |-> Cardinality(Union(items, s))]
<1>1. ASSUME NEW s \in SUBSET S
      PROVE  f[s] = IF s = {} THEN 0 ELSE weight[First(s)] + f[s \ {First(s)}]
    <2>1. CASE s = {}
        <3>1. Union(items, {}) = {}
            BY DEF Union
        <3> QED
            BY <2>1, <3>1, FS_EmptySet
    <2>2. CASE s # {}
        <3>1. First(s) \in s /\ IsFiniteSet(Union(items, s \ {First(s)}))
            BY <2>2, FirstIn, UnionsFinite
        <3> QED
            BY <2>2, <3>1, UnionGrows
    <2> QED
        BY <2>1, <2>2
<1>2. Sums(f, weight, S)
    BY <1>1 DEF Sums
<1> QED
    BY <1>2

LEMMA SumsCount ==
    ASSUME NEW S, IsFiniteSet(S), NEW items, NEW weight, Apart(items, weight, S),
           NEW f, Sums(f, weight, S)
    PROVE  f[S] = Cardinality(Union(items, S))
<1> DEFINE Good == {s \in SUBSET S : f[s] = Cardinality(Union(items, s))}
<1>1. {} \in Good
    <2>1. Union(items, {}) = {} /\ f[{}] = 0
        BY SumsAt DEF Union
    <2> QED
        BY <2>1, FS_EmptySet
<1>2. ASSUME NEW s \in SUBSET S, s # {}, s \ {First(s)} \in Good
      PROVE  s \in Good
    <2>1. First(s) \in s /\ IsFiniteSet(Union(items, s \ {First(s)}))
        BY <1>2, FirstIn, UnionsFinite
    <2>2. Cardinality(Union(items, s)) = weight[First(s)] + Cardinality(Union(items, s \ {First(s)}))
        BY <2>1, UnionGrows
    <2>3. f[s] = weight[First(s)] + f[s \ {First(s)}]
        BY <1>2, SumsAt
    <2> QED
        BY <1>2, <2>2, <2>3
<1>3. \A s \in SUBSET S : (\A x \in s : s \ {x} \in Good) => s \in Good
    BY <1>1, <1>2, FirstIn
<1> HIDE DEF Good
<1>4. SUBSET S \subseteq Good
    BY <1>3, FromSmaller
<1> QED
    BY <1>4 DEF Good

-----------------------------------------------------------------------------
(* The numbers of a diff.                                                  *)

\* The sum a total is, with the counts read off the inventories.
IsTotal(f, S, kind) ==
    f = [s \in SUBSET S |->
            IF s = {} THEN 0
            ELSE (CHOOSE x \in s : TRUE)[kind] + f[s \ {CHOOSE x \in s : TRUE}]]

LEMMA TotalCounts ==
    ASSUME NEW S, IsFiniteSet(S), NEW items, NEW kind, Apart(items, [i \in S |-> i[kind]], S)
    PROVE  Total(S, kind) = Cardinality(Union(items, S))
<1> DEFINE weight == [i \in S |-> i[kind]]
<1>1. Total(S, kind) = (CHOOSE f : IsTotal(f, S, kind))[S]
    BY DEF Total, MapThenSumSet, MapThenFoldSet, IsTotal
<1>2. \A s \in SUBSET S : s # {} => weight[First(s)] = (CHOOSE x \in s : TRUE)[kind]
    <2>1. \A s \in SUBSET S : s # {} => First(s) \in S
        BY FirstIn
    <2> QED
        BY <2>1 DEF First
<1>3. ASSUME NEW f PROVE IsTotal(f, S, kind) <=> Sums(f, weight, S)
    <2> DEFINE total == [s \in SUBSET S |->
                            IF s = {} THEN 0
                            ELSE (CHOOSE x \in s : TRUE)[kind] + f[s \ {CHOOSE x \in s : TRUE}]]
               sum == [s \in SUBSET S |->
                            IF s = {} THEN 0 ELSE weight[First(s)] + f[s \ {First(s)}]]
    <2> HIDE DEF weight
    <2>1. total = sum
        BY <1>2 DEF First
    <2> QED
        BY <2>1 DEF IsTotal, Sums
<1> HIDE DEF weight
<1>4. \E f : Sums(f, weight, S)
    BY SumsExist DEF weight
<1>5. IsTotal(CHOOSE f : IsTotal(f, S, kind), S, kind)
    BY <1>3, <1>4
<1>6. PICK g : g = (CHOOSE f : IsTotal(f, S, kind))
    OBVIOUS
<1>7. Sums(g, weight, S)
    BY <1>3, <1>5, <1>6
<1> QED
    BY <1>1, <1>6, <1>7, SumsCount DEF weight

\* The same for what changes gained or lost.
IsChange(f, S, kind, side) ==
    f = [s \in SUBSET S |->
            IF s = {} THEN 0
            ELSE Cardinality((CHOOSE x \in s : TRUE)[kind][side]) + f[s \ {CHOOSE x \in s : TRUE}]]

LEMMA ChangeCounts ==
    ASSUME NEW S, IsFiniteSet(S), NEW items, NEW kind, NEW side,
           Apart(items, [c \in S |-> Cardinality(c[kind][side])], S)
    PROVE  (CHOOSE f : IsChange(f, S, kind, side))[S] = Cardinality(Union(items, S))
<1> DEFINE weight == [c \in S |-> Cardinality(c[kind][side])]
<1>2. \A s \in SUBSET S :
        s # {} => weight[First(s)] = Cardinality((CHOOSE x \in s : TRUE)[kind][side])
    <2>1. \A s \in SUBSET S : s # {} => First(s) \in S
        BY FirstIn
    <2> QED
        BY <2>1 DEF First
<1>3. ASSUME NEW f PROVE IsChange(f, S, kind, side) <=> Sums(f, weight, S)
    <2> DEFINE total == [s \in SUBSET S |->
                            IF s = {} THEN 0
                            ELSE Cardinality((CHOOSE x \in s : TRUE)[kind][side])
                                 + f[s \ {CHOOSE x \in s : TRUE}]]
               sum == [s \in SUBSET S |->
                            IF s = {} THEN 0 ELSE weight[First(s)] + f[s \ {First(s)}]]
    <2> HIDE DEF weight
    <2>1. total = sum
        BY <1>2 DEF First
    <2> QED
        BY <2>1 DEF IsChange, Sums
<1> HIDE DEF weight
<1>4. \E f : Sums(f, weight, S)
    BY SumsExist DEF weight
<1>5. IsChange(CHOOSE f : IsChange(f, S, kind, side), S, kind, side)
    BY <1>3, <1>4
<1>6. PICK g : g = (CHOOSE f : IsChange(f, S, kind, side))
    OBVIOUS
<1>7. Sums(g, weight, S)
    BY <1>3, <1>5, <1>6
<1> QED
    BY <1>6, <1>7, SumsCount DEF weight

LEMMA GainIsChange ==
    ASSUME NEW S, NEW kind
    PROVE  Gained(S, kind) = (CHOOSE f : IsChange(f, S, kind, "added"))[S]
    BY DEF Gained, MapThenSumSet, MapThenFoldSet, IsChange

LEMMA LossIsChange ==
    ASSUME NEW S, NEW kind
    PROVE  Lost(S, kind) = (CHOOSE f : IsChange(f, S, kind, "removed"))[S]
    BY DEF Lost, MapThenSumSet, MapThenFoldSet, IsChange

\* The items of one kind that modules have, each named with its module.
Keys(bundle, kind) == [m \in DOMAIN bundle |-> DOMAIN bundle[m][kind]]

Pairs(keys, names) == UNION {{m} \X keys[m] : m \in names}

Tables == {"objects", "notifications"}

LEMMA ListedPairs ==
    ASSUME NEW bundle, NEW names \in SUBSET DOMAIN bundle, IsFiniteSet(names), NEW kind \in Tables,
           \A m \in names : IsFiniteSet(Keys(bundle, kind)[m])
    PROVE  /\ IsFiniteSet(Pairs(Keys(bundle, kind), names))
           /\ Total(Listed(bundle, names), kind) = Cardinality(Pairs(Keys(bundle, kind), names))
<1> DEFINE S == Listed(bundle, names)
           items == [i \in S |-> {i.name} \X Keys(bundle, kind)[i.name]]
           weight == [i \in S |-> i[kind]]
<1>1. IsFiniteSet(S)
    <2> DEFINE f == [m \in names |-> Inventory(m, bundle[m])]
    <2>1. f \in Surjection(names, S)
        BY DEF Surjection, Listed
    <2> QED
        BY <2>1, FS_Surjection
<1>2. ASSUME NEW i \in S
      PROVE  i.name \in names /\ i = Inventory(i.name, bundle[i.name])
    BY <1>2 DEF Listed, Inventory
<1>3. ASSUME NEW i \in S
      PROVE  IsFiniteSet(items[i]) /\ weight[i] = Cardinality(items[i])
    <2>1. i[kind] = Cardinality(Keys(bundle, kind)[i.name])
        BY <1>2 DEF Inventory, Tables, Keys
    <2>2. IsFiniteSet(Keys(bundle, kind)[i.name]) /\ Cardinality(Keys(bundle, kind)[i.name]) \in Nat
        BY <1>2, FS_CardinalityType
    <2>3. IsFiniteSet({i.name}) /\ Cardinality({i.name}) = 1
        BY FS_Singleton
    <2>4. IsFiniteSet({i.name} \X Keys(bundle, kind)[i.name])
          /\ Cardinality({i.name} \X Keys(bundle, kind)[i.name])
                = Cardinality({i.name}) * Cardinality(Keys(bundle, kind)[i.name])
        BY <2>2, <2>3, FS_Product
    <2> QED
        BY <2>1, <2>2, <2>3, <2>4
<1>4. \A i, j \in S : i = j \/ items[i] \cap items[j] = {}
    BY <1>2
<1>5. Apart(items, weight, S)
    BY <1>3, <1>4 DEF Apart
<1>6. Union(items, S) = Pairs(Keys(bundle, kind), names)
    <2>1. \A m \in names : Inventory(m, bundle[m]) \in S /\ Inventory(m, bundle[m]).name = m
        BY DEF Listed, Inventory
    <2> QED
        BY <1>2, <2>1 DEF Union, Pairs
<1>7. IsFiniteSet(Union(items, S))
    BY <1>1, <1>5, UnionsFinite
<1>8. Total(S, kind) = Cardinality(Union(items, S))
    <2> HIDE DEF S, items
    <2> QED
        BY <1>1, <1>5, TotalCounts
<1> QED
    BY <1>6, <1>7, <1>8

Common(left, right) == DOMAIN left \cap DOMAIN right

Changes(left, right) ==
    {change \in {ModuleDiff(m, left[m], right[m]) : m \in Common(left, right)} : Reported(change)}

\* What one side of a change says of a kind of item.
Side(left, right, kind, side) ==
    [m \in Common(left, right) |->
        IF side = "added" THEN DOMAIN right[m][kind] \ DOMAIN left[m][kind]
                          ELSE DOMAIN left[m][kind] \ DOMAIN right[m][kind]]

Sides == {"added", "removed"}

LEMMA ChangeIs ==
    ASSUME NEW left, NEW right, NEW c \in Changes(left, right)
    PROVE  /\ c.name \in Common(left, right)
           /\ c = ModuleDiff(c.name, left[c.name], right[c.name])
    BY DEF Changes, ModuleDiff

LEMMA SideOfModule ==
    ASSUME NEW left, NEW right, NEW m \in Common(left, right), NEW kind \in Tables, NEW side \in Sides
    PROVE  ModuleDiff(m, left[m], right[m])[kind][side] = Side(left, right, kind, side)[m]
<1>1. CASE kind = "objects"
    BY <1>1 DEF ModuleDiff, NamedMapDiff, Side, Sides
<1>2. CASE kind = "notifications"
    BY <1>2 DEF ModuleDiff, NamedMapDiff, Side, Sides
<1> QED
    BY <1>1, <1>2 DEF Tables

\* A module without a change reported has neither gained nor lost anything.
LEMMA NothingUnreported ==
    ASSUME NEW left, NEW right, NEW m \in Common(left, right), NEW kind \in Tables, NEW side \in Sides,
           ModuleDiff(m, left[m], right[m]) \notin Changes(left, right)
    PROVE  Side(left, right, kind, side)[m] = {}
<1> DEFINE change == ModuleDiff(m, left[m], right[m])
<1>1. ~Reported(change)
    BY DEF Changes
<1>2. Empty(change.objects) /\ Empty(change.notifications)
    BY <1>1 DEF Reported
<1> HIDE DEF change
<1>3. change[kind][side] = {}
    BY <1>2 DEF Empty, Tables, Sides
<1> QED
    BY <1>3, SideOfModule DEF change

LEMMA ChangedPairs ==
    ASSUME NEW left, NEW right, IsFiniteSet(Common(left, right)), NEW kind \in Tables, NEW side \in Sides,
           \A m \in Common(left, right) : IsFiniteSet(Side(left, right, kind, side)[m])
    PROVE  LET counted == (CHOOSE f : IsChange(f, Changes(left, right), kind, side))[Changes(left, right)]
               pairs == Pairs(Side(left, right, kind, side), Common(left, right))
           IN  IsFiniteSet(pairs) /\ counted = Cardinality(pairs)
<1> DEFINE S == Changes(left, right)
           items == [c \in S |-> {c.name} \X Side(left, right, kind, side)[c.name]]
           weight == [c \in S |-> Cardinality(c[kind][side])]
<1>1. IsFiniteSet(S)
    <2> DEFINE f == [m \in Common(left, right) |-> ModuleDiff(m, left[m], right[m])]
               T == {ModuleDiff(m, left[m], right[m]) : m \in Common(left, right)}
    <2>1. f \in Surjection(Common(left, right), T)
        BY DEF Surjection
    <2>2. IsFiniteSet(T)
        <3> HIDE DEF f, T
        <3> QED
            BY <2>1, FS_Surjection
    <2>3. S \in SUBSET T
        BY DEF Changes
    <2> HIDE DEF T, S
    <2> QED
        BY <2>2, <2>3, FS_Subset
<1>2. ASSUME NEW c \in S
      PROVE  /\ c.name \in Common(left, right)
             /\ c = ModuleDiff(c.name, left[c.name], right[c.name])
             /\ c[kind][side] = Side(left, right, kind, side)[c.name]
    BY <1>2, ChangeIs, SideOfModule
<1>3. ASSUME NEW c \in S
      PROVE  IsFiniteSet(items[c]) /\ weight[c] = Cardinality(items[c])
    <2> DEFINE keys == Side(left, right, kind, side)[c.name]
    <2>1. IsFiniteSet(keys) /\ Cardinality(keys) \in Nat
        BY <1>2, FS_CardinalityType
    <2>2. IsFiniteSet({c.name}) /\ Cardinality({c.name}) = 1
        BY FS_Singleton
    <2>3. IsFiniteSet({c.name} \X keys)
          /\ Cardinality({c.name} \X keys) = Cardinality({c.name}) * Cardinality(keys)
        BY <2>1, <2>2, FS_Product
    <2> HIDE DEF keys
    <2>4. weight[c] = Cardinality(keys)
        BY <1>2 DEF keys
    <2>5. items[c] = {c.name} \X keys
        BY DEF keys
    <2> QED
        BY <2>1, <2>2, <2>3, <2>4, <2>5
<1>4. \A c, d \in S : c = d \/ items[c] \cap items[d] = {}
    BY <1>2
<1>5. Apart(items, weight, S)
    BY <1>3, <1>4 DEF Apart
<1>6. Union(items, S) = Pairs(Side(left, right, kind, side), Common(left, right))
    <2>1. \A m \in Common(left, right) :
            \/ Side(left, right, kind, side)[m] = {}
            \/ ModuleDiff(m, left[m], right[m]) \in S /\ ModuleDiff(m, left[m], right[m]).name = m
        BY NothingUnreported DEF ModuleDiff
    <2> QED
        BY <1>2, <2>1 DEF Union, Pairs
<1>7. IsFiniteSet(Union(items, S))
    BY <1>1, <1>5, UnionsFinite
<1>8. (CHOOSE f : IsChange(f, S, kind, side))[S] = Cardinality(Union(items, S))
    <2> HIDE DEF S, items
    <2> QED
        BY <1>1, <1>5, ChangeCounts
<1> QED
    BY <1>6, <1>7, <1>8

\* One finite set from another: what is in both is counted on both sides.
LEMMA FromOneToOther ==
    ASSUME NEW A, NEW B, IsFiniteSet(A), IsFiniteSet(B)
    PROVE  Cardinality(A) - Cardinality(A \ B) + Cardinality(B \ A) = Cardinality(B)
<1>1. Cardinality(A \ B) = Cardinality(A) - Cardinality(A \cap B)
      /\ Cardinality(B \ A) = Cardinality(B) - Cardinality(B \cap A)
    BY FS_Difference
<1>2. B \cap A = A \cap B
    OBVIOUS
<1>3. Cardinality(A) \in Nat /\ Cardinality(B) \in Nat /\ Cardinality(A \cap B) \in Nat
    BY FS_Intersection, FS_CardinalityType
<1>4. Cardinality(B \cap A) = Cardinality(A \cap B)
    BY <1>2
<1> QED
    BY <1>1, <1>3, <1>4

LEMMA ListedCount ==
    ASSUME NEW bundle, NEW names, IsFiniteSet(names)
    PROVE  Cardinality(Listed(bundle, names)) = Cardinality(names)
<1> DEFINE S == Listed(bundle, names)
           f == [m \in names |-> Inventory(m, bundle[m])]
<1>1. f \in Surjection(names, S)
    BY DEF Surjection, Listed
<1>2. \A m \in names : f[m].name = m
    BY DEF Inventory
<1>3. f \in Injection(names, S)
    <2> HIDE DEF f, S
    <2> QED
        BY <1>1, <1>2 DEF Surjection, Injection, IsInjective
<1> HIDE DEF f, S
<1> QED
    BY <1>1, <1>3, FS_Surjection DEF S

IsBundle(bundle) ==
    IsFiniteSet(DOMAIN bundle) /\ \A m \in DOMAIN bundle : HasCatalogue(bundle[m])

\* What came with a module and what a changed module gained is what the other
\* bundle did not have.
LEMMA WhatCame ==
    ASSUME NEW left, NEW right, NEW kind \in Tables
    PROVE  LET fresh == Pairs(Keys(right, kind), DOMAIN right \ DOMAIN left)
               gained == Pairs(Side(left, right, kind, "added"), Common(left, right))
           IN  /\ fresh \cap gained = {}
               /\ fresh \cup gained = Pairs(Keys(right, kind), DOMAIN right)
                                         \ Pairs(Keys(left, kind), DOMAIN left)
    BY DEF Pairs, Keys, Side, Common

LEMMA WhatWent ==
    ASSUME NEW left, NEW right, NEW kind \in Tables
    PROVE  LET stale == Pairs(Keys(left, kind), DOMAIN left \ DOMAIN right)
               lost == Pairs(Side(left, right, kind, "removed"), Common(left, right))
           IN  /\ stale \cap lost = {}
               /\ stale \cup lost = Pairs(Keys(left, kind), DOMAIN left)
                                        \ Pairs(Keys(right, kind), DOMAIN right)
    BY DEF Pairs, Keys, Side, Common

\* The sizes of two disjoint sets add up.
LEMMA Disjoint ==
    ASSUME NEW A, NEW B, IsFiniteSet(A), IsFiniteSet(B), A \cap B = {}
    PROVE  Cardinality(A) + Cardinality(B) = Cardinality(A \cup B)
<1>1. Cardinality(A \cup B) = Cardinality(A) + Cardinality(B) - Cardinality({})
    BY FS_Union
<1>2. Cardinality(A) \in Nat /\ Cardinality(B) \in Nat /\ Cardinality({}) = 0
    BY FS_CardinalityType, FS_EmptySet
<1> QED
    BY <1>1, <1>2

LEMMA SummaryBalances ==
    ASSUME NEW left, NEW right, IsBundle(left), IsBundle(right), NEW kind \in Tables
    PROVE  Balanced(Summary(Listed(left, DOMAIN left), Listed(right, DOMAIN right),
                            Listed(left, DOMAIN left \ DOMAIN right),
                            Listed(right, DOMAIN right \ DOMAIN left),
                            Changes(left, right), kind))
<1> DEFINE A == Pairs(Keys(left, kind), DOMAIN left)
           B == Pairs(Keys(right, kind), DOMAIN right)
           stale == Pairs(Keys(left, kind), DOMAIN left \ DOMAIN right)
           fresh == Pairs(Keys(right, kind), DOMAIN right \ DOMAIN left)
           lost == Pairs(Side(left, right, kind, "removed"), Common(left, right))
           gained == Pairs(Side(left, right, kind, "added"), Common(left, right))
<1>1. /\ IsFiniteSet(DOMAIN left \ DOMAIN right) /\ IsFiniteSet(DOMAIN right \ DOMAIN left)
      /\ IsFiniteSet(Common(left, right))
    BY FS_Difference, FS_Intersection DEF IsBundle, Common
<1>2. /\ \A m \in DOMAIN left : IsFiniteSet(Keys(left, kind)[m])
      /\ \A m \in DOMAIN right : IsFiniteSet(Keys(right, kind)[m])
    BY DEF IsBundle, HasCatalogue, IsMap, Keys, Tables
<1>3. ASSUME NEW side \in Sides, NEW m \in Common(left, right)
      PROVE  IsFiniteSet(Side(left, right, kind, side)[m])
    <2>1. IsFiniteSet(DOMAIN left[m][kind]) /\ IsFiniteSet(DOMAIN right[m][kind])
        BY <1>2 DEF Common, Keys
    <2> QED
        BY <2>1, FS_Difference DEF Side
<1>4. IsFiniteSet(A) /\ Total(Listed(left, DOMAIN left), kind) = Cardinality(A)
    BY <1>2, ListedPairs DEF IsBundle
<1>5. IsFiniteSet(B) /\ Total(Listed(right, DOMAIN right), kind) = Cardinality(B)
    BY <1>2, ListedPairs DEF IsBundle
<1>6. IsFiniteSet(stale) /\ Total(Listed(left, DOMAIN left \ DOMAIN right), kind) = Cardinality(stale)
    BY <1>1, <1>2, ListedPairs
<1>7. IsFiniteSet(fresh) /\ Total(Listed(right, DOMAIN right \ DOMAIN left), kind) = Cardinality(fresh)
    BY <1>1, <1>2, ListedPairs
<1>8. IsFiniteSet(lost) /\ Lost(Changes(left, right), kind) = Cardinality(lost)
    <2>1. "removed" \in Sides
        BY DEF Sides
    <2> QED
        BY <1>1, <1>3, <2>1, ChangedPairs, LossIsChange
<1>9. IsFiniteSet(gained) /\ Gained(Changes(left, right), kind) = Cardinality(gained)
    <2>1. "added" \in Sides
        BY DEF Sides
    <2> QED
        BY <1>1, <1>3, <2>1, ChangedPairs, GainIsChange
<1>10. stale \cap lost = {} /\ stale \cup lost = A \ B
    BY WhatWent
<1>11. fresh \cap gained = {} /\ fresh \cup gained = B \ A
    BY WhatCame
<1> HIDE DEF A, B, stale, fresh, lost, gained
<1>12. Cardinality(stale) + Cardinality(lost) = Cardinality(A \ B)
    BY <1>6, <1>8, <1>10, Disjoint
<1>13. Cardinality(fresh) + Cardinality(gained) = Cardinality(B \ A)
    BY <1>7, <1>9, <1>11, Disjoint
<1>14. Cardinality(A) - Cardinality(A \ B) + Cardinality(B \ A) = Cardinality(B)
    BY <1>4, <1>5, FromOneToOther
<1> QED
    BY <1>4, <1>5, <1>6, <1>7, <1>8, <1>9, <1>12, <1>13, <1>14 DEF Balanced, Summary

Numbers(left, right, kind) ==
    Summary(Listed(left, DOMAIN left), Listed(right, DOMAIN right),
            Listed(left, DOMAIN left \ DOMAIN right), Listed(right, DOMAIN right \ DOMAIN left),
            Changes(left, right), kind)

Report(left, right) ==
    [identical |-> FALSE,
     objects |-> Numbers(left, right, "objects"),
     notifications |-> Numbers(left, right, "notifications"),
     modules_added |-> Listed(right, DOMAIN right \ DOMAIN left),
     modules_removed |-> Listed(left, DOMAIN left \ DOMAIN right),
     modules_changed |-> Changes(left, right)]

LEMMA ComparisonIs ==
    ASSUME NEW left, NEW right
    PROVE  Comparison(left, right) = Report(left, right)
    BY DEF Comparison, Changes, Common, Numbers, Report

\* The numbers of every diff balance.
LEMMA DiffBalances ==
    ASSUME NEW left, NEW right, IsBundle(left), IsBundle(right)
    PROVE  LET diff == Comparison(left, right)
           IN  /\ Balanced(diff.objects)
               /\ Balanced(diff.notifications)
               /\ Cardinality(DOMAIN left) - Cardinality(diff.modules_removed)
                      + Cardinality(diff.modules_added) = Cardinality(DOMAIN right)
<1> DEFINE diff == Comparison(left, right)
<1>0. diff = Report(left, right)
    BY ComparisonIs
<1>1. "objects" \in Tables /\ "notifications" \in Tables
    BY DEF Tables
<1>2. Balanced(diff.objects) /\ Balanced(diff.notifications)
    <2>1. diff.objects = Numbers(left, right, "objects")
          /\ diff.notifications = Numbers(left, right, "notifications")
        BY <1>0 DEF Report
    <2>2. Balanced(Numbers(left, right, "objects")) /\ Balanced(Numbers(left, right, "notifications"))
        BY <1>1, SummaryBalances DEF Numbers
    <2> QED
        BY <2>1, <2>2
<1>3. IsFiniteSet(DOMAIN left) /\ IsFiniteSet(DOMAIN right)
    BY DEF IsBundle
<1>4. IsFiniteSet(DOMAIN left \ DOMAIN right) /\ IsFiniteSet(DOMAIN right \ DOMAIN left)
    BY <1>3, FS_Difference
<1>5. /\ Cardinality(diff.modules_removed) = Cardinality(DOMAIN left \ DOMAIN right)
      /\ Cardinality(diff.modules_added) = Cardinality(DOMAIN right \ DOMAIN left)
    <2>1. /\ diff.modules_removed = Listed(left, DOMAIN left \ DOMAIN right)
          /\ diff.modules_added = Listed(right, DOMAIN right \ DOMAIN left)
        BY <1>0 DEF Report
    <2> QED
        BY <1>4, <2>1, ListedCount
<1> HIDE DEF diff
<1>6. Cardinality(DOMAIN left) - Cardinality(DOMAIN left \ DOMAIN right)
         + Cardinality(DOMAIN right \ DOMAIN left) = Cardinality(DOMAIN right)
    BY <1>3, FromOneToOther
<1> QED
    BY <1>2, <1>5, <1>6 DEF diff

LEMMA ContentIsBundle ==
    ASSUME NEW a \in DOMAIN ModulesOf
    PROVE  IsBundle(ModulesOf[a])
    BY MapsAssumption DEF IsBundle

LEMMA EveryDiffAddsUp ==
    ASSUME NEW pair \in Compared
    PROVE  AddsUp[pair]
<1>1. IsBundle(ModulesOf[pair[1]]) /\ IsBundle(ModulesOf[pair[2]])
    BY ContentIsBundle DEF Compared
<1> QED
    BY <1>1, DiffBalances DEF AddsUp, Diff

LEMMA EdgeIs ==
    ASSUME NEW bundle, NEW e
    PROVE  e \in Edges(bundle)
             <=> \E m \in DOMAIN bundle : \E i \in DOMAIN bundle[m].imports :
                   e = [source |-> m, target |-> i, target_present |-> i \in DOMAIN bundle]
<1>1. ASSUME NEW m \in DOMAIN bundle, NEW i \in DOMAIN bundle[m].imports
      PROVE  [source |-> m, target |-> i, target_present |-> i \in DOMAIN bundle] \in Edges(bundle)
    <2>1. i \in UNION {DOMAIN bundle[n].imports : n \in DOMAIN bundle}
        OBVIOUS
    <2> QED
        BY <2>1 DEF Edges
<1>2. ASSUME e \in Edges(bundle)
      PROVE  \E m \in DOMAIN bundle : \E i \in DOMAIN bundle[m].imports :
                e = [source |-> m, target |-> i, target_present |-> i \in DOMAIN bundle]
    <2> DEFINE imported == UNION {DOMAIN bundle[n].imports : n \in DOMAIN bundle}
    <2> HIDE DEF imported
    <2>1. PICK m \in DOMAIN bundle, i \in imported :
            e = [source |-> m, target |-> i, target_present |-> i \in DOMAIN bundle]
        BY <1>2 DEF Edges, imported
    <2>2. e.target \in DOMAIN bundle[e.source].imports
        BY <1>2 DEF Edges
    <2> QED
        BY <2>1, <2>2
<1> QED
    BY <1>1, <1>2

LEMMA ArcsAre ==
    ASSUME NEW bundle
    PROVE  Arcs(bundle) = UNION {{m} \X DOMAIN bundle[m].imports : m \in DOMAIN bundle}
<1>1. ASSUME NEW m \in DOMAIN bundle, NEW i \in DOMAIN bundle[m].imports
      PROVE  <<m, i>> \in Arcs(bundle)
    <2> DEFINE e == [source |-> m, target |-> i, target_present |-> i \in DOMAIN bundle]
    <2>2. e \in Edges(bundle)
        BY EdgeIs
    <2>3. e.source = m /\ e.target = i
        OBVIOUS
    <2> HIDE DEF e
    <2> QED
        BY <2>2, <2>3 DEF Arcs
<1>2. ASSUME NEW e \in Edges(bundle)
      PROVE  e.source \in DOMAIN bundle /\ e.target \in DOMAIN bundle[e.source].imports
    BY EdgeIs
<1> QED
    BY <1>1, <1>2 DEF Arcs

LEMMA ExternalIs ==
    ASSUME NEW bundle, NEW x
    PROVE  x \in ExternalDependencies(bundle)
             <=> x \notin DOMAIN bundle /\ \E m \in DOMAIN bundle : x \in DOMAIN bundle[m].imports
<1>1. ASSUME NEW m \in DOMAIN bundle, x \in DOMAIN bundle[m].imports, x \notin DOMAIN bundle
      PROVE  x \in ExternalDependencies(bundle)
    <2> DEFINE e == [source |-> m, target |-> x, target_present |-> x \in DOMAIN bundle]
    <2>2. e \in Edges(bundle)
        BY <1>1, EdgeIs
    <2>3. ~e.target_present /\ e.target = x
        BY <1>1
    <2> HIDE DEF e
    <2> QED
        BY <2>2, <2>3 DEF ExternalDependencies
<1>2. ASSUME x \in ExternalDependencies(bundle)
      PROVE  x \notin DOMAIN bundle /\ \E m \in DOMAIN bundle : x \in DOMAIN bundle[m].imports
    <2>1. PICK e \in Edges(bundle) : ~e.target_present /\ e.target = x
        BY <1>2 DEF ExternalDependencies
    <2>2. PICK m \in DOMAIN bundle : \E i \in DOMAIN bundle[m].imports :
            e = [source |-> m, target |-> i, target_present |-> i \in DOMAIN bundle]
        BY EdgeIs
    <2>3. PICK i \in DOMAIN bundle[m].imports :
            e = [source |-> m, target |-> i, target_present |-> i \in DOMAIN bundle]
        BY <2>2
    <2>4. e.target = i /\ (e.target_present <=> i \in DOMAIN bundle)
        BY <2>3
    <2> QED
        BY <2>1, <2>4
<1> QED
    BY <1>1, <1>2

LEMMA ImportedByIs ==
    ASSUME NEW bundle, NEW x, ImportedBy(bundle, x) # {}
    PROVE  x \in DOMAIN bundle
<1>1. PICK e \in Edges(bundle) : e.target_present /\ e.target = x
    BY DEF ImportedBy
<1>2. PICK m \in DOMAIN bundle : \E i \in DOMAIN bundle[m].imports :
        e = [source |-> m, target |-> i, target_present |-> i \in DOMAIN bundle]
    BY EdgeIs
<1>3. PICK i \in DOMAIN bundle[m].imports :
        e = [source |-> m, target |-> i, target_present |-> i \in DOMAIN bundle]
    BY <1>2
<1>4. e.target = i /\ (e.target_present <=> i \in DOMAIN bundle)
    BY <1>3
<1> QED
    BY <1>1, <1>4

\* The imports a diff lists as added are those only the second bundle has.
LEMMA ArcsAdded ==
    ASSUME NEW left, NEW right
    PROVE  ArcsListed(Listed(right, DOMAIN right \ DOMAIN left), Changes(left, right), "added")
             = Arcs(right) \ Arcs(left)
<1> DEFINE fresh == Listed(right, DOMAIN right \ DOMAIN left)
           changes == Changes(left, right)
           came == ArcsListed(fresh, changes, "added")
<1>1. ASSUME NEW m \in DOMAIN right, NEW i \in DOMAIN right[m].imports, <<m, i>> \notin Arcs(left)
      PROVE  <<m, i>> \in came
    <2>1. CASE m \notin DOMAIN left
        <3>1. Inventory(m, right[m]) \in fresh
            BY <2>1 DEF Listed
        <3>2. Inventory(m, right[m]).name = m /\ i \in Inventory(m, right[m]).imports
            BY DEF Inventory
        <3> HIDE DEF fresh, changes
        <3> QED
            BY <3>1, <3>2 DEF ArcsListed
    <2>2. CASE m \in DOMAIN left
        <3> DEFINE c == ModuleDiff(m, left[m], right[m])
        <3>1. i \notin DOMAIN left[m].imports
            BY <1>1, <2>2, ArcsAre
        <3>2. i \in c.imports.added /\ c.name = m
            BY <3>1 DEF ModuleDiff, ImportsDiff
        <3>3. c \in changes
            BY <2>2, <3>2 DEF Changes, Common, Reported, Empty
        <3>4. i \in c.imports["added"]
            BY <3>2
        <3> HIDE DEF fresh, changes, c
        <3> QED
            BY <3>2, <3>3, <3>4 DEF ArcsListed
    <2> QED
        BY <2>1, <2>2
<1>2. ASSUME NEW x \in came
      PROVE  x \in Arcs(right) /\ x \notin Arcs(left)
    <2>1. CASE \E i \in fresh : \E m \in i.imports : x = <<i.name, m>>
        <3>1. PICK i \in fresh : \E m \in i.imports : x = <<i.name, m>>
            BY <2>1
        <3>2. PICK m \in i.imports : x = <<i.name, m>>
            BY <3>1
        <3>3. i.name \in DOMAIN right /\ i.name \notin DOMAIN left
              /\ i.imports = DOMAIN right[i.name].imports
            BY DEF Listed, Inventory
        <3> QED
            BY <3>2, <3>3, ArcsAre
    <2>2. CASE \E c \in changes : \E m \in c.imports["added"] : x = <<c.name, m>>
        <3>1. PICK c \in changes : \E m \in c.imports["added"] : x = <<c.name, m>>
            BY <2>2
        <3>2. PICK m \in c.imports["added"] : x = <<c.name, m>>
            BY <3>1
        <3>3. c.name \in Common(left, right) /\ c = ModuleDiff(c.name, left[c.name], right[c.name])
            BY ChangeIs
        <3>4. m \in DOMAIN right[c.name].imports /\ m \notin DOMAIN left[c.name].imports
            BY <3>3 DEF ModuleDiff, ImportsDiff
        <3> QED
            BY <3>2, <3>3, <3>4, ArcsAre DEF Common
    <2> HIDE DEF fresh, changes
    <2> QED
        BY <2>1, <2>2 DEF ArcsListed
<1>3. \A x \in Arcs(right) : \E m \in DOMAIN right : \E i \in DOMAIN right[m].imports : x = <<m, i>>
    BY ArcsAre
<1> HIDE DEF came
<1>4. came = Arcs(right) \ Arcs(left)
    BY <1>1, <1>2, <1>3
<1> QED
    BY <1>4 DEF came

\* The imports a diff lists as removed are those only the first bundle has.
LEMMA ArcsRemoved ==
    ASSUME NEW left, NEW right
    PROVE  ArcsListed(Listed(left, DOMAIN left \ DOMAIN right), Changes(left, right), "removed")
             = Arcs(left) \ Arcs(right)
<1> DEFINE stale == Listed(left, DOMAIN left \ DOMAIN right)
           changes == Changes(left, right)
           went == ArcsListed(stale, changes, "removed")
<1>1. ASSUME NEW m \in DOMAIN left, NEW i \in DOMAIN left[m].imports, <<m, i>> \notin Arcs(right)
      PROVE  <<m, i>> \in went
    <2>1. CASE m \notin DOMAIN right
        <3>1. Inventory(m, left[m]) \in stale
            BY <2>1 DEF Listed
        <3>2. Inventory(m, left[m]).name = m /\ i \in Inventory(m, left[m]).imports
            BY DEF Inventory
        <3> HIDE DEF stale, changes
        <3> QED
            BY <3>1, <3>2 DEF ArcsListed
    <2>2. CASE m \in DOMAIN right
        <3> DEFINE c == ModuleDiff(m, left[m], right[m])
        <3>1. i \notin DOMAIN right[m].imports
            BY <1>1, <2>2, ArcsAre
        <3>2. i \in c.imports.removed /\ c.name = m
            BY <3>1 DEF ModuleDiff, ImportsDiff
        <3>3. c \in changes
            BY <2>2, <3>2 DEF Changes, Common, Reported, Empty
        <3>4. i \in c.imports["removed"]
            BY <3>2
        <3> HIDE DEF stale, changes, c
        <3> QED
            BY <3>2, <3>3, <3>4 DEF ArcsListed
    <2> QED
        BY <2>1, <2>2
<1>2. ASSUME NEW x \in went
      PROVE  x \in Arcs(left) /\ x \notin Arcs(right)
    <2>1. CASE \E i \in stale : \E m \in i.imports : x = <<i.name, m>>
        <3>1. PICK i \in stale : \E m \in i.imports : x = <<i.name, m>>
            BY <2>1
        <3>2. PICK m \in i.imports : x = <<i.name, m>>
            BY <3>1
        <3>3. i.name \in DOMAIN left /\ i.name \notin DOMAIN right
              /\ i.imports = DOMAIN left[i.name].imports
            BY DEF Listed, Inventory
        <3> QED
            BY <3>2, <3>3, ArcsAre
    <2>2. CASE \E c \in changes : \E m \in c.imports["removed"] : x = <<c.name, m>>
        <3>1. PICK c \in changes : \E m \in c.imports["removed"] : x = <<c.name, m>>
            BY <2>2
        <3>2. PICK m \in c.imports["removed"] : x = <<c.name, m>>
            BY <3>1
        <3>3. c.name \in Common(left, right) /\ c = ModuleDiff(c.name, left[c.name], right[c.name])
            BY ChangeIs
        <3>4. m \in DOMAIN left[c.name].imports /\ m \notin DOMAIN right[c.name].imports
            BY <3>3 DEF ModuleDiff, ImportsDiff
        <3> QED
            BY <3>2, <3>3, <3>4, ArcsAre DEF Common
    <2> HIDE DEF stale, changes
    <2> QED
        BY <2>1, <2>2 DEF ArcsListed
<1>3. \A x \in Arcs(left) : \E m \in DOMAIN left : \E i \in DOMAIN left[m].imports : x = <<m, i>>
    BY ArcsAre
<1> HIDE DEF went
<1>4. went = Arcs(left) \ Arcs(right)
    BY <1>1, <1>2, <1>3
<1> QED
    BY <1>4 DEF went

\* What a diff lists of imports turns the one dependency graph into the other.
LEMMA DiffFollows ==
    ASSUME NEW pair \in Compared
    PROVE  FollowsDiff[pair]
<1> DEFINE left == ModulesOf[pair[1]]
           right == ModulesOf[pair[2]]
           diff == Comparison(left, right)
           came == ArcsListed(diff.modules_added, diff.modules_changed, "added")
           gone == ArcsListed(diff.modules_removed, diff.modules_changed, "removed")
<1>1. /\ diff.modules_added = Listed(right, DOMAIN right \ DOMAIN left)
      /\ diff.modules_removed = Listed(left, DOMAIN left \ DOMAIN right)
      /\ diff.modules_changed = Changes(left, right)
    BY ComparisonIs DEF Report
<1> HIDE DEF left, right, diff
<1>2. came = Arcs(right) \ Arcs(left) /\ gone = Arcs(left) \ Arcs(right)
    BY <1>1, ArcsAdded, ArcsRemoved
<1> HIDE DEF came, gone
<1>3. Arcs(right) = (Arcs(left) \ gone) \cup came
    BY <1>2
<1>4. ASSUME NEW m \in ExternalDependencies(left) \ ExternalDependencies(right)
      PROVE  \/ \E inventory \in diff.modules_added : inventory.name = m
             \/ ImportedBy(right, m) = {} /\ \E arc \in gone : arc[2] = m
    <2>1. m \notin DOMAIN left /\ \E n \in DOMAIN left : m \in DOMAIN left[n].imports
        BY ExternalIs
    <2>2. CASE m \in DOMAIN right
        <3>1. Inventory(m, right[m]) \in diff.modules_added
            BY <1>1, <2>1, <2>2 DEF Listed
        <3>2. Inventory(m, right[m]).name = m
            BY DEF Inventory
        <3> QED
            BY <3>1, <3>2
    <2>3. CASE m \notin DOMAIN right
        <3>1. ImportedBy(right, m) = {}
            BY <2>3, ImportedByIs
        <3>2. PICK n \in DOMAIN left : m \in DOMAIN left[n].imports
            BY <2>1
        <3>3. \A k \in DOMAIN right : m \notin DOMAIN right[k].imports
            BY <2>3, ExternalIs
        <3>4. <<n, m>> \in gone
            BY <1>2, <3>2, <3>3, ArcsAre
        <3> QED
            BY <3>1, <3>4
    <2> QED
        BY <2>2, <2>3
<1> QED
    BY <1>3, <1>4 DEF FollowsDiff, Diff, left, right, diff, came, gone

\* Two dicts without a difference are the same dict.
LEMMA SameMaps ==
    ASSUME NEW f, NEW g, IsMap(f), IsMap(g)
    PROVE  /\ Empty(NamedMapDiff(f, g)) <=> f = g
           /\ Empty(ImportsDiff(f, g)) <=> f = g
<1>1. f = g <=> DOMAIN f = DOMAIN g /\ \A x \in DOMAIN f \cap DOMAIN g : f[x] = g[x]
    <2>1. ASSUME DOMAIN f = DOMAIN g, \A x \in DOMAIN f \cap DOMAIN g : f[x] = g[x]
          PROVE  f = g
        <3>1. [x \in DOMAIN f |-> f[x]] = [x \in DOMAIN g |-> g[x]]
            BY <2>1
        <3> QED
            BY <3>1 DEF IsMap
    <2> QED
        BY <2>1
<1>2. Empty(NamedMapDiff(f, g)) <=> DOMAIN f = DOMAIN g /\ \A x \in DOMAIN f \cap DOMAIN g : f[x] = g[x]
    BY DEF Empty, NamedMapDiff
<1>3. Empty(ImportsDiff(f, g)) <=> DOMAIN f = DOMAIN g /\ \A x \in DOMAIN f \cap DOMAIN g : f[x] = g[x]
    <2> DEFINE differ == {x \in DOMAIN f \cap DOMAIN g : f[x] # g[x]}
               symbols == {[module |-> m, added |-> g[m] \ f[m], removed |-> f[m] \ g[m]] : m \in differ}
    <2>1. symbols = {} <=> differ = {}
        <3> HIDE DEF differ
        <3>1. ASSUME NEW m \in differ PROVE symbols # {}
            OBVIOUS
        <3> QED
            BY <3>1
    <2>2. Empty(ImportsDiff(f, g)) <=> DOMAIN f = DOMAIN g /\ symbols = {}
        <3> HIDE DEF symbols
        <3>1. ImportsDiff(f, g) = [added |-> DOMAIN g \ DOMAIN f, removed |-> DOMAIN f \ DOMAIN g,
                                   changed |-> symbols]
            BY DEF ImportsDiff, symbols
        <3> QED
            BY <3>1 DEF Empty
    <2> HIDE DEF symbols
    <2> QED
        BY <2>1, <2>2
<1> QED
    BY <1>1, <1>2, <1>3

\* The catalogue of one module, without the rest of its file.
Catalogue(module) ==
    [objects |-> module.objects, notifications |-> module.notifications, imports |-> module.imports]

LEMMA ReportedIfChanged ==
    ASSUME NEW m, NEW f, NEW g, HasCatalogue(f), HasCatalogue(g)
    PROVE  ~Reported(ModuleDiff(m, f, g)) <=> Catalogue(f) = Catalogue(g)
<1>1. /\ Empty(ModuleDiff(m, f, g).objects) <=> f.objects = g.objects
      /\ Empty(ModuleDiff(m, f, g).notifications) <=> f.notifications = g.notifications
      /\ Empty(ModuleDiff(m, f, g).imports) <=> f.imports = g.imports
    BY SameMaps DEF HasCatalogue, ModuleDiff
<1>2. Catalogue(f) = Catalogue(g)
        <=> f.objects = g.objects /\ f.notifications = g.notifications /\ f.imports = g.imports
    BY DEF Catalogue
<1> QED
    BY <1>1, <1>2 DEF Reported

LEMMA ServedIs ==
    ASSUME NEW left, NEW right
    PROVE  Served(left) = Served(right)
             <=> DOMAIN left = DOMAIN right
                   /\ \A m \in DOMAIN left : Catalogue(left[m]) = Catalogue(right[m])
<1>1. Served(left) = [m \in DOMAIN left |-> Catalogue(left[m])]
      /\ Served(right) = [m \in DOMAIN right |-> Catalogue(right[m])]
    BY DEF Served, Catalogue
<1> QED
    BY <1>1

\* A comparison lists nothing exactly when the two serve the same.
LEMMA ListsNothingIfSame ==
    ASSUME NEW left, NEW right, IsBundle(left), IsBundle(right)
    PROVE  ListsNothing(Comparison(left, right)) <=> Served(left) = Served(right)
<1> DEFINE diff == Comparison(left, right)
<1>1. /\ diff.identical = FALSE
      /\ diff.modules_added = Listed(right, DOMAIN right \ DOMAIN left)
      /\ diff.modules_removed = Listed(left, DOMAIN left \ DOMAIN right)
      /\ diff.modules_changed = Changes(left, right)
    BY ComparisonIs DEF Report
<1> HIDE DEF diff
<1>2. /\ diff.modules_added = {} <=> DOMAIN right \ DOMAIN left = {}
      /\ diff.modules_removed = {} <=> DOMAIN left \ DOMAIN right = {}
    BY <1>1 DEF Listed
<1>3. diff.modules_changed = {}
        <=> \A m \in Common(left, right) : Catalogue(left[m]) = Catalogue(right[m])
    <2>1. \A m \in Common(left, right) :
            ~Reported(ModuleDiff(m, left[m], right[m])) <=> Catalogue(left[m]) = Catalogue(right[m])
        BY ReportedIfChanged DEF IsBundle, Common
    <2>2. Changes(left, right) = {}
            <=> \A m \in Common(left, right) : ~Reported(ModuleDiff(m, left[m], right[m]))
        BY DEF Changes
    <2> QED
        BY <1>1, <2>1, <2>2
<1>4. ListsNothing(diff)
        <=> diff.modules_added = {} /\ diff.modules_removed = {} /\ diff.modules_changed = {}
    BY <1>1 DEF ListsNothing
<1>5. ListsNothing(diff)
        <=> DOMAIN left = DOMAIN right
              /\ \A m \in DOMAIN left : Catalogue(left[m]) = Catalogue(right[m])
    BY <1>2, <1>3, <1>4 DEF Common
<1> QED
    BY <1>5, ServedIs DEF diff

LEMMA DiffIsEmptyIfSame ==
    ASSUME NEW pair \in Compared
    PROVE  EmptyIfSame[pair]
<1> DEFINE left == ModulesOf[pair[1]]
           right == ModulesOf[pair[2]]
<1>1. IsBundle(left) /\ IsBundle(right)
    BY ContentIsBundle DEF Compared
<1> HIDE DEF left, right
<1>2. ASSUME NEW hashed \in BOOLEAN
      PROVE  ListsNothing(Diff(left, right, hashed)) <=> Served(left) = Served(right)
    <2>1. CASE hashed /\ left = right
        <3>1. ListsNothing(Diff(left, right, hashed))
            BY <2>1 DEF Diff, ListsNothing
        <3> QED
            BY <2>1, <3>1
    <2>2. CASE ~(hashed /\ left = right)
        <3>1. Diff(left, right, hashed) = Comparison(left, right)
            BY <2>2 DEF Diff
        <3> QED
            BY <1>1, <3>1, ListsNothingIfSame
    <2> QED
        BY <2>1, <2>2
<1> QED
    BY <1>2 DEF EmptyIfSame, left, right

\* A diff explains the two bundles it compares, whatever bundles are stored.
THEOREM DiffsExplain == ViewSpec => []DiffExplains
<1>1. IInv => DiffExplains
    <2> SUFFICES ASSUME IInv, NEW a \in Ids, NEW b \in Ids
                 PROVE  LET pair == <<bundles[a].content, bundles[b].content>>
                        IN  AddsUp[pair] /\ FollowsDiff[pair] /\ EmptyIfSame[pair]
        BY DEF DiffExplains
    <2>1. bundles[a] \in BundleRow /\ bundles[b] \in BundleRow
        BY ElementOfSeq DEF IInv, TypeOK, Ids
    <2>2. <<bundles[a].content, bundles[b].content>> \in Compared
        BY <2>1, ModulesAssumption DEF BundleRow, Compared
    <2> QED
        BY <2>2, EveryDiffAddsUp, DiffFollows, DiffIsEmptyIfSame
<1> QED
    BY <1>1, JobsSpec, Inductive, PTL

-----------------------------------------------------------------------------
(* The search.                                                             *)

HonestlyTyped(n) ==
    /\ n.nodeType \in {"table", "row", "column", "scalar"} => n.objectType = "OBJECT-TYPE"
    /\ n.objectType \notin TypeLabels

LEMMA LabelsAre ==
    /\ TypeLabels = {"NotificationType", "MibScalar", "MibTable", "MibTableRow", "MibTableColumn",
                     "ObjectGroup", "ModuleCompliance", "ModuleIdentity"}
    /\ ObjectTypes["NotificationType"] = {"NOTIFICATION-TYPE", "TRAP-TYPE"}
    /\ \A label \in Flavours : ObjectTypes[label] = {"OBJECT-TYPE"}
    /\ ObjectTypes["ObjectGroup"] = {"OBJECT-GROUP"}
    /\ ObjectTypes["ModuleCompliance"] = {"MODULE-COMPLIANCE"}
    /\ ObjectTypes["ModuleIdentity"] = {"MODULE-IDENTITY"}
    BY DEF TypeLabels, ObjectTypes, Flavours

\* The label of a node, by what the compiler says of it.
LEMMA UiTypeIs ==
    ASSUME NEW n, HonestlyTyped(n)
    PROVE  /\ UiType(n) = "NotificationType" <=> n.objectType \in {"NOTIFICATION-TYPE", "TRAP-TYPE"}
           /\ UiType(n) = "ObjectGroup" <=> n.objectType = "OBJECT-GROUP"
           /\ UiType(n) = "ModuleCompliance" <=> n.objectType = "MODULE-COMPLIANCE"
           /\ UiType(n) = "ModuleIdentity" <=> n.objectType = "MODULE-IDENTITY"
           /\ UiType(n) \in Flavours => n.objectType = "OBJECT-TYPE"
<1>1. CASE n.nodeType \in {"table", "row", "column", "scalar"}
    <2>1. n.objectType = "OBJECT-TYPE"
        BY <1>1 DEF HonestlyTyped
    <2>2. UiType(n) \in Flavours
        BY <1>1, <2>1 DEF UiType, Flavours
    <2> QED
        BY <2>1, <2>2 DEF Flavours
<1>2. CASE n.nodeType \notin {"table", "row", "column", "scalar"}
    <2>1. CASE n.objectType \in {"NOTIFICATION-TYPE", "TRAP-TYPE"}
        BY <1>2, <2>1 DEF UiType, Flavours
    <2>2. CASE n.objectType = "OBJECT-GROUP"
        BY <1>2, <2>2 DEF UiType, Flavours
    <2>3. CASE n.objectType = "MODULE-COMPLIANCE"
        BY <1>2, <2>3 DEF UiType, Flavours
    <2>4. CASE n.objectType = "MODULE-IDENTITY"
        BY <1>2, <2>4 DEF UiType, Flavours
    <2>5. CASE n.objectType \notin {"NOTIFICATION-TYPE", "TRAP-TYPE", "OBJECT-GROUP",
                                    "MODULE-COMPLIANCE", "MODULE-IDENTITY"}
        <3>1. UiType(n) = n.objectType
            BY <1>2, <2>5 DEF UiType
        <3>2. UiType(n) \notin TypeLabels
            BY <3>1 DEF HonestlyTyped
        <3> QED
            BY <2>5, <3>2, LabelsAre DEF Flavours
    <2> QED
        BY <2>1, <2>2, <2>3, <2>4, <2>5
<1> QED
    BY <1>1, <1>2

\* A filter by raw object type, with its pass over the flavours, takes the nodes
\* of its label.
LEMMA AcceptsIsLabel ==
    ASSUME NEW n, HonestlyTyped(n), NEW label \in TypeLabels
    PROVE  Accepts(n, label) <=> UiType(n) = label
<1>1. CASE label \in Flavours
    <2>1. ObjectTypes[label] = {"OBJECT-TYPE"}
        BY <1>1, LabelsAre
    <2> QED
        BY <1>1, <2>1, UiTypeIs DEF Accepts
<1>2. CASE label \notin Flavours
    <2>1. label \in {"NotificationType", "ObjectGroup", "ModuleCompliance", "ModuleIdentity"}
        BY <1>2, LabelsAre DEF Flavours
    <2> QED
        BY <1>2, <2>1, UiTypeIs, LabelsAre DEF Accepts
<1> QED
    BY <1>1, <1>2

\* Some thing has the least number of all.
LEMMA LeastOf ==
    ASSUME NEW S, S # {}, NEW number, \A x \in S : number[x] \in Nat
    PROVE  \E x \in S : \A y \in S : number[x] <= number[y]
<1> DEFINE Less == OpToRel(<, Nat)
           values == {number[x] : x \in S}
<1>1. IsWellFoundedOn(Less, Nat)
    BY NatLessThanWellFounded
<1>2. values \subseteq Nat /\ values # {}
    OBVIOUS
<1> HIDE DEF Less
<1>3. PICK v \in values : \A w \in values : ~(<<w, v>> \in Less)
    BY <1>1, <1>2, WFMin
<1>4. \A w \in values : ~(w < v)
    BY <1>2, <1>3 DEF OpToRel, Less
<1>5. PICK x \in S : v = number[x]
    BY <1>3
<1>6. ASSUME NEW y \in S PROVE number[x] <= number[y]
    <2>1. number[y] \in values
        OBVIOUS
    <2>2. ~(number[y] < number[x])
        BY <1>4, <1>5, <2>1
    <2> HIDE DEF values
    <2> QED
        BY <2>2
<1> QED
    BY <1>6

\* What comes before what, on a set of nodes.
Ahead(precedes, E, n) == {m \in E : <<m, n>> \in precedes}

IsOrder(precedes, E) ==
    /\ \A m \in E : <<m, m>> \notin precedes
    /\ \A m, n \in E : m = n \/ <<m, n>> \in precedes \/ <<n, m>> \in precedes
    /\ \A k, m, n \in E : <<k, m>> \in precedes /\ <<m, n>> \in precedes => <<k, n>> \in precedes

Rank(precedes, E) == [n \in E |-> Cardinality(Ahead(precedes, E, n))]

LEMMA RankIsNat ==
    ASSUME NEW E, IsFiniteSet(E), NEW precedes, NEW n \in E
    PROVE  IsFiniteSet(Ahead(precedes, E, n)) /\ Rank(precedes, E)[n] \in Nat
<1>1. Ahead(precedes, E, n) \in SUBSET E
    BY DEF Ahead
<1>2. IsFiniteSet(Ahead(precedes, E, n))
    BY <1>1, FS_Subset
<1> QED
    BY <1>2, FS_CardinalityType DEF Rank

LEMMA RankFollowsOrder ==
    ASSUME NEW E, IsFiniteSet(E), NEW precedes, IsOrder(precedes, E), NEW m \in E, NEW n \in E
    PROVE  <<m, n>> \in precedes <=> Rank(precedes, E)[m] < Rank(precedes, E)[n]
<1>1. ASSUME NEW k \in E, NEW l \in E, <<k, l>> \in precedes
      PROVE  Rank(precedes, E)[k] < Rank(precedes, E)[l]
    <2>1. Ahead(precedes, E, k) \in SUBSET Ahead(precedes, E, l)
        BY <1>1 DEF Ahead, IsOrder
    <2>2. k \in Ahead(precedes, E, l) /\ k \notin Ahead(precedes, E, k)
        BY <1>1 DEF Ahead, IsOrder
    <2>3. IsFiniteSet(Ahead(precedes, E, l))
          /\ Rank(precedes, E)[k] \in Nat /\ Rank(precedes, E)[l] \in Nat
        BY RankIsNat
    <2>4. /\ Cardinality(Ahead(precedes, E, k)) <= Cardinality(Ahead(precedes, E, l))
          /\ Cardinality(Ahead(precedes, E, k)) # Cardinality(Ahead(precedes, E, l))
        BY <2>1, <2>2, <2>3, FS_Subset
    <2>5. Rank(precedes, E)[k] = Cardinality(Ahead(precedes, E, k))
          /\ Rank(precedes, E)[l] = Cardinality(Ahead(precedes, E, l))
        BY DEF Rank
    <2> QED
        BY <2>3, <2>4, <2>5
<1>2. Rank(precedes, E)[m] \in Nat /\ Rank(precedes, E)[n] \in Nat
    BY RankIsNat
<1>3. m = n \/ <<m, n>> \in precedes \/ <<n, m>> \in precedes
    BY DEF IsOrder
<1>4. <<m, m>> \notin precedes
    BY DEF IsOrder
<1>5. /\ <<m, n>> \in precedes => Rank(precedes, E)[m] < Rank(precedes, E)[n]
      /\ <<n, m>> \in precedes => Rank(precedes, E)[n] < Rank(precedes, E)[m]
    BY <1>1
<1> QED
    BY <1>2, <1>3, <1>4, <1>5

Best(precedes, E, limit) == {n \in E : Rank(precedes, E)[n] < limit}

\* Those with fewer than limit before them come before the others, and are limit
\* if there are others.
LEMMA BestAreFirst ==
    ASSUME NEW E, IsFiniteSet(E), NEW precedes, IsOrder(precedes, E), NEW limit \in Nat
    PROVE  /\ \A n \in Best(precedes, E, limit), left \in E \ Best(precedes, E, limit) : <<n, left>> \in precedes
           /\ Best(precedes, E, limit) # E => Cardinality(Best(precedes, E, limit)) = limit
<1> DEFINE rank == Rank(precedes, E)
           shown == Best(precedes, E, limit)
<1>1. /\ \A n \in E : rank[n] \in Nat
      /\ \A m, n \in E : <<m, n>> \in precedes <=> rank[m] < rank[n]
    BY RankIsNat, RankFollowsOrder
<1>2. shown \in SUBSET E /\ \A n \in E : n \in shown <=> rank[n] < limit
    BY DEF Best
<1> HIDE DEF rank, shown
<1>3. ASSUME NEW n \in shown, NEW left \in E \ shown
      PROVE  <<n, left>> \in precedes
    <2>1. rank[n] < limit /\ ~(rank[left] < limit)
        BY <1>2
    <2>2. n \in E /\ rank[n] \in Nat /\ rank[left] \in Nat
        BY <1>1, <1>2
    <2>3. rank[n] < rank[left]
        BY <2>1, <2>2
    <2> QED
        BY <1>1, <2>2, <2>3
<1>4. ASSUME shown # E PROVE Cardinality(shown) = limit
    <2>1. E \ shown # {}
        BY <1>2, <1>4
    <2>2. PICK left \in E \ shown : \A n \in E \ shown : rank[left] <= rank[n]
        BY <1>1, <2>1, LeastOf
    <2>3. shown = Ahead(precedes, E, left)
        BY <1>1, <1>2, <2>2 DEF Ahead
    <2>4. Cardinality(shown) = rank[left]
        BY <2>2, <2>3 DEF rank, Rank
    <2>5. Cardinality(shown) >= limit /\ Cardinality(shown) \in Nat
        BY <1>1, <1>2, <2>2, <2>4
    <2>6. Cardinality(shown) <= limit
        <3>1. CASE shown = {}
            BY <3>1, FS_EmptySet
        <3>2. CASE shown # {}
            <4> DEFINE short == [n \in shown |-> limit - rank[n]]
            <4>1. \A n \in shown : short[n] \in Nat
                BY <1>1, <1>2
            <4>2. PICK last \in shown : \A n \in shown : short[last] <= short[n]
                <5> HIDE DEF short
                <5> QED
                    BY <3>2, <4>1, LeastOf
            <4>3. \A n \in shown : rank[n] <= rank[last]
                BY <1>1, <1>2, <4>2
            <4>4. \A n \in shown : n = last \/ <<n, last>> \in precedes
                <5> TAKE n \in shown
                <5>1. n = last \/ <<n, last>> \in precedes \/ <<last, n>> \in precedes
                    BY <1>2 DEF IsOrder
                <5> QED
                    BY <1>1, <1>2, <4>3, <5>1
            <4>5. shown \in SUBSET (Ahead(precedes, E, last) \cup {last})
                BY <1>2, <4>4 DEF Ahead
            <4>6. last \in E /\ rank[last] < limit /\ rank[last] \in Nat
                BY <1>1, <1>2
            <4>7. IsFiniteSet(Ahead(precedes, E, last)) /\ Cardinality(Ahead(precedes, E, last)) = rank[last]
                BY <4>6, RankIsNat DEF rank, Rank
            <4>8. /\ IsFiniteSet(Ahead(precedes, E, last) \cup {last})
                  /\ Cardinality(Ahead(precedes, E, last) \cup {last}) <= rank[last] + 1
                <5>1. /\ IsFiniteSet(Ahead(precedes, E, last) \cup {last})
                      /\ \/ Cardinality(Ahead(precedes, E, last) \cup {last}) = rank[last]
                         \/ Cardinality(Ahead(precedes, E, last) \cup {last}) = rank[last] + 1
                    BY <4>7, FS_AddElement
                <5> QED
                    BY <4>6, <5>1
            <4>9. Cardinality(shown) <= Cardinality(Ahead(precedes, E, last) \cup {last})
                BY <4>5, <4>8, FS_Subset
            <4>10. Cardinality(Ahead(precedes, E, last) \cup {last}) \in Nat
                BY <4>8, FS_CardinalityType
            <4> QED
                BY <2>5, <4>6, <4>8, <4>9, <4>10
        <3> QED
            BY <3>1, <3>2
    <2> QED
        BY <2>5, <2>6
<1> QED
    BY <1>3, <1>4 DEF shown

\* What a search takes is what the tree shows of it under the same filters.
LEMMA MatchesAreInView ==
    ASSUME NEW content \in DOMAIN NodesOf, NEW query, NEW module, NEW label \in TypeLabels \cup {NoFilter}
    PROVE  Matches(NodesOf[content], query, module, label)
             = InView(NodesOf[content], module, label) \cap DOMAIN Hits[query]
<1>1. ASSUME NEW n \in NodesOf[content]
      PROVE  (label = NoFilter \/ Accepts(n, label)) <=> (label = NoFilter \/ UiType(n) = label)
    <2>1. HonestlyTyped(n)
        BY TypesAssumption DEF HonestlyTyped
    <2> QED
        BY <2>1, AcceptsIsLabel
<1> QED
    BY <1>1 DEF Matches, InView

Precedes(query, E) == {pair \in E \X E : RanksBefore(query, pair[1], pair[2])}

LEMMA RanksAreOrder ==
    ASSUME NEW content \in DOMAIN NodesOf, NEW query \in DOMAIN Hits,
           NEW E \in SUBSET (NodesOf[content] \cap DOMAIN Hits[query])
    PROVE  IsOrder(Precedes(query, E), E)
<1>1. ASSUME NEW m \in E, NEW n \in E
      PROVE  /\ <<m, n>> \in Precedes(query, E) <=> RanksBefore(query, m, n)
             /\ Hits[query][m] \in Int /\ m.place \in Int
             /\ m.place = n.place => m = n
    <2>1. <<m, n>> \in Precedes(query, E) <=> RanksBefore(query, m, n)
        BY DEF Precedes
    <2>2. m \in NodesOf[content] /\ n \in NodesOf[content] /\ m \in DOMAIN Hits[query]
        OBVIOUS
    <2> QED
        BY <2>1, <2>2, RanksAssumption
<1>2. \A m \in E : <<m, m>> \notin Precedes(query, E)
    BY <1>1 DEF RanksBefore
<1>3. ASSUME NEW m \in E, NEW n \in E
      PROVE  m = n \/ <<m, n>> \in Precedes(query, E) \/ <<n, m>> \in Precedes(query, E)
    <2>1. m = n \/ RanksBefore(query, m, n) \/ RanksBefore(query, n, m)
        <3>1. /\ Hits[query][m] \in Int /\ Hits[query][n] \in Int /\ m.place \in Int /\ n.place \in Int
              /\ m.place = n.place => m = n
            BY <1>1
        <3> QED
            BY <3>1 DEF RanksBefore
    <2> QED
        BY <1>1, <2>1
<1>4. ASSUME NEW k \in E, NEW m \in E, NEW n \in E,
             <<k, m>> \in Precedes(query, E), <<m, n>> \in Precedes(query, E)
      PROVE  <<k, n>> \in Precedes(query, E)
    <2>1. RanksBefore(query, k, m) /\ RanksBefore(query, m, n)
        BY <1>1, <1>4
    <2>2. RanksBefore(query, k, n)
        <3>1. /\ Hits[query][k] \in Int /\ Hits[query][m] \in Int /\ Hits[query][n] \in Int
              /\ k.place \in Int /\ m.place \in Int /\ n.place \in Int
            BY <1>1
        <3> QED
            BY <2>1, <3>1 DEF RanksBefore
    <2> QED
        BY <1>1, <2>2
<1> QED
    BY <1>2, <1>3, <1>4 DEF IsOrder

LEMMA ResultsAreBest ==
    ASSUME NEW nodes, NEW query, NEW module, NEW label, NEW limit, NEW E,
           E = Matches(nodes, query, module, label)
    PROVE  Results(nodes, query, module, label, limit) = Best(Precedes(query, E), E, limit)
<1>1. ASSUME NEW n \in E
      PROVE  {m \in E : RanksBefore(query, m, n)} = Ahead(Precedes(query, E), E, n)
    BY DEF Ahead, Precedes
<1>2. \A n \in E : Rank(Precedes(query, E), E)[n] = Cardinality({m \in E : RanksBefore(query, m, n)})
    BY <1>1 DEF Rank
<1> QED
    BY <1>2 DEF Results, Best

\* The search of one content.
LEMMA SearchShowsBest ==
    ASSUME NEW content \in DOMAIN NodesOf
    PROVE  SearchShowsBestOfTree[content]
<1> DEFINE nodes == NodesOf[content]
<1>1. ASSUME NEW query \in DOMAIN Hits, NEW m \in ModulesIn(nodes) \cup {NoFilter},
             NEW label \in TypeLabels \cup {NoFilter}, NEW limit \in Limits
      PROVE  LET eligible == InView(nodes, m, label) \cap DOMAIN Hits[query]
                 shown == Results(nodes, query, m, label, limit)
             IN  /\ shown \subseteq eligible
                 /\ \A n \in shown, left \in eligible \ shown : Hits[query][n] <= Hits[query][left]
                 /\ eligible # shown => Cardinality(shown) = limit
    <2> DEFINE eligible == InView(nodes, m, label) \cap DOMAIN Hits[query]
               shown == Results(nodes, query, m, label, limit)
               order == Precedes(query, eligible)
    <2>1. eligible = Matches(nodes, query, m, label)
        BY MatchesAreInView
    <2>2. shown = Best(order, eligible, limit)
        <3> HIDE DEF eligible, nodes
        <3> QED
            BY <2>1, ResultsAreBest
    <2>3. eligible \in SUBSET (nodes \cap DOMAIN Hits[query])
        BY DEF InView
    <2>4. IsFiniteSet(eligible)
        <3>1. IsFiniteSet(nodes) /\ eligible \in SUBSET nodes
            BY <2>3, NodesAssumption
        <3> HIDE DEF eligible, nodes
        <3> QED
            BY <3>1, FS_Subset
    <2>5. IsOrder(order, eligible)
        <3> HIDE DEF eligible
        <3> QED
            BY <2>3, RanksAreOrder
    <2>6. limit \in Nat
        BY RanksAssumption
    <2>7. \A n \in eligible : Hits[query][n] \in Int
        BY RanksAssumption
    <2> HIDE DEF eligible, shown, nodes
    <2>8. /\ \A n \in shown, left \in eligible \ shown : <<n, left>> \in order
          /\ shown # eligible => Cardinality(shown) = limit
        <3> HIDE DEF order
        <3> QED
            BY <2>2, <2>4, <2>5, <2>6, BestAreFirst
    <2>9. shown \subseteq eligible
        BY <2>2 DEF Best
    <2>10. ASSUME NEW n \in shown, NEW left \in eligible \ shown
           PROVE  Hits[query][n] <= Hits[query][left]
        <3>1. <<n, left>> \in order
            BY <2>8
        <3>2. RanksBefore(query, n, left)
            BY <3>1 DEF Precedes
        <3>3. Hits[query][n] \in Int /\ Hits[query][left] \in Int
            BY <2>7, <2>9
        <3> QED
            BY <3>2, <3>3 DEF RanksBefore
    <2> QED
        BY <2>8, <2>9, <2>10 DEF eligible, shown
<1> QED
    BY <1>1 DEF SearchShowsBestOfTree

LEMMA ActiveContent ==
    ASSUME IInv, mem # 0
    PROVE  bundles[mem].content \in DOMAIN ModulesOf \cap DOMAIN NodesOf
<1>1. mem \in Ids
    BY DEF IInv, TypeOK, Ids
<1>2. bundles[mem] \in BundleRow
    BY <1>1, ElementOfSeq DEF IInv, TypeOK, Ids
<1> QED
    BY <1>2, ModulesAssumption DEF BundleRow

\* A search shows the best of what the tree shows under the same filters.
THEOREM SearchesAgreeWithTree == ViewSpec => []SearchAgreesWithTree
<1>1. IInv => SearchAgreesWithTree
    BY ActiveContent, SearchShowsBest DEF SearchAgreesWithTree
<1> QED
    BY <1>1, JobsSpec, Inductive, PTL

-----------------------------------------------------------------------------
(* The trees.  Unfolding is level by level, from the rows at the top.      *)

\* Counting up from zero through a set of numbers.
LEMMA UpFromZero ==
    ASSUME NEW n \in Nat, NEW S, 0 \in S, \A i \in 0 .. n - 1 : i \in S => i + 1 \in S
    PROVE  0 .. n \subseteq S
<1> DEFINE Missing == (0 .. n) \ S
           number == [i \in 0 .. n |-> i]
<1> SUFFICES ASSUME Missing # {} PROVE FALSE
    OBVIOUS
<1>1. \A i \in Missing : number[i] \in Nat
    OBVIOUS
<1>2. PICK m \in Missing : \A k \in Missing : number[m] <= number[k]
    <2> HIDE DEF Missing, number
    <2> QED
        BY <1>1, LeastOf
<1>3. \A k \in Missing : m <= k
    BY <1>2
<1> QED
    BY <1>3, m - 1 \in 0 .. n \/ m = 0

\* The levels of an unfolding: each is made from the one above.
Levels(f, base, deepen, n) ==
    f = [k \in 0 .. n |-> IF k = 0 THEN base ELSE deepen[f[k - 1]]]

Unfoldings(X, base, deepen, j) ==
    {f \in [0 .. j -> X] : f[0] = base /\ \A k \in 1 .. j : f[k] = deepen[f[k - 1]]}

LEMMA LevelsExist ==
    ASSUME NEW X, NEW n \in Nat, NEW base \in X, NEW deepen \in [X -> X]
    PROVE  \E f : Levels(f, base, deepen, n)
<1> DEFINE Runs(j) == Unfoldings(X, base, deepen, j)
           S == {j \in 0 .. n : Runs(j) # {}}
<1>1. 0 \in S
    <2>1. [k \in 0 .. 0 |-> base] \in Runs(0)
        BY DEF Unfoldings
    <2> QED
        BY <2>1
<1>2. ASSUME NEW j \in 0 .. n - 1, j \in S PROVE j + 1 \in S
    <2>1. PICK f \in [0 .. j -> X] : f[0] = base /\ \A k \in 1 .. j : f[k] = deepen[f[k - 1]]
        BY <1>2 DEF Unfoldings
    <2> DEFINE g == [k \in 0 .. j + 1 |-> IF k <= j THEN f[k] ELSE deepen[f[j]]]
    <2>2. j \in 0 .. j /\ j + 1 \in 0 .. n /\ f[j] \in X /\ deepen[f[j]] \in X
        BY <2>1
    <2>3. g \in [0 .. j + 1 -> X]
        BY <2>1, <2>2
    <2>4. g[0] = base
        BY <2>1
    <2>5. ASSUME NEW k \in 1 .. j + 1 PROVE g[k] = deepen[g[k - 1]]
        <3>1. CASE k = j + 1
            BY <3>1, <2>2
        <3>2. CASE k \in 1 .. j
            BY <3>2, <2>1
        <3> QED
            BY <3>1, <3>2
    <2> HIDE DEF g
    <2>6. g \in Runs(j + 1)
        BY <2>3, <2>4, <2>5 DEF Unfoldings
    <2> HIDE DEF Runs
    <2> QED
        BY <2>2, <2>6
<1>3. 0 .. n \subseteq S
    <2> HIDE DEF S
    <2>1. \A j \in 0 .. n - 1 : j \in S => j + 1 \in S
        BY <1>2
    <2> QED
        BY <1>1, <2>1, UpFromZero
<1>4. PICK f : f \in Runs(n)
    BY <1>3
<1>5. f \in [0 .. n -> X] /\ f[0] = base /\ \A k \in 1 .. n : f[k] = deepen[f[k - 1]]
    BY <1>4 DEF Unfoldings
<1>6. f = [k \in 0 .. n |-> f[k]]
    BY <1>5
<1>7. \A k \in 0 .. n : f[k] = IF k = 0 THEN base ELSE deepen[f[k - 1]]
    BY <1>5
<1>8. [k \in 0 .. n |-> f[k]] = [k \in 0 .. n |-> IF k = 0 THEN base ELSE deepen[f[k - 1]]]
    BY <1>7
<1> QED
    BY <1>6, <1>8 DEF Levels

\* OIDs.
LEMMA BelowIs ==
    ASSUME NEW oid \in Seq(Nat), NEW root \in Seq(Nat)
    PROVE  Below(oid, root) <=> Len(oid) > Len(root) /\ SubSeq(oid, 1, Len(root)) = root
<1>1. SubSeq(root, 1, Len(root)) = root /\ SubSeq(oid, 1, Len(oid)) = oid
    BY SubSeqFull
<1>2. Len(root) \in Nat /\ Len(oid) \in Nat
    OBVIOUS
<1>3. Below(oid, root)
        <=> Len(root) <= Len(oid) /\ SubSeq(oid, 1, Len(root)) = root /\ root # oid
    BY <1>1 DEF Below, IsStrictPrefix, IsPrefix
<1> QED
    BY <1>1, <1>2, <1>3

LEMMA PrefixOfPrefix ==
    ASSUME NEW oid \in Seq(Nat), NEW j \in 0 .. Len(oid), NEW k \in 0 .. j
    PROVE  /\ SubSeq(oid, 1, j) \in Seq(Nat) /\ Len(SubSeq(oid, 1, j)) = j
           /\ SubSeq(SubSeq(oid, 1, j), 1, k) = SubSeq(oid, 1, k)
<1>1. SubSeq(oid, 1, j) \in Seq(Nat) /\ Len(SubSeq(oid, 1, j)) = j
    BY SubSeqProperties
<1>2. SubSeq(SubSeq(oid, 1, j), 1, k) = SubSeq(oid, 1, k)
    <2>1. CASE k = 0
        BY <2>1, SubSeqEmpty
    <2>2. CASE k # 0
        BY <2>2, SubSeqOfSubSeq
    <2> QED
        BY <2>1, <2>2
<1> QED
    BY <1>1, <1>2

Rows(nodes) == [node : nodes, opens : BOOLEAN]

\* What expanding every row of a level shows.
Deeper(nodes, level) == UNION {OidTree(nodes, row.node.oid) : row \in {r \in level : r.opens}}

LEMMA OidTreeRows ==
    ASSUME NEW nodes, NEW root, NEW row
    PROVE  row \in OidTree(nodes, root)
             <=> \E n \in nodes :
                    /\ Below(n.oid, root) /\ Len(n.oid) = Len(root) + 1
                    /\ row = [node |-> n, opens |-> n.oid \in Marked(nodes, root)]
    BY DEF OidTree

LEMMA DeeperRows ==
    ASSUME NEW nodes, NEW level
    PROVE  Deeper(nodes, level) \subseteq Rows(nodes)
<1>1. ASSUME NEW root, NEW row \in OidTree(nodes, root) PROVE row \in Rows(nodes)
    <2>1. PICK n \in nodes : row = [node |-> n, opens |-> n.oid \in Marked(nodes, root)]
        BY OidTreeRows
    <2>2. (n.oid \in Marked(nodes, root)) \in BOOLEAN
        OBVIOUS
    <2> QED
        BY <2>1, <2>2 DEF Rows
<1> QED
    BY <1>1 DEF Deeper

Unfolds(level, rows, nodes) ==
    /\ level[0] = rows
    /\ \A k \in 1 .. MaxDepth : level[k] = Deeper(nodes, level[k - 1])
    /\ Unfolded(rows, nodes) = {row.node : row \in UNION {level[k] : k \in 0 .. MaxDepth}}

LEMMA UnfoldingIs ==
    ASSUME NEW nodes, NEW rows \in SUBSET Rows(nodes)
    PROVE  \E level : Unfolds(level, rows, nodes)
<1> DEFINE X == SUBSET Rows(nodes)
           deepen == [s \in X |-> Deeper(nodes, s)]
           Is(f) == f = [k \in 0 .. MaxDepth |->
                           IF k = 0 THEN rows
                           ELSE UNION {OidTree(nodes, row.node.oid) : row \in {r \in f[k - 1] : r.opens}}]
           level == CHOOSE f : Is(f)
<1>0. MaxDepth \in Nat
    BY NodesAssumption
<1>1. deepen \in [X -> X]
    BY DeeperRows
<1>2. PICK g : Levels(g, rows, deepen, MaxDepth)
    <2> HIDE DEF deepen, X
    <2>1. rows \in X
        BY DEF X
    <2> QED
        BY <1>0, <1>1, <2>1, LevelsExist
<1>3. \A k \in 0 .. MaxDepth : g[k] = IF k = 0 THEN rows ELSE deepen[g[k - 1]]
    BY <1>2 DEF Levels
<1>4. \A k \in 0 .. MaxDepth : g[k] \in X
    <2> DEFINE S == {k \in 0 .. MaxDepth : g[k] \in X}
    <2>1. 0 \in S
        <3> HIDE DEF deepen
        <3>1. 0 \in 0 .. MaxDepth
            BY <1>0
        <3>2. g[0] = rows
            BY <1>3, <3>1
        <3> QED
            BY <3>1, <3>2
    <2>2. \A i \in 0 .. MaxDepth - 1 : i \in S => i + 1 \in S
        <3> HIDE DEF deepen, X
        <3> TAKE i \in 0 .. MaxDepth - 1
        <3>1. i + 1 \in 0 .. MaxDepth /\ i + 1 # 0 /\ (i + 1) - 1 = i
            BY <1>0
        <3>2. g[i + 1] = deepen[g[i]]
            BY <1>3, <3>1
        <3> QED
            BY <1>1, <3>1, <3>2
    <2> HIDE DEF S
    <2>3. 0 .. MaxDepth \subseteq S
        BY <1>0, <2>1, <2>2, UpFromZero
    <2> QED
        BY <2>3 DEF S
<1>5. Is(g)
    <2> DEFINE h == [k \in 0 .. MaxDepth |->
                       IF k = 0 THEN rows
                       ELSE UNION {OidTree(nodes, row.node.oid) : row \in {r \in g[k - 1] : r.opens}}]
               l == [k \in 0 .. MaxDepth |-> IF k = 0 THEN rows ELSE deepen[g[k - 1]]]
    <2>1. ASSUME NEW k \in 0 .. MaxDepth, k # 0
          PROVE  deepen[g[k - 1]]
                   = UNION {OidTree(nodes, row.node.oid) : row \in {r \in g[k - 1] : r.opens}}
        <3>1. k - 1 \in 0 .. MaxDepth
            BY <1>0, <2>1
        <3>2. g[k - 1] \in X
            BY <1>4, <3>1
        <3> QED
            BY <3>2 DEF Deeper
    <2>2. h = l
        <3> HIDE DEF deepen
        <3> QED
            BY <2>1
    <2>3. g = l
        BY <1>2 DEF Levels
    <2> HIDE DEF h, l
    <2>4. g = h
        BY <2>2, <2>3
    <2> QED
        BY <2>4 DEF h
<1> HIDE DEF Is
<1>6. Is(level)
    BY <1>5
<1>7. Unfolded(rows, nodes) = {row.node : row \in UNION {level[k] : k \in 0 .. MaxDepth}}
    BY DEF Unfolded, Is
<1>8. PICK f : f = level
    OBVIOUS
<1> HIDE DEF level
<1>9. f = [k \in 0 .. MaxDepth |->
             IF k = 0 THEN rows
             ELSE UNION {OidTree(nodes, row.node.oid) : row \in {r \in f[k - 1] : r.opens}}]
    BY <1>6, <1>8 DEF Is
<1>10. f[0] = rows /\ \A k \in 1 .. MaxDepth : f[k] = Deeper(nodes, f[k - 1])
    <2>1. \A k \in 0 .. MaxDepth :
            f[k] = IF k = 0 THEN rows ELSE Deeper(nodes, f[k - 1])
        BY <1>9 DEF Deeper
    <2>2. 0 \in 0 .. MaxDepth /\ \A k \in 1 .. MaxDepth : k \in 0 .. MaxDepth /\ k # 0
        BY <1>0
    <2> QED
        BY <2>1, <2>2
<1> QED
    BY <1>7, <1>8, <1>10 DEF Unfolds

GoodNodes(nodes) == \A n \in nodes : n.oid \in Seq(Nat) /\ Len(n.oid) \in 1 .. MaxDepth

\* A node right above another is the beginning of its OID.
LEMMA FrontIs ==
    ASSUME NEW m, NEW n, m.oid \in Seq(Nat), n.oid \in Seq(Nat), Len(m.oid) \in Nat \ {0},
           Len(n.oid) \in Nat \ {0}, m.oid = Front(n.oid)
    PROVE  /\ Len(n.oid) = Len(m.oid) + 1 /\ m.oid = SubSeq(n.oid, 1, Len(m.oid))
           /\ Below(n.oid, m.oid)
<1>1. m.oid = SubSeq(n.oid, 1, Len(n.oid) - 1)
    BY DEF Front
<1>2. Len(n.oid) - 1 \in 0 .. Len(n.oid) /\ 0 \in 0 .. (Len(n.oid) - 1)
    OBVIOUS
<1>3. Len(m.oid) = Len(n.oid) - 1
    BY <1>1, <1>2, PrefixOfPrefix
<1>4. SubSeq(n.oid, 1, Len(m.oid)) = m.oid /\ Len(n.oid) = Len(m.oid) + 1
    BY <1>1, <1>3
<1> QED
    BY <1>4, BelowIs

\* In a tree by OID a row with a node right below it has an expander.
LEMMA RowOpens ==
    ASSUME NEW nodes, GoodNodes(nodes), NEW root \in Seq(Nat), NEW row \in OidTree(nodes, root),
           NEW n \in nodes, row.node.oid = Front(n.oid)
    PROVE  row.opens
<1>1. PICK m \in nodes :
        /\ Below(m.oid, root) /\ Len(m.oid) = Len(root) + 1
        /\ row = [node |-> m, opens |-> m.oid \in Marked(nodes, root)]
    BY OidTreeRows
<1>2. /\ m.oid \in Seq(Nat) /\ n.oid \in Seq(Nat)
      /\ Len(m.oid) \in Nat \ {0} /\ Len(n.oid) \in Nat \ {0} /\ Len(root) \in Nat
    BY DEF GoodNodes
<1>3. m.oid = Front(n.oid)
    BY <1>1
<1>4. Len(n.oid) = Len(m.oid) + 1 /\ m.oid = SubSeq(n.oid, 1, Len(m.oid))
    BY <1>2, <1>3, FrontIs
<1>5. SubSeq(m.oid, 1, Len(root)) = root
    BY <1>1, <1>2, BelowIs
<1>6. SubSeq(n.oid, 1, Len(root)) = root
    <2>1. Len(m.oid) \in 0 .. Len(n.oid) /\ Len(root) \in 0 .. Len(m.oid)
        BY <1>1, <1>2, <1>4
    <2>2. SubSeq(SubSeq(n.oid, 1, Len(m.oid)), 1, Len(root)) = SubSeq(n.oid, 1, Len(root))
        BY <1>2, <2>1, PrefixOfPrefix
    <2> QED
        BY <1>4, <1>5, <2>2
<1>7. Below(n.oid, root) /\ Len(n.oid) > Len(root) + 1
    <2>1. Len(n.oid) > Len(root) + 1 /\ Len(n.oid) > Len(root)
        BY <1>1, <1>2, <1>4
    <2> QED
        BY <1>2, <1>6, <2>1, BelowIs
<1>8. m.oid \in Marked(nodes, root)
    BY <1>1, <1>4, <1>7 DEF Marked
<1> QED
    BY <1>1, <1>8

LEMMA ChildShown ==
    ASSUME NEW nodes, NEW level, NEW row \in level, row.opens,
           NEW n \in nodes, Below(n.oid, row.node.oid), Len(n.oid) = Len(row.node.oid) + 1
    PROVE  \E r \in Deeper(nodes, level) : r.node = n
<1> DEFINE r == [node |-> n, opens |-> n.oid \in Marked(nodes, row.node.oid)]
<1>1. r \in OidTree(nodes, row.node.oid) /\ r.node = n
    BY OidTreeRows
<1> HIDE DEF r
<1>2. r \in Deeper(nodes, level)
    BY <1>1 DEF Deeper
<1> QED
    BY <1>1, <1>2

LEMMA DeeperRow ==
    ASSUME NEW nodes, NEW level \in SUBSET Rows(nodes), NEW row \in Deeper(nodes, level)
    PROVE  \E r \in level : r.opens /\ r.node \in nodes /\ row \in OidTree(nodes, r.node.oid)
    BY DEF Deeper, Rows

LEMMA LevelRows ==
    ASSUME NEW nodes, NEW rows \in SUBSET Rows(nodes), NEW level, Unfolds(level, rows, nodes),
           NEW k \in 0 .. MaxDepth
    PROVE  level[k] \in SUBSET Rows(nodes)
<1>1. k = 0 \/ k \in 1 .. MaxDepth
    BY NodesAssumption
<1> QED
    BY <1>1, DeeperRows DEF Unfolds

\* A row of any level but the first, with a node right below it, has an expander.
LEMMA DeepRowOpens ==
    ASSUME NEW nodes, GoodNodes(nodes), NEW rows \in SUBSET Rows(nodes), NEW level,
           Unfolds(level, rows, nodes), NEW k \in 1 .. MaxDepth, NEW row \in level[k],
           NEW n \in nodes, row.node.oid = Front(n.oid)
    PROVE  row.opens
<1>1. k - 1 \in 0 .. MaxDepth
    BY NodesAssumption
<1>2. level[k - 1] \in SUBSET Rows(nodes) /\ row \in Deeper(nodes, level[k - 1])
    BY <1>1, LevelRows DEF Unfolds
<1>3. PICK r \in level[k - 1] : r.node \in nodes /\ row \in OidTree(nodes, r.node.oid)
    BY <1>2, DeeperRow
<1>4. r.node.oid \in Seq(Nat)
    BY <1>3 DEF GoodNodes
<1> QED
    BY <1>3, <1>4, RowOpens

ShownAt(level, k, n) == \E row \in level[k] : row.node = n

\* A node is shown one level below the node right above it.
LEMMA ShownBelow ==
    ASSUME NEW nodes, GoodNodes(nodes), NEW rows \in SUBSET Rows(nodes), NEW level,
           Unfolds(level, rows, nodes), NEW k \in 0 .. MaxDepth - 1, NEW m \in nodes, NEW n \in nodes,
           ShownAt(level, k, m), m.oid = Front(n.oid),
           \A row \in rows : row.node = m => row.opens
    PROVE  ShownAt(level, k + 1, n)
<1>1. PICK row \in level[k] : row.node = m
    BY DEF ShownAt
<1>2. row.opens
    <2>1. CASE k = 0
        BY <1>1, <2>1 DEF Unfolds
    <2>2. CASE k # 0
        <3>1. k \in 1 .. MaxDepth
            BY <2>2, NodesAssumption
        <3> QED
            BY <1>1, <3>1, DeepRowOpens
    <2> QED
        BY <2>1, <2>2
<1>3. Below(n.oid, m.oid) /\ Len(n.oid) = Len(m.oid) + 1
    <2>1. /\ m.oid \in Seq(Nat) /\ n.oid \in Seq(Nat)
          /\ Len(m.oid) \in Nat \ {0} /\ Len(n.oid) \in Nat \ {0}
        BY DEF GoodNodes
    <2> QED
        BY <2>1, FrontIs
<1>4. \E r \in Deeper(nodes, level[k]) : r.node = n
    BY <1>1, <1>2, <1>3, ChildShown
<1>5. level[k + 1] = Deeper(nodes, level[k])
    <2>1. k + 1 \in 1 .. MaxDepth /\ (k + 1) - 1 = k
        BY NodesAssumption
    <2>2. level[k + 1] = Deeper(nodes, level[(k + 1) - 1])
        BY <2>1 DEF Unfolds
    <2> QED
        BY <2>1, <2>2
<1> QED
    BY <1>4, <1>5 DEF ShownAt

LEMMA UnfoldedNodes ==
    ASSUME NEW nodes, NEW rows \in SUBSET Rows(nodes), NEW level, Unfolds(level, rows, nodes), NEW n
    PROVE  n \in Unfolded(rows, nodes) <=> \E k \in 0 .. MaxDepth : ShownAt(level, k, n)
    BY DEF Unfolds, ShownAt

\* The tree by module: by the length of its OID, a node is at the top or below
\* the node right above it.
LEMMA ModuleTreeShows ==
    ASSUME NEW nodes, GoodNodes(nodes)
    PROVE  Unfolded(ModuleTree(nodes), nodes) = nodes
<1> DEFINE rows == ModuleTree(nodes)
<1>1. rows \in SUBSET Rows(nodes)
    <2>1. \A n \in nodes : HasNearestChild(n, nodes) \in BOOLEAN
        BY DEF HasNearestChild
    <2> QED
        BY <2>1 DEF ModuleTree, TopLevel, Rows
<1>2. PICK level : Unfolds(level, rows, nodes)
    <2> HIDE DEF rows
    <2> QED
        BY <1>1, UnfoldingIs
<1>3. ASSUME NEW k \in 0 .. MaxDepth, NEW n, ShownAt(level, k, n) PROVE n \in nodes
    <2> HIDE DEF rows
    <2>1. level[k] \in SUBSET Rows(nodes)
        BY <1>1, <1>2, LevelRows
    <2> QED
        BY <1>3, <2>1 DEF ShownAt, Rows
<1> DEFINE S == {d \in 0 .. MaxDepth :
                    \A n \in nodes : Len(n.oid) = d => \E k \in 0 .. MaxDepth : k < d /\ ShownAt(level, k, n)}
<1>4. 0 \in S
    BY NodesAssumption DEF GoodNodes
<1>5. ASSUME NEW d \in 0 .. MaxDepth - 1, d \in S PROVE d + 1 \in S
    <2> SUFFICES ASSUME NEW n \in nodes, Len(n.oid) = d + 1
                 PROVE  \E k \in 0 .. MaxDepth : k < d + 1 /\ ShownAt(level, k, n)
        BY NodesAssumption
    <2>1. CASE n \in TopLevel(nodes)
        <3>1. [node |-> n, opens |-> HasNearestChild(n, nodes)] \in level[0]
            BY <1>2, <2>1 DEF Unfolds, ModuleTree
        <3>2. ShownAt(level, 0, n)
            BY <3>1 DEF ShownAt
        <3>3. 0 \in 0 .. MaxDepth /\ 0 < d + 1
            BY NodesAssumption
        <3> QED
            BY <3>2, <3>3
    <2>2. CASE n \notin TopLevel(nodes)
        <3>1. PICK m \in nodes : m.oid = Front(n.oid)
            BY <2>2 DEF TopLevel
        <3>2. /\ m.oid \in Seq(Nat) /\ n.oid \in Seq(Nat)
              /\ Len(m.oid) \in Nat \ {0} /\ Len(n.oid) \in Nat \ {0}
            BY DEF GoodNodes
        <3>3. Len(n.oid) = Len(m.oid) + 1 /\ Below(n.oid, m.oid)
            BY <3>1, <3>2, FrontIs
        <3>4. PICK k \in 0 .. MaxDepth : k < d /\ ShownAt(level, k, m)
            <4>1. Len(m.oid) = d
                BY <3>2, <3>3
            <4> QED
                BY <1>5, <4>1
        <3>5. k \in 0 .. MaxDepth - 1 /\ k + 1 \in 0 .. MaxDepth /\ k + 1 < d + 1
            BY <3>4, NodesAssumption
        <3>6. HasNearestChild(m, nodes)
            <4>1. ASSUME NEW between \in nodes, Below(between.oid, m.oid), Below(n.oid, between.oid)
                  PROVE  FALSE
                <5>1. between.oid \in Seq(Nat) /\ Len(between.oid) \in Nat
                    BY DEF GoodNodes
                <5>2. Len(between.oid) > Len(m.oid) /\ Len(n.oid) > Len(between.oid)
                    BY <3>2, <4>1, <5>1, BelowIs
                <5> QED
                    BY <3>2, <3>3, <5>1, <5>2
            <4> QED
                BY <3>3, <4>1 DEF HasNearestChild
        <3>7. \A row \in rows : row.node = m => row.opens
            BY <3>6 DEF ModuleTree
        <3> HIDE DEF rows, S
        <3>8. ShownAt(level, k + 1, n)
            BY <1>1, <1>2, <3>1, <3>4, <3>5, <3>7, ShownBelow
        <3> QED
            BY <3>5, <3>8
    <2> QED
        BY <2>1, <2>2
<1>6. 0 .. MaxDepth \subseteq S
    <2> HIDE DEF S
    <2>1. \A d \in 0 .. MaxDepth - 1 : d \in S => d + 1 \in S
        BY <1>5
    <2> QED
        BY <1>4, <2>1, UpFromZero, NodesAssumption
<1>7. ASSUME NEW n \in nodes PROVE \E k \in 0 .. MaxDepth : ShownAt(level, k, n)
    <2>1. Len(n.oid) \in 0 .. MaxDepth
        BY NodesAssumption DEF GoodNodes
    <2> QED
        BY <1>6, <2>1
<1> HIDE DEF rows, S
<1>8. \A n : n \in Unfolded(rows, nodes) <=> \E k \in 0 .. MaxDepth : ShownAt(level, k, n)
    BY <1>1, <1>2, UnfoldedNodes
<1>9. Unfolded(rows, nodes) = nodes
    BY <1>3, <1>7, <1>8
<1> QED
    BY <1>9 DEF rows

\* A node below an unbroken one is unbroken.
LEMMA UnbrokenBelow ==
    ASSUME NEW nodes, GoodNodes(nodes), NEW root \in Seq(Nat), NEW m \in Unbroken(nodes, root),
           NEW n \in nodes, Below(n.oid, m.oid), Len(n.oid) = Len(m.oid) + 1
    PROVE  n \in Unbroken(nodes, root)
<1>1. /\ m \in nodes /\ Below(m.oid, root)
      /\ \A k \in Len(root) + 1 .. Len(m.oid) - 1 : \E l \in nodes : l.oid = SubSeq(m.oid, 1, k)
    BY DEF Unbroken
<1>2. /\ m.oid \in Seq(Nat) /\ n.oid \in Seq(Nat)
      /\ Len(m.oid) \in Nat \ {0} /\ Len(n.oid) \in Nat \ {0} /\ Len(root) \in Nat
    BY <1>1 DEF GoodNodes
<1>3. SubSeq(n.oid, 1, Len(m.oid)) = m.oid
    BY <1>2, BelowIs
<1>4. Len(m.oid) > Len(root) /\ SubSeq(m.oid, 1, Len(root)) = root
    BY <1>1, <1>2, BelowIs
<1>5. ASSUME NEW k \in 0 .. Len(m.oid) PROVE SubSeq(n.oid, 1, k) = SubSeq(m.oid, 1, k)
    <2>1. Len(m.oid) \in 0 .. Len(n.oid)
        BY <1>2
    <2>2. SubSeq(SubSeq(n.oid, 1, Len(m.oid)), 1, k) = SubSeq(n.oid, 1, k)
        BY <1>2, <2>1, PrefixOfPrefix
    <2> QED
        BY <1>3, <2>2
<1>6. Below(n.oid, root)
    <2>1. Len(root) \in 0 .. Len(m.oid) /\ Len(n.oid) > Len(root)
        BY <1>2, <1>4
    <2>2. SubSeq(n.oid, 1, Len(root)) = root
        BY <1>4, <1>5, <2>1
    <2> QED
        BY <1>2, <2>1, <2>2, BelowIs
<1>7. ASSUME NEW k \in Len(root) + 1 .. Len(n.oid) - 1
      PROVE  \E l \in nodes : l.oid = SubSeq(n.oid, 1, k)
    <2>1. CASE k = Len(m.oid)
        BY <1>1, <1>3, <2>1
    <2>2. CASE k # Len(m.oid)
        <3>1. k \in Len(root) + 1 .. Len(m.oid) - 1 /\ k \in 0 .. Len(m.oid)
            BY <1>2, <2>2
        <3>2. SubSeq(n.oid, 1, k) = SubSeq(m.oid, 1, k)
            BY <1>5, <3>1
        <3> QED
            BY <1>1, <3>1, <3>2
    <2> QED
        BY <2>1, <2>2
<1> QED
    BY <1>6, <1>7 DEF Unbroken

\* The node right above an unbroken one is unbroken.
LEMMA UnbrokenAbove ==
    ASSUME NEW nodes, GoodNodes(nodes), NEW root \in Seq(Nat), NEW n \in Unbroken(nodes, root),
           Len(n.oid) > Len(root) + 1
    PROVE  \E m \in Unbroken(nodes, root) : m.oid = Front(n.oid)
<1>1. /\ n \in nodes /\ Below(n.oid, root)
      /\ \A k \in Len(root) + 1 .. Len(n.oid) - 1 : \E l \in nodes : l.oid = SubSeq(n.oid, 1, k)
    BY DEF Unbroken
<1>2. n.oid \in Seq(Nat) /\ Len(n.oid) \in Nat \ {0} /\ Len(root) \in Nat
    BY <1>1 DEF GoodNodes
<1>3. Len(n.oid) - 1 \in Len(root) + 1 .. Len(n.oid) - 1
    BY <1>2
<1>4. PICK m \in nodes : m.oid = SubSeq(n.oid, 1, Len(n.oid) - 1)
    BY <1>1, <1>3
<1>5. m.oid = Front(n.oid)
    BY <1>4 DEF Front
<1>6. m.oid \in Seq(Nat) /\ Len(m.oid) \in Nat \ {0}
    BY DEF GoodNodes
<1>7. Len(n.oid) = Len(m.oid) + 1 /\ m.oid = SubSeq(n.oid, 1, Len(m.oid))
    BY <1>2, <1>5, <1>6, FrontIs
<1>8. ASSUME NEW k \in 0 .. Len(m.oid) PROVE SubSeq(n.oid, 1, k) = SubSeq(m.oid, 1, k)
    <2>1. Len(m.oid) \in 0 .. Len(n.oid)
        BY <1>2, <1>6, <1>7
    <2>2. SubSeq(SubSeq(n.oid, 1, Len(m.oid)), 1, k) = SubSeq(n.oid, 1, k)
        BY <1>2, <2>1, PrefixOfPrefix
    <2> QED
        BY <1>7, <2>2
<1>9. Below(m.oid, root)
    <2>1. Len(m.oid) > Len(root) /\ Len(root) \in 0 .. Len(m.oid)
        BY <1>2, <1>6, <1>7
    <2>2. SubSeq(n.oid, 1, Len(root)) = root
        BY <1>1, <1>2, BelowIs
    <2>3. SubSeq(m.oid, 1, Len(root)) = root
        BY <1>8, <2>1, <2>2
    <2> QED
        BY <1>6, <2>1, <2>3, BelowIs
<1>10. ASSUME NEW k \in Len(root) + 1 .. Len(m.oid) - 1
       PROVE  \E l \in nodes : l.oid = SubSeq(m.oid, 1, k)
    <2>1. k \in Len(root) + 1 .. Len(n.oid) - 1 /\ k \in 0 .. Len(m.oid)
        BY <1>2, <1>6, <1>7
    <2>2. SubSeq(n.oid, 1, k) = SubSeq(m.oid, 1, k)
        BY <1>8, <2>1
    <2> QED
        BY <1>1, <2>1, <2>2
<1>11. m \in Unbroken(nodes, root)
    BY <1>9, <1>10 DEF Unbroken
<1> QED
    BY <1>5, <1>11

LEMMA OidTreeShows ==
    ASSUME NEW nodes, GoodNodes(nodes), NEW root \in Seq(Nat)
    PROVE  Unfolded(OidTree(nodes, root), nodes) = Unbroken(nodes, root)
<1> DEFINE rows == OidTree(nodes, root)
           whole == Unbroken(nodes, root)
<1>0. MaxDepth \in Nat /\ Len(root) \in Nat
    BY NodesAssumption
<1>1. rows \in SUBSET Rows(nodes)
    <2>1. ASSUME NEW row \in OidTree(nodes, root) PROVE row \in Rows(nodes)
        <3>1. PICK n \in nodes : row = [node |-> n, opens |-> n.oid \in Marked(nodes, root)]
            BY OidTreeRows
        <3>2. (n.oid \in Marked(nodes, root)) \in BOOLEAN
            OBVIOUS
        <3> QED
            BY <3>1, <3>2 DEF Rows
    <2> QED
        BY <2>1
<1>2. PICK level : Unfolds(level, rows, nodes)
    <2> HIDE DEF rows
    <2> QED
        BY <1>1, UnfoldingIs
<1>3. level[0] = rows /\ \A k \in 0 .. MaxDepth - 1 : level[k + 1] = Deeper(nodes, level[k])
    <2>1. \A k \in 0 .. MaxDepth - 1 : k + 1 \in 1 .. MaxDepth /\ (k + 1) - 1 = k
        BY <1>0
    <2>2. level[0] = rows /\ \A k \in 1 .. MaxDepth : level[k] = Deeper(nodes, level[k - 1])
        BY <1>2 DEF Unfolds
    <2> HIDE DEF rows
    <2> QED
        BY <2>1, <2>2
<1>4. ASSUME NEW n \in nodes
      PROVE  n.oid \in Seq(Nat) /\ Len(n.oid) \in Nat \ {0} /\ Len(n.oid) <= MaxDepth
    BY <1>0 DEF GoodNodes
<1>5. \A k \in 0 .. MaxDepth : \A row \in level[k] : row.node \in whole
    <2> DEFINE S == {k \in 0 .. MaxDepth : \A row \in level[k] : row.node \in whole}
    <2>1. 0 \in S
        <3>1. ASSUME NEW row \in rows PROVE row.node \in whole
            <4>1. PICK n \in nodes :
                    Below(n.oid, root) /\ Len(n.oid) = Len(root) + 1 /\ row.node = n
                BY OidTreeRows
            <4> QED
                BY <1>0, <4>1 DEF Unbroken
        <3> QED
            BY <1>0, <1>3, <3>1
    <2>2. ASSUME NEW k \in 0 .. MaxDepth - 1, k \in S PROVE k + 1 \in S
        <3> SUFFICES ASSUME NEW row \in level[k + 1] PROVE row.node \in whole
            BY <1>0
        <3>1. k \in 0 .. MaxDepth /\ row \in Deeper(nodes, level[k])
            BY <1>0, <1>3
        <3>2. level[k] \in SUBSET Rows(nodes)
            <4> HIDE DEF rows
            <4> QED
                BY <1>1, <1>2, <3>1, LevelRows
        <3>3. PICK r \in level[k] : row \in OidTree(nodes, r.node.oid)
            BY <3>1, <3>2, DeeperRow
        <3>4. PICK n \in nodes :
                /\ Below(n.oid, r.node.oid) /\ Len(n.oid) = Len(r.node.oid) + 1
                /\ row = [node |-> n, opens |-> n.oid \in Marked(nodes, r.node.oid)]
            BY <3>3, OidTreeRows
        <3>5. r.node \in whole
            BY <2>2, <3>3
        <3> QED
            BY <3>4, <3>5, UnbrokenBelow
    <2> HIDE DEF S
    <2>3. \A k \in 0 .. MaxDepth - 1 : k \in S => k + 1 \in S
        BY <2>2
    <2>4. 0 .. MaxDepth \subseteq S
        BY <1>0, <2>1, <2>3, UpFromZero
    <2> QED
        BY <2>4 DEF S
<1>6. ASSUME NEW n \in nodes, NEW row \in rows, row.node.oid = Front(n.oid) PROVE row.opens
    BY <1>6, RowOpens
<1>7. \A k \in 0 .. MaxDepth : \A n \in whole :
        Len(n.oid) = Len(root) + 1 + k => ShownAt(level, k, n)
    <2> DEFINE S == {k \in 0 .. MaxDepth : \A n \in whole :
                        Len(n.oid) = Len(root) + 1 + k => ShownAt(level, k, n)}
    <2>1. 0 \in S
        <3>1. ASSUME NEW n \in whole, Len(n.oid) = Len(root) + 1 PROVE ShownAt(level, 0, n)
            <4> DEFINE r == [node |-> n, opens |-> n.oid \in Marked(nodes, root)]
            <4>1. n \in nodes /\ Below(n.oid, root)
                BY DEF Unbroken
            <4>2. r \in rows /\ r.node = n
                BY <3>1, <4>1, OidTreeRows
            <4> HIDE DEF r, rows
            <4> QED
                BY <1>3, <4>2 DEF ShownAt
        <3> HIDE DEF whole
        <3> QED
            BY <1>0, <3>1
    <2>2. ASSUME NEW k \in 0 .. MaxDepth - 1, k \in S PROVE k + 1 \in S
        <3> SUFFICES ASSUME NEW n \in whole, Len(n.oid) = Len(root) + 1 + (k + 1)
                     PROVE  ShownAt(level, k + 1, n)
            BY <1>0
        <3>1. Len(n.oid) > Len(root) + 1
            BY <1>0
        <3>2. PICK m \in whole : m.oid = Front(n.oid)
            BY <3>1, UnbrokenAbove
        <3>3. m \in nodes /\ n \in nodes
            BY DEF Unbroken
        <3>4. Len(n.oid) = Len(m.oid) + 1
            <4>1. /\ m.oid \in Seq(Nat) /\ n.oid \in Seq(Nat)
                  /\ Len(m.oid) \in Nat \ {0} /\ Len(n.oid) \in Nat \ {0}
                BY <1>4, <3>3
            <4> QED
                BY <3>2, <4>1, FrontIs
        <3>5. Len(m.oid) = Len(root) + 1 + k
            <4>1. Len(m.oid) \in Nat
                BY <1>4, <3>3
            <4> QED
                BY <1>0, <3>4, <4>1
        <3>6. ShownAt(level, k, m)
            BY <2>2, <3>5
        <3>7. \A row \in rows : row.node = m => row.opens
            BY <1>6, <3>2, <3>3
        <3> HIDE DEF rows, whole, S
        <3> QED
            BY <1>1, <1>2, <3>2, <3>3, <3>6, <3>7, ShownBelow
    <2> HIDE DEF S
    <2>3. \A k \in 0 .. MaxDepth - 1 : k \in S => k + 1 \in S
        BY <2>2
    <2>4. 0 .. MaxDepth \subseteq S
        BY <1>0, <2>1, <2>3, UpFromZero
    <2> QED
        BY <2>4 DEF S
<1>8. ASSUME NEW n \in whole PROVE \E k \in 0 .. MaxDepth : ShownAt(level, k, n)
    <2>1. n \in nodes /\ Below(n.oid, root)
        BY DEF Unbroken
    <2>2. n.oid \in Seq(Nat) /\ Len(n.oid) \in Nat /\ Len(n.oid) <= MaxDepth
        BY <1>4, <2>1
    <2>3. Len(n.oid) > Len(root)
        BY <2>1, <2>2, BelowIs
    <2>4. PICK length \in Nat : length = Len(n.oid)
        BY <2>2
    <2>5. PICK base \in Nat : base = Len(root)
        BY <1>0
    <2>6. length > base /\ length <= MaxDepth
        BY <2>2, <2>3, <2>4, <2>5
    <2>7. length - base - 1 \in 0 .. MaxDepth /\ length = base + 1 + (length - base - 1)
        BY <1>0, <2>6
    <2> QED
        BY <1>7, <2>4, <2>5, <2>7
<1> HIDE DEF rows, whole
<1>9. \A n : n \in Unfolded(rows, nodes) <=> \E k \in 0 .. MaxDepth : ShownAt(level, k, n)
    BY <1>1, <1>2, UnfoldedNodes
<1>10. \A n : (\E k \in 0 .. MaxDepth : ShownAt(level, k, n)) => n \in whole
    BY <1>5 DEF ShownAt
<1>11. Unfolded(rows, nodes) = whole
    BY <1>8, <1>9, <1>10
<1> QED
    BY <1>11 DEF rows, whole

LEMMA ContentIsGood ==
    ASSUME NEW content \in DOMAIN NodesOf
    PROVE  GoodNodes(NodesOf[content])
    BY NodesAssumption DEF GoodNodes

\* Expanding all there is to expand, by module and by OID, of one content.
LEMMA TreesAreComplete ==
    ASSUME NEW content \in DOMAIN NodesOf
    PROVE  ModuleTreeIsComplete[content] /\ OidTreeIsComplete[content]
<1> DEFINE all == NodesOf[content]
<1>1. GoodNodes(all)
    BY ContentIsGood
<1>2. ASSUME NEW m, NEW label
      PROVE  Unfolded(ModuleTree(InView(all, m, label)), InView(all, m, label)) = InView(all, m, label)
    <2>1. GoodNodes(InView(all, m, label))
        BY <1>1 DEF InView, GoodNodes
    <2> QED
        BY <2>1, ModuleTreeShows
<1>3. Unfolded(OidTree(all, Internet), all) = Unbroken(all, Internet)
    BY <1>1, OidTreeShows, NodesAssumption
<1> QED
    BY <1>2, <1>3 DEF ModuleTreeIsComplete, OidTreeIsComplete

\* Expanding everything shows everything, in the tree of whatever bundle is active.
THEOREM TreesAreWhole == ViewSpec => []TreesShowAll
<1>1. IInv => TreesShowAll
    BY ActiveContent, TreesAreComplete DEF TreesShowAll
<1> QED
    BY <1>1, JobsSpec, Inductive, PTL
=============================================================================
