----------------------------- MODULE BundleViews -----------------------------
(***************************************************************************)
(* What the pages are told, next to the jobs of Bundles: the comparison of *)
(* stored bundles, the browser's view of the one in memory, and the        *)
(* listing.  GET /bundles is a plain function and runs on a worker thread; *)
(* list_state reads the rows, the module counts and the pointers in        *)
(* statements of their own, and a job may commit between any two of them.  *)
(***************************************************************************)
EXTENDS Bundles, BundleDiff, MibBrowser

ASSUME ModulesAssumption == Contents \subseteq DOMAIN ModulesOf \cap DOMAIN NodesOf

VARIABLE listing  \* what the listing in progress has read so far

viewVars == <<vars, listing>>

Blank == [done |-> 0, rows |-> 0, flagged |-> {}, counts |-> <<>>, active |-> 0]

ModuleCount(b) == Cardinality(DOMAIN ModulesOf[bundles[b].content])

ViewInit == Init /\ listing = Blank

\* Mutant: modules are counted before the rows are read.
SelectsCountsFirst == <<"counts", "rows", "active">>

\* The statements of a listing, in their order.
Selects == <<"rows", "counts", "active">>

\* The bundle_sets rows, by their number, with their is_active columns.
ReadRows == listing' = [listing EXCEPT !.done = @ + 1, !.rows = Len(bundles), !.flagged = flags]

\* The modules counted by bundle.
ReadCounts == listing' = [listing EXCEPT !.done = @ + 1, !.counts = [b \in Ids |-> ModuleCount(b)]]

\* active_bundle_id; the pointer's details are those of its row.
ReadActive == listing' = [listing EXCEPT !.done = @ + 1, !.active = activeId]

ListStep ==
    /\ phase = "up"
    /\ listing.done < Len(Selects)
    /\ \/ Selects[listing.done + 1] = "rows" /\ ReadRows
       \/ Selects[listing.done + 1] = "counts" /\ ReadCounts
       \/ Selects[listing.done + 1] = "active" /\ ReadActive
    /\ UNCHANGED vars

\* The listing is answered.
ListEnds ==
    /\ phase = "up"
    /\ listing.done = Len(Selects)
    /\ listing' = Blank
    /\ UNCHANGED vars

ViewNext ==
    \/ Next /\ listing' = IF phase' = "down" THEN Blank ELSE listing
    \/ ListStep
    \/ ListEnds

ViewSpec == ViewInit /\ [][ViewNext]_viewVars

-----------------------------------------------------------------------------
(* Properties.                                                             *)

\* Whatever is compiled or activated while a listing is put together, every
\* bundle it shows has all its modules counted, at most one is marked active,
\* and with one marked there is an active pointer.  (The pointer may name a
\* bundle activated since the rows were read, even one they do not show.)
ListingHangsTogether ==
    listing.done = Len(Selects) =>
        /\ \A b \in 1 .. listing.rows :
              b \in DOMAIN listing.counts /\ listing.counts[b] = ModuleCount(b)
        /\ \A a, b \in listing.flagged : a = b
        /\ listing.flagged # {} => listing.active # 0

\* A diff explains the two bundles it compares.  Its numbers balance, for modules,
\* objects and notifications: what the one has, less what went, plus what came,
\* is what the other has.  The imports it lists turn the one dependency graph
\* into the other, and a dependency stops being external only if its module
\* came or its last import went.  It lists nothing, by its hash or module by
\* module, exactly when the two bundles serve the same.
DiffExplains ==
    \A a, b \in Ids :
        LET pair == <<bundles[a].content, bundles[b].content>>
        IN  AddsUp[pair] /\ FollowsDiff[pair] /\ EmptyIfSame[pair]

\* Expanding everything in the tree by module shows each node of the module
\* that passes the type filter, also those whose parent does not pass or is in
\* no module, although top level, expanders and expansions are decided apart;
\* in the tree by OID exactly the nodes whose every ancestor down from the root
\* is known, which is all that a level-by-level tree can show.
TreesShowAll ==
    mem # 0 => LET content == bundles[mem].content
               IN  ModuleTreeIsComplete[content] /\ OidTreeIsComplete[content]

\* A search shows what the tree under the same filters has of it, the best
\* matches if there are too many: filters by raw object type and by label agree,
\* and none of the results the limit allows is lost to a filter.
SearchAgreesWithTree == mem # 0 => SearchShowsBestOfTree[bundles[mem].content]
=============================================================================
