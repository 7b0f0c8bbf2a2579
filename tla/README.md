# A TLA+ model of the Trishul SNMP Suite

The suite (version 2.2.4) is a FastAPI back end (`src/backend/app`) with a
JavaScript front end.  It simulates an SNMP agent, receives and sends
notifications, walks agents, and manages a library of MIB files from which it
compiles the bundles every other part looks names up in.  The protocol and the
compiler are two external libraries, `trishul_snmp` and `trishul_smi`.

This directory holds TLA+ modules for the parts of the back end that keep
state, TLC configurations that check them on small instances, and proofs of
the safety properties that hold for instances of any size.

## 1. The system

### How it runs

One process, one asyncio event loop.  Routes written `async def` run on that
loop and are atomic between two real suspension points; routes written `def`
(status, listings, detail views, settings, sign-in) run on worker threads and
interleave with the loop anywhere.  `compile_bundle` never awaits, so a compile
or an activation stops the loop until it is done.  The `asyncio.Lock` of
`RuntimeService` guards bodies without an `await`: it is never contended and
adds no interleaving.  State lives in three places: SQLite rows (each commit
atomic), files under the data directory, and memory that a crash loses.

### Components

| Component | State it keeps | Operations | What is hard | What makes it correct |
|---|---|---|---|---|
| Simulator responder (`services/runtime.py`, `simulator_service.py`) | responder, serve task, binding; persisted port, community, start time | start, stop, restart, auto-start, shutdown | handlers overlap at every await; binds fail; the serve loop breaks; crash | what is reported is what serves; no responder is torn down twice, or forgotten |
| Simulator custom data (`simulator_service.py`, `mib_metadata.py`) | `custom_data.json`, objects of the responder, the binding's bundle | read, save, defaults, `restart_required` | applied and stored in two steps, next to starts and bundle switches; values declared, coerced and parsed in three places | what is served is what is stored; every default is one the runtime takes |
| Trap receiver (`runtime.py`, `traps_service.py`) | listener, receive task, binding | start, stop, auto-start, shutdown, receive | like the responder, and a receive loop that awaits clients, which every teardown waits for | the published listener serves; traps are filed under the bundle that decoded them, announced in order and never after a stop |
| Notification history, sender and replay (`history.py`, `runtime.py`, `traps_service.py`) | events table, its full-text mirror, a 200-event ring | trap, inform, replay, decode, list, clear, delete, reset | a send waits for the network between reading the bundle and recording; row ids are reused | table and mirror agree; every event names its bundle |
| Bundles (`services/bundles.py`, `bundle_state.py`) | bundle and run rows, two pointers, a flag per row, the bundle in memory | compile, activate, rollback, bootstrap, boot load | failure and crash between commits and publication | flag, pointer and memory agree; failure changes nothing |
| MIB library (`mib_mutations.py`, `mib_sources.py`, `mibs_service.py`) | the upload tree, cached inventory | upload, reload, delete, batch delete, fetch | roll back of files when a rebuild fails; hand-reset caches shared with threads | no source lost, nothing stale, the bundle serves the tree |
| Settings (`app_settings.py`) | rows, a process-wide read cache | read, update | a thread's late store into the cache | a value that was saved is in effect |
| Sessions (`session.py`) | rows with a last use, credentials | sign in, out, check, validate, change password | a thread concludes about a row deleted meanwhile | an ended session stays over |
| Realtime (`realtime.py`, `ws.py`) | list of connections | connect, ping, leave, broadcast, re-authentication | clients come and go at every await of a broadcast; two broadcasts overlap | no part of the state, and no event that came while it was listed, is missed by a client; those whose session is over leave, and only those |
| Bundle pages (`bundles.py`) | none | list, diff, dependency graph | a listing is several `SELECT`s next to a job | a listing hangs together; a diff explains the two bundles |
| MIB browser (`browser_service.py`) | none | tree by module, tree by OID, search | three notions of parent; two kinds of filter | every node can be reached; the search agrees with the tree |
| Statistics and state store | counters | increment, reset | nothing: both on the event loop, neither gives way | |
| Walker, catalogues | none to speak of | look-ups | | |
| Front end | view state | | answers out of order | |

They interact as follows.  The MIB library calls bundles to compile and
activate; activation replaces the bundle in memory that the catalogue, the
browser, the sender and every later start of a responder or listener read; a
running responder keeps the bundle it was started with (`restart_required`).
The simulator and the receiver call the runtime service and persist what a
restart needs in the state store; `main.py`'s lifespan boots bundles first,
then the responder, then the listener, and shuts the runtime down at the end.
The runtime broadcasts to the WebSocket clients, each of which is validated by
the sessions before it is sent anything, by the timeout the settings give.

## 2. Modules

| Module | What it is |
|---|---|
| `Responder` | the simulator responder's lifecycle and its process |
| `SingleEndpoint` | the abstract promise: one endpoint is current, and becomes so only alone |
| `SimulatorValues` | default values, overrides, limits and the runtime's parsing of them, as operators |
| `Simulator` | custom data and served objects: `Responder` extended |
| `TrapReceiver` | the trap receiver: `EventHistory` extended, `Responder` instantiated |
| `EventHistory` | the notification history: sends, replays, decodes, the three clears |
| `Bundles` | compile, activate, rollback, bootstrap, crash |
| `CatalogSwitch` | the abstract promise: readers see one switch at a time |
| `BundleDiff` | the comparison of two bundles and the dependency graph of one, as operators |
| `MibBrowser` | the browser's trees and search, as operators |
| `BundleViews` | the listing next to jobs, and what the pages show of the bundles there are: `Bundles` extended |
| `MibStore` | the upload tree, its inventory cache and the operations on it, composed with `Bundles` by `INSTANCE` |
| `MibReaders` | status threads next to it: `MibStore` extended |
| `AppSettings` | the session timeout, its row and its read cache |
| `Sessions` | sessions and the requests that check or end them: `AppSettings` extended |
| `Realtime` | WebSocket connections and broadcasts: `Sessions` extended |
| `ResponderProofs`, `SimulatorProofs`, `TrapReceiverProofs`, `EventHistoryProofs`, `BundlesProofs`, `BundleViewsProofs`, `MibStoreProofs`, `RealtimeProofs` | theorems |
| `MCSimulator`, `MCBundleViews`, `MCMibStore`, `MCMibReaders`, `MCRealtime` | instances for TLC |

### Responder

`pc[c]` is the suspension point request handler `c` is parked at: `opening` and
`reopening` at the two `await responder.open()`, `closing` and `joining` at the
two awaits of `_shutdown_responder`, `opened`, `refused` and `failed` just after
an open has returned or raised, `restarting` between the two halves of a
restart.  `after[c]` says from where the teardown was called, which is what the
code keeps on its stack.  An `Endpoint` is one `V2cResponder` object with its
socket `sock` and, while its `_run_responder` task has not finished, a member of
`serving`.  `mine[c]` is the responder a start has constructed, `victim[c]` the
one a teardown has taken.  `Start`, `Stop`, `Restart`, `AutoStart` and
`Shutdown` are the entry points; the remaining actions are the segments between
suspension points.  A bind may fail for reasons outside the process
(`OpenFails` is always enabled).  What a responder answers is `Simulator`'s.

### Simulator and SimulatorValues

Each step of `Simulator` is a step of `Responder` together with what the same
code does to the data, or leaves the lifecycle alone.  `ready[c]` is the list of
objects a start has read and passes on, `served` what the published responder
answers from, `bound` the `bundle_set_id` of the binding, which a stop does not
clear.  `fresh` records whether the file is still what the objects were read
from.  `Save` runs between two suspension points; its two ways of failing half-way are
actions of their own.  `stored` may be `Corrupt`: `write_text` was cut short.
A bundle may hold one OID in several modules.  An object is therefore a declaration
(`node`, what a symbol names and a default is drawn for) with the one that
`bundle.lookup` finds at its OID (`found`), and what a value is made for and what the runtime
checks it against (`LimitsOf`) may be two declarations.  Where their limits differ the runtime may
refuse a default, so that a start or a save fails and changes nothing; the model leaves that start
possible, which adds behaviours and takes none away.

An override is *skipped* when `_coerce_custom_value` rejects it and *blocks* when
`_parse_runtime_objects` raises about it, which is what `BadDataCannotBlockStart`
is about.

In `SimulatorValues` a text is its length and a random number is drawn at the
ends of its interval, since limits are intervals.  `DefaultFor` resolves textual
conventions, enumerations, ranges and sizes as `_default_value_for_syntax` does,
`Coerced` is `_coerce_custom_value`, `Breaks` is `constraint_violation`, and
`Taken` the runtime's own check, which decides.

### Bundles

A step is what lies between two commits, as that is what a crash or a reading
thread can tell apart.  Row ids are positions in a sequence, `flags` the ids of
rows with `is_active`, `activeId` and `prevId` the two settings, `mem` the id
the bundle in memory was loaded from.  `job`, `target` and `step` are the local
variables of the one compile or activation in progress.  `CompileFails` is the
compiler's refusal (recorded), `CompileRaises` any other exception (nothing
recorded), `ActivateFails` a failure at any place before the commit.
After the commit the row just written is assumed to be readable: that
`session.refresh` raises before `set_bundle` (`bundles.py:463`) is left out.
`BootSkips` to `BootLoads` are `ensure_bootstrap_bundle` and the loading in
`lifespan`.  A run that cannot even begin (a missing source directory) changes
nothing and is not a step.

### BundleDiff, MibBrowser and BundleViews

`BundleDiff` and `MibBrowser` are functions of what a compile has produced: a
bundle is a function from module names to compiled modules, a tree is a set of
nodes with their OIDs.  Values are only compared, names only matched, so both
are model values.  `Unfolded` is what a user of `browser.js` gets to see by
opening every expander.  `BundleViews` adds the listing, one `SELECT` a step, to
the jobs of `Bundles`, and asks of the bundles that really come about that the
pages tell the truth about them: what holds of a content is worked out once, as
a table (`AddsUp`, `ModuleTreeIsComplete`, ...).

### MibStore and MibReaders

A file is `<<group, module>>`; groups are `common`, any vendor group, and `auto`
(fetched dependencies), in the order of `source_group_precedence_key`.  The
content of a bundle is the set of files it was compiled from, so that "which
copy is served" can be asked.  An operation runs on the event loop: it is cut
where the job of `Bundles` proceeds and where an upload lets status threads in.
`cache` is the inventory of the current source-service singleton.  In `MibReaders`
`seen[r]` is what a status thread has scanned and not stored yet;
`_invalidate_source_cache` makes pending stores harmless, as it puts another
instance in place, `reset_source_caches` does not.  What a compile fetched joins the tree
as far as the raw cache has it (`Persist`), so a module can be served and not be stored.
The bundled starter modules are in every bundle and are left out; that the program comes
without any (`mib_mutations.py:420`) is not modelled.  `batch` holds the bytes a delete can restore; `owed` is an
auxiliary variable, the files that were stored when the operation began.

### EventHistory

A row is an id and an event, an event its direction, the bundle its names come
from (`used`, what is inside `event_json`) and the bundle it is filed under
(`bundle`, the column).  The rest of an event is data.  `mirror` is the
full-text table, which the code writes by hand next to `rows`, in the same
transaction.  Ids are SQLite's: one above the largest in the table, so they come
back after a deletion.  `recent` is the ring of `RuntimeService`.  A send or a
replay is parked at the notifier's awaits (`send[s] = "waiting"`) holding the
bundle it has loaded (`carried`); everything else is one step.  `Record` may
fail to save and still remembers the event, as `_persist_event` does.  Of the
receiver the module has the promise only: `FileTrap(b)` files a trap under the
bundle `b` that decoded it.  `TrapReceiver` extends the module, with `FileTrap`
replaced by the receive loop itself, and implements it.  Its `Init`, type
invariant and specification carry the prefix `History` for that reason.  `active` is what `_get_active_bundle_record` finds; how it comes to
change is `Bundles`' matter.  `kept` is auxiliary: the sent and decoded events that were saved
since the last reset, with their ids.

### TrapReceiver

The code of the listener is the responder's, copied: same awaits, same swap,
same teardown.  So is the model: `L` is `Responder` over the listener's
variables, and each action is the action of `L` with what it does to the
variables the responder does not have.  `made[e]` is the bundle a listener was
constructed with, `filed` the id in `_listener_binding`, which nothing clears at
a stop.  `loop[e]` is where the receive loop of `e` waits: for a notification,
in `broadcast_trap_event`, or in `broadcast_stats`.  `LoopEnds` refines the
responder's end of task: a closed listener's iteration stops once the body is
done.  A closed listener yields nothing (`V2cNotificationListener` is external;
`Receive` asks for an open socket).  Decode, persist, remember and the start of
the first broadcast are one step, as nothing suspends between them.

### AppSettings, Sessions and Realtime

Time is `Tick`: every session grows a tick older.  `age[t]` is the row of a
session, `Unissued` and `Over` its absence.  On the event loop `validate_token`
is one step (`Validate`); on a worker thread it is cut where the row has been
read (`FindSession`), where the timeout has been looked up (`LookUp`) and where
it is stored and the session judged (`UseRead`).  A touch on the loop whose row a thread
deletes between its `SELECT` and its commit raises, and the handler ends as it does for a row
that is gone; the model takes the deletion to have come first.  A save of the timeout is cut
at its commit and at the clearing of the cache, as threads run between them.  A
connection is a `sock` and, once `accept()` has returned, a member of `conns`.
A broadcast is a task: `todo` is the copy of the list it goes through, `dead` those it
will close; it gives way at each send and each close.  What is announced is a part of the state
(`Parts`: simulator, trap receiver, statistics, library) or an event that is no part of it (a
trap, a log line).  `build_full_state` holds the former only, so `SendFullState` brings a client
up to date with the parts and with no event.  Of a payload is kept what of it nothing newer has
replaced.  `owed` and `revoked` are auxiliary: what each client has not been sent yet, and who was
listed when the credentials changed.  A client in `accept()` is owed the state, no events: no
code sends it those.

## 3. Checks

| Run | Instance | Shows |
|---|---|---|
| `responder_overlap` | 2 calls, 4 endpoints, 2 ports | `CurrentIsServing`, `SingleTeardown`, `OnlyLegitimateTakedown` under all interleavings; every start, stop and restart returns |
| `responder_orphan` | 2 calls, 3 endpoints, 3 ports | **violated**: overlapping starts orphan a responder |
| `simulator` | 1 call, 3 endpoints, 2 ports, 2 bundles, 2 objects, 4 payloads, declarations of every syntax | refinement of `SingleEndpoint` (`OneEndpointAtATime`), `NoOrphan`, `UptimeKnown`, `ServesStored`, `RestartRequiredIsRight`, `DefaultsAccepted` |
| `simulator_stale` | the same | **violated**: stored data blocks a start |
| `trap_receiver` | 1 call, 2 listeners, 2 ports, 2 bundles, 1 row | refinement of `EventHistory` (`FilesAsPromised`), `NothingAfterStop`, `OneTrapAtATime`; every start and stop returns while traps keep arriving |
| `event_history` | 2 sends, 2 bundles, 3 ids, ring of 2 | `MirrorFaithful`, `StampedBundle`, `OnlyReceivedDeleted` (sent and decoded events stay, to the last), the ring's bound |
| `bundles` | 4 contents, 3 compile runs, 1 listing | pointers, memory, rows; refinement of `CatalogSwitch`; `ListingHangsTogether`; diffs and graphs (`DiffExplains`); trees and search (`TreesShowAll`, `SearchAgreesWithTree`) |
| `mib_store` | 2 modules (one imports the other), 3 groups, 2 runs | `NoSourceLost`, `InventoryFresh`, `RebuildServesTree`; operations end, and use `Bundles` as specified |
| `mib_aggregate` | uploads only | **violated**: an upload unloads what earlier ones loaded |
| `mib_restore` | | **violated**: a rolled-back delete stays out of the inventory |
| `mib_race` | 1 status thread | **violated**: an upload misses its own directory |
| `realtime` | 1 connection, 2 tokens, 2 broadcasts, 1 thread, 2 timeouts | `SavedTimeoutInEffect`, `SessionsStayOver`, `NothingMissed`, `ReauthReachesAll`, `ClosedSessionIsOver`; ended sessions leave |

Bounds.  Two calls are every pairwise interleaving; four endpoints are one
published besides one under construction or in teardown per call, and a fresh
one.  Two ports let a start meet its own address or another.
`MaxRuns` bounds the compile runs ever recorded: with three there are an active,
a previous and a next bundle, or a failed run among two, and a crash anywhere
between them; two are enough in `MibStore`, as every operation does one compile and
two operations interact through the tree, the cache and the active bundle.  Two
modules, one importing the other, give ready, blocked, missing and shadowed
modules.  The four contents differ from each other in each way a comparison
tells apart (a module more or less, an object, an import, a symbol imported,
nothing but the files); the nodes include tables, gaps, a group under no node
and one OID in two modules.

In `simulator` two bundles declare one object with different limits and one of
them lacks the other object; the payloads are an override for each way an entry
can fare under the two.  The node declarations combine each syntax with ranges
that exclude zero, are negative or in two parts, sizes below, around and above
the default, and unions.  In the newer bundle two modules share an OID, once with the same limits and
once with others.

Three ids let a row be deleted above and below one that stays, and an id come
back; a ring of two is overrun at the third event.  In `trap_receiver` one row
is enough, as its properties speak of single rows, and two listeners, as a call
holds at most one besides the published one.  Its calls do not overlap in this
run: `responder_overlap` explores the overlaps of the shared code, and
`PublishedListenerIsServing` is proved for them.

In `realtime` one connection is enough for TLC because every property speaks of one
connection, and the connections meet only in `task` and `conns`; the proofs hold for any
number.  Two broadcasts overlap with each other and with a change of credentials; two tokens are
a session and a later one; one part of the state stands for all, as each is replaced by its own kind only, and an event by none;
`MaxAge` 1 with timeouts 0 and 1 gives a session
that has expired under one timeout and not under the other.

Fairness.  `Responder!Fairness` is weak fairness of each call's continuation
and of each closed task's end: the event loop runs every ready callback, and an
open or close that was started completes.  Requests, crashes, binds that fail
and loops that break are never forced.  `TrapReceiver!Fairness` adds that a broadcast ends: `send_json` to a client returns or raises.  The code sets no
timeout there, so a stop does depend on it.  Receiving is not fair, and still
cannot starve a stop, because a closed listener receives nothing.
`MibStore!FairSpec` is weak fairness of the operation in progress, which the
loop executes without giving way.  `Realtime!FairSpec` is weak fairness of a
save's continuation, and strong fairness of `Receive` and `HandlerEnds` for each
connection: a browser sends a ping every thirty seconds (`ws-client.js`), and a
handler that is ready runs in its turn, though saves keep interrupting: the
loop's ready queue is first in, first out.  No broadcast is forced, and an ended session leaves
nonetheless.

### What the violated runs found

1. `responder_orphan`: `start_responder` awaits the teardown of its predecessor
   and then publishes without looking again (`runtime.py:421`).  Two starts that
   overlap there leave one responder serving its port for ever.  The comment
   above that line, and SIM-28 in `docs/e2e_review_findings.md`, say the swap
   prevents this; it does so for starts that do not overlap (`simulator`).
   The same overlap of a stop with a start lets the stop erase the start time
   of the new responder; no document makes a promise there.
2. `simulator_stale`: only what `_coerce_custom_value` rejects is skipped.  An
   entry it lets through and `_parse_runtime_objects` refuses, a symbolic name
   the active bundle lacks or a typed value outside its limits, makes start,
   auto-start and restart fail (`simulator_service.py:479`), the last after it
   has stopped the old responder.  The comment at line 465 and
   `docs/changelog.md:122` say stale entries are skipped.  Corrected data cannot
   even be saved then: the binding of the stopped responder still names the old
   bundle (`runtime.py:525`).
3. `mib_aggregate`: an upload compiles its own batch and activates the result
   (`mib_mutations.py:182`), so the served bundle is the aggregate that
   `mib_manager_guide.md` describes only after a reload.
4. `mib_restore`: the rollback of a delete resets the caches of the
   source-service instance that the nested reload has replaced
   (`mib_mutations.py:460`); the restored file stays out of the status listing
   until the next mutation.
5. `mib_race`: a status thread stores a scan from before an upload after the
   upload's reset (`mib_sources.py:438`).

## 4. Proofs

`ResponderProofs` (from `PortsAssumption`, `EndpointsAssumption`).  `IInv` is
`TypeOK`, `CurrentIsServing` and `SingleTeardown` with three strengthenings:
`CallShape` (which local variables are set at which suspension point, and that
a bound socket of a start is on the port it asked for), `OwnConstruction` (a
responder under construction belongs to one call and is not served) and
`QuietBoot` (nothing precedes auto-start).  Without `OwnConstruction` two starts
could publish one object, without `CallShape` a publication would not know its
port.  The action property `OnlyLegitimateTakedown` follows from `IInv`.  For
handlers that do not overlap (`\A c, d \in Calls : c = d`) `SerialInv` adds that nothing is
published during a teardown, which gives `NoOrphan` and `UptimeKnown`; with
`SocketInv` (no two sockets share a port; what is not opened yet, or closed, has no
socket) it gives the refinement of `SingleEndpoint`: `WhoAnswers` says that only the published
responder and what the one call holds answer, so each step binds, withdraws, releases or
promotes at most one port.
`CallsAdvance` is the safety half of `CallsReturn`, overlaps included: `StepsLeft` counts down
from at most eleven with every step of a call, nothing another call does raises it, and
(`TeardownsEnd`) the only task a call awaits is that of a responder it has closed.

`SimulatorProofs` (from those, `CorruptAssumption` and `ObjectsAssumption`) rests on `ResponderProofs`: every step
of `SimSpec` is a step of `Spec` (`LifecycleSpec`), so `SimulatorNoOrphan`,
`SimulatorUptimeKnown` and `SimulatorOneEndpoint` need no new invariant.  `DataInv` says of `served` and of every
`ready[c]` at once that, while fresh, it is the stored file over its bundle's defaults (`Reading`),
and that `served` and `bound` name the same bundle; it gives `ServesStored`,
`RestartRequiredIsRight` and the types, for overlapping requests too.  It also gives
`WhatRunsCanRestart`: the property that the run `simulator_stale` finds violated of stored data is
true of the data a responder answers with while no restart is asked for.
`EveryDefaultAccepted` is about the values drawn from a declaration, checked against the one found
at the OID, and excepts modules that declare one OID with different limits.  It assumes
`WellDeclared`, which is what a MIB that compiles declares and the code relies on without
looking: bounds in order, no range next to named numbers, no size next to bits, no unsigned type confined
to negative numbers.  The proof follows `DefaultFor` branch by branch (`DefaultForTaken`): a
value clamped to the first interval passes the check against any of them (`ClampedHolds`),
for any width, and a row number replaces a default only where the check lets it.

`BundlesProofs` (from `ContentsAssumption`, `MaxRunsAssumption`).  `IInv` adds
`JobShape` (what each step of a job may rely on; in particular that the target
exists and that nothing has changed before the commit) and `MemoryShape` (memory
is settled at every step but one).  Each of the five invariants and the
refinement of `CatalogSwitch` follow from it.

`BundleViewsProofs` (from `ModulesAssumption` besides): a listing's step leaves the variables
of `Bundles` alone, so all theorems of `BundlesProofs` hold next to listings.
`ListInv` says what each stage of a listing may rely on: bundles are only ever
added, so the counts cover the rows read before them, and once there is an
active bundle there is one for ever (`OnlyMore`).  `ListingHangsTogether` follows;
it would not if modules were counted first.

The same module proves what TLC checks of the comparison, the tree and the search on one
pair and one tree, for any contents.  `MapsAssumption` and `NodesAssumption` say
that a bundle holds finitely many modules, each with its catalogue, and finitely many nodes at OIDs of
bounded length; `RanksAssumption` that no two matches have the same place (a stable sort by rank, module and
name, `browser_service.py:386`); `TypesAssumption` what `browser_service.py:29` and `:49` rely
on, that macro names are upper case and only an OBJECT-TYPE has a flavour.
For `DiffsExplain` a total over modules is shown to be the number of elements of a disjoint
union (`SumsCount`, by the least set for which it fails, as induction cannot
be cited), every reported object to be gained, lost or changed in exactly one module
(`ChangedPairs`), and the arcs of the graph to be differences of the two import relations
(`ArcsAdded`, `ArcsRemoved`).  `TreesAreWhole` goes up from the root: a node whose parent is
on display is shown when the parent is expanded, so a shallowest node that is never shown cannot
exist.  `SearchesAgreeWithTree` rests on `BestAreFirst`: what
is cut off by a limit never ranks before what is returned.

`EventHistoryProofs` (from `NoBundleAssumption`, `BoundsAssumption`).
`HistoryInv` is `HistoryTypeOK`, `MirrorFaithful`, `StampedBundle` and `OnlyReceivedDeleted`; it is
inductive as it stands (its first part is `HistoryTypeCorrect`), `MirrorFaithful` because the new id is above every id in
the table, `StampedBundle` because a waiting send keeps its bundle, and `OnlyReceivedDeleted`
because no two rows share an id, so that deleting one takes no other with it.

`TrapReceiverProofs` instantiates `ResponderProofs` (`LP`) instead of repeating
it: every step of the receiver is a step of `L` or leaves `L`'s variables alone,
so `L`'s invariants hold of it, and `PublishedListenerIsServing` is
`PublishedIsServing` through the instance, as `ListenerCallsAdvance` is `CallsAdvance` and
`TeardownsEnd`.  `TrapInv` adds `ServingFiled` (a
listener that runs files under the bundle it was made with, which is what
`StampedBundle` needs when a trap arrives) and `AnnouncingServed`.  The other
five theorems, the last being that the receiver implements `EventHistory`, assume `Serialised`, that starts and stops do not overlap: of two
listeners left by an overlap the forgotten one would file under the other's
binding.

`RealtimeProofs` (from `TimeoutsAssumption`, `MaxAgeAssumption` and that there is a token).  `TypeCorrect`
comes first: that listed connections have been accepted is used everywhere.
`SavedTimeoutApplies` needs that `overtaken` holds exactly those threads whose
value was read before the last commit.  `ConnInv` is the three safety properties with `FreshNames` (a connection
that is still in `accept()` is in no task, so a name is never used for two sockets), `OpenListed` (an
open socket is listed, so a broadcast begun now will come to it),
`TaskShape`, `TokenIssued` and `DeadAreOver` (whoever a task is about to close
and is still open has an ended session, which needs `EndedForGood`'s step).  It holds for any
number of connections, broadcasts, threads and tokens.  `EndedOnlyLeave` is the safety half of
`EndedSessionsLeave`: once the session of a listed browser is over, its socket is never
opened again and it is never listed anew; the next message its handler receives closes the socket, and
a handler that runs with a closed socket takes it off the list.

`MibStoreProofs` (from the assumptions on `Imports`, `Batches` and `MaxRuns`) first
proves that every step of the library is a step of `Bundles` (`LibraryUsesBundles`),
so the invariants of `BundlesProofs` hold of it through the instance `BP`.  `StoreInv`
adds `Running`: an operation runs in a process that is up and has no result before it
ends.  `SourcesAreKept` needs `Owing`: what was stored when the operation began is in the
tree, or, during a delete, among the files it has unlinked.  `CachedInventoryIsFresh`
needs that during an operation the cache is empty or right.  `RebuildServesWhatIsStored`
needs `OnCourse`, which follows the content of a rebuild from its request through the new
row to the active bundle, and `StarterRows` (a starter bundle holds no uploaded module);
that a compile of everything takes the first copy of each module, and fetches only
what is not there, is the lemma `RebuildCompiles`.

Of uploads three things are proved.  `OfflineUploadsAreComplete`: if no module that was
stored lacks an import, whatever an upload compiles without a remote source, in full or in part,
finds all it needs, although `analyze_upload_batch` looks at direct imports only; `PickedIsComplete` shows that the
closure of the chosen names stays within what is stored and called ready.
`UploadsServeTheirChoice`: what is active when an upload answers holds the chosen modules,
each from its first copy.  `UploadsAloneFindTheirFiles`: without status threads the
directories an upload compiles from include those it wrote to, which the run
`mib_race` refutes with them.  Next to any number of status threads `SourcesAreKeptNextToReaders` and
`RebuildServesNextToReaders` still hold: a thread touches nothing but the cache, and a
rebuild makes a service of its own, which scans the disk.  `LibraryKeepsPromises` takes the five properties of `Bundles` over;
`OperationsAdvance` is the safety half of `OperationEnds`: `OperationLeft` counts down from at most nineteen
with every step, those of the job included.

Checked by TLC only: liveness (`CallsReturn`, `OperationEnds`, `EndedSessionsLeave`), which with
its ENABLED is out of the prover's reach.  What is proved of it is that nothing leads away from the end
(`CallsAdvance`, `ListenerCallsAdvance`, `OperationsAdvance`, `EndedOnlyLeave`); that some step towards it
stays possible, and is taken under fairness, is what the runs show.  Every other property of a passing run is
stated by a theorem.

## 5. Not modelled, and the plan

Not modelled yet, in the order it would be worth it:

1. The front end's guards against late answers: `browser.js` guards its searches by a
   request number, its tree requests not.
2. Readers of the history: `list_events` counts and fetches in two statements.

Not planned, with the reason:

- the walker and the catalogues: I/O and read-only look-ups, whose content is formatting;
- statistics: each counter is incremented and reset on the event loop in steps that do
  not give way, and no document relates one counter to another;
- node details and name resolution in the browser: look-ups in a table;
- the settings other than the session timeout: nothing reads them next to a save;
- migrations, logging, configuration, installer and release scripts, rendering.

Hazards no property covers.  Where the code makes no promise that a step could break, or
where what goes wrong is outside the modelled parts, there is nothing to check:

- activating the bundle that is active makes it its own predecessor, and a rollback goes
  nowhere (`bundles.py:441`);
- a crash between the unlinking of a source and the end of the rebuild loses the file
  although the delete never answered (`mib_mutations.py:480`); `NoSourceLost` is about
  operations that answer;
- of two listeners left by overlapping starts the forgotten one files under the other's
  bundle (`runtime.py:1150`): the theorems about the receiver assume starts one at a time;
- replay and delete take an event id a page displayed earlier, which after a clear may
  belong to another event (`runtime.py:932`);
- `list_events` counts and fetches in two statements (`history.py:200`);
- a trap or a log line announced while a client is in `accept()` reaches it neither by the broadcast
  nor by the full state (`realtime.py:153`);
- where two modules declare one OID with different limits, a default drawn for one may be
  refused by the other's (`runtime.py:1398`), and the simulator does not start;
- a statistics reset is five commits (`stats_service.py:80`);
- a tree answer that arrives late overwrites the results of a search (`browser.js:1071`);
- an override is typed by the syntax as written, so one for a textual convention is a
  text whatever the convention stands for (`simulator_service.py:149`), and two spellings of one OID are two entries
  (`simulator_service.py:469`).
