----------------------------- MODULE Simulator -----------------------------
(***************************************************************************)
(* The simulator as an operator sees it: the objects the responder serves, *)
(* the custom data laid over the bundle's defaults, and the file they are  *)
(* kept in (simulator_service.py with the object half of RuntimeService).  *)
(* Extends Responder: each of its steps is a step of the lifecycle and     *)
(* what that step does to the data.                                        *)
(*                                                                         *)
(* A payload names an object at most once, so the order of its entries     *)
(* does not matter.  The list of objects the runtime keeps for display is  *)
(* left out, and so are rules, which no caller sets.                       *)
(*                                                                         *)
(* Several modules of a bundle may declare one OID.  An object is a        *)
(* declaration, the node its symbol names and its default is drawn for,    *)
(* with the one found by lookup of its OID, which may be another module's. *)
(***************************************************************************)
EXTENDS Responder, SimulatorValues

CONSTANTS
    Bundles,   \* bundle_sets that can be active
    NoBundle,  \* no bundle at all, or none recorded in a binding
    Oids,      \* the objects anything can be said about
    Objects,   \* the scalars and columns each bundle declares
    Declared,  \* those of them that are named in Oids, by bundle
    Payloads,  \* what an operator may save, sets of entries
    Corrupt    \* a file that is not a JSON object

ASSUME BundlesAssumption == NoBundle \notin Bundles
ASSUME CorruptAssumption == Corrupt \notin Payloads
ASSUME DeclaredAssumption ==
    \A b \in Bundles : \A o \in DOMAIN Declared[b] : o \in Oids /\ Declared[b][o] \in Objects[b]
ASSUME ObjectsAssumption ==
    \A b \in Bundles : \A object \in Objects[b] : WellDeclared(object.node)
ASSUME PayloadsAssumption ==
    \A p \in Payloads : \A d, e \in p : d.oid = e.oid => d = e

VARIABLES
    active,      \* the bundle in memory, which is the active one
    stored,      \* custom_data.json
    bound,       \* RuntimeService._responder_binding.bundle_set_id
    served,      \* what the published responder answers from, and the bundle of it
    ready        \* what a call's responder under construction will answer from

dataVars == <<active, stored, bound, served, ready>>
simVars == <<vars, dataVars>>

\* An object is absent, has its bundle's default, or an override.
Absent == [type |-> "none", n |-> 0, encoding |-> "none"]
Default == [type |-> "default", n |-> 0, encoding |-> "none"]
NoObjects == [o \in Oids |-> Absent]

\* fresh is auxiliary: the file has not changed since the objects were read.
Nothing == [objects |-> NoObjects, bundle |-> NoBundle, fresh |-> "no"]

SimInit ==
    /\ Init
    /\ active = NoBundle
    /\ stored = {}
    /\ bound = NoBundle
    /\ served = Nothing
    /\ ready = [c \in Calls |-> Nothing]

-----------------------------------------------------------------------------
(* From a payload to objects.                                              *)

Knows(b, o) == b # NoBundle /\ o \in DOMAIN Declared[b]
Undeclared == [syntax |-> NoSyntax, limits |-> NoLimits]

\* The runtime looks every OID up, whatever the value was made for.
LimitsOf(b, o) == EffectiveLimits(IF Knows(b, o) THEN Declared[b][o].found ELSE Undeclared)

\* What an entry is coerced by: the node it names, or the one found at its OID.
Named(b, entry) ==
    IF ~Knows(b, entry.oid) THEN Undeclared
    ELSE IF entry.spelling = "symbolic" THEN Declared[b][entry.oid].node
    ELSE Declared[b][entry.oid].found

\* The specifications an entry becomes; a typed one is passed through.
Specs(entry, b) ==
    IF entry.form = "typed" THEN {entry.value}
    ELSE Coerced(entry.value, Named(b, entry).syntax, EffectiveLimits(Named(b, entry)))

\* _runtime_objects_from_custom_data leaves the entry out, with a warning, or
\* refuses to save it.
Skipped(entry, b) == Specs(entry, b) = {}

\* _parse_runtime_objects raises, and nothing is started or saved: the symbol
\* is not in the bundle, or the value is malformed or out of its limits.
Blocks(entry, b) ==
    /\ ~Skipped(entry, b)
    /\ \/ entry.spelling = "symbolic" /\ ~Knows(b, entry.oid)
       \/ \E spec \in Specs(entry, b) : ~Taken(spec, LimitsOf(b, entry.oid))

\* load_custom_data: what cannot be read counts as no overrides.
Loaded(file) == IF file = Corrupt THEN {} ELSE file

\* The bundle's objects with the overrides of a payload laid over them.
Merged ==
    [b \in Bundles \cup {NoBundle} |->
        [payload \in Payloads \cup {{}} |->
            [o \in Oids |->
                LET specs == UNION {Specs(e, b) : e \in {d \in payload : d.oid = o}}
                IN  IF specs # {} THEN CHOOSE spec \in specs : TRUE
                    ELSE IF Knows(b, o) THEN Default ELSE Absent]]]

\* The payloads a start, and a save, take under a bundle.  Where modules disagree
\* about an OID a default may be refused all the same (see DefaultsAccepted),
\* and then nothing changes.
Startable ==
    [b \in Bundles \cup {NoBundle} |->
        {payload \in Payloads \cup {{}} : \A e \in payload : ~Blocks(e, b)}]
Accepted ==
    [b \in Bundles \cup {NoBundle} |->
        {payload \in Startable[b] : \A e \in payload : ~Skipped(e, b)}]

\* restart_required of the status.
RestartRequired ==
    /\ responder # NoEndpoint
    /\ bound # NoBundle /\ active # NoBundle /\ bound # active

-----------------------------------------------------------------------------
(* Starting.                                                               *)

\* start up to the first await: read bundle and file, and construct from them.
\* A file that cannot be read just then counts as empty; a start refused here
\* changes nothing, a restart is left with RestartRefused.
Prepare(c) ==
    \E payload \in {Loaded(stored), {}} :
        /\ payload \in Startable[active]
        /\ ready' = [ready EXCEPT ![c] =
              [objects |-> Merged[active][payload],
               bundle |-> active,
               fresh |-> IF payload = Loaded(stored) THEN "yes" ELSE "no"]]

StartStep(c) ==
    /\ \/ \E p \in Ports : Start(c, p)
       \/ RestartStart(c)
       \/ AutoStart(c)
    /\ Prepare(c)
    /\ UNCHANGED <<active, stored, bound, served>>

\* Objects and bundle are published with the responder, and go with it.
DataFollows(c) ==
    /\ \/ /\ responder' \notin {responder, NoEndpoint}
          /\ served' = ready[c]
          /\ bound' = ready[c].bundle
       \/ /\ responder' \in {responder, NoEndpoint}
          /\ served' = IF responder' = NoEndpoint THEN Nothing ELSE served
          /\ UNCHANGED bound
    /\ ready' = [ready EXCEPT ![c] = IF mine'[c] = NoEndpoint THEN Nothing ELSE @]
    /\ UNCHANGED <<active, stored>>

LoseData ==
    /\ bound' = NoBundle
    /\ served' = Nothing
    /\ ready' = [c \in Calls |-> Nothing]
    /\ UNCHANGED active

\* The lifecycle's other steps.
LifecycleStep(c) ==
    /\ \/ Stop(c) \/ Restart(c) \/ RestartRefused(c) \/ OpenBinds(c)
       \/ OpenFails(c) \/ HandleRefused(c) \/ GiveUp(c) \/ Swap(c) \/ CloseVictim(c) \/ JoinVictim(c) \/ Shutdown(c)
    /\ IF phase' = "down" THEN LoseData /\ UNCHANGED stored ELSE DataFollows(c)

TaskStep(e) ==
    /\ TaskEnds(e) \/ ServeFails(e)
    /\ served' = IF responder' = NoEndpoint THEN Nothing ELSE served
    /\ UNCHANGED <<active, stored, bound, ready>>

-----------------------------------------------------------------------------
(* PUT of custom data: one step of the loop, which may fail half-way.      *)

\* Every entry is coerced, parsed, and the running responder not outdated.
Saveable(payload) ==
    /\ phase = "up"
    /\ payload \in Accepted[active]
    /\ bound = NoBundle \/ active = NoBundle \/ bound = active

\* What is under construction has been read from the file before.
Outdate == ready' = [c \in Calls |-> [ready[c] EXCEPT !.fresh = "no"]]

\* Apply payload in memory; fresh says whether the file will follow.
Apply(payload, fresh) ==
    /\ served' = IF responder = NoEndpoint THEN Nothing
                 ELSE [objects |-> Merged[active][payload], bundle |-> active, fresh |-> fresh]

\* Mutant: overrides are laid over what the responder serves already.
SaveExtends(payload) ==
    /\ Saveable(payload)
    /\ served' = IF responder = NoEndpoint THEN Nothing
                 ELSE [served EXCEPT !.objects = [o \in Oids |->
                          IF \E e \in payload : e.oid = o THEN Merged[active][payload][o] ELSE @[o]],
                      !.bundle = active, !.fresh = "yes"]
    /\ stored' = payload
    /\ Outdate
    /\ UNCHANGED <<vars, active, bound>>

\* Mutant: a responder bound to an older bundle is changed as well.
SaveUnguarded(payload) ==
    /\ phase = "up"
    /\ payload \in Accepted[active]
    /\ Apply(payload, "yes")
    /\ stored' = payload
    /\ Outdate
    /\ UNCHANGED <<vars, active, bound>>

Save(payload) ==
    /\ Saveable(payload)
    /\ Apply(payload, "yes")
    /\ stored' = payload
    /\ Outdate
    /\ UNCHANGED <<vars, active, bound>>

\* responder.set_objects raises after clear_objects: the request fails with
\* no objects served and the old file in place.
SaveNotApplied(payload) ==
    /\ Saveable(payload)
    /\ responder # NoEndpoint
    /\ served' = [served EXCEPT !.objects = NoObjects, !.fresh = "no"]
    /\ UNCHANGED <<vars, active, stored, bound, ready>>

\* write_text fails: the responder has the new objects, the file is the old
\* one or is truncated.
SaveNotWritten(payload) ==
    /\ Saveable(payload)
    /\ Apply(payload, "no")
    /\ stored' \in {stored, Corrupt}
    /\ Outdate
    /\ UNCHANGED <<vars, active, bound>>

-----------------------------------------------------------------------------
(* The rest of the process.                                                *)

\* POST /bundles/{id}/activate, at any time.
SwitchBundle ==
    /\ phase = "up"
    /\ active' \in Bundles
    /\ UNCHANGED <<vars, stored, bound, served, ready>>

\* The process ends; in the middle of write_text it leaves half a file.
CrashStep ==
    /\ Crash
    /\ LoseData
    /\ \/ UNCHANGED stored
       \/ stored' = Corrupt /\ \E p \in Payloads : Saveable(p)

BootStep == (Boot \/ BootDone) /\ UNCHANGED dataVars

SimNext ==
    \/ \E c \in Calls : StartStep(c) \/ LifecycleStep(c)
    \/ \E e \in Endpoints : TaskStep(e)
    \/ \E p \in Payloads : Save(p) \/ SaveNotApplied(p) \/ SaveNotWritten(p)
    \/ SwitchBundle \/ CrashStep \/ BootStep

SimSpec == SimInit /\ [][SimNext]_simVars

-----------------------------------------------------------------------------
(* Properties.                                                             *)

SimTypeOK ==
    /\ TypeOK
    /\ active \in Bundles \cup {NoBundle}
    /\ stored \in Payloads \cup {{}, Corrupt}
    /\ bound \in Bundles \cup {NoBundle}
    /\ served.bundle \in Bundles \cup {NoBundle}
    /\ \A c \in Calls : ready[c].bundle \in Bundles \cup {NoBundle}

\* What a running responder answers is what its bundle and the stored file
\* make together, and what a restart under that bundle would bring back,
\* through saves, bundle switches, failed starts and crashes; except where the
\* file changed under a start or a save failed half-way, until the next start.
ServesStored ==
    responder # NoEndpoint /\ served.fresh = "yes" =>
        served.objects = Merged[served.bundle][Loaded(stored)]

\* restart_required is set exactly when what is served comes from another
\* bundle than the active one.  (Of a responder started without any bundle the
\* code cannot tell.)
RestartRequiredIsRight ==
    responder # NoEndpoint /\ bound # NoBundle =>
        (RestartRequired <=> served.bundle # active)

DefaultsTaken ==
    [b \in Bundles |->
        \A object \in Objects[b] : \A spec \in Defaults(object.node) :
            \/ Taken(spec, EffectiveLimits(object.found))
            \/ EffectiveLimits(object.found) # EffectiveLimits(object.node)]

\* Whatever is drawn for whatever node the active bundle declares - through
\* textual conventions, unions, size bounds in octets, negative ranges, row
\* numbers - the runtime takes it, though it checks it against the node found
\* at the OID: one bad default would keep the simulator from starting under
\* that bundle.  Only modules that declare one OID with different limits can
\* bring that about.
DefaultsAccepted == active # NoBundle => DefaultsTaken[active]

\* simulator_service.py: "stale invalid values are skipped with a warning so a
\* bad custom_data.json cannot block start".
BadDataCannotBlockStart == Loaded(stored) \in Startable[active]
=============================================================================
