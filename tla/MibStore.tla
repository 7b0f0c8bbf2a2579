------------------------------ MODULE MibStore ------------------------------
(***************************************************************************)
(* The MIB library: the upload tree on disk, the cached inventory of it,   *)
(* and the operations that change the tree and rebuild the active bundle   *)
(* (services/mib_mutations.py, mib_sources.py, mibs_service.py) on top of  *)
(* Bundles.  An operation runs on the event loop and never awaits, so      *)
(* operations exclude each other; the threads of GET /mibs/status, which   *)
(* share the inventory cache with them, are added by MibReaders.           *)
(*                                                                         *)
(* A file is <<group, mib>>.  The same file is how a bundle records which  *)
(* copy of a module it was compiled from; the bundled starter modules are  *)
(* in every bundle and are left out.                                       *)
(***************************************************************************)
EXTENDS Integers, Sequences, FiniteSets

CONSTANTS
    Mibs,     \* modules a user may upload
    Imports,  \* the modules each of them imports
    Batches,  \* the sets of files one upload request may carry
    MaxRuns,  \* bound: compile runs ever recorded
    NoScan    \* None: the inventory is not cached

\* Upload groups by precedence; "auto" is where fetched dependencies are kept.
Rank == [common |-> 1, vendor |-> 2, auto |-> 3]
Files == (DOMAIN Rank) \X Mibs

ASSUME ImportsAssumption == Imports \in [Mibs -> SUBSET Mibs]
ASSUME RunsAssumption == MaxRuns \in Nat
ASSUME BatchesAssumption ==
    Batches \subseteq (SUBSET {f \in Files : f[1] # "auto"}) \ {{}}

VARIABLES
    bundles, runs, flags, activeId, prevId, mem,
    step, job, target, outcome, before, phase,  \* as in Bundles
    files,    \* the files of the upload tree
    cache,    \* _source_inventory_cache of the current _source_svc_instance
    op,       \* the operation in progress and how far it is
    batch,    \* the files an upload carries, or a delete has unlinked
    names,    \* the modules an upload compiles, or a fetch is after
    fetched,  \* the modules the compile in progress has to fetch remotely
    online,   \* whether it may
    result,   \* how the last operation ended
    owed      \* auxiliary: the files stored when the operation began

bundleVars == <<bundles, runs, flags, activeId, prevId, mem,
                step, job, target, outcome, before, phase>>
opVars == <<op, batch, names, fetched, online, result, owed>>
vars == <<bundleVars, files, cache, opVars>>

B == INSTANCE Bundles WITH Contents <- SUBSET Files, StarterContent <- {}

Ops == {"none", "analyse", "write", "compile", "upload",
        "reload", "delete", "fetch", "refetch"}
Results == {"none", "uploaded", "kept", "reloaded", "deleted", "restored",
            "fetched", "failed"}

TypeOK ==
    /\ B!TypeOK
    /\ files \in SUBSET Files
    /\ cache \in (SUBSET Files) \cup {NoScan}
    /\ op \in Ops
    /\ batch \in SUBSET Files
    /\ names \in SUBSET Mibs
    /\ fetched \in SUBSET Mibs
    /\ online \in {"yes", "no"}
    /\ result \in Results
    /\ owed \in SUBSET Files

Init ==
    /\ B!Init
    /\ files = {}
    /\ cache = NoScan
    /\ op = "none"
    /\ batch = {}
    /\ names = {}
    /\ fetched = {}
    /\ online = "no"
    /\ result = "none"
    /\ owed = {}

-----------------------------------------------------------------------------
(* Names, copies and compile requests.                                     *)

MibsOf(S) == {f[2] : f \in S}
GroupsOf(S) == {f[1] : f \in S}

\* What compiling M takes: the least set around M that is closed under imports.
Closure ==
    [M \in SUBSET Mibs |->
        {m \in Mibs : \A S \in SUBSET Mibs :
            M \subseteq S /\ (\A i \in S : Imports[i] \subseteq S) => m \in S}]

\* partial_compile.ready_mibs: what a batch can compile without the rest, the
\* least set of its modules that takes in every one whose imports are stored
\* already or ready themselves.
Ready(new, stored) ==
    LET M == MibsOf(new)
        stable == MibsOf(stored) \ M
    IN  {m \in M : \A S \in SUBSET M :
            (\A i \in M : Imports[i] \subseteq stable \cup S => i \in S) => m \in S}

\* global_missing_deps
MissingDeps(new, stored) ==
    (UNION {Imports[m] : m \in MibsOf(new)}) \ MibsOf(stored \cup new)

\* Mutant: directories are searched in the reverse order.
ActiveCopyLast(m, S) ==
    CHOOSE f \in S : f[2] = m /\ \A g \in S : g[2] = m => Rank[g[1]] <= Rank[f[1]]

\* The copy of m in S that the ordered source directories yield first.
ActiveCopy(m, S) ==
    CHOOSE f \in S : f[2] = m /\ \A g \in S : g[2] = m => Rank[f[1]] <= Rank[g[1]]

ActiveCopies(M, S) == {ActiveCopy(m, S) : m \in M}

\* uploaded_source_inventory(): the cached scan, or a new one.
Inventory == IF cache = NoScan THEN files ELSE cache

\* compile_bundle for M, reading the directories of the inventory inv of the
\* tree S; modules not found there can only come from a remote source.
StartCompile(M, S, inv, activate) ==
    LET found == {f \in S : f[1] \in GroupsOf(inv)}
        needed == Closure[M]
        missing == needed \ MibsOf(found)
    IN  /\ B!BeginCompile(ActiveCopies(needed \ missing, found)
                              \cup {<<"auto", m>> : m \in missing},
                          "no", activate)
        /\ fetched' = missing

\* Mutant: the starter bundle is compiled without activate=True.
RebuildForgetsActivate(S) ==
    /\ S = {}
    /\ B!BeginCompile({}, "yes", "no")
    /\ UNCHANGED <<fetched, online>>

\* reload_uploaded_mib_bundle on the tree S: everything that is stored, or the
\* starter bundle, compiled anew or activated again.  The starter modules come
\* with the program, so there always are some to compile.
Rebuild(S) ==
    \/ /\ S # {}
       /\ StartCompile(MibsOf(S), S, S, "yes")
       /\ online' \in {"yes", "no"}
    \/ /\ S = {}
       /\ \/ B!BeginCompile({}, "yes", "yes")
          \/ \E b \in B!Starters :
                B!IsLatest(b, B!Starters) /\ B!Begin("activating", B!NoJob, b)
                /\ UNCHANGED <<bundles, runs, flags, activeId, prevId, mem>>
       /\ UNCHANGED <<fetched, online>>

\* _invalidate_source_cache(): a new instance, of which inv is known.
NewInstance(inv) == cache' = inv

Free == phase = "up" /\ op = "none" /\ step = "idle"

EndWith(how) ==
    /\ op' = "none"
    /\ batch' = {}
    /\ names' = {}
    /\ fetched' = {}
    /\ online' = "no"
    /\ result' = how
    /\ UNCHANGED owed

-----------------------------------------------------------------------------
(* POST /mibs/upload                                                       *)

UploadBegins(new) ==
    /\ Free
    /\ Len(runs) < MaxRuns  \* the bound: a compile will follow
    /\ op' = "analyse"
    /\ batch' = new
    /\ owed' = files
    /\ result' = "none"
    /\ NewInstance(NoScan)
    /\ UNCHANGED <<bundleVars, files, names, fetched, online>>

\* analyze_upload_batch and select_upload_targets: every module of the batch,
\* or those that are ready.
UploadAnalyses ==
    /\ op = "analyse"
    /\ cache' = Inventory
    /\ online' \in {"yes", "no"}
    /\ \/ /\ MissingDeps(batch, files) = {} \/ online' = "yes"
          /\ names' = MibsOf(batch)
       \/ names' \in (SUBSET Ready(batch, files)) \ {{}}
    /\ op' = "write"
    /\ UNCHANGED <<bundleVars, files, batch, fetched, result, owed>>

\* Full uploads with missing dependencies and auto-fetch off, and partial ones
\* with nothing ready, are refused before anything is written.
UploadRefused ==
    /\ op = "analyse"
    /\ MissingDeps(batch, files) # {} \/ Ready(batch, files) = {}
    /\ cache' = Inventory
    /\ EndWith("failed")
    /\ UNCHANGED <<bundleVars, files>>

\* Mutant: the inventory read for the analysis is kept.
UploadKeepsInventory ==
    /\ op = "write"
    /\ files' = files \cup batch
    /\ op' = "compile"
    /\ UNCHANGED <<bundleVars, cache, batch, names, fetched, online, result, owed>>

\* Write the files, then reset_source_caches().
UploadWrites ==
    /\ op = "write"
    /\ files' = files \cup batch
    /\ cache' = NoScan
    /\ op' = "compile"
    /\ UNCHANGED <<bundleVars, batch, names, fetched, online, result, owed>>

\* The disk gives out half-way: the request fails, what is written stays.
UploadWriteFails ==
    /\ op = "write"
    /\ \E written \in SUBSET batch : files' = files \cup written
    /\ EndWith("failed")
    /\ UNCHANGED <<bundleVars, cache>>

UploadCompiles ==
    /\ op = "compile"
    /\ cache' = Inventory
    /\ StartCompile(names, files, Inventory, "yes")
    /\ op' = "upload"
    /\ UNCHANGED <<phase, files, batch, names, online, result, owed>>

\* Mutant: fetched sources are written next to the groups.
MaterialisedAtRoot(M) == files \cup {<<"root", m>> : m \in M}

\* materialize_cached_remote_modules(M): sources that are not in the tree yet
\* join it.
Materialised(M) == files \cup {<<"auto", m>> : m \in M \ MibsOf(files)}

\* What of M the raw cache does not have is passed over.  The inventory is reset
\* only when something was persisted or already there.
Persist(M) ==
    \E had \in SUBSET M :
        /\ files' = Materialised(had)
        /\ cache' = IF had \cup (M \cap MibsOf(files)) = {} THEN cache ELSE NoScan

JobOver == step = "idle" /\ outcome # "none"

\* Mutant: an unexpected exception leaves the request hanging.
UploadHangs ==
    /\ op = "upload" /\ JobOver
    /\ \/ outcome = "done" /\ Persist(fetched) /\ EndWith("uploaded")
       \/ outcome = "refused" /\ EndWith("kept") /\ UNCHANGED <<files, cache>>
    /\ UNCHANGED bundleVars

\* A refused compile is reported per file and keeps the files.
UploadEnds ==
    /\ op = "upload" /\ JobOver
    /\ \/ outcome = "done" /\ Persist(fetched) /\ EndWith("uploaded")
       \/ outcome = "refused" /\ EndWith("kept") /\ UNCHANGED <<files, cache>>
       \/ outcome = "raised" /\ EndWith("failed") /\ UNCHANGED <<files, cache>>
    /\ UNCHANGED bundleVars

-----------------------------------------------------------------------------
(* POST /mibs/reload, DELETE /mibs/file, POST /mibs/delete-batch           *)

Reload ==
    /\ Free
    /\ op' = "reload"
    /\ owed' = files
    /\ result' = "none"
    /\ NewInstance(files)
    /\ Rebuild(files)
    /\ UNCHANGED <<phase, files, batch, names>>

ReloadEnds ==
    /\ op = "reload" /\ JobOver
    /\ \/ outcome = "done" /\ Persist(fetched) /\ EndWith("reloaded")
       \/ outcome # "done" /\ EndWith("failed") /\ UNCHANGED <<files, cache>>
    /\ UNCHANGED bundleVars

\* Unlink, then reload; the nested reload makes an instance of its own.
Delete(gone) ==
    /\ Free
    /\ files' = files \ gone
    /\ op' = "delete"
    /\ batch' = gone
    /\ owed' = files
    /\ result' = "none"
    /\ NewInstance(files \ gone)
    /\ Rebuild(files \ gone)
    /\ UNCHANGED <<phase, names>>

DeleteEnds ==
    /\ op = "delete" /\ JobOver
    /\ outcome = "done"
    /\ Persist(fetched)
    /\ EndWith("deleted")
    /\ UNCHANGED bundleVars

\* Mutant: only a refused compile puts the files back.
DeleteFailsRefusedOnly ==
    /\ op = "delete" /\ JobOver
    /\ outcome # "done"
    /\ files' = IF outcome = "refused" THEN files \cup batch ELSE files
    /\ EndWith("restored")
    /\ UNCHANGED <<bundleVars, cache>>

\* Any exception of the nested reload puts the files back; the caches that are
\* reset are those of the outer, superseded instance.
DeleteFails ==
    /\ op = "delete" /\ JobOver
    /\ outcome # "done"
    /\ files' = files \cup batch
    /\ EndWith("restored")
    /\ UNCHANGED <<bundleVars, cache>>

\* After a compile that worked, persisting what it fetched may still fail: at
\* one of the files, or at the commit that follows them.
PersistFails ==
    /\ JobOver /\ outcome = "done"
    /\ \E part \in SUBSET fetched :
          /\ cache' \in IF part = fetched THEN {cache, NoScan} ELSE {cache}
          /\ \/ /\ op \in {"upload", "reload", "fetch", "refetch"}
                /\ EndWith("failed")
                /\ files' = Materialised(part)
             \/ /\ op = "delete"
                /\ EndWith("restored")
                /\ files' = Materialised(part) \cup batch
    /\ fetched # {}
    /\ UNCHANGED bundleVars

-----------------------------------------------------------------------------
(* POST /mibs/fetch-dependencies                                           *)

Fetch(deps) ==
    /\ Free
    /\ deps \ MibsOf(files) # {}
    /\ op' = "fetch"
    /\ names' = deps \ MibsOf(files)
    /\ owed' = files
    /\ result' = "none"
    /\ NewInstance(files)
    /\ StartCompile(deps \ MibsOf(files), files, files, "no")
    /\ online' = "yes"
    /\ UNCHANGED <<phase, files, batch>>

\* Reload when a source that was asked for came, unless told not to.
ReloadAfterFetch(came) ==
    /\ op' = "refetch"
    /\ files' = Materialised(came)
    /\ NewInstance(files')
    /\ Rebuild(files')
    /\ result' = "none"
    /\ UNCHANGED <<phase, batch>>

\* A compile leaves in the raw cache what it could fetch, whether it was refused
\* or not.
FetchEnds ==
    /\ op = "fetch" /\ JobOver
    /\ \E came \in SUBSET (names \cup fetched) :
          /\ outcome = "refused" => came \subseteq names
          /\ outcome = "raised" => came = {}
          /\ \/ /\ Persist(came)
                /\ EndWith(IF outcome = "raised" THEN "failed" ELSE "fetched")
                /\ UNCHANGED bundleVars
             \/ /\ came \cap names # {}
                /\ ReloadAfterFetch(came)
                /\ UNCHANGED <<names, owed>>

\* Auto-fetch is off, or nothing is missing: only what an earlier fetch left in
\* the raw cache is there to be persisted.
FetchOffline(deps) ==
    /\ Free
    /\ owed' = files
    /\ \E came \in SUBSET (deps \ MibsOf(files)) :
          \/ /\ files' = Materialised(came)
             /\ NewInstance(IF came = {} THEN files ELSE NoScan)
             /\ result' = "fetched"
             /\ UNCHANGED <<bundleVars, op, batch, names, fetched, online>>
          \/ /\ came # {}
             /\ ReloadAfterFetch(came)
             /\ UNCHANGED names

RefetchEnds ==
    /\ op = "refetch" /\ JobOver
    /\ \/ outcome = "done" /\ Persist(fetched) /\ EndWith("fetched")
       \/ outcome # "done" /\ EndWith("failed") /\ UNCHANGED <<files, cache>>
    /\ UNCHANGED bundleVars

-----------------------------------------------------------------------------
(* What Bundles does on its own: the steps of the job an operation began,  *)
(* POST /bundles/{id}/activate, start-up and crash.                        *)

storeVars == <<files, cache, opVars>>

JobGoesOn ==
    /\ B!JobStep
    /\ B!CompileSucceeds => fetched = {} \/ online = "yes"
    /\ UNCHANGED storeVars

ActivateBundle ==
    /\ Free
    /\ \E b \in B!Ids : B!Activate(b)
    /\ result' = "none"
    /\ owed' = {}
    /\ UNCHANGED <<files, cache, op, batch, names, fetched, online>>

StartUp == B!BootStep /\ UNCHANGED storeVars

Crash ==
    /\ B!Crash
    /\ NewInstance(NoScan)
    /\ op' = "none"
    /\ batch' = {}
    /\ names' = {}
    /\ fetched' = {}
    /\ online' = "no"
    /\ result' = "none"
    /\ owed' = {}
    /\ UNCHANGED files

Operation ==
    \/ \E new \in Batches : UploadBegins(new)
    \/ UploadAnalyses \/ UploadRefused
    \/ UploadWrites \/ UploadWriteFails
    \/ UploadCompiles \/ UploadEnds
    \/ Reload \/ ReloadEnds
    \/ \E gone \in (SUBSET files) \ {{}} : Delete(gone)
    \/ DeleteEnds \/ DeleteFails \/ PersistFails
    \/ \E deps \in SUBSET Mibs : Fetch(deps) \/ FetchOffline(deps)
    \/ FetchEnds \/ RefetchEnds

Next ==
    \/ Operation
    \/ JobGoesOn
    \/ ActivateBundle
    \/ StartUp
    \/ Crash

Spec == Init /\ [][Next]_vars

\* The event loop goes on with the operation it is in.
Proceeds ==
    \/ UploadAnalyses \/ UploadRefused
    \/ UploadWrites \/ UploadWriteFails
    \/ UploadCompiles \/ UploadEnds
    \/ ReloadEnds \/ DeleteEnds \/ DeleteFails \/ PersistFails
    \/ FetchEnds \/ RefetchEnds
    \/ JobGoesOn

FairSpec == Spec /\ WF_vars(Proceeds)

-----------------------------------------------------------------------------
(* Properties.                                                             *)

\* Bundles!Next but for the order it is written in: the content of a compile is
\* the one its job records.
BundleStep ==
    \/ B!JobStep \/ B!BootStep \/ B!Crash
    \/ \E b \in B!Ids : B!Activate(b)
    \/ B!CompileStarter
    \/ job'.content \in SUBSET Files /\ \E a \in B!YesNo : B!Compile(job'.content, a)

\* The operations drive Bundles only in the ways its specification allows, so
\* what is proved of Bundles holds for the library.
UsesBundles == B!Init /\ [][bundleVars' # bundleVars => BundleStep]_bundleVars

\* Only a delete that reports success takes a stored source away: whatever
\* fails in a delete, an upload, a reload or a fetch, and however far it got,
\* the files that were stored when it began are stored when it has answered.
NoSourceLost == op = "none" /\ result # "deleted" => owed \subseteq files

\* A reload, a delete or the reload after a fetch that reports success leaves a
\* bundle active that holds exactly the modules that are stored and those that
\* had to be fetched for them, each compiled from its highest-precedence copy.
Rebuilt ==
    /\ op \in {"reload", "delete", "refetch"}
    /\ result' \in {"reloaded", "deleted", "fetched"}

Compiles(content, S) ==
    /\ content \subseteq S
    /\ MibsOf(content) = MibsOf(S)
    /\ \A f, g \in content : f[2] = g[2] => f = g
    /\ \A f \in content, g \in S : f[2] = g[2] => Rank[f[1]] <= Rank[g[1]]

RebuildServesTree ==
    [][Rebuilt => Compiles(bundles[activeId].content, Materialised(fetched))]_vars

\* After an operation that reports success the cached inventory, if any, lists
\* the files that are stored.
Succeeded == result \in {"uploaded", "kept", "reloaded", "deleted", "fetched"}

InventoryFresh == op = "none" /\ Succeeded => cache \in {NoScan, files}

\* Every operation gets to its answer.
OperationEnds == op # "none" ~> op = "none"

\* mib_sources.py: "Mutations reset the caches, so the entries never go stale
\* across an upload/delete/fetch cycle": what a rolled-back delete has restored
\* is listed.
RestoredIsListed == op = "none" /\ result = "restored" => cache \in {NoScan, files}

\* mib_manager_guide.md: "The live runtime uses one active aggregate bundle
\* built from the managed upload area plus the bundled starter MIBs": a stored
\* module that a user uploaded and that is served is still served after an upload.
StoredAndIn(b) ==
    MibsOf(bundles[b].content) \cap MibsOf({f \in files : f[1] # "auto"})

UploadKeepsAggregate ==
    [][op = "upload" /\ activeId # 0
          => StoredAndIn(activeId) \subseteq StoredAndIn(activeId')]_vars
=============================================================================
