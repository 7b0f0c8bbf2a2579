--------------------------- MODULE MibStoreProofs ---------------------------
(***************************************************************************)
(* The MIB library for any modules, imports and batches, and any number of *)
(* compile runs.  Its operations use Bundles as its specification allows,  *)
(* so the theorems of BundlesProofs hold (BP, the same substitution as B); *)
(* what is proved here is about the upload tree, the cached inventory, the *)
(* bundle an upload or a rebuild leaves active, and the status threads of  *)
(* MibReaders.                                                             *)
(***************************************************************************)
EXTENDS MibReaders, TLAPS

BP == INSTANCE BundlesProofs WITH Contents <- SUBSET Files, StarterContent <- {}

-----------------------------------------------------------------------------
(* Files and copies.                                                       *)

LEMMA FileParts ==
    ASSUME NEW f \in Files
    PROVE  /\ f[1] \in {"common", "vendor", "auto"}
           /\ f[2] \in Mibs
           /\ f = <<f[1], f[2]>>
    BY DEF Files, Rank

LEMMA AutoFiles ==
    ASSUME NEW M, M \subseteq Mibs
    PROVE  {<<"auto", m>> : m \in M} \subseteq Files
    BY DEF Files, Rank

LEMMA MibsOfFiles ==
    ASSUME NEW S, S \subseteq Files
    PROVE  MibsOf(S) \subseteq Mibs
    BY FileParts DEF MibsOf

\* Every module that is stored has a copy that comes first.
LEMMA ActiveCopyIs ==
    ASSUME NEW S, S \subseteq Files, NEW m \in MibsOf(S)
    PROVE  /\ ActiveCopy(m, S) \in S
           /\ ActiveCopy(m, S)[2] = m
           /\ \A g \in S : g[2] = m => Rank[ActiveCopy(m, S)[1]] <= Rank[g[1]]
<1> DEFINE First(f) == f \in S /\ f[2] = m /\ \A g \in S : g[2] = m => Rank[f[1]] <= Rank[g[1]]
<1>1. \A g \in S : g[2] = m => g \in {<<"common", m>>, <<"vendor", m>>, <<"auto", m>>}
    BY FileParts
<1>2. \E f \in S : f[2] = m
    BY DEF MibsOf
<1>3. Rank["common"] = 1 /\ Rank["vendor"] = 2 /\ Rank["auto"] = 3
    BY DEF Rank
<1>4. \E f : First(f)
    <2>1. CASE <<"common", m>> \in S
        BY <1>1, <1>3, <2>1
    <2>2. CASE <<"common", m>> \notin S /\ <<"vendor", m>> \in S
        BY <1>1, <1>3, <2>2
    <2>3. CASE <<"common", m>> \notin S /\ <<"vendor", m>> \notin S
        BY <1>1, <1>2, <1>3, <2>3
    <2> QED
        BY <2>1, <2>2, <2>3
<1>5. ActiveCopy(m, S) = CHOOSE f \in S : f[2] = m /\ \A g \in S : g[2] = m => Rank[f[1]] <= Rank[g[1]]
    BY DEF ActiveCopy
<1>6. First(ActiveCopy(m, S))
    BY <1>4, <1>5
<1> QED
    BY <1>6

LEMMA ClosureTakesIn ==
    ASSUME NEW M, M \subseteq Mibs
    PROVE  M \subseteq Closure[M] /\ Closure[M] \subseteq Mibs
    BY DEF Closure

\* What a compile is made from, and what of it is fetched.
Needed(M) == Closure[M]
Found(S, inv) == {f \in S : f[1] \in GroupsOf(inv)}
Missing(M, S, inv) == Needed(M) \ MibsOf(Found(S, inv))
Content(M, S, inv) ==
    ActiveCopies(Needed(M) \ Missing(M, S, inv), Found(S, inv))
        \cup {<<"auto", m>> : m \in Missing(M, S, inv)}

LEMMA ContentIs ==
    ASSUME NEW M, M \subseteq Mibs, NEW S, S \subseteq Files, NEW inv
    PROVE  /\ Missing(M, S, inv) \subseteq Mibs
           /\ Content(M, S, inv) \subseteq Files
<1>1. Found(S, inv) \subseteq Files
    BY DEF Found
<1>2. Needed(M) \subseteq Mibs
    BY ClosureTakesIn DEF Needed
<1>3. Missing(M, S, inv) \subseteq Mibs
    BY <1>2 DEF Missing
<1>4. ActiveCopies(Needed(M) \ Missing(M, S, inv), Found(S, inv)) \subseteq Files
    BY <1>1, ActiveCopyIs DEF ActiveCopies, Missing
<1> QED
    BY <1>3, <1>4, AutoFiles DEF Content

LEMMA StartCompileIs ==
    ASSUME NEW M, NEW S, NEW inv, NEW activate, StartCompile(M, S, inv, activate)
    PROVE  /\ B!BeginCompile(Content(M, S, inv), "no", activate)
           /\ fetched' = Missing(M, S, inv)
    BY DEF StartCompile, Content, Missing, Needed, Found

-----------------------------------------------------------------------------
(* The store's own variables.                                              *)

StoreType ==
    /\ files \in SUBSET Files
    /\ cache \in (SUBSET Files) \cup {NoScan}
    /\ op \in Ops
    /\ batch \in SUBSET Files
    /\ names \in SUBSET Mibs
    /\ fetched \in SUBSET Mibs
    /\ online \in {"yes", "no"}
    /\ result \in Results
    /\ owed \in SUBSET Files

\* An operation runs in a process that is up, starts from nothing left over
\* and has no result before it ends.
Running ==
    /\ op # "none" => phase = "up" /\ result = "none"
    /\ op = "none" => batch = {} /\ names = {} /\ fetched = {}

StoreInv == StoreType /\ Running

LEMMA MaterialisedIs ==
    ASSUME StoreType, NEW M, M \subseteq Mibs
    PROVE  /\ Materialised(M) \subseteq Files
           /\ files \subseteq Materialised(M)
           /\ M = {} => Materialised(M) = files
    BY AutoFiles DEF Materialised, StoreType

\* The steps of Bundles that are not the store's.
LEMMA JobPhase ==
    ASSUME B!JobStep
    PROVE  phase' = phase
    BY DEF B!JobStep, B!CompileFails, B!CompileRaises, B!CompileSucceeds,
           B!ActivateFails, B!ActivateCommits, B!SetBundle

LEMMA BootPhase ==
    ASSUME B!BootStep
    PROVE  phase # "up"
    BY DEF B!BootStep, B!Boot, B!BootSkips, B!BootActivatesStarter,
           B!BootCompilesStarter, B!BootGoesOn, B!BootLoads

LEMMA RebuildIs ==
    ASSUME NEW S, S \subseteq Files, fetched \subseteq Mibs, online \in {"yes", "no"},
           Rebuild(S)
    PROVE  fetched' \subseteq Mibs /\ online' \in {"yes", "no"}
<1>1. CASE S # {}
    BY <1>1, MibsOfFiles, StartCompileIs, ContentIs DEF Rebuild
<1>2. CASE S = {}
    BY <1>2 DEF Rebuild
<1> QED
    BY <1>1, <1>2

LEMMA ReloadAfterFetchKeeps ==
    ASSUME StoreInv, phase = "up", NEW came, came \subseteq Mibs, ReloadAfterFetch(came)
    PROVE  /\ files' \subseteq Files /\ files \subseteq files'
           /\ cache' = files'
           /\ op' = "refetch" /\ result' = "none" /\ phase' = "up"
           /\ fetched' \subseteq Mibs /\ online' \in {"yes", "no"}
           /\ UNCHANGED batch
<1>1. files' = Materialised(came) /\ Rebuild(files')
    BY DEF ReloadAfterFetch
<1>2. files' \subseteq Files /\ files \subseteq files'
    BY <1>1, MaterialisedIs DEF StoreInv
<1>3. fetched' \subseteq Mibs /\ online' \in {"yes", "no"}
    BY <1>1, <1>2, RebuildIs DEF StoreInv, StoreType
<1> QED
    BY <1>2, <1>3 DEF ReloadAfterFetch, NewInstance

LEMMA StoreInvStep == StoreInv /\ [Next]_vars => StoreInv'
<1> SUFFICES ASSUME StoreInv, [Next]_vars PROVE StoreInv'
    OBVIOUS
<1> USE DEF StoreInv, StoreType, Running, Ops, Results
<1>1. ASSUME NEW new \in Batches, UploadBegins(new) PROVE StoreInv'
    BY <1>1, BatchesAssumption DEF UploadBegins, Free, NewInstance, bundleVars
<1>2. CASE UploadAnalyses
    <2>1. MibsOf(batch) \subseteq Mibs /\ Ready(batch, files) \subseteq Mibs
        BY MibsOfFiles DEF Ready
    <2>2. Inventory \in SUBSET Files
        BY DEF Inventory
    <2> QED
        BY <1>2, <2>1, <2>2 DEF UploadAnalyses, bundleVars
<1>3. CASE UploadRefused
    BY <1>3 DEF UploadRefused, Inventory, EndWith, bundleVars
<1>4. CASE UploadWrites \/ UploadWriteFails
    BY <1>4 DEF UploadWrites, UploadWriteFails, EndWith, bundleVars
<1>5. CASE UploadCompiles
    <2>1. fetched' \subseteq Mibs
        BY <1>5, StartCompileIs, ContentIs DEF UploadCompiles
    <2>2. Inventory \in SUBSET Files
        BY DEF Inventory
    <2> QED
        BY <1>5, <2>1, <2>2 DEF UploadCompiles
<1>6. CASE UploadEnds \/ ReloadEnds \/ DeleteEnds \/ RefetchEnds
    <2>1. \A had \in SUBSET fetched : Materialised(had) \subseteq Files
        BY MaterialisedIs
    <2> QED
        BY <1>6, <2>1 DEF UploadEnds, ReloadEnds, DeleteEnds, RefetchEnds, Persist, EndWith, bundleVars
<1>7. CASE DeleteFails
    BY <1>7 DEF DeleteFails, EndWith, bundleVars
<1>8. CASE PersistFails
    <2>1. \A part \in SUBSET fetched : Materialised(part) \subseteq Files
        BY MaterialisedIs
    <2> QED
        BY <1>8, <2>1 DEF PersistFails, EndWith, bundleVars
<1>9. CASE Reload
    BY <1>9, RebuildIs DEF Reload, Free, NewInstance
<1>10. ASSUME NEW gone \in (SUBSET files) \ {{}}, Delete(gone) PROVE StoreInv'
    BY <1>10, RebuildIs DEF Delete, Free, NewInstance
<1>11. ASSUME NEW deps \in SUBSET Mibs, Fetch(deps) PROVE StoreInv'
    <2>1. fetched' \subseteq Mibs
        BY <1>11, StartCompileIs, ContentIs DEF Fetch
    <2> QED
        BY <1>11, <2>1 DEF Fetch, Free, NewInstance
<1>12. ASSUME NEW deps \in SUBSET Mibs, FetchOffline(deps) PROVE StoreInv'
    <2>1. PICK came \in SUBSET (deps \ MibsOf(files)) :
              \/ /\ files' = Materialised(came)
                 /\ NewInstance(IF came = {} THEN files ELSE NoScan)
                 /\ result' = "fetched"
                 /\ UNCHANGED <<bundleVars, op, batch, names, fetched, online>>
              \/ ReloadAfterFetch(came) /\ UNCHANGED names
        BY <1>12 DEF FetchOffline
    <2>2. Materialised(came) \subseteq Files
        BY MaterialisedIs
    <2>3. CASE ReloadAfterFetch(came) /\ UNCHANGED names
        BY <1>12, <2>3, ReloadAfterFetchKeeps DEF FetchOffline, Free
    <2> QED
        BY <1>12, <2>1, <2>2, <2>3 DEF FetchOffline, Free, NewInstance, bundleVars
<1>13. CASE FetchEnds
    <2>1. PICK came \in SUBSET (names \cup fetched) :
              \/ /\ Persist(came)
                 /\ EndWith(IF outcome = "raised" THEN "failed" ELSE "fetched")
                 /\ UNCHANGED bundleVars
              \/ ReloadAfterFetch(came) /\ UNCHANGED <<names, owed>>
        BY <1>13 DEF FetchEnds
    <2>2. \A had \in SUBSET came : Materialised(had) \subseteq Files
        BY MaterialisedIs
    <2>3. CASE ReloadAfterFetch(came) /\ UNCHANGED <<names, owed>>
        BY <1>13, <2>3, ReloadAfterFetchKeeps DEF FetchEnds
    <2> QED
        BY <1>13, <2>1, <2>2, <2>3 DEF FetchEnds, Persist, EndWith, bundleVars
<1>14. CASE JobGoesOn
    BY <1>14, JobPhase DEF JobGoesOn, storeVars, opVars
<1>15. CASE ActivateBundle
    BY <1>15 DEF ActivateBundle, Free
<1>16. CASE StartUp
    BY <1>16, BootPhase DEF StartUp, storeVars, opVars
<1>17. CASE Crash
    BY <1>17 DEF Crash, NewInstance
<1>18. CASE UNCHANGED vars
    BY <1>18 DEF vars, bundleVars, opVars
<1> QED
    BY <1>1, <1>2, <1>3, <1>4, <1>5, <1>6, <1>7, <1>8, <1>9, <1>10, <1>11, <1>12,
       <1>13, <1>14, <1>15, <1>16, <1>17, <1>18 DEF Next, Operation

LEMMA StoreInductive == Spec => []StoreInv
<1>1. Init => StoreInv
    BY DEF Init, B!Init, StoreInv, StoreType, Running, Ops, Results
<1> QED
    BY <1>1, StoreInvStep, PTL DEF Spec

-----------------------------------------------------------------------------
(* The library as a user of Bundles.                                       *)

LEMMA CompileIsBundleStep ==
    ASSUME phase = "up", phase' = phase, NEW M \in SUBSET Mibs, NEW S \in SUBSET Files,
           NEW inv, NEW a \in {"yes", "no"}, StartCompile(M, S, inv, a)
    PROVE  BundleStep
<1>1. B!BeginCompile(Content(M, S, inv), "no", a)
    BY StartCompileIs
<1>2. job'.content = Content(M, S, inv)
    BY <1>1 DEF B!BeginCompile, B!Begin
<1>3. Content(M, S, inv) \in SUBSET Files
    BY ContentIs
<1> QED
    BY <1>1, <1>2, <1>3 DEF BundleStep, B!Compile, B!YesNo

LEMMA RebuildIsBundleStep ==
    ASSUME phase = "up", phase' = phase, NEW S \in SUBSET Files, Rebuild(S)
    PROVE  BundleStep
<1>1. CASE S # {}
    BY <1>1, MibsOfFiles, CompileIsBundleStep DEF Rebuild
<1>2. CASE S = {} /\ B!BeginCompile({}, "yes", "yes")
    BY <1>2 DEF BundleStep, B!CompileStarter
<1>3. CASE /\ S = {}
           /\ \E b \in B!Starters :
                /\ B!IsLatest(b, B!Starters) /\ B!Begin("activating", B!NoJob, b)
                /\ UNCHANGED <<bundles, runs, flags, activeId, prevId, mem>>
    BY <1>3 DEF BundleStep, B!Starters, B!Activate, B!bundleVars, B!pointerVars
<1> QED
    BY <1>1, <1>2, <1>3 DEF Rebuild

LEMMA StepsAreBundleSteps ==
    ASSUME StoreInv, [Next]_vars
    PROVE  BundleStep \/ UNCHANGED bundleVars
<1> USE DEF StoreInv, StoreType
<1>1. CASE UploadCompiles
    BY <1>1, CompileIsBundleStep DEF UploadCompiles, Inventory, Running
<1>2. CASE Reload
    BY <1>2, RebuildIsBundleStep DEF Reload, Free
<1>3. ASSUME NEW gone \in (SUBSET files) \ {{}}, Delete(gone) PROVE BundleStep
    BY <1>3, RebuildIsBundleStep DEF Delete, Free
<1>4. ASSUME NEW deps \in SUBSET Mibs, Fetch(deps) PROVE BundleStep
    BY <1>4, CompileIsBundleStep DEF Fetch, Free
<1>5. ASSUME phase = "up", NEW came \in SUBSET Mibs, ReloadAfterFetch(came) PROVE BundleStep
    <2>1. files' \in SUBSET Files
        BY <1>5, MaterialisedIs DEF ReloadAfterFetch
    <2> QED
        BY <1>5, <2>1, RebuildIsBundleStep DEF ReloadAfterFetch
<1>6. ASSUME NEW deps \in SUBSET Mibs, FetchOffline(deps)
      PROVE  BundleStep \/ UNCHANGED bundleVars
    BY <1>5, <1>6 DEF FetchOffline, Free
<1>7. CASE FetchEnds
    BY <1>5, <1>7 DEF FetchEnds, Running
<1>8. CASE JobGoesOn \/ ActivateBundle \/ StartUp \/ Crash
    BY <1>8 DEF JobGoesOn, ActivateBundle, StartUp, Crash, BundleStep
<1>9. CASE \/ \E new \in Batches : UploadBegins(new)
           \/ UploadAnalyses \/ UploadRefused \/ UploadWrites \/ UploadWriteFails
           \/ UploadEnds \/ ReloadEnds \/ DeleteEnds \/ DeleteFails \/ PersistFails
           \/ RefetchEnds
    BY <1>9 DEF UploadBegins, UploadAnalyses, UploadRefused, UploadWrites, UploadWriteFails,
                UploadEnds, ReloadEnds, DeleteEnds, DeleteFails, PersistFails, RefetchEnds
<1>10. CASE UNCHANGED vars
    BY <1>10 DEF vars
<1> QED
    BY <1>1, <1>2, <1>3, <1>4, <1>6, <1>7, <1>8, <1>9, <1>10 DEF Next, Operation

\* Whatever the library does to the bundles is a step of Bundles.
THEOREM LibraryUsesBundles == Spec => UsesBundles
<1>1. Init => B!Init
    BY DEF Init
<1>2. StoreInv /\ [Next]_vars => [bundleVars' # bundleVars => BundleStep]_bundleVars
    BY StepsAreBundleSteps
<1> QED
    BY <1>1, <1>2, StoreInductive, PTL DEF Spec, UsesBundles

\* So each of its executions is one of Bundles.
LEMMA BundleStepIs ==
    ASSUME BundleStep
    PROVE  B!Next
    BY DEF BundleStep, B!Next

LEMMA SameBundleSteps == [B!Next]_(B!vars) => [BP!Next]_(BP!vars)
    BY DEF B!Next, BP!Next, B!vars, BP!vars, B!bundleVars, BP!bundleVars,
           B!pointerVars, BP!pointerVars, B!jobVars, BP!jobVars,
           B!Compile, BP!Compile, B!CompileStarter, BP!CompileStarter,
           B!Activate, BP!Activate, B!Rollback, BP!Rollback, B!JobStep, BP!JobStep,
           B!BootStep, BP!BootStep, B!Crash, BP!Crash, B!LoseMemory, BP!LoseMemory,
           B!Boot, BP!Boot, B!BootSkips, BP!BootSkips,
           B!BootActivatesStarter, BP!BootActivatesStarter,
           B!BootCompilesStarter, BP!BootCompilesStarter,
           B!BootGoesOn, BP!BootGoesOn, B!BootLoads, BP!BootLoads,
           B!BeginCompile, BP!BeginCompile, B!Begin, BP!Begin, B!Idle, BP!Idle,
           B!Ended, BP!Ended, B!CompileFails, BP!CompileFails,
           B!CompileRaises, BP!CompileRaises, B!CompileSucceeds, BP!CompileSucceeds,
           B!Compiled, BP!Compiled, B!ActivateFails, BP!ActivateFails,
           B!ActivateCommits, BP!ActivateCommits, B!SetBundle, BP!SetBundle,
           B!Ids, BP!Ids, B!YesNo, BP!YesNo, B!NoJob, BP!NoJob,
           B!Running, BP!Running, B!Starters, BP!Starters, B!IsLatest, BP!IsLatest,
           B!Latest, BP!Latest, B!Effective, BP!Effective

LEMMA SameBundleStates ==
    /\ B!Init <=> BP!Init
    /\ BP!IInv => B!TypeOK /\ B!JobShape /\ B!FlagIsPointer
<1>1. B!Init <=> BP!Init
    BY DEF B!Init, BP!Init, B!NoJob, BP!NoJob
<1>2. BP!IInv => B!TypeOK /\ B!JobShape /\ B!FlagIsPointer
    BY DEF BP!IInv, B!TypeOK, BP!TypeOK, B!JobShape, BP!JobShape,
           B!FlagIsPointer, BP!FlagIsPointer, B!Ids, BP!Ids,
           B!BundleRow, BP!BundleRow, B!RunRow, BP!RunRow, B!YesNo, BP!YesNo,
           B!Steps, BP!Steps, B!Outcomes, BP!Outcomes, B!Phases, BP!Phases,
           B!Running, BP!Running
<1> QED
    BY <1>1, <1>2

BundlesAreRight == B!TypeOK /\ B!JobShape /\ B!FlagIsPointer

LEMMA SamePromises ==
    BP!IInv => B!MemoryServesActive /\ B!FailureChangesNothing /\ B!BundlesComeFromRuns
    BY DEF BP!IInv, BP!MemoryShape, B!MemoryServesActive, BP!FailureChangesNothing,
           B!FailureChangesNothing, BP!BundlesComeFromRuns, B!BundlesComeFromRuns,
           BP!Ids, B!Ids

LEMMA LibrarySteps == StoreInv /\ [Next]_vars => [BP!Next]_(BP!vars)
<1>1. UNCHANGED bundleVars => UNCHANGED B!vars
    BY DEF bundleVars, B!vars, B!bundleVars, B!pointerVars, B!jobVars
<1> QED
    BY <1>1, StepsAreBundleSteps, BundleStepIs, SameBundleSteps

LEMMA BundlesHold == Spec => []BundlesAreRight
<1>1. Init => BP!Init
    BY SameBundleStates DEF Init
<1>2. StoreInv /\ [Next]_vars => [BP!Next]_(BP!vars)
    BY LibrarySteps
<1>3. BP!Spec => []BP!IInv
    BY BP!Inductive, RunsAssumption
<1>4. BP!IInv => BundlesAreRight
    BY SameBundleStates DEF BundlesAreRight
<1> QED
    BY <1>1, <1>2, <1>3, <1>4, StoreInductive, PTL DEF Spec, BP!Spec

\* mib_mutations.py on bundles.py: through uploads, deletes, rollbacks of deletes,
\* fetches with their reloads, failures and crashes the library keeps what
\* Bundles promises.  The active flag and the pointer agree; queries are answered
\* from the active bundle or from none; an operation whose job fails leaves what
\* was served in effect; each bundle is the result of one successful run; and the
\* served catalogue changes as CatalogSwitch allows.
THEOREM LibraryKeepsPromises ==
    Spec => /\ [](B!FlagIsPointer /\ B!MemoryServesActive)
            /\ [](B!FailureChangesNothing /\ B!BundlesComeFromRuns)
            /\ B!SwitchesCatalog
<1>1. Init => BP!Init
    BY SameBundleStates DEF Init
<1>2. StoreInv /\ [Next]_vars => [BP!Next]_(BP!vars)
    BY LibrarySteps
<1>3. BP!Spec => []BP!IInv /\ BP!SwitchesCatalog
    BY BP!Inductive, BP!ImplementsSwitch, RunsAssumption
<1>4. BP!IInv => /\ B!FlagIsPointer /\ B!MemoryServesActive
                 /\ B!FailureChangesNothing /\ B!BundlesComeFromRuns
    BY SameBundleStates, SamePromises
<1>5. BP!CS!Init => B!CS!Init
    BY DEF BP!CS!Init, B!CS!Init
<1>6. [BP!CS!Next]_(BP!CS!vars) => [B!CS!Next]_(B!CS!vars)
    BY DEF BP!CS!Next, B!CS!Next, BP!CS!vars, B!CS!vars, BP!CS!Switch, B!CS!Switch,
           BP!CS!Serve, B!CS!Serve, BP!CS!Lose, B!CS!Lose, BP!CS!Settled, B!CS!Settled
<1> QED
    BY <1>1, <1>2, <1>3, <1>4, <1>5, <1>6, StoreInductive, PTL
    DEF Spec, BP!Spec, BP!SwitchesCatalog, B!SwitchesCatalog, BP!CS!Spec, B!CS!Spec

\* Every state of the library is well typed.
THEOREM StoreTypeCorrect == Spec => []TypeOK
<1>1. StoreInv /\ BundlesAreRight => TypeOK
    BY DEF StoreInv, StoreType, BundlesAreRight, TypeOK
<1> QED
    BY <1>1, StoreInductive, BundlesHold, PTL

-----------------------------------------------------------------------------
(* The upload tree.                                                        *)

\* What an operation owes is in the tree all along, or, in a delete, in what it
\* has unlinked.
Owing ==
    /\ op \notin {"none", "delete"} => owed \subseteq files
    /\ op = "delete" => owed \subseteq files \cup batch

SourceInv == Owing /\ NoSourceLost

LEMMA SourceInvStep == StoreInv /\ SourceInv /\ [Next]_vars => SourceInv'
<1> SUFFICES ASSUME StoreInv, SourceInv, [Next]_vars PROVE SourceInv'
    OBVIOUS
<1> USE DEF SourceInv, Owing, NoSourceLost
<1>0. \A M \in SUBSET Mibs : files \subseteq Materialised(M)
    BY MaterialisedIs DEF StoreInv
<1>1. ASSUME NEW new \in Batches, UploadBegins(new) PROVE SourceInv'
    BY <1>1 DEF UploadBegins
<1>2. CASE UploadAnalyses \/ UploadRefused \/ UploadWrites \/ UploadWriteFails \/ UploadCompiles
    BY <1>2 DEF UploadAnalyses, UploadRefused, UploadWrites, UploadWriteFails, UploadCompiles, EndWith
<1>3. CASE UploadEnds \/ ReloadEnds \/ DeleteEnds \/ RefetchEnds
    <2>1. \A had \in SUBSET fetched : files \subseteq Materialised(had)
        BY <1>0 DEF StoreInv, StoreType
    <2> QED
        BY <1>3, <2>1 DEF UploadEnds, ReloadEnds, DeleteEnds, RefetchEnds, Persist, EndWith
<1>4. CASE DeleteFails
    BY <1>4 DEF DeleteFails, EndWith
<1>5. CASE PersistFails
    <2>1. \A part \in SUBSET fetched : files \subseteq Materialised(part)
        BY <1>0 DEF StoreInv, StoreType
    <2> QED
        BY <1>5, <2>1 DEF PersistFails, EndWith
<1>6. CASE Reload
    BY <1>6 DEF Reload
<1>7. ASSUME NEW gone \in (SUBSET files) \ {{}}, Delete(gone) PROVE SourceInv'
    BY <1>7 DEF Delete
<1>8. ASSUME NEW deps \in SUBSET Mibs, Fetch(deps) PROVE SourceInv'
    BY <1>8 DEF Fetch
<1>9. ASSUME NEW deps \in SUBSET Mibs, FetchOffline(deps) PROVE SourceInv'
    BY <1>0, <1>9 DEF FetchOffline, ReloadAfterFetch
<1>10. CASE FetchEnds
    BY <1>0, <1>10 DEF FetchEnds, Persist, EndWith, ReloadAfterFetch, StoreInv, StoreType
<1>11. CASE JobGoesOn \/ StartUp
    BY <1>11 DEF JobGoesOn, StartUp, storeVars, opVars
<1>12. CASE ActivateBundle \/ Crash
    BY <1>12 DEF ActivateBundle, Free, Crash
<1>13. CASE UNCHANGED vars
    BY <1>13 DEF vars, opVars
<1> QED
    BY <1>1, <1>2, <1>3, <1>4, <1>5, <1>6, <1>7, <1>8, <1>9, <1>10, <1>11, <1>12, <1>13
    DEF Next, Operation

\* Only a delete that reports success takes a stored source away.
THEOREM SourcesAreKept == Spec => []NoSourceLost
<1>1. Init => SourceInv
    BY DEF Init, SourceInv, Owing, NoSourceLost
<1>2. SourceInv => NoSourceLost
    BY DEF SourceInv
<1> QED
    BY <1>1, <1>2, SourceInvStep, StoreInductive, PTL DEF Spec

\* While an operation is in progress the inventory is that of the tree.
CacheInv ==
    /\ op # "none" => cache \in {NoScan, files}
    /\ InventoryFresh

LEMMA CacheInvStep == StoreInv /\ CacheInv /\ [Next]_vars => CacheInv'
<1> SUFFICES ASSUME StoreInv, CacheInv, [Next]_vars PROVE CacheInv'
    OBVIOUS
<1> USE DEF CacheInv, InventoryFresh, Succeeded
<1>0. Materialised({}) = files
    BY MaterialisedIs DEF StoreInv
<1>1. ASSUME NEW new \in Batches, UploadBegins(new) PROVE CacheInv'
    BY <1>1 DEF UploadBegins, NewInstance
<1>2. CASE UploadAnalyses \/ UploadRefused \/ UploadCompiles
    BY <1>2 DEF UploadAnalyses, UploadRefused, UploadCompiles, Inventory, EndWith
<1>3. CASE UploadWrites \/ UploadWriteFails
    BY <1>3 DEF UploadWrites, UploadWriteFails, EndWith
<1>4. CASE UploadEnds \/ ReloadEnds \/ DeleteEnds \/ RefetchEnds
    BY <1>0, <1>4 DEF UploadEnds, ReloadEnds, DeleteEnds, RefetchEnds, Persist, EndWith
<1>5. CASE DeleteFails \/ PersistFails
    BY <1>5 DEF DeleteFails, PersistFails, EndWith
<1>6. CASE Reload
    BY <1>6 DEF Reload, NewInstance
<1>7. ASSUME NEW gone \in (SUBSET files) \ {{}}, Delete(gone) PROVE CacheInv'
    BY <1>7 DEF Delete, NewInstance
<1>8. ASSUME NEW deps \in SUBSET Mibs, Fetch(deps) PROVE CacheInv'
    BY <1>8 DEF Fetch, NewInstance
<1>9. ASSUME NEW deps \in SUBSET Mibs, FetchOffline(deps) PROVE CacheInv'
    BY <1>0, <1>9 DEF FetchOffline, ReloadAfterFetch, NewInstance, Free
<1>10. CASE FetchEnds
    BY <1>0, <1>10 DEF FetchEnds, Persist, EndWith, ReloadAfterFetch, NewInstance
<1>11. CASE JobGoesOn \/ StartUp
    BY <1>11 DEF JobGoesOn, StartUp, storeVars, opVars
<1>12. CASE ActivateBundle \/ Crash
    BY <1>12 DEF ActivateBundle, Free, Crash
<1>13. CASE UNCHANGED vars
    BY <1>13 DEF vars, opVars
<1> QED
    BY <1>1, <1>2, <1>3, <1>4, <1>5, <1>6, <1>7, <1>8, <1>9, <1>10, <1>11, <1>12, <1>13
    DEF Next, Operation

\* After an operation that reports success the cached inventory lists the files
\* that are stored.
THEOREM CachedInventoryIsFresh == Spec => []InventoryFresh
<1>1. Init => CacheInv
    BY DEF Init, CacheInv, InventoryFresh
<1>2. CacheInv => InventoryFresh
    BY DEF CacheInv
<1> QED
    BY <1>1, <1>2, CacheInvStep, StoreInductive, PTL DEF Spec

-----------------------------------------------------------------------------
(* What a rebuild serves.                                                  *)

\* The copies of some modules.
Of(M, S) == {f \in S : f[2] \in M}

\* A compile takes the first copy of every module that it needs, and fetches only
\* what is not there.
LEMMA CompileTakes ==
    ASSUME NEW S, S \subseteq Files, NEW M, M \subseteq Mibs
    PROVE  LET lacking == Missing(M, S, S)
           IN  /\ lacking = Needed(M) \ MibsOf(S)
               /\ Compiles(Content(M, S, S), Of(Needed(M), S \cup {<<"auto", m>> : m \in lacking}))
<1> DEFINE lacking == Missing(M, S, S)
           content == Content(M, S, S)
           autos == {<<"auto", m>> : m \in lacking}
           found == Needed(M) \cap MibsOf(S)
           tree == Of(Needed(M), S \cup autos)
<1>1. Found(S, S) = S
    BY DEF Found, GroupsOf
<1>2. Needed(M) \subseteq Mibs
    BY ClosureTakesIn DEF Needed
<1>3. lacking = Needed(M) \ MibsOf(S) /\ Needed(M) \ lacking = found
    BY <1>1 DEF Missing
<1>4. content = {ActiveCopy(m, S) : m \in found} \cup autos
    BY <1>1, <1>3 DEF Content, ActiveCopies
<1>5. \A m \in MibsOf(S) :
          /\ ActiveCopy(m, S) \in S
          /\ ActiveCopy(m, S)[2] = m
          /\ \A g \in S : g[2] = m => Rank[ActiveCopy(m, S)[1]] <= Rank[g[1]]
    BY ActiveCopyIs
<1>6. \A f \in autos : f[1] = "auto" /\ f[2] \in lacking /\ f = <<"auto", f[2]>>
    OBVIOUS
<1>7. \A m \in lacking : <<"auto", m>> \in autos /\ <<"auto", m>>[2] = m
    OBVIOUS
<1>8. \A m \in lacking : m \notin MibsOf(S)
    BY <1>3
<1>9. Rank["auto"] <= Rank["auto"]
    BY DEF Rank
<1>10. \A g \in S : g[2] \in MibsOf(S)
    BY DEF MibsOf
<1>11. Needed(M) = found \cup lacking /\ found \subseteq MibsOf(S)
    BY <1>3
<1>12. \A g \in tree : g[2] \in Needed(M) /\ (g \in S \/ g \in autos)
    BY DEF Of
<1>13. \A g : g[2] \in Needed(M) /\ (g \in S \/ g \in autos) => g \in tree
    BY DEF Of
<1> HIDE DEF content, lacking, autos, found, tree
<1>14. \A f \in content :
           \/ f \in autos /\ f[2] \in lacking
           \/ f[2] \in found /\ f = ActiveCopy(f[2], S) /\ f \in S
    BY <1>4, <1>5, <1>6, <1>11
<1>15. content \subseteq tree
    BY <1>11, <1>13, <1>14
<1>16. MibsOf(content) = MibsOf(tree)
    <2>1. \A m \in found : m \in MibsOf(content)
        BY <1>4, <1>5, <1>11 DEF MibsOf
    <2>2. \A m \in lacking : m \in MibsOf(content)
        BY <1>4, <1>7 DEF MibsOf
    <2>3. MibsOf(tree) \subseteq found \cup lacking
        BY <1>11, <1>12 DEF MibsOf
    <2>4. MibsOf(content) \subseteq MibsOf(tree)
        BY <1>15 DEF MibsOf
    <2> QED
        BY <2>1, <2>2, <2>3, <2>4
<1>17. \A f, g \in content : f[2] = g[2] => f = g
    BY <1>6, <1>8, <1>11, <1>14
<1>18. \A f \in content, g \in tree : f[2] = g[2] => Rank[f[1]] <= Rank[g[1]]
    <2> TAKE f \in content, g \in tree
    <2> HAVE f[2] = g[2]
    <2>1. CASE g \in autos
        BY <1>6, <1>8, <1>9, <1>11, <1>14, <2>1
    <2>2. CASE g \in S
        BY <1>5, <1>6, <1>8, <1>10, <1>11, <1>14, <2>2
    <2> QED
        BY <1>12, <2>1, <2>2
<1>19. Compiles(content, tree)
    BY <1>15, <1>16, <1>17, <1>18 DEF Compiles
<1> QED
    BY <1>3, <1>19 DEF content, lacking, autos, tree

\* A compile of everything that is stored takes all of it.
LEMMA RebuildCompiles ==
    ASSUME NEW S, S \subseteq Files
    PROVE  LET lacking == Missing(MibsOf(S), S, S)
           IN  /\ lacking \cap MibsOf(S) = {}
               /\ Compiles(Content(MibsOf(S), S, S), S \cup {<<"auto", m>> : m \in lacking})
<1> DEFINE lacking == Missing(MibsOf(S), S, S)
           autos == {<<"auto", m>> : m \in lacking}
<1>1. MibsOf(S) \subseteq Mibs /\ MibsOf(S) \subseteq Needed(MibsOf(S))
    BY MibsOfFiles, ClosureTakesIn DEF Needed
<1>2. lacking = Needed(MibsOf(S)) \ MibsOf(S)
    BY <1>1, CompileTakes
<1>3. \A f \in S \cup autos : f[2] \in Needed(MibsOf(S))
    BY <1>1, <1>2 DEF MibsOf
<1>4. Of(Needed(MibsOf(S)), S \cup autos) = S \cup autos
    BY <1>3 DEF Of
<1>5. Compiles(Content(MibsOf(S), S, S), Of(Needed(MibsOf(S)), S \cup autos))
    BY <1>1, CompileTakes
<1> HIDE DEF autos
<1>6. Compiles(Content(MibsOf(S), S, S), S \cup autos)
    BY <1>4, <1>5
<1> QED
    BY <1>2, <1>6 DEF autos

\* A starter bundle holds no uploaded module.
StarterRows ==
    /\ \A b \in B!Ids : bundles[b].starter = "yes" => bundles[b].content = {}
    /\ step = "compiling" /\ job.starter = "yes" => job.content = {}

LEMMA AppendedRow ==
    ASSUME B!TypeOK, B!CompileSucceeds
    PROVE  /\ bundles'[Len(bundles) + 1] = [content |-> job.content, starter |-> job.starter]
           /\ \A b \in B!Ids : bundles'[b] = bundles[b]
           /\ \A b \in B!Ids' : b \in B!Ids \/ b = Len(bundles) + 1
    BY DEF B!TypeOK, B!CompileSucceeds, B!Ids, B!BundleRow

LEMMA StarterRowsStep ==
    ASSUME BundlesAreRight, StarterRows, BundleStep \/ UNCHANGED bundleVars
    PROVE  StarterRows'
<1> USE DEF BundlesAreRight, StarterRows
<1>1. CASE B!CompileSucceeds
    <2>1. step' # "compiling" /\ step = "compiling"
        BY <1>1 DEF B!CompileSucceeds, B!Compiled, B!Ended
    <2> QED
        BY <1>1, <2>1, AppendedRow
<1>2. CASE B!CompileFails \/ B!CompileRaises \/ B!ActivateFails \/ B!ActivateCommits \/ B!SetBundle
    BY <1>2 DEF B!CompileFails, B!CompileRaises, B!ActivateFails, B!ActivateCommits,
                B!SetBundle, B!Ended, B!bundleVars, B!Ids
<1>3. ASSUME NEW c, NEW s, NEW a, B!BeginCompile(c, s, a), s = "yes" => c = {}
      PROVE  StarterRows'
    BY <1>3 DEF B!BeginCompile, B!Begin, B!Ids
<1>4. CASE B!BootStep
    BY <1>3, <1>4 DEF B!BootStep, B!Boot, B!BootSkips, B!BootActivatesStarter,
           B!BootCompilesStarter, B!BootGoesOn, B!BootLoads, B!Begin, B!Idle,
           B!bundleVars, B!jobVars, B!Ids
<1>5. CASE B!Crash
    BY <1>5 DEF B!Crash, B!LoseMemory, B!bundleVars, B!Ids
<1>6. ASSUME NEW b \in B!Ids, B!Activate(b) PROVE StarterRows'
    BY <1>6 DEF B!Activate, B!Begin, B!bundleVars, B!Ids
<1>7. CASE \/ B!CompileStarter
           \/ job'.content \in SUBSET Files /\ \E a \in B!YesNo : B!Compile(job'.content, a)
    BY <1>3, <1>7 DEF B!CompileStarter, B!Compile
<1>8. CASE UNCHANGED bundleVars
    BY <1>8 DEF bundleVars, B!Ids
<1> QED
    BY <1>1, <1>2, <1>4, <1>5, <1>6, <1>7, <1>8 DEF BundleStep, B!JobStep

\* A job on its way to an active bundle of the files of tree.
OnCourse(tree) ==
    /\ step = "compiling" => job.activate = "yes" /\ Compiles(job.content, tree)
    /\ step \in {"activating", "committed"} => Compiles(bundles[target].content, tree)
    /\ step = "idle" /\ outcome = "done" => Compiles(bundles[activeId].content, tree)

Rebuilds == {"reload", "delete", "refetch"}

\* From its start on a rebuild makes, then activates, a bundle of what the tree
\* will hold once the sources that are being fetched have joined it.
CourseInv == StarterRows /\ (op \in Rebuilds => OnCourse(Materialised(fetched)))

LEMMA NothingCompiles == Compiles({}, {})
    BY DEF Compiles

LEMMA RebuildSetsCourse ==
    ASSUME StarterRows, NEW S, S \subseteq Files, files' = S, Rebuild(S),
           S = {} => fetched = {}
    PROVE  OnCourse(Materialised(fetched))'
<1>1. CASE S # {}
    <2>1. StartCompile(MibsOf(S), S, S, "yes")
        BY <1>1 DEF Rebuild
    <2>2. /\ B!BeginCompile(Content(MibsOf(S), S, S), "no", "yes")
          /\ fetched' = Missing(MibsOf(S), S, S)
        BY <2>1, StartCompileIs
    <2>3. Compiles(Content(MibsOf(S), S, S), Materialised(fetched)')
        <3>1. Materialised(fetched)' = S \cup {<<"auto", m>> : m \in fetched' \ MibsOf(S)}
            BY DEF Materialised
        <3>2. fetched' \ MibsOf(S) = Missing(MibsOf(S), S, S)
            BY <2>2, RebuildCompiles
        <3> QED
            BY <3>1, <3>2, RebuildCompiles
    <2>4. /\ step' = "compiling"
          /\ job' = [content |-> Content(MibsOf(S), S, S), starter |-> "no", activate |-> "yes"]
        BY <2>2 DEF B!BeginCompile, B!Begin
    <2> QED
        BY <2>3, <2>4 DEF OnCourse, Compiles
<1>2. CASE S = {}
    <2>1. fetched' = {}
        BY <1>2 DEF Rebuild
    <2>2. Materialised(fetched)' = {}
        BY <1>2, <2>1 DEF Materialised
    <2>3. CASE B!BeginCompile({}, "yes", "yes")
        BY <2>2, <2>3, NothingCompiles
        DEF B!BeginCompile, B!Begin, OnCourse, Compiles
    <2>4. CASE \E b \in B!Starters :
                  /\ B!IsLatest(b, B!Starters) /\ B!Begin("activating", B!NoJob, b)
                  /\ UNCHANGED <<bundles, runs, flags, activeId, prevId, mem>>
        <3>1. PICK b \in B!Starters :
                  B!Begin("activating", B!NoJob, b) /\ UNCHANGED bundles
            BY <2>4
        <3>2. bundles'[target'].content = {}
            BY <3>1 DEF StarterRows, B!Starters, B!Begin
        <3>3. step' = "activating"
            BY <3>1 DEF B!Begin
        <3> QED
            BY <2>2, <3>2, <3>3, NothingCompiles DEF OnCourse, Compiles
    <2> QED
        BY <1>2, <2>3, <2>4 DEF Rebuild
<1> QED
    BY <1>1, <1>2

LEMMA JobStaysOnCourse ==
    ASSUME BundlesAreRight, NEW tree, OnCourse(tree), B!JobStep
    PROVE  OnCourse(tree)'
<1> USE DEF OnCourse, BundlesAreRight
<1>1. CASE B!CompileSucceeds
    <2>1. step = "compiling" /\ step' = "activating" /\ target' = Len(bundles) + 1
        BY <1>1 DEF B!CompileSucceeds, B!Compiled
    <2>2. bundles'[target'].content = job.content
        BY <1>1, <2>1, AppendedRow
    <2> QED
        BY <2>1, <2>2 DEF Compiles
<1>2. CASE B!CompileFails \/ B!CompileRaises \/ B!ActivateFails
    BY <1>2 DEF B!CompileFails, B!CompileRaises, B!ActivateFails, B!Ended
<1>3. CASE B!ActivateCommits
    <2>1. step = "activating" /\ step' = "committed" /\ UNCHANGED <<target, bundles>>
        BY <1>3 DEF B!ActivateCommits, B!bundleVars
    <2> QED
        BY <2>1 DEF Compiles
<1>4. CASE B!SetBundle
    <2>1. step = "committed" /\ step' = "idle" /\ UNCHANGED <<activeId, bundles>>
        BY <1>4 DEF B!SetBundle, B!Ended, B!bundleVars, B!pointerVars
    <2>2. target = activeId
        BY <2>1 DEF B!JobShape
    <2> QED
        BY <2>1, <2>2 DEF Compiles
<1> QED
    BY <1>1, <1>2, <1>3, <1>4 DEF B!JobStep

LEMMA CourseInvStep == StoreInv /\ BundlesAreRight /\ CourseInv /\ [Next]_vars => CourseInv'
<1> SUFFICES ASSUME StoreInv, BundlesAreRight, CourseInv, [Next]_vars PROVE CourseInv'
    OBVIOUS
<1>0. StarterRows'
    BY StarterRowsStep, StepsAreBundleSteps DEF CourseInv
<1> USE DEF CourseInv, Rebuilds
<1>1. CASE Reload
    BY <1>0, <1>1, RebuildSetsCourse DEF Reload, Free, StoreInv, StoreType, Running
<1>2. ASSUME NEW gone \in (SUBSET files) \ {{}}, Delete(gone) PROVE CourseInv'
    BY <1>0, <1>2, RebuildSetsCourse DEF Delete, Free, StoreInv, StoreType, Running
<1>3. ASSUME NEW came \in SUBSET Mibs, came # {}, ReloadAfterFetch(came) PROVE CourseInv'
    <2>1. files' = Materialised(came) /\ Rebuild(files')
        BY <1>3 DEF ReloadAfterFetch
    <2>2. files' # {} /\ files' \subseteq Files
        <3>1. Materialised(came) # {}
            BY <1>3 DEF Materialised, MibsOf
        <3> QED
            BY <2>1, <3>1, MaterialisedIs DEF StoreInv
    <2> QED
        BY <1>0, <2>1, <2>2, RebuildSetsCourse
<1>4. ASSUME NEW deps \in SUBSET Mibs, FetchOffline(deps) PROVE CourseInv'
    BY <1>0, <1>3, <1>4 DEF FetchOffline, Free
<1>5. CASE FetchEnds
    <2>1. PICK came \in SUBSET (names \cup fetched) :
              \/ EndWith(IF outcome = "raised" THEN "failed" ELSE "fetched")
              \/ came \cap names # {} /\ ReloadAfterFetch(came)
        BY <1>5 DEF FetchEnds
    <2>2. came \in SUBSET Mibs
        BY DEF StoreInv, StoreType
    <2> QED
        BY <1>0, <1>3, <2>1, <2>2 DEF EndWith
<1>6. CASE JobGoesOn
    <2>1. B!JobStep /\ UNCHANGED <<op, files, fetched>>
        BY <1>6 DEF JobGoesOn, storeVars, opVars
    <2>2. PICK tree : tree = Materialised(fetched)
        OBVIOUS
    <2>3. Materialised(fetched)' = tree
        BY <2>1, <2>2 DEF Materialised
    <2>4. OnCourse(tree) => OnCourse(tree)'
        BY <2>1, JobStaysOnCourse
    <2>5. OnCourse(Materialised(fetched)) => OnCourse(Materialised(fetched))'
        BY <2>2, <2>3, <2>4 DEF OnCourse
    <2> QED
        BY <1>0, <2>1, <2>5
<1>7. CASE StartUp
    BY <1>0, <1>7, BootPhase DEF StartUp, storeVars, opVars, StoreInv, Running
<1>8. CASE ActivateBundle \/ Crash
    BY <1>0, <1>8 DEF ActivateBundle, Free, Crash
<1>9. CASE \/ \E new \in Batches : UploadBegins(new)
           \/ UploadAnalyses \/ UploadRefused \/ UploadWrites \/ UploadWriteFails
           \/ UploadCompiles \/ UploadEnds
           \/ \E deps \in SUBSET Mibs : Fetch(deps)
    BY <1>0, <1>9 DEF UploadBegins, UploadAnalyses, UploadRefused, UploadWrites,
           UploadWriteFails, UploadCompiles, UploadEnds, Fetch, EndWith
<1>10. CASE ReloadEnds \/ DeleteEnds \/ DeleteFails \/ PersistFails \/ RefetchEnds
    BY <1>0, <1>10 DEF ReloadEnds, DeleteEnds, DeleteFails, PersistFails, RefetchEnds, EndWith
<1>11. CASE UNCHANGED vars
    <2>1. OnCourse(Materialised(fetched)) => OnCourse(Materialised(fetched))'
        BY <1>11 DEF vars, bundleVars, opVars, OnCourse, Compiles, Materialised
    <2> QED
        BY <1>0, <1>11, <2>1 DEF vars, opVars
<1> QED
    BY <1>1, <1>2, <1>4, <1>5, <1>6, <1>7, <1>8, <1>9, <1>10, <1>11 DEF Next, Operation

LEMMA RebuiltServes ==
    ASSUME StoreInv, CourseInv, [Next]_vars, Rebuilt
    PROVE  Compiles(bundles[activeId].content, Materialised(fetched))
<1> USE DEF Rebuilt
<1>1. result = "none" /\ phase = "up" /\ op # "none" /\ OnCourse(Materialised(fetched))
    BY DEF StoreInv, Running, CourseInv, Rebuilds
<1>2. CASE ReloadEnds \/ DeleteEnds \/ RefetchEnds
    BY <1>1, <1>2 DEF ReloadEnds, DeleteEnds, RefetchEnds, JobOver, Persist, EndWith,
                      OnCourse
<1>3. CASE ~(ReloadEnds \/ DeleteEnds \/ RefetchEnds)
    BY <1>1, <1>3, BootPhase
    DEF Next, Operation, UploadBegins, UploadAnalyses, UploadRefused, UploadWrites,
        UploadWriteFails, UploadCompiles, UploadEnds, Reload, Delete, DeleteFails,
        PersistFails, Fetch, FetchOffline, FetchEnds, JobGoesOn, ActivateBundle, StartUp,
        Crash, Free, EndWith, storeVars, opVars, vars
<1> QED
    BY <1>2, <1>3

\* A rebuild that reports success leaves a bundle active that holds exactly the
\* stored modules and what had to be fetched for them, each from its
\* highest-precedence copy.
THEOREM RebuildServesWhatIsStored == Spec => RebuildServesTree
<1>1. Init => CourseInv
    BY DEF Init, B!Init, B!Ids, CourseInv, StarterRows, Rebuilds
<1>2. StoreInv /\ CourseInv /\ [Next]_vars
          => [Rebuilt => Compiles(bundles[activeId].content, Materialised(fetched))]_vars
    BY RebuiltServes
<1> QED
    BY <1>1, <1>2, CourseInvStep, StoreInductive, BundlesHold, PTL
    DEF Spec, RebuildServesTree

-----------------------------------------------------------------------------
(* What an upload compiles.                                                *)

\* What select_upload_targets has picked of a batch, on the tree as it was.
Picked ==
    \/ MissingDeps(batch, owed) = {} /\ names = MibsOf(batch)
    \/ names \subseteq Ready(batch, owed)

\* The files of the batch are written, all of them, before it is compiled.
UploadInv ==
    /\ op \in {"analyse", "write"} => owed = files
    /\ op = "compile" => files = owed \cup batch
    /\ op \in {"write", "compile"} /\ online = "no" => Picked

LEMMA UploadInvStep == UploadInv /\ [Next]_vars => UploadInv'
<1> SUFFICES ASSUME UploadInv, [Next]_vars PROVE UploadInv'
    OBVIOUS
<1> USE DEF UploadInv, Picked
<1>1. ASSUME NEW new \in Batches, UploadBegins(new) PROVE UploadInv'
    BY <1>1 DEF UploadBegins
<1>2. CASE UploadAnalyses
    BY <1>2 DEF UploadAnalyses
<1>3. CASE UploadWrites
    BY <1>3 DEF UploadWrites
<1>4. CASE \/ UploadRefused \/ UploadWriteFails \/ UploadCompiles \/ UploadEnds
           \/ ReloadEnds \/ DeleteEnds \/ DeleteFails \/ PersistFails \/ RefetchEnds
    BY <1>4 DEF UploadRefused, UploadWriteFails, UploadCompiles, UploadEnds, ReloadEnds,
                DeleteEnds, DeleteFails, PersistFails, RefetchEnds, EndWith
<1>5. CASE Reload \/ FetchEnds
    BY <1>5 DEF Reload, FetchEnds, ReloadAfterFetch, EndWith
<1>6. ASSUME NEW gone \in (SUBSET files) \ {{}}, Delete(gone) PROVE UploadInv'
    BY <1>6 DEF Delete
<1>7. ASSUME NEW deps \in SUBSET Mibs, Fetch(deps) \/ FetchOffline(deps) PROVE UploadInv'
    BY <1>7 DEF Fetch, FetchOffline, ReloadAfterFetch, Free
<1>8. CASE JobGoesOn \/ StartUp
    BY <1>8 DEF JobGoesOn, StartUp, storeVars, opVars
<1>9. CASE ActivateBundle \/ Crash
    BY <1>9 DEF ActivateBundle, Free, Crash
<1>10. CASE UNCHANGED vars
    BY <1>10 DEF vars, opVars
<1> QED
    BY <1>1, <1>2, <1>3, <1>4, <1>5, <1>6, <1>7, <1>8, <1>9, <1>10 DEF Next, Operation

LEMMA UploadInductive == Spec => []UploadInv
<1>1. Init => UploadInv
    BY DEF Init, UploadInv
<1> QED
    BY <1>1, UploadInvStep, PTL DEF Spec

\* Only UploadCompiles begins the compile of an upload.
LEMMA OnlyUploadCompiles ==
    ASSUME StoreInv, [Next]_vars, op = "compile", op' = "upload"
    PROVE  UploadCompiles
<1>1. phase = "up"
    BY DEF StoreInv, Running
<1> QED
    BY <1>1, BootPhase
    DEF Next, Operation, UploadBegins, UploadAnalyses, UploadRefused, UploadWrites,
        UploadWriteFails, UploadEnds, Reload, ReloadEnds, Delete, DeleteEnds, DeleteFails,
        PersistFails, Fetch, FetchOffline, FetchEnds, RefetchEnds, JobGoesOn,
        ActivateBundle, StartUp, Crash, Free, EndWith, storeVars, opVars, vars

\* The inventory an upload compiles with is that of the tree.
LEMMA UploadReadsTree ==
    ASSUME CacheInv, UploadCompiles
    PROVE  /\ Inventory = files /\ cache' = files
           /\ StartCompile(names, files, files, "yes")
    BY DEF CacheInv, UploadCompiles, Inventory

\* What MibReaders shows to fail next to status threads holds without them: the
\* directories an upload compiles from include those it has just written to.
THEOREM UploadsAloneFindTheirFiles ==
    ASSUME Readers = {}
    PROVE  ReaderSpec => UploadFindsItsFiles
<1>1. ReaderInit => Init
    BY DEF ReaderInit
<1>2. [ReaderNext]_readerVars => [Next]_vars
    BY DEF ReaderNext, Renewed, SameInstance, readerVars, Next, Operation
<1>3. ASSUME StoreInv, CacheInv, UploadInv, [Next]_vars, op = "compile", op' = "upload"
      PROVE  GroupsOf(batch) \subseteq GroupsOf(cache')
    <2>1. UploadCompiles
        BY <1>3, OnlyUploadCompiles
    <2>2. cache' = files /\ batch \subseteq files
        BY <1>3, <2>1, UploadReadsTree DEF UploadInv
    <2> QED
        BY <2>2 DEF GroupsOf
<1>4. StoreInv /\ CacheInv /\ UploadInv /\ [ReaderNext]_readerVars
          => [op = "compile" /\ op' = "upload"
                 => GroupsOf(batch) \subseteq GroupsOf(cache')]_readerVars
    BY <1>2, <1>3
<1>5. Init => CacheInv
    BY DEF Init, CacheInv, InventoryFresh
<1> QED
    BY <1>1, <1>2, <1>4, <1>5, CacheInvStep, StoreInductive, UploadInductive, PTL
    DEF ReaderSpec, Spec, UploadFindsItsFiles
-----------------------------------------------------------------------------
(* What an upload fetches.                                                 *)

\* The modules stored in S import only each other.
SelfContained(S) == \A m \in MibsOf(S) : Imports[m] \subseteq MibsOf(S)

\* What is ready has its imports among what is stored and what is ready.
LEMMA ReadyImports ==
    ASSUME NEW new, NEW stored, NEW i \in Ready(new, stored)
    PROVE  Imports[i] \subseteq MibsOf(stored) \cup Ready(new, stored)
<1> DEFINE M == MibsOf(new)
           stable == MibsOf(stored) \ M
           Settles(S) == \A j \in M : Imports[j] \subseteq stable \cup S => j \in S
           R == Ready(new, stored)
<1>1. R = {m \in M : \A S \in SUBSET M : Settles(S) => m \in S}
    BY DEF Ready
<1>2. \A S \in SUBSET M : Settles(S) => R \subseteq S
    BY <1>1
<1> HIDE DEF R
<1>3. \A j \in M : Imports[j] \subseteq stable \cup R => j \in R
    <2> SUFFICES ASSUME NEW j \in M, Imports[j] \subseteq stable \cup R,
                        NEW S \in SUBSET M, Settles(S)
                 PROVE  j \in S
        BY <1>1
    <2>1. Imports[j] \subseteq stable \cup S
        BY <1>2
    <2> QED
        BY <2>1
<1>4. Imports[i] \subseteq stable \cup R
    <2> SUFFICES ASSUME ~(Imports[i] \subseteq stable \cup R) PROVE FALSE
        OBVIOUS
    <2>1. Settles(R \ {i})
        BY <1>3
    <2>2. R \ {i} \in SUBSET M
        BY <1>1
    <2>3. i \in R
        BY DEF R
    <2> QED
        BY <1>2, <2>1, <2>2, <2>3
<1> QED
    BY <1>4 DEF R

LEMMA ClosureWithin ==
    ASSUME NEW M, NEW S, M \subseteq S, S \subseteq Mibs, \A i \in S : Imports[i] \subseteq S
    PROVE  Closure[M] \subseteq S
    BY DEF Closure

\* A selection from a batch is complete without what is neither stored nor in
\* the batch.
LEMMA PickedIsComplete ==
    ASSUME StoreType, SelfContained(owed), Picked
    PROVE  Closure[names] \subseteq MibsOf(owed \cup batch)
<1>1. MibsOf(owed \cup batch) = MibsOf(owed) \cup MibsOf(batch)
    BY DEF MibsOf
<1>2. MibsOf(owed) \subseteq Mibs /\ MibsOf(batch) \subseteq Mibs
    BY MibsOfFiles DEF StoreType
<1>3. CASE MissingDeps(batch, owed) = {} /\ names = MibsOf(batch)
    <2>1. \A m \in MibsOf(batch) : Imports[m] \subseteq MibsOf(owed \cup batch)
        BY <1>3 DEF MissingDeps
    <2>2. \A m \in MibsOf(owed \cup batch) : Imports[m] \subseteq MibsOf(owed \cup batch)
        BY <1>1, <2>1 DEF SelfContained
    <2> QED
        BY <1>1, <1>2, <1>3, <2>2, ClosureWithin
<1>4. CASE names \subseteq Ready(batch, owed)
    <2> DEFINE kept == MibsOf(owed) \cup Ready(batch, owed)
    <2>1. Ready(batch, owed) \subseteq MibsOf(batch)
        BY DEF Ready
    <2>2. \A m \in kept : Imports[m] \subseteq kept
        BY ReadyImports DEF SelfContained
    <2>3. names \subseteq kept /\ kept \subseteq Mibs /\ kept \subseteq MibsOf(owed \cup batch)
        BY <1>1, <1>2, <1>4, <2>1
    <2> HIDE DEF kept
    <2>4. Closure[names] \subseteq kept
        BY <2>2, <2>3, ClosureWithin
    <2> QED
        BY <2>3, <2>4
<1> QED
    BY <1>3, <1>4 DEF Picked

\* An upload that may not go to a remote source need not: if the tree it found
\* lacked nothing, neither a full upload that was let through nor any choice
\* among the modules a partial upload calls ready lacks anything.
OfflineFetchesNothing ==
    [][op = "compile" /\ op' = "upload" /\ online = "no" /\ SelfContained(owed)
          => fetched' = {}]_vars

\* mib_mutations.py, analyze_upload_batch: what it calls ready, and when it says
\* that nothing is missing, is right about everything the compile will need, for
\* any imports and batches, although it looks at direct imports only.
THEOREM OfflineUploadsAreComplete == Spec => OfflineFetchesNothing
<1>1. ASSUME StoreInv, CacheInv, UploadInv, [Next]_vars,
             op = "compile", op' = "upload", online = "no", SelfContained(owed)
      PROVE  fetched' = {}
    <2>1. UploadCompiles
        BY <1>1, OnlyUploadCompiles
    <2>2. fetched' = Missing(names, files, files)
        BY <1>1, <2>1, UploadReadsTree, StartCompileIs
    <2>3. files \subseteq Files /\ names \subseteq Mibs
        BY <1>1 DEF StoreInv, StoreType
    <2>4. fetched' = Closure[names] \ MibsOf(files)
        BY <2>2, <2>3, CompileTakes DEF Needed
    <2>5. Closure[names] \subseteq MibsOf(owed \cup batch) /\ files = owed \cup batch
        BY <1>1, PickedIsComplete DEF StoreInv, UploadInv
    <2> QED
        BY <2>4, <2>5
<1>2. StoreInv /\ CacheInv /\ UploadInv /\ [Next]_vars
          => [op = "compile" /\ op' = "upload" /\ online = "no" /\ SelfContained(owed)
                 => fetched' = {}]_vars
    BY <1>1
<1>3. Init => CacheInv
    BY DEF Init, CacheInv, InventoryFresh
<1> QED
    BY <1>2, <1>3, CacheInvStep, StoreInductive, UploadInductive, PTL
    DEF Spec, OfflineFetchesNothing

-----------------------------------------------------------------------------
(* What an upload serves.                                                  *)

\* The job of an upload makes a bundle of what it compiles, and activates it.
UploadCourse == op = "upload" => OnCourse(Of(Closure[names], Materialised(fetched)))

LEMMA UploadSetsCourse ==
    ASSUME StoreInv, CacheInv, UploadCompiles
    PROVE  UploadCourse'
<1>1. files \subseteq Files /\ names \subseteq Mibs
    BY DEF StoreInv, StoreType
<1>2. /\ B!BeginCompile(Content(names, files, files), "no", "yes")
      /\ fetched' = Missing(names, files, files)
    BY UploadReadsTree, StartCompileIs
<1>3. UNCHANGED <<files, names>>
    BY DEF UploadCompiles
<1>4. fetched' \ MibsOf(files) = Missing(names, files, files)
    BY <1>1, <1>2, CompileTakes
<1>5. Materialised(fetched)' = files \cup {<<"auto", m>> : m \in Missing(names, files, files)}
    BY <1>3, <1>4 DEF Materialised
<1>6. Compiles(Content(names, files, files), Of(Closure[names], Materialised(fetched))')
    BY <1>1, <1>3, <1>5, CompileTakes DEF Needed
<1>7. /\ step' = "compiling"
      /\ job' = [content |-> Content(names, files, files), starter |-> "no", activate |-> "yes"]
    BY <1>2 DEF B!BeginCompile, B!Begin
<1> QED
    BY <1>6, <1>7 DEF UploadCourse, OnCourse, Compiles

LEMMA UploadCourseStep ==
    StoreInv /\ BundlesAreRight /\ CacheInv /\ UploadCourse /\ [Next]_vars => UploadCourse'
<1> SUFFICES ASSUME StoreInv, BundlesAreRight, CacheInv, UploadCourse, [Next]_vars, op' = "upload"
             PROVE  UploadCourse'
    BY DEF UploadCourse
<1>1. CASE UploadCompiles
    BY <1>1, UploadSetsCourse
<1>2. CASE JobGoesOn
    <2>1. B!JobStep /\ UNCHANGED <<op, files, names, fetched>>
        BY <1>2 DEF JobGoesOn, storeVars, opVars
    <2>2. PICK tree : tree = Of(Closure[names], Materialised(fetched))
        OBVIOUS
    <2>3. Of(Closure[names], Materialised(fetched))' = tree
        BY <2>1, <2>2 DEF Materialised, Of
    <2>4. OnCourse(tree) => OnCourse(tree)'
        BY <2>1, JobStaysOnCourse
    <2> QED
        BY <2>1, <2>2, <2>3, <2>4 DEF UploadCourse, OnCourse
<1>3. CASE UNCHANGED vars
    BY <1>3 DEF vars, bundleVars, opVars, UploadCourse, OnCourse, Compiles, Materialised, Of
<1>4. phase = "up" \/ op = "none"
    BY DEF StoreInv, Running
<1> QED
    BY <1>1, <1>2, <1>3, <1>4, BootPhase
    DEF Next, Operation, UploadBegins, UploadAnalyses, UploadRefused, UploadWrites,
        UploadWriteFails, UploadEnds, Reload, ReloadEnds, Delete, DeleteEnds, DeleteFails,
        PersistFails, Fetch, FetchOffline, FetchEnds, ReloadAfterFetch, RefetchEnds,
        ActivateBundle, StartUp, Crash, Free, EndWith, storeVars, opVars

\* An upload that reports success leaves a bundle active that holds the modules
\* that were chosen from the batch and all they import, no others, each compiled
\* from the copy that comes first in the tree or, where there is none, fetched.
UploadServesChoice ==
    [][op = "upload" /\ result' = "uploaded"
          => Compiles(bundles[activeId].content, Of(Closure[names], Materialised(fetched)))]_vars

\* mib_mutations.py, upload: whatever is stored besides, whatever is fetched and
\* however many copies there are, the chosen modules are served when it answers.  (That the
\* others are not is what UploadKeepsAggregate finds.)
THEOREM UploadsServeTheirChoice == Spec => UploadServesChoice
<1>1. ASSUME StoreInv, UploadCourse, [Next]_vars, op = "upload", result' = "uploaded"
      PROVE  Compiles(bundles[activeId].content, Of(Closure[names], Materialised(fetched)))
    <2>1. phase = "up" /\ result = "none"
        BY <1>1 DEF StoreInv, Running
    <2>2. CASE UploadEnds
        BY <1>1, <2>2 DEF UploadEnds, JobOver, Persist, EndWith, UploadCourse, OnCourse
    <2>3. CASE ~UploadEnds
        BY <1>1, <2>1, <2>3, BootPhase
        DEF Next, Operation, UploadBegins, UploadAnalyses, UploadRefused, UploadWrites,
            UploadWriteFails, UploadCompiles, Reload, ReloadEnds, Delete, DeleteEnds,
            DeleteFails, PersistFails, Fetch, FetchOffline, FetchEnds, RefetchEnds,
            JobGoesOn, ActivateBundle, StartUp, Crash, Free, EndWith, storeVars, opVars, vars
    <2> QED
        BY <2>2, <2>3
<1>2. StoreInv /\ UploadCourse /\ [Next]_vars
          => [op = "upload" /\ result' = "uploaded"
                 => Compiles(bundles[activeId].content, Of(Closure[names], Materialised(fetched)))]_vars
    BY <1>1
<1>3. Init => CacheInv /\ UploadCourse
    BY DEF Init, CacheInv, InventoryFresh, UploadCourse
<1> QED
    BY <1>2, <1>3, CacheInvStep, UploadCourseStep, StoreInductive, BundlesHold, PTL
    DEF Spec, UploadServesChoice
-----------------------------------------------------------------------------
(* Next to status threads.  They may spoil an upload (UploadFindsItsFiles   *)
(* fails), but no more than that: a rebuild reads the tree itself.          *)

ReaderInv == StoreInv /\ seen \in [Readers -> (SUBSET Files) \cup {NoScan}]

\* What a thread does to the library.
OnlyCache ==
    /\ cache' \in (SUBSET Files) \cup {NoScan}
    /\ UNCHANGED <<bundleVars, files, opVars>>

LEMMA ReaderSteps == ReaderInv /\ [ReaderNext]_readerVars => [Next]_vars \/ OnlyCache
<1> SUFFICES ASSUME ReaderInv, [ReaderNext]_readerVars PROVE [Next]_vars \/ OnlyCache
    OBVIOUS
<1>1. ASSUME NEW r \in Readers, ReaderScans(r) PROVE UNCHANGED vars
    BY <1>1 DEF ReaderScans
<1>2. ASSUME NEW r \in Readers, ReaderStores(r) PROVE OnlyCache
    BY <1>2 DEF ReaderStores, OnlyCache, ReaderInv
<1>3. CASE Renewed \/ SameInstance
    BY <1>3 DEF Renewed, SameInstance, Next, Operation
<1>4. CASE UNCHANGED readerVars
    BY <1>4 DEF readerVars
<1> QED
    BY <1>1, <1>2, <1>3, <1>4 DEF ReaderNext

LEMMA ReaderInvStep == ReaderInv /\ [ReaderNext]_readerVars => ReaderInv'
<1> SUFFICES ASSUME ReaderInv, [ReaderNext]_readerVars PROVE ReaderInv'
    OBVIOUS
<1>1. OnlyCache => StoreInv'
    BY DEF OnlyCache, ReaderInv, StoreInv, StoreType, Running, bundleVars, opVars
<1>2. StoreInv'
    BY <1>1, ReaderSteps, StoreInvStep DEF ReaderInv
<1>3. seen' \in [Readers -> (SUBSET Files) \cup {NoScan}]
    BY DEF ReaderInv, StoreInv, StoreType, ReaderNext, ReaderScans, ReaderStores, Renewed,
           SameInstance, NothingSeen, readerVars
<1> QED
    BY <1>2, <1>3 DEF ReaderInv

LEMMA ReaderInductive == ReaderSpec => []ReaderInv
<1>1. ReaderInit => ReaderInv
    BY DEF ReaderInit, NothingSeen, ReaderInv, StoreInv, StoreType, Running, Init,
           Ops, Results
<1> QED
    BY <1>1, ReaderInvStep, PTL DEF ReaderSpec

\* The bundles are driven as before.
LEMMA ReadersUseBundles == ReaderSpec => []BundlesAreRight
<1>1. ReaderInit => BP!Init
    BY SameBundleStates DEF ReaderInit, Init
<1>2. ReaderInv /\ [ReaderNext]_readerVars => [BP!Next]_(BP!vars)
    <2>1. OnlyCache => UNCHANGED BP!vars
        BY DEF OnlyCache, bundleVars, BP!vars, BP!bundleVars, BP!pointerVars, BP!jobVars
    <2> QED
        BY <2>1, ReaderSteps, LibrarySteps DEF ReaderInv
<1>3. BP!Spec => []BP!IInv
    BY BP!Inductive, RunsAssumption
<1>4. BP!IInv => BundlesAreRight
    BY SameBundleStates DEF BundlesAreRight
<1> QED
    BY <1>1, <1>2, <1>3, <1>4, ReaderInductive, PTL DEF ReaderSpec, BP!Spec

\* Whatever threads of GET /mibs/status scan and store while an operation runs,
\* it keeps the sources that it must keep.
THEOREM SourcesAreKeptNextToReaders == ReaderSpec => []NoSourceLost
<1>1. ReaderInit => SourceInv
    BY DEF ReaderInit, Init, SourceInv, Owing, NoSourceLost
<1>2. SourceInv /\ OnlyCache => SourceInv'
    BY DEF SourceInv, Owing, NoSourceLost, OnlyCache, opVars
<1>3. ReaderInv /\ SourceInv /\ [ReaderNext]_readerVars => SourceInv'
    BY <1>2, ReaderSteps, SourceInvStep DEF ReaderInv
<1>4. SourceInv => NoSourceLost
    BY DEF SourceInv
<1> QED
    BY <1>1, <1>3, <1>4, ReaderInductive, PTL DEF ReaderSpec

\* And a rebuild that reports success has compiled what is stored, not what a
\* thread has left in the cache.
THEOREM RebuildServesNextToReaders == ReaderSpec => RebuildServesTree
<1>1. ReaderInit => CourseInv
    BY DEF ReaderInit, Init, B!Init, B!Ids, CourseInv, StarterRows, Rebuilds
<1>2. CourseInv /\ OnlyCache => CourseInv'
    BY DEF CourseInv, StarterRows, OnCourse, Compiles, Materialised, OnlyCache,
           bundleVars, opVars, B!Ids
<1>3. ReaderInv /\ BundlesAreRight /\ CourseInv /\ [ReaderNext]_readerVars => CourseInv'
    BY <1>2, ReaderSteps, CourseInvStep DEF ReaderInv
<1>4. OnlyCache => ~Rebuilt \/ result \in {"reloaded", "deleted", "fetched"}
    BY DEF OnlyCache, Rebuilt, opVars
<1>5. ReaderInv => ~(op \in Rebuilds /\ result \in {"reloaded", "deleted", "fetched"})
    BY DEF ReaderInv, StoreInv, Running, Rebuilds
<1>6. ReaderInv /\ CourseInv /\ [ReaderNext]_readerVars
          => [Rebuilt => Compiles(bundles[activeId].content, Materialised(fetched))]_vars
    BY <1>4, <1>5, ReaderSteps, RebuiltServes DEF ReaderInv, Rebuilt, Rebuilds
<1> QED
    BY <1>1, <1>3, <1>6, ReaderInductive, ReadersUseBundles, PTL
    DEF ReaderSpec, RebuildServesTree

-----------------------------------------------------------------------------
(* Why every operation ends.                                               *)

\* How many steps an operation is from its answer, at most: four for the job
\* it is waiting for, and so many for each one still to come.
StagesAhead == [none |-> 0, upload |-> 1, reload |-> 1, delete |-> 1, refetch |-> 1,
                fetch |-> 2, compile |-> 2, write |-> 3, analyse |-> 4]
JobAhead == [idle |-> 0, committed |-> 1, activating |-> 2, compiling |-> 3]

OperationLeft == 4 * StagesAhead[op] + JobAhead[step]

LEMMA JobAdvances ==
    ASSUME BundlesAreRight, B!JobStep
    PROVE  /\ step' \in {"idle", "activating", "committed"}
           /\ JobAhead[step'] < JobAhead[step]
<1>1. CASE B!CompileFails \/ B!CompileRaises \/ B!ActivateFails \/ B!SetBundle
    BY <1>1 DEF B!CompileFails, B!CompileRaises, B!ActivateFails, B!SetBundle, B!Ended, JobAhead
<1>2. CASE B!CompileSucceeds
    BY <1>2 DEF B!CompileSucceeds, B!Compiled, B!Ended, JobAhead
<1>3. CASE B!ActivateCommits
    BY <1>3 DEF B!ActivateCommits, JobAhead
<1> QED
    BY <1>1, <1>2, <1>3 DEF B!JobStep

LEMMA CompileIsIdle ==
    ASSUME NEW M, NEW S, NEW inv, NEW activate, StartCompile(M, S, inv, activate)
    PROVE  step = "idle" /\ step' = "compiling"
    BY StartCompileIs DEF B!BeginCompile, B!Begin, B!Idle

LEMMA RebuildIsIdle ==
    ASSUME NEW S, Rebuild(S)
    PROVE  step = "idle" /\ step' \in {"compiling", "activating"}
    BY CompileIsIdle DEF Rebuild, B!BeginCompile, B!Begin, B!Idle

\* While an operation is in progress every step is one of its own, or of the job
\* it began, and brings it closer to its answer; or the process ends.
OperationGetsOn == [][op # "none" => op' = "none" \/ OperationLeft' < OperationLeft]_vars

\* mib_mutations.py: no operation goes round in circles, not even a fetch with
\* its reload, and nothing gets in between; a job of its own included, it takes
\* at most nineteen steps.
THEOREM OperationsAdvance == Spec => OperationGetsOn
<1>1. ASSUME StoreInv, BundlesAreRight, Next, op # "none", op' # "none"
      PROVE  OperationLeft' < OperationLeft
    <2>1. phase = "up"
        BY <1>1 DEF StoreInv, Running
    <2>2. step \in {"idle", "compiling", "activating", "committed"}
        BY <1>1 DEF BundlesAreRight, B!TypeOK, B!Steps
    <2> USE DEF OperationLeft, StagesAhead, JobAhead
    <2>3. CASE UploadAnalyses \/ UploadWrites
        BY <2>2, <2>3 DEF UploadAnalyses, UploadWrites, bundleVars
    <2>4. CASE UploadCompiles
        BY <2>2, <2>4, CompileIsIdle DEF UploadCompiles
    <2>5. CASE FetchEnds
        <3>1. PICK came \in SUBSET (names \cup fetched) : ReloadAfterFetch(came)
            BY <1>1, <2>5 DEF FetchEnds, EndWith
        <3>2. step = "idle" /\ step' \in {"compiling", "activating"} /\ op' = "refetch"
            BY <3>1, RebuildIsIdle DEF ReloadAfterFetch
        <3> QED
            BY <2>5, <3>2 DEF FetchEnds
    <2>6. CASE JobGoesOn
        <3>1. /\ step' \in {"idle", "activating", "committed"}
              /\ JobAhead[step'] < JobAhead[step] /\ op' = op
            BY <1>1, <2>6, JobAdvances DEF JobGoesOn, storeVars, opVars
        <3>2. StagesAhead[op] \in Nat
            BY <1>1 DEF StoreInv, StoreType, Ops
        <3>3. JobAhead[step] \in Nat /\ JobAhead[step'] \in Nat
            BY <2>2, <3>1
        <3> HIDE DEF StagesAhead, JobAhead
        <3> QED
            BY <3>1, <3>2, <3>3
    <2> QED
        BY <1>1, <2>1, <2>3, <2>4, <2>5, <2>6, BootPhase
        DEF Next, Operation, UploadBegins, UploadRefused, UploadWriteFails, UploadEnds,
            Reload, ReloadEnds, Delete, DeleteEnds, DeleteFails, PersistFails, Fetch,
            FetchOffline, RefetchEnds, ActivateBundle, StartUp, Crash, Free, EndWith
<1>2. StoreInv /\ BundlesAreRight /\ [Next]_vars
          => [op # "none" => op' = "none" \/ OperationLeft' < OperationLeft]_vars
    BY <1>1
<1> QED
    BY <1>2, StoreInductive, BundlesHold, PTL DEF Spec, OperationGetsOn
=============================================================================
