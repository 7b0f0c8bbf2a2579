---------------------------- MODULE BundlesProofs ----------------------------
(***************************************************************************)
(* Bundles for any number of bundles, compile runs and contents: the two   *)
(* copies of the active pointer agree, memory serves the active bundle,    *)
(* failures change nothing, and activation implements CatalogSwitch.       *)
(***************************************************************************)
EXTENDS Bundles, SequenceTheorems, TLAPS

\* What the three row updates do to a table.
LEMMA BeginRows ==
    ASSUME TypeOK, runs' = Append(runs, Running), bundles' = bundles
    PROVE  /\ runs' \in Seq(RunRow)
           /\ Len(runs') = Len(runs) + 1
           /\ runs'[Len(runs')] = Running
           /\ \A r \in 1 .. Len(runs) : runs'[r] = runs[r]
<1>1. Running \in RunRow
    BY DEF Running, RunRow
<1> QED
    BY <1>1, AppendProperties DEF TypeOK

LEMMA FailedRow ==
    ASSUME TypeOK, JobShape, step = "compiling",
           runs' = [runs EXCEPT ![Len(runs)].status = "failed"]
    PROVE  /\ runs' \in Seq(RunRow)
           /\ Len(runs') = Len(runs)
           /\ runs'[Len(runs)] = [status |-> "failed", bundle |-> 0]
           /\ \A r \in 1 .. Len(runs) : r # Len(runs) => runs'[r] = runs[r]
<1> DEFINE row == [status |-> "failed", bundle |-> 0]
<1>1. runs \in Seq(RunRow) /\ Len(runs) \in 1 .. Len(runs) /\ runs[Len(runs)] = Running
    BY LenProperties DEF TypeOK, JobShape
<1>2. row \in RunRow
    BY DEF RunRow
<1>3. runs' = [runs EXCEPT ![Len(runs)] = row]
    <2>1. [runs[Len(runs)] EXCEPT !.status = "failed"] = row
        BY <1>1 DEF Running
    <2> HIDE DEF row
    <2> QED
        BY <2>1
<1> HIDE DEF row
<1>4. /\ runs' \in Seq(RunRow)
      /\ Len(runs') = Len(runs)
      /\ \A r \in 1 .. Len(runs) : runs'[r] = IF r = Len(runs) THEN row ELSE runs[r]
    BY <1>1, <1>2, <1>3, ExceptSeq
<1> QED
    BY <1>1, <1>4 DEF row

LEMMA SucceededRow ==
    ASSUME TypeOK, JobShape, step = "compiling", CompileSucceeds
    PROVE  /\ runs' \in Seq(RunRow)
           /\ Len(runs') = Len(runs)
           /\ runs'[Len(runs)] = [status |-> "succeeded", bundle |-> Len(bundles) + 1]
           /\ \A r \in 1 .. Len(runs) : r # Len(runs) => runs'[r] = runs[r]
           /\ bundles' \in Seq(BundleRow)
           /\ Len(bundles') = Len(bundles) + 1
<1> DEFINE row == [status |-> "succeeded", bundle |-> Len(bundles) + 1]
           new == [content |-> job.content, starter |-> job.starter]
<1>1. runs \in Seq(RunRow) /\ Len(runs) \in 1 .. Len(runs)
    BY LenProperties DEF TypeOK, JobShape
<1>2. row \in RunRow /\ Len(bundles) \in Nat
    BY LenProperties DEF RunRow, TypeOK
<1>3. new \in BundleRow
    BY DEF BundleRow, TypeOK
<1>4. runs' = [runs EXCEPT ![Len(runs)] = row] /\ bundles' = Append(bundles, new)
    BY DEF CompileSucceeds
<1>5. bundles \in Seq(BundleRow)
    BY DEF TypeOK
<1> HIDE DEF row, new
<1>6. /\ runs' \in Seq(RunRow)
      /\ Len(runs') = Len(runs)
      /\ \A r \in 1 .. Len(runs) : runs'[r] = IF r = Len(runs) THEN row ELSE runs[r]
    BY <1>1, <1>2, <1>4, ExceptSeq
<1>7. bundles' \in Seq(BundleRow) /\ Len(bundles') = Len(bundles) + 1
    BY <1>3, <1>4, <1>5, AppendProperties
<1> QED
    BY <1>1, <1>6, <1>7 DEF row

\* The effective bundle is the active one; without one it exists or is 0.
LEMMA EffectiveIsActive ==
    ASSUME TypeOK, FlagIsPointer
    PROVE  /\ Effective \in Ids \cup {0}
           /\ activeId # 0 => Effective = activeId
<1>1. Len(bundles) \in Nat
    BY LenProperties DEF TypeOK
<1>2. CASE activeId # 0
    BY <1>1, <1>2 DEF Effective, Latest, IsLatest, FlagIsPointer, TypeOK, Ids
<1>3. CASE activeId = 0
    <2>1. flags = {}
        BY <1>3 DEF FlagIsPointer
    <2>2. CASE Ids = {}
        BY <2>1, <2>2, <1>3 DEF Effective
    <2>3. CASE Ids # {}
        <3>1. Len(bundles) \in Ids /\ IsLatest(Len(bundles), Ids)
            BY <1>1, <2>3 DEF Ids, IsLatest
        <3>2. Latest(Ids) \in Ids
            BY <3>1 DEF Latest
        <3> QED
            BY <2>1, <2>3, <3>2, <1>3 DEF Effective
    <2> QED
        BY <2>2, <2>3
<1> QED
    BY <1>2, <1>3

LEMMA InvInit == Init => IInv
<1> SUFFICES ASSUME Init PROVE IInv
    OBVIOUS
<1>1. TypeOK
    BY ContentsAssumption
    DEF Init, TypeOK, Ids, BundleRow, RunRow, NoJob, YesNo, Steps, Outcomes, Phases
<1> QED
    BY <1>1 DEF Init, IInv, FlagIsPointer, JobShape, MemoryShape,
                FailureChangesNothing, BundlesComeFromRuns, Ids

\* Steps that begin a job.
LEMMA BeginCompileInv ==
    ASSUME IInv, NEW c \in Contents, NEW s \in YesNo, NEW a \in YesNo,
           BeginCompile(c, s, a), phase \in {"boot", "up"}, UNCHANGED phase
    PROVE  IInv'
<1> USE DEF IInv
<1>1. /\ runs' \in Seq(RunRow)
      /\ Len(runs') = Len(runs) + 1
      /\ runs'[Len(runs')] = Running
      /\ \A r \in 1 .. Len(runs) : runs'[r] = runs[r]
    BY BeginRows DEF BeginCompile
<1>2. Len(runs) \in Nat /\ Len(bundles) \in Nat
    BY LenProperties DEF TypeOK
<1>3. TypeOK'
    <2>1. before' \in Nat \X Nat
        BY <1>2 DEF TypeOK, Ids, BeginCompile, Begin
    <2> QED
        BY <1>1, <2>1 DEF TypeOK, Ids, BeginCompile, Begin, pointerVars, Steps, Outcomes
<1>4. JobShape'
    BY <1>1, <1>2 DEF TypeOK, JobShape, BeginCompile, Begin, pointerVars, Ids
<1>5. FlagIsPointer' /\ MemoryShape' /\ FailureChangesNothing'
    BY DEF FlagIsPointer, MemoryShape, FailureChangesNothing, BeginCompile, Begin,
           pointerVars, Idle
<1>6. BundlesComeFromRuns'
    BY <1>1, <1>2 DEF BundlesComeFromRuns, BeginCompile, Ids, Running
<1> QED
    BY <1>3, <1>4, <1>5, <1>6

LEMMA BeginActivateInv ==
    ASSUME IInv, NEW b \in Ids, Begin("activating", NoJob, b),
           UNCHANGED <<bundleVars, pointerVars, mem, phase>>, phase \in {"boot", "up"}
    PROVE  IInv'
<1> USE DEF IInv, bundleVars, pointerVars
<1>1. Len(bundles) \in Nat
    BY LenProperties DEF TypeOK
<1>2. TypeOK'
    <2>1. before' \in Nat \X Nat
        BY <1>1 DEF TypeOK, Ids, Begin
    <2>2. NoJob \in [content : Contents, starter : YesNo, activate : YesNo]
        BY ContentsAssumption DEF NoJob, YesNo
    <2> QED
        BY <2>1, <2>2 DEF TypeOK, Ids, Begin, Steps, Outcomes
<1>3. JobShape'
    BY DEF JobShape, Begin, Ids
<1>4. FlagIsPointer' /\ MemoryShape' /\ FailureChangesNothing'
    BY DEF FlagIsPointer, MemoryShape, FailureChangesNothing, Begin, Idle
<1>5. BundlesComeFromRuns'
    BY DEF BundlesComeFromRuns, Ids
<1> QED
    BY <1>2, <1>3, <1>4, <1>5

\* Steps that carry a job on.
LEMMA CompileFailsInv == ASSUME IInv, CompileFails PROVE IInv'
<1> USE DEF IInv, CompileFails, Ended, pointerVars
<1>1. /\ runs' \in Seq(RunRow)
      /\ Len(runs') = Len(runs)
      /\ runs'[Len(runs)] = [status |-> "failed", bundle |-> 0]
      /\ \A r \in 1 .. Len(runs) : r # Len(runs) => runs'[r] = runs[r]
    BY FailedRow
<1>2. Len(runs) \in Nat /\ Len(bundles) \in Nat
    BY LenProperties DEF TypeOK
<1>3. TypeOK'
    <2>1. NoJob \in [content : Contents, starter : YesNo, activate : YesNo]
        BY ContentsAssumption DEF NoJob, YesNo
    <2> QED
        BY <1>1, <2>1 DEF TypeOK, Ids, Steps, Outcomes
<1>4. FlagIsPointer' /\ JobShape' /\ MemoryShape' /\ FailureChangesNothing'
    BY DEF FlagIsPointer, JobShape, MemoryShape, FailureChangesNothing, Ids
<1>5. BundlesComeFromRuns'
    <2>1. runs[Len(runs)] = Running
        BY DEF JobShape
    <2> QED
        BY <1>1, <1>2, <2>1 DEF BundlesComeFromRuns, Ids, Running
<1> QED
    BY <1>3, <1>4, <1>5

LEMMA CompileSucceedsInv == ASSUME IInv, CompileSucceeds PROVE IInv'
<1> USE DEF IInv
<1>0. step = "compiling"
    BY DEF CompileSucceeds
<1>1. /\ runs' \in Seq(RunRow)
      /\ Len(runs') = Len(runs)
      /\ runs'[Len(runs)] = [status |-> "succeeded", bundle |-> Len(bundles) + 1]
      /\ \A r \in 1 .. Len(runs) : r # Len(runs) => runs'[r] = runs[r]
      /\ bundles' \in Seq(BundleRow)
      /\ Len(bundles') = Len(bundles) + 1
    BY <1>0, SucceededRow
<1>2. Len(runs) \in Nat /\ Len(bundles) \in Nat
    BY LenProperties DEF TypeOK
<1>3. /\ UNCHANGED <<flags, activeId, prevId, mem, phase, before>>
      /\ \/ step' = "activating" /\ target' = Len(bundles) + 1 /\ UNCHANGED <<job, outcome>>
         \/ step' = "idle" /\ target' = 0 /\ job' = NoJob /\ outcome' = "done"
    BY DEF CompileSucceeds, Compiled, Ended, pointerVars
<1>4. TypeOK'
    <2>1. NoJob \in [content : Contents, starter : YesNo, activate : YesNo]
        BY ContentsAssumption DEF NoJob, YesNo
    <2>2. /\ job' \in [content : Contents, starter : YesNo, activate : YesNo]
          /\ step' \in Steps /\ outcome' \in Outcomes
        BY <1>3, <2>1 DEF TypeOK, Steps, Outcomes
    <2>3. target' \in Ids' \cup {0} /\ Ids \subseteq Ids'
        BY <1>1, <1>2, <1>3 DEF Ids
    <2> QED
        BY <1>1, <1>3, <2>2, <2>3 DEF TypeOK
<1>5. FlagIsPointer' /\ MemoryShape' /\ FailureChangesNothing'
    BY <1>0, <1>3 DEF FlagIsPointer, JobShape, MemoryShape, FailureChangesNothing
<1>6. JobShape'
    BY <1>0, <1>1, <1>2, <1>3 DEF JobShape, Ids
<1>7. BundlesComeFromRuns'
    <2>1. runs[Len(runs)] = Running /\ Len(runs) \in 1 .. Len(runs)
        BY <1>0, <1>2 DEF JobShape
    <2>2. \A r \in 1 .. Len(runs) : runs[r].bundle \in Ids \cup {0}
        BY DEF BundlesComeFromRuns
    <2>3. \A b \in Ids' : \E r \in 1 .. Len(runs') :
             runs'[r] = [status |-> "succeeded", bundle |-> b]
        <3> SUFFICES ASSUME NEW b \in Ids'
                     PROVE  \E r \in 1 .. Len(runs') :
                               runs'[r] = [status |-> "succeeded", bundle |-> b]
            OBVIOUS
        <3>1. CASE b = Len(bundles) + 1
            BY <1>1, <2>1, <3>1
        <3>2. CASE b \in Ids
            <4>1. PICK r \in 1 .. Len(runs) :
                     runs[r] = [status |-> "succeeded", bundle |-> b]
                BY <3>2 DEF BundlesComeFromRuns
            <4>2. r # Len(runs)
                BY <2>1, <4>1 DEF Running
            <4> QED
                BY <1>1, <4>1, <4>2
        <3> QED
            BY <1>1, <1>2, <3>1, <3>2 DEF Ids
    <2>4. \A r \in 1 .. Len(runs') :
             runs'[r].bundle \in IF runs'[r].status = "succeeded" THEN Ids' ELSE {0}
        BY <1>1, <1>2, <2>1 DEF BundlesComeFromRuns, Ids
    <2>5. \A r, q \in 1 .. Len(runs') :
             runs'[q].bundle = runs'[r].bundle /\ runs'[r].bundle # 0 => q = r
        BY <1>1, <1>2, <2>1, <2>2 DEF BundlesComeFromRuns, Ids
    <2> QED
        BY <2>3, <2>4, <2>5 DEF BundlesComeFromRuns
<1> QED
    BY <1>4, <1>5, <1>6, <1>7

\* The remaining steps leave both tables alone.
LEMMA RowsKept ==
    ASSUME IInv, UNCHANGED bundleVars
    PROVE  BundlesComeFromRuns' /\ Ids' = Ids
BY DEF IInv, BundlesComeFromRuns, bundleVars, Ids

LEMMA JobEndsInv ==
    ASSUME IInv, CompileRaises \/ ActivateFails \/ SetBundle
    PROVE  IInv'
<1> USE DEF IInv, CompileRaises, ActivateFails, SetBundle, Ended, pointerVars
<1>1. BundlesComeFromRuns' /\ Ids' = Ids
    BY RowsKept
<1>2. NoJob \in [content : Contents, starter : YesNo, activate : YesNo]
    BY ContentsAssumption DEF NoJob, YesNo
<1>3. TypeOK'
    BY <1>1, <1>2 DEF TypeOK, bundleVars, Steps, Outcomes
<1>4. FlagIsPointer' /\ JobShape' /\ MemoryShape' /\ FailureChangesNothing'
    BY <1>1 DEF FlagIsPointer, JobShape, MemoryShape, FailureChangesNothing
<1> QED
    BY <1>1, <1>3, <1>4

LEMMA ActivateCommitsInv == ASSUME IInv, ActivateCommits PROVE IInv'
<1> USE DEF IInv, ActivateCommits
<1>1. BundlesComeFromRuns' /\ Ids' = Ids
    BY RowsKept
<1>2. Len(bundles) \in Nat
    BY LenProperties DEF TypeOK
<1>3. TypeOK'
    BY <1>1 DEF TypeOK, JobShape, bundleVars, Steps
<1>4. FlagIsPointer' /\ JobShape' /\ MemoryShape' /\ FailureChangesNothing'
    BY <1>1, <1>2 DEF FlagIsPointer, JobShape, MemoryShape, FailureChangesNothing, Ids
<1> QED
    BY <1>1, <1>3, <1>4

\* Steps of the process that are no job steps.
LEMMA ProcessInv ==
    ASSUME IInv, Boot \/ BootSkips \/ BootGoesOn \/ BootLoads \/ Crash
    PROVE  IInv'
<1> USE DEF IInv
<1>0. UNCHANGED <<bundleVars, pointerVars>>
    BY DEF Boot, BootSkips, BootGoesOn, BootLoads, Crash
<1>1. BundlesComeFromRuns' /\ Ids' = Ids
    BY <1>0, RowsKept
<1>2. NoJob \in [content : Contents, starter : YesNo, activate : YesNo]
    BY ContentsAssumption DEF NoJob, YesNo
<1>3. CASE Boot \/ BootSkips \/ BootGoesOn
    <2>1. TypeOK'
        BY <1>0, <1>1, <1>3
        DEF TypeOK, Boot, BootSkips, BootGoesOn, bundleVars, pointerVars, jobVars,
            Outcomes, Phases
    <2>2. FlagIsPointer' /\ JobShape' /\ MemoryShape' /\ FailureChangesNothing'
        BY <1>0, <1>1, <1>3
        DEF FlagIsPointer, JobShape, MemoryShape, FailureChangesNothing, Idle,
            Boot, BootSkips, BootGoesOn, bundleVars, pointerVars, jobVars
    <2> QED
        BY <1>1, <2>1, <2>2
<1>4. CASE BootLoads
    <2>0. /\ Effective \in Ids \cup {0}
          /\ activeId # 0 => Effective = activeId
        BY EffectiveIsActive
    <2>1. TypeOK'
        BY <1>0, <1>1, <1>4, <2>0
        DEF TypeOK, BootLoads, bundleVars, pointerVars, jobVars, Phases
    <2>2. FlagIsPointer' /\ JobShape' /\ MemoryShape' /\ FailureChangesNothing'
        BY <1>0, <1>1, <1>4, <2>0
        DEF FlagIsPointer, JobShape, MemoryShape, FailureChangesNothing,
            BootLoads, bundleVars, pointerVars, jobVars
    <2> QED
        BY <1>1, <2>1, <2>2
<1>5. CASE Crash
    <2>1. TypeOK'
        BY <1>0, <1>1, <1>2, <1>5
        DEF TypeOK, Crash, LoseMemory, bundleVars, pointerVars, Steps, Outcomes, Phases
    <2>2. FlagIsPointer' /\ JobShape' /\ MemoryShape' /\ FailureChangesNothing'
        BY <1>0, <1>1, <1>5
        DEF FlagIsPointer, JobShape, MemoryShape, FailureChangesNothing,
            Crash, LoseMemory, bundleVars, pointerVars
    <2> QED
        BY <1>1, <2>1, <2>2
<1> QED
    BY <1>3, <1>4, <1>5

LEMMA InvStep == IInv /\ [Next]_vars => IInv'
<1> SUFFICES ASSUME IInv, [Next]_vars PROVE IInv'
    OBVIOUS
<1>1. ASSUME NEW c \in Contents, NEW a \in YesNo, Compile(c, a) PROVE IInv'
    BY <1>1, BeginCompileInv DEF Compile, YesNo
<1>2. CASE CompileStarter
    BY <1>2, BeginCompileInv, ContentsAssumption DEF CompileStarter, YesNo
<1>3. ASSUME NEW b \in Ids, Activate(b) PROVE IInv'
    BY <1>3, BeginActivateInv DEF Activate
<1>4. CASE Rollback
    BY <1>3, <1>4 DEF Rollback, IInv, TypeOK
<1>5. CASE JobStep
    BY <1>5, CompileFailsInv, CompileSucceedsInv, ActivateCommitsInv, JobEndsInv
    DEF JobStep
<1>6. CASE BootStep
    <2>1. CASE BootActivatesStarter
        <3>1. PICK b \in Starters : Begin("activating", NoJob, b)
            BY <2>1 DEF BootActivatesStarter
        <3>2. b \in Ids
            BY DEF Starters
        <3> QED
            BY <2>1, <3>1, <3>2, BeginActivateInv DEF BootActivatesStarter
    <2>2. CASE BootCompilesStarter
        BY <2>2, BeginCompileInv, ContentsAssumption DEF BootCompilesStarter, YesNo
    <2> QED
        BY <1>6, <2>1, <2>2, ProcessInv DEF BootStep
<1>7. CASE Crash
    BY <1>7, ProcessInv
<1>8. CASE UNCHANGED vars
    <2>1. BundlesComeFromRuns' /\ Ids' = Ids
        BY <1>8, RowsKept DEF vars
    <2> QED
        BY <1>8, <2>1
        DEF vars, bundleVars, pointerVars, jobVars, IInv, TypeOK, FlagIsPointer,
            JobShape, MemoryShape, FailureChangesNothing
<1> QED
    BY <1>1, <1>2, <1>3, <1>4, <1>5, <1>6, <1>7, <1>8 DEF Next

LEMMA Inductive == Spec => []IInv
<1>1. Init => IInv
    BY InvInit
<1>2. IInv /\ [Next]_vars => IInv'
    BY InvStep
<1> QED
    BY <1>1, <1>2, PTL DEF Spec

\* bundles.py keeps its rows, pointers and job records well formed, and every
\* pointer names a bundle that exists.
THEOREM BundlesTypeCorrect == Spec => []TypeOK
<1>1. IInv => TypeOK
    BY DEF IInv
<1> QED
    BY <1>1, Inductive, PTL

\* The is_active column and the active_bundle_id setting always agree.
THEOREM PointersAgree == Spec => []FlagIsPointer
<1>1. IInv => FlagIsPointer
    BY DEF IInv
<1> QED
    BY <1>1, Inductive, PTL

\* Between jobs a running process answers from the active bundle or from none.
THEOREM ServesActive == Spec => []MemoryServesActive
<1>1. IInv => MemoryServesActive
    BY DEF IInv, MemoryShape, MemoryServesActive
<1> QED
    BY <1>1, Inductive, PTL

\* A failed compile or activation leaves the active bundle in effect.
THEOREM FailureIsHarmless == Spec => []FailureChangesNothing
<1>1. IInv => FailureChangesNothing
    BY DEF IInv
<1> QED
    BY <1>1, Inductive, PTL

\* Bundles and successful compile runs correspond one to one.
THEOREM RunsExplainBundles == Spec => []BundlesComeFromRuns
<1>1. IInv => BundlesComeFromRuns
    BY DEF IInv
<1> QED
    BY <1>1, Inductive, PTL

\* Every step is a switch, a publication, a loss or a stutter of the catalogue.
LEMMA SwitchStep == IInv /\ [Next]_vars => [CS!Next]_(CS!vars)
<1> SUFFICES ASSUME IInv, [Next]_vars PROVE [CS!Next]_(CS!vars)
    OBVIOUS
<1> USE DEF IInv
<1>0. Len(bundles) \in Nat
    BY LenProperties DEF TypeOK
<1>1. CASE UNCHANGED <<activeId, prevId, mem>>
    BY <1>1 DEF CS!vars
<1>2. CASE ActivateCommits
    <2>1. CS!Switch
        BY <1>0, <1>2
        DEF ActivateCommits, CS!Switch, CS!Settled, JobShape, MemoryShape, Ids
    <2> QED
        BY <2>1 DEF CS!Next
<1>3. CASE SetBundle
    <2>1. CS!Serve
        BY <1>0, <1>3 DEF SetBundle, CS!Serve, JobShape, pointerVars, Ids
    <2> QED
        BY <2>1 DEF CS!Next
<1>4. CASE BootLoads
    <2>1. CASE mem' = mem
        BY <1>1, <1>4, <2>1 DEF BootLoads, pointerVars
    <2>2. CASE mem' = Effective /\ Effective # 0
        <3>1. CS!Serve
            BY <1>0, <1>4, <2>2, EffectiveIsActive DEF BootLoads, CS!Serve, pointerVars, Ids
        <3> QED
            BY <3>1 DEF CS!Next
    <2>3. CASE mem' = 0
        <3>1. CS!Lose
            BY <1>4, <2>3 DEF BootLoads, CS!Lose, pointerVars
        <3> QED
            BY <3>1 DEF CS!Next
    <2> QED
        BY <1>4, <2>1, <2>2, <2>3 DEF BootLoads
<1>5. CASE Crash
    <2>1. CS!Lose
        BY <1>5 DEF Crash, LoseMemory, CS!Lose, pointerVars
    <2> QED
        BY <2>1 DEF CS!Next
<1>6. ASSUME NEW c \in Contents, NEW a \in YesNo, Compile(c, a)
      PROVE UNCHANGED <<activeId, prevId, mem>>
    BY <1>6 DEF Compile, BeginCompile, pointerVars
<1>7. ASSUME NEW b, Activate(b) PROVE UNCHANGED <<activeId, prevId, mem>>
    BY <1>7 DEF Activate, pointerVars
<1>8. ASSUME CompileStarter \/ CompileFails \/ CompileRaises \/ CompileSucceeds
             \/ ActivateFails \/ Boot \/ BootSkips \/ BootActivatesStarter
             \/ BootCompilesStarter \/ BootGoesOn \/ UNCHANGED vars
      PROVE UNCHANGED <<activeId, prevId, mem>>
    BY <1>8
    DEF CompileStarter, CompileFails, CompileRaises, CompileSucceeds, ActivateFails,
        Boot, BootSkips, BootActivatesStarter, BootCompilesStarter, BootGoesOn,
        BeginCompile, pointerVars, vars
<1> QED
    BY <1>1, <1>2, <1>3, <1>4, <1>5, <1>6, <1>7, <1>8
    DEF Next, JobStep, BootStep, Rollback

\* Activation implements the abstract switch of CatalogSwitch.
THEOREM ImplementsSwitch == Spec => SwitchesCatalog
<1>1. Init => CS!Init
    BY DEF Init, CS!Init
<1>2. IInv /\ [Next]_vars => [CS!Next]_(CS!vars)
    BY SwitchStep
<1> QED
    BY <1>1, <1>2, Inductive, PTL DEF Spec, SwitchesCatalog, CS!Spec

=============================================================================
