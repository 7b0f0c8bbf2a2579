------------------------------- MODULE Bundles -------------------------------
(***************************************************************************)
(* Compilation, activation and start-up loading of MIB bundles:            *)
(* BundleService in services/bundles.py, the process-wide bundle of        *)
(* services/bundle_state.py and the first half of main.py's lifespan.      *)
(*                                                                         *)
(* Compiling and activating never await, so one job runs at a time, on the *)
(* event loop.  A step is what lies between two commits, because that is   *)
(* what a crash and the reading threads can tell apart.                    *)
(***************************************************************************)
EXTENDS Integers, Sequences

CONSTANTS
    Contents,        \* what a bundle may be compiled from
    StarterContent,  \* BUNDLED_STARTER_MIBS
    MaxRuns          \* bound: compile runs ever recorded

ASSUME ContentsAssumption == StarterContent \in Contents
ASSUME MaxRunsAssumption == MaxRuns \in Nat

VARIABLES
    bundles,   \* bundle_sets rows by id: what it holds, whether labelled starter
    runs,      \* compile_runs rows by id: status and bundle_set_id (0 for NULL)
    flags,     \* ids of the bundle_sets rows with is_active
    activeId,  \* setting active_bundle_id, 0 for None
    prevId,    \* setting previous_active_bundle_id, 0 for None
    mem,       \* bundle_state._bundle: the id it was loaded from, 0 for None
    step,      \* how far the job in progress is
    job,       \* the BundleCompileRequest in progress
    target,    \* the bundle being activated, 0 for none
    outcome,   \* how the last job ended
    before,    \* auxiliary: <<activeId, mem>> when the job began
    phase      \* where the hosting process is in its life

bundleVars == <<bundles, runs>>
pointerVars == <<flags, activeId, prevId>>
jobVars == <<step, job, target, outcome, before>>
vars == <<bundleVars, pointerVars, mem, jobVars, phase>>

YesNo == {"yes", "no"}
Steps == {"idle", "compiling", "activating", "committed"}
Outcomes == {"none", "done", "refused", "raised"}
Phases == {"down", "boot", "load", "up"}

Ids == 1 .. Len(bundles)
NoJob == [content |-> StarterContent, starter |-> "no", activate |-> "no"]
Running == [status |-> "running", bundle |-> 0]

BundleRow == [content : Contents, starter : YesNo]
RunRow == [status : {"running", "failed", "succeeded"}, bundle : Nat]

TypeOK ==
    /\ bundles \in Seq(BundleRow)
    /\ runs \in Seq(RunRow)
    /\ flags \in SUBSET Ids
    /\ activeId \in Ids \cup {0}
    /\ prevId \in Ids \cup {0}
    /\ mem \in Ids \cup {0}
    /\ step \in Steps
    /\ job \in [content : Contents, starter : YesNo, activate : YesNo]
    /\ target \in Ids \cup {0}
    /\ outcome \in Outcomes
    /\ before \in Nat \X Nat
    /\ phase \in Phases

Init ==
    /\ bundles = <<>>
    /\ runs = <<>>
    /\ flags = {}
    /\ activeId = 0
    /\ prevId = 0
    /\ mem = 0
    /\ step = "idle"
    /\ job = NoJob
    /\ target = 0
    /\ outcome = "none"
    /\ before = <<0, 0>>
    /\ phase = "down"

-----------------------------------------------------------------------------
(* What the service looks up.                                              *)

IsLatest(b, S) == b \in S /\ \A other \in S : other <= b

Latest(S) == CHOOSE b \in S : IsLatest(b, S)

Starters == {b \in Ids : bundles[b].starter = "yes"}

\* Mutant: the newest bundle wins over the active one.
EffectiveIsNewest == IF Ids # {} THEN Latest(Ids) ELSE 0

\* _select_active_bundle(...) or _select_latest_bundle(...)
Effective ==
    IF flags # {} THEN Latest(flags) ELSE IF Ids # {} THEN Latest(Ids) ELSE 0

-----------------------------------------------------------------------------
(* The steps of a job.                                                     *)

Idle == step = "idle"

Ended(how) ==
    /\ step' = "idle"
    /\ outcome' = how
    /\ job' = NoJob
    /\ target' = 0
    /\ UNCHANGED before

Begin(first, request, bundle) ==
    /\ Idle
    /\ step' = first
    /\ job' = request
    /\ target' = bundle
    /\ outcome' = "none"
    /\ before' = <<activeId, mem>>

\* compile_bundle up to the compiler: the run row is committed as running.
BeginCompile(content, starter, activate) ==
    /\ Len(runs) < MaxRuns
    /\ runs' = Append(runs, Running)
    /\ Begin("compiling",
             [content |-> content, starter |-> starter, activate |-> activate], 0)
    /\ UNCHANGED <<bundles, pointerVars, mem>>

\* The compiler reports failed or missing modules: BundleServiceError.
CompileFails ==
    /\ step = "compiling"
    /\ runs' = [runs EXCEPT ![Len(runs)].status = "failed"]
    /\ Ended("refused")
    /\ UNCHANGED <<bundles, pointerVars, mem, phase>>

\* Anything else goes wrong before the outcome is recorded.
CompileRaises ==
    /\ step = "compiling"
    /\ Ended("raised")
    /\ UNCHANGED <<bundleVars, pointerVars, mem, phase>>

\* What follows the commit that records a successful compile.
Compiled ==
    IF job.activate = "yes"
    THEN /\ step' = "activating"
         /\ target' = Len(bundles) + 1
         /\ UNCHANGED <<job, outcome, before>>
    ELSE Ended("done")

\* Mutant: the run row is not updated in the transaction that adds the bundle.
CompileLeavesRun ==
    /\ step = "compiling"
    /\ bundles' = Append(bundles, [content |-> job.content, starter |-> job.starter])
    /\ Compiled
    /\ UNCHANGED <<runs, pointerVars, mem, phase>>

\* The bundle, its modules and the run's outcome are committed together.
CompileSucceeds ==
    /\ step = "compiling"
    /\ bundles' = Append(bundles, [content |-> job.content, starter |-> job.starter])
    /\ runs' = [runs EXCEPT ![Len(runs)] =
                  [status |-> "succeeded", bundle |-> Len(bundles) + 1]]
    /\ Compiled
    /\ UNCHANGED <<pointerVars, mem, phase>>

\* Mutant: the bundle is published before it is known to be committed.
ActivatePublishesFirst ==
    /\ step = "activating"
    /\ mem' = target
    /\ \E how \in {"refused", "raised"} : Ended(how)
    /\ UNCHANGED <<bundleVars, pointerVars, phase>>

\* activate_bundle raises before its commit: the manifest is missing, the
\* compiled data cannot be loaded (refused), or the commit itself fails.
ActivateFails ==
    /\ step = "activating"
    /\ \E how \in {"refused", "raised"} : Ended(how)
    /\ UNCHANGED <<bundleVars, pointerVars, mem, phase>>

\* Mutant: only the target's row is touched.
ActivateKeepsOldFlag ==
    /\ step = "activating"
    /\ flags' = flags \cup {target}
    /\ prevId' = activeId
    /\ activeId' = target
    /\ step' = "committed"
    /\ UNCHANGED <<bundleVars, mem, job, target, outcome, before, phase>>

\* Mutant: the previous bundle is read after the pointer has moved.
ActivateForgetsPrevious ==
    /\ step = "activating"
    /\ flags' = {target}
    /\ prevId' = target
    /\ activeId' = target
    /\ step' = "committed"
    /\ UNCHANGED <<bundleVars, mem, job, target, outcome, before, phase>>

\* activate_bundle's single commit: every row's flag and both pointers.
ActivateCommits ==
    /\ step = "activating"
    /\ flags' = {target}
    /\ prevId' = activeId
    /\ activeId' = target
    /\ step' = "committed"
    /\ UNCHANGED <<bundleVars, mem, job, target, outcome, before, phase>>

\* set_bundle(loaded_bundle), after the commit.  The row just committed can be
\* read back: session.refresh, in between, is assumed not to raise.
SetBundle ==
    /\ step = "committed"
    /\ mem' = target
    /\ Ended("done")
    /\ UNCHANGED <<bundleVars, pointerVars, phase>>

JobStep ==
    \/ CompileFails
    \/ CompileRaises
    \/ CompileSucceeds
    \/ ActivateFails
    \/ ActivateCommits
    \/ SetBundle

-----------------------------------------------------------------------------
(* The operations of a running process.                                    *)

Compile(content, activate) ==
    /\ phase = "up"
    /\ BeginCompile(content, "no", activate)
    /\ UNCHANGED phase

CompileStarter ==
    /\ phase = "up"
    /\ BeginCompile(StarterContent, "yes", "yes")
    /\ UNCHANGED phase

\* activate_bundle(b), from the route or for the bundled starter set.
Activate(b) ==
    /\ phase = "up"
    /\ Begin("activating", NoJob, b)
    /\ UNCHANGED <<bundleVars, pointerVars, mem, phase>>

\* rollback_bundle: refused without a previous bundle.
Rollback == prevId # 0 /\ Activate(prevId)

-----------------------------------------------------------------------------
(* Start-up and crash.                                                     *)

Boot ==
    /\ phase = "down"
    /\ phase' = "boot"
    /\ UNCHANGED <<bundleVars, pointerVars, mem, jobVars>>

\* ensure_bootstrap_bundle has nothing to do: a bundle is active already, or
\* there is neither a starter bundle nor a source to compile one from.
BootSkips ==
    /\ phase = "boot" /\ Idle /\ outcome = "none"
    /\ flags # {} \/ Starters = {}
    /\ phase' = "load"
    /\ UNCHANGED <<bundleVars, pointerVars, mem, jobVars>>

BootActivatesStarter ==
    /\ phase = "boot" /\ outcome = "none"
    /\ flags = {}
    /\ \E b \in Starters : IsLatest(b, Starters) /\ Begin("activating", NoJob, b)
    /\ UNCHANGED <<bundleVars, pointerVars, mem, phase>>

BootCompilesStarter ==
    /\ phase = "boot" /\ outcome = "none"
    /\ flags = {} /\ Starters = {}
    /\ BeginCompile(StarterContent, "yes", "yes")
    /\ UNCHANGED phase

\* A BundleServiceError is only logged.
BootGoesOn ==
    /\ phase = "boot" /\ Idle
    /\ outcome \in {"done", "refused"}
    /\ phase' = "load"
    /\ outcome' = "none"
    /\ UNCHANGED <<bundleVars, pointerVars, mem, step, job, target, before>>

\* Load the effective bundle into memory; a failure is only logged.
BootLoads ==
    /\ phase = "load"
    /\ mem' \in {Effective, mem}
    /\ phase' = "up"
    /\ UNCHANGED <<bundleVars, pointerVars, jobVars>>

LoseMemory ==
    /\ mem' = 0
    /\ step' = "idle"
    /\ job' = NoJob
    /\ target' = 0
    /\ outcome' = "none"
    /\ before' = <<0, 0>>
    /\ phase' = "down"

\* The process dies, at any step; what is committed stays.  A start-up that
\* raises anything else than BundleServiceError ends the same way.
Crash ==
    /\ phase # "down"
    /\ LoseMemory
    /\ UNCHANGED <<bundleVars, pointerVars>>

BootStep ==
    \/ Boot
    \/ BootSkips
    \/ BootActivatesStarter
    \/ BootCompilesStarter
    \/ BootGoesOn
    \/ BootLoads

Next ==
    \/ \E c \in Contents, a \in YesNo : Compile(c, a)
    \/ CompileStarter
    \/ \E b \in Ids : Activate(b)
    \/ Rollback
    \/ JobStep
    \/ BootStep
    \/ Crash

Spec == Init /\ [][Next]_vars

-----------------------------------------------------------------------------
(* Properties.                                                             *)

\* What each step of a job may rely on.
JobShape ==
    /\ step = "idle" => target = 0
    /\ step = "compiling" =>
          /\ Len(runs) > 0
          /\ runs[Len(runs)] = Running
          /\ target = 0
    /\ step = "activating" => target \in Ids
    /\ step = "committed" => target \in Ids /\ target = activeId
    /\ step \in {"compiling", "activating"} => <<activeId, mem>> = before
    /\ step # "idle" => outcome = "none"
    /\ phase \in {"load", "down"} => step = "idle" /\ outcome = "none"

\* Memory is settled at every step but one, during start-up too.
MemoryShape == step # "committed" /\ activeId # 0 => mem \in {0, activeId}

\* The is_active column and the active_bundle_id setting are two copies of
\* one fact, written by activate_bundle only; no interrupted, failed or
\* repeated activation makes them disagree or leaves two rows flagged.
FlagIsPointer == flags = IF activeId = 0 THEN {} ELSE {activeId}

\* Once start-up is over, queries are answered from the active bundle or,
\* when start-up could not load it, from none; never from another one, except
\* between the commit of an activation and set_bundle.
MemoryServesActive ==
    phase = "up" /\ step # "committed" /\ activeId # 0 => mem \in {0, activeId}

\* A compile or activation that fails leaves the bundle that was active when
\* it began in effect, in the database and in memory ("The previously active
\* bundle remains in effect").
FailureChangesNothing ==
    outcome \in {"refused", "raised"} => <<activeId, mem>> = before

\* Every bundle is the result of exactly one successful run, and every
\* successful run has left its bundle, whatever was interrupted in between.
BundlesComeFromRuns ==
    /\ \A b \in Ids : \E r \in 1 .. Len(runs) :
          runs[r] = [status |-> "succeeded", bundle |-> b]
    /\ \A r \in 1 .. Len(runs) :
          /\ runs[r].bundle \in IF runs[r].status = "succeeded" THEN Ids ELSE {0}
          /\ \A q \in 1 .. Len(runs) :
                runs[q].bundle = runs[r].bundle /\ runs[r].bundle # 0 => q = r

\* The inductive invariant behind the theorems of BundlesProofs.
IInv ==
    /\ TypeOK
    /\ FlagIsPointer
    /\ JobShape
    /\ MemoryShape
    /\ FailureChangesNothing
    /\ BundlesComeFromRuns

CS == INSTANCE CatalogSwitch WITH
    current <- activeId, previous <- prevId, served <- mem

\* Activation implements the abstract switch: readers see one change at a
\* time, never an activation overtaken by the next before it was served.
SwitchesCatalog == CS!Spec
=============================================================================
