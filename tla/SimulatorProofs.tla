--------------------------- MODULE SimulatorProofs ---------------------------
(***************************************************************************)
(* The simulator for any number of requests, bundles, objects and          *)
(* payloads, overlapping requests included: what a responder serves is     *)
(* what the file and its bundle make together, and restart_required tells  *)
(* the truth.  What holds of the lifecycle holds of the simulator, which   *)
(* takes every step of Responder and no other.                             *)
(***************************************************************************)
EXTENDS Simulator, ResponderProofs, SequenceTheorems, WellFoundedInduction

-----------------------------------------------------------------------------
(* The simulator's lifecycle is the responder's.                           *)

LEMMA LifecycleSteps == [SimNext]_simVars => [Next]_vars
<1> SUFFICES ASSUME SimNext PROVE [Next]_vars
    BY DEF simVars
<1>1. ASSUME NEW c \in Calls, StartStep(c) \/ LifecycleStep(c) PROVE Next
    BY <1>1 DEF StartStep, LifecycleStep, Next, CallStep
<1>2. ASSUME NEW e \in Endpoints, TaskStep(e) PROVE Next
    BY <1>2 DEF TaskStep, Next
<1>3. ASSUME NEW p \in Payloads, Save(p) \/ SaveNotApplied(p) \/ SaveNotWritten(p)
      PROVE  UNCHANGED vars
    BY <1>3 DEF Save, SaveNotApplied, SaveNotWritten
<1>4. SwitchBundle => UNCHANGED vars
    BY DEF SwitchBundle
<1>5. CrashStep \/ BootStep => [Next]_vars
    BY DEF CrashStep, BootStep, Next, vars
<1> QED
    BY <1>1, <1>2, <1>3, <1>4, <1>5 DEF SimNext

LEMMA LifecycleSpec == SimSpec => Spec
<1>1. SimInit => Init
    BY DEF SimInit
<1> QED
    BY <1>1, LifecycleSteps, PTL DEF SimSpec, Spec

-----------------------------------------------------------------------------
(* The data.                                                               *)

\* What bundle and file make together: fresh as long as it still would, and then
\* a start would accept the file under that bundle.
Reading(r, file) ==
    /\ r = [objects |-> r.objects, bundle |-> r.bundle, fresh |-> r.fresh]
    /\ r.bundle \in Bundles \cup {NoBundle}
    /\ r.fresh = "yes" =>
          r.objects = Merged[r.bundle][Loaded(file)] /\ Loaded(file) \in Startable[r.bundle]

\* The inductive invariant.  Once there is a bundle in memory there always is
\* one, so only a responder started before that is bound to none.
DataInv ==
    /\ active \in Bundles \cup {NoBundle}
    /\ stored \in Payloads \cup {{}, Corrupt}
    /\ bound \in Bundles \cup {NoBundle}
    /\ Reading(served, stored)
    /\ DOMAIN ready = Calls
    /\ \A c \in Calls : Reading(ready[c], stored)
    /\ active = NoBundle => bound = NoBundle /\ \A c \in Calls : ready[c].bundle = NoBundle
    /\ responder # NoEndpoint /\ bound # NoBundle => served.bundle = bound

LEMMA NothingRead == \A file : Reading(Nothing, file) /\ Nothing.bundle = NoBundle
    BY DEF Reading, Nothing

LEMMA DataInvInit == SimInit => DataInv
    BY NothingRead DEF SimInit, DataInv, Init, FreshMemory

\* A start holds what it has read until its responder is published.
LEMMA StartKeeps ==
    ASSUME DataInv, NEW c \in Calls, StartStep(c)
    PROVE  DataInv'
<1>1. PICK payload \in {Loaded(stored), {}} :
          /\ payload \in Startable[active]
          /\ ready' = [ready EXCEPT ![c] =
                [objects |-> Merged[active][payload],
                 bundle |-> active,
                 fresh |-> IF payload = Loaded(stored) THEN "yes" ELSE "no"]]
    BY DEF StartStep, Prepare
<1>2. UNCHANGED <<active, stored, bound, served, responder>>
    BY DEF StartStep, Start, RestartStart, AutoStart, Construct, slotVars
<1> DEFINE read == [objects |-> Merged[active][payload],
                    bundle |-> active,
                    fresh |-> IF payload = Loaded(stored) THEN "yes" ELSE "no"]
<1>3. Reading(read, stored) /\ read.bundle = active
    BY <1>1 DEF DataInv, Reading
<1>4. ready' = [ready EXCEPT ![c] = read]
    BY <1>1
<1> HIDE DEF read
<1> QED
    BY <1>2, <1>3, <1>4 DEF DataInv

\* A step that changes neither file nor bundle in memory publishes what was
\* read, takes the responder off with what it served, or leaves both alone.
LEMMA FollowingKeeps ==
    ASSUME DataInv, NEW c \in Calls, DataFollows(c)
    PROVE  DataInv'
<1>1. UNCHANGED <<active, stored>>
    BY DEF DataFollows
<1>2. ready' = [ready EXCEPT ![c] = IF mine'[c] = NoEndpoint THEN Nothing ELSE ready[c]]
    BY DEF DataFollows
<1>3. /\ DOMAIN ready' = Calls
      /\ \A d \in Calls : ready'[d] \in {ready[d], Nothing}
    BY <1>2 DEF DataInv
<1>4. /\ \A d \in Calls : Reading(ready'[d], stored)
      /\ active = NoBundle => \A d \in Calls : ready'[d].bundle = NoBundle
    BY <1>3, NothingRead DEF DataInv
<1>5. CASE served' = ready[c] /\ bound' = ready[c].bundle
    <2>1. bound' \in Bundles \cup {NoBundle} /\ Reading(served', stored)
        BY <1>5 DEF DataInv, Reading
    <2> QED
        BY <1>1, <1>3, <1>4, <1>5, <2>1 DEF DataInv
<1>6. CASE /\ responder' \in {responder, NoEndpoint}
           /\ served' = IF responder' = NoEndpoint THEN Nothing ELSE served
           /\ UNCHANGED bound
    <2>1. Reading(served', stored)
        BY <1>6, NothingRead DEF DataInv
    <2> QED
        BY <1>1, <1>3, <1>4, <1>6, <2>1 DEF DataInv
<1> QED
    BY <1>5, <1>6 DEF DataFollows

\* The end of the process takes everything but the file and the pointer.
LEMMA LossKeeps ==
    ASSUME DataInv, LoseData, stored' \in {stored, Corrupt}, responder' = NoEndpoint
    PROVE  DataInv'
    BY NothingRead DEF DataInv, LoseData

\* Only the end of the process brings the phase down.
LEMMA LossIsTotal ==
    ASSUME QuietBoot, NEW c \in Calls, LifecycleStep(c), phase' = "down"
    PROVE  responder' = NoEndpoint
<1>1. CASE Shutdown(c)
    BY <1>1 DEF Shutdown, LoseMemory
<1>2. CASE JoinVictim(c)
    BY <1>2 DEF JoinVictim, LoseMemory, QuietBoot, AllIdle
<1>3. CASE Stop(c) \/ Restart(c)
    BY <1>3 DEF Stop, Restart
<1>4. CASE RestartRefused(c) \/ OpenBinds(c) \/ OpenFails(c) \/ HandleRefused(c)
           \/ GiveUp(c) \/ Swap(c) \/ CloseVictim(c)
    <2>1. pc[c] # "idle" /\ phase' = phase
        BY <1>4 DEF RestartRefused, OpenBinds, OpenFails, HandleRefused, GiveUp, Swap, CloseVictim
    <2> QED
        BY <2>1 DEF QuietBoot, AllIdle
<1> QED
    BY <1>1, <1>2, <1>3, <1>4 DEF LifecycleStep

LEMMA TaskKeeps ==
    ASSUME DataInv, NEW e \in Endpoints, TaskStep(e)
    PROVE  DataInv'
<1>1. responder' \in {responder, NoEndpoint}
    BY DEF TaskStep, TaskEnds, ServeFails, TaskFinally
<1> QED
    BY <1>1, NothingRead DEF TaskStep, DataInv

\* A save replaces what is served and makes what is being started stale.
LEMMA SaveKeeps ==
    ASSUME DataInv, NEW p \in Payloads, NEW fresh, Saveable(p), Apply(p, fresh),
           fresh = "yes" => stored' = p,
           stored' \in Payloads \cup {{}, Corrupt},
           Outdate, UNCHANGED <<vars, active, bound>>
    PROVE  DataInv'
<1>1. Loaded(p) = p
    BY CorruptAssumption DEF Loaded
<1> DEFINE applied == [objects |-> Merged[active][p], bundle |-> active, fresh |-> fresh]
<1>2. applied.bundle = active /\ Reading(applied, stored')
    <2>1. p \in Startable[active]
        BY DEF Saveable, Accepted, DataInv
    <2> QED
        BY <1>1, <2>1 DEF Reading, DataInv
<1>3. served' = IF responder = NoEndpoint THEN Nothing ELSE applied
    BY DEF Apply
<1> HIDE DEF applied
<1>4. Reading(served', stored') /\ (responder # NoEndpoint => served'.bundle = active)
    BY <1>2, <1>3, NothingRead
<1>5. /\ DOMAIN ready' = Calls
      /\ \A c \in Calls : Reading(ready'[c], stored') /\ ready'[c].bundle = ready[c].bundle
    BY DEF Outdate, DataInv, Reading
<1>6. UNCHANGED responder
    BY DEF vars, slotVars
<1> QED
    BY <1>4, <1>5, <1>6 DEF DataInv, Saveable

\* A save that fails after the objects were cleared.
LEMMA FailedSaveKeeps ==
    ASSUME DataInv, NEW p \in Payloads, SaveNotApplied(p)
    PROVE  DataInv'
<1>1. Reading(served', stored) /\ served'.bundle = served.bundle
    BY DEF SaveNotApplied, DataInv, Reading
<1> QED
    BY <1>1 DEF SaveNotApplied, DataInv, vars, slotVars

LEMMA DataInvStep == QuietBoot /\ DataInv /\ [SimNext]_simVars => DataInv'
<1> SUFFICES ASSUME QuietBoot, DataInv, [SimNext]_simVars PROVE DataInv'
    OBVIOUS
<1>1. ASSUME NEW c \in Calls, StartStep(c) PROVE DataInv'
    BY <1>1, StartKeeps
<1>2. ASSUME NEW c \in Calls, LifecycleStep(c) PROVE DataInv'
    <2>1. CASE DataFollows(c)
        BY <2>1, FollowingKeeps
    <2>2. CASE phase' = "down" /\ LoseData /\ UNCHANGED stored
        <3>1. responder' = NoEndpoint
            BY <1>2, <2>2, LossIsTotal
        <3> QED
            BY <2>2, <3>1, LossKeeps
    <2> QED
        BY <1>2, <2>1, <2>2 DEF LifecycleStep
<1>3. ASSUME NEW e \in Endpoints, TaskStep(e) PROVE DataInv'
    BY <1>3, TaskKeeps
<1>4. ASSUME NEW p \in Payloads, Save(p) PROVE DataInv'
    BY <1>4, SaveKeeps DEF Save
<1>5. ASSUME NEW p \in Payloads, SaveNotWritten(p) PROVE DataInv'
    <2>1. stored' \in Payloads \cup {{}, Corrupt}
        BY <1>5 DEF SaveNotWritten, DataInv
    <2> QED
        BY <1>5, <2>1, SaveKeeps DEF SaveNotWritten
<1>6. ASSUME NEW p \in Payloads, SaveNotApplied(p) PROVE DataInv'
    BY <1>6, FailedSaveKeeps
<1>7. CASE SwitchBundle
    BY <1>7, BundlesAssumption DEF SwitchBundle, DataInv, vars, slotVars
<1>8. CASE CrashStep
    BY <1>8, LossKeeps DEF CrashStep, Crash, LoseMemory
<1>9. CASE BootStep
    BY <1>9 DEF BootStep, Boot, BootDone, dataVars, slotVars, DataInv
<1>10. CASE UNCHANGED simVars
    BY <1>10 DEF simVars, dataVars, vars, slotVars, DataInv
<1> QED
    BY <1>1, <1>2, <1>3, <1>4, <1>5, <1>6, <1>7, <1>8, <1>9, <1>10 DEF SimNext

LEMMA DataInductive == SimSpec => []DataInv
<1>1. IInv => QuietBoot
    BY DEF IInv
<1> QED
    BY <1>1, DataInvInit, DataInvStep, LifecycleSpec, Inductive, PTL DEF SimSpec

-----------------------------------------------------------------------------
(* The values.  What the resolution of a textual convention yields matters *)
(* only through the type it stands for, so nothing is proved about it.     *)

\* Counting up through a set of numbers.
LEMMA UpFromOne ==
    ASSUME NEW n \in Nat, NEW S, 1 \in S, \A i \in 1 .. n - 1 : i \in S => i + 1 \in S
    PROVE  1 .. n \subseteq S
<1> DEFINE Missing == (1 .. n) \ S
           Less == OpToRel(<, Nat)
<1> SUFFICES ASSUME Missing # {} PROVE FALSE
    OBVIOUS
<1>1. IsWellFoundedOn(Less, Nat)
    BY NatLessThanWellFounded
<1>2. Missing \subseteq Nat
    OBVIOUS
<1>3. PICK m \in Missing : \A k \in Missing : ~(<<k, m>> \in Less)
    BY <1>1, <1>2, WFMin
<1>4. \A k \in Missing : ~(k < m)
    BY <1>2, <1>3 DEF OpToRel
<1> QED
    BY <1>4, m - 1 \in 1 .. n \/ m = 1

Steps(X, n) == [1 .. n -> [X -> X]]

\* The first values of a function each of which is made from the one before.
Iterations(X, base, step, j) ==
    {f \in [1 .. j -> X] : f[1] = base /\ \A k \in 2 .. j : f[k] = step[k][f[k - 1]]}

LEMMA Iterates ==
    ASSUME NEW X, NEW n \in Nat \ {0}, NEW base \in X, NEW step \in Steps(X, n)
    PROVE  Iterations(X, base, step, n) # {}
<1> USE DEF Steps
<1> DEFINE Runs(j) == Iterations(X, base, step, j)
           S == {j \in 1 .. n : Runs(j) # {}}
<1>1. 1 \in S
    <2>1. [k \in 1 .. 1 |-> base] \in Runs(1)
        BY DEF Iterations
    <2> QED
        BY <2>1
<1>2. ASSUME NEW j \in 1 .. n - 1, j \in S PROVE j + 1 \in S
    <2>1. PICK f \in [1 .. j -> X] :
             f[1] = base /\ \A k \in 2 .. j : f[k] = step[k][f[k - 1]]
        BY <1>2 DEF Iterations
    <2> DEFINE g == [k \in 1 .. j + 1 |-> IF k <= j THEN f[k] ELSE step[j + 1][f[j]]]
    <2>2. j \in 1 .. j /\ j + 1 \in 1 .. n /\ f[j] \in X /\ step[j + 1] \in [X -> X]
        BY <2>1
    <2>3. g \in [1 .. j + 1 -> X]
        BY <2>1, <2>2
    <2>4. g[1] = base
        BY <2>1
    <2>5. ASSUME NEW k \in 2 .. j + 1 PROVE g[k] = step[k][g[k - 1]]
        <3>1. CASE k = j + 1
            BY <3>1, <2>2
        <3>2. CASE k \in 2 .. j
            BY <3>2, <2>1
        <3> QED
            BY <3>1, <3>2
    <2> HIDE DEF g
    <2>6. g \in Runs(j + 1)
        BY <2>3, <2>4, <2>5 DEF Iterations
    <2> HIDE DEF Runs
    <2> QED
        BY <2>2, <2>6
<1>3. 1 .. n \subseteq S
    <2> HIDE DEF S
    <2>1. \A j \in 1 .. n - 1 : j \in S => j + 1 \in S
        BY <1>2
    <2> QED
        BY <1>1, <2>1, UpFromOne
<1> QED
    BY <1>3

LEMMA NothingFromNothing ==
    ASSUME NEW P, NEW s \in Seq(P), NEW t \in Seq(P), s \o t = <<>>
    PROVE  s = <<>> /\ t = <<>>
<1>1. Len(s \o t) = Len(s) + Len(t) /\ Len(s) \in Nat /\ Len(t) \in Nat
    BY ConcatProperties
<1>2. Len(s \o t) = 0
    OBVIOUS
<1> QED
    BY <1>1, <1>2, EmptySeq

\* Some sequences one after the other.
Appends(f, seqs, n) ==
    f = [i \in 1 .. n |-> IF i = 1 THEN seqs[i] ELSE f[i - 1] \o seqs[i]]

LEMMA AppendingIsDefined ==
    ASSUME NEW P, NEW n \in Nat \ {0}, NEW seqs \in [1 .. n -> Seq(P)]
    PROVE  \E f : Appends(f, seqs, n)
<1>1. \A k \in 1 .. n : \A s \in Seq(P) : s \o seqs[k] \in Seq(P)
    BY ConcatProperties
<1>2. PICK step \in [1 .. n -> [Seq(P) -> Seq(P)]] :
         \A k \in 1 .. n : \A s \in Seq(P) : step[k][s] = s \o seqs[k]
    <2>1. [k \in 1 .. n |-> [s \in Seq(P) |-> s \o seqs[k]]]
             \in [1 .. n -> [Seq(P) -> Seq(P)]]
        BY <1>1
    <2> QED
        BY <2>1
<1>3. PICK f \in [1 .. n -> Seq(P)] :
         f[1] = seqs[1] /\ \A k \in 2 .. n : f[k] = step[k][f[k - 1]]
    <2>1. seqs[1] \in Seq(P) /\ step \in Steps(Seq(P), n)
        BY DEF Steps
    <2>2. Iterations(Seq(P), seqs[1], step, n) # {}
        BY <2>1, Iterates
    <2> QED
        BY <2>2 DEF Iterations
<1>4. ASSUME NEW k \in 1 .. n PROVE f[k] = IF k = 1 THEN seqs[k] ELSE f[k - 1] \o seqs[k]
    <2>1. CASE k # 1
        <3>1. k \in 2 .. n /\ k - 1 \in 1 .. n /\ f[k - 1] \in Seq(P)
            BY <2>1
        <3> QED
            BY <2>1, <3>1, <1>2, <1>3
    <2> QED
        BY <2>1, <1>3
<1> QED
    BY <1>4 DEF Appends

LEMMA Appending ==
    ASSUME NEW P, NEW n \in Nat \ {0}, NEW seqs \in [1 .. n -> Seq(P)], NEW f,
           Appends(f, seqs, n)
    PROVE  /\ f[n] \in Seq(P)
           /\ f[n] = <<>> => \A i \in 1 .. n : seqs[i] = <<>>
<1>0. \A i \in 1 .. n : f[i] = IF i = 1 THEN seqs[i] ELSE f[i - 1] \o seqs[i]
    BY DEF Appends
<1> DEFINE S == {j \in 1 .. n : f[j] \in Seq(P) /\ (f[j] = <<>> => \A i \in 1 .. j : seqs[i] = <<>>)}
<1>1. 1 \in S
    <2>1. f[1] = seqs[1] /\ seqs[1] \in Seq(P)
        BY <1>0
    <2> QED
        BY <2>1
<1>2. ASSUME NEW j \in 1 .. n - 1, j \in S PROVE j + 1 \in S
    <2>1. j + 1 \in 1 .. n /\ j \in 1 .. n /\ (j + 1) - 1 = j /\ j + 1 # 1
        OBVIOUS
    <2>2. f[j + 1] = f[j] \o seqs[j + 1]
        BY <1>0, <2>1
    <2>3. f[j] \in Seq(P) /\ seqs[j + 1] \in Seq(P)
        BY <2>1, <1>2
    <2>4. f[j] \o seqs[j + 1] \in Seq(P)
        BY <2>3, ConcatProperties
    <2>5. f[j + 1] = <<>> => f[j] = <<>> /\ seqs[j + 1] = <<>>
        BY <2>2, <2>3, NothingFromNothing
    <2>6. ASSUME f[j + 1] = <<>>, NEW i \in 1 .. j + 1 PROVE seqs[i] = <<>>
        <3>1. i \in 1 .. j \/ i = j + 1
            BY <2>1
        <3> QED
            BY <1>2, <2>5, <2>6, <3>1
    <2> QED
        BY <2>1, <2>2, <2>4, <2>6
<1>3. 1 .. n \subseteq S
    <2> HIDE DEF S
    <2>1. \A j \in 1 .. n - 1 : j \in S => j + 1 \in S
        BY <1>2
    <2> QED
        BY <1>1, <2>1, UpFromOne
<1>4. n \in S
    <2> HIDE DEF S
    <2> QED
        BY <1>3
<1> QED
    BY <1>4

\* What the pairs of a union come to: pairs of its alternatives, and none only
\* if no alternative has any.
LEMMA FlattenedPairs ==
    ASSUME NEW P, NEW seqs \in Seq(Seq(P))
    PROVE  /\ FlattenSeq(seqs) \in Seq(P)
           /\ FlattenSeq(seqs) = <<>> => \A i \in DOMAIN seqs : seqs[i] = <<>>
<1>1. Len(seqs) \in Nat /\ DOMAIN seqs = 1 .. Len(seqs) /\ seqs \in [1 .. Len(seqs) -> Seq(P)]
    BY LenProperties
<1>2. CASE Len(seqs) = 0
    BY <1>1, <1>2, EmptySeq DEF FlattenSeq
<1>3. CASE Len(seqs) # 0
    <2> DEFINE flatten == CHOOSE f : Appends(f, seqs, Len(seqs))
    <2>1. FlattenSeq(seqs) = flatten[Len(seqs)]
        BY <1>3 DEF FlattenSeq, Appends
    <2>2. Len(seqs) \in Nat \ {0}
        BY <1>1, <1>3
    <2>3. \E f : Appends(f, seqs, Len(seqs))
        BY <1>1, <2>2, AppendingIsDefined
    <2>4. Appends(flatten, seqs, Len(seqs))
        BY <2>3
    <2> HIDE DEF flatten
    <2>5. /\ flatten[Len(seqs)] \in Seq(P)
          /\ flatten[Len(seqs)] = <<>> => \A i \in 1 .. Len(seqs) : seqs[i] = <<>>
        BY <1>1, <2>2, <2>4, Appending
    <2> QED
        BY <1>1, <2>1, <2>5
<1> QED
    BY <1>2, <1>3

Intervals == {p \in Int \X Int : p[1] <= p[2]}

LEMMA WellBoundedPairs ==
    ASSUME NEW limits, WellBounded(limits)
    PROVE  limits.pairs \in Seq(Intervals)
<1>1. /\ Len(limits.pairs) \in Nat
      /\ limits.pairs \in [1 .. Len(limits.pairs) -> Int \X Int]
      /\ Range(limits.pairs) = {limits.pairs[i] : i \in 1 .. Len(limits.pairs)}
    BY LenProperties DEF WellBounded, Range
<1>2. \A i \in 1 .. Len(limits.pairs) : limits.pairs[i] \in Intervals
    BY <1>1 DEF WellBounded, Intervals
<1>3. limits.pairs \in [1 .. Len(limits.pairs) -> Intervals]
    BY <1>1, <1>2
<1> QED
    BY <1>1, <1>3, SeqDef

\* The pairs of a union, alternative by alternative.
PartPairs(limits, kind) ==
    [i \in DOMAIN limits.parts |->
        IF limits.parts[i].kind = kind THEN limits.parts[i].pairs ELSE <<>>]

LEMMA UnionBounds ==
    ASSUME NEW limits, WellLimited(limits), limits.kind = "union", NEW kind \in {"range", "size"}
    PROVE  /\ Bounds(limits, kind) \in Seq(Intervals)
           /\ Bounds(limits, kind) = <<>> =>
                 \A i \in DOMAIN limits.parts : PartPairs(limits, kind)[i] = <<>>
           /\ Bounds(limits, kind) # <<>> =>
                 \E i \in DOMAIN limits.parts :
                    Bounds(limits, kind)[1] \in Range(PartPairs(limits, kind)[i])
<1> DEFINE seqs == PartPairs(limits, kind)
           Q == UNION {Range(seqs[i]) : i \in DOMAIN limits.parts}
           n == Len(limits.parts)
<1>1. n \in Nat /\ DOMAIN limits.parts = 1 .. n
    BY LenProperties DEF WellLimited
<1>2. Bounds(limits, kind) = FlattenSeq(seqs)
    BY DEF Bounds, PartPairs
<1>3. DOMAIN seqs = DOMAIN limits.parts
    BY DEF PartPairs
<1>4. ASSUME NEW i \in DOMAIN limits.parts
      PROVE  seqs[i] \in Seq(Intervals) /\ seqs[i] \in Seq(Q)
    <2>1. limits.parts[i] \in Range(limits.parts)
        BY DEF Range
    <2>2. limits.parts[i].pairs \in Seq(Intervals)
        BY <2>1, WellBoundedPairs DEF WellLimited
    <2>3. seqs[i] \in Seq(Intervals)
        BY <2>2, EmptySeq DEF PartPairs
    <2>4. seqs[i] \in Seq(Range(seqs[i]))
        BY <2>3, SeqOfRange DEF Range
    <2>5. Range(seqs[i]) \subseteq Q
        OBVIOUS
    <2> HIDE DEF seqs, Q
    <2> QED
        BY <2>3, <2>4, <2>5, SeqMonotonic
<1>5. seqs \in Seq(Seq(Intervals)) /\ seqs \in Seq(Seq(Q))
    <2>1. seqs \in [1 .. n -> Seq(Intervals)] /\ seqs \in [1 .. n -> Seq(Q)]
        BY <1>1, <1>4 DEF PartPairs
    <2> QED
        BY <1>1, <2>1, SeqDef
<1> HIDE DEF seqs, Q
<1>6. FlattenSeq(seqs) \in Seq(Intervals) /\ FlattenSeq(seqs) \in Seq(Q)
    BY <1>5, FlattenedPairs
<1>7. FlattenSeq(seqs) = <<>> => \A i \in DOMAIN limits.parts : seqs[i] = <<>>
    BY <1>3, <1>5, FlattenedPairs
<1>8. FlattenSeq(seqs) # <<>> => FlattenSeq(seqs)[1] \in Q
    BY <1>6, EmptySeq
<1> QED
    BY <1>2, <1>6, <1>7, <1>8 DEF seqs, Q

LEMMA BoundsType ==
    ASSUME NEW limits, WellLimited(limits), NEW kind \in {"range", "size"}
    PROVE  Bounds(limits, kind) \in Seq(Intervals)
<1>1. limits.pairs \in Seq(Intervals) /\ <<>> \in Seq(Intervals)
    BY WellBoundedPairs DEF WellLimited
<1> QED
    BY <1>1, UnionBounds DEF Bounds

\* A number or a text within the first of its bounds breaks no limit, whatever
\* the other bounds are.
LEMMA FirstBoundHolds ==
    ASSUME NEW limits, WellLimited(limits), NEW kind \in {"range", "size"}, NEW value,
           value.sort = IF kind = "range" THEN "number" ELSE "octets",
           Bounds(limits, kind) # <<>> =>
              /\ Bounds(limits, kind)[1][1] <= value.n
              /\ value.n <= Bounds(limits, kind)[1][2]
    PROVE  ~Breaks(value, limits)
<1>1. ASSUME NEW l, l.kind = kind => Within(value.n, l.pairs) PROVE ~BreaksOne(value, l)
    BY <1>1 DEF BreaksOne
<1>2. CASE limits.kind = "union"
    <2>1. \E i \in DOMAIN limits.parts :
             limits.parts[i].kind = kind => Within(value.n, limits.parts[i].pairs)
        <3>1. CASE Bounds(limits, kind) = <<>>
            <4>1. 1 \in DOMAIN limits.parts
                BY <1>2, EmptySeq, LenProperties DEF WellLimited
            <4>2. PartPairs(limits, kind)[1] = <<>>
                BY <1>2, <3>1, <4>1, UnionBounds
            <4> QED
                BY <4>1, <4>2 DEF PartPairs, Within
        <3>2. CASE Bounds(limits, kind) # <<>>
            <4>1. PICK i \in DOMAIN limits.parts :
                     Bounds(limits, kind)[1] \in Range(PartPairs(limits, kind)[i])
                BY <1>2, <3>2, UnionBounds
            <4>2. limits.parts[i].kind = kind =>
                     Bounds(limits, kind)[1] \in Range(limits.parts[i].pairs)
                BY <4>1 DEF PartPairs
            <4> QED
                BY <3>2, <4>2 DEF Within
        <3> QED
            BY <3>1, <3>2
    <2>2. PICK i \in DOMAIN limits.parts : ~BreaksOne(value, limits.parts[i])
        BY <1>1, <2>1
    <2>3. limits.parts[i] \in Range(limits.parts)
        BY DEF Range
    <2> QED
        BY <1>2, <2>2, <2>3 DEF Breaks
<1>3. CASE limits.kind = kind
    <2>1. Bounds(limits, kind) = limits.pairs
        BY <1>3 DEF Bounds
    <2>2. limits.pairs \in Seq(Int \X Int)
        BY DEF WellLimited, WellBounded
    <2>3. limits.pairs # <<>> => limits.pairs[1] \in Range(limits.pairs)
        BY <2>2, EmptySeq, LenProperties DEF Range
    <2>4. Within(value.n, limits.pairs)
        BY <2>1, <2>3 DEF Within
    <2> QED
        BY <1>1, <1>3, <2>4 DEF Breaks
<1>4. CASE limits.kind # "union" /\ limits.kind # kind
    BY <1>1, <1>4 DEF Breaks
<1> QED
    BY <1>2, <1>3, <1>4

\* A length cut or padded to the first of some size bounds.
LEMMA ClampedHolds ==
    ASSUME NEW pairs \in Seq(Intervals), NEW length \in Nat
    PROVE  /\ Clamped(length, pairs) \in Int
           /\ pairs # <<>> =>
                 pairs[1][1] <= Clamped(length, pairs) /\ Clamped(length, pairs) <= pairs[1][2]
<1>1. pairs # <<>> => pairs[1] \in Intervals
    BY EmptySeq
<1> QED
    BY <1>1 DEF Clamped, Intervals

\* A default whose value keeps the first bound of its kind is taken.
LEMMA NumberTaken ==
    ASSUME NEW limits, WellLimited(limits), NEW type \in Numeric, NEW n \in Int,
           type \in Unsigned => n >= 0,
           Bounds(limits, "range") # <<>> =>
              Bounds(limits, "range")[1][1] <= n /\ n <= Bounds(limits, "range")[1][2]
    PROVE  Taken(Number(type, n), limits)
<1>1. ~Malformed(Number(type, n))
    BY DEF Malformed, Number, Numeric, Unsigned
<1>2. Parsed(Number(type, n)) = [sort |-> "number", n |-> n]
    BY DEF Parsed, Number
<1>3. ~Breaks([sort |-> "number", n |-> n], limits)
    BY FirstBoundHolds
<1> QED
    BY <1>1, <1>2, <1>3 DEF Taken

LEMMA OctetsTaken ==
    ASSUME NEW limits, WellLimited(limits), NEW n \in Int,
           Bounds(limits, "size") # <<>> =>
              Bounds(limits, "size")[1][1] <= n /\ n <= Bounds(limits, "size")[1][2]
    PROVE  Taken(Text(n), limits) /\ Taken(Hex(2 * n), limits)
<1>1. ~Malformed(Text(n)) /\ ~Malformed(Hex(2 * n))
    BY DEF Malformed, Text, Hex, Unsigned
<1>2. /\ Parsed(Text(n)) = [sort |-> "octets", n |-> n]
      /\ Parsed(Hex(2 * n)) = [sort |-> "octets", n |-> n]
    BY DEF Parsed, Text, Hex, Numeric, Unsigned
<1>3. ~Breaks([sort |-> "octets", n |-> n], limits)
    BY FirstBoundHolds
<1> QED
    BY <1>1, <1>2, <1>3 DEF Taken

LEMMA OtherTaken ==
    ASSUME NEW limits, WellLimited(limits), NEW type \in {"object-identifier", "ip-address", "opaque"}
    PROVE  Taken(Other(type), limits)
<1>1. ~Malformed(Other(type))
    BY DEF Malformed, Other, Unsigned
<1>2. Parsed(Other(type)) = [sort |-> "other", n |-> 0]
    BY DEF Parsed, Other, Numeric, Unsigned
<1>3. \A l : ~BreaksOne([sort |-> "other", n |-> 0], l)
    BY DEF BreaksOne
<1>4. ASSUME limits.kind = "union" PROVE \E part \in Range(limits.parts) : TRUE
    <2>1. Len(limits.parts) \in Nat \ {0} /\ DOMAIN limits.parts = 1 .. Len(limits.parts)
        BY <1>4, EmptySeq, LenProperties DEF WellLimited
    <2>2. 1 \in DOMAIN limits.parts
        BY <2>1
    <2> QED
        BY <2>2 DEF Range
<1>5. ~Breaks([sort |-> "other", n |-> 0], limits)
    BY <1>3, <1>4 DEF Breaks
<1> QED
    BY <1>1, <1>2, <1>5 DEF Taken

\* Every default drawn for a node is of a type, and taken.
LEMMA DefaultForTaken ==
    ASSUME NEW node, WellDeclared(node)
    PROVE  \A spec \in DefaultFor(node) : Taken(spec, EffectiveLimits(node))
<1> DEFINE limits == EffectiveLimits(node)
           s == WireSyntax[node.syntax, {}]
           ranges == Bounds(limits, "range")
           sizes == Bounds(limits, "size")
<1>1. WellLimited(limits) /\ node.nameLength \in Nat /\ node.enums \in Seq(Int)
    BY DEF WellDeclared
<1>2. ranges \in Seq(Intervals) /\ sizes \in Seq(Intervals)
    BY <1>1, BoundsType
<1>3. ranges # <<>> => ranges[1] \in Intervals /\ ranges[1] \in Range(ranges)
    BY <1>2, EmptySeq, LenProperties DEF Range
<1>4. NumericType(s) \in Numeric
    BY DEF NumericType, Numeric, Unsigned
<1>5. NumericType(s) \in Unsigned /\ ranges # <<>> => ranges[1][2] >= 0
    BY <1>3 DEF WellDeclared
<1>6. node.enums # <<>> => node.enums[1] \in Int /\ ranges = <<>>
    <2>1. node.enums # <<>> => Len(node.enums) \in Nat \ {0}
        BY <1>1, EmptySeq
    <2>2. node.enums # <<>> => node.enums[1] \in Int
        BY <1>1, <2>1, ElementOfSeq
    <2> QED
        BY <2>2 DEF WellDeclared
<1>7. s = "BITS" \/ IsBits(node) => sizes = <<>>
    BY DEF WellDeclared
<1>8. DefaultFor(node) =
         IF s = "BITS" \/ IsBits(node) THEN {Text(0)}
         ELSE IF node.enums # <<>> THEN {Number("integer", node.enums[1])}
         ELSE IF ranges # <<>> THEN DrawInRange(s, ranges[1][1], ranges[1][2])
         ELSE DefaultOfWire(s, node, limits)
    BY DEF DefaultFor
<1> HIDE DEF s, limits, ranges, sizes
<1>9. \A l \in Nat : Clamped(l, sizes) \in Int /\ (sizes # <<>> =>
         sizes[1][1] <= Clamped(l, sizes) /\ Clamped(l, sizes) <= sizes[1][2])
    BY <1>2, ClampedHolds
<1>10. ASSUME sizes = <<>> PROVE Taken(Text(0), limits)
    BY <1>1, <1>10, OctetsTaken DEF sizes
<1>11. ASSUME node.enums # <<>> PROVE Taken(Number("integer", node.enums[1]), limits)
    BY <1>1, <1>6, <1>11, NumberTaken DEF ranges, Numeric, Unsigned
<1>12. ASSUME ranges # <<>>, NEW spec \in DrawInRange(s, ranges[1][1], ranges[1][2])
       PROVE  Taken(spec, limits)
    <2> DEFINE lo == IF ranges[1][2] >= 0 /\ ranges[1][1] < 0 THEN 0 ELSE ranges[1][1]
               hi == ranges[1][2]
    <2>1. lo \in Int /\ hi \in Int /\ ranges[1][1] <= lo /\ lo <= hi
        BY <1>3, <1>12 DEF Intervals
    <2>2. NumericType(s) \in Unsigned => lo >= 0 /\ hi >= 0
        BY <1>3, <1>5, <1>12 DEF Intervals
    <2>3. PICK n \in {lo, hi} : spec = Number(NumericType(s), n)
        BY <1>12 DEF DrawInRange, Draw
    <2>4. n \in Int /\ ranges[1][1] <= n /\ n <= ranges[1][2] /\ (NumericType(s) \in Unsigned => n >= 0)
        BY <1>3, <1>12, <2>1, <2>2 DEF Intervals
    <2> HIDE DEF lo, hi
    <2> QED
        BY <1>1, <1>4, <2>3, <2>4, NumberTaken DEF ranges
<1>13. ASSUME ranges = <<>>, NEW spec \in DefaultOfWire(s, node, limits)
       PROVE  Taken(spec, limits)
    <2>1. ASSUME NEW type \in Numeric, NEW lo \in Nat, NEW hi \in Nat, spec \in Draw(type, lo, hi)
          PROVE  Taken(spec, limits)
        <3>1. PICK n \in {lo, hi} : spec = Number(type, n)
            BY <2>1 DEF Draw
        <3> QED
            BY <1>1, <1>13, <3>1, NumberTaken DEF ranges
    <2>2. Taken(Mac(limits), limits)
        BY <1>1, <1>9, OctetsTaken DEF Mac, sizes
    <2>3. Taken(Text(Clamped(node.nameLength + 2, Bounds(limits, "size"))), limits)
        <3>1. node.nameLength + 2 \in Nat
            BY <1>1
        <3>2. WellLimited(limits)
            BY <1>1
        <3> QED
            BY <1>9, <3>1, <3>2, OctetsTaken DEF sizes
    <2>4. \/ \E type \in Numeric, lo, hi \in Nat : spec \in Draw(type, lo, hi)
          \/ spec \in {Other("object-identifier"), Other("ip-address"), Other("opaque")}
          \/ spec = Mac(limits)
          \/ spec = Text(Clamped(node.nameLength + 2, Bounds(limits, "size")))
        <3>1. "gauge32" \in Numeric /\ "timeticks" \in Numeric /\ "integer" \in Numeric
            BY DEF Numeric, Unsigned
        <3>2. \/ spec \in Draw(NumericType(s), 1000, 999999)
              \/ spec \in Draw("gauge32", 1, 1000000000)
              \/ spec \in Draw("timeticks", 0, 5000000)
              \/ spec \in Draw("integer", 1, 100)
              \/ spec \in {Other("object-identifier"), Other("ip-address"), Other("opaque")}
              \/ spec = Mac(limits)
              \/ spec = Text(Clamped(node.nameLength + 2, Bounds(limits, "size")))
            BY <1>13 DEF DefaultOfWire
        <3> QED
            BY <1>4, <3>1, <3>2
    <2> QED
        BY <1>1, <2>1, <2>2, <2>3, <2>4, OtherTaken
<1> QED
    BY <1>7, <1>8, <1>10, <1>11, <1>12, <1>13 DEF limits

\* A default is a record, and only a text has an encoding.
LEMMA DefaultForFields ==
    ASSUME NEW node, NEW spec \in DefaultFor(node)
    PROVE  /\ \E type, n, encoding : spec = [type |-> type, n |-> n, encoding |-> encoding]
           /\ spec.type \in Numeric => spec.encoding = "none"
<1> DEFINE Plain(x) == \/ \E type, n : x = Number(type, n)
                       \/ \E n : x = Text(n)
                       \/ \E n : x = Hex(n)
                       \/ \E type : x = Other(type)
<1>1. \A s, l : \A x \in DefaultOfWire(s, node, l) : Plain(x)
    BY DEF DefaultOfWire, Draw, Mac
<1>2. \A s, lo, hi : \A x \in DrawInRange(s, lo, hi) : Plain(x)
    BY DEF DrawInRange, Draw
<1>3. Plain(Text(0)) /\ Plain(Number("integer", node.enums[1]))
    OBVIOUS
<1> HIDE DEF Plain
<1>4. Plain(spec)
    BY <1>1, <1>2, <1>3 DEF DefaultFor
<1> USE DEF Plain
<1> QED
    BY <1>4 DEF Number, Text, Hex, Other, Numeric, Unsigned

\* Numbering a row keeps a default acceptable.
LEMMA RowValueTaken ==
    ASSUME NEW node, WellDeclared(node), NEW row \in Nat, NEW spec \in DefaultFor(node)
    PROVE  Taken(RowValue(node, row, spec), EffectiveLimits(node))
<1>1. Taken(spec, EffectiveLimits(node))
    BY DefaultForTaken
<1>2. ASSUME spec.type \in Numeric, ~Breaks([sort |-> "number", n |-> row], EffectiveLimits(node))
      PROVE  Taken([spec EXCEPT !.n = row], EffectiveLimits(node))
    <2> DEFINE numbered == [spec EXCEPT !.n = row]
    <2>1. \E type, n, encoding : spec = [type |-> type, n |-> n, encoding |-> encoding]
        BY DefaultForFields
    <2>2. /\ numbered.type = spec.type
          /\ numbered.n = row
          /\ numbered.encoding = spec.encoding
        BY <2>1
    <2> HIDE DEF numbered
    <2>3. numbered.encoding = "none"
        BY <1>2, <2>2, DefaultForFields
    <2>4. Parsed(numbered) = [sort |-> "number", n |-> row]
        BY <1>2, <2>2, <2>3 DEF Parsed
    <2>5. ~Malformed(numbered)
        BY <2>2, <2>3 DEF Malformed, Unsigned
    <2> QED
        BY <1>2, <2>4, <2>5 DEF Taken, numbered
<1> QED
    BY <1>1, <1>2 DEF RowValue

LEMMA DefaultsAreTaken ==
    ASSUME NEW node, WellDeclared(node)
    PROVE  \A spec \in Defaults(node) : Taken(spec, EffectiveLimits(node))
<1>1. 1 .. 2 \subseteq Nat
    OBVIOUS
<1> QED
    BY <1>1, DefaultForTaken, RowValueTaken DEF Defaults

-----------------------------------------------------------------------------

\* Every state of the simulator is well typed.
THEOREM SimTypeCorrect == SimSpec => []SimTypeOK
<1>1. TypeOK /\ DataInv => SimTypeOK
    BY DEF DataInv, Reading, SimTypeOK
<1> QED
    BY <1>1, DataInductive, LifecycleSpec, TypeCorrect, PTL

\* Through saves, starts, failures, bundle switches and crashes, overlapping
\* requests included, a responder answers what its bundle and the stored file
\* make together, unless the file has changed under it.
THEOREM ServesWhatIsStored == SimSpec => []ServesStored
<1>1. DataInv => ServesStored
    BY DEF DataInv, Reading, ServesStored
<1> QED
    BY <1>1, DataInductive, PTL

\* Custom data that a responder runs with, and no switch of bundles or save that
\* failed half-way has come between, would be accepted by a start.
RunningDataStarts ==
    responder # NoEndpoint /\ bound # NoBundle /\ served.fresh = "yes" /\ ~RestartRequired
        => BadDataCannotBlockStart

\* simulator_service.start: what BadDataCannotBlockStart says of stored data is
\* true of the data a responder answers with as long as the status asks for no
\* restart, so stopping it and starting it again cannot fail on its custom data.
THEOREM WhatRunsCanRestart == SimSpec => []RunningDataStarts
<1>1. DataInv => RunningDataStarts
    BY DEF DataInv, Reading, RunningDataStarts, RestartRequired, BadDataCannotBlockStart
<1> QED
    BY <1>1, DataInductive, PTL

\* The status asks for a restart exactly when the responder answers from
\* another bundle than the active one.
THEOREM RestartFlagIsRight == SimSpec => []RestartRequiredIsRight
<1>1. DataInv => RestartRequiredIsRight
    BY DEF DataInv, RestartRequiredIsRight, RestartRequired
<1> QED
    BY <1>1, DataInductive, PTL

\* With one request at a time a crash, a failed save or a bundle switch leaves
\* no responder serving without a reference.
THEOREM SimulatorNoOrphan ==
    ASSUME Serialised
    PROVE  SimSpec => []NoOrphan
<1>1. Spec => []NoOrphan
    BY SerialNoOrphan
<1> QED
    BY <1>1, LifecycleSpec, PTL

\* With one request at a time a running responder has an uptime.
THEOREM SimulatorUptimeKnown ==
    ASSUME Serialised
    PROVE  SimSpec => []UptimeKnown
<1>1. Spec => []UptimeKnown
    BY SerialUptimeKnown
<1> QED
    BY <1>1, LifecycleSpec, PTL

\* With one request at a time the simulator, too, implements SingleEndpoint.
THEOREM SimulatorOneEndpoint ==
    ASSUME Serialised
    PROVE  SimSpec => OneEndpointAtATime
<1>1. Spec => OneEndpointAtATime
    BY ImplementsSingleEndpoint
<1> QED
    BY <1>1, LifecycleSpec, PTL

\* Whatever the active bundle declares, through textual conventions, unions,
\* sizes in octets, negative ranges and row numbers, the runtime takes every
\* default drawn for it, unless the node it finds at the OID is another
\* module's with other limits.
THEOREM EveryDefaultAccepted == SimSpec => []DefaultsAccepted
<1>1. \A b \in Bundles : DefaultsTaken[b]
    <2> SUFFICES ASSUME NEW b \in Bundles, NEW object \in Objects[b],
                        NEW spec \in Defaults(object.node),
                        EffectiveLimits(object.found) = EffectiveLimits(object.node)
                 PROVE  Taken(spec, EffectiveLimits(object.found))
        BY DEF DefaultsTaken
    <2>1. WellDeclared(object.node)
        BY ObjectsAssumption
    <2> QED
        BY <2>1, DefaultsAreTaken
<1>2. DataInv => DefaultsAccepted
    BY <1>1 DEF DataInv, DefaultsAccepted
<1> QED
    BY <1>2, DataInductive, PTL
=============================================================================
