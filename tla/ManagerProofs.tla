--------------------------- MODULE ManagerProofs ---------------------------
(***************************************************************************)
(* Manager: types, that one process reconciles at a time, that the leaders *)
(* of an election together implement DiagnosisLifecycle and space their    *)
(* calls of the LLM, and that nobody leads who may not write leases.       *)
(***************************************************************************)
EXTENDS Manager, LifecycleProofs

---------------------------------------------------------------------------
(* Core holds through starts, elections and exits.                         *)

LEMMA ListAnewKeepsCore ==
    ASSUME Core, NEW r \in Replicas, ListAnew(r)
    PROVE  Core'
<1>1. TypeOK'
  <2>1. /\ podView' \in [Replicas -> [Pods -> PodObject \cup {Absent}]]
        /\ cdView' \in [Replicas -> [Names -> Diagnosis \cup {Absent}]]
    BY DEF ListAnew, Core, TypeOK
  <2>2. queue' \in [Replicas -> SUBSET Pods]
    BY DEF ListAnew, FailingPods, Core, TypeOK
  <2> QED
    BY <2>1, <2>2 DEF ListAnew, Core, TypeOK, store, job, patch, pending, meter
<1>2. UNCHANGED <<cd, job, patch>>
  BY DEF ListAnew, store
<1> QED
  BY <1>1, <1>2 DEF Core, JobOK, JobAt, LoopOK, LoopAt, NameOf, job, patch

LEMMA ExitLocal ==
    ASSUME TypeOK, NEW r \in Replicas, Exit(r)
    PROVE  /\ UNCHANGED store
           /\ pc'[r] = "idle" /\ cur'[r] = Absent /\ fresh'[r] = FALSE
           /\ \A p \in Pods: podView'[r][p] = Absent
           /\ \A q \in Replicas \ {r}: /\ Untouched(q)
                                       /\ podView'[q] = podView[q]
                                       /\ fresh'[q] = fresh[q]
BY FinishLocal DEF Exit, TypeOK, Untouched

LEMMA ExitKeepsCore ==
    ASSUME Core, NEW r \in Replicas, Exit(r), faults' \in 0 .. MaxFaults
    PROVE  Core'
<1> USE DEF Core
<1>1. TypeOK'
  <2>1. /\ podView' \in [Replicas -> [Pods -> PodObject \cup {Absent}]]
        /\ cdView' \in [Replicas -> [Names -> Diagnosis \cup {Absent}]]
    BY DEF Exit, TypeOK
  <2>2. queue' \in [Replicas -> SUBSET Pods] /\ fresh' \in [Replicas -> BOOLEAN]
    BY DEF Exit, TypeOK
  <2>3. timer' \in [Replicas -> [Pods -> Ages]]
    BY BoundsAssumption DEF Exit, TypeOK, Ages
  <2>4. Finish(r)
    BY DEF Exit
  <2> QED
    BY <2>1, <2>2, <2>3, <2>4, FinishType DEF Exit, TypeOK, store, meter
<1>2. ASSUME NEW q \in Replicas PROVE JobAt(q)' /\ LoopAt(q)'
  <2>1. CASE q = r
    BY <2>1, ExitLocal DEF JobAt, LoopAt, PatchSteps
  <2>2. CASE q # r
    BY <2>2, ExitLocal DEF JobOK, JobAt, LoopOK, LoopAt, NameOf, Untouched, store
  <2> QED
    BY <2>1, <2>2
<1> QED
  BY <1>1, <1>2 DEF JobOK, LoopOK

---------------------------------------------------------------------------
(* Types, and one process at a time.                                       *)

ElectionOK ==
    /\ process \in [Replicas -> {"down", "standby", "running"}]
    /\ holder \in Replicas \cup {Absent}
    /\ leaseAge \in 0 .. LeaseDuration
    /\ stamped \in [Names -> BOOLEAN]
    /\ \A r \in Replicas: pc[r] # "idle" => Running(r)
    /\ OnlyTheHolderRuns

\* What one step of the whole does to the controller.
Keeps == UNCHANGED <<process, holder>> /\ leaseAge' = leaseAge
Runs(r) == Running(r) /\ Keeps /\ Acts(r) /\ ~Environment
Ends(r) == Exit(r) /\ faults' \in 0 .. MaxFaults

LEMMA ManagerStep ==
    ASSUME Core, [ManagerNext]_managerVars
    PROVE  \/ Environment
           \/ \E r \in Replicas: Runs(r) \/ Begin(r) \/ Ends(r)
<1>1. CASE UNCHANGED managerVars
  BY <1>1 DEF managerVars, Environment
<1>2. CASE Cluster \/ Time
  BY <1>2 DEF Time, Environment
<1>3. ASSUME NEW r \in Replicas, StartProcess(r) \/ Renew(r) PROVE Environment
  BY <1>3 DEF StartProcess, Renew, Environment
<1>4. ASSUME NEW r \in Replicas, Crash(r) \/ LoseLease(r) PROVE Ends(r)
  <2>1. faults' \in 0 .. MaxFaults
    BY <1>4, SpendType DEF Crash, LoseLease, Core
  <2> QED
    BY <1>4, <2>1 DEF Crash, LoseLease, Ends
<1>5. ASSUME NEW r \in Replicas, While(r, Controller(r)) PROVE Environment \/ Runs(r)
  <2>1. Running(r) /\ Keeps
    BY <1>5 DEF While, Keeps, election
  <2>2. Informers(r) \/ Reconciles(r)
    BY <1>5 DEF While, Controller, CallFails, Reconciles, Trouble
  <2> QED
    BY <2>1, <2>2 DEF Runs, Acts, Environment
<1> QED
  BY <1>1, <1>2, <1>3, <1>4, <1>5 DEF ManagerNext

LEMMA ManagerCoreStep ==
    ASSUME Core, [ManagerNext]_managerVars
    PROVE  Core'
<1>1. CASE Environment
  <2>1. [Next]_vars
    BY <1>1 DEF Environment, Next
  <2> QED
    BY <2>1, NextCore
<1>2. ASSUME NEW r \in Replicas, Runs(r) PROVE Core'
  BY <1>2, ActsStep, NextCore DEF Runs
<1>3. ASSUME NEW r \in Replicas, Begin(r) PROVE Core'
  BY <1>3, ListAnewKeepsCore DEF Begin
<1>4. ASSUME NEW r \in Replicas, Ends(r) PROVE Core'
  BY <1>4, ExitKeepsCore DEF Ends
<1> QED
  BY <1>1, <1>2, <1>3, <1>4, ManagerStep

\* What the stamps and the lease become keeps its type.
LEMMA StampType ==
    ASSUME stamped \in [Names -> BOOLEAN], NEW r \in Replicas, Stamp(r)
    PROVE  stamped' \in [Names -> BOOLEAN]
<1>1. ASSUME NEW n \in Names
      PROVE  (IF pc[r] = "llm" /\ pc'[r] = "answer" /\ n = NameOf(r) THEN FALSE
              ELSE stamped[n] \/ (pc[r] = "meta" /\ n = NameOf(r) /\ cd'[n] # cd[n])) \in BOOLEAN
  OBVIOUS
<1> QED
  BY <1>1, Zenon DEF Stamp

LEMMA ElectionStep ==
    ASSUME Core, ElectionOK, [ManagerNext]_managerVars
    PROVE  ElectionOK'
<1> USE DEF Running
<1>1. CASE UNCHANGED managerVars
  BY <1>1 DEF managerVars, vars, job, election, ElectionOK, OnlyTheHolderRuns
<1>2. CASE Cluster /\ UNCHANGED <<election, stamped>>
  <2>1. UNCHANGED pc
    BY <1>2, EnvironmentStep DEF Environment, Core
  <2> QED
    BY <1>2, <2>1 DEF election, ElectionOK, OnlyTheHolderRuns
<1>3. CASE Time
  <2>1. UNCHANGED pc
    BY <1>3, EnvironmentStep DEF Environment, Core, Time
  <2>2. leaseAge' \in 0 .. LeaseDuration
    BY <1>3, ElectionAssumption DEF Time, ElectionOK
  <2>3. OnlyTheHolderRuns'
    BY <1>3, ElectionAssumption DEF Time, ElectionOK, OnlyTheHolderRuns
  <2> QED
    BY <1>3, <2>1, <2>2, <2>3 DEF Time, ElectionOK
<1>4. ASSUME NEW r \in Replicas, StartProcess(r) PROVE ElectionOK'
  BY <1>4 DEF StartProcess, Becomes, vars, job, ElectionOK, OnlyTheHolderRuns
<1>5. ASSUME NEW r \in Replicas, Begin(r) PROVE ElectionOK'
  <2>1. UNCHANGED pc
    BY <1>5 DEF Begin, ListAnew, job
  <2>2. /\ process' \in [Replicas -> {"down", "standby", "running"}]
        /\ process'[r] = "running"
        /\ \A q \in Replicas \ {r}: process'[q] = process[q]
    BY <1>5 DEF Begin, Becomes, ElectionOK
  <2>3. holder' \in Replicas \cup {Absent} /\ leaseAge' \in 0 .. LeaseDuration
    BY <1>5, ElectionAssumption DEF Begin, Elected, ElectionOK
\* Whoever still ran would hold a younger lease.
  <2>4. OnlyTheHolderRuns'
    <3> SUFFICES ASSUME LeaderElect
                 PROVE  \A q \in Replicas: Running(q)' =>
                            holder' = q /\ leaseAge' <= RenewDeadline
      BY DEF OnlyTheHolderRuns
    <3>1. leaseAge = LeaseDuration /\ holder' = r /\ leaseAge' = 0
      BY <1>5 DEF Begin, Elected
    <3>2. \A q \in Replicas: ~Running(q)
      BY <3>1, ElectionAssumption DEF ElectionOK, OnlyTheHolderRuns
    <3> QED
      BY <2>2, <3>1, <3>2, ElectionAssumption
  <2> QED
    BY <1>5, <2>1, <2>2, <2>3, <2>4 DEF Begin, ElectionOK
<1>6. ASSUME NEW r \in Replicas, Renew(r) PROVE ElectionOK'
  BY <1>6, ElectionAssumption DEF Renew, vars, job, ElectionOK, OnlyTheHolderRuns
<1>7. ASSUME NEW r \in Replicas, Exit(r) PROVE ElectionOK'
  <2>1. pc'[r] = "idle" /\ \A q \in Replicas \ {r}: pc'[q] = pc[q]
    BY <1>7, ExitLocal DEF Core, Untouched
  <2>2. /\ process' \in [Replicas -> {"down", "standby", "running"}]
        /\ process'[r] = "down"
        /\ \A q \in Replicas \ {r}: process'[q] = process[q]
        /\ UNCHANGED <<holder, leaseAge, stamped>>
    BY <1>7 DEF Exit, Becomes, ElectionOK
  <2> QED
    BY <2>1, <2>2 DEF ElectionOK, OnlyTheHolderRuns
<1>8. ASSUME NEW r \in Replicas, While(r, Controller(r)) PROVE ElectionOK'
  <2>1. \A q \in Replicas \ {r}: pc'[q] = pc[q]
    <3>1. CASE Informers(r)
      BY <3>1, EnvironmentStep DEF Environment, Core
    <3>2. CASE Reconciles(r)
      BY <3>2, OthersUntouched DEF Core, Untouched
    <3> QED
      BY <1>8, <3>1, <3>2 DEF While, Controller, CallFails, Reconciles, Trouble
  <2>2. Running(r) /\ UNCHANGED election /\ Stamp(r)
    BY <1>8 DEF While
  <2>3. stamped' \in [Names -> BOOLEAN]
    BY <2>2, StampType DEF ElectionOK
  <2> QED
    BY <2>1, <2>2, <2>3 DEF election, ElectionOK, OnlyTheHolderRuns
<1> QED
  BY <1>1, <1>2, <1>3, <1>4, <1>5, <1>6, <1>7, <1>8 DEF ManagerNext, Crash, LoseLease

LEMMA ManagerStart == ManagerInit => Core /\ ElectionOK
BY InitCore, ElectionAssumption
   DEF ManagerInit, Init, ElectionOK, OnlyTheHolderRuns, Running

\* Types, versions and loops stay right through crashes, lost leases and elections.
THEOREM ManagerInvariant == ManagerSpec => [](Core /\ ElectionOK)
<1>1. Core /\ ElectionOK /\ [ManagerNext]_managerVars => Core' /\ ElectionOK'
  BY ManagerCoreStep, ElectionStep
<1> QED
  BY <1>1, ManagerStart, PTL DEF ManagerSpec

\* Every variable of the processes, the lease and their controllers keeps its type.
THEOREM ManagerTypeCorrect == ManagerSpec => []ManagerTypeOK
<1>1. Core /\ ElectionOK => ManagerTypeOK
  BY DEF Core, ElectionOK, ManagerTypeOK
<1> QED
  BY <1>1, ManagerInvariant, PTL

\* With --leader-elect, for any number of replicas and whichever of them crash or
\* lose the lease, at most one reconciles at a time, and it holds the lease.
THEOREM OneAtATime == ManagerSpec => []OnlyTheHolderRuns
<1>1. Core /\ ElectionOK => OnlyTheHolderRuns
  BY DEF ElectionOK
<1> QED
  BY <1>1, ManagerInvariant, PTL

---------------------------------------------------------------------------
(* The leaders together follow the lifecycle of DiagnosisLifecycle.        *)

\* A conclusion is not newer than the pod it is about.
Concluded ==
    \A n \in Names: cd[n] # Absent /\ cd[n].diag # Absent =>
        /\ cd[n].diag.obs <= rv
        /\ pod[cd[n].diag.pod] # Absent => cd[n].diag.obs <= pod[cd[n].diag.pod].rv

\* What holds besides Core and ElectionOK: a leader starts from what the store
\* has, and is the only one to add to it.
Succession ==
    /\ RevisionsOK /\ InOrder /\ AboutItsTarget /\ Concluded
    /\ \A r \in Replicas: Running(r) => Orderly(r)

LEMMA ConcludedByEnvironment ==
    ASSUME Core, InOrder, Concluded, Environment
    PROVE  Concluded'
<1>1. [Next]_vars
  BY DEF Environment, Next
<1>2. /\ rv \in Nat /\ rv' \in Nat /\ rv <= rv'
      /\ \A p \in Pods: \/ pod'[p] = pod[p]
                        \/ pod'[p] = Absent
                        \/ pod'[p] \in PodObject /\ pod'[p].rv = rv + 1
  BY <1>1, PodsMove, NextCore DEF InOrder, Core, TypeOK
<1> SUFFICES ASSUME NEW n \in Names, cd'[n] # Absent, cd'[n].diag # Absent
             PROVE  /\ cd'[n].diag.obs <= rv'
                    /\ pod'[cd'[n].diag.pod] # Absent =>
                         cd'[n].diag.obs <= pod'[cd'[n].diag.pod].rv
  BY DEF Concluded
<1>3. cd[n] # Absent /\ cd'[n].diag = cd[n].diag
  BY EnvironmentStep DEF Same, Core
<1>4. /\ cd[n].diag.obs \in Nat /\ cd[n].diag.pod \in Pods /\ cd[n].diag.obs <= rv
      /\ pod[cd[n].diag.pod] # Absent => cd[n].diag.obs <= pod[cd[n].diag.pod].rv
  BY <1>3 DEF Concluded, Core, TypeOK, Diagnosis, Evidence
<1> QED
  BY <1>2, <1>3, <1>4

\* Other workers than that of the leader are idle.
LEMMA LeaderAlone ==
    ASSUME LeaderElect, ElectionOK, NEW r \in Replicas, Running(r)
    PROVE  Alone(r)
BY DEF ElectionOK, OnlyTheHolderRuns, Alone

\* A leader begins with fresh lists, and with nothing in hand.
LEMMA BeginStep ==
    ASSUME LeaderElect, Core, ElectionOK, ElectionOK', Succession, NEW r \in Replicas, Begin(r)
    PROVE  Succession' /\ Statuses' = Statuses
<1>1. /\ UNCHANGED <<pod, cd, rv, pc, req, snap, logs>>
      /\ podView' = [podView EXCEPT ![r] = pod]
  BY DEF Begin, ListAnew, store, job, pending
<1>2. podView'[r] = pod /\ \A q \in Replicas \ {r}: podView'[q] = podView[q]
  BY <1>1 DEF Core, TypeOK
<1>3. pc[r] = "idle" /\ \A q \in Replicas: Running(q)' => q = r
  BY <1>1 DEF Begin, ElectionOK, Running, OnlyTheHolderRuns, Becomes
<1>4. RevisionsOK'
  BY <1>1, <1>2 DEF Succession, RevisionsOK, Dated
<1>5. InOrder'
  <2>1. \A p \in Pods: pod[p] # Absent => pod[p].rv <= pod[p].rv
    BY DEF Core, TypeOK, PodObject
  <2> QED
    BY <1>1, <1>2, <1>3, <2>1 DEF Succession, InOrder, Seen
<1>6. AboutItsTarget' /\ Concluded'
  BY <1>1 DEF Succession, AboutItsTarget, Concluded
<1>7. LogsDated(r)' /\ AnnouncedAt(r)'
  BY <1>1, <1>3 DEF LogsDated, AnnouncedAt, AnswerSteps, AnalysisSteps
<1>8. Observed(r)'
  <2>1. \A n \in Names: cd[n] # Absent /\ cd[n].diag # Absent => cd[n].diag.pod \in Pods
    BY DEF Core, TypeOK, Diagnosis, Evidence
  <2> QED
    BY <1>1, <1>2, <1>3, <2>1 DEF Succession, Concluded, Observed, Seen
<1>9. Statuses' = Statuses
  BY <1>1, StatusesUnchanged
<1> QED
  BY <1>3, <1>4, <1>5, <1>6, <1>7, <1>8, <1>9 DEF Succession, Orderly

\* Whoever exits leaves the store as it is.
LEMMA ExitStep ==
    ASSUME LeaderElect, Core, ElectionOK, Succession, NEW r \in Replicas, Exit(r),
           \A q \in Replicas: Running(q)' => q # r /\ Running(q)
    PROVE  Succession' /\ Statuses' = Statuses
<1>1. /\ UNCHANGED <<pod, cd, rv>>
      /\ pc'[r] = "idle" /\ \A p \in Pods: podView'[r][p] = Absent
      /\ \A q \in Replicas \ {r}: podView'[q] = podView[q] /\ Untouched(q)
  BY ExitLocal DEF Core, store
<1>2. \A q \in Replicas \ {r}: /\ pc'[q] = pc[q] /\ req'[q] = req[q] /\ snap'[q] = snap[q]
                               /\ logs'[q] = logs[q]
  BY <1>1 DEF Untouched
<1>3. RevisionsOK'
  BY <1>1, <1>2 DEF Succession, RevisionsOK, Dated, AnswerSteps
<1>4. InOrder'
  BY <1>1, <1>2 DEF Succession, InOrder, Seen
<1>5. AboutItsTarget' /\ Concluded'
  BY <1>1 DEF Succession, AboutItsTarget, Concluded
<1>6. ASSUME NEW q \in Replicas, Running(q)' PROVE Orderly(q)'
  <2>1. q # r /\ Orderly(q)
    BY <1>6 DEF Succession
  <2>2. LogsDated(q)'
    BY <1>1, <1>2, <2>1 DEF Orderly, LogsDated
  <2>3. Observed(q)'
    BY <1>1, <1>2, <2>1 DEF Orderly, Observed, Seen, NameOf
  <2>4. AnnouncedAt(q)'
    BY <1>1, <1>2, <2>1 DEF Orderly, AnnouncedAt, NameOf, Repeated, Answer
  <2> QED
    BY <1>3, <1>4, <1>5, <2>2, <2>3, <2>4 DEF Orderly
<1>7. Statuses' = Statuses
  BY <1>1, StatusesUnchanged
<1> QED
  BY <1>3, <1>4, <1>5, <1>6, <1>7 DEF Succession

\* Only an election makes a process run.
LEMMA RunningStep ==
    ASSUME ElectionOK, [ManagerNext]_managerVars
    PROVE  \/ \E r \in Replicas: Begin(r)
           \/ \A q \in Replicas: Running(q)' => Running(q)
BY DEF ManagerNext, managerVars, Time, StartProcess, Becomes, Renew, Crash, LoseLease, Exit,
   While, election, ElectionOK, Running

LEMMA SuccessionStep ==
    ASSUME LeaderElect, Core, ElectionOK, Succession, [ManagerNext]_managerVars
    PROVE  Succession' /\ (Lifecycle!Next \/ Statuses' = Statuses)
<1>0. ElectionOK'
  BY ElectionStep
<1>1. ASSUME NEW r \in Replicas, Begin(r) PROVE Succession' /\ Statuses' = Statuses
  BY <1>0, <1>1, BeginStep
<1>2. CASE Environment /\ \A q \in Replicas: Running(q)' => Running(q)
  <2>1. [Next]_vars
    BY <1>2 DEF Environment, Next
  <2>2. RevisionsOK' /\ InOrder' /\ AboutItsTarget' /\ Concluded'
    BY <1>2, <2>1, RevisionsStep, InOrderStep, AboutItsTargetStep, ConcludedByEnvironment
       DEF Succession
  <2>3. ASSUME NEW q \in Replicas, Running(q)' PROVE Orderly(q)'
    BY <1>2, <2>3, LeaderAlone, OrderlyStep DEF Acts, Succession
  <2>4. Lifecycle!Next \/ Statuses' = Statuses
    BY <1>2, EnvironmentLifecycle DEF Core
  <2> QED
    BY <2>2, <2>3, <2>4 DEF Succession
<1>3. ASSUME NEW r \in Replicas, Runs(r)
      PROVE  Succession' /\ (Lifecycle!Next \/ Statuses' = Statuses)
  <2>1. Running(r) /\ Alone(r) /\ Orderly(r) /\ Acts(r)
    BY <1>3, LeaderAlone DEF Runs, Succession
  <2>2. Orderly(r)' /\ (Lifecycle!Next \/ Statuses' = Statuses)
    BY <2>1, OrderlyStep, LifecycleStep
  <2>3. Concluded'
    BY <2>2 DEF Orderly, Observed, Seen, Concluded
  <2>4. \A q \in Replicas: Running(q)' => q = r
    BY <1>3, <1>0 DEF Runs, Keeps, Running, ElectionOK, OnlyTheHolderRuns
  <2> QED
    BY <2>2, <2>3, <2>4 DEF Succession, Orderly
<1>4. ASSUME NEW r \in Replicas, Ends(r) PROVE Succession' /\ Statuses' = Statuses
  <2>1. \A q \in Replicas: Running(q)' => q # r /\ Running(q)
    BY <1>4 DEF Ends, Exit, Becomes, Running, ElectionOK
  <2> QED
    BY <1>4, <2>1, ExitStep DEF Ends
<1> QED
  BY <1>1, <1>2, <1>3, <1>4, ManagerStep, RunningStep

LEMMA SuccessionStart ==
    ASSUME ManagerInit
    PROVE  Succession /\ Lifecycle!Init
<1>1. NewPod(0) \in PodObject /\ NewPod(0).rv = 0
  BY DEF NewPod, PodObject
<1>2. RevisionsOK /\ AboutItsTarget /\ Concluded
  BY <1>1 DEF ManagerInit, Init, RevisionsOK, Dated, AboutItsTarget, Concluded, AnswerSteps
<1>3. InOrder
  BY <1>1, BoundsAssumption DEF ManagerInit, Init, InOrder, Seen
<1>4. Lifecycle!Init
  BY DEF ManagerInit, Init, Lifecycle!Init, Statuses, Shown
<1>5. \A r \in Replicas: ~Running(r)
  BY DEF ManagerInit, Running
<1> QED
  BY <1>2, <1>3, <1>4, <1>5 DEF Succession

\* With leader election any number of managers, whichever of them crash, lose the
\* lease and take over, show the readers of ClusterDiagnoses what a single one
\* would: no hand-over makes a diagnosis fall back to an older state of a pod.
THEOREM LeadersFollowTheLifecycle ==
    ASSUME LeaderElect
    PROVE  ManagerSpec => ImplementsLifecycle
<1>1. ManagerInit => Succession /\ Lifecycle!Init
  BY SuccessionStart
<1>2. /\ Core /\ ElectionOK /\ Succession /\ [ManagerNext]_managerVars
        => Succession' /\ [Lifecycle!Next]_Statuses
  BY SuccessionStep
<1> QED
  BY <1>1, <1>2, ManagerInvariant, PTL DEF ManagerSpec, ImplementsLifecycle, Lifecycle!Spec

---------------------------------------------------------------------------
(* Calls that made it into the annotation are spaced.                      *)

\* The annotation says full seconds, and may be that much older than the call.
Slack == TicksPerSecond - 1

\* What the store says of the last call is not earlier than the call was, less
\* the slack; a diagnosis that is not there yet will say that there was none.
Paid(n) ==
    stamped[n] => sinceCall[n] + Slack >= (IF cd[n] = Absent THEN MinBetween ELSE cd[n].ann)

\* Neither is the time that a worker is about to write.
Timed(r) == pc[r] = "meta" => sinceCall[NameOf(r)] + Slack >= ts[r]

\* A worker that let itself through has waited since the last stamped call.
Waited(r) ==
    pc[r] \in {"analyzing", "gather", "llm"} /\ stamped[NameOf(r)] =>
        sinceCall[NameOf(r)] + Slack >= MinBetween

Spacing == (\A n \in Names: Paid(n)) /\ (\A r \in Replicas: Timed(r) /\ Waited(r))

LEMMA SlackType == Slack \in Nat /\ Slack < TicksPerSecond /\ MinBetween \in Nat
BY BoundsAssumption DEF Slack

LEMMA AgesTogether ==
    ASSUME NEW a \in Ages, NEW b \in Ages, a + Slack >= b
    PROVE  Older(a) + Slack >= Older(b)
<1>1. a \in 0 .. MinBetween /\ b \in 0 .. MinBetween
  BY DEF Ages
<1> QED
  BY <1>1, SlackType DEF Older

LEMMA AgeGrows ==
    ASSUME NEW a \in Ages, a + Slack >= MinBetween
    PROVE  Older(a) + Slack >= MinBetween
<1>1. a \in 0 .. MinBetween
  BY DEF Ages
<1> QED
  BY <1>1, SlackType DEF Older

\* What a reconcile step writes into the annotation.
LEMMA AnnotationStep ==
    ASSUME Core, NEW r \in Replicas, Reconciles(r), NEW n \in Names, cd'[n] # cd[n]
    PROVE  /\ pc[r] # "idle" /\ n = NameOf(r) /\ cd'[n] # Absent
           /\ \/ pc[r] = "create" /\ cd[n] = Absent /\ cd'[n].ann = MinBetween
              \/ pc[r] \notin {"create", "meta"} /\ cd[n] # Absent /\ cd'[n].ann = cd[n].ann
              \/ pc[r] = "meta" /\ cd[n] # Absent /\ cd'[n].ann = ts[r]
<1>1. Writes(r)
  BY WritesOrNot DEF Core
<1>2. pc[r] # "idle"
  BY <1>1, WritesStore DEF Core
<1>3. NameOf(r) \in Names
  BY <1>2, NameOfType DEF Core
<1>4. CASE StoreDiagnosis(NameOf(r), NewDiagnosis(r)) /\ pc[r] = "create"
  <2>1. n = NameOf(r) /\ cd'[n] = NewDiagnosis(r)
    BY <1>3, <1>4, Stored DEF Core
  <2>2. NewDiagnosis(r) \in Diagnosis /\ NewDiagnosis(r).ann = MinBetween
    BY <1>2, NewDiagnosisType DEF NewDiagnosis, Core
  <2>3. cd[n] = Absent
    BY <1>1, <1>4, <2>1 DEF Writes, CreateDiagnosis, CreateFails, PatchUpdate, UpdateFails,
       PatchSteps, StoreDiagnosis
  <2> QED
    BY <1>2, <1>4, <2>1, <2>2, <2>3, AbsentIsNoObject
<1>5. CASE Commit(r)
  <2>1. n = NameOf(r) /\ cd'[n] = Updated(r) /\ fresh[r]
    BY <1>3, <1>5, Stored DEF Core, Commit
  <2>2. pc[r] \in PatchSteps /\ cd[n] \in Diagnosis /\ Updated(r) \in Diagnosis /\ cur[r] = cd[n]
    BY <2>1, UpdatedFields DEF Core, LoopOK, LoopAt
  <2>3. CASE pc[r] = "meta"
    <3>1. Updated(r).ann = ts[r]
      BY <2>1, <2>2, <2>3 DEF Updated, Mutated, Diagnosis
    <3> QED
      BY <1>2, <2>1, <2>2, <2>3, <3>1, AbsentIsNoObject
  <2>4. CASE pc[r] # "meta"
    <3>1. ASSUME pc[r] = "analyzing" PROVE Updated(r).ann = cd[n].ann
      BY <2>1, <2>2, <3>1 DEF Updated, Mutated, Diagnosis
    <3>2. ASSUME pc[r] = "ready" PROVE Updated(r).ann = cd[n].ann
      BY <2>1, <2>2, <3>2 DEF Updated, Mutated, Diagnosis
    <3>3. ASSUME pc[r] = "error" PROVE Updated(r).ann = cd[n].ann
      BY <2>1, <2>2, <3>3 DEF Updated, Mutated, Diagnosis
    <3>4. Updated(r).ann = cd[n].ann
      BY <2>1, <2>2, <2>4, <3>1, <3>2, <3>3 DEF PatchSteps
    <3> QED
      BY <1>2, <2>1, <2>2, <2>4, <3>4, AbsentIsNoObject DEF PatchSteps
  <2> QED
    BY <2>3, <2>4
<1> QED
  BY <1>1, <1>4, <1>5 DEF Writes, CreateDiagnosis, CreateFails

\* The time that patchDiagnosisMeta will write is taken when the answer is stored.
LEMMA TimedLocal ==
    ASSUME Core, NEW r \in Replicas, Reconciles(r), pc'[r] = "meta"
    PROVE  /\ pc[r] # "idle" /\ req'[r] = req[r] /\ snap'[r] = snap[r]
           /\ \/ pc[r] = "ready" /\ ts'[r] = clock
              \/ pc[r] = "meta" /\ ts'[r] = ts[r]
<1> USE DEF Core
<1>0. pc[r] # "idle" => req'[r] = req[r] /\ snap'[r] = snap[r]
  BY JobLocal
<1>1. CASE PatchUpdate(r) \/ UpdateFails(r)
  <2>1. CASE PatchDone(r)
    <3>1. pc[r] = "ready" /\ EndLoop(r, "meta") /\ ts' = [ts EXCEPT ![r] = clock]
      BY <2>1, FinishLocal, EndLoopLocal DEF PatchDone, ReturnError
    <3> QED
      BY <1>0, <3>1 DEF TypeOK
  <2>2. CASE TryAgain(r) \/ ReturnError(r)
    <3>1. UNCHANGED <<pc, ts>>
      BY <2>2, FinishLocal DEF TryAgain, ReturnError, job, pending
    <3> QED
      BY <1>0, <3>1
  <2> QED
    BY <1>1, <2>1, <2>2 DEF PatchUpdate, UpdateFails
<1>2. CASE PatchGet(r)
  <2>1. UNCHANGED <<pc, ts>>
    BY <1>2, FinishLocal DEF PatchGet, ReturnError, job, pending
  <2> QED
    BY <1>0, <2>1
<1>3. CASE GetDiagnosis(r) \/ Reread(r)
  BY <1>3, DecideLocal, FinishLocal, GotoLocal DEF GetDiagnosis, Reread, ReturnError
<1>4. CASE CreateDiagnosis(r) \/ Gather(r) \/ CallLLM(r) \/ LLMAnswers(r) \/ AnalysisFails(r)
  BY <1>4, GotoLocal DEF CreateDiagnosis, Gather, CallLLM, LLMAnswers, AnalysisFails
<1>5. CASE ReadFails(r) \/ CreateFails(r) \/ Restart(r)
  BY <1>5, FinishLocal DEF ReadFails, CreateFails, Restart, ReturnError
<1>6. ASSUME NEW p \in Pods, StartReconcile(r, p) PROVE FALSE
  BY <1>6, GotoLocal DEF StartReconcile, job
<1> QED
  BY <1>1, <1>2, <1>3, <1>4, <1>5, <1>6 DEF Reconciles, Worker, Trouble

\* A worker lets itself through when the store says that it may.
LEMMA WaitedLocal ==
    ASSUME Core, "lag" \notin Faults, NEW r \in Replicas, Reconciles(r),
           pc'[r] \in {"analyzing", "gather", "llm"}
    PROVE  /\ pc[r] # "idle" /\ req'[r] = req[r] /\ snap'[r] = snap[r]
           /\ \/ pc[r] \in {"analyzing", "gather"}
              \/ /\ pc[r] \in {"get", "reread"}
                 /\ cd[NameOf(r)] # Absent /\ cd[NameOf(r)].ann = MinBetween
<1> USE DEF Core
<1>0. pc[r] # "idle" => req'[r] = req[r] /\ snap'[r] = snap[r]
  BY JobLocal
<1>1. ASSUME NEW o, Decide(r, o) PROVE o.ann = MinBetween
  BY <1>1, FinishLocal DEF Decide, Skip, Postpone, Analyse
<1>2. CASE GetDiagnosis(r)
  <2>1. cdView[r][NameOf(r)] = cd[NameOf(r)]
    BY <1>2 DEF GetDiagnosis, Spend
  <2>2. pc[r] = "get" /\ cd[NameOf(r)] # Absent /\ Decide(r, cd[NameOf(r)])
    BY <1>2, <2>1, GotoLocal DEF GetDiagnosis
  <2> QED
    BY <1>0, <1>1, <2>2
<1>3. CASE Reread(r)
  <2>1. pc[r] = "reread" /\ cd[NameOf(r)] # Absent /\ Decide(r, cd[NameOf(r)])
    BY <1>3, FinishLocal, GotoLocal DEF Reread, ReturnError
  <2> QED
    BY <1>0, <1>1, <2>1
<1>4. CASE PatchUpdate(r) \/ UpdateFails(r)
  <2>1. pc[r] = "analyzing"
    BY <1>4, PatchDoneLocal, TryAgainLocal, FinishLocal
       DEF PatchUpdate, UpdateFails, ReturnError, PatchSteps
  <2> QED
    BY <1>0, <2>1
<1>5. CASE PatchGet(r)
  BY <1>0, <1>5, FinishLocal DEF PatchGet, ReturnError, job, PatchSteps
<1>6. CASE CreateDiagnosis(r) \/ CallLLM(r) \/ LLMAnswers(r) \/ AnalysisFails(r)
  BY <1>6, GotoLocal DEF CreateDiagnosis, CallLLM, LLMAnswers, AnalysisFails
<1>7. CASE Gather(r)
  BY <1>0, <1>7 DEF Gather
<1>8. CASE ReadFails(r) \/ CreateFails(r) \/ Restart(r)
  BY <1>8, FinishLocal DEF ReadFails, CreateFails, Restart, ReturnError
<1>9. ASSUME NEW p \in Pods, StartReconcile(r, p) PROVE FALSE
  BY <1>9, GotoLocal DEF StartReconcile, job
<1> QED
  BY <1>2, <1>3, <1>4, <1>5, <1>6, <1>7, <1>8, <1>9 DEF Reconciles, Worker, Trouble

\* Steps that leave the calls, their stamps and the annotations alone.
LEMMA SpacingKept ==
    ASSUME Spacing, UNCHANGED <<cd, sinceCall, stamped>>,
           \A q \in Replicas: \/ pc'[q] = "idle"
                              \/ /\ pc'[q] = pc[q] /\ req'[q] = req[q]
                                 /\ snap'[q] = snap[q] /\ ts'[q] = ts[q]
    PROVE  Spacing'
<1>1. ASSUME NEW n \in Names PROVE Paid(n)'
  BY DEF Spacing, Paid
<1>2. ASSUME NEW q \in Replicas PROVE Timed(q)' /\ Waited(q)'
  BY DEF Spacing, Timed, Waited, NameOf
<1> QED
  BY <1>1, <1>2 DEF Spacing

\* A diagnosis that is removed takes the memory of its calls along.
LEMMA SpacingRemoved ==
    ASSUME Core, Spacing, NEW m \in Names, Removed(m), stamped' = stamped
    PROVE  Spacing'
<1>1. /\ cd'[m] = Absent /\ sinceCall'[m] = MinBetween
      /\ \A n \in Names \ {m}: cd'[n] = cd[n] /\ sinceCall'[n] = sinceCall[n]
      /\ UNCHANGED <<pc, req, snap, ts>>
  BY Stored DEF Removed, Core, TypeOK, job, pending
<1>2. ASSUME NEW n \in Names PROVE Paid(n)'
  BY <1>1, SlackType DEF Spacing, Paid
<1>3. ASSUME NEW q \in Replicas PROVE Timed(q)' /\ Waited(q)'
  <2>1. CASE NameOf(q) = m
    <3>1. ts[q] \in 0 .. MinBetween
      BY DEF Core, TypeOK, Ages
    <3> QED
      BY <1>1, <2>1, <3>1, SlackType DEF Timed, Waited, NameOf
  <2>2. CASE NameOf(q) # m /\ pc[q] # "idle"
    <3>1. NameOf(q) \in Names \ {m}
      BY <2>2, NameOfType DEF Core
    <3> QED
      BY <1>1, <3>1 DEF Spacing, Timed, Waited, NameOf
  <2> QED
    BY <1>1, <2>1, <2>2 DEF Timed, Waited
<1> QED
  BY <1>2, <1>3 DEF Spacing

\* Everything grows older together.
LEMMA SpacingAged ==
    ASSUME Core, Spacing, Tick, stamped' = stamped
    PROVE  Spacing'
<1>1. /\ \A n \in Names: sinceCall[n] \in Ages /\ sinceCall'[n] = Older(sinceCall[n])
      /\ UNCHANGED <<pc, req, snap>>
  BY DEF Tick, Core, TypeOK, job
<1>2. MinBetween \in Ages /\ Older(MinBetween) = MinBetween
  BY SlackType DEF Ages, Older
<1>3. ASSUME NEW n \in Names PROVE Paid(n)'
  <2>1. cd'[n] = Aged(cd[n])
    BY <1>3 DEF Tick
  <2>2. CASE cd[n] = Absent
    BY <1>1, <1>2, <2>1, <2>2, AgesTogether DEF Spacing, Paid, Aged
  <2>3. CASE cd[n] \in Diagnosis
    <3>1. cd[n] # Absent /\ cd'[n] \in Diagnosis /\ cd'[n] = [cd[n] EXCEPT !.ann = Older(@)]
      BY <2>1, <2>3, AgedType, AbsentIsNoObject DEF Aged
    <3>2. cd'[n] # Absent /\ cd[n].ann \in Ages /\ cd'[n].ann = Older(cd[n].ann)
      BY <2>3, <3>1, AbsentIsNoObject DEF Diagnosis
    <3> QED
      BY <1>1, <3>1, <3>2, AgesTogether DEF Spacing, Paid
  <2> QED
    BY <2>2, <2>3 DEF Core, TypeOK
<1>4. ASSUME NEW q \in Replicas PROVE Timed(q)' /\ Waited(q)'
  <2>1. CASE pc[q] # "idle"
    <3>1. NameOf(q) \in Names
      BY <2>1, NameOfType DEF Core
    <3>2. ts[q] \in Ages /\ (pc[q] = "meta" => ts'[q] = Older(ts[q]))
      BY DEF Tick, Core, TypeOK
    <3>3. Timed(q)'
      BY <1>1, <3>1, <3>2, AgesTogether DEF Spacing, Timed, NameOf
    <3>4. Waited(q)'
      BY <1>1, <3>1, AgeGrows DEF Spacing, Waited, NameOf
    <3> QED
      BY <3>3, <3>4
  <2> QED
    BY <1>1, <2>1 DEF Timed, Waited
<1> QED
  BY <1>3, <1>4 DEF Spacing

\* What a step of the one busy worker does to the calls and their stamps.
LEMMA CallsLocal ==
    ASSUME Core, NEW r \in Replicas, Reconciles(r)
    PROVE  \/ sinceCall' = sinceCall /\ ~(pc[r] = "llm" /\ pc'[r] = "answer")
           \/ /\ pc[r] = "llm" /\ pc'[r] = "answer" /\ cd' = cd
              /\ sinceCall' = [sinceCall EXCEPT ![NameOf(r)] = 0]
<1> USE DEF Core
<1>1. CASE CallLLM(r)
  BY <1>1, GotoLocal DEF CallLLM, store
<1>2. CASE sinceCall' = sinceCall /\ pc[r] # "llm"
  BY <1>2
<1>3. CASE PatchUpdate(r) \/ UpdateFails(r) \/ PatchGet(r)
  BY <1>2, <1>3 DEF PatchUpdate, UpdateFails, PatchGet, PatchSteps, meter
<1>4. CASE GetDiagnosis(r) \/ Reread(r) \/ CreateDiagnosis(r) \/ Gather(r) \/ LLMAnswers(r)
  BY <1>2, <1>4 DEF GetDiagnosis, Reread, CreateDiagnosis, Gather, LLMAnswers, meter
<1>5. CASE AnalysisFails(r) \/ CreateFails(r) \/ ReadFails(r)
  BY <1>2, <1>5 DEF AnalysisFails, CreateFails, ReadFails, PatchSteps, meter
<1>6. CASE Restart(r)
  BY <1>6, FinishLocal DEF Restart, meter
<1>7. ASSUME NEW p \in Pods, StartReconcile(r, p) PROVE sinceCall' = sinceCall /\ pc[r] # "llm"
  BY <1>7 DEF StartReconcile, meter
<1> QED
  BY <1>1, <1>2, <1>3, <1>4, <1>5, <1>6, <1>7 DEF Reconciles, Worker, Trouble

LEMMA SpacingReconciled ==
    ASSUME "lag" \notin Faults, Core, Spacing, stamped \in [Names -> BOOLEAN],
           NEW r \in Replicas, Alone(r), Reconciles(r), Stamp(r)
    PROVE  Spacing'
<1> DEFINE n0 == NameOf(r)
<1>1. \A q \in Replicas \ {r}: pc'[q] = "idle"
  BY OthersUntouched DEF Alone, Untouched, Core
<1>2. ASSUME NEW n \in Names
      PROVE  stamped'[n] = IF pc[r] = "llm" /\ pc'[r] = "answer" /\ n = n0 THEN FALSE
                           ELSE stamped[n] \/ (pc[r] = "meta" /\ n = n0 /\ cd'[n] # cd[n])
  BY DEF Stamp
<1>3. CASE /\ pc[r] = "llm" /\ pc'[r] = "answer" /\ cd' = cd
           /\ sinceCall' = [sinceCall EXCEPT ![n0] = 0]
  <2>1. ASSUME NEW n \in Names PROVE Paid(n)'
    <3>1. CASE n = n0
      BY <1>2, <1>3, <3>1 DEF Paid
    <3>2. CASE n # n0
      <4>1. sinceCall'[n] = sinceCall[n] /\ (stamped'[n] <=> stamped[n])
        BY <1>2, <1>3, <3>2 DEF Core, TypeOK
      <4> QED
        BY <1>3, <4>1 DEF Spacing, Paid
    <3> QED
      BY <3>1, <3>2
  <2>2. \A q \in Replicas: Timed(q)' /\ Waited(q)'
    BY <1>1, <1>3 DEF Timed, Waited
  <2> QED
    BY <2>1, <2>2 DEF Spacing
<1>4. CASE sinceCall' = sinceCall /\ ~(pc[r] = "llm" /\ pc'[r] = "answer")
  <2>1. ASSUME NEW n \in Names PROVE Paid(n)'
    <3>1. CASE cd'[n] = cd[n]
      BY <1>2, <1>4, <3>1 DEF Spacing, Paid
    <3>2. CASE cd'[n] # cd[n] /\ pc[r] = "meta"
      <4>1. n = n0 /\ cd'[n] # Absent /\ cd'[n].ann = ts[r]
        BY <3>2, AnnotationStep
      <4>2. sinceCall[n] + Slack >= ts[r]
        BY <3>2, <4>1 DEF Spacing, Timed
      <4> QED
        BY <1>4, <4>1, <4>2 DEF Paid
    <3>3. CASE cd'[n] # cd[n] /\ pc[r] # "meta"
      <4>1. /\ cd'[n] # Absent
            /\ cd'[n].ann = IF cd[n] = Absent THEN MinBetween ELSE cd[n].ann
        BY <3>3, AnnotationStep
      <4>2. stamped'[n] <=> stamped[n]
        BY <1>2, <1>4, <3>3
      <4> QED
        BY <1>4, <4>1, <4>2 DEF Spacing, Paid
    <3> QED
      BY <3>1, <3>2, <3>3
  <2>2. Timed(r)'
    <3> SUFFICES ASSUME pc'[r] = "meta"
                 PROVE  sinceCall'[NameOf(r)'] + Slack >= ts'[r]
      BY DEF Timed
    <3>1. /\ pc[r] # "idle" /\ NameOf(r)' = n0
          /\ \/ pc[r] = "ready" /\ ts'[r] = clock
             \/ pc[r] = "meta" /\ ts'[r] = ts[r]
      BY TimedLocal DEF NameOf
    <3>2. n0 \in Names
      BY <3>1, NameOfType DEF Core
    <3>3. CASE pc[r] = "meta"
      BY <1>4, <3>1, <3>3 DEF Spacing, Timed
    <3>4. CASE pc[r] = "ready"
      <4>1. sinceCall[n0] \in Nat /\ clock \in Nat /\ clock <= Slack
        BY <3>2, BoundsAssumption DEF Core, TypeOK, Ages, Slack
      <4> QED
        BY <1>4, <3>1, <3>4, <4>1, SlackType
    <3> QED
      BY <3>1, <3>3, <3>4
  <2>3. Waited(r)'
    <3> SUFFICES ASSUME pc'[r] \in {"analyzing", "gather", "llm"}, stamped'[NameOf(r)']
                 PROVE  sinceCall'[NameOf(r)'] + Slack >= MinBetween
      BY DEF Waited
    <3>1. /\ pc[r] # "idle" /\ NameOf(r)' = n0
          /\ \/ pc[r] \in {"analyzing", "gather"}
             \/ pc[r] \in {"get", "reread"} /\ cd[n0] # Absent /\ cd[n0].ann = MinBetween
      BY WaitedLocal DEF NameOf
    <3>2. n0 \in Names
      BY <3>1, NameOfType DEF Core
    <3>3. stamped[n0]
      BY <1>2, <1>4, <3>1, <3>2
    <3> QED
      BY <1>4, <3>1, <3>2, <3>3 DEF Spacing, Waited, Paid
  <2>4. \A q \in Replicas \ {r}: Timed(q)' /\ Waited(q)'
    BY <1>1 DEF Timed, Waited
  <2> QED
    BY <2>1, <2>2, <2>3, <2>4 DEF Spacing
<1> QED
  BY <1>3, <1>4, CallsLocal

LEMMA SpacingStep ==
    ASSUME LeaderElect, "lag" \notin Faults, Core, ElectionOK, Spacing,
           [ManagerNext]_managerVars
    PROVE  Spacing'
<1>1. CASE UNCHANGED managerVars
  BY <1>1, SpacingKept DEF managerVars, vars, store, job, pending, meter
<1>2. CASE Cluster /\ UNCHANGED <<election, stamped>>
  <2>1. ASSUME NEW p \in Pods, NEW o, PodWrite(p, o) PROVE Spacing'
    BY <1>2, <2>1, SpacingKept DEF PodWrite, job, pending, meter
  <2>2. ASSUME NEW n \in Names, Removed(n) PROVE Spacing'
    BY <1>2, <2>2, SpacingRemoved
  <2> QED
    BY <1>2, <2>1, <2>2 DEF Cluster, PodFails, PodRecovers, PodDeleted, PodRecreated,
       CollectGarbage, DeleteDiagnosis
<1>3. CASE Time
  BY <1>3, SpacingAged DEF Time
<1>4. ASSUME NEW r \in Replicas, StartProcess(r) \/ Begin(r) \/ Renew(r) PROVE Spacing'
  BY <1>4, SpacingKept
     DEF StartProcess, Begin, ListAnew, Renew, vars, store, job, pending, meter
<1>5. ASSUME NEW r \in Replicas, Exit(r) PROVE Spacing'
  <2>1. UNCHANGED <<cd, sinceCall, stamped>> /\ pc'[r] = "idle"
    BY <1>5, ExitLocal DEF Exit, Core, store, meter
  <2>2. \A q \in Replicas \ {r}: Untouched(q) /\ ts'[q] = ts[q]
    BY <1>5, ExitLocal DEF Exit, Finish, Core, TypeOK
  <2> QED
    BY <2>1, <2>2, SpacingKept DEF Untouched
<1>6. ASSUME NEW r \in Replicas, While(r, Informers(r)) PROVE Spacing'
  <2>1. UNCHANGED <<cd, sinceCall, pc, req, snap, ts>>
    BY <1>6 DEF While, Informers, SyncPod, SyncDiagnosis, Resync, store, job, pending, meter
  <2>2. stamped' = stamped
    <3>1. \A n \in Names: stamped'[n] = stamped[n]
      BY <1>6, <2>1, StampType DEF While, Stamp, ElectionOK
    <3> QED
      BY <1>6, <3>1, StampType DEF While, ElectionOK
  <2> QED
    BY <2>1, <2>2, SpacingKept
<1>7. ASSUME NEW r \in Replicas, While(r, Reconciles(r)) PROVE Spacing'
  BY <1>7, LeaderAlone, SpacingReconciled DEF While, ElectionOK
<1> QED
  BY <1>1, <1>2, <1>3, <1>4, <1>5, <1>6, <1>7
     DEF ManagerNext, Crash, LoseLease, While, Controller, CallFails, Reconciles, Trouble

LEMMA SpacingStart ==
    ASSUME ManagerInit
    PROVE  Spacing
BY SlackType DEF ManagerInit, Init, Spacing, Paid, Timed, Waited

\* Leaders follow each other without spending more on the LLM than one process
\* would: if caches keep up, a call whose predecessor made it into the annotation
\* comes a whole minBetweenLLM, less the truncated part of a second, after it.
THEOREM StampedCallsAreSpaced ==
    ASSUME LeaderElect, "lag" \notin Faults
    PROVE  ManagerSpec => StampedCallsSpaced
<1> DEFINE Spaced == \A r \in Replicas: pc[r] = "llm" /\ pc'[r] = "answer" =>
                        \/ ~stamped[NameOf(r)]
                        \/ sinceCall[NameOf(r)] >= MinBetween - (TicksPerSecond - 1)
<1>1. ManagerInit => Spacing
  BY SpacingStart
<1>2. Core /\ ElectionOK /\ Spacing /\ [ManagerNext]_managerVars => Spacing'
  BY SpacingStep
<1>3. Core /\ Spacing /\ [ManagerNext]_managerVars => [Spaced]_managerVars
  <2> SUFFICES ASSUME Core, Spacing, NEW r \in Replicas, pc[r] = "llm", stamped[NameOf(r)]
               PROVE  sinceCall[NameOf(r)] >= MinBetween - (TicksPerSecond - 1)
    OBVIOUS
  <2>1. NameOf(r) \in Names
    BY NameOfType DEF Core
  <2>2. sinceCall[NameOf(r)] \in Nat
    BY <2>1 DEF Core, TypeOK, Ages
  <2>3. sinceCall[NameOf(r)] + Slack >= MinBetween
    BY DEF Spacing, Waited
  <2> QED
    BY <2>2, <2>3, BoundsAssumption DEF Slack
<1>4. ManagerSpec => [](Core /\ ElectionOK)
  BY ManagerInvariant
<1> QED
  BY <1>1, <1>2, <1>3, <1>4, PTL DEF ManagerSpec, StampedCallsSpaced

---------------------------------------------------------------------------
(* The deployment as shipped.                                              *)

NothingDone ==
    /\ process \in [Replicas -> {"down", "standby"}]
    /\ cd = [n \in Names |-> Absent]

LEMMA NothingStep ==
    ASSUME LeaderElect, ~LeasesAllowed, NothingDone, [ManagerNext]_managerVars
    PROVE  NothingDone'
<1> USE DEF NothingDone
<1>1. \A r \in Replicas: ~Running(r)
  BY DEF Running
<1>2. CASE UNCHANGED managerVars
  BY <1>2 DEF managerVars, vars, election, store
<1>3. CASE Cluster /\ UNCHANGED <<election, stamped>>
  BY <1>3 DEF Cluster, election, PodFails, PodRecovers, PodDeleted, PodRecreated, PodWrite,
              CollectGarbage, DeleteDiagnosis, Removed
<1>4. CASE Time
  BY <1>4 DEF Time, Tick, Aged
<1>5. ASSUME NEW r \in Replicas, StartProcess(r) PROVE NothingDone'
  BY <1>5 DEF StartProcess, Becomes, vars, store
<1>6. ASSUME NEW r \in Replicas, Crash(r) PROVE NothingDone'
  BY <1>6 DEF Crash, Exit, Becomes, store
<1> QED
  BY <1>1, <1>2, <1>3, <1>4, <1>5, <1>6
     DEF ManagerNext, Begin, Elected, Renew, LoseLease, While

\* As config/ ships it, with leader election and without access to leases, no
\* replica of any number ever reconciles, and no diagnosis is ever written.
THEOREM AsShippedNothingIsDone ==
    ASSUME LeaderElect, ~LeasesAllowed
    PROVE  ManagerSpec => [](NothingDone /\ \A r \in Replicas: ~Running(r))
<1>1. ManagerInit => NothingDone
  BY DEF ManagerInit, Init, NothingDone
<1>2. NothingDone /\ [ManagerNext]_managerVars => NothingDone'
  BY NothingStep
<1>3. NothingDone => \A r \in Replicas: ~Running(r)
  BY DEF NothingDone, Running
<1> QED
  BY <1>1, <1>2, <1>3, PTL DEF ManagerSpec

=============================================================================
