------------------------ MODULE PodReconcilerProofs ------------------------
(***************************************************************************)
(* Theorems about PodReconciler, for every number of replicas, pods,       *)
(* failure classes and fingerprints, every rate limit and every bound.     *)
(***************************************************************************)
EXTENDS PodReconciler, TLAPS

---------------------------------------------------------------------------
(* The inductive invariant.                                                *)

\* A worker that is not idle has a request and the failing pod it read for it.
JobAt(r) ==
    pc[r] # "idle" =>
        req[r] \in Pods /\ snap[r] # Absent /\ snap[r].ft \in FailureTypes

JobOK == \A r \in Replicas: JobAt(r)

\* Only a patch loop holds an object, and while the API server would accept it,
\* it is the stored one.
LoopAt(r) ==
    /\ pc[r] \notin PatchSteps => cur[r] = Absent
    /\ fresh[r] => /\ pc[r] \in PatchSteps
                   /\ cur[r] # Absent
                   /\ cur[r] = cd[NameOf(r)]

LoopOK == \A r \in Replicas: LoopAt(r)

Core == TypeOK /\ JobOK /\ LoopOK

---------------------------------------------------------------------------
(* What the helpers return.                                                *)

LEMMA AbsentIsNoObject ==
    /\ Absent \notin PodObject
    /\ Absent \notin Diagnosis
    /\ Absent \notin Evidence
    /\ Absent \notin Pods
    /\ Absent \notin Fingerprints
    /\ Healthy \notin FailureTypes
BY AbsentAssumption

LEMMA NameOfType ==
    ASSUME TypeOK, JobOK, NEW r \in Replicas, pc[r] # "idle"
    PROVE  NameOf(r) \in Names
<1>1. req[r] \in Pods /\ snap[r].ft \in FailureTypes
  BY DEF JobOK, JobAt
<1> QED
  BY <1>1, NameAssumption DEF NameOf

LEMMA OlderType ==
    ASSUME NEW a \in Ages
    PROVE  Older(a) \in Ages
BY BoundsAssumption DEF Ages, Older

LEMMA AgedType ==
    ASSUME NEW o \in Diagnosis \cup {Absent}
    PROVE  /\ Aged(o) \in Diagnosis \cup {Absent}
           /\ o # Absent => Aged(o) \in Diagnosis
<1>1. CASE o = Absent
  BY <1>1 DEF Aged
<1>2. CASE o \in Diagnosis
  <2>1. Older(o.ann) \in Ages
    BY <1>2, OlderType DEF Diagnosis
  <2> QED
    BY <1>2, <2>1, AbsentIsNoObject DEF Aged, Diagnosis
<1> QED
  BY <1>1, <1>2

LEMMA NewDiagnosisType ==
    ASSUME TypeOK, JobOK, NEW r \in Replicas, pc[r] # "idle"
    PROVE  NewDiagnosis(r) \in Diagnosis
<1>1. req[r] \in Pods /\ snap[r] \in PodObject /\ snap[r].ft \in FailureTypes
  BY DEF TypeOK, JobOK, JobAt
<1>2. MinBetween \in Ages /\ "" \in Phases /\ snap[r].uid \in Nat
  BY <1>1, BoundsAssumption DEF Ages, Phases, PodObject
<1> QED
  BY <1>1, <1>2 DEF NewDiagnosis, Diagnosis

LEMMA UpdatedType ==
    ASSUME TypeOK, JobOK, LoopOK, NEW r \in Replicas, fresh[r]
    PROVE  Updated(r) \in Diagnosis
<1>1. pc[r] \in PatchSteps /\ cur[r] \in Diagnosis /\ cd[NameOf(r)] = cur[r]
  BY DEF TypeOK, LoopOK, LoopAt
<1>2. pc[r] # "idle"
  BY <1>1 DEF PatchSteps
<1>3. req[r] \in Pods /\ snap[r] \in PodObject /\ snap[r].ft \in FailureTypes
  BY <1>2 DEF TypeOK, JobOK, JobAt
<1>4. ts[r] \in Ages /\ logs[r] \in Nat /\ snap[r].rv \in Nat /\ snap[r].fp \in Fingerprints \cup {Absent}
  BY <1>3 DEF TypeOK, PodObject
<1>5. Answer(r) \in Evidence
  BY <1>3, <1>4 DEF Answer, Evidence
<1>6. Mutated(r) \in Diagnosis
  <2>1. CASE pc[r] = "analyzing"
    BY <1>1, <2>1 DEF Mutated, Diagnosis, Phases
  <2>2. CASE pc[r] = "ready"
    BY <1>1, <1>4, <1>5, <2>2 DEF Mutated, Diagnosis, Phases
  <2>3. CASE pc[r] = "error"
    BY <1>1, <2>3 DEF Mutated, Diagnosis, Phases
  <2>4. CASE pc[r] = "meta"
    BY <1>1, <1>4, <2>4 DEF Mutated, Diagnosis
  <2> QED
    BY <1>1, <2>1, <2>2, <2>3, <2>4 DEF PatchSteps
<1> QED
  BY <1>1, <1>6 DEF Updated, Diagnosis

LEMMA StoreType ==
    ASSUME TypeOK, NEW n, NEW o \in Diagnosis \cup {Absent}, StoreDiagnosis(n, o)
    PROVE  /\ cd' \in [Names -> Diagnosis \cup {Absent}]
           /\ fresh' \in [Replicas -> BOOLEAN]
BY DEF TypeOK, StoreDiagnosis, Works

LEMMA FinishType ==
    ASSUME TypeOK, NEW r \in Replicas, Finish(r)
    PROVE  /\ pc' \in [Replicas -> Steps]
           /\ req' \in [Replicas -> Pods \cup {Absent}]
           /\ snap' \in [Replicas -> PodObject \cup {Absent}]
           /\ cur' \in [Replicas -> Diagnosis \cup {Absent}]
           /\ attempt' \in [Replicas -> 0 .. MaxAttempts - 1]
           /\ logs' \in [Replicas -> Nat]
           /\ ts' \in [Replicas -> Ages]
BY BoundsAssumption DEF TypeOK, Finish, Goto, Steps, Ages

LEMMA PodWriteType ==
    ASSUME TypeOK, NEW p \in Pods, NEW o \in PodObject \cup {Absent}, PodWrite(p, o)
    PROVE  TypeOK'
BY DEF TypeOK, PodWrite, views, work, job, patch, pending, meter

LEMMA ClusterType == ASSUME TypeOK, Cluster PROVE TypeOK'
<1>1. ASSUME NEW p \in Pods, PodFails(p) PROVE TypeOK'
  <2>1. PICK f \in FailureTypes, x \in Fingerprints:
          PodWrite(p, [pod[p] EXCEPT !.rv = rv + 1, !.ft = f, !.fp = x])
    BY <1>1 DEF PodFails
  <2>2. pod[p] \in PodObject /\ rv + 1 \in Nat
    BY <1>1 DEF PodFails, TypeOK
  <2>3. [pod[p] EXCEPT !.rv = rv + 1, !.ft = f, !.fp = x] \in PodObject
    BY <2>2 DEF PodObject
  <2> QED
    BY <1>1, <2>1, <2>3, PodWriteType
<1>2. ASSUME NEW p \in Pods, PodRecovers(p) PROVE TypeOK'
  <2>1. pod[p] \in PodObject /\ rv + 1 \in Nat
    BY <1>2 DEF PodRecovers, Failing, TypeOK
  <2>2. [pod[p] EXCEPT !.rv = rv + 1, !.ft = Healthy, !.fp = Absent] \in PodObject
    BY <2>1 DEF PodObject
  <2> QED
    BY <1>2, <2>2, PodWriteType DEF PodRecovers
<1>3. ASSUME NEW p \in Pods, PodDeleted(p) PROVE TypeOK'
  BY <1>3, PodWriteType DEF PodDeleted
<1>4. ASSUME NEW p \in Pods, PodRecreated(p) PROVE TypeOK'
  <2>1. NewPod(rv + 1) \in PodObject
    BY DEF TypeOK, NewPod, PodObject
  <2> QED
    BY <1>4, <2>1, PodWriteType DEF PodRecreated
<1>5. ASSUME NEW n \in Names, Removed(n), faults' \in 0 .. MaxFaults PROVE TypeOK'
  <2>1. /\ cd' \in [Names -> Diagnosis \cup {Absent}]
        /\ fresh' \in [Replicas -> BOOLEAN]
    BY <1>5, StoreType DEF Removed
  <2>2. sinceCall' \in [Names -> Ages]
    BY <1>5, BoundsAssumption DEF Removed, TypeOK, Ages
  <2> QED
    BY <1>5, <2>1, <2>2 DEF Removed, TypeOK, views, work, job, pending
<1>6. ASSUME NEW n \in Names, CollectGarbage(n) PROVE TypeOK'
  BY <1>5, <1>6 DEF CollectGarbage, TypeOK
<1>7. ASSUME NEW n \in Names, DeleteDiagnosis(n) PROVE TypeOK'
  <2>1. faults' \in 0 .. MaxFaults
    BY <1>7, BoundsAssumption DEF DeleteDiagnosis, Spend, TypeOK
  <2> QED
    BY <1>5, <1>7, <2>1 DEF DeleteDiagnosis
<1> QED
  BY <1>1, <1>2, <1>3, <1>4, <1>6, <1>7 DEF Cluster

LEMMA InformersType ==
    ASSUME TypeOK, NEW r \in Replicas, Informers(r)
    PROVE  TypeOK'
<1>1. ASSUME NEW p \in Pods, SyncPod(r, p) PROVE TypeOK'
  <2>1. podView' \in [Replicas -> [Pods -> PodObject \cup {Absent}]]
    BY <1>1 DEF SyncPod, TypeOK
  <2>2. queue' \in [Replicas -> SUBSET Pods]
    BY <1>1 DEF SyncPod, Enqueue, TypeOK
  <2> QED
    BY <1>1, <2>1, <2>2 DEF SyncPod, TypeOK, store, job, patch, pending, meter
<1>2. ASSUME NEW n \in Names, SyncDiagnosis(r, n) PROVE TypeOK'
  <2>1. cdView' \in [Replicas -> [Names -> Diagnosis \cup {Absent}]]
    BY <1>2 DEF SyncDiagnosis, TypeOK
  <2> QED
    BY <1>2, <2>1 DEF SyncDiagnosis, TypeOK, store, work, job, patch, pending, meter
<1>3. ASSUME Resync(r) PROVE TypeOK'
  <2>1. queue' \in [Replicas -> SUBSET Pods]
    BY <1>3 DEF Resync, Enqueue, FailingPods, TypeOK
  <2> QED
    BY <1>3, <2>1 DEF Resync, TypeOK, store, views, job, patch, pending, meter
<1> QED
  BY <1>1, <1>2, <1>3 DEF Informers

LEMMA TickType == ASSUME TypeOK, Tick PROVE TypeOK'
<1>1. clock' \in 0 .. TicksPerSecond - 1
  BY BoundsAssumption DEF Tick, TypeOK
<1>2. cd' \in [Names -> Diagnosis \cup {Absent}]
  BY AgedType DEF Tick, TypeOK
<1>3. cdView' \in [Replicas -> [Names -> Diagnosis \cup {Absent}]]
  BY AgedType DEF Tick, TypeOK
<1>4. cur' \in [Replicas -> Diagnosis \cup {Absent}]
  BY AgedType DEF Tick, TypeOK
<1>5. ts' \in [Replicas -> Ages]
  BY OlderType DEF Tick, TypeOK
<1>6. sinceCall' \in [Names -> Ages]
  BY OlderType DEF Tick, TypeOK
<1>7. timer' \in [Replicas -> [Pods -> Ages]]
  BY BoundsAssumption DEF Tick, TypeOK, Ages
<1>8. queue' \in [Replicas -> SUBSET Pods]
  BY DEF Tick, TypeOK
<1> QED
  BY <1>1, <1>2, <1>3, <1>4, <1>5, <1>6, <1>7, <1>8 DEF Tick, TypeOK, job

---------------------------------------------------------------------------
(* The worker's own variables, which the helpers of its actions assign.    *)

WorkerTypeOK ==
    /\ queue \in [Replicas -> SUBSET Pods]
    /\ timer \in [Replicas -> [Pods -> Ages]]
    /\ pc \in [Replicas -> Steps]
    /\ req \in [Replicas -> Pods \cup {Absent}]
    /\ snap \in [Replicas -> PodObject \cup {Absent}]
    /\ cur \in [Replicas -> Diagnosis \cup {Absent}]
    /\ attempt \in [Replicas -> 0 .. MaxAttempts - 1]
    /\ logs \in [Replicas -> Nat]
    /\ ts \in [Replicas -> Ages]

LEMMA ReturnErrorType ==
    ASSUME TypeOK, JobOK, NEW r \in Replicas, pc[r] # "idle", ReturnError(r)
    PROVE  WorkerTypeOK'
<1>1. queue' \in [Replicas -> SUBSET Pods]
  BY DEF ReturnError, Enqueue, TypeOK, JobOK, JobAt
<1>2. Finish(r) /\ timer' = timer
  BY DEF ReturnError
<1> QED
  BY <1>1, <1>2, FinishType DEF TypeOK, WorkerTypeOK

LEMMA DecideType ==
    ASSUME TypeOK, JobOK, NEW r \in Replicas, pc[r] # "idle",
           NEW o \in Diagnosis, Decide(r, o), UNCHANGED queue
    PROVE  WorkerTypeOK'
<1>1. CASE Skip(r, o)
  BY <1>1, FinishType DEF Skip, TypeOK, WorkerTypeOK
<1>2. CASE Postpone(r, o)
  <2>1. req[r] \in Pods /\ timer[r][req[r]] \in Ages /\ o.ann \in Ages
    BY DEF TypeOK, JobOK, JobAt, Diagnosis
  <2>2. Sooner(timer[r][req[r]], MinBetween - o.ann) \in Ages
    BY <2>1, BoundsAssumption DEF Sooner, Ages
  <2>3. timer' \in [Replicas -> [Pods -> Ages]]
    BY <1>2, <2>2 DEF Postpone, TypeOK
  <2> QED
    BY <1>2, <2>3, FinishType DEF Postpone, TypeOK, WorkerTypeOK
<1>3. CASE Analyse(r, o)
  <2>1. pc' \in [Replicas -> Steps]
    BY <1>3 DEF Analyse, Goto, Steps, PatchSteps, TypeOK
  <2> QED
    BY <1>3, <2>1 DEF Analyse, TypeOK, WorkerTypeOK, pending
<1> QED
  BY <1>1, <1>2, <1>3 DEF Decide

LEMMA EndLoopType ==
    ASSUME TypeOK, NEW r \in Replicas, NEW step \in Steps, EndLoop(r, step),
           ts' \in [Replicas -> Ages]
    PROVE  WorkerTypeOK'
<1>1. pc' \in [Replicas -> Steps]
  BY DEF EndLoop, Goto, TypeOK
<1>2. cur' \in [Replicas -> Diagnosis \cup {Absent}]
  BY DEF EndLoop, TypeOK
<1>3. attempt' \in [Replicas -> 0 .. MaxAttempts - 1]
  BY BoundsAssumption DEF EndLoop, TypeOK
<1> QED
  BY <1>1, <1>2, <1>3 DEF EndLoop, TypeOK, WorkerTypeOK, work

LEMMA PatchDoneType ==
    ASSUME TypeOK, JobOK, NEW r \in Replicas, pc[r] # "idle", PatchDone(r)
    PROVE  WorkerTypeOK'
<1>1. CASE pc[r] = "analyzing" /\ EndLoop(r, "gather") /\ UNCHANGED ts
  <2>1. "gather" \in Steps /\ ts' \in [Replicas -> Ages]
    BY <1>1 DEF Steps, TypeOK
  <2> QED
    BY <1>1, <2>1, EndLoopType
<1>2. CASE pc[r] = "ready" /\ EndLoop(r, "meta") /\ ts' = [ts EXCEPT ![r] = clock]
  <2>1. clock \in Ages
    BY BoundsAssumption DEF TypeOK, Ages
  <2>2. "meta" \in Steps /\ ts' \in [Replicas -> Ages]
    BY <1>2, <2>1 DEF Steps, PatchSteps, TypeOK
  <2> QED
    BY <1>2, <2>2, EndLoopType
<1>3. CASE pc[r] = "meta" /\ Finish(r) /\ UNCHANGED work
  BY <1>3, FinishType DEF TypeOK, WorkerTypeOK, work
<1>4. CASE pc[r] = "error" /\ ReturnError(r)
  BY <1>4, ReturnErrorType
<1> QED
  BY <1>1, <1>2, <1>3, <1>4 DEF PatchDone

LEMMA TryAgainType ==
    ASSUME TypeOK, JobOK, NEW r \in Replicas, pc[r] # "idle", TryAgain(r)
    PROVE  WorkerTypeOK'
<1>1. CASE /\ attempt[r] + 1 < MaxAttempts
           /\ attempt' = [attempt EXCEPT ![r] = @ + 1]
           /\ cur' = [cur EXCEPT ![r] = Absent]
           /\ UNCHANGED <<work, job, pending>>
  <2>1. attempt' \in [Replicas -> 0 .. MaxAttempts - 1]
    BY <1>1, BoundsAssumption DEF TypeOK
  <2> QED
    BY <1>1, <2>1 DEF TypeOK, WorkerTypeOK, work, job, pending
<1>2. CASE ReturnError(r)
  BY <1>2, ReturnErrorType
<1> QED
  BY <1>1, <1>2 DEF TryAgain

LEMMA SpendType ==
    ASSUME TypeOK, NEW kind, Spend(kind)
    PROVE  faults' \in 0 .. MaxFaults
BY BoundsAssumption DEF Spend, TypeOK

LEMMA WorkerType ==
    ASSUME TypeOK, JobOK, LoopOK, NEW r \in Replicas, Worker(r)
    PROVE  TypeOK'
<1> DEFINE o == cd[NameOf(r)]
<1>0. ASSUME pc[r] # "idle" PROVE o \in Diagnosis \cup {Absent} /\ cdView[r][NameOf(r)] \in Diagnosis \cup {Absent}
  BY <1>0, NameOfType DEF TypeOK
<1>1. CASE GetDiagnosis(r)
  <2>1. pc[r] # "idle"
    BY <1>1 DEF GetDiagnosis
  <2>2. WorkerTypeOK'
    <3> DEFINE v == cdView[r][NameOf(r)]
    <3>1. CASE Goto(r, "create") /\ UNCHANGED <<timer, req, snap, cur, attempt, pending>>
      <4>1. pc' \in [Replicas -> Steps]
        BY <3>1 DEF Goto, Steps, TypeOK
      <4> QED
        BY <1>1, <3>1, <4>1 DEF GetDiagnosis, TypeOK, WorkerTypeOK, pending
    <3>2. CASE v # Absent /\ Decide(r, v)
      <4>1. v \in Diagnosis /\ UNCHANGED queue
        BY <1>0, <1>1, <2>1, <3>2 DEF GetDiagnosis
      <4> QED
        BY <2>1, <3>2, <4>1, DecideType
    <3> QED
      BY <1>1, <3>1, <3>2 DEF GetDiagnosis
  <2>3. faults' \in 0 .. MaxFaults
    BY <1>1, SpendType DEF GetDiagnosis, TypeOK
  <2> QED
    BY <1>1, <2>2, <2>3 DEF GetDiagnosis, TypeOK, WorkerTypeOK, store, views, meter
<1>2. CASE CreateDiagnosis(r)
  <2>1. pc[r] # "idle"
    BY <1>2 DEF CreateDiagnosis
  <2>2. pc' \in [Replicas -> Steps]
    BY <1>2 DEF CreateDiagnosis, Goto, Steps, TypeOK
  <2>3. cd' \in [Names -> Diagnosis \cup {Absent}] /\ fresh' \in [Replicas -> BOOLEAN]
    <3>1. CASE StoreDiagnosis(NameOf(r), NewDiagnosis(r))
      BY <2>1, <3>1, NewDiagnosisType, StoreType
    <3>2. CASE UNCHANGED <<cd, fresh>>
      BY <3>2 DEF TypeOK
    <3> QED
      BY <1>2, <3>1, <3>2 DEF CreateDiagnosis
  <2> QED
    BY <1>2, <2>2, <2>3 DEF CreateDiagnosis, TypeOK, views, work, pending, meter
<1>3. CASE Reread(r)
  <2>1. pc[r] # "idle"
    BY <1>3 DEF Reread
  <2>2. WorkerTypeOK'
    <3>1. CASE ReturnError(r)
      BY <2>1, <3>1, ReturnErrorType
    <3>2. CASE Goto(r, "reread") /\ UNCHANGED <<work, req, snap, cur, attempt, pending>>
      <4>1. pc' \in [Replicas -> Steps]
        BY <3>2 DEF Goto, Steps, TypeOK
      <4> QED
        BY <3>2, <4>1 DEF TypeOK, WorkerTypeOK, work, pending
    <3>3. CASE o # Absent /\ Decide(r, o) /\ UNCHANGED queue
      <4>1. o \in Diagnosis
        BY <1>0, <2>1, <3>3
      <4> QED
        BY <2>1, <3>3, <4>1, DecideType
    <3> QED
      BY <1>3, <3>1, <3>2, <3>3 DEF Reread
  <2> QED
    BY <1>3, <2>2 DEF Reread, TypeOK, WorkerTypeOK, store, views, meter
<1>4. CASE PatchGet(r)
  <2>1. pc[r] # "idle"
    BY <1>4 DEF PatchGet, PatchSteps
  <2>2. WorkerTypeOK'
    <3>1. CASE ReturnError(r)
      BY <2>1, <3>1, ReturnErrorType
    <3>2. CASE o # Absent /\ cur' = [cur EXCEPT ![r] = o] /\ UNCHANGED <<work, job, attempt, pending>>
      <4>1. cur' \in [Replicas -> Diagnosis \cup {Absent}]
        BY <1>0, <2>1, <3>2 DEF TypeOK
      <4> QED
        BY <3>2, <4>1 DEF TypeOK, WorkerTypeOK, work, job, pending
    <3> QED
      BY <1>4, <3>1, <3>2 DEF PatchGet
  <2>3. fresh' \in [Replicas -> BOOLEAN]
    BY <1>4 DEF PatchGet, TypeOK
  <2> QED
    BY <1>4, <2>2, <2>3 DEF PatchGet, TypeOK, WorkerTypeOK, store, views, meter
<1>5. CASE PatchUpdate(r)
  <2>1. pc[r] # "idle"
    BY <1>5 DEF PatchUpdate, PatchSteps
  <2>2. WorkerTypeOK'
    BY <1>5, <2>1, PatchDoneType, ReturnErrorType, TryAgainType DEF PatchUpdate
  <2>3. cd' \in [Names -> Diagnosis \cup {Absent}] /\ fresh' \in [Replicas -> BOOLEAN]
    <3>1. CASE Commit(r)
      BY <3>1, UpdatedType, StoreType DEF Commit
    <3>2. CASE NotStored(r)
      BY <3>2 DEF NotStored, TypeOK
    <3> QED
      BY <1>5, <3>1, <3>2 DEF PatchUpdate
  <2> QED
    BY <1>5, <2>2, <2>3 DEF PatchUpdate, TypeOK, WorkerTypeOK, views, meter
<1>6. CASE Gather(r)
  <2>1. pc' \in [Replicas -> Steps] /\ logs' \in [Replicas -> Nat]
    BY <1>6 DEF Gather, Goto, Steps, TypeOK
  <2> QED
    BY <1>6, <2>1 DEF Gather, TypeOK, store, views, work, patch, meter
<1>7. CASE CallLLM(r)
  <2>1. pc' \in [Replicas -> Steps]
    BY <1>7 DEF CallLLM, Goto, Steps, TypeOK
  <2>2. sinceCall' \in [Names -> Ages]
    <3>1. 0 \in Ages
      BY BoundsAssumption DEF Ages
    <3> QED
      BY <1>7, <3>1 DEF CallLLM, TypeOK
  <2> QED
    BY <1>7, <2>1, <2>2 DEF CallLLM, TypeOK, store, views, work, patch, pending
<1>8. CASE LLMAnswers(r)
  <2>1. pc' \in [Replicas -> Steps]
    BY <1>8 DEF LLMAnswers, Goto, Steps, PatchSteps, TypeOK
  <2> QED
    BY <1>8, <2>1 DEF LLMAnswers, TypeOK, store, views, work, patch, pending, meter
<1> QED
  BY <1>1, <1>2, <1>3, <1>4, <1>5, <1>6, <1>7, <1>8 DEF Worker

LEMMA TroubleType ==
    ASSUME TypeOK, JobOK, LoopOK, NEW r \in Replicas, Trouble(r)
    PROVE  TypeOK'
<1>1. CASE AnalysisFails(r)
  <2>1. faults' \in 0 .. MaxFaults
    BY <1>1, SpendType DEF AnalysisFails
  <2>2. pc' \in [Replicas -> Steps] /\ logs' \in [Replicas -> Nat]
    BY <1>1 DEF AnalysisFails, Goto, Steps, PatchSteps, TypeOK
  <2> QED
    BY <1>1, <2>1, <2>2 DEF AnalysisFails, TypeOK, store, views, work, patch, meter
<1>2. CASE ReadFails(r)
  <2>1. faults' \in 0 .. MaxFaults
    BY <1>2, SpendType DEF ReadFails
  <2>2. pc[r] # "idle" /\ ReturnError(r)
    BY <1>2 DEF ReadFails, PatchSteps
  <2>3. WorkerTypeOK'
    BY <2>2, ReturnErrorType
  <2> QED
    BY <1>2, <2>1, <2>3 DEF ReadFails, TypeOK, WorkerTypeOK, store, views, meter
<1>3. CASE UpdateFails(r)
  <2>1. faults' \in 0 .. MaxFaults
    BY <1>3, SpendType DEF UpdateFails
  <2>2. pc[r] # "idle"
    BY <1>3 DEF UpdateFails, PatchSteps
  <2>3. WorkerTypeOK'
    BY <1>3, <2>2, TryAgainType, ReturnErrorType DEF UpdateFails
  <2>4. cd' \in [Names -> Diagnosis \cup {Absent}] /\ fresh' \in [Replicas -> BOOLEAN]
    <3>1. CASE Commit(r)
      BY <3>1, UpdatedType, StoreType DEF Commit
    <3>2. CASE NotStored(r)
      BY <3>2 DEF NotStored, TypeOK
    <3> QED
      BY <1>3, <3>1, <3>2 DEF UpdateFails
  <2> QED
    BY <1>3, <2>1, <2>3, <2>4 DEF UpdateFails, TypeOK, WorkerTypeOK, views, meter
<1>4. CASE CreateFails(r)
  <2>1. faults' \in 0 .. MaxFaults
    BY <1>4, SpendType DEF CreateFails
  <2>2. pc[r] # "idle"
    BY <1>4 DEF CreateFails
  <2>3. WorkerTypeOK'
    BY <1>4, <2>2, ReturnErrorType DEF CreateFails
  <2>4. cd' \in [Names -> Diagnosis \cup {Absent}] /\ fresh' \in [Replicas -> BOOLEAN]
    <3>1. CASE StoreDiagnosis(NameOf(r), NewDiagnosis(r))
      BY <2>2, <3>1, NewDiagnosisType, StoreType
    <3>2. CASE UNCHANGED <<cd, fresh>>
      BY <3>2 DEF TypeOK
    <3> QED
      BY <1>4, <3>1, <3>2 DEF CreateFails
  <2> QED
    BY <1>4, <2>1, <2>3, <2>4 DEF CreateFails, TypeOK, WorkerTypeOK, views, meter
<1>5. CASE Restart(r)
  <2>1. faults' \in 0 .. MaxFaults
    BY <1>5, SpendType DEF Restart
  <2>2. /\ podView' \in [Replicas -> [Pods -> PodObject \cup {Absent}]]
        /\ cdView' \in [Replicas -> [Names -> Diagnosis \cup {Absent}]]
    BY <1>5 DEF Restart, TypeOK
  <2>3. queue' \in [Replicas -> SUBSET Pods]
    BY <1>5 DEF Restart, FailingPods, TypeOK
  <2>4. timer' \in [Replicas -> [Pods -> Ages]]
    BY <1>5, BoundsAssumption DEF Restart, TypeOK, Ages
  <2>5. fresh' \in [Replicas -> BOOLEAN]
    BY <1>5 DEF Restart, TypeOK
  <2> QED
    BY <1>5, <2>1, <2>2, <2>3, <2>4, <2>5, FinishType DEF Restart, TypeOK, store, meter
<1> QED
  BY <1>1, <1>2, <1>3, <1>4, <1>5 DEF Trouble

LEMMA StartType ==
    ASSUME TypeOK, NEW r \in Replicas, NEW p \in Pods, StartReconcile(r, p)
    PROVE  TypeOK'
<1>1. queue' \in [Replicas -> SUBSET Pods]
  BY DEF StartReconcile, TypeOK
<1>2. /\ pc' \in [Replicas -> Steps]
      /\ req' \in [Replicas -> Pods \cup {Absent}]
      /\ snap' \in [Replicas -> PodObject \cup {Absent}]
  <2>1. CASE Failing(podView[r][p])
    <3>1. /\ pc' = [pc EXCEPT ![r] = "get"]
          /\ req' = [req EXCEPT ![r] = p]
          /\ snap' = [snap EXCEPT ![r] = podView[r][p]]
      BY <2>1 DEF StartReconcile, Goto
    <3>2. "get" \in Steps /\ podView[r][p] \in PodObject \cup {Absent}
      BY DEF Steps, TypeOK
    <3> QED
      BY <3>1, <3>2 DEF TypeOK
  <2>2. CASE UNCHANGED job
    BY <2>2 DEF TypeOK, job
  <2> QED
    BY <2>1, <2>2 DEF StartReconcile
<1> QED
  BY <1>1, <1>2 DEF StartReconcile, TypeOK, store, views, patch, pending, meter

---------------------------------------------------------------------------
(* What a step of one replica leaves alone.                                *)

Reconciles(r) == Worker(r) \/ Trouble(r) \/ \E p \in Pods: StartReconcile(r, p)

Untouched(r) ==
    /\ pc'[r] = pc[r]
    /\ req'[r] = req[r]
    /\ snap'[r] = snap[r]
    /\ cur'[r] = cur[r]
    /\ logs'[r] = logs[r]

LEMMA FinishLocal ==
    ASSUME TypeOK, NEW r \in Replicas, Finish(r)
    PROVE  /\ pc'[r] = "idle" /\ cur'[r] = Absent /\ req'[r] = Absent /\ snap'[r] = Absent
           /\ \A q \in Replicas \ {r}: Untouched(q)
BY DEF TypeOK, Finish, Goto, Untouched

LEMMA GotoLocal ==
    ASSUME TypeOK, NEW r \in Replicas, NEW step, Goto(r, step)
    PROVE  /\ pc'[r] = step
           /\ \A q \in Replicas \ {r}: pc'[q] = pc[q]
BY DEF TypeOK, Goto

LEMMA DecideLocal ==
    ASSUME TypeOK, NEW r \in Replicas, NEW o, Decide(r, o)
    PROVE  /\ \/ Finish(r)
              \/ Goto(r, "analyzing") /\ UNCHANGED <<req, snap, cur, logs>>
           /\ \A q \in Replicas \ {r}: Untouched(q)
<1>1. CASE Finish(r)
  BY <1>1, FinishLocal
<1>2. CASE Goto(r, "analyzing") /\ UNCHANGED <<req, snap, cur, logs>>
  BY <1>2, GotoLocal DEF Untouched
<1> QED
  BY <1>1, <1>2 DEF Decide, Skip, Postpone, Analyse, pending

LEMMA EndLoopLocal ==
    ASSUME TypeOK, NEW r \in Replicas, NEW step, EndLoop(r, step)
    PROVE  /\ cur'[r] = Absent /\ pc'[r] = step /\ UNCHANGED <<req, snap, logs>>
           /\ \A q \in Replicas \ {r}: Untouched(q)
BY DEF TypeOK, EndLoop, Goto, Untouched

LEMMA PatchDoneLocal ==
    ASSUME TypeOK, NEW r \in Replicas, PatchDone(r)
    PROVE  /\ cur'[r] = Absent
           /\ \A q \in Replicas \ {r}: Untouched(q)
           /\ \/ Finish(r)
              \/ pc[r] = "analyzing" /\ pc'[r] = "gather" /\ UNCHANGED <<req, snap, logs>>
              \/ pc[r] = "ready" /\ pc'[r] = "meta" /\ UNCHANGED <<req, snap, logs>>
BY EndLoopLocal, FinishLocal DEF PatchDone, ReturnError

LEMMA TryAgainLocal ==
    ASSUME TypeOK, NEW r \in Replicas, TryAgain(r)
    PROVE  /\ cur'[r] = Absent
           /\ \A q \in Replicas \ {r}: Untouched(q)
           /\ Finish(r) \/ UNCHANGED <<pc, req, snap, logs>>
<1>1. CASE ReturnError(r)
  BY <1>1, FinishLocal DEF ReturnError
<1>2. CASE cur' = [cur EXCEPT ![r] = Absent] /\ UNCHANGED <<work, job, pending>>
  BY <1>2 DEF TypeOK, job, pending, Untouched
<1> QED
  BY <1>1, <1>2 DEF TryAgain

LEMMA OthersUntouched ==
    ASSUME TypeOK, NEW r \in Replicas, Reconciles(r), NEW q \in Replicas \ {r}
    PROVE  Untouched(q)
<1>1. CASE GetDiagnosis(r)
  BY <1>1, DecideLocal, GotoLocal DEF GetDiagnosis, Untouched, pending
<1>2. CASE CreateDiagnosis(r)
  BY <1>2, GotoLocal DEF CreateDiagnosis, Untouched, pending
<1>3. CASE Reread(r)
  BY <1>3, DecideLocal, GotoLocal, FinishLocal DEF Reread, ReturnError, Untouched, pending
<1>4. CASE PatchGet(r)
  <2>1. CASE ReturnError(r)
    BY <2>1, FinishLocal DEF ReturnError
  <2>2. CASE cur' = [cur EXCEPT ![r] = cd[NameOf(r)]] /\ UNCHANGED <<job, pending>>
    BY <2>2 DEF TypeOK, Untouched, job, pending
  <2> QED
    BY <1>4, <2>1, <2>2 DEF PatchGet
<1>5. CASE PatchUpdate(r)
  BY <1>5, PatchDoneLocal, TryAgainLocal, FinishLocal DEF PatchUpdate, ReturnError
<1>6. CASE Gather(r)
  BY <1>6, GotoLocal DEF Gather, Untouched, patch, TypeOK
<1>7. CASE CallLLM(r)
  BY <1>7, GotoLocal DEF CallLLM, Untouched, patch, pending
<1>8. CASE LLMAnswers(r)
  BY <1>8, GotoLocal DEF LLMAnswers, Untouched, patch, pending
<1>9. CASE AnalysisFails(r)
  BY <1>9, GotoLocal DEF AnalysisFails, Untouched, patch, TypeOK
<1>10. CASE ReadFails(r)
  BY <1>10, FinishLocal DEF ReadFails, ReturnError
<1>11. CASE UpdateFails(r)
  BY <1>11, TryAgainLocal, FinishLocal DEF UpdateFails, ReturnError
<1>12. CASE CreateFails(r)
  BY <1>12, FinishLocal DEF CreateFails, ReturnError
<1>13. CASE Restart(r)
  BY <1>13, FinishLocal DEF Restart
<1>14. ASSUME NEW p \in Pods, StartReconcile(r, p) PROVE Untouched(q)
  <2>1. UNCHANGED <<cur, logs>>
    BY <1>14 DEF StartReconcile, patch, pending
  <2>2. pc'[q] = pc[q] /\ req'[q] = req[q] /\ snap'[q] = snap[q]
    BY <1>14 DEF StartReconcile, Goto, job, TypeOK
  <2> QED
    BY <2>1, <2>2 DEF Untouched
<1> QED
  BY <1>1, <1>2, <1>3, <1>4, <1>5, <1>6, <1>7, <1>8, <1>9, <1>10, <1>11, <1>12,
     <1>13, <1>14 DEF Reconciles, Worker, Trouble

\* The steps of a reconcile that write to the API server.
Writes(r) ==
    \/ CreateDiagnosis(r) /\ StoreDiagnosis(NameOf(r), NewDiagnosis(r))
    \/ CreateFails(r) /\ StoreDiagnosis(NameOf(r), NewDiagnosis(r))
    \/ PatchUpdate(r) /\ Commit(r)
    \/ UpdateFails(r) /\ Commit(r)

LEMMA WritesOrNot ==
    ASSUME TypeOK, NEW r \in Replicas, Reconciles(r)
    PROVE  \/ Writes(r)
           \/ UNCHANGED cd /\ \A q \in Replicas \ {r}: fresh'[q] = fresh[q]
<1>1. CASE PatchGet(r)
  BY <1>1 DEF PatchGet, store, TypeOK
<1>2. CASE PatchUpdate(r)
  BY <1>2 DEF PatchUpdate, Writes, NotStored, TypeOK
<1>3. CASE UpdateFails(r)
  BY <1>3 DEF UpdateFails, Writes, NotStored, TypeOK
<1>4. CASE CreateDiagnosis(r) \/ CreateFails(r)
  BY <1>4 DEF CreateDiagnosis, CreateFails, Writes
<1>5. CASE Restart(r)
  BY <1>5 DEF Restart, store, TypeOK
<1>6. CASE \/ GetDiagnosis(r) \/ Reread(r) \/ Gather(r) \/ CallLLM(r) \/ LLMAnswers(r)
           \/ AnalysisFails(r) \/ ReadFails(r) \/ \E p \in Pods: StartReconcile(r, p)
  BY <1>6 DEF GetDiagnosis, Reread, Gather, CallLLM, LLMAnswers, AnalysisFails,
              ReadFails, StartReconcile, store, patch
<1> QED
  BY <1>1, <1>2, <1>3, <1>4, <1>5, <1>6 DEF Reconciles, Worker, Trouble

LEMMA WritesStore ==
    ASSUME TypeOK, NEW r \in Replicas, Writes(r)
    PROVE  /\ pc[r] # "idle"
           /\ ~fresh'[r]
           /\ \E o: StoreDiagnosis(NameOf(r), o)
<1>1. pc[r] # "idle"
  BY DEF Writes, CreateDiagnosis, CreateFails, PatchUpdate, UpdateFails, PatchSteps
<1>2. PICK o: StoreDiagnosis(NameOf(r), o)
  BY DEF Writes, Commit
<1>3. Works(r, NameOf(r))
  BY <1>1 DEF Works, NameOf
<1> QED
  BY <1>1, <1>2, <1>3 DEF StoreDiagnosis, TypeOK

---------------------------------------------------------------------------
(* JobOK and LoopOK are inductive.                                         *)

\* A reconcile step ends the reconcile, goes on with it, or starts one.
LEMMA JobLocal ==
    ASSUME TypeOK, JobOK, NEW r \in Replicas, Reconciles(r)
    PROVE  \/ pc'[r] = "idle"
           \/ pc[r] # "idle" /\ req'[r] = req[r] /\ snap'[r] = snap[r]
           \/ /\ pc[r] = "idle"
              /\ \E p \in Pods: req'[r] = p /\ snap'[r] = podView[r][p] /\ Failing(podView[r][p])
<1>1. CASE GetDiagnosis(r)
  <2>1. CASE Decide(r, cdView[r][NameOf(r)])
    <3>1. Finish(r) \/ UNCHANGED <<req, snap>>
      BY <2>1, DecideLocal
    <3> QED
      BY <1>1, <3>1, FinishLocal DEF GetDiagnosis
  <2>2. CASE UNCHANGED <<req, snap>>
    BY <1>1, <2>2 DEF GetDiagnosis
  <2> QED
    BY <1>1, <2>1, <2>2 DEF GetDiagnosis
<1>2. CASE CreateDiagnosis(r)
  BY <1>2 DEF CreateDiagnosis
<1>3. CASE Reread(r)
  BY <1>3, DecideLocal, FinishLocal DEF Reread, ReturnError
<1>4. CASE PatchGet(r)
  BY <1>4, FinishLocal DEF PatchGet, ReturnError, PatchSteps, job
<1>5. CASE PatchUpdate(r)
  BY <1>5, PatchDoneLocal, TryAgainLocal, FinishLocal
     DEF PatchUpdate, ReturnError, PatchSteps
<1>6. CASE Gather(r) \/ CallLLM(r) \/ LLMAnswers(r) \/ AnalysisFails(r)
  BY <1>6 DEF Gather, CallLLM, LLMAnswers, AnalysisFails
<1>7. CASE ReadFails(r)
  BY <1>7, FinishLocal DEF ReadFails, ReturnError
<1>8. CASE UpdateFails(r)
  BY <1>8, TryAgainLocal, FinishLocal DEF UpdateFails, ReturnError, PatchSteps
<1>9. CASE CreateFails(r) \/ Restart(r)
  BY <1>9, FinishLocal DEF CreateFails, Restart, ReturnError
<1>10. ASSUME NEW p \in Pods, StartReconcile(r, p)
       PROVE  \/ pc'[r] = "idle"
              \/ /\ pc[r] = "idle"
                 /\ req'[r] = p /\ snap'[r] = podView[r][p] /\ Failing(podView[r][p])
  <2>1. CASE Failing(podView[r][p])
    <3>1. req' = [req EXCEPT ![r] = p] /\ snap' = [snap EXCEPT ![r] = podView[r][p]]
      BY <1>10, <2>1 DEF StartReconcile
    <3> QED
      BY <1>10, <2>1, <3>1 DEF StartReconcile, TypeOK
  <2>2. CASE ~Failing(podView[r][p])
    <3>1. pc[r] = "idle" /\ UNCHANGED job
      BY <1>10, <2>2 DEF StartReconcile
    <3>2. pc' = pc
      BY <3>1 DEF job
    <3> QED
      BY <3>1, <3>2
  <2> QED
    BY <2>1, <2>2
<1> QED
  BY <1>1, <1>2, <1>3, <1>4, <1>5, <1>6, <1>7, <1>8, <1>9, <1>10
     DEF Reconciles, Worker, Trouble

\* It forgets the object of the patch loop unless it has just read it.
LEMMA LoopLocal ==
    ASSUME TypeOK, JobOK, LoopOK, NEW r \in Replicas, Reconciles(r)
    PROVE  \/ cur'[r] = Absent /\ ~fresh'[r]
           \/ /\ pc[r] \in PatchSteps
              /\ UNCHANGED <<cd, pc, req, snap>>
              /\ cur'[r] = cd[NameOf(r)]
              /\ cd[NameOf(r)] # Absent
<1>0. LoopAt(r)
  BY DEF LoopOK
<1>1. ASSUME pc[r] \notin PatchSteps, cur'[r] = cur[r] \/ cur'[r] = Absent,
             Writes(r) \/ fresh'[r] = fresh[r]
      PROVE  cur'[r] = Absent /\ ~fresh'[r]
  BY <1>0, <1>1, WritesStore DEF LoopAt
<1>2. CASE GetDiagnosis(r) \/ Reread(r)
  <2>1. pc[r] \notin PatchSteps /\ fresh'[r] = fresh[r]
    BY <1>2 DEF GetDiagnosis, Reread, PatchSteps
  <2>2. cur'[r] = cur[r] \/ cur'[r] = Absent
    BY <1>2, DecideLocal, FinishLocal DEF GetDiagnosis, Reread, ReturnError
  <2> QED
    BY <1>1, <2>1, <2>2
<1>3. CASE CreateDiagnosis(r) \/ CreateFails(r)
  <2>1. pc[r] \notin PatchSteps
    BY <1>3 DEF CreateDiagnosis, CreateFails, PatchSteps
  <2>2. cur'[r] = cur[r] \/ cur'[r] = Absent
    BY <1>3, FinishLocal DEF CreateDiagnosis, CreateFails, ReturnError
  <2>3. Writes(r) \/ fresh'[r] = fresh[r]
    BY <1>3 DEF CreateDiagnosis, CreateFails, Writes
  <2> QED
    BY <1>1, <2>1, <2>2, <2>3
<1>4. CASE PatchGet(r)
  <2>1. CASE ReturnError(r) /\ UNCHANGED fresh
    BY <1>0, <1>4, <2>1, FinishLocal DEF PatchGet, ReturnError, LoopAt
  <2>2. CASE /\ cd[NameOf(r)] # Absent
             /\ cur' = [cur EXCEPT ![r] = cd[NameOf(r)]]
             /\ UNCHANGED job
    BY <1>4, <2>2 DEF PatchGet, TypeOK, job, store
  <2> QED
    BY <1>4, <2>1, <2>2 DEF PatchGet
<1>5. CASE PatchUpdate(r) \/ UpdateFails(r)
  <2>1. cur'[r] = Absent
    BY <1>5, PatchDoneLocal, TryAgainLocal, FinishLocal
       DEF PatchUpdate, UpdateFails, ReturnError
  <2>2. CASE NotStored(r)
    BY <2>1, <2>2 DEF NotStored, TypeOK
  <2>3. CASE Commit(r)
    BY <1>5, <2>1, <2>3, WritesStore DEF Writes
  <2> QED
    BY <1>5, <2>2, <2>3 DEF PatchUpdate, UpdateFails
<1>6. CASE Gather(r) \/ CallLLM(r) \/ LLMAnswers(r) \/ AnalysisFails(r)
  <2>1. pc[r] \notin PatchSteps /\ UNCHANGED <<cur, fresh>>
    BY <1>6 DEF Gather, CallLLM, LLMAnswers, AnalysisFails, PatchSteps, patch
  <2> QED
    BY <1>1, <2>1
<1>7. CASE ReadFails(r)
  BY <1>0, <1>7, FinishLocal DEF ReadFails, ReturnError, LoopAt, PatchSteps
<1>8. CASE Restart(r)
  BY <1>8, FinishLocal DEF Restart, TypeOK
<1>9. ASSUME NEW p \in Pods, StartReconcile(r, p) PROVE cur'[r] = Absent /\ ~fresh'[r]
  <2>1. pc[r] \notin PatchSteps /\ UNCHANGED <<cur, fresh>>
    BY <1>9 DEF StartReconcile, PatchSteps, patch
  <2> QED
    BY <1>1, <2>1
<1> QED
  BY <1>2, <1>3, <1>4, <1>5, <1>6, <1>7, <1>8, <1>9 DEF Reconciles, Worker, Trouble

LEMMA JobStep == ASSUME TypeOK, JobOK, Next PROVE JobOK'
<1>1. CASE UNCHANGED job
  BY <1>1 DEF JobOK, JobAt, job
<1>2. ASSUME NEW r \in Replicas, Reconciles(r) PROVE JobOK'
  <2>1. JobAt(r)'
    <3>1. ASSUME NEW p \in Pods, Failing(podView[r][p])
          PROVE  podView[r][p] # Absent /\ podView[r][p].ft \in FailureTypes
      BY <3>1 DEF Failing, TypeOK, PodObject
    <3> QED
      BY <1>2, <3>1, JobLocal DEF JobOK, JobAt
  <2>2. ASSUME NEW q \in Replicas \ {r} PROVE JobAt(q)'
    BY <1>2, <2>2, OthersUntouched DEF JobOK, JobAt, Untouched
  <2> QED
    BY <2>1, <2>2 DEF JobOK
<1>3. CASE Cluster \/ Tick \/ \E r \in Replicas: Informers(r)
  BY <1>1, <1>3 DEF Cluster, PodFails, PodRecovers, PodDeleted, PodRecreated, PodWrite,
     CollectGarbage, DeleteDiagnosis, Removed, Tick, Informers, SyncPod, SyncDiagnosis,
     Resync, work, job
<1> QED
  BY <1>2, <1>3 DEF Next, Reconciles

LEMMA LoopStep == ASSUME TypeOK, JobOK, LoopOK, Next PROVE LoopOK'
\* Nothing but the resourceVersion of the object of q may have changed.
<1>1. ASSUME NEW q \in Replicas,
             pc'[q] = pc[q], req'[q] = req[q], snap'[q] = snap[q], cur'[q] = cur[q],
             fresh'[q] => fresh[q] /\ cd'[NameOf(q)] = cd[NameOf(q)]
      PROVE  LoopAt(q)'
  BY <1>1 DEF LoopOK, LoopAt, NameOf
<1>2. ASSUME NEW n, NEW o, StoreDiagnosis(n, o), NEW q \in Replicas, fresh'[q]
      PROVE  fresh[q] /\ cd'[NameOf(q)] = cd[NameOf(q)]
  <2>1. fresh[q] /\ ~Works(q, n)
    BY <1>2 DEF StoreDiagnosis
  <2>2. NameOf(q) # n
    BY <2>1 DEF LoopOK, LoopAt, Works, NameOf, PatchSteps
  <2> QED
    BY <1>2, <2>1, <2>2, NameOfType DEF StoreDiagnosis, TypeOK
<1>3. ASSUME NEW r \in Replicas, Reconciles(r) PROVE LoopOK'
  <2>1. LoopAt(r)'
    <3>1. CASE cur'[r] = Absent /\ ~fresh'[r]
      BY <3>1 DEF LoopAt
    <3>2. CASE /\ pc[r] \in PatchSteps
               /\ UNCHANGED <<cd, pc, req, snap>>
               /\ cur'[r] = cd[NameOf(r)]
               /\ cd[NameOf(r)] # Absent
      BY <3>2 DEF LoopAt, NameOf
    <3> QED
      BY <1>3, <3>1, <3>2, LoopLocal
  <2>2. ASSUME NEW q \in Replicas \ {r} PROVE LoopAt(q)'
    <3>1. Untouched(q)
      BY <1>3, OthersUntouched
    <3>2. fresh'[q] => fresh[q] /\ cd'[NameOf(q)] = cd[NameOf(q)]
      BY <1>2, <1>3, WritesOrNot, WritesStore
    <3> QED
      BY <1>1, <3>1, <3>2 DEF Untouched
  <2> QED
    BY <2>1, <2>2 DEF LoopOK
<1>4. ASSUME NEW n \in Names, Removed(n) PROVE LoopOK'
  BY <1>1, <1>2, <1>4 DEF Removed, job, LoopOK
<1>5. CASE Tick
  <2>1. ASSUME NEW q \in Replicas PROVE LoopAt(q)'
    <3>1. LoopAt(q) /\ UNCHANGED <<pc, req, snap, fresh>> /\ cur'[q] = Aged(cur[q])
      BY <1>5 DEF Tick, job, LoopOK
    <3>2. fresh[q] => cd'[NameOf(q)] = Aged(cd[NameOf(q)])
      BY <1>5, <3>1, NameOfType DEF Tick, LoopAt, PatchSteps
    <3>3. Aged(Absent) = Absent
      BY DEF Aged
    <3>4. fresh[q] => Aged(cur[q]) # Absent
      <4> SUFFICES ASSUME fresh[q] PROVE Aged(cur[q]) # Absent
        OBVIOUS
      <4>1. cur[q] \in Diagnosis
        BY <3>1 DEF LoopAt, TypeOK
      <4>2. Aged(cur[q]) \in Diagnosis
        BY <4>1, AgedType, AbsentIsNoObject
      <4> QED
        BY <4>2, AbsentIsNoObject
    <3> QED
      BY <3>1, <3>2, <3>3, <3>4 DEF LoopAt, NameOf
  <2> QED
    BY <2>1 DEF LoopOK
<1>6. CASE UNCHANGED <<cd, job, patch>>
  BY <1>6 DEF LoopOK, LoopAt, NameOf, job, patch
<1>7. CASE Cluster
  BY <1>4, <1>6, <1>7 DEF Cluster, PodFails, PodRecovers, PodDeleted, PodRecreated,
     PodWrite, CollectGarbage, DeleteDiagnosis
<1>8. ASSUME NEW r \in Replicas, Informers(r) PROVE LoopOK'
  BY <1>6, <1>8 DEF Informers, SyncPod, SyncDiagnosis, Resync, store, work
<1> QED
  BY <1>3, <1>5, <1>7, <1>8 DEF Next, Reconciles

---------------------------------------------------------------------------
(* Type correctness.                                                       *)

LEMMA InitCore == Init => Core
<1> SUFFICES ASSUME Init PROVE Core
  OBVIOUS
<1>1. NewPod(0) \in PodObject
  BY DEF NewPod, PodObject
<1>2. 0 \in Ages /\ MinBetween \in Ages /\ 0 \in 0 .. MaxAttempts - 1 /\ 0 \in 0 .. TicksPerSecond - 1
  BY BoundsAssumption DEF Ages
<1>3. TypeOK
  BY <1>1, <1>2, BoundsAssumption DEF Init, TypeOK, Steps
<1> QED
  BY <1>3 DEF Core, Init, JobOK, JobAt, LoopOK, LoopAt

LEMMA NextCore == Core /\ [Next]_vars => Core'
<1> SUFFICES ASSUME Core, [Next]_vars PROVE Core'
  OBVIOUS
<1>1. CASE Next
  <2>1. TypeOK'
    BY <1>1, ClusterType, TickType, InformersType, StartType, WorkerType, TroubleType
       DEF Next, Core
  <2> QED
    BY <1>1, <2>1, JobStep, LoopStep DEF Core
<1>2. CASE UNCHANGED vars
  BY <1>2 DEF Core, TypeOK, JobOK, JobAt, LoopOK, LoopAt, NameOf, vars, store, views,
     work, job, patch, pending, meter
<1> QED
  BY <1>1, <1>2

\* The core invariant holds in every reachable state.
THEOREM CoreInvariant == Spec => []Core
BY InitCore, NextCore, PTL DEF Spec

\* Every variable keeps its type: no step of pod_controller.go writes a status
\* without an object, counts an attempt too many or reads a request it does not have.
THEOREM TypeCorrect == Spec => []TypeOK
<1>1. Core => TypeOK
  BY DEF Core
<1> QED
  BY <1>1, CoreInvariant, PTL

---------------------------------------------------------------------------
(* What the writes of a reconcile say.                                     *)

LEMMA NewDiagnosisFields ==
    ASSUME NEW r
    PROVE  /\ NewDiagnosis(r).target = req[r]
           /\ NewDiagnosis(r).ft = snap[r].ft
           /\ NewDiagnosis(r).owner = snap[r].uid
           /\ NewDiagnosis(r).phase = ""
           /\ NewDiagnosis(r).diag = Absent
BY DEF NewDiagnosis

LEMMA AnswerFields ==
    ASSUME NEW r
    PROVE  /\ Answer(r).pod = req[r] /\ Answer(r).ft = snap[r].ft
           /\ Answer(r).obs = snap[r].rv /\ Answer(r).logs = logs[r]
BY DEF Answer

LEMMA UpdatedFields ==
    ASSUME Core, NEW r \in Replicas, fresh[r]
    PROVE  /\ pc[r] # "idle"
           /\ NameOf(r) \in Names
           /\ cd[NameOf(r)] \in Diagnosis /\ Updated(r) \in Diagnosis
           /\ Updated(r).target = cd[NameOf(r)].target
           /\ Updated(r).ft = cd[NameOf(r)].ft
           /\ Updated(r).owner = cd[NameOf(r)].owner
           /\ pc[r] # "ready" => Updated(r).diag = cd[NameOf(r)].diag
           /\ pc[r] = "ready" =>
                Updated(r).diag = Answer(r)
<1>1. /\ pc[r] \in PatchSteps
      /\ cur[r] \in Diagnosis
      /\ cd[NameOf(r)] = cur[r]
  BY DEF Core, TypeOK, LoopOK, LoopAt
<1>2. pc[r] # "idle" /\ NameOf(r) \in Names
  BY <1>1, NameOfType DEF Core, PatchSteps
<1>3. Updated(r) \in Diagnosis
  BY UpdatedType DEF Core
<1>4. CASE pc[r] = "analyzing"
  BY <1>1, <1>2, <1>3, <1>4 DEF Updated, Mutated, Diagnosis
<1>5. CASE pc[r] = "ready"
  BY <1>1, <1>2, <1>3, <1>5 DEF Updated, Mutated, Diagnosis
<1>6. CASE pc[r] = "error"
  BY <1>1, <1>2, <1>3, <1>6 DEF Updated, Mutated, Diagnosis
<1>7. CASE pc[r] = "meta"
  BY <1>1, <1>2, <1>3, <1>7 DEF Updated, Mutated, Diagnosis
<1> QED
  BY <1>1, <1>4, <1>5, <1>6, <1>7 DEF PatchSteps

\* Every change of a stored diagnosis: it ages, is removed, created or updated.
LEMMA DiagnosisStep ==
    ASSUME Core, [Next]_vars, NEW n \in Names
    PROVE  \/ cd'[n] = cd[n]
           \/ cd[n] # Absent /\ cd'[n] = [cd[n] EXCEPT !.ann = Older(@)]
           \/ cd'[n] = Absent
           \/ \E r \in Replicas:
                /\ pc[r] # "idle"
                /\ n = NameOf(r)
                /\ \/ cd[n] = Absent /\ cd'[n] = NewDiagnosis(r)
                   \/ fresh[r] /\ cd'[n] = Updated(r)
<1>1. ASSUME NEW m, NEW o, StoreDiagnosis(m, o)
      PROVE  cd'[n] = IF n = m THEN o ELSE cd[n]
  BY <1>1 DEF StoreDiagnosis, Core, TypeOK
<1>2. ASSUME NEW r \in Replicas, Writes(r)
      PROVE  \/ cd'[n] = cd[n]
             \/ /\ pc[r] # "idle"
                /\ n = NameOf(r)
                /\ \/ cd[n] = Absent /\ cd'[n] = NewDiagnosis(r)
                   \/ fresh[r] /\ cd'[n] = Updated(r)
  <2>1. CASE cd[NameOf(r)] = Absent /\ StoreDiagnosis(NameOf(r), NewDiagnosis(r))
    BY <1>1, <1>2, <2>1, WritesStore DEF Core
  <2>2. CASE Commit(r)
    BY <1>1, <1>2, <2>2, WritesStore DEF Core, Commit
  <2>3. ASSUME CreateDiagnosis(r), StoreDiagnosis(NameOf(r), NewDiagnosis(r))
        PROVE  cd[NameOf(r)] = Absent \/ UNCHANGED cd
    BY <2>3 DEF CreateDiagnosis
  <2> QED
    BY <1>2, <2>1, <2>2, <2>3 DEF Writes, CreateFails
<1>3. ASSUME NEW r \in Replicas, Reconciles(r)
      PROVE  Writes(r) \/ UNCHANGED cd
  BY <1>3, WritesOrNot DEF Core
<1>4. ASSUME NEW m \in Names, Removed(m)
      PROVE  cd'[n] = cd[n] \/ cd'[n] = Absent
  BY <1>1, <1>4 DEF Removed
<1>5. CASE Tick
  BY <1>5 DEF Tick, Aged
<1>6. CASE Cluster
  BY <1>4, <1>6 DEF Cluster, PodFails, PodRecovers, PodDeleted, PodRecreated, PodWrite,
     CollectGarbage, DeleteDiagnosis
<1>7. ASSUME NEW r \in Replicas, Informers(r) PROVE UNCHANGED cd
  BY <1>7 DEF Informers, SyncPod, SyncDiagnosis, Resync, store
<1>8. CASE UNCHANGED vars
  BY <1>8 DEF vars, store
<1> QED
  BY <1>2, <1>3, <1>5, <1>6, <1>7, <1>8 DEF Next, Reconciles

---------------------------------------------------------------------------
(* AboutItsTarget.                                                         *)

LEMMA AboutItsTargetStep ==
    ASSUME Core, AboutItsTarget, [Next]_vars
    PROVE  AboutItsTarget'
<1> SUFFICES ASSUME NEW n \in Names, cd'[n] # Absent
             PROVE  /\ Name[<<cd'[n].target, cd'[n].ft>>] = n
                    /\ cd'[n].diag # Absent =>
                         cd'[n].diag.pod = cd'[n].target /\ cd'[n].diag.ft = cd'[n].ft
  BY DEF AboutItsTarget
<1>1. CASE cd'[n] = cd[n]
  BY <1>1 DEF AboutItsTarget
<1>2. CASE cd[n] # Absent /\ cd'[n] = [cd[n] EXCEPT !.ann = Older(@)]
  <2>1. cd[n] \in Diagnosis
    BY <1>2 DEF Core, TypeOK
  <2>2. cd'[n].target = cd[n].target /\ cd'[n].ft = cd[n].ft /\ cd'[n].diag = cd[n].diag
    BY <1>2, <2>1 DEF Diagnosis
  <2> QED
    BY <1>2, <2>2 DEF AboutItsTarget
<1>3. ASSUME NEW r \in Replicas, pc[r] # "idle", n = NameOf(r), cd'[n] = NewDiagnosis(r)
      PROVE  Name[<<cd'[n].target, cd'[n].ft>>] = n /\ cd'[n].diag = Absent
  <2>1. cd'[n].target = req[r] /\ cd'[n].ft = snap[r].ft /\ cd'[n].diag = Absent
    BY <1>3, NewDiagnosisFields
  <2> QED
    BY <1>3, <2>1 DEF NameOf
<1>4. ASSUME NEW r \in Replicas, n = NameOf(r), fresh[r], cd'[n] = Updated(r)
      PROVE  /\ Name[<<cd'[n].target, cd'[n].ft>>] = n
             /\ cd'[n].diag # Absent =>
                  cd'[n].diag.pod = cd'[n].target /\ cd'[n].diag.ft = cd'[n].ft
  <2>1. /\ pc[r] # "idle"
        /\ cd[n] \in Diagnosis
        /\ cd'[n].target = cd[n].target /\ cd'[n].ft = cd[n].ft
        /\ pc[r] # "ready" => cd'[n].diag = cd[n].diag
        /\ pc[r] = "ready" => cd'[n].diag = Answer(r)
    BY <1>4, UpdatedFields
  <2>2. cd[n] # Absent
    BY <2>1, AbsentIsNoObject
  <2>3. Name[<<cd[n].target, cd[n].ft>>] = n
    BY <2>2 DEF AboutItsTarget
  <2>4. req[r] = cd[n].target /\ snap[r].ft = cd[n].ft
    <3>1. /\ <<req[r], snap[r].ft>> \in Pods \X FailureTypes
          /\ <<cd[n].target, cd[n].ft>> \in Pods \X FailureTypes
      BY <2>1 DEF Core, JobOK, JobAt, Diagnosis
    <3>2. Name[<<req[r], snap[r].ft>>] = Name[<<cd[n].target, cd[n].ft>>]
      BY <1>4, <2>3 DEF NameOf
    <3> QED
      BY <3>1, <3>2, NamesInjective
  <2> QED
    BY <2>1, <2>2, <2>3, <2>4, AnswerFields DEF AboutItsTarget
<1> QED
  BY <1>1, <1>2, <1>3, <1>4, DiagnosisStep

\* Every ClusterDiagnosis is about the pod and failure class of its spec, for
\* any number of replicas, and whatever fails in between.
THEOREM DiagnosesAboutTheirTargets == Spec => []AboutItsTarget
<1>1. Init => AboutItsTarget
  BY DEF Init, AboutItsTarget
<1>2. Core /\ AboutItsTarget /\ [Next]_vars => AboutItsTarget'
  BY AboutItsTargetStep
<1> QED
  BY <1>1, <1>2, CoreInvariant, PTL DEF Spec

---------------------------------------------------------------------------
(* NoLostUpdate.                                                           *)

\* Optimistic concurrency is enough: whatever number of replicas patch the same
\* object, the analysis in its status only changes with a new answer.
THEOREM NothingBringsAnAnalysisBack == Spec => NoLostUpdate
<1>1. ASSUME Core, [Next]_vars, NEW n \in Names,
             cd[n] # Absent, cd'[n] # Absent, cd[n].diag # cd'[n].diag
      PROVE  \E r \in Replicas: /\ pc[r] = "ready"
                                /\ NameOf(r) = n
                                /\ cd'[n].diag.obs = snap[r].rv
                                /\ cd'[n].diag.logs = logs[r]
  <2>1. cd'[n] # [cd[n] EXCEPT !.ann = Older(@)]
    <3>1. cd[n] \in Diagnosis
      BY <1>1 DEF Core, TypeOK
    <3> QED
      BY <1>1, <3>1 DEF Diagnosis
  <2>2. PICK r \in Replicas: n = NameOf(r) /\ fresh[r] /\ cd'[n] = Updated(r)
    BY <1>1, <2>1, DiagnosisStep
  <2>3. pc[r] = "ready"
    BY <1>1, <2>2, UpdatedFields
  <2>4. cd'[n].diag = Answer(r)
    BY <1>1, <2>2, <2>3, UpdatedFields
  <2> QED
    BY <2>2, <2>3, <2>4, AnswerFields
<1>2. Core /\ [Next]_vars =>
        [\A n \in Names: cd[n] # Absent /\ cd'[n] # Absent /\ cd[n].diag # cd'[n].diag =>
           \E r \in Replicas: /\ pc[r] = "ready"
                              /\ NameOf(r) = n
                              /\ cd'[n].diag.obs = snap[r].rv
                              /\ cd'[n].diag.logs = logs[r]]_vars
  BY <1>1
<1> QED
  BY <1>2, CoreInvariant, PTL DEF Spec, NoLostUpdate

---------------------------------------------------------------------------
(* EvidenceCoversFingerprint.                                              *)

AnswerSteps == {"llm", "answer", "ready"}

\* No copy of a pod is newer than the last write, and from Gather to the patch
\* of the answer the worker holds logs at least as recent as its snapshot.
Dated(o) == o # Absent => o.rv <= rv

RevisionsOK ==
    /\ \A p \in Pods: Dated(pod[p])
    /\ \A r \in Replicas, p \in Pods: Dated(podView[r][p])
    /\ \A r \in Replicas: pc[r] # "idle" => Dated(snap[r])
    /\ \A r \in Replicas: pc[r] \in AnswerSteps => snap[r].rv <= logs[r]

LEMMA LogsLocal ==
    ASSUME TypeOK, NEW r \in Replicas, Reconciles(r), pc'[r] \in AnswerSteps
    PROVE  \/ pc[r] = "gather" /\ logs'[r] = rv /\ snap'[r] = snap[r]
           \/ pc[r] \in AnswerSteps /\ logs'[r] = logs[r] /\ snap'[r] = snap[r]
<1>1. CASE Finish(r) \/ Goto(r, "analyzing")
  BY <1>1, FinishLocal, GotoLocal DEF AnswerSteps
<1>2. CASE GetDiagnosis(r) \/ CreateDiagnosis(r) \/ Reread(r)
  BY <1>1, <1>2, DecideLocal, GotoLocal
     DEF GetDiagnosis, CreateDiagnosis, Reread, ReturnError, AnswerSteps
<1>3. CASE PatchGet(r)
  BY <1>1, <1>3 DEF PatchGet, ReturnError, job, pending
<1>4. CASE PatchUpdate(r) \/ UpdateFails(r)
  BY <1>1, <1>4, PatchDoneLocal, TryAgainLocal
     DEF PatchUpdate, UpdateFails, ReturnError, AnswerSteps
<1>5. CASE Gather(r)
  BY <1>5 DEF Gather, TypeOK
<1>6. CASE CallLLM(r) \/ LLMAnswers(r)
  BY <1>6 DEF CallLLM, LLMAnswers, pending, AnswerSteps
<1>7. CASE AnalysisFails(r)
  BY <1>7, GotoLocal DEF AnalysisFails, AnswerSteps
<1>8. CASE ReadFails(r) \/ CreateFails(r) \/ Restart(r)
  BY <1>1, <1>8 DEF ReadFails, CreateFails, Restart, ReturnError
<1>9. ASSUME NEW p \in Pods, StartReconcile(r, p) PROVE FALSE
  BY <1>9, GotoLocal DEF StartReconcile, job, AnswerSteps
<1> QED
  BY <1>2, <1>3, <1>4, <1>5, <1>6, <1>7, <1>8, <1>9 DEF Reconciles, Worker, Trouble

\* Which copies of pods a reconcile step can make.
LEMMA CopiesLocal ==
    ASSUME NEW r \in Replicas, Reconciles(r)
    PROVE  /\ UNCHANGED <<pod, rv>>
           /\ podView' = podView \/ podView' = [podView EXCEPT ![r] = pod]
<1>1. CASE Restart(r)
  BY <1>1 DEF Restart, store
<1>2. CASE Worker(r)
  BY <1>2 DEF Worker, GetDiagnosis, CreateDiagnosis, Reread, PatchGet, PatchUpdate, Gather,
     CallLLM, LLMAnswers, store, views
<1>3. CASE AnalysisFails(r) \/ ReadFails(r) \/ UpdateFails(r) \/ CreateFails(r)
  BY <1>3 DEF AnalysisFails, ReadFails, UpdateFails, CreateFails, store, views
<1>4. ASSUME NEW p \in Pods, StartReconcile(r, p) PROVE UNCHANGED <<pod, rv, podView>>
  BY <1>4 DEF StartReconcile, store, views
<1> QED
  BY <1>1, <1>2, <1>3, <1>4 DEF Reconciles, Trouble

LEMMA RevisionsStep ==
    ASSUME Core, RevisionsOK, [Next]_vars
    PROVE  RevisionsOK'
<1> USE DEF Core
<1>1. CASE UNCHANGED <<pod, rv, podView, job, logs>>
  BY <1>1 DEF RevisionsOK, Dated, job
<1>2. ASSUME NEW p \in Pods, NEW o \in PodObject \cup {Absent}, PodWrite(p, o),
             o = Absent \/ o.rv = rv + 1
      PROVE  RevisionsOK'
  <2>1. rv \in Nat /\ rv' = rv + 1
    BY <1>2 DEF PodWrite, TypeOK
  <2>2. ASSUME NEW c \in PodObject \cup {Absent}, Dated(c) PROVE Dated(c)'
    BY <2>1, <2>2 DEF Dated, PodObject
  <2>3. ASSUME NEW q \in Pods PROVE Dated(pod[q])'
    <3>1. CASE q = p
      BY <1>2, <2>1, <3>1 DEF PodWrite, Dated, TypeOK
    <3>2. CASE q # p
      BY <1>2, <2>2, <3>2 DEF PodWrite, Dated, TypeOK, RevisionsOK
    <3> QED
      BY <3>1, <3>2
  <2>4. UNCHANGED <<podView, job, logs>>
    BY <1>2 DEF PodWrite, views, pending
  <2>5. \A r \in Replicas, q \in Pods: Dated(podView[r][q])'
    BY <2>2, <2>4 DEF RevisionsOK, TypeOK, Dated
  <2>6. \A r \in Replicas: pc'[r] # "idle" => Dated(snap[r])'
    BY <2>2, <2>4 DEF RevisionsOK, TypeOK, Dated, job
  <2> QED
    BY <2>3, <2>4, <2>5, <2>6 DEF RevisionsOK, job
<1>3. CASE Cluster
  <2>1. ASSUME NEW p \in Pods, PodFails(p) PROVE RevisionsOK'
    <3>1. PICK f \in FailureTypes, x \in Fingerprints:
            PodWrite(p, [pod[p] EXCEPT !.rv = rv + 1, !.ft = f, !.fp = x])
      BY <2>1 DEF PodFails
    <3>2. pod[p] \in PodObject /\ rv + 1 \in Nat
      BY <2>1 DEF PodFails, TypeOK
    <3>3. /\ [pod[p] EXCEPT !.rv = rv + 1, !.ft = f, !.fp = x] \in PodObject
          /\ [pod[p] EXCEPT !.rv = rv + 1, !.ft = f, !.fp = x].rv = rv + 1
      BY <3>2 DEF PodObject
    <3> QED
      BY <1>2, <2>1, <3>1, <3>3
  <2>2. ASSUME NEW p \in Pods, PodRecovers(p) PROVE RevisionsOK'
    <3>1. pod[p] \in PodObject /\ rv + 1 \in Nat
      BY <2>2 DEF PodRecovers, Failing, TypeOK
    <3>2. /\ [pod[p] EXCEPT !.rv = rv + 1, !.ft = Healthy, !.fp = Absent] \in PodObject
          /\ [pod[p] EXCEPT !.rv = rv + 1, !.ft = Healthy, !.fp = Absent].rv = rv + 1
      BY <3>1 DEF PodObject
    <3> QED
      BY <1>2, <2>2, <3>2 DEF PodRecovers
  <2>3. ASSUME NEW p \in Pods, PodDeleted(p) PROVE RevisionsOK'
    BY <1>2, <2>3 DEF PodDeleted
  <2>4. ASSUME NEW p \in Pods, PodRecreated(p) PROVE RevisionsOK'
    <3>1. NewPod(rv + 1) \in PodObject /\ NewPod(rv + 1).rv = rv + 1
      BY DEF TypeOK, NewPod, PodObject
    <3> QED
      BY <1>2, <2>4, <3>1 DEF PodRecreated
  <2>5. ASSUME NEW n \in Names, Removed(n) PROVE RevisionsOK'
    BY <1>1, <2>5 DEF Removed, views, pending
  <2> QED
    BY <1>3, <2>1, <2>2, <2>3, <2>4, <2>5 DEF Cluster, CollectGarbage, DeleteDiagnosis
<1>4. CASE Tick
  BY <1>1, <1>4 DEF Tick
<1>5. ASSUME NEW r \in Replicas, Informers(r) PROVE RevisionsOK'
  <2>1. ASSUME NEW p \in Pods, SyncPod(r, p) PROVE RevisionsOK'
    <3>1. UNCHANGED <<pod, rv, job, logs>>
      BY <2>1 DEF SyncPod, store, pending
    <3>2. ASSUME NEW q \in Replicas, NEW c \in Pods
          PROVE  podView'[q][c] = podView[q][c] \/ podView'[q][c] = pod[c]
      BY <2>1 DEF SyncPod, TypeOK
    <3> QED
      BY <3>1, <3>2 DEF RevisionsOK, Dated, job
  <2>2. CASE Resync(r) \/ \E n \in Names: SyncDiagnosis(r, n)
    BY <1>1, <2>2 DEF Resync, SyncDiagnosis, store, views, pending
  <2> QED
    BY <1>5, <2>1, <2>2 DEF Informers
<1>6. ASSUME NEW r \in Replicas, Reconciles(r) PROVE RevisionsOK'
  <2>1. UNCHANGED <<pod, rv>>
    BY <1>6, CopiesLocal
  <2>2. ASSUME NEW q \in Replicas, NEW c \in Pods
        PROVE  podView'[q][c] = podView[q][c] \/ podView'[q][c] = pod[c]
    BY <1>6, CopiesLocal DEF TypeOK
  <2>3. ASSUME NEW q \in Replicas, pc'[q] # "idle" PROVE Dated(snap[q])'
    <3>1. CASE q # r
      BY <1>6, <2>1, <2>3, <3>1, OthersUntouched DEF Untouched, RevisionsOK, Dated
    <3>2. CASE q = r
      BY <1>6, <2>1, <2>3, <3>2, JobLocal DEF RevisionsOK, Dated
    <3> QED
      BY <3>1, <3>2
  <2>4. ASSUME NEW q \in Replicas, pc'[q] \in AnswerSteps PROVE snap'[q].rv <= logs'[q]
    <3>1. CASE q # r
      BY <1>6, <2>4, <3>1, OthersUntouched DEF Untouched, RevisionsOK
    <3>2. CASE q = r
      <4>1. pc[r] = "gather" => snap[r].rv <= rv
        BY DEF RevisionsOK, Dated, JobOK, JobAt
      <4> QED
        BY <1>6, <2>4, <3>2, <4>1, LogsLocal DEF RevisionsOK
    <3> QED
      BY <3>1, <3>2
  <2> QED
    BY <2>1, <2>2, <2>3, <2>4 DEF RevisionsOK, Dated
<1>7. CASE UNCHANGED vars
  BY <1>1, <1>7 DEF vars, store, views, pending
<1> QED
  BY <1>3, <1>4, <1>5, <1>6, <1>7 DEF Next, Reconciles

LEMMA EvidenceStep ==
    ASSUME Core, RevisionsOK, EvidenceCoversFingerprint, [Next]_vars
    PROVE  EvidenceCoversFingerprint'
<1> SUFFICES ASSUME NEW n \in Names, cd'[n] # Absent, cd'[n].diag # Absent
             PROVE  cd'[n].diag.obs <= cd'[n].diag.logs
  BY DEF EvidenceCoversFingerprint
<1>1. CASE cd[n] # Absent /\ cd'[n].diag = cd[n].diag
  BY <1>1 DEF EvidenceCoversFingerprint
<1>2. CASE cd[n] # Absent /\ cd'[n] = [cd[n] EXCEPT !.ann = Older(@)]
  <2>1. cd[n] \in Diagnosis
    BY <1>2 DEF Core, TypeOK
  <2>2. cd'[n].diag = cd[n].diag
    BY <1>2, <2>1 DEF Diagnosis
  <2> QED
    BY <1>1, <1>2, <2>2
<1>3. ASSUME NEW r \in Replicas, n = NameOf(r), fresh[r], cd'[n] = Updated(r)
      PROVE  cd'[n].diag.obs <= cd'[n].diag.logs
  <2>1. CASE pc[r] = "ready"
    <3>1. cd'[n].diag = Answer(r)
      BY <1>3, <2>1, UpdatedFields
    <3>2. snap[r].rv <= logs[r]
      BY <2>1 DEF RevisionsOK, AnswerSteps
    <3> QED
      BY <3>1, <3>2, AnswerFields
  <2>2. CASE pc[r] # "ready"
    <3>1. cd'[n].diag = cd[n].diag /\ cd[n] \in Diagnosis
      BY <1>3, <2>2, UpdatedFields
    <3> QED
      BY <1>1, <3>1, AbsentIsNoObject
  <2> QED
    BY <2>1, <2>2
<1>4. ASSUME NEW r \in Replicas, cd'[n] = NewDiagnosis(r) PROVE FALSE
  BY <1>4, NewDiagnosisFields
<1> QED
  BY <1>1, <1>2, <1>3, <1>4, DiagnosisStep

\* A recorded fingerprint is never newer than the evidence behind the analysis,
\* for any number of replicas, and whatever fails in between.
THEOREM FingerprintsAreCovered == Spec => []EvidenceCoversFingerprint
<1>1. Init => RevisionsOK /\ EvidenceCoversFingerprint
  BY DEF Init, RevisionsOK, Dated, NewPod, AnswerSteps, EvidenceCoversFingerprint
<1>2. /\ Core /\ RevisionsOK /\ EvidenceCoversFingerprint /\ [Next]_vars
      => RevisionsOK' /\ EvidenceCoversFingerprint'
  BY RevisionsStep, EvidenceStep
<1> QED
  BY <1>1, <1>2, CoreInvariant, PTL DEF Spec

---------------------------------------------------------------------------
(* NoLostWork: no request is lost as long as stored diagnoses are not taken *)
(* away (deleted, or garbage collected with a replaced pod) and the cache  *)
(* they are read from is up to date.                                       *)

Undisturbed == Faults \subseteq {"read", "write", "gather", "llm", "crash"}

\* Without replaced pods there is one incarnation of each, so no garbage.
FirstIncarnation(o) == o # Absent /\ o.uid = 0

NoReplacement ==
    /\ \A p \in Pods: FirstIncarnation(pod[p])
    /\ \A r \in Replicas, p \in Pods: FirstIncarnation(podView[r][p])
    /\ \A r \in Replicas: pc[r] # "idle" => FirstIncarnation(snap[r])
    /\ \A n \in Names: cd[n] # Absent => cd[n].owner = 0

\* A worker reconciles the latest state of its pod, or the pod is queued again,
\* or its last event is still to come.
Tracks ==
    \A r \in Replicas, p \in Pods:
        /\ Failing(pod[p])
        /\ podView[r][p] = pod[p]
        /\ p \notin queue[r]
        /\ pc[r] # "idle"
        /\ req[r] = p
        => snap[r] = pod[p]

LEMMA UpdatedPhase ==
    ASSUME Core, NEW r \in Replicas, fresh[r]
    PROVE  /\ pc[r] = "ready" => Diagnosed(Updated(r), snap[r].fp)
           /\ pc[r] = "meta" => \A x: Diagnosed(cd[NameOf(r)], x) => Diagnosed(Updated(r), x)
<1>1. cur[r] \in Diagnosis /\ cd[NameOf(r)] = cur[r]
  BY DEF Core, TypeOK, LoopOK, LoopAt
<1>2. CASE pc[r] = "ready"
  BY <1>1, <1>2 DEF Updated, Mutated, Diagnosis, Diagnosed
<1>3. CASE pc[r] = "meta"
  BY <1>1, <1>3 DEF Updated, Mutated, Diagnosis, Diagnosed
<1> QED
  BY <1>2, <1>3

\* A step of r leaves the requests, timers and caches of the others alone.
LEMMA WorkOfOthers ==
    ASSUME TypeOK, NEW r \in Replicas, Reconciles(r), NEW q \in Replicas \ {r}
    PROVE  queue'[q] = queue[q] /\ timer'[q] = timer[q] /\ podView'[q] = podView[q]
<1>1. podView'[q] = podView[q]
  BY CopiesLocal DEF TypeOK
<1>2. ASSUME ReturnError(r) PROVE queue'[q] = queue[q] /\ timer'[q] = timer[q]
  BY <1>2 DEF ReturnError, Enqueue, TypeOK
<1>3. ASSUME NEW o, Decide(r, o) PROVE timer'[q] = timer[q]
  BY <1>3 DEF Decide, Skip, Postpone, Analyse, TypeOK
<1>4. ASSUME PatchDone(r) PROVE queue'[q] = queue[q] /\ timer'[q] = timer[q]
  BY <1>2, <1>4 DEF PatchDone, EndLoop, work
<1>5. ASSUME TryAgain(r) PROVE queue'[q] = queue[q] /\ timer'[q] = timer[q]
  BY <1>2, <1>5 DEF TryAgain, work
<1>6. CASE Worker(r)
  BY <1>1, <1>2, <1>3, <1>4, <1>5, <1>6 DEF Worker, GetDiagnosis, CreateDiagnosis, Reread,
     PatchGet, PatchUpdate, Gather, CallLLM, LLMAnswers, work
<1>7. CASE AnalysisFails(r) \/ ReadFails(r) \/ UpdateFails(r) \/ CreateFails(r)
  BY <1>1, <1>2, <1>5, <1>7 DEF AnalysisFails, ReadFails, UpdateFails, CreateFails, work
<1>8. CASE Restart(r)
  BY <1>1, <1>8 DEF Restart, TypeOK
<1>9. ASSUME NEW p \in Pods, StartReconcile(r, p)
      PROVE  queue'[q] = queue[q] /\ timer'[q] = timer[q]
  BY <1>9 DEF StartReconcile, TypeOK
<1> QED
  BY <1>1, <1>6, <1>7, <1>8, <1>9 DEF Reconciles, Trouble

\* What becomes of the requests of r itself.
LEMMA QueueLocal ==
    ASSUME TypeOK, JobOK, NEW r \in Replicas, Reconciles(r), NEW p \in Pods, p \in queue[r]
    PROVE  \/ p \in queue'[r]
           \/ Restart(r)
           \/ StartReconcile(r, p)
<1>1. CASE Worker(r)
  BY <1>1 DEF Worker, GetDiagnosis, CreateDiagnosis, Reread, PatchGet, PatchUpdate, Gather,
     CallLLM, LLMAnswers, work, ReturnError, Enqueue, PatchDone, TryAgain, EndLoop, TypeOK
<1>2. CASE AnalysisFails(r) \/ ReadFails(r) \/ UpdateFails(r) \/ CreateFails(r)
  BY <1>2 DEF AnalysisFails, ReadFails, UpdateFails, CreateFails, work, ReturnError,
     Enqueue, TryAgain, TypeOK
<1>3. ASSUME NEW q \in Pods, StartReconcile(r, q), q # p PROVE p \in queue'[r]
  BY <1>3 DEF StartReconcile, TypeOK
<1> QED
  BY <1>1, <1>2, <1>3 DEF Reconciles, Trouble

LEMMA ReturnErrorQueues ==
    ASSUME TypeOK, NEW r \in Replicas, ReturnError(r)
    PROVE  req[r] \in queue'[r] /\ pc'[r] = "idle"
BY FinishLocal DEF ReturnError, Enqueue, TypeOK

\* A request that the worker has in hand is answered, kept, delayed or requeued.
LEMMA InHand ==
    ASSUME Core, Undisturbed, NEW r \in Replicas, Reconciles(r),
           pc[r] \notin {"idle", "meta"}
    PROVE  \/ pc'[r] \notin {"idle", "meta"} /\ req'[r] = req[r]
           \/ req[r] \in queue'[r]
           \/ timer'[r][req[r]] > 0
           \/ Restart(r)
           \/ cd'[NameOf(r)] # Absent /\ Diagnosed(cd'[NameOf(r)], snap[r].fp)
<1> USE DEF Core
<1>0. req[r] \in Pods /\ NameOf(r) \in Names
  BY NameOfType DEF JobOK, JobAt
<1>1. ASSUME NEW o \in Diagnosis, Decide(r, o)
      PROVE  \/ pc'[r] = "analyzing" /\ req'[r] = req[r]
             \/ timer'[r][req[r]] > 0
             \/ Diagnosed(o, snap[r].fp)
  <2>1. CASE Postpone(r, o)
    <3>1. /\ timer[r][req[r]] \in Ages /\ o.ann \in Ages /\ o.ann < MinBetween
          /\ timer'[r][req[r]] = Sooner(timer[r][req[r]], MinBetween - o.ann)
      BY <1>0, <1>1, <2>1 DEF Postpone, TypeOK, Diagnosis
    <3> QED
      BY <3>1, BoundsAssumption DEF Sooner, Ages
  <2>2. CASE Analyse(r, o)
    BY <2>2, GotoLocal DEF Analyse
  <2> QED
    BY <1>1, <2>1, <2>2 DEF Decide, Skip
<1>2. CASE GetDiagnosis(r)
  <2>1. cdView[r][NameOf(r)] = cd[NameOf(r)]
    BY <1>2 DEF GetDiagnosis, Spend, Undisturbed
  <2>2. CASE Goto(r, "create") /\ UNCHANGED req
    BY <2>2, GotoLocal
  <2>3. CASE cd[NameOf(r)] # Absent /\ Decide(r, cd[NameOf(r)])
    <3>1. cd[NameOf(r)] \in Diagnosis /\ UNCHANGED cd
      BY <1>0, <1>2, <2>3 DEF TypeOK, GetDiagnosis, store
    <3> QED
      BY <1>1, <2>3, <3>1
  <2> QED
    BY <1>2, <2>1, <2>2, <2>3 DEF GetDiagnosis
<1>3. CASE CreateDiagnosis(r)
  BY <1>3, GotoLocal DEF CreateDiagnosis
<1>4. CASE Reread(r)
  <2>1. CASE ReturnError(r)
    BY <2>1, ReturnErrorQueues
  <2>2. CASE Goto(r, "reread") /\ UNCHANGED req
    BY <2>2, GotoLocal
  <2>3. CASE cd[NameOf(r)] # Absent /\ Decide(r, cd[NameOf(r)])
    <3>1. cd[NameOf(r)] \in Diagnosis /\ UNCHANGED cd
      BY <1>0, <1>4, <2>3 DEF TypeOK, Reread, store
    <3> QED
      BY <1>1, <2>3, <3>1
  <2> QED
    BY <1>4, <2>1, <2>2, <2>3 DEF Reread
<1>5. CASE PatchGet(r)
  BY <1>5, ReturnErrorQueues DEF PatchGet, job
<1>6. ASSUME TryAgain(r)
      PROVE  req[r] \in queue'[r] \/ UNCHANGED <<pc, req>>
  BY <1>6, ReturnErrorQueues DEF TryAgain, job
<1>7. CASE PatchUpdate(r)
  <2>1. CASE Commit(r) /\ PatchDone(r)
    <3>1. CASE pc[r] = "analyzing"
      BY <2>1, <3>1, EndLoopLocal DEF PatchDone
    <3>2. CASE pc[r] = "ready"
      <4>1. cd'[NameOf(r)] = Updated(r)
        BY <1>0, <2>1 DEF Commit, StoreDiagnosis, TypeOK
      <4> QED
        BY <2>1, <3>2, <4>1, UpdatedPhase, UpdatedFields, AbsentIsNoObject DEF Commit
    <3>3. CASE pc[r] = "error"
      BY <2>1, <3>3, ReturnErrorQueues DEF PatchDone
    <3> QED
      BY <1>7, <3>1, <3>2, <3>3 DEF PatchUpdate, PatchSteps
  <2>2. CASE ReturnError(r) \/ TryAgain(r)
    BY <1>6, <2>2, ReturnErrorQueues
  <2> QED
    BY <1>7, <2>1, <2>2 DEF PatchUpdate
<1>8. CASE Gather(r) \/ CallLLM(r) \/ LLMAnswers(r) \/ AnalysisFails(r)
  BY <1>8, GotoLocal DEF Gather, CallLLM, LLMAnswers, AnalysisFails
<1>9. CASE ReadFails(r) \/ UpdateFails(r) \/ CreateFails(r)
  BY <1>6, <1>9, ReturnErrorQueues DEF ReadFails, UpdateFails, CreateFails
<1>10. ASSUME NEW p \in Pods, StartReconcile(r, p) PROVE FALSE
  BY <1>10 DEF StartReconcile
<1> QED
  BY <1>2, <1>3, <1>4, <1>5, <1>7, <1>8, <1>9, <1>10 DEF Reconciles, Worker, Trouble

LEMMA TimerLocal ==
    ASSUME Core, NEW r \in Replicas, Reconciles(r), NEW p \in Pods, timer[r][p] > 0
    PROVE  timer'[r][p] > 0 \/ Restart(r)
<1> USE DEF Core
<1>1. ASSUME NEW o \in Diagnosis, Decide(r, o) PROVE timer'[r][p] > 0
  <2>1. CASE Postpone(r, o)
    <3>1. CASE p = req[r]
      <4>1. /\ timer[r][p] \in Ages /\ o.ann \in Ages /\ o.ann < MinBetween
            /\ timer'[r][p] = Sooner(timer[r][p], MinBetween - o.ann)
        BY <1>1, <2>1, <3>1 DEF Postpone, TypeOK, Diagnosis
      <4> QED
        BY <4>1, BoundsAssumption DEF Sooner, Ages
    <3>2. CASE p # req[r]
      BY <2>1, <3>2 DEF Postpone, TypeOK
    <3> QED
      BY <3>1, <3>2
  <2>2. CASE UNCHANGED timer
    BY <2>2
  <2> QED
    BY <1>1, <2>1, <2>2 DEF Decide, Skip, Analyse
<1>2. CASE GetDiagnosis(r) \/ Reread(r)
  <2>1. ASSUME NEW o, o # Absent, o = cd[NameOf(r)] \/ o = cdView[r][NameOf(r)] PROVE o \in Diagnosis
    BY <1>2, <2>1, NameOfType DEF TypeOK, GetDiagnosis, Reread
  <2> QED
    BY <1>1, <1>2, <2>1 DEF GetDiagnosis, Reread, ReturnError, work
<1>3. CASE Worker(r) /\ ~(GetDiagnosis(r) \/ Reread(r))
  BY <1>3 DEF Worker, CreateDiagnosis, PatchGet, PatchUpdate, Gather,
     CallLLM, LLMAnswers, work, ReturnError, PatchDone, TryAgain, EndLoop
<1>4. CASE AnalysisFails(r) \/ ReadFails(r) \/ UpdateFails(r) \/ CreateFails(r)
  BY <1>4 DEF AnalysisFails, ReadFails, UpdateFails, CreateFails, work, ReturnError, TryAgain
<1>5. ASSUME NEW q \in Pods, StartReconcile(r, q) PROVE timer'[r][p] > 0
  BY <1>5 DEF StartReconcile
<1> QED
  BY <1>2, <1>3, <1>4, <1>5 DEF Reconciles, Trouble

LEMMA NoReplacementStep ==
    ASSUME Core, Undisturbed, NoReplacement, [Next]_vars
    PROVE  NoReplacement'
<1> USE DEF Core
<1>1. ASSUME NEW p \in Pods PROVE FirstIncarnation(pod'[p])
  <2>1. pod[p] \in PodObject /\ pod[p].uid = 0
    BY DEF NoReplacement, FirstIncarnation, TypeOK
  <2>2. ASSUME NEW q \in Pods, NEW o, PodWrite(q, o), FirstIncarnation(o)
        PROVE  FirstIncarnation(pod'[p])
    BY <2>1, <2>2 DEF PodWrite, NoReplacement, TypeOK
  <2>3. ASSUME NEW q \in Pods, PodFails(q) \/ PodRecovers(q) PROVE FirstIncarnation(pod'[p])
    <3>1. pod[q] \in PodObject /\ pod[q].uid = 0 /\ rv + 1 \in Nat
      BY DEF NoReplacement, FirstIncarnation, TypeOK
    <3>2. ASSUME NEW f \in FailureTypes, NEW x \in Fingerprints
          PROVE  FirstIncarnation([pod[q] EXCEPT !.rv = rv + 1, !.ft = f, !.fp = x])
      <4>1. /\ [pod[q] EXCEPT !.rv = rv + 1, !.ft = f, !.fp = x] \in PodObject
            /\ [pod[q] EXCEPT !.rv = rv + 1, !.ft = f, !.fp = x].uid = 0
        BY <3>1 DEF PodObject
      <4> QED
        BY <4>1, AbsentIsNoObject DEF FirstIncarnation
    <3>3. FirstIncarnation([pod[q] EXCEPT !.rv = rv + 1, !.ft = Healthy, !.fp = Absent])
      <4>1. /\ [pod[q] EXCEPT !.rv = rv + 1, !.ft = Healthy, !.fp = Absent] \in PodObject
            /\ [pod[q] EXCEPT !.rv = rv + 1, !.ft = Healthy, !.fp = Absent].uid = 0
        BY <3>1 DEF PodObject
      <4> QED
        BY <4>1, AbsentIsNoObject DEF FirstIncarnation
    <3> QED
      BY <2>2, <2>3, <3>2, <3>3 DEF PodFails, PodRecovers
  <2>4. ASSUME NEW q \in Pods, PodDeleted(q) \/ PodRecreated(q) PROVE FALSE
    BY <2>4 DEF PodDeleted, PodRecreated, Undisturbed, NoReplacement, FirstIncarnation
  <2>5. CASE UNCHANGED pod
    BY <2>5 DEF NoReplacement
  <2>6. CASE Cluster
    BY <2>3, <2>4, <2>5, <2>6 DEF Cluster, CollectGarbage, DeleteDiagnosis, Removed
  <2>7. CASE Tick \/ UNCHANGED vars \/ \E r \in Replicas: Informers(r)
    BY <2>5, <2>7 DEF Tick, vars, store, Informers, SyncPod, SyncDiagnosis, Resync
  <2>8. ASSUME NEW r \in Replicas, Reconciles(r) PROVE UNCHANGED pod
    BY <2>8, CopiesLocal
  <2> QED
    BY <2>5, <2>6, <2>7, <2>8 DEF Next, Reconciles
<1>2. ASSUME NEW r \in Replicas, NEW p \in Pods PROVE FirstIncarnation(podView'[r][p])
  <2>1. podView'[r][p] \in {podView[r][p], pod[p]}
    <3>1. ASSUME NEW q \in Replicas, Reconciles(q) PROVE podView'[r][p] \in {podView[r][p], pod[p]}
      BY <3>1, CopiesLocal DEF TypeOK
    <3>2. CASE Cluster \/ Tick \/ UNCHANGED vars
      BY <3>2 DEF Cluster, PodFails, PodRecovers, PodDeleted, PodRecreated, PodWrite,
         CollectGarbage, DeleteDiagnosis, Removed, Tick, vars, views
    <3>3. ASSUME NEW q \in Replicas, Informers(q) PROVE podView'[r][p] \in {podView[r][p], pod[p]}
      <4>1. ASSUME NEW c \in Pods, SyncPod(q, c) PROVE podView'[r][p] \in {podView[r][p], pod[p]}
        BY <4>1 DEF SyncPod, TypeOK
      <4>2. CASE UNCHANGED podView
        BY <4>2
      <4> QED
        BY <3>3, <4>1, <4>2 DEF Informers, SyncDiagnosis, Resync, views
    <3> QED
      BY <3>1, <3>2, <3>3 DEF Next, Reconciles
  <2> QED
    BY <2>1 DEF NoReplacement
<1>3. ASSUME NEW r \in Replicas, pc'[r] # "idle" PROVE FirstIncarnation(snap'[r])
  <2>1. CASE UNCHANGED job
    BY <1>3, <2>1 DEF NoReplacement, job
  <2>2. ASSUME NEW q \in Replicas, Reconciles(q) PROVE FirstIncarnation(snap'[r])
    <3>1. CASE q = r
      BY <1>3, <2>2, <3>1, JobLocal DEF NoReplacement
    <3>2. CASE q # r
      BY <1>3, <2>2, <3>2, OthersUntouched DEF NoReplacement, Untouched
    <3> QED
      BY <3>1, <3>2
  <2>3. CASE Cluster \/ Tick \/ UNCHANGED vars \/ \E q \in Replicas: Informers(q)
    BY <2>1, <2>3 DEF Cluster, PodFails, PodRecovers, PodDeleted, PodRecreated, PodWrite,
       CollectGarbage, DeleteDiagnosis, Removed, Tick, Informers, SyncPod, SyncDiagnosis,
       Resync, work, job, vars
  <2> QED
    BY <2>2, <2>3 DEF Next, Reconciles
<1>4. ASSUME NEW n \in Names, cd'[n] # Absent PROVE cd'[n].owner = 0
  <2>1. CASE cd[n] # Absent /\ cd'[n] = [cd[n] EXCEPT !.ann = Older(@)]
    <3>1. cd[n] \in Diagnosis
      BY <2>1 DEF TypeOK
    <3> QED
      BY <2>1, <3>1 DEF Diagnosis, NoReplacement
  <2>2. ASSUME NEW r \in Replicas, pc[r] # "idle", cd'[n] = NewDiagnosis(r)
        PROVE  cd'[n].owner = 0
    BY <2>2, NewDiagnosisFields DEF NoReplacement, FirstIncarnation
  <2>3. ASSUME NEW r \in Replicas, n = NameOf(r), fresh[r], cd'[n] = Updated(r)
        PROVE  cd'[n].owner = 0
    BY <2>3, UpdatedFields, AbsentIsNoObject DEF NoReplacement
  <2> QED
    BY <1>4, <2>1, <2>2, <2>3, DiagnosisStep DEF NoReplacement
<1> QED
  BY <1>1, <1>2, <1>3, <1>4 DEF NoReplacement

\* A pod write leaves every cache behind.
LEMMA WriteIsNews ==
    ASSUME Core, RevisionsOK, NEW p \in Pods, Cluster, pod'[p] # pod[p], pod'[p] # Absent,
           NEW r \in Replicas
    PROVE  podView'[r][p] # pod'[p]
<1> USE DEF Core
<1>1. rv \in Nat /\ podView' = podView
  BY DEF TypeOK, Cluster, PodFails, PodRecovers, PodDeleted, PodRecreated, PodWrite,
     CollectGarbage, DeleteDiagnosis, Removed, views
<1>2. pod'[p].rv = rv + 1
  <2>1. ASSUME NEW q \in Pods, NEW o, PodWrite(q, o) PROVE q = p /\ pod'[p] = o
    BY <2>1 DEF PodWrite, TypeOK
  <2>2. ASSUME NEW q \in Pods, PodFails(q) PROVE pod'[p].rv = rv + 1
    <3>1. PICK f \in FailureTypes, x \in Fingerprints:
            PodWrite(q, [pod[q] EXCEPT !.rv = rv + 1, !.ft = f, !.fp = x])
      BY <2>2 DEF PodFails
    <3>2. pod[q] \in PodObject
      BY <2>2 DEF PodFails, TypeOK
    <3>3. [pod[q] EXCEPT !.rv = rv + 1, !.ft = f, !.fp = x].rv = rv + 1
      BY <3>2 DEF PodObject
    <3> QED
      BY <2>1, <3>1, <3>3
  <2>3. ASSUME NEW q \in Pods, PodRecovers(q) PROVE pod'[p].rv = rv + 1
    <3>1. pod[q] \in PodObject
      BY <2>3 DEF PodRecovers, Failing, TypeOK
    <3>2. [pod[q] EXCEPT !.rv = rv + 1, !.ft = Healthy, !.fp = Absent].rv = rv + 1
      BY <3>1 DEF PodObject
    <3> QED
      BY <2>1, <2>3, <3>2 DEF PodRecovers
  <2>4. ASSUME NEW q \in Pods, PodDeleted(q) PROVE FALSE
    BY <2>1, <2>4 DEF PodDeleted
  <2>5. ASSUME NEW q \in Pods, PodRecreated(q) PROVE pod'[p].rv = rv + 1
    <3>1. NewPod(rv + 1).rv = rv + 1
      BY DEF NewPod
    <3> QED
      BY <2>1, <2>5, <3>1 DEF PodRecreated
  <2> QED
    BY <2>2, <2>3, <2>4, <2>5 DEF Cluster, CollectGarbage, DeleteDiagnosis, Removed
<1>3. CASE podView[r][p] = Absent
  BY <1>1, <1>3
<1>4. CASE podView[r][p] # Absent
  <2>1. podView[r][p].rv \in Nat /\ podView[r][p].rv <= rv
    BY <1>4 DEF RevisionsOK, Dated, TypeOK, PodObject
  <2> QED
    BY <1>1, <1>2, <2>1
<1> QED
  BY <1>3, <1>4

LEMMA InformersQueue ==
    ASSUME TypeOK, NEW q \in Replicas, Informers(q), NEW r \in Replicas
    PROVE  queue[r] \subseteq queue'[r]
<1>1. ASSUME NEW S, Enqueue(q, S) PROVE queue[r] \subseteq queue'[r]
  BY <1>1 DEF Enqueue, TypeOK
<1>2. CASE UNCHANGED queue
  BY <1>2
<1> QED
  BY <1>1, <1>2 DEF Informers, SyncPod, SyncDiagnosis, Resync, work

LEMMA TracksStep ==
    ASSUME Core, RevisionsOK, Tracks, [Next]_vars
    PROVE  Tracks'
<1> USE DEF Core
<1> SUFFICES ASSUME NEW r \in Replicas, NEW p \in Pods,
                    Failing(pod'[p]), podView'[r][p] = pod'[p], p \notin queue'[r],
                    pc'[r] # "idle", req'[r] = p
             PROVE  snap'[r] = pod'[p]
  BY DEF Tracks, Failing
<1>1. ASSUME pod'[p] = pod[p], podView'[r][p] = podView[r][p], p \notin queue[r],
             pc'[r] = pc[r], req'[r] = req[r], snap'[r] = snap[r]
      PROVE  snap'[r] = pod'[p]
  BY <1>1 DEF Tracks
<1>2. CASE Cluster
  <2>1. pod'[p] = pod[p]
    BY <1>2, WriteIsNews DEF Failing
  <2>2. UNCHANGED <<podView, queue, pc, req, snap>>
    BY <1>2 DEF Cluster, PodFails, PodRecovers, PodDeleted, PodRecreated, PodWrite,
       CollectGarbage, DeleteDiagnosis, Removed, views, work, job
  <2> QED
    BY <1>1, <2>1, <2>2
<1>3. CASE Tick
  BY <1>1, <1>3 DEF Tick, job, TypeOK
<1>4. ASSUME NEW q \in Replicas, Informers(q) PROVE snap'[r] = pod'[p]
  <2>1. UNCHANGED <<pod, pc, req, snap>>
    BY <1>4 DEF Informers, SyncPod, SyncDiagnosis, Resync, store, work, job
  <2>2. p \notin queue[r]
    BY <1>4, InformersQueue
  <2>3. ASSUME NEW c \in Pods, SyncPod(q, c) PROVE podView'[r][p] = podView[r][p]
    <3>1. CASE q = r /\ c = p
      BY <2>1, <2>3, <3>1 DEF SyncPod, Enqueue, TypeOK
    <3>2. CASE ~(q = r /\ c = p)
      BY <2>3, <3>2 DEF SyncPod, TypeOK
    <3> QED
      BY <3>1, <3>2
  <2>4. podView'[r][p] = podView[r][p]
    BY <1>4, <2>3 DEF Informers, SyncDiagnosis, Resync, views
  <2> QED
    BY <1>1, <2>1, <2>2, <2>4
<1>5. ASSUME NEW q \in Replicas \ {r}, Reconciles(q) PROVE snap'[r] = pod'[p]
  <2>1. UNCHANGED pod /\ Untouched(r)
    BY <1>5, CopiesLocal, OthersUntouched
  <2>2. queue'[r] = queue[r] /\ podView'[r] = podView[r]
    BY <1>5, WorkOfOthers
  <2> QED
    BY <1>1, <2>1, <2>2 DEF Untouched
<1>6. CASE Reconciles(r)
  <2>1. ~Restart(r)
    BY FinishLocal DEF Restart
  <2>2. UNCHANGED <<pod, podView>>
    <3>1. CASE Worker(r)
      BY <3>1 DEF Worker, GetDiagnosis, CreateDiagnosis, Reread, PatchGet, PatchUpdate,
         Gather, CallLLM, LLMAnswers, store, views
    <3>2. CASE Trouble(r)
      BY <2>1, <3>2 DEF Trouble, AnalysisFails, ReadFails, UpdateFails, CreateFails,
         store, views
    <3>3. ASSUME NEW c \in Pods, StartReconcile(r, c) PROVE UNCHANGED <<pod, podView>>
      BY <3>3 DEF StartReconcile, store, views
    <3> QED
      BY <1>6, <3>1, <3>2, <3>3 DEF Reconciles
  <2>3. CASE pc[r] # "idle" /\ req'[r] = req[r] /\ snap'[r] = snap[r]
    <3>1. ~StartReconcile(r, p)
      BY <2>3 DEF StartReconcile
    <3>2. p \notin queue[r]
      BY <1>6, <2>1, <3>1, QueueLocal
    <3> QED
      BY <2>2, <2>3, <3>2 DEF Tracks
  <2>4. ASSUME NEW c \in Pods, req'[r] = c, snap'[r] = podView[r][c] PROVE snap'[r] = pod'[p]
    BY <2>2, <2>4
  <2> QED
    BY <1>6, <2>3, <2>4, JobLocal
<1>7. CASE UNCHANGED vars
  BY <1>1, <1>7 DEF vars, store, views, work, job
<1> QED
  BY <1>2, <1>3, <1>4, <1>5, <1>6, <1>7 DEF Next, Reconciles

LEMMA PendingKept ==
    ASSUME Core, Undisturbed, Tracks, NEW r \in Replicas, Reconciles(r),
           NEW p \in Pods, Failing(pod[p]), Pending(r, p)
    PROVE  Pending(r, p)' \/ UpToDate(p)'
<1> USE DEF Core
<1>1. UNCHANGED <<pod, rv>>
  BY CopiesLocal
<1>2. CASE Restart(r)
  <2>1. p \in queue'[r]
    BY <1>2 DEF Restart, FailingPods, TypeOK
  <2> QED
    BY <2>1 DEF Pending
<1>3. CASE podView[r][p] # pod[p] /\ ~Restart(r)
  <2>1. UNCHANGED podView
    BY <1>3 DEF Reconciles, Worker, Trouble, StartReconcile, GetDiagnosis, CreateDiagnosis,
       Reread, PatchGet, PatchUpdate, Gather, CallLLM, LLMAnswers, AnalysisFails, ReadFails,
       UpdateFails, CreateFails, views
  <2> QED
    BY <1>1, <1>3, <2>1 DEF Pending
<1>4. CASE podView[r][p] = pod[p] /\ p \in queue[r] /\ ~Restart(r)
  <2>1. CASE StartReconcile(r, p)
    <3>1. /\ Goto(r, "get")
          /\ req' = [req EXCEPT ![r] = p]
      BY <1>4, <2>1 DEF StartReconcile
    <3>2. pc'[r] = "get" /\ req'[r] = p
      BY <3>1, GotoLocal DEF TypeOK
    <3> QED
      BY <3>2 DEF Pending
  <2> QED
    BY <1>4, <2>1, QueueLocal DEF Pending
<1>5. CASE timer[r][p] > 0 /\ ~Restart(r)
  BY <1>5, TimerLocal DEF Pending
<1>6. CASE /\ podView[r][p] = pod[p] /\ p \notin queue[r] /\ ~Restart(r)
           /\ req[r] = p /\ pc[r] \notin {"idle", "meta"}
  <2>1. snap[r] = pod[p]
    BY <1>6 DEF Tracks
  <2>2. ASSUME cd'[NameOf(r)] # Absent, Diagnosed(cd'[NameOf(r)], snap[r].fp)
        PROVE  UpToDate(p)'
    BY <1>1, <1>6, <2>1, <2>2 DEF UpToDate, NameOf, Diagnosed
  <2> QED
    BY <1>6, <2>2, InHand DEF Pending
<1> QED
  BY <1>2, <1>3, <1>4, <1>5, <1>6 DEF Pending

LEMMA NoLostWorkStep ==
    ASSUME Core, Undisturbed, Replicas # {}, RevisionsOK, NoReplacement, Tracks, NoLostWork,
           [Next]_vars
    PROVE  NoLostWork'
<1> USE DEF Core
<1> SUFFICES ASSUME NEW p \in Pods, Failing(pod'[p]), ~UpToDate(p)'
             PROVE  \E r \in Replicas: Pending(r, p)'
  BY DEF NoLostWork, Failing
<1> DEFINE n == Name[<<p, pod[p].ft>>]
<1>1. CASE Cluster /\ pod'[p] # pod[p]
  BY <1>1, WriteIsNews DEF Failing, Pending
<1>2. ASSUME pod'[p] = pod[p], cd' = cd
      PROVE  \E r \in Replicas: Pending(r, p)
  BY <1>2 DEF NoLostWork, UpToDate, Diagnosed
<1>3. CASE Cluster /\ pod'[p] = pod[p]
  <2>1. ASSUME NEW m \in Names, CollectGarbage(m) PROVE FALSE
    BY <2>1 DEF CollectGarbage, OwnerAlive, NoReplacement, FirstIncarnation, TypeOK, Diagnosis
  <2>2. ASSUME NEW m \in Names, DeleteDiagnosis(m) PROVE FALSE
    BY <2>2 DEF DeleteDiagnosis, Spend, Undisturbed
  <2>3. UNCHANGED <<cd, podView, queue, timer, req, pc>>
    BY <1>3, <2>1, <2>2 DEF Cluster, PodFails, PodRecovers, PodDeleted, PodRecreated,
       PodWrite, views, work, job
  <2> QED
    BY <1>2, <1>3, <2>3 DEF Pending
<1>4. CASE Tick
  <2>1. pod' = pod /\ podView' = podView /\ pc' = pc /\ req' = req
    BY <1>4 DEF Tick, job
  <2>2. n \in Names
    BY <2>1, NameAssumption DEF Failing, TypeOK, PodObject
  <2>3. ~UpToDate(p)
    <3>1. cd'[n] = Aged(cd[n])
      BY <1>4, <2>2 DEF Tick
    <3>2. ASSUME cd[n] # Absent, Diagnosed(cd[n], pod[p].fp)
          PROVE  cd'[n] # Absent /\ Diagnosed(cd'[n], pod[p].fp)
      <4>1. cd[n] \in Diagnosis
        BY <2>2, <3>2 DEF TypeOK
      <4>2. Aged(cd[n]) \in Diagnosis /\ Aged(cd[n]) = [cd[n] EXCEPT !.ann = Older(@)]
        BY <4>1, AgedType, AbsentIsNoObject DEF Aged
      <4> QED
        BY <3>1, <3>2, <4>1, <4>2, AbsentIsNoObject DEF Diagnosed, Diagnosis
    <3> QED
      BY <2>1, <3>2 DEF UpToDate, Diagnosed
  <2>4. PICK r \in Replicas: Pending(r, p)
    BY <2>1, <2>3 DEF NoLostWork
  <2>5. CASE timer[r][p] > 0
    <3>1. timer[r][p] \in Nat
      BY DEF TypeOK, Ages
    <3>2. p \in queue'[r] \/ timer'[r][p] > 0
      BY <1>4, <2>5, <3>1 DEF Tick, TypeOK
    <3> QED
      BY <3>2 DEF Pending
  <2>6. CASE p \in queue[r]
    BY <1>4, <2>6 DEF Tick, Pending, TypeOK
  <2> QED
    BY <2>1, <2>4, <2>5, <2>6 DEF Pending
<1>5. ASSUME NEW q \in Replicas, Informers(q) PROVE \E r \in Replicas: Pending(r, p)'
  <2>1. UNCHANGED <<pod, cd, timer, req, pc>>
    BY <1>5 DEF Informers, SyncPod, SyncDiagnosis, Resync, store, work, job
  <2>2. PICK r \in Replicas: Pending(r, p)
    BY <1>2, <2>1
  <2>3. p \in queue[r] => p \in queue'[r]
    BY <1>5, InformersQueue
  <2>4. ASSUME NEW c \in Pods, SyncPod(q, c)
        PROVE  podView'[r][p] = podView[r][p] \/ p \in queue'[r]
    <3>1. CASE q = r /\ c = p
      BY <2>1, <2>4, <3>1 DEF SyncPod, Enqueue, TypeOK
    <3>2. CASE ~(q = r /\ c = p)
      BY <2>4, <3>2 DEF SyncPod, TypeOK
    <3> QED
      BY <3>1, <3>2
  <2>5. podView'[r][p] = podView[r][p] \/ p \in queue'[r]
    BY <1>5, <2>4 DEF Informers, SyncDiagnosis, Resync, views
  <2> QED
    BY <2>1, <2>2, <2>3, <2>5 DEF Pending
<1>6. ASSUME NEW q \in Replicas, Reconciles(q) PROVE \E r \in Replicas: Pending(r, p)'
  <2>1. UNCHANGED pod
    BY <1>6, CopiesLocal
  <2>2. n \in Names /\ <<p, pod[p].ft>> \in Pods \X FailureTypes
    BY <2>1, NameAssumption DEF Failing, TypeOK, PodObject
  <2>3. CASE ~UpToDate(p)
    <3>1. PICK r \in Replicas: Pending(r, p)
      BY <2>1, <2>3 DEF NoLostWork
    <3>2. CASE r = q
      BY <1>6, <2>1, <3>1, <3>2, PendingKept
    <3>3. CASE r # q
      BY <1>6, <2>1, <3>1, <3>3, WorkOfOthers, OthersUntouched DEF Pending, Untouched
    <3> QED
      BY <3>2, <3>3
  <2>4. CASE UpToDate(p)
    <3>1. cd[n] # Absent /\ Diagnosed(cd[n], pod[p].fp) /\ cd'[n] # cd[n]
      BY <2>1, <2>4 DEF UpToDate, Diagnosed
    <3>2. Writes(q)
      BY <1>6, <3>1, WritesOrNot
    <3>3. pc[q] # "idle" /\ n = NameOf(q)
      <4>1. PICK o: StoreDiagnosis(NameOf(q), o)
        BY <3>2, WritesStore
      <4> QED
        BY <3>1, <3>2, <4>1, <2>2, WritesStore DEF StoreDiagnosis, TypeOK
    <3>4. req[q] = p
      <4>1. <<req[q], snap[q].ft>> \in Pods \X FailureTypes
        BY <3>3 DEF JobOK, JobAt
      <4>2. <<req[q], snap[q].ft>> = <<p, pod[p].ft>>
        BY <2>2, <3>3, <4>1, NamesInjective DEF NameOf
      <4> QED
        BY <4>2
    <3>5. pc[q] # "meta"
      <4> SUFFICES ASSUME pc[q] = "meta" PROVE FALSE
        OBVIOUS
      <4>1. Commit(q)
        BY <3>2 DEF Writes, CreateDiagnosis, CreateFails
      <4>2. cd'[n] = Updated(q)
        BY <2>2, <3>3, <4>1 DEF Commit, StoreDiagnosis, TypeOK
      <4>3. cd'[n] # Absent /\ Diagnosed(cd'[n], pod[p].fp)
        BY <3>1, <3>3, <4>1, <4>2, UpdatedFields, UpdatedPhase, AbsentIsNoObject DEF Commit
      <4> QED
        BY <2>1, <4>3 DEF UpToDate, Diagnosed
    <3>6. Pending(q, p)
      BY <3>3, <3>4, <3>5 DEF Pending
    <3> QED
      BY <1>6, <2>1, <3>6, PendingKept
  <2> QED
    BY <2>3, <2>4
<1>7. CASE UNCHANGED vars
  BY <1>2, <1>7 DEF Pending, vars, store, views, work, job
<1> QED
  BY <1>1, <1>3, <1>4, <1>5, <1>6, <1>7 DEF Next, Reconciles

\* No failing pod is forgotten, by any number of replicas and whatever calls fail
\* and processes crash, as long as nobody deletes diagnoses or replaces pods under
\* the same name and the cache of ClusterDiagnoses is up to date when it is read.
THEOREM NoFailingPodForgotten ==
    ASSUME Undisturbed, Replicas # {}
    PROVE  Spec => []NoLostWork
<1> DEFINE Strong == RevisionsOK /\ NoReplacement /\ Tracks /\ NoLostWork
<1>1. Init => Strong
  <2>1. NewPod(0) \in PodObject
    BY DEF NewPod, PodObject
  <2> QED
    BY <2>1, AbsentIsNoObject DEF Init, RevisionsOK, Dated, NewPod, AnswerSteps, NoReplacement, FirstIncarnation,
     Tracks, NoLostWork, Failing, PodObject
<1>2. Core /\ Strong /\ [Next]_vars => Strong'
  BY RevisionsStep, NoReplacementStep, TracksStep, NoLostWorkStep
<1>3. Strong => NoLostWork
  OBVIOUS
<1> QED
  BY <1>1, <1>2, <1>3, CoreInvariant, PTL DEF Spec

=============================================================================
