-------------------------- MODULE LifecycleProofs --------------------------
(***************************************************************************)
(* While one replica reconciles, PodReconciler implements                  *)
(* DiagnosisLifecycle: the lemmas are about one worker r among any number  *)
(* of replicas whose workers are idle.                                     *)
(***************************************************************************)
EXTENDS PodReconcilerProofs

---------------------------------------------------------------------------
(* Revisions only grow: what is not newer than the views of a pod stays so. *)

\* Revision v is not newer than what replica r and the API server have of p.
Seen(v, r, p) ==
    /\ podView[r][p] # Absent => v <= podView[r][p].rv
    /\ pod[p] # Absent => v <= pod[p].rv

\* A cached pod is not newer than the stored one, nor is a snapshot.
InOrder ==
    /\ rv <= MaxPodWrites
    /\ \A r \in Replicas, p \in Pods:
         podView[r][p] # Absent => Seen(podView[r][p].rv, r, p)
    /\ \A r \in Replicas: pc[r] # "idle" => Seen(snap[r].rv, r, req[r])

LEMMA PodWriteMoves ==
    ASSUME TypeOK, NEW q \in Pods, NEW o \in PodObject \cup {Absent}, PodWrite(q, o),
           o # Absent => o.rv = rv + 1
    PROVE  /\ rv' = rv + 1 /\ rv' <= MaxPodWrites
           /\ podView' = podView
           /\ \A p \in Pods: \/ pod'[p] = pod[p]
                             \/ pod'[p] = Absent
                             \/ pod'[p] \in PodObject /\ pod'[p].rv = rv + 1
BY BoundsAssumption DEF TypeOK, PodWrite, views

LEMMA PodsMove ==
    ASSUME Core, [Next]_vars, rv <= MaxPodWrites
    PROVE  /\ rv <= rv' /\ rv' <= MaxPodWrites
           /\ \A p \in Pods: \/ pod'[p] = pod[p]
                             \/ pod'[p] = Absent
                             \/ pod'[p] \in PodObject /\ pod'[p].rv = rv + 1
           /\ \A r \in Replicas, p \in Pods:
                podView'[r][p] = podView[r][p] \/ podView'[r][p] = pod[p]
<1> DEFINE Moved ==
      /\ rv <= rv' /\ rv' <= MaxPodWrites
      /\ \A p \in Pods: \/ pod'[p] = pod[p]
                        \/ pod'[p] = Absent
                        \/ pod'[p] \in PodObject /\ pod'[p].rv = rv + 1
      /\ \A r \in Replicas, p \in Pods:
           podView'[r][p] = podView[r][p] \/ podView'[r][p] = pod[p]
<1> SUFFICES Moved
  OBVIOUS
<1>0. rv \in Nat /\ pod \in [Pods -> PodObject \cup {Absent}]
  BY DEF Core, TypeOK
<1>1. CASE UNCHANGED <<pod, rv, podView>>
  BY <1>0, <1>1
<1>2. ASSUME NEW q \in Pods, NEW o \in PodObject \cup {Absent}, PodWrite(q, o),
             o # Absent => o.rv = rv + 1
      PROVE  Moved
  BY <1>0, <1>2, PodWriteMoves DEF Core
<1>3. ASSUME NEW p \in Pods, PodFails(p) PROVE Moved
  <2>1. PICK f \in FailureTypes, x \in Fingerprints:
          PodWrite(p, [pod[p] EXCEPT !.rv = rv + 1, !.ft = f, !.fp = x])
    BY <1>3 DEF PodFails
  <2>2. pod[p] \in PodObject /\ rv + 1 \in Nat
    BY <1>3 DEF PodFails, Core, TypeOK
  <2> DEFINE o == [pod[p] EXCEPT !.rv = rv + 1, !.ft = f, !.fp = x]
  <2>3. o \in PodObject /\ o.rv = rv + 1
    BY <2>2 DEF PodObject
  <2>4. PodWrite(p, o)
    BY <2>1
  <2> HIDE DEF Moved, o
  <2> QED
    BY <1>2, <2>3, <2>4
<1>4. ASSUME NEW p \in Pods, PodRecovers(p) PROVE Moved
  <2>1. pod[p] \in PodObject /\ rv + 1 \in Nat
    BY <1>4 DEF PodRecovers, Failing, Core, TypeOK
  <2> DEFINE o == [pod[p] EXCEPT !.rv = rv + 1, !.ft = Healthy, !.fp = Absent]
  <2>2. o \in PodObject /\ o.rv = rv + 1
    BY <2>1 DEF PodObject
  <2>3. PodWrite(p, o)
    BY <1>4 DEF PodRecovers
  <2> HIDE DEF Moved, o
  <2> QED
    BY <1>2, <2>2, <2>3
<1>5. ASSUME NEW p \in Pods, PodDeleted(p) PROVE Moved
  <2> HIDE DEF Moved
  <2> QED
    BY <1>2, <1>5 DEF PodDeleted
<1>6. ASSUME NEW p \in Pods, PodRecreated(p) PROVE Moved
  <2>1. NewPod(rv + 1) \in PodObject /\ NewPod(rv + 1).rv = rv + 1
    BY <1>0 DEF NewPod, PodObject
  <2> HIDE DEF Moved
  <2> QED
    BY <1>2, <1>6, <2>1 DEF PodRecreated
<1>7. CASE \E n \in Names: CollectGarbage(n) \/ DeleteDiagnosis(n)
  BY <1>1, <1>7 DEF CollectGarbage, DeleteDiagnosis, Removed, views
<1>8. CASE Tick
  BY <1>1, <1>8 DEF Tick
<1>9. ASSUME NEW r \in Replicas, Informers(r) PROVE Moved
  <2>1. ASSUME NEW p \in Pods, SyncPod(r, p) PROVE Moved
    <3>1. UNCHANGED <<pod, rv>> /\ podView' = [podView EXCEPT ![r][p] = pod[p]]
      BY <2>1 DEF SyncPod, store
    <3>2. \A q \in Replicas, c \in Pods:
            podView'[q][c] = podView[q][c] \/ podView'[q][c] = pod[c]
      BY <3>1 DEF Core, TypeOK
    <3> QED
      BY <1>0, <3>1, <3>2
  <2>2. CASE Resync(r) \/ \E n \in Names: SyncDiagnosis(r, n)
    BY <1>1, <2>2 DEF Resync, SyncDiagnosis, store, views
  <2> QED
    BY <1>9, <2>1, <2>2 DEF Informers
<1>10. ASSUME NEW r \in Replicas, Reconciles(r) PROVE Moved
  <2>1. UNCHANGED <<pod, rv>> /\ (podView' = podView \/ podView' = [podView EXCEPT ![r] = pod])
    BY <1>10, CopiesLocal
  <2>2. \A q \in Replicas, c \in Pods:
          podView'[q][c] = podView[q][c] \/ podView'[q][c] = pod[c]
    BY <2>1 DEF Core, TypeOK
  <2> QED
    BY <1>0, <2>1, <2>2
<1>11. CASE UNCHANGED vars
  BY <1>1, <1>11 DEF vars, store, views
<1>12. CASE Cluster
  <2> HIDE DEF Moved
  <2> QED
    BY <1>3, <1>4, <1>5, <1>6, <1>7, <1>12 DEF Cluster
<1> HIDE DEF Moved
<1> QED
  BY <1>12, <1>8, <1>9, <1>10, <1>11 DEF Next, Reconciles

LEMMA SeenStep ==
    ASSUME Core, [Next]_vars, rv <= MaxPodWrites,
           NEW v \in Nat, v <= rv, NEW r \in Replicas, NEW p \in Pods, Seen(v, r, p)
    PROVE  Seen(v, r, p)'
<1>1. /\ pod[p] \in PodObject \cup {Absent}
      /\ podView[r][p] \in PodObject \cup {Absent}
      /\ rv \in Nat
  BY DEF Core, TypeOK
<1>2. /\ \/ pod'[p] = pod[p]
         \/ pod'[p] = Absent
         \/ pod'[p] \in PodObject /\ pod'[p].rv = rv + 1
      /\ podView'[r][p] = podView[r][p] \/ podView'[r][p] = pod[p]
  BY PodsMove
<1> QED
  BY <1>1, <1>2 DEF Seen, PodObject

\* No step touches the job of a worker but its own.
LEMMA JobMoves ==
    ASSUME Core, [Next]_vars, NEW r \in Replicas, pc'[r] # "idle"
    PROVE  \/ pc[r] # "idle" /\ req'[r] = req[r] /\ snap'[r] = snap[r]
           \/ /\ pc[r] = "idle"
              /\ \E p \in Pods: req'[r] = p /\ snap'[r] = podView[r][p] /\ Failing(podView[r][p])
<1>1. CASE UNCHANGED job
  BY <1>1 DEF job
<1>2. ASSUME NEW q \in Replicas, Reconciles(q)
      PROVE  \/ pc[r] # "idle" /\ req'[r] = req[r] /\ snap'[r] = snap[r]
             \/ /\ pc[r] = "idle"
                /\ \E p \in Pods: req'[r] = p /\ snap'[r] = podView[r][p] /\ Failing(podView[r][p])
  <2>1. CASE q = r
    BY <1>2, <2>1, JobLocal DEF Core
  <2>2. CASE q # r
    BY <1>2, <2>2, OthersUntouched DEF Core, Untouched
  <2> QED
    BY <2>1, <2>2
<1>3. CASE Cluster \/ Tick \/ \E q \in Replicas: Informers(q)
  BY <1>1, <1>3 DEF Cluster, PodFails, PodRecovers, PodDeleted, PodRecreated, PodWrite,
     CollectGarbage, DeleteDiagnosis, Removed, Tick, Informers, SyncPod, SyncDiagnosis,
     Resync, work, job
<1>4. CASE UNCHANGED vars
  BY <1>1, <1>4 DEF vars
<1> QED
  BY <1>2, <1>3, <1>4 DEF Next, Reconciles

LEMMA InOrderStep ==
    ASSUME Core, RevisionsOK, InOrder, [Next]_vars
    PROVE  InOrder'
<1>1. rv' <= MaxPodWrites
  BY PodsMove DEF InOrder
<1>2. ASSUME NEW r \in Replicas, NEW p \in Pods, podView[r][p] # Absent
      PROVE  Seen(podView[r][p].rv, r, p) /\ podView[r][p].rv \in Nat /\ podView[r][p].rv <= rv
  BY <1>2 DEF InOrder, RevisionsOK, Dated, Core, TypeOK, PodObject
<1>3. ASSUME NEW r \in Replicas, NEW p \in Pods, podView'[r][p] # Absent
      PROVE  Seen(podView[r][p].rv, r, p)'
  <2>1. /\ \/ pod'[p] = pod[p]
           \/ pod'[p] = Absent
           \/ pod'[p] \in PodObject /\ pod'[p].rv = rv + 1
        /\ podView'[r][p] = podView[r][p] \/ podView'[r][p] = pod[p]
    BY PodsMove DEF InOrder
  <2>2. CASE podView'[r][p] = podView[r][p]
    <3> DEFINE v == podView[r][p].rv
    <3>1. v \in Nat /\ v <= rv /\ Seen(v, r, p)
      BY <1>2, <1>3, <2>2
    <3> HIDE DEF v
    <3>2. podView'[r][p].rv = v
      BY <2>2 DEF v
    <3>3. /\ podView'[r][p] # Absent => v <= podView'[r][p].rv
          /\ pod'[p] # Absent => v <= pod'[p].rv
      BY <3>1, SeenStep DEF InOrder, Seen
    <3> QED
      BY <3>2, <3>3 DEF Seen
  <2>3. CASE podView'[r][p] = pod[p]
    <3>1. pod[p] \in PodObject /\ pod[p].rv \in Nat /\ pod[p].rv <= rv /\ rv \in Nat
      BY <1>3, <2>3 DEF RevisionsOK, Dated, Core, TypeOK, PodObject
    <3> QED
      BY <2>1, <2>3, <3>1 DEF Seen
  <2> QED
    BY <2>1, <2>2, <2>3
<1>4. ASSUME NEW r \in Replicas, pc'[r] # "idle"
      PROVE  Seen(snap[r].rv, r, req[r])'
  <2>1. PICK p \in Pods, v \in Nat:
          /\ req'[r] = p /\ snap'[r].rv = v
          /\ v <= rv /\ Seen(v, r, p)
    <3>1. CASE pc[r] # "idle" /\ req'[r] = req[r] /\ snap'[r] = snap[r]
      <4>1. /\ req[r] \in Pods /\ snap[r].rv \in Nat /\ snap[r].rv <= rv
            /\ Seen(snap[r].rv, r, req[r])
        BY <3>1 DEF InOrder, RevisionsOK, Dated, Core, TypeOK, JobOK, JobAt, PodObject
      <4> QED
        BY <3>1, <4>1
    <3>2. ASSUME NEW p \in Pods, req'[r] = p, snap'[r] = podView[r][p], Failing(podView[r][p])
          PROVE  \E v \in Nat: snap'[r].rv = v /\ v <= rv /\ Seen(v, r, p)
      BY <1>2, <3>2 DEF Failing
    <3> QED
      BY <1>4, <3>1, <3>2, JobMoves
  <2>2. Seen(v, r, p)'
    BY <2>1, SeenStep DEF InOrder
  <2> QED
    BY <2>1, <2>2 DEF Seen
<1> QED
  BY <1>1, <1>3, <1>4 DEF InOrder

---------------------------------------------------------------------------
(* What a reader sees of a write.                                          *)

Same(o, old) ==
    /\ o # Absent /\ old # Absent
    /\ o.phase = old.phase /\ o.diag = old.diag

LEMMA SameShown ==
    ASSUME NEW o, NEW old, Same(o, old) \/ o = old
    PROVE  Shown(o) = Shown(old)
BY DEF Same, Shown

LEMMA AgedSame ==
    ASSUME NEW o \in Diagnosis
    PROVE  Same(Aged(o), o)
<1>1. Aged(o) = [o EXCEPT !.ann = Older(@)] /\ Aged(o) # Absent
  BY AgedType, AbsentIsNoObject DEF Aged
<1> QED
  BY <1>1, AbsentIsNoObject DEF Same, Diagnosis

\* What each patch loop stores.
LEMMA UpdatedStatus ==
    ASSUME Core, NEW r \in Replicas, fresh[r]
    PROVE  /\ Updated(r) # Absent /\ cd[NameOf(r)] # Absent
           /\ \/ /\ pc[r] = "analyzing" /\ Updated(r).phase = "Analyzing"
                 /\ Updated(r).diag = cd[NameOf(r)].diag
              \/ /\ pc[r] = "ready" /\ Updated(r).phase = "Ready"
                 /\ Updated(r).diag = Answer(r)
              \/ /\ pc[r] = "error" /\ Updated(r).phase = "Error"
                 /\ Updated(r).diag = cd[NameOf(r)].diag
              \/ pc[r] = "meta" /\ Same(Updated(r), cd[NameOf(r)])
<1>1. /\ pc[r] \in PatchSteps
      /\ cur[r] \in Diagnosis
      /\ cd[NameOf(r)] = cur[r]
  BY DEF Core, TypeOK, LoopOK, LoopAt
<1>2. Updated(r) \in Diagnosis
  BY UpdatedType DEF Core
<1>3. Updated(r) # Absent /\ cd[NameOf(r)] # Absent
  BY <1>1, <1>2, AbsentIsNoObject
<1>4. CASE pc[r] = "analyzing"
  BY <1>1, <1>3, <1>4 DEF Updated, Mutated, Diagnosis
<1>5. CASE pc[r] = "ready"
  BY <1>1, <1>3, <1>5 DEF Updated, Mutated, Diagnosis
<1>6. CASE pc[r] = "error"
  BY <1>1, <1>3, <1>6 DEF Updated, Mutated, Diagnosis
<1>7. CASE pc[r] = "meta"
  BY <1>1, <1>3, <1>7 DEF Updated, Mutated, Diagnosis, Same
<1> QED
  BY <1>1, <1>3, <1>4, <1>5, <1>6, <1>7 DEF PatchSteps

LEMMA Stored ==
    ASSUME TypeOK, NEW n \in Names, NEW o, StoreDiagnosis(n, o)
    PROVE  /\ cd'[n] = o
           /\ \A m \in Names: m # n => cd'[m] = cd[m]
BY DEF TypeOK, StoreDiagnosis

---------------------------------------------------------------------------
(* An analysis is announced while it is under way.                         *)

AnalysisSteps == {"gather", "llm", "answer", "ready", "error"}

\* What a patch loop sends was stored although its answer said otherwise.
Repeated(r, o) ==
    \/ pc[r] = "ready" /\ o.phase = "Ready" /\ o.diag = Answer(r)
    \/ pc[r] = "error" /\ o.phase = "Error"

AnnouncedAt(r) ==
    pc[r] \in AnalysisSteps /\ cd[NameOf(r)] # Absent =>
        cd[NameOf(r)].phase = "Analyzing" \/ Repeated(r, cd[NameOf(r)])

\* The steps outside the workers.
Environment == Cluster \/ Tick \/ (\E r \in Replicas: Informers(r)) \/ UNCHANGED vars

\* No other worker has a reconcile under way, nor does it take a step.
Alone(r) == \A q \in Replicas \ {r}: pc[q] = "idle"
Acts(r) == Environment \/ Reconciles(r)

LEMMA ActsStep ==
    ASSUME NEW r \in Replicas, Environment \/ Acts(r)
    PROVE  [Next]_vars
BY DEF Acts, Environment, Next, Reconciles

LEMMA EnvironmentStep ==
    ASSUME TypeOK, Environment
    PROVE  /\ UNCHANGED <<pc, req, snap, logs>>
           /\ \A n \in Names: cd'[n] = Absent \/ cd'[n] = cd[n] \/ Same(cd'[n], cd[n])
<1>1. ASSUME NEW n \in Names, Removed(n)
      PROVE  \A m \in Names: cd'[m] = Absent \/ cd'[m] = cd[m]
  BY <1>1, Stored DEF Removed
<1>2. CASE Cluster
  BY <1>1, <1>2 DEF Cluster, PodFails, PodRecovers, PodDeleted, PodRecreated, PodWrite,
     CollectGarbage, DeleteDiagnosis, Removed, job, pending
<1>3. CASE Tick
  <2>1. ASSUME NEW n \in Names PROVE cd'[n] = Absent \/ Same(cd'[n], cd[n])
    <3>1. cd'[n] = Aged(cd[n])
      BY <1>3 DEF Tick
    <3>2. CASE cd[n] = Absent
      BY <3>1, <3>2 DEF Aged
    <3>3. CASE cd[n] \in Diagnosis
      BY <3>1, <3>3, AgedSame
    <3> QED
      BY <3>2, <3>3 DEF TypeOK
  <2> QED
    BY <1>3, <2>1 DEF Tick, job
<1>4. CASE UNCHANGED vars \/ \E r \in Replicas: Informers(r)
  BY <1>4 DEF Informers, SyncPod, SyncDiagnosis, Resync, vars, store, job, pending
<1> QED
  BY <1>2, <1>3, <1>4 DEF Environment

\* How a worker gets to a step of the analysis.
LEMMA AnalysisLocal ==
    ASSUME Core, NEW r \in Replicas, Reconciles(r), pc'[r] \in AnalysisSteps
    PROVE  /\ pc[r] # "idle" /\ req'[r] = req[r] /\ snap'[r] = snap[r]
           /\ \/ pc[r] = "analyzing" /\ Commit(r) /\ pc'[r] = "gather"
              \/ pc[r] \in {"gather", "llm", "answer"} /\ UNCHANGED cd
              \/ /\ pc[r] \in {"ready", "error"} /\ pc'[r] = pc[r] /\ logs'[r] = logs[r]
                 /\ UNCHANGED cd \/ Commit(r)
<1> USE DEF Core
<1>1. ASSUME Finish(r) \/ pc'[r] = "idle" PROVE FALSE
  BY <1>1, FinishLocal DEF AnalysisSteps
<1>2. ASSUME NEW step, Goto(r, step) PROVE step \in AnalysisSteps
  BY <1>2, GotoLocal
<1>3. ASSUME NEW o, Decide(r, o) PROVE FALSE
  BY <1>1, <1>2, <1>3, DecideLocal DEF AnalysisSteps
<1>4. ~GetDiagnosis(r) /\ ~Reread(r)
  BY <1>1, <1>2, <1>3 DEF GetDiagnosis, Reread, ReturnError, AnalysisSteps
<1>5. ~CreateDiagnosis(r) /\ ~CreateFails(r) /\ ~ReadFails(r) /\ ~Restart(r)
  BY <1>1, <1>2 DEF CreateDiagnosis, CreateFails, ReadFails, Restart, ReturnError, AnalysisSteps
<1>6. ASSUME NEW p \in Pods, StartReconcile(r, p) PROVE FALSE
  BY <1>2, <1>6 DEF StartReconcile, job, AnalysisSteps
<1>7. pc[r] # "idle" /\ req'[r] = req[r] /\ snap'[r] = snap[r]
  <2>1. pc[r] # "idle"
    BY <1>4, <1>5, <1>6 DEF Reconciles, Worker, Trouble, PatchGet, PatchUpdate, Gather, CallLLM,
       LLMAnswers, AnalysisFails, UpdateFails, PatchSteps
  <2> QED
    BY <1>1, <2>1, JobLocal
<1>8. CASE PatchGet(r)
  <2>1. UNCHANGED <<pc, logs, cd>> /\ pc[r] \in PatchSteps
    BY <1>1, <1>8 DEF PatchGet, ReturnError, job, pending, store
  <2> QED
    BY <1>7, <2>1 DEF PatchSteps, AnalysisSteps
<1>9. CASE PatchUpdate(r) \/ UpdateFails(r)
  <2>1. pc[r] \in PatchSteps
    BY <1>9 DEF PatchUpdate, UpdateFails
  <2>2. CASE Commit(r) /\ PatchDone(r)
    BY <1>1, <1>7, <2>2, PatchDoneLocal DEF AnalysisSteps
  <2>3. CASE TryAgain(r) /\ (Commit(r) \/ UNCHANGED cd)
    <3>1. UNCHANGED <<pc, logs>>
      BY <1>1, <2>3, TryAgainLocal
    <3> QED
      BY <1>7, <2>1, <2>3, <3>1 DEF PatchSteps, AnalysisSteps
  <2>4. ~ReturnError(r)
    BY <1>1 DEF ReturnError
  <2> QED
    BY <1>9, <2>2, <2>3, <2>4 DEF PatchUpdate, UpdateFails, NotStored
<1>10. CASE Gather(r) \/ CallLLM(r) \/ LLMAnswers(r) \/ AnalysisFails(r)
  BY <1>7, <1>10 DEF Gather, CallLLM, LLMAnswers, AnalysisFails, store
<1> QED
  BY <1>4, <1>5, <1>6, <1>8, <1>9, <1>10 DEF Reconciles, Worker, Trouble

LEMMA AnnouncedStep ==
    ASSUME Core, NEW r \in Replicas, AnnouncedAt(r), Acts(r)
    PROVE  AnnouncedAt(r)'
<1> USE DEF Core
<1> SUFFICES ASSUME pc'[r] \in AnalysisSteps, cd'[NameOf(r)'] # Absent
             PROVE  cd'[NameOf(r)'].phase = "Analyzing" \/ Repeated(r, cd[NameOf(r)])'
  BY DEF AnnouncedAt
<1> DEFINE n == NameOf(r)
<1>1. AnnouncedAt(r)
  OBVIOUS
<1>2. CASE Environment
  <2>1. UNCHANGED <<pc, req, snap, logs>>
    BY <1>2, EnvironmentStep
  <2>2. n' = n /\ n \in Names
    BY <2>1, NameOfType DEF NameOf, AnalysisSteps
  <2>3. cd'[n] = cd[n] \/ Same(cd'[n], cd[n])
    BY <1>2, <2>2, EnvironmentStep
  <2>4. Answer(r)' = Answer(r)
    BY <2>1 DEF Answer
  <2> HIDE DEF n
  <2>5. cd[n] # Absent /\ cd'[n].phase = cd[n].phase /\ cd'[n].diag = cd[n].diag
    BY <2>2, <2>3 DEF Same, n
  <2> QED
    BY <1>1, <2>1, <2>2, <2>4, <2>5 DEF AnnouncedAt, Repeated, n
<1>3. CASE Reconciles(r)
  <2>1. n' = n /\ pc[r] # "idle"
    BY <1>3, AnalysisLocal DEF NameOf
  <2>2. n \in Names
    BY <2>1, NameOfType
  <2>3. ASSUME Commit(r) PROVE fresh[r] /\ cd'[n] = Updated(r)
    BY <2>2, <2>3, Stored DEF Commit
  <2>4. CASE pc[r] = "analyzing" /\ Commit(r)
    BY <2>1, <2>3, <2>4, UpdatedStatus
  <2>5. CASE pc[r] \in {"gather", "llm", "answer"} /\ UNCHANGED cd
    BY <1>1, <2>1, <2>5 DEF AnnouncedAt, Repeated, AnalysisSteps
  <2>6. ASSUME pc[r] \in {"ready", "error"}, pc'[r] = pc[r], logs'[r] = logs[r]
        PROVE  Answer(r)' = Answer(r)
    BY <1>3, <2>6, AnalysisLocal DEF Answer
  <2>7. CASE pc[r] \in {"ready", "error"} /\ pc'[r] = pc[r] /\ logs'[r] = logs[r] /\ UNCHANGED cd
    BY <1>1, <2>1, <2>6, <2>7 DEF AnnouncedAt, Repeated, AnalysisSteps
  <2>8. CASE pc[r] \in {"ready", "error"} /\ pc'[r] = pc[r] /\ logs'[r] = logs[r] /\ Commit(r)
    BY <2>1, <2>3, <2>6, <2>8, UpdatedStatus DEF Repeated
  <2> QED
    BY <1>3, <2>4, <2>5, <2>7, <2>8, AnalysisLocal
<1> QED
  BY <1>2, <1>3 DEF Acts

---------------------------------------------------------------------------
(* A conclusion is not newer than anything the worker may still read.      *)

\* From Gather to the patch of the answer the logs are of a past revision.
LogsDated(r) == pc[r] \in AnswerSteps => logs[r] <= rv

Observed(r) ==
    \A n \in Names: cd[n] # Absent /\ cd[n].diag # Absent =>
        /\ cd[n].diag.obs <= rv
        /\ Seen(cd[n].diag.obs, r, cd[n].diag.pod)
        /\ pc[r] # "idle" /\ NameOf(r) = n => cd[n].diag.obs <= snap[r].rv

LEMMA LogsDatedStep ==
    ASSUME Core, InOrder, NEW r \in Replicas, LogsDated(r), Acts(r)
    PROVE  LogsDated(r)'
<1>0. [Next]_vars
  BY ActsStep
<1>1. rv \in Nat /\ rv' \in Nat /\ rv <= rv' /\ logs[r] \in Nat
  BY <1>0, PodsMove, NextCore DEF InOrder, Core, TypeOK
<1>2. CASE Environment
  BY <1>1, <1>2, EnvironmentStep DEF LogsDated, Core
<1>3. CASE Reconciles(r)
  BY <1>1, <1>3, LogsLocal DEF LogsDated, Core
<1> QED
  BY <1>2, <1>3 DEF Acts

LEMMA ObservedStep ==
    ASSUME Core, RevisionsOK, InOrder, AboutItsTarget,
           NEW r \in Replicas, Observed(r), Alone(r), Acts(r)
    PROVE  Observed(r)'
<1> SUFFICES ASSUME NEW n \in Names, cd'[n] # Absent, cd'[n].diag # Absent
             PROVE  /\ cd'[n].diag.obs <= rv'
                    /\ Seen(cd[n].diag.obs, r, cd[n].diag.pod)'
                    /\ pc'[r] # "idle" /\ NameOf(r)' = n => cd'[n].diag.obs <= snap'[r].rv
  BY DEF Observed
<1>a. [Next]_vars
  BY ActsStep
<1>0. rv \in Nat /\ rv' \in Nat /\ rv <= rv' /\ rv <= MaxPodWrites
  BY <1>a, PodsMove, NextCore DEF InOrder, Core, TypeOK
\* What is concluded about p at revision v, once it is past.
<1>1. ASSUME NEW v \in Nat, NEW p \in Pods, v <= rv, Seen(v, r, p),
             cd'[n].diag.obs = v, cd'[n].diag.pod = p
      PROVE  v <= rv' /\ Seen(cd[n].diag.obs, r, cd[n].diag.pod)'
  <2>1. Seen(v, r, p)'
    BY <1>a, <1>0, <1>1, SeenStep
  <2> QED
    BY <1>0, <1>1, <2>1 DEF Seen
<1>2. CASE cd[n] # Absent /\ cd'[n].diag = cd[n].diag
  <2> DEFINE e == cd[n].diag
  <2>1. cd[n] \in Diagnosis /\ e \in Evidence
    BY <1>2 DEF Core, TypeOK, Diagnosis
  <2>2. /\ e.obs \in Nat /\ e.pod \in Pods
        /\ e.obs <= rv /\ Seen(e.obs, r, e.pod)
        /\ pc[r] # "idle" /\ NameOf(r) = n => e.obs <= snap[r].rv
    BY <1>2, <2>1 DEF Observed, Evidence
  <2>3. ASSUME pc'[r] # "idle", NameOf(r)' = n PROVE e.obs <= snap'[r].rv
    <3>1. CASE pc[r] # "idle" /\ req'[r] = req[r] /\ snap'[r] = snap[r]
      BY <2>2, <2>3, <3>1 DEF NameOf
    <3>2. ASSUME NEW p \in Pods, req'[r] = p, snap'[r] = podView[r][p], Failing(podView[r][p])
          PROVE  e.obs <= snap'[r].rv
      <4>1. podView[r][p] \in PodObject /\ podView[r][p].ft \in FailureTypes
        BY <3>2 DEF Failing, Core, TypeOK, PodObject
      <4>2. Name[<<p, podView[r][p].ft>>] = Name[<<cd[n].target, cd[n].ft>>]
        BY <1>2, <2>3, <3>2 DEF NameOf, AboutItsTarget
      <4>3. /\ <<p, podView[r][p].ft>> \in Pods \X FailureTypes
            /\ <<cd[n].target, cd[n].ft>> \in Pods \X FailureTypes
        BY <2>1, <4>1 DEF Diagnosis
      <4>4. <<p, podView[r][p].ft>> = <<cd[n].target, cd[n].ft>>
        BY <4>2, <4>3, NamesInjective
      <4>5. e.pod = p
        BY <1>2, <4>4 DEF AboutItsTarget
      <4> QED
        BY <2>2, <3>2, <4>5 DEF Seen, Failing
    <3> QED
      BY <2>3, <3>1, <3>2, <1>a, JobMoves
  <2>4. cd'[n].diag.obs <= rv' /\ Seen(cd[n].diag.obs, r, cd[n].diag.pod)'
    BY <1>1, <1>2, <2>2
  <2> QED
    BY <1>2, <2>3, <2>4
<1>3. CASE ~(cd[n] # Absent /\ cd'[n].diag = cd[n].diag)
  <2>1. cd[n] # Absent => cd'[n] # cd[n] /\ cd'[n] # [cd[n] EXCEPT !.ann = Older(@)]
    <3>1. cd[n] # Absent => cd[n] \in Diagnosis
      BY DEF Core, TypeOK
    <3> QED
      BY <1>3, <3>1 DEF Diagnosis
  <2>2. pc[r] # "idle" /\ n = NameOf(r) /\ fresh[r] /\ cd'[n] = Updated(r)
    <3>1. PICK q \in Replicas:
            /\ pc[q] # "idle" /\ n = NameOf(q)
            /\ cd'[n] = NewDiagnosis(q) \/ (fresh[q] /\ cd'[n] = Updated(q))
      BY <2>1, <1>a, DiagnosisStep
    <3>2. cd'[n] # NewDiagnosis(q)
      BY NewDiagnosisFields
    <3> QED
      BY <3>1, <3>2 DEF Alone
  <2>3. pc[r] = "ready" /\ cd'[n].diag = Answer(r)
    BY <1>3, <2>2, UpdatedFields, AbsentIsNoObject
  <2>4. /\ req[r] \in Pods /\ snap[r].rv \in Nat /\ snap[r].rv <= rv
        /\ Seen(snap[r].rv, r, req[r])
    BY <2>2 DEF InOrder, RevisionsOK, Dated, Core, TypeOK, JobOK, JobAt, PodObject
  <2>5. cd'[n].diag.obs = snap[r].rv /\ cd'[n].diag.pod = req[r]
    BY <2>3, AnswerFields
  <2>6. pc'[r] # "idle" => snap'[r] = snap[r]
    BY <2>2, <1>a, JobMoves
  <2> QED
    BY <1>1, <2>4, <2>5, <2>6
<1> QED
  BY <1>2, <1>3

---------------------------------------------------------------------------
(* Every step maps to a step of the lifecycle, or to none.                 *)

LEMMA ShownStatus ==
    ASSUME NEW o \in Diagnosis
    PROVE  /\ o # Absent /\ Shown(o) # Absent
           /\ Shown(o) = [phase |-> o.phase, diag |-> o.diag]
<1>1. o # Absent
  BY AbsentIsNoObject
<1>2. Shown(o) = [phase |-> o.phase, diag |-> o.diag]
  BY <1>1 DEF Shown
<1>3. Shown(o) \in Status
  BY <1>2 DEF Diagnosis, Status
<1> QED
  BY <1>1, <1>2, <1>3, AbsentAssumption

LEMMA StatusStored ==
    ASSUME TypeOK, NEW n \in Names, NEW o, StoreDiagnosis(n, o)
    PROVE  /\ Statuses' = [Statuses EXCEPT ![n] = Shown(o)]
           /\ Statuses[n] = Shown(cd[n])
<1>1. \A m \in Names: cd'[m] = IF m = n THEN o ELSE cd[m]
  BY Stored
<1> QED
  BY <1>1 DEF Statuses

LEMMA StatusesUnchanged ==
    ASSUME \A n \in Names: cd'[n] = cd[n] \/ Same(cd'[n], cd[n])
    PROVE  Statuses' = Statuses
<1>1. ASSUME NEW n \in Names PROVE Shown(cd'[n]) = Shown(cd[n])
  BY SameShown
<1> QED
  BY <1>1 DEF Statuses

LEMMA RemovedStep ==
    ASSUME TypeOK, NEW n \in Names, Removed(n)
    PROVE  Lifecycle!Remove(n)
<1>1. cd[n] \in Diagnosis /\ StoreDiagnosis(n, Absent)
  BY DEF Removed, TypeOK
<1>2. Statuses[n] # Absent
  BY <1>1, StatusStored, ShownStatus
<1>3. Statuses' = [Statuses EXCEPT ![n] = Absent]
  BY <1>1, StatusStored DEF Shown
<1> QED
  BY <1>2, <1>3 DEF Lifecycle!Remove

LEMMA CreatedStep ==
    ASSUME Core, NEW r \in Replicas, pc[r] # "idle", cd[NameOf(r)] = Absent,
           StoreDiagnosis(NameOf(r), NewDiagnosis(r))
    PROVE  Lifecycle!Open(NameOf(r))
<1>1. NameOf(r) \in Names /\ NewDiagnosis(r) \in Diagnosis
  BY NameOfType, NewDiagnosisType DEF Core
<1>2. Shown(NewDiagnosis(r)) = Lifecycle!Unopened
  BY <1>1, ShownStatus, NewDiagnosisFields DEF Lifecycle!Unopened
<1>3. /\ Statuses' = [Statuses EXCEPT ![NameOf(r)] = Lifecycle!Unopened]
      /\ Statuses[NameOf(r)] = Absent
  BY <1>1, <1>2, StatusStored DEF Core, Shown
<1> QED
  BY <1>3 DEF Lifecycle!Open

\* What holds besides Core, and of the one worker r that may be busy.
Orderly(r) ==
    /\ RevisionsOK /\ InOrder /\ AboutItsTarget
    /\ LogsDated(r) /\ Observed(r) /\ AnnouncedAt(r)

LEMMA OrderlyStep ==
    ASSUME Core, NEW r \in Replicas, Orderly(r), Alone(r), Acts(r)
    PROVE  Orderly(r)'
BY ActsStep, RevisionsStep, InOrderStep, AboutItsTargetStep, LogsDatedStep, ObservedStep,
   AnnouncedStep DEF Orderly

\* The patch of an answer concludes, or repeats its conclusion.
LEMMA ReadyStep ==
    ASSUME Core, NEW r \in Replicas, Orderly(r), pc[r] = "ready", Commit(r)
    PROVE  Lifecycle!Conclude(NameOf(r)) \/ Statuses' = Statuses
<1> USE DEF Core
<1> DEFINE n == NameOf(r)
           e == Answer(r)
           k == <<req[r], snap[r].ft>>
<1>1. /\ n \in Names /\ k \in Pods \X FailureTypes /\ Name[k] = n
      /\ cd[n] \in Diagnosis /\ Updated(r) \in Diagnosis
      /\ StoreDiagnosis(n, Updated(r))
  BY UpdatedFields DEF Commit, NameOf, JobOK, JobAt
<1>2. Shown(Updated(r)) = [phase |-> "Ready", diag |-> e]
  BY <1>1, UpdatedStatus, ShownStatus DEF Commit
<1>3. /\ Statuses' = [Statuses EXCEPT ![n] = [phase |-> "Ready", diag |-> e]]
      /\ Statuses[n] = [phase |-> cd[n].phase, diag |-> cd[n].diag]
      /\ Statuses[n] # Absent
      /\ Statuses \in [Names -> {Shown(cd[m]): m \in Names}]
  BY <1>1, <1>2, StatusStored, ShownStatus DEF Statuses
<1>4. CASE cd[n].phase = "Ready" /\ cd[n].diag = e
  BY <1>1, <1>3, <1>4
<1>5. CASE cd[n].phase = "Analyzing"
  <2>1. /\ snap[r].rv \in 0 .. MaxPodWrites /\ logs[r] \in 0 .. MaxPodWrites
        /\ snap[r].rv <= logs[r]
    <3>1. snap[r].rv \in Nat /\ logs[r] \in Nat /\ rv \in Nat /\ MaxPodWrites \in Nat
      BY BoundsAssumption DEF TypeOK, JobOK, JobAt, PodObject
    <3>2. snap[r].rv <= logs[r] /\ logs[r] <= rv /\ rv <= MaxPodWrites
      BY DEF Orderly, RevisionsOK, LogsDated, InOrder, AnswerSteps
    <3> QED
      BY <3>1, <3>2
  <2>2. e = [pod |-> k[1], ft |-> k[2], obs |-> snap[r].rv, logs |-> logs[r]]
    BY DEF Answer
  <2>3. Lifecycle!Supersedes(e, cd[n].diag)
    BY <1>1, AbsentIsNoObject, AnswerFields DEF Orderly, Observed, Lifecycle!Supersedes
  <2>4. Lifecycle!Analyzing(n) /\ Lifecycle!Supersedes(e, Statuses[n].diag)
    BY <1>3, <1>5, <2>3 DEF Lifecycle!Analyzing
  <2>5. k \in {l \in Pods \X FailureTypes: Name[l] = n}
    BY <1>1
  <2>6. k \in [m \in Names |-> {l \in Pods \X FailureTypes: Name[l] = m}][n]
    BY <1>1, <2>5
  <2> DEFINE o == snap[r].rv
             l == logs[r]
             f == [pod |-> k[1], ft |-> k[2], obs |-> o, logs |-> l]
  <2>7. /\ o \in 0 .. MaxPodWrites /\ l \in 0 .. MaxPodWrites /\ o <= l
        /\ Lifecycle!Supersedes(f, Statuses[n].diag)
        /\ Statuses' = [Statuses EXCEPT ![n] = [phase |-> "Ready", diag |-> f]]
    BY <1>3, <2>1, <2>2, <2>4
  <2> DEFINE S == [m \in Names |-> {j \in Pods \X FailureTypes: Name[j] = m}][n]
             R == 0 .. MaxPodWrites
  <2>8. k \in S /\ o \in R /\ l \in R
    BY <2>6, <2>7
  <2> HIDE DEF n, k, o, l, S, R
  <2>9. \E j \in S, x, y \in R:
          LET d == [pod |-> j[1], ft |-> j[2], obs |-> x, logs |-> y] IN
          /\ x <= y
          /\ Lifecycle!Supersedes(d, Statuses[n].diag)
          /\ Statuses' = [Statuses EXCEPT ![n] = [phase |-> "Ready", diag |-> d]]
    <3> USE <2>8
    <3> WITNESS k \in S, o \in R, l \in R
    <3> QED
      BY <2>7
  <2>10. Lifecycle!Conclude(n)
    BY <2>4, <2>9 DEF Lifecycle!Conclude, S, R
  <2> QED
    BY <2>10 DEF n
<1>6. cd[n].phase = "Analyzing" \/ (cd[n].phase = "Ready" /\ cd[n].diag = e)
  BY <1>1, AbsentIsNoObject DEF Orderly, AnnouncedAt, AnalysisSteps, Repeated
<1> QED
  BY <1>4, <1>5, <1>6

\* The other patches announce, give up, or leave the status alone.
LEMMA OtherPatchStep ==
    ASSUME Core, NEW r \in Replicas, Orderly(r), pc[r] # "ready", Commit(r)
    PROVE  \/ Lifecycle!Announce(NameOf(r))
           \/ Lifecycle!GiveUp(NameOf(r))
           \/ Statuses' = Statuses
<1> USE DEF Core
<1> DEFINE n == NameOf(r)
<1>1. /\ n \in Names
      /\ cd[n] \in Diagnosis /\ Updated(r) \in Diagnosis
      /\ StoreDiagnosis(n, Updated(r))
  BY UpdatedFields DEF Commit, NameOf
<1>2. /\ Statuses' = [Statuses EXCEPT ![n] = Shown(Updated(r))]
      /\ Statuses[n] = [phase |-> cd[n].phase, diag |-> cd[n].diag]
      /\ Statuses[n] # Absent
      /\ Shown(Updated(r)) = [phase |-> Updated(r).phase, diag |-> Updated(r).diag]
  BY <1>1, StatusStored, ShownStatus
<1>3. CASE pc[r] = "analyzing"
  <2>1. Shown(Updated(r)) = [Statuses[n] EXCEPT !.phase = "Analyzing"]
    BY <1>2, <1>3, UpdatedStatus DEF Commit
  <2> QED
    BY <1>2, <2>1 DEF Lifecycle!Announce
<1>4. CASE pc[r] = "error"
  <2>1. Shown(Updated(r)) = [Statuses[n] EXCEPT !.phase = "Error"]
    BY <1>2, <1>4, UpdatedStatus DEF Commit
  <2>2. CASE cd[n].phase = "Analyzing"
    <3>1. Lifecycle!Analyzing(n)
      BY <1>2, <2>2 DEF Lifecycle!Analyzing
    <3> QED
      BY <1>2, <2>1, <3>1 DEF Lifecycle!GiveUp
  <2>3. CASE cd[n].phase = "Error"
    <3>1. Shown(Updated(r)) = Statuses[n]
      BY <1>2, <2>1, <2>3
    <3> QED
      BY <1>1, <1>2, <3>1 DEF Statuses
  <2> QED
    BY <1>1, <1>4, <2>2, <2>3, AbsentIsNoObject
       DEF Orderly, AnnouncedAt, AnalysisSteps, Repeated
<1>5. CASE pc[r] = "meta"
  <2>1. Same(Updated(r), cd[n])
    BY <1>5, UpdatedStatus DEF Commit
  <2>2. \A m \in Names: cd'[m] = cd[m] \/ Same(cd'[m], cd[m])
    BY <1>1, <2>1, Stored
  <2> QED
    BY <2>2, StatusesUnchanged
<1>6. pc[r] \in PatchSteps
  BY DEF Commit, LoopOK, LoopAt
<1> QED
  BY <1>3, <1>4, <1>5, <1>6 DEF PatchSteps

LEMMA EnvironmentLifecycle ==
    ASSUME TypeOK, Environment
    PROVE  Lifecycle!Next \/ Statuses' = Statuses
<1>1. CASE \E n \in Names: Removed(n)
  BY <1>1, RemovedStep DEF Lifecycle!Next
<1>2. CASE \A n \in Names: ~Removed(n)
  <2>1. CASE Cluster
    <3>1. UNCHANGED cd
      BY <1>2, <2>1 DEF Cluster, PodFails, PodRecovers, PodDeleted, PodRecreated, PodWrite,
         CollectGarbage, DeleteDiagnosis
    <3> QED
      BY <3>1, StatusesUnchanged
  <2>2. CASE Tick
    <3>1. ASSUME NEW n \in Names PROVE cd'[n] = cd[n] \/ Same(cd'[n], cd[n])
      <4>1. cd'[n] = Aged(cd[n])
        BY <2>2 DEF Tick
      <4>2. CASE cd[n] = Absent
        BY <4>1, <4>2 DEF Aged
      <4>3. CASE cd[n] \in Diagnosis
        BY <4>1, <4>3, AgedSame
      <4> QED
        BY <4>2, <4>3 DEF TypeOK
    <3> QED
      BY <3>1, StatusesUnchanged
  <2>3. CASE UNCHANGED vars \/ \E r \in Replicas: Informers(r)
    <3>1. UNCHANGED cd
      BY <2>3 DEF Informers, SyncPod, SyncDiagnosis, Resync, store, vars
    <3> QED
      BY <3>1, StatusesUnchanged
  <2> QED
    BY <2>1, <2>2, <2>3 DEF Environment
<1> QED
  BY <1>1, <1>2

LEMMA LifecycleStep ==
    ASSUME Core, NEW r \in Replicas, Orderly(r), Acts(r)
    PROVE  Lifecycle!Next \/ Statuses' = Statuses
<1> USE DEF Core
<1>1. CASE Environment
  BY <1>1, EnvironmentLifecycle
<1>2. CASE Reconciles(r)
  <2>1. CASE UNCHANGED cd
    BY <2>1, StatusesUnchanged
  <2>2. CASE Writes(r)
    <3>1. pc[r] # "idle" /\ NameOf(r) \in Names
      BY <2>2, WritesStore, NameOfType
    <3>2. CASE Commit(r)
      BY <3>1, <3>2, ReadyStep, OtherPatchStep DEF Lifecycle!Next
    <3>3. CASE StoreDiagnosis(NameOf(r), NewDiagnosis(r)) /\ cd[NameOf(r)] = Absent
      BY <3>1, <3>3, CreatedStep DEF Lifecycle!Next
    <3>4. ASSUME CreateDiagnosis(r), ~UNCHANGED cd PROVE cd[NameOf(r)] = Absent
      BY <3>4 DEF CreateDiagnosis
    <3> QED
      BY <2>1, <2>2, <3>2, <3>3, <3>4 DEF Writes, CreateFails
  <2> QED
    BY <1>2, <2>1, <2>2, WritesOrNot
<1> QED
  BY <1>1, <1>2 DEF Acts

LEMMA LifecycleInit ==
    ASSUME Init, NEW r \in Replicas
    PROVE  Orderly(r) /\ Lifecycle!Init
<1>1. NewPod(0) \in PodObject /\ NewPod(0).rv = 0
  BY DEF NewPod, PodObject
<1>2. RevisionsOK /\ LogsDated(r) /\ AboutItsTarget /\ Observed(r) /\ AnnouncedAt(r)
  BY <1>1 DEF Init, RevisionsOK, Dated, LogsDated, AboutItsTarget, Observed, AnnouncedAt,
     AnalysisSteps, AnswerSteps
<1>3. InOrder
  BY <1>1, BoundsAssumption DEF Init, InOrder, Seen
<1>4. Lifecycle!Init
  BY DEF Init, Lifecycle!Init, Statuses, Shown
<1> QED
  BY <1>2, <1>3, <1>4 DEF Orderly

\* A single manager, whatever happens to it, shows the readers of its
\* ClusterDiagnoses nothing but the lifecycle: it concludes only what it announced,
\* and never falls back to an older state of a pod.
THEOREM OneManagerFollowsTheLifecycle ==
    ASSUME NEW only, Replicas = {only}
    PROVE  Spec => ImplementsLifecycle
<1>1. Init => Orderly(only) /\ Lifecycle!Init
  BY LifecycleInit
<1>2. [Next]_vars => Acts(only) /\ Alone(only)
  BY DEF Next, Acts, Environment, Reconciles, Alone
<1>3. Core /\ Orderly(only) /\ [Next]_vars => Orderly(only)'
  BY <1>2, OrderlyStep
<1>4. Core /\ Orderly(only) /\ [Next]_vars => [Lifecycle!Next]_Statuses
  BY <1>2, LifecycleStep
<1> QED
  BY <1>1, <1>3, <1>4, CoreInvariant, PTL DEF Spec, ImplementsLifecycle, Lifecycle!Spec

=============================================================================
