--------------------------- MODULE PodReconciler ---------------------------
(***************************************************************************)
(* The pod-health controller of internal/controller/pod_controller.go: one *)
(* or more manager replicas, each with informer caches, a work queue and a *)
(* single reconcile worker, writing ClusterDiagnosis objects through an    *)
(* API server with optimistic concurrency.  Every API or LLM call of       *)
(* reconcileInner is one action, so everything else may happen between two *)
(* calls.  Time is relative: an age saturates at MinBetween, where the     *)
(* rate limit of the code no longer tells two ages apart, and an object    *)
(* without the last-llm-call annotation has the saturated age.             *)
(***************************************************************************)
EXTENDS Integers, FiniteSets

CONSTANTS
    Replicas,        \* manager processes
    Pods,            \* namespaced pod names
    FailureTypes,    \* the failure classes of internal/detect
    Healthy,         \* Classify answered ok = false
    Fingerprints,    \* values of detect.Fingerprint
    Names,           \* ClusterDiagnosis names
    Name,            \* detect.DiagnosisName: <<pod, failure type>> to name
    Absent,          \* no such object
    MinBetween,      \* minBetweenLLM, in ticks
    TicksPerSecond,  \* RFC3339 keeps whole seconds
    MaxAttempts,     \* retry loop of patchDiagnosisStatus and patchDiagnosisMeta
    Faults,          \* the kinds of trouble the environment may cause
    MaxFaults,       \* bound: how many stale reads, failing calls, crashes and deletions
    MaxPodWrites     \* bound: how many writes to pods

FaultKinds == {"lag", "read", "write", "gather", "llm", "crash", "delete", "replace"}

ASSUME BoundsAssumption ==
    /\ MinBetween \in Nat \ {0}
    /\ TicksPerSecond \in Nat \ {0}
    /\ TicksPerSecond <= MinBetween
    /\ MaxAttempts \in Nat \ {0}
    /\ MaxFaults \in Nat
    /\ MaxPodWrites \in Nat
    /\ Faults \subseteq FaultKinds

ASSUME NameAssumption == Name \in [Pods \X FailureTypes -> Names]

Ages == 0 .. MinBetween
Phases == {"", "Analyzing", "Ready", "Error"}
PatchSteps == {"analyzing", "ready", "meta", "error"}
Steps == {"idle", "get", "create", "getExisting", "reread", "gather", "llm", "answer"}
            \cup PatchSteps

\* What the controller sees of a pod.  rv orders the states of all pods.
PodObject == [uid: Nat, rv: Nat, ft: FailureTypes \cup {Healthy},
              fp: Fingerprints \cup {Absent}]

\* What a Ready status says: the pod and failure class that were analysed, the
\* revision of the pod whose fingerprint was recorded, and the revision at
\* which the logs sent to the LLM were read.
Evidence == [pod: Pods, ft: FailureTypes, obs: Nat, logs: Nat]

Diagnosis == [target: Pods, ft: FailureTypes, owner: Nat, phase: Phases,
              fp: Fingerprints \cup {Absent}, diag: Evidence \cup {Absent}, ann: Ages]

\* What a reader of a ClusterDiagnosis sees of it.
Status == [phase: Phases, diag: Evidence \cup {Absent}]

ASSUME AbsentAssumption ==
    /\ Healthy \notin FailureTypes
    /\ Absent \notin Pods \cup Fingerprints
    /\ Absent \notin PodObject \cup Diagnosis \cup Evidence \cup Status

VARIABLES
    pod,        \* API server: the pod of each name
    cd,         \* API server: the ClusterDiagnosis of each name
    rv,         \* API server: revision of the last pod write
    podView,    \* informer cache of pods, per replica
    cdView,     \* informer cache of ClusterDiagnoses, per replica
    queue,      \* work queue, per replica
    timer,      \* RequeueAfter delays still to run; 0 when there is none
    pc,         \* the next call of the reconcile worker
    req,        \* the request being reconciled
    snap,       \* the pod read at the start of the reconcile
    cur,        \* the object read by the running attempt of a patch loop
    fresh,      \* cur still has the stored resourceVersion
    attempt,    \* attempt counter of the running patch loop
    logs,       \* revision at which collect.Gather read the logs
    ts,         \* age of the timestamp that patchDiagnosisMeta will write
    clock,      \* position of the clock within the current second
    sinceCall,  \* history: age of the last LLM call made for each name
    faults      \* faults that may still happen

store == <<pod, cd, rv>>
views == <<podView, cdView>>
work == <<queue, timer>>
job == <<pc, req, snap>>
patch == <<cur, fresh, attempt>>
pending == <<logs, ts>>
meter == <<clock, sinceCall>>
vars == <<store, views, work, job, patch, pending, meter, faults>>

---------------------------------------------------------------------------
TypeOK ==
    /\ pod \in [Pods -> PodObject \cup {Absent}]
    /\ cd \in [Names -> Diagnosis \cup {Absent}]
    /\ rv \in Nat
    /\ podView \in [Replicas -> [Pods -> PodObject \cup {Absent}]]
    /\ cdView \in [Replicas -> [Names -> Diagnosis \cup {Absent}]]
    /\ queue \in [Replicas -> SUBSET Pods]
    /\ timer \in [Replicas -> [Pods -> Ages]]
    /\ pc \in [Replicas -> Steps]
    /\ req \in [Replicas -> Pods \cup {Absent}]
    /\ snap \in [Replicas -> PodObject \cup {Absent}]
    /\ cur \in [Replicas -> Diagnosis \cup {Absent}]
    /\ fresh \in [Replicas -> BOOLEAN]
    /\ attempt \in [Replicas -> 0 .. MaxAttempts - 1]
    /\ logs \in [Replicas -> Nat]
    /\ ts \in [Replicas -> Ages]
    /\ clock \in 0 .. TicksPerSecond - 1
    /\ sinceCall \in [Names -> Ages]
    /\ faults \in 0 .. MaxFaults

NewPod(version) == [uid |-> version, rv |-> version, ft |-> Healthy, fp |-> Absent]

Init ==
    /\ pod = [p \in Pods |-> NewPod(0)]
    /\ cd = [n \in Names |-> Absent]
    /\ rv = 0
    /\ podView = [r \in Replicas |-> pod]
    /\ cdView = [r \in Replicas |-> cd]
    /\ queue = [r \in Replicas |-> {}]
    /\ timer = [r \in Replicas |-> [p \in Pods |-> 0]]
    /\ pc = [r \in Replicas |-> "idle"]
    /\ req = [r \in Replicas |-> Absent]
    /\ snap = [r \in Replicas |-> Absent]
    /\ cur = [r \in Replicas |-> Absent]
    /\ fresh = [r \in Replicas |-> FALSE]
    /\ attempt = [r \in Replicas |-> 0]
    /\ logs = [r \in Replicas |-> 0]
    /\ ts = [r \in Replicas |-> 0]
    /\ clock = 0
    /\ sinceCall = [n \in Names |-> MinBetween]
    /\ faults = MaxFaults

---------------------------------------------------------------------------
(* Pods, their owner-reference garbage collection, and an operator's      *)
(* diagctl delete: what happens on the API server around the controller.  *)

Failing(o) == o # Absent /\ o.ft # Healthy

PodWrite(p, o) ==
    /\ rv < MaxPodWrites
    /\ rv' = rv + 1
    /\ pod' = [pod EXCEPT ![p] = o]
    /\ UNCHANGED <<cd, views, work, job, patch, pending, meter, faults>>

PodFails(p) ==
    /\ pod[p] # Absent
    /\ \E f \in FailureTypes, x \in Fingerprints:
         PodWrite(p, [pod[p] EXCEPT !.rv = rv + 1, !.ft = f, !.fp = x])

PodRecovers(p) ==
    /\ Failing(pod[p])
    /\ PodWrite(p, [pod[p] EXCEPT !.rv = rv + 1, !.ft = Healthy, !.fp = Absent])

PodDeleted(p) ==
    /\ "replace" \in Faults
    /\ pod[p] # Absent
    /\ PodWrite(p, Absent)

PodRecreated(p) ==
    /\ pod[p] = Absent
    /\ PodWrite(p, NewPod(rv + 1))

\* The diagnosis that reconciling p as snapshotted by r is about.
Works(r, n) == pc[r] # "idle" /\ Name[<<req[r], snap[r].ft>>] = n

\* A stored write gives the object a new resourceVersion, which every reader
\* of the old one finds out at its own update.
StoreDiagnosis(n, o) ==
    /\ cd' = [cd EXCEPT ![n] = o]
    /\ fresh' = [r \in Replicas |-> fresh[r] /\ ~Works(r, n)]

Removed(n) ==
    /\ cd[n] # Absent
    /\ StoreDiagnosis(n, Absent)
    /\ sinceCall' = [sinceCall EXCEPT ![n] = MinBetween]
    /\ UNCHANGED <<pod, rv, views, work, job, cur, attempt, pending, clock>>

OwnerAlive(o) == pod[o.target] # Absent /\ pod[o.target].uid = o.owner

CollectGarbage(n) ==
    /\ cd[n] # Absent
    /\ ~OwnerAlive(cd[n])
    /\ Removed(n)
    /\ UNCHANGED faults

Spend(kind) ==
    /\ kind \in Faults
    /\ faults > 0
    /\ faults' = faults - 1

DeleteDiagnosis(n) == Spend("delete") /\ Removed(n)

---------------------------------------------------------------------------
(* Informers and work queue.                                               *)

Enqueue(r, S) == queue' = [queue EXCEPT ![r] = @ \cup S]

\* failurePredicate drops the events of pods that do not classify; a delete
\* event carries the last state the informer knew.
SyncPod(r, p) ==
    /\ podView[r][p] # pod[p]
    /\ podView' = [podView EXCEPT ![r][p] = pod[p]]
    /\ Enqueue(r, {q \in {p}: \/ Failing(pod[p])
                              \/ pod[p] = Absent /\ Failing(podView[r][p])})
    /\ UNCHANGED <<store, cdView, timer, job, patch, pending, meter, faults>>

\* ClusterDiagnoses are cached but not watched: no event reaches the queue.
SyncDiagnosis(r, n) ==
    /\ cdView[r][n] # cd[n]
    /\ cdView' = [cdView EXCEPT ![r][n] = cd[n]]
    /\ UNCHANGED <<store, podView, work, job, patch, pending, meter, faults>>

FailingPods(view) == {p \in Pods: Failing(view[p])}

\* Periodic resync, or a pod update that leaves the fingerprint alone.
Resync(r) ==
    /\ Enqueue(r, FailingPods(podView[r]))
    /\ UNCHANGED <<store, views, timer, job, patch, pending, meter, faults>>

Older(age) == IF age < MinBetween THEN age + 1 ELSE age
Aged(o) == IF o = Absent THEN Absent ELSE [o EXCEPT !.ann = Older(@)]

Tick ==
    /\ clock' = (clock + 1) % TicksPerSecond
    /\ cd' = [n \in Names |-> Aged(cd[n])]
    /\ cdView' = [r \in Replicas |-> [n \in Names |-> Aged(cdView[r][n])]]
    /\ cur' = [r \in Replicas |-> Aged(cur[r])]
    /\ ts' = [r \in Replicas |-> IF pc[r] = "meta" THEN Older(ts[r]) ELSE ts[r]]
    /\ sinceCall' = [n \in Names |-> Older(sinceCall[n])]
    /\ timer' = [r \in Replicas |-> [p \in Pods |->
                    IF timer[r][p] > 0 THEN timer[r][p] - 1 ELSE 0]]
    /\ queue' = [r \in Replicas |-> queue[r] \cup {p \in Pods: timer[r][p] = 1}]
    /\ UNCHANGED <<pod, rv, podView, job, fresh, attempt, logs, faults>>

---------------------------------------------------------------------------
(* The reconcile worker.                                                   *)

Goto(r, step) == pc' = [pc EXCEPT ![r] = step]

Finish(r) ==
    /\ Goto(r, "idle")
    /\ req' = [req EXCEPT ![r] = Absent]
    /\ snap' = [snap EXCEPT ![r] = Absent]
    /\ cur' = [cur EXCEPT ![r] = Absent]
    /\ attempt' = [attempt EXCEPT ![r] = 0]
    /\ logs' = [logs EXCEPT ![r] = 0]
    /\ ts' = [ts EXCEPT ![r] = 0]

NameOf(r) == Name[<<req[r], snap[r].ft>>]

\* Mutant: sometimes the pod is read from the API server, sometimes from the cache.
StartFromEither(r, p) ==
    /\ pc[r] = "idle"
    /\ p \in queue[r]
    /\ queue' = [queue EXCEPT ![r] = @ \ {p}]
    /\ \E o \in {pod[p], podView[r][p]}:
         IF Failing(o)
           THEN /\ Goto(r, "get")
                /\ req' = [req EXCEPT ![r] = p]
                /\ snap' = [snap EXCEPT ![r] = o]
           ELSE UNCHANGED job
    /\ UNCHANGED <<store, views, timer, patch, pending, meter, faults>>

\* A pod that is gone or no longer classifies needs nothing.
StartReconcile(r, p) ==
    /\ pc[r] = "idle"
    /\ p \in queue[r]
    /\ queue' = [queue EXCEPT ![r] = @ \ {p}]
    /\ IF Failing(podView[r][p])
         THEN /\ Goto(r, "get")
              /\ req' = [req EXCEPT ![r] = p]
              /\ snap' = [snap EXCEPT ![r] = podView[r][p]]
         ELSE UNCHANGED job
    /\ UNCHANGED <<store, views, timer, patch, pending, meter, faults>>

\* Mutant: any finished diagnosis will do.
DiagnosedOnce(o, x) == o.phase = "Ready"

Diagnosed(o, x) == o.phase = "Ready" /\ o.fp = x

\* What the worker does with the object it found: skip, wait, or analyse.
Skip(r, o) ==
    /\ Diagnosed(o, snap[r].fp)
    /\ Finish(r)
    /\ UNCHANGED timer

Sooner(s, t) == IF s > 0 /\ s < t THEN s ELSE t

Postpone(r, o) ==
    /\ ~Diagnosed(o, snap[r].fp)
    /\ o.ann < MinBetween
    /\ timer' = [timer EXCEPT ![r][req[r]] = Sooner(@, MinBetween - o.ann)]
    /\ Finish(r)

\* Mutant: the rate limit lets go one tick early.
AnalyseEarly(r, o) ==
    /\ ~Diagnosed(o, snap[r].fp)
    /\ o.ann >= MinBetween - 1
    /\ Goto(r, "analyzing")
    /\ UNCHANGED <<timer, req, snap, cur, attempt, pending>>

Analyse(r, o) ==
    /\ ~Diagnosed(o, snap[r].fp)
    /\ o.ann = MinBetween
    /\ Goto(r, "analyzing")
    /\ UNCHANGED <<timer, req, snap, cur, attempt, pending>>

Decide(r, o) == Skip(r, o) \/ Postpone(r, o) \/ Analyse(r, o)

\* The read goes to the informer cache.  That the cache is still behind counts
\* as a fault: watches are quick, so it can only happen so often.
GetDiagnosis(r) ==
    LET o == cdView[r][NameOf(r)] IN
    /\ pc[r] = "get"
    /\ \/ o = cd[NameOf(r)] /\ UNCHANGED faults
       \/ o # cd[NameOf(r)] /\ Spend("lag")
    /\ \/ o = Absent /\ Goto(r, "create")
          /\ UNCHANGED <<timer, req, snap, cur, attempt, pending>>
       \/ o # Absent /\ Decide(r, o)
    /\ UNCHANGED <<store, views, queue, fresh, meter>>

NewDiagnosis(r) ==
    [target |-> req[r], ft |-> snap[r].ft, owner |-> snap[r].uid, phase |-> "",
     fp |-> Absent, diag |-> Absent, ann |-> MinBetween]

CreateDiagnosis(r) ==
    /\ pc[r] = "create"
    /\ \/ /\ cd[NameOf(r)] = Absent
          /\ StoreDiagnosis(NameOf(r), NewDiagnosis(r))
          /\ Goto(r, "reread")
       \/ /\ cd[NameOf(r)] # Absent
          /\ Goto(r, "getExisting")
          /\ UNCHANGED <<cd, fresh>>
    /\ UNCHANGED <<pod, rv, views, work, req, snap, cur, attempt, pending, meter, faults>>

\* An error returned by reconcileInner puts the request back with backoff.
ReturnError(r) ==
    /\ Finish(r)
    /\ Enqueue(r, {req[r]})
    /\ UNCHANGED timer

\* Uncached reads after Create.
Reread(r) ==
    LET o == cd[NameOf(r)] IN
    /\ \/ /\ pc[r] \in {"getExisting", "reread"}
          /\ o = Absent
          /\ ReturnError(r)
       \/ /\ pc[r] = "getExisting"
          /\ o # Absent
          /\ Goto(r, "reread")
          /\ UNCHANGED <<work, req, snap, cur, attempt, pending>>
       \/ /\ pc[r] = "reread"
          /\ o # Absent
          /\ Decide(r, o)
          /\ UNCHANGED queue
    /\ UNCHANGED <<store, views, fresh, meter, faults>>

---------------------------------------------------------------------------
(* patchDiagnosisStatus and patchDiagnosisMeta: read, mutate, update, and  *)
(* start over on a conflict or a timeout.                                  *)

PatchGet(r) ==
    LET o == cd[NameOf(r)] IN
    /\ pc[r] \in PatchSteps
    /\ cur[r] = Absent
    /\ \/ /\ o = Absent
          /\ ReturnError(r)
          /\ UNCHANGED fresh
       \/ /\ o # Absent
          /\ cur' = [cur EXCEPT ![r] = o]
          /\ fresh' = [fresh EXCEPT ![r] = TRUE]
          /\ UNCHANGED <<work, job, attempt, pending>>
    /\ UNCHANGED <<store, views, meter, faults>>

\* Mutants: the fingerprint, or the failure class, is taken from the pod as it is
\* when the answer has come.
Latest(r) == IF Failing(podView[r][req[r]]) THEN podView[r][req[r]] ELSE snap[r]
AnswerRefingerprinted(r) ==
    [pod |-> req[r], ft |-> snap[r].ft, obs |-> Latest(r).rv, logs |-> logs[r]]
AnswerReclassified(r) ==
    [pod |-> req[r], ft |-> Latest(r).ft, obs |-> snap[r].rv, logs |-> logs[r]]

\* The answer the worker has for the pod it snapshotted.
Answer(r) == [pod |-> req[r], ft |-> snap[r].ft, obs |-> snap[r].rv, logs |-> logs[r]]

\* The mutate closures.
Mutated(r) ==
    CASE pc[r] = "analyzing" -> [cur[r] EXCEPT !.phase = "Analyzing"]
      [] pc[r] = "ready" -> [cur[r] EXCEPT !.phase = "Ready", !.fp = snap[r].fp,
                                    !.diag = Answer(r)]
      [] pc[r] = "error" -> [cur[r] EXCEPT !.phase = "Error"]
      [] pc[r] = "meta" -> [cur[r] EXCEPT !.ann = ts[r]]

\* The status subresource takes the status of the object sent, a plain update
\* the rest of it.
Updated(r) ==
    IF pc[r] = "meta"
      THEN [cd[NameOf(r)] EXCEPT !.ann = Mutated(r).ann]
      ELSE [Mutated(r) EXCEPT !.ann = cd[NameOf(r)].ann]

\* Mutant: the resourceVersion is not compared.
CommitBlindly(r) == StoreDiagnosis(NameOf(r), Updated(r))

Commit(r) == fresh[r] /\ StoreDiagnosis(NameOf(r), Updated(r))

NotStored(r) == fresh' = [fresh EXCEPT ![r] = FALSE] /\ UNCHANGED cd

EndLoop(r, step) ==
    /\ Goto(r, step)
    /\ cur' = [cur EXCEPT ![r] = Absent]
    /\ attempt' = [attempt EXCEPT ![r] = 0]
    /\ UNCHANGED <<work, req, snap, logs>>

\* Mutant: fail() swallows the error it was called with.
PatchDoneQuietly(r) ==
    \/ pc[r] = "analyzing" /\ EndLoop(r, "gather") /\ UNCHANGED ts
    \/ pc[r] = "ready" /\ EndLoop(r, "meta") /\ ts' = [ts EXCEPT ![r] = clock]
    \/ pc[r] \in {"meta", "error"} /\ Finish(r) /\ UNCHANGED work

\* The update succeeded.  fail() returns the error it was called with.
PatchDone(r) ==
    \/ pc[r] = "analyzing" /\ EndLoop(r, "gather") /\ UNCHANGED ts
    \/ pc[r] = "ready" /\ EndLoop(r, "meta") /\ ts' = [ts EXCEPT ![r] = clock]
    \/ pc[r] = "meta" /\ Finish(r) /\ UNCHANGED work
    \/ pc[r] = "error" /\ ReturnError(r)

\* Mutant: one attempt too many.
TryOnceMore(r) ==
    \/ /\ attempt[r] + 1 <= MaxAttempts
       /\ attempt' = [attempt EXCEPT ![r] = @ + 1]
       /\ cur' = [cur EXCEPT ![r] = Absent]
       /\ UNCHANGED <<work, job, pending>>
    \/ /\ attempt[r] = MaxAttempts
       /\ ReturnError(r)

\* A conflict or a timeout is tried again, up to MaxAttempts times.
TryAgain(r) ==
    \/ /\ attempt[r] + 1 < MaxAttempts
       /\ attempt' = [attempt EXCEPT ![r] = @ + 1]
       /\ cur' = [cur EXCEPT ![r] = Absent]
       /\ UNCHANGED <<work, job, pending>>
    \/ /\ attempt[r] + 1 = MaxAttempts
       /\ ReturnError(r)

PatchUpdate(r) ==
    /\ pc[r] \in PatchSteps
    /\ cur[r] # Absent
    /\ \/ Commit(r) /\ PatchDone(r)
       \/ ~fresh[r] /\ NotStored(r) /\ cd[NameOf(r)] = Absent /\ ReturnError(r)
       \/ ~fresh[r] /\ NotStored(r) /\ cd[NameOf(r)] # Absent /\ TryAgain(r)
    /\ UNCHANGED <<pod, rv, views, meter, faults>>

---------------------------------------------------------------------------
(* collect.Gather and llm.Provider.Diagnose.                               *)

\* Logs are those of the pod as it is now, not of the snapshot.
Gather(r) ==
    /\ pc[r] = "gather"
    /\ logs' = [logs EXCEPT ![r] = rv]
    /\ Goto(r, "llm")
    /\ UNCHANGED <<store, views, work, req, snap, patch, ts, meter, faults>>

CallLLM(r) ==
    /\ pc[r] = "llm"
    /\ Goto(r, "answer")
    /\ sinceCall' = [sinceCall EXCEPT ![NameOf(r)] = 0]
    /\ UNCHANGED <<store, views, work, req, snap, patch, pending, clock, faults>>

LLMAnswers(r) ==
    /\ pc[r] = "answer"
    /\ Goto(r, "ready")
    /\ UNCHANGED <<store, views, work, req, snap, patch, pending, meter, faults>>

---------------------------------------------------------------------------
(* Failing calls and crashes.                                              *)

\* Gather or Diagnose returned an error: fail() records it.
AnalysisFails(r) ==
    /\ \/ pc[r] = "gather" /\ Spend("gather")
       \/ pc[r] = "answer" /\ Spend("llm")
    /\ Goto(r, "error")
    /\ logs' = [logs EXCEPT ![r] = 0]
    /\ UNCHANGED <<store, views, work, req, snap, patch, ts, meter>>

\* A read of a ClusterDiagnosis failed for another reason than NotFound.
ReadFails(r) ==
    /\ Spend("read")
    /\ \/ pc[r] \in {"get", "getExisting", "reread"}
       \/ pc[r] \in PatchSteps /\ cur[r] = Absent
    /\ ReturnError(r)
    /\ UNCHANGED <<store, views, fresh, meter>>

\* An update was answered by a timeout or another error; it may have been
\* stored all the same.
UpdateFails(r) ==
    /\ Spend("write")
    /\ pc[r] \in PatchSteps
    /\ cur[r] # Absent
    /\ Commit(r) \/ NotStored(r)
    /\ TryAgain(r) \/ ReturnError(r)
    /\ UNCHANGED <<pod, rv, views, meter>>

CreateFails(r) ==
    /\ Spend("write")
    /\ pc[r] = "create"
    /\ cd[NameOf(r)] = Absent
    /\ StoreDiagnosis(NameOf(r), NewDiagnosis(r)) \/ UNCHANGED <<cd, fresh>>
    /\ ReturnError(r)
    /\ UNCHANGED <<pod, rv, views, meter>>

\* The process dies and is started again: caches are listed anew, and every
\* failing pod is an event.
Restart(r) ==
    /\ Spend("crash")
    /\ podView' = [podView EXCEPT ![r] = pod]
    /\ cdView' = [cdView EXCEPT ![r] = cd]
    /\ queue' = [queue EXCEPT ![r] = FailingPods(pod)]
    /\ timer' = [timer EXCEPT ![r] = [p \in Pods |-> 0]]
    /\ Finish(r)
    /\ fresh' = [fresh EXCEPT ![r] = FALSE]
    /\ UNCHANGED <<store, meter>>

---------------------------------------------------------------------------
Worker(r) ==
    \/ GetDiagnosis(r)
    \/ CreateDiagnosis(r)
    \/ Reread(r)
    \/ PatchGet(r)
    \/ PatchUpdate(r)
    \/ Gather(r)
    \/ CallLLM(r)
    \/ LLMAnswers(r)

Trouble(r) ==
    \/ AnalysisFails(r)
    \/ ReadFails(r)
    \/ UpdateFails(r)
    \/ CreateFails(r)
    \/ Restart(r)

Cluster ==
    \/ \E p \in Pods: PodFails(p) \/ PodRecovers(p) \/ PodDeleted(p) \/ PodRecreated(p)
    \/ \E n \in Names: CollectGarbage(n) \/ DeleteDiagnosis(n)

Informers(r) ==
    \/ \E p \in Pods: SyncPod(r, p)
    \/ \E n \in Names: SyncDiagnosis(r, n)
    \/ Resync(r)

Next ==
    \/ Cluster
    \/ Tick
    \/ \E r \in Replicas:
         \/ Informers(r)
         \/ \E p \in Pods: StartReconcile(r, p)
         \/ Worker(r)
         \/ Trouble(r)

Spec == Init /\ [][Next]_vars

\* API calls and the LLM answer, watches deliver, time passes, garbage is
\* collected, resyncs recur, and the FIFO queue starves no request.
Fairness ==
    /\ WF_vars(Tick)
    /\ \A n \in Names: WF_vars(CollectGarbage(n))
    /\ \A r \in Replicas:
         /\ WF_vars(Worker(r))
         /\ WF_vars(Resync(r))
         /\ \A p \in Pods: WF_vars(SyncPod(r, p)) /\ SF_vars(StartReconcile(r, p))
         /\ \A n \in Names: WF_vars(SyncDiagnosis(r, n))

FairSpec == Spec /\ Fairness

---------------------------------------------------------------------------
(* Properties.                                                             *)

ASSUME NamesInjective ==
    \A k, l \in Pods \X FailureTypes: Name[k] = Name[l] => k = l

\* A ClusterDiagnosis is about the pod and failure class its spec names, and so
\* is the analysis in its status: no reconcile, whatever it read and however
\* long it took, fills in the object of another pod or another failure class
\* (key and Create in reconcileInner, patchDiagnosisStatus).
AboutItsTarget ==
    \A n \in Names: cd[n] # Absent =>
        /\ Name[<<cd[n].target, cd[n].ft>>] = n
        /\ cd[n].diag # Absent =>
             cd[n].diag.pod = cd[n].target /\ cd[n].diag.ft = cd[n].ft

\* The analysis behind a recorded fingerprint used logs at least as recent as
\* the pod state with that fingerprint, so a pod is never skipped on account of
\* an analysis that could not have seen its failure (fp is computed before
\* Gather reads the logs).
EvidenceCoversFingerprint ==
    \A n \in Names: cd[n] # Absent /\ cd[n].diag # Absent =>
        cd[n].diag.obs <= cd[n].diag.logs

\* The stored diagnosis of a pod is up to date.
UpToDate(p) ==
    LET o == cd[Name[<<p, pod[p].ft>>]] IN
    o # Absent /\ o.phase = "Ready" /\ o.fp = pod[p].fp

\* Replica r still has to look at pod p, or is looking at it and has not yet
\* stored its answer.
Pending(r, p) ==
    \/ podView[r][p] # pod[p]
    \/ p \in queue[r]
    \/ timer[r][p] > 0
    \/ req[r] = p /\ pc[r] \notin {"idle", "meta"}

\* No failing pod is forgotten: while its diagnosis is missing, unfinished or
\* about another state, some replica has an event, a queued request, a delayed
\* request or a running reconcile for it (early returns, RequeueAfter and error
\* returns of reconcileInner, over every interleaving with pod changes).
NoLostWork ==
    \A p \in Pods: Failing(pod[p]) /\ ~UpToDate(p) => \E r \in Replicas: Pending(r, p)

\* The analysis in a status changes only by the patch that carries a new
\* answer: the read-modify-write of Analyzing, Error and of the annotation by a
\* slower replica never brings an older analysis back.
NoLostUpdate ==
    [][\A n \in Names: cd[n] # Absent /\ cd'[n] # Absent /\ cd[n].diag # cd'[n].diag =>
         \E r \in Replicas: /\ pc[r] = "ready"
                            /\ NameOf(r) = n
                            /\ cd'[n].diag.obs = snap[r].rv
                            /\ cd'[n].diag.logs = logs[r]]_vars

\* What a reader of the ClusterDiagnoses sees.
Shown(o) == IF o = Absent THEN Absent ELSE [phase |-> o.phase, diag |-> o.diag]
Statuses == [n \in Names |-> Shown(cd[n])]

Lifecycle == INSTANCE DiagnosisLifecycle WITH
    status <- Statuses,
    Subjects <- [n \in Names |-> {k \in Pods \X FailureTypes: Name[k] = n}],
    Revisions <- 0 .. MaxPodWrites

\* With one replica, or one leader at a time, every status follows the lifecycle: Ready and Error only
\* after Analyzing, and the pod state a status is about only moves forward, so
\* neither a restart, a stale cache, a repeated update nor a deleted object makes
\* a diagnosis fall back to an older state.
ImplementsLifecycle == Lifecycle!Spec

\* docs/troubleshooting.md on a diagnosis stuck in Analyzing: it is only a
\* matter of waiting.
AnalyzingEnds ==
    \A n \in Names: (cd[n] # Absent /\ cd[n].phase = "Analyzing")
                      ~> (cd[n] = Absent \/ cd[n].phase # "Analyzing")

=============================================================================
