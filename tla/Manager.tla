------------------------------ MODULE Manager ------------------------------
(***************************************************************************)
(* cmd/manager: the processes around the controller of PodReconciler.  A   *)
(* process that was started stands by; with --leader-elect it reconciles   *)
(* only while it holds the lease, and exits when it cannot renew it in     *)
(* time.  What it kept in memory is gone then, and its successor lists     *)
(* pods and diagnoses anew.                                                *)
(***************************************************************************)
EXTENDS PodReconciler

CONSTANTS
    LeaderElect,    \* --leader-elect
    LeasesAllowed,  \* the service account may write leases
    LeaseDuration,  \* ticks after which an old lease may be taken
    RenewDeadline   \* ticks after which a leader gives up

ASSUME ElectionAssumption ==
    /\ LeaderElect \in BOOLEAN
    /\ LeasesAllowed \in BOOLEAN
    /\ LeaseDuration \in Nat
    /\ RenewDeadline \in Nat \ {0}
    /\ RenewDeadline < LeaseDuration
    /\ Absent \notin Replicas

VARIABLES
    process,   \* what the process of each replica does
    holder,    \* who wrote the lease last
    leaseAge,  \* how long ago, up to LeaseDuration
    stamped    \* history: the last LLM call for a name is in its annotation

election == <<process, holder, leaseAge>>
managerVars == <<vars, election, stamped>>

ManagerTypeOK ==
    /\ TypeOK
    /\ process \in [Replicas -> {"down", "standby", "running"}]
    /\ holder \in Replicas \cup {Absent}
    /\ leaseAge \in 0 .. LeaseDuration
    /\ stamped \in [Names -> BOOLEAN]

ManagerInit ==
    /\ Init
    /\ process = [r \in Replicas |-> "down"]
    /\ holder = Absent
    /\ leaseAge = LeaseDuration
    /\ stamped = [n \in Names |-> TRUE]

---------------------------------------------------------------------------
Running(r) == process[r] = "running"

Becomes(r, what) == process' = [process EXCEPT ![r] = what]

StartProcess(r) ==
    /\ process[r] = "down"
    /\ Becomes(r, "standby")
    /\ UNCHANGED <<vars, holder, leaseAge, stamped>>

\* Caches are listed, and every failing pod is an event.
ListAnew(r) ==
    /\ podView' = [podView EXCEPT ![r] = pod]
    /\ cdView' = [cdView EXCEPT ![r] = cd]
    /\ queue' = [queue EXCEPT ![r] = FailingPods(pod)]
    /\ UNCHANGED <<store, timer, job, patch, pending, meter, faults>>

\* Mutant: the manager is not told of --leader-elect.
ElectedAtOnce(r) == UNCHANGED <<holder, leaseAge>>

\* Without --leader-elect everybody is elected at once, and there is no lease.
Elected(r) ==
    /\ LeaderElect => LeasesAllowed /\ leaseAge = LeaseDuration
    /\ holder' = IF LeaderElect THEN r ELSE holder
    /\ leaseAge' = IF LeaderElect THEN 0 ELSE leaseAge

Begin(r) ==
    /\ process[r] = "standby"
    /\ Elected(r)
    /\ ListAnew(r)
    /\ Becomes(r, "running")
    /\ UNCHANGED stamped

\* A goroutine of its own renews, whatever the worker is waiting for.
Renew(r) ==
    /\ Running(r)
    /\ holder = r
    /\ leaseAge > 0
    /\ leaseAge' = 0
    /\ UNCHANGED <<vars, process, holder, stamped>>

\* The process ends, and with it queue, caches and the reconcile under way.
Exit(r) ==
    /\ Becomes(r, "down")
    /\ podView' = [podView EXCEPT ![r] = [p \in Pods |-> Absent]]
    /\ cdView' = [cdView EXCEPT ![r] = [n \in Names |-> Absent]]
    /\ queue' = [queue EXCEPT ![r] = {}]
    /\ timer' = [timer EXCEPT ![r] = [p \in Pods |-> 0]]
    /\ Finish(r)
    /\ fresh' = [fresh EXCEPT ![r] = FALSE]
    /\ UNCHANGED <<store, meter, holder, leaseAge, stamped>>

Crash(r) ==
    /\ process[r] # "down"
    /\ Spend("crash")
    /\ Exit(r)

\* Mutant: the error of Start is logged, and the process goes on.
CarryOn(r) ==
    /\ Running(r)
    /\ holder = r
    /\ leaseAge = RenewDeadline
    /\ Spend("crash")
    /\ holder' = Absent
    /\ UNCHANGED <<store, views, work, job, patch, pending, meter, process, leaseAge, stamped>>

\* Start returns an error when the lease was not renewed in time.
LoseLease(r) ==
    /\ Running(r)
    /\ holder = r
    /\ leaseAge = RenewDeadline
    /\ Spend("crash")
    /\ Exit(r)

---------------------------------------------------------------------------
\* A call of the LLM is in the annotation once patchDiagnosisMeta stored it.
Stamp(r) ==
    stamped' = [n \in Names |->
        IF pc[r] = "llm" /\ pc'[r] = "answer" /\ n = NameOf(r) THEN FALSE
        ELSE stamped[n] \/ (pc[r] = "meta" /\ n = NameOf(r) /\ cd'[n] # cd[n])]

\* Whatever the controller of PodReconciler does, it does in a running process.
While(r, A) ==
    /\ Running(r)
    /\ A
    /\ Stamp(r)
    /\ UNCHANGED election

CallFails(r) == AnalysisFails(r) \/ ReadFails(r) \/ UpdateFails(r) \/ CreateFails(r)

Controller(r) ==
    \/ Informers(r)
    \/ \E p \in Pods: StartReconcile(r, p)
    \/ Worker(r)
    \/ CallFails(r)

\* A leader that has not renewed exits before the lease may be taken.
Time ==
    /\ \A r \in Replicas: Running(r) /\ holder = r => leaseAge < RenewDeadline
    /\ Tick
    /\ leaseAge' = IF leaseAge < LeaseDuration THEN leaseAge + 1 ELSE leaseAge
    /\ UNCHANGED <<process, holder, stamped>>

ManagerNext ==
    \/ Cluster /\ UNCHANGED <<election, stamped>>
    \/ Time
    \/ \E r \in Replicas:
         \/ StartProcess(r)
         \/ Begin(r)
         \/ Renew(r)
         \/ Crash(r)
         \/ LoseLease(r)
         \/ While(r, Controller(r))

ManagerSpec == ManagerInit /\ [][ManagerNext]_managerVars

\* Processes are restarted and stand for election, and a leader renews or
\* exits; its API calls return, watches deliver, resyncs recur and the FIFO queue
\* starves no request.  Nothing is assumed of the LLM: it may never answer.
ManagerFairness ==
    /\ WF_managerVars(Time)
    /\ \A n \in Names: WF_managerVars(CollectGarbage(n) /\ UNCHANGED <<election, stamped>>)
    /\ \A r \in Replicas:
         /\ WF_managerVars(StartProcess(r))
         /\ WF_managerVars(Begin(r))
         /\ WF_managerVars(Renew(r) \/ LoseLease(r))
         /\ WF_managerVars(While(r, pc[r] # "answer" /\ Worker(r)))
         /\ WF_managerVars(While(r, Resync(r)))
         /\ \A p \in Pods: /\ WF_managerVars(While(r, SyncPod(r, p)))
                           /\ SF_managerVars(While(r, StartReconcile(r, p)))
         /\ \A n \in Names: WF_managerVars(While(r, SyncDiagnosis(r, n)))

FairManagerSpec == ManagerSpec /\ ManagerFairness

---------------------------------------------------------------------------
(* Properties.                                                             *)

\* With leader election at most one process reconciles, and it has stopped before
\* another may take the lease.
OnlyTheHolderRuns ==
    LeaderElect => \A r \in Replicas:
        Running(r) => holder = r /\ leaseAge <= RenewDeadline

\* An LLM call comes minBetweenLLM, less the truncated part of a second, after
\* the call before it for the same diagnosis, or that call never got into the
\* annotation because a call failed or a process died in between.  Handing over to
\* another leader does not make two calls come closer together.
StampedCallsSpaced ==
    [][\A r \in Replicas: pc[r] = "llm" /\ pc'[r] = "answer" =>
         \/ ~stamped[NameOf(r)]
         \/ sinceCall[NameOf(r)] >= MinBetween - (TicksPerSecond - 1)]_managerVars

\* Once the cluster is quiet, failing pods have an up-to-date diagnosis that
\* stays, whichever processes died or lost the lease before, unless the provider
\* never answers: there is no timeout, and the blocked leader keeps its lease.
HealsUnlessBlocked ==
    \/ \A p \in Pods: <>[](Failing(pod[p]) => UpToDate(p))
    \/ \E r \in Replicas: <>[](pc[r] = "answer")

\* docs/operations.md: multiple replicas will each run the same watches and
\* reconcilers.
EveryReplicaReconciles == \A r \in Replicas: <>Running(r)

=============================================================================
