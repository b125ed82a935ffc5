----------------------------- MODULE PodStatus -----------------------------
(***************************************************************************)
(* The pods that internal/detect looks at: the status that scheduler and   *)
(* kubelet report over the life of one pod, as far as Classify and         *)
(* Fingerprint read it.                                                    *)
(***************************************************************************)
EXTENDS Detect

CONSTANTS
    InitNames,    \* init containers, in order
    AppNames,     \* app containers, in order
    Reasons,      \* what may keep a container from starting
    Messages,     \* messages of a waiting state
    Policies,     \* restart policies
    MaxRestarts   \* bound: restarts of a container

ASSUME ReasonsAssumption == Reasons \subseteq PullReasons \cup ErrorReasons

\* The API server admits no pod without an app container, nor one whose containers
\* share a name.
ASSUME NamesAssumption ==
    /\ InitNames \in Seq(STRING)
    /\ AppNames \in Seq(STRING) \ {<<>>}
    /\ \A i, j \in DOMAIN (InitNames \o AppNames):
         (InitNames \o AppNames)[i] = (InitNames \o AppNames)[j] => i = j

Exits == {[reason |-> "OOMKilled", code |-> "137"], [reason |-> "Error", code |-> "137"],
          [reason |-> "Completed", code |-> "0"]}
Waits == [reason: {"PodInitializing", "CrashLoopBackOff"} \cup Reasons,
          message: Messages]
Status == [name: ToSet(InitNames \o AppNames), wait: Waits \cup {None},
           exit: Exits \cup {None}, last: Exits \cup {None}, restarts: 0 .. MaxRestarts]

ASSUME StatusAssumption ==
    /\ Messages # {}
    /\ MaxRestarts \in Nat
    /\ None \notin Exits \cup Waits \cup ToSet(InitNames \o AppNames)
    /\ None \notin [ft: FailureTypes, container: ToSet(InitNames \o AppNames) \cup {None}]

VARIABLES
    policy,  \* restart policy
    sched,   \* reason of a PodScheduled condition that is False
    inits,   \* statuses of the init containers
    apps,    \* statuses of the app containers
    past     \* history: the fingerprints each container had before, but for
             \* those of an image or configuration error, which comes and goes

vars == <<policy, sched, inits, apps, past>>

Init ==
    /\ policy \in Policies
    /\ sched = ""
    /\ inits = <<>>
    /\ apps = <<>>
    /\ past = [c \in ToSet(InitNames \o AppNames) |-> {}]

---------------------------------------------------------------------------
NotScheduled == apps = <<>>
Completed(c) == c.exit # None /\ c.exit.code = "0"
Initialized == \A i \in DOMAIN inits: Completed(inits[i])

\* Pending until every container has been started once.
Phase ==
    IF \/ NotScheduled
       \/ ~Initialized /\ ~(policy = "Never" /\ \E i \in DOMAIN inits: inits[i].exit # None
                                                                 /\ ~Completed(inits[i]))
       \/ \E i \in DOMAIN apps: apps[i].wait # None /\ apps[i].last = None
    THEN "Pending" ELSE "Running"

\* What the controller sees.
pod == [phase |-> Phase, sched |-> sched, inits |-> inits, apps |-> apps]

\* The statuses that container c may have next.
MayRestart(c) == policy = "Always" /\ c.exit # None
LastExit(c) == IF c.exit # None THEN c.exit ELSE c.last

Start(c) ==
    {[c EXCEPT !.wait = None, !.exit = None, !.last = LastExit(c), !.restarts = n]:
       n \in {m \in 0 .. MaxRestarts: m = IF LastExit(c) = None THEN 0 ELSE c.restarts + 1}}

Wait(c, reasons) ==
    {[c EXCEPT !.wait = w, !.exit = None, !.last = LastExit(c)]:
       w \in {v \in Waits: v.reason \in reasons}}

Steps(c) ==
    IF c.wait # None THEN Start(c) \cup Wait(c, Reasons)
    ELSE IF c.exit = None THEN {[c EXCEPT !.exit = e]: e \in Exits}
    ELSE IF MayRestart(c)
      THEN Start(c) \cup Wait(c, Reasons \cup {"CrashLoopBackOff"})
    ELSE {}

Remember(c, d) ==
    past' = [past EXCEPT ![c.name] =
               IF WaitsFor(c, Reasons) \/ ContainerFingerprint(c) = ContainerFingerprint(d)
               THEN @
               ELSE @ \cup {ContainerFingerprint(c)}]

Created(names) ==
    [i \in DOMAIN names |->
       [name |-> names[i], restarts |-> 0, exit |-> None, last |-> None,
        wait |-> [reason |-> "PodInitializing", message |-> CHOOSE m \in Messages: TRUE]]]

---------------------------------------------------------------------------
Unschedulable ==
    /\ NotScheduled
    /\ sched' \in {"Unschedulable", "FailedScheduling", "SchedulingGated"}
    /\ UNCHANGED <<policy, inits, apps, past>>

Scheduled ==
    /\ NotScheduled
    /\ sched' = ""
    /\ inits' = Created(InitNames)
    /\ apps' = Created(AppNames)
    /\ UNCHANGED <<policy, past>>

\* Init containers run one after the other, and not again once they completed.
InitStep(i) ==
    /\ \A j \in 1 .. i - 1: Completed(inits[j])
    /\ ~Completed(inits[i])
    /\ \E c \in Steps(inits[i]):
         /\ inits' = [inits EXCEPT ![i] = c]
         /\ Remember(inits[i], c)
    /\ UNCHANGED <<policy, sched, apps>>

AppStep(i) ==
    /\ Initialized
    /\ \E c \in Steps(apps[i]):
         /\ apps' = [apps EXCEPT ![i] = c]
         /\ Remember(apps[i], c)
    /\ UNCHANGED <<policy, sched, inits>>

Next ==
    \/ Unschedulable
    \/ Scheduled
    \/ \E i \in DOMAIN inits: InitStep(i)
    \/ \E i \in DOMAIN apps: AppStep(i)

Spec == Init /\ [][Next]_vars

---------------------------------------------------------------------------
Class == Classify(pod)

\* Every answer of Classify is a failure class and a container of the pod.
TypeOK ==
    /\ policy \in Policies
    /\ sched \in {"", "Unschedulable", "FailedScheduling", "SchedulingGated"}
    /\ inits \in Seq(Status)
    /\ apps \in Seq(Status)
    /\ DOMAIN past = ToSet(InitNames \o AppNames)
    /\ Class \in {None} \cup [ft: FailureTypes,
                              container: ToSet(InitNames \o AppNames) \cup {None}]

\* The init-container branch of classifyPendingScheduling is never taken: every
\* configuration error of an init container is an InitContainerError, so that a
\* PendingScheduling diagnosis names no init container.
PendingNamesNoInit ==
    Class # None /\ Class.ft = "PendingScheduling" =>
        Class.container \notin ToSet(InitNames)

\* A pod is not left undiagnosed while it cannot be scheduled, an init container
\* has failed, or a container backs off or cannot pull its image.
FailuresNoticed ==
    \/ NotScheduled /\ sched \in {"Unschedulable", "FailedScheduling"}
    \/ \E i \in DOMAIN inits: ~Completed(inits[i]) /\ inits[i].exit # None
    \/ \E c \in ToSet(inits \o apps): c.wait # None /\ c.wait.reason \in
         {"CrashLoopBackOff", "ErrImagePull", "ImagePullBackOff"}
    => Class # None

\* A pod whose containers run, or completed their initialization, is not taken
\* for failing unless one of them was OOM-killed when it last terminated.
NoFalseAlarm ==
    /\ apps # <<>>
    /\ Initialized
    /\ \A i \in DOMAIN apps: apps[i].wait = None
    /\ \A c \in ToSet(inits \o apps): c.last # None => c.last.reason # "OOMKilled"
    => Class = None

\* A fingerprint that a container once left does not come back, through any
\* number of restarts, so a new failure is never mistaken for one already
\* diagnosed; image and configuration errors, which repeat themselves, aside.
FingerprintNeverRecurs ==
    \A c \in ToSet(inits \o apps): ContainerFingerprint(c) \notin past[c.name]

\* diagctl explain on OOMKilled: "process terminated due to memory limit" is one
\* of the failure classes the operator detects.  A pod with an app container that
\* was killed for good is diagnosed.
OOMKilledForGood ==
    policy = "Never" =>
        \A i \in DOMAIN apps: apps[i].exit # None /\ apps[i].exit.reason = "OOMKilled" =>
            Class # None /\ Class.ft = "OOMKilled"

=============================================================================
