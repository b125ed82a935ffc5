------------------------------- MODULE Detect -------------------------------
(***************************************************************************)
(* internal/detect: the failure class of a pod, and the fingerprint that   *)
(* says whether the failing container is still in the state that was       *)
(* diagnosed.  A pod is what its status says: the phase, the reason of a   *)
(* PodScheduled condition that is False ("" when there is none), and the   *)
(* statuses of its init and app containers, in list order.                 *)
(***************************************************************************)
EXTENDS Integers, Sequences, SequencesExt

CONSTANT None  \* a state, message or answer that is not there

PullReasons == {"ErrImagePull", "ImagePullBackOff"}

\* Reasons that contain "Error".
ErrorReasons == {"CreateContainerConfigError", "CreateContainerError", "RunContainerError"}

\* The failure classes an answer may name.
FailureTypes == {"CrashLoopBackOff", "OOMKilled", "ImagePullBackOff",
                 "InitContainerError", "PendingScheduling"}

WaitsFor(c, reasons) == c.wait # None /\ c.wait.reason \in reasons

\* Mutant: only the reasons that app containers are looked at for.
InitStuck(c) ==
    \/ c.exit # None /\ c.exit.code # "0"
    \/ WaitsFor(c, PullReasons \cup {"CrashLoopBackOff"})

InitContainerFailure(c) ==
    \/ c.exit # None /\ c.exit.code # "0"
    \/ WaitsFor(c, ErrorReasons \cup PullReasons \cup {"InvalidImageName", "CrashLoopBackOff"})

ConfigError(c) == WaitsFor(c, {"CreateContainerConfigError"})

\* Mutant: whatever ends with SIGKILL was short of memory.
Killed(c) == c.last # None /\ c.last.code = "137"

OOMKilled(c) == c.last # None /\ c.last.reason = "OOMKilled"

\* Mutant: a container that backs off is left to the next one in the list.
PullError(c) == WaitsFor(c, PullReasons)

Stuck(c) == WaitsFor(c, PullReasons \cup {"CrashLoopBackOff"})

\* Mutant: the reason is the class.
StuckAsReported(c) == c.wait.reason

StuckAs(c) == IF WaitsFor(c, PullReasons) THEN "ImagePullBackOff" ELSE "CrashLoopBackOff"

\* The answer about the first container of s that fails, if there is one.
FirstOf(s, Fails(_), As(_)) ==
    LET i == SelectInSeq(s, Fails) IN
    IF i = 0 THEN <<>> ELSE <<[ft |-> As(s[i]), container |-> s[i].name]>>

PendingScheduling(p) ==
    LET AsPending(c) == "PendingScheduling" IN
    IF p.phase # "Pending" THEN <<>>
    ELSE IF p.sched \in {"FailedScheduling", "Unschedulable"}
      THEN <<[ft |-> "PendingScheduling", container |-> None]>>
    ELSE FirstOf(p.inits, ConfigError, AsPending) \o FirstOf(p.apps, ConfigError, AsPending)

\* What Classify would answer, in order of preference.
Candidates(p) ==
    LET AsOOM(c) == "OOMKilled"
        AsInit(c) == "InitContainerError"
    IN  FirstOf(p.apps, OOMKilled, AsOOM)
     \o FirstOf(p.inits, OOMKilled, AsOOM)
     \o FirstOf(p.inits, InitContainerFailure, AsInit)
     \o FirstOf(p.apps, Stuck, StuckAs)
     \o PendingScheduling(p)

Classify(p) == IF Candidates(p) = <<>> THEN None ELSE Head(Candidates(p))

---------------------------------------------------------------------------
\* Mutant: how often the container was restarted does not count.
WithoutRestarts(c) ==
    <<c.name>>
      \o (IF c.wait = None THEN <<>> ELSE <<"W", c.wait.reason, c.wait.message>>)
      \o (IF c.last = None THEN <<>> ELSE <<"T", c.last.reason, c.last.code>>)

\* The separators keep the parts of the string apart.
ContainerFingerprint(c) ==
    <<c.name, c.restarts>>
      \o (IF c.wait = None THEN <<>> ELSE <<"W", c.wait.reason, c.wait.message>>)
      \o (IF c.last = None THEN <<>> ELSE <<"T", c.last.reason, c.last.code>>)

Fingerprint(p, container) ==
    LET Named(c) == c.name = container
        found == SelectSeq(p.apps \o p.inits, Named)
    IN  IF found = <<>> THEN <<"missing">> ELSE ContainerFingerprint(Head(found))

=============================================================================
