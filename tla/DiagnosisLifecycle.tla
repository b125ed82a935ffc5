------------------------- MODULE DiagnosisLifecycle -------------------------
(***************************************************************************)
(* What a single manager promises to the reader of a ClusterDiagnosis,     *)
(* whatever happens inside it: the object is opened empty, an analysis is  *)
(* announced before it is concluded, a conclusion is about the pod and the *)
(* failure class the object stands for, never about an older state of the  *)
(* pod than the conclusion it replaces, and a failed analysis leaves the   *)
(* previous conclusion readable.                                           *)
(***************************************************************************)
EXTENDS Integers

CONSTANTS
    Names,      \* ClusterDiagnosis names
    Subjects,   \* the <<pod, failure type>> pairs each name stands for
    Revisions,  \* revisions of pod states
    Absent      \* no object, or no conclusion

VARIABLE status \* of each name: phase and conclusion

Unopened == [phase |-> "", diag |-> Absent]

Init == status = [n \in Names |-> Absent]

Open(n) ==
    /\ status[n] = Absent
    /\ status' = [status EXCEPT ![n] = Unopened]

Announce(n) ==
    /\ status[n] # Absent
    /\ status' = [status EXCEPT ![n].phase = "Analyzing"]

Analyzing(n) == status[n] # Absent /\ status[n].phase = "Analyzing"

Supersedes(new, old) == old = Absent \/ old.obs <= new.obs

Conclude(n) ==
    /\ Analyzing(n)
    /\ \E k \in Subjects[n], o, l \in Revisions:
         LET e == [pod |-> k[1], ft |-> k[2], obs |-> o, logs |-> l] IN
         /\ o <= l
         /\ Supersedes(e, status[n].diag)
         /\ status' = [status EXCEPT ![n] = [phase |-> "Ready", diag |-> e]]

GiveUp(n) ==
    /\ Analyzing(n)
    /\ status' = [status EXCEPT ![n].phase = "Error"]

Remove(n) ==
    /\ status[n] # Absent
    /\ status' = [status EXCEPT ![n] = Absent]

Next == \E n \in Names: Open(n) \/ Announce(n) \/ Conclude(n) \/ GiveUp(n) \/ Remove(n)

Spec == Init /\ [][Next]_status

=============================================================================
