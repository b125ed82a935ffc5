------------------------------ MODULE Collect ------------------------------
(***************************************************************************)
(* internal/collect: what the LLM is shown of a failing pod.  Gather works *)
(* on the pod that the reconcile read, and asks for events and logs by its *)
(* name, while the containers of PodStatus go on restarting.  A log is     *)
(* that of one instance of a container, the first being 0; lines of a log  *)
(* are equally wide, and a log with nothing but white space has no lines.  *)
(***************************************************************************)
EXTENDS PodStatus, FiniteSets

CONSTANTS
    Events,       \* events about the pod
    MaxEvents,    \* maxEvents
    TailLines,    \* TailLines of the request
    MaxLogRunes,  \* maxLogRunes
    MaxLines,     \* bound: lines of a log
    Widths,       \* runes of a line
    Unavailable,  \* "(logs unavailable: ...)"
    MaxFailures   \* bound: requests that fail

ASSUME LogAssumption ==
    /\ MaxEvents \in Nat
    /\ TailLines \in Nat \ {0}
    /\ MaxLogRunes \in Nat
    /\ MaxLines \in Nat \ {0}
    /\ Widths \subseteq Nat \ {0}
    /\ MaxFailures \in Nat

Logs == [lines: {0}, width: {1}] \cup [lines: 1 .. MaxLines, width: Widths]

\* What is read of the pod, what a request returns, and what the prompt has of it.
Readings == [ft: FailureTypes, container: ToSet(InitNames \o AppNames) \cup {None},
             ended: SUBSET (0 .. MaxRestarts)]
Replies == [instance: 0 .. MaxRestarts, log: Logs]
Excerpts == [instance: 0 .. MaxRestarts, log: Logs, first: 1 .. MaxLines, last: 0 .. MaxLines]

ASSUME NothingAssumption ==
    /\ None \notin (0 .. MaxRestarts) \cup Readings \cup Replies \cup Excerpts
    /\ Unavailable \notin Excerpts \cup {None}

\* first and last occurrence; a series has no lastTimestamp.
ASSUME EventAssumption ==
    /\ IsFiniteSet(Events)
    /\ Events \subseteq [first: Nat \ {0}, last: Nat \ {0}, series: BOOLEAN]
    /\ \A e \in Events: e.first <= e.last

VARIABLES
    call,     \* the next request of Gather
    seen,     \* class, container and last ended instance in the pod that was read
    prev,     \* what the request for the previous log returned
    shown,    \* the log in the prompt
    failures  \* requests that may still fail

collectVars == <<vars, call, seen, prev, shown, failures>>

CollectInit ==
    /\ Init
    /\ call = "idle"
    /\ seen = None
    /\ prev = None
    /\ shown = None
    /\ failures = MaxFailures

---------------------------------------------------------------------------
(* Events.                                                                 *)

LastTimestamp(e) == IF e.series THEN 0 ELSE e.last
EventTime(e) == e.first

\* Mutant: the time of the first occurrence counts.
FirstSeen(e) == EventTime(e)

Occurred(e) == IF LastTimestamp(e) = 0 THEN EventTime(e) ELSE LastTimestamp(e)

\* sort.Slice leaves events that are equally old in any order.
Sorted(items) ==
    {s \in [1 .. Cardinality(items) -> items]:
       /\ ToSet(s) = items
       /\ \A i, j \in DOMAIN s: i < j => Occurred(s[i]) >= Occurred(s[j])}

SummarizeEvents(items) ==
    {SubSeq(s, 1, IF Len(s) < MaxEvents THEN Len(s) ELSE MaxEvents): s \in Sorted(items)}

---------------------------------------------------------------------------
(* Logs, as the kubelet keeps them: of the current instance and of the one *)
(* before, which is the current one as well while the container waits.     *)

PreviousInstance(c) ==
    IF c.last = None THEN None
    ELSE IF c.wait # None THEN c.restarts
    ELSE c.restarts - 1

CurrentInstance(c) == IF c.wait # None THEN PreviousInstance(c) ELSE c.restarts

\* The named container; a pod that waits for a node has none.
Named(name) == {c \in ToSet(inits \o apps): c.name = name}

\* What a request for the log of instance i may find in it: a log that has ended
\* does not change between two requests.
LogOf(i) == IF prev # None /\ prev.instance = i THEN {prev.log} ELSE Logs

\* Mutant: the request is not limited.
WholeLog(log) == 1

FirstLine(log) == IF log.lines > TailLines THEN log.lines - TailLines + 1 ELSE 1

\* The head of what the request returned.
TrimRunes(log) ==
    LET kept == FirstLine(log) + (MaxLogRunes \div log.width) - 1
    IN  IF kept < log.lines THEN kept ELSE log.lines

Excerpt(i, log) ==
    [instance |-> i, log |-> log, first |-> FirstLine(log), last |-> TrimRunes(log)]

---------------------------------------------------------------------------
(* Gather.                                                                 *)

WantPrevious(ft) == ft \in {"CrashLoopBackOff", "OOMKilled"}

\* The instance whose end Classify saw.
Ended(ft, c) ==
    IF ft = "InitContainerError" /\ c.exit # None THEN c.restarts ELSE PreviousInstance(c)

Read ==
    /\ call = "idle"
    /\ Class # None
    /\ LET ended == {Ended(Class.ft, c): c \in Named(Class.container)} \ {None}
       IN  seen' = [ft |-> Class.ft, container |-> Class.container, ended |-> ended]
    /\ call' = "events"
    /\ UNCHANGED <<vars, prev, shown, failures>>

ListEvents ==
    /\ call = "events"
    /\ call' = IF WantPrevious(seen.ft) THEN "previous" ELSE "current"
    /\ UNCHANGED <<vars, seen, prev, shown, failures>>

Show(what) ==
    /\ shown' = what
    /\ call' = "shown"

\* Mutant: a log is a log.
AnyLog(log) == TRUE

NotBlank(log) == log.lines > 0

ReadPrevious ==
    /\ call = "previous"
    /\ \E c \in Named(seen.container), log \in Logs:
         /\ prev' = [instance |-> PreviousInstance(c), log |-> log]
         /\ IF NotBlank(log) THEN Show(Excerpt(PreviousInstance(c), log))
            ELSE call' = "current" /\ UNCHANGED shown
    /\ UNCHANGED <<vars, seen, failures>>

\* Mutant: the error is not looked at.
ReadIgnoringErrors ==
    /\ call = "current"
    /\ \E c \in Named(seen.container), log \in Logs: Show(Excerpt(CurrentInstance(c), log))
    /\ UNCHANGED <<vars, seen, prev, failures>>

\* Without the container, or before its first instance ended or runs, the request fails.
ReadCurrent ==
    /\ call = "current"
    /\ \/ \E c \in Named(seen.container):
            /\ CurrentInstance(c) # None
            /\ \E log \in LogOf(CurrentInstance(c)): Show(Excerpt(CurrentInstance(c), log))
       \/ /\ \A c \in Named(seen.container): CurrentInstance(c) = None
          /\ Show(Unavailable)
    /\ UNCHANGED <<vars, seen, prev, failures>>

Reset ==
    /\ call' = "idle"
    /\ seen' = None
    /\ prev' = None
    /\ shown' = None

\* Mutant: the error of the first request is final.
PreviousFailsAtOnce == Show(Unavailable)

PreviousFails == call' = "current" /\ UNCHANGED shown

\* Failing to list the events ends the analysis; failing to read a log does not.
RequestFails ==
    /\ failures > 0
    /\ failures' = failures - 1
    /\ \/ call = "events" /\ Reset
       \/ call = "previous" /\ PreviousFails /\ UNCHANGED <<seen, prev>>
       \/ call = "current" /\ Show(Unavailable) /\ UNCHANGED <<seen, prev>>
    /\ UNCHANGED vars

\* The LLM is asked, and the reconcile ends.
Diagnose ==
    /\ call = "shown"
    /\ Reset
    /\ UNCHANGED <<vars, failures>>

Pod == Next /\ UNCHANGED <<call, seen, prev, shown, failures>>

CollectNext ==
    Pod \/ Read \/ ListEvents \/ ReadPrevious \/ ReadCurrent \/ RequestFails \/ Diagnose

CollectSpec == CollectInit /\ [][CollectNext]_collectVars

---------------------------------------------------------------------------
(* Properties.                                                             *)

CollectTypeOK ==
    /\ call \in {"idle", "events", "previous", "current", "shown"}
    /\ seen \in {None} \cup Readings
    /\ prev \in {None} \cup Replies
    /\ shown \in {None, Unavailable} \cup Excerpts
    /\ failures \in 0 .. MaxFailures

Crashed == {"CrashLoopBackOff", "OOMKilled"}

\* When the container had failed before, the LLM is shown a log, and of no older
\* instance than the one whose failure was seen, although the container restarts
\* between the requests.  A request that fails costs the log only if there was no
\* second one to fall back on, or that one fails as well (fetchLogs).
LogsCoverTheFailure ==
    call = "shown" => \A i \in seen.ended:
        IF shown = Unavailable
          THEN /\ failures < MaxFailures
               /\ seen.ft \in Crashed => prev # None \/ failures + 1 < MaxFailures
          ELSE shown.instance >= i

\* Of a container that crashes, a blank log is shown only when its current
\* instance has no other, and an instance that still runs only when the one that
\* ended before was silent, no request having failed.
LogsOfTheCrash ==
    [][call' = "shown" /\ call # "shown" /\ failures' = MaxFailures /\ seen.ft \in Crashed =>
         \A c \in Named(seen.container):
            /\ shown'.log.lines = 0 => shown'.instance = CurrentInstance(c)
            /\ shown'.instance # PreviousInstance(c) => prev # None /\ prev.log.lines = 0]_collectVars

\* The last lines that the container wrote are in the prompt if the lines asked
\* for fit in it; of a longer text trimRunes keeps the beginning.
EndShownIfItFits ==
    call = "shown" /\ shown # Unavailable =>
        \/ shown.last = shown.log.lines
        \/ shown.log.width * (IF shown.log.lines < TailLines THEN shown.log.lines ELSE TailLines)
             > MaxLogRunes

\* The lists whose summary leaves out an event that happened after a summarized one.
Misleading ==
    {items \in SUBSET Events: \E s \in SummarizeEvents(items):
       LET told == ToSet(s) IN
       \/ Cardinality(told) < MaxEvents /\ told # items
       \/ \E e \in items \ told, f \in told: ~e.series /\ e.last > f.last}

\* Whatever events there are, the summary leaves out none that happened later
\* than one it has, but for series, which count from their first occurrence.
RecentEvents == call = "events" => Misleading = {}

=============================================================================
