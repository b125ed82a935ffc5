-------------------------- MODULE PodStatusProofs --------------------------
(***************************************************************************)
(* Theorems about PodStatus and Detect, for any containers, reasons and    *)
(* number of restarts.                                                     *)
(***************************************************************************)
EXTENDS PodStatus, IndexLemmas

---------------------------------------------------------------------------
(* The inductive invariant.                                                *)

ContainerNames == ToSet(InitNames \o AppNames)

\* A container waits before it runs, runs or has exited, and its restarts are
\* counted from the first exit on.
LifeOK(c) ==
    /\ c.wait # None => c.exit = None
    /\ WaitsFor(c, {"PodInitializing"}) => c.last = None
    /\ WaitsFor(c, {"CrashLoopBackOff"}) => c.last # None
    /\ c.last = None => c.restarts = 0
    /\ c.last # None /\ c.wait = None => c.restarts > 0

\* How far a container has come between two restarts.
Stage(c) ==
    IF c.wait = None THEN 2
    ELSE IF c.last = None THEN (IF WaitsFor(c, {"PodInitializing"}) THEN 0 ELSE 1)
    ELSE IF WaitsFor(c, {"CrashLoopBackOff"}) THEN 3 ELSE 4

Earlier(d, c) ==
    \/ d.restarts < c.restarts
    \/ d.restarts = c.restarts /\ Stage(d) < Stage(c)

\* What is remembered of a container are fingerprints of earlier statuses.
PastOK(c, p) ==
    \A f \in p[c.name]: \E d \in Status:
        ~WaitsFor(d, Reasons) /\ Earlier(d, c) /\ f = ContainerFingerprint(d)

Listed(s, names) ==
    /\ s \in Seq(Status)
    /\ Len(s) = Len(names)
    /\ \A i \in 1 .. Len(s): s[i].name = names[i] /\ LifeOK(s[i]) /\ PastOK(s[i], past)

\* Containers have no status before the pod is on a node, and are listed in
\* order from then on.
PodOK ==
    /\ policy \in Policies
    /\ sched \in {"", "Unschedulable", "FailedScheduling", "SchedulingGated"}
    /\ DOMAIN past = ContainerNames
    /\ \/ inits = <<>> /\ apps = <<>> /\ \A n \in ContainerNames: past[n] = {}
       \/ sched = "" /\ Listed(inits, InitNames) /\ Listed(apps, AppNames)

---------------------------------------------------------------------------
(* Fingerprints tell the restarts, the wait and the last exit.             *)

LEMMA StatusParts ==
    ASSUME NEW c \in Status
    PROVE  /\ c.wait # None => c.wait \in Waits
           /\ c.last # None => c.last \in Exits
           /\ c.exit # None => c.exit \in Exits
           /\ c.restarts \in Nat /\ c.name \in ContainerNames
<1>1. MaxRestarts \in Nat
  BY StatusAssumption
<1> QED
  BY <1>1 DEF Status, ContainerNames

LEMMA FingerprintParts ==
    ASSUME NEW c \in Status
    PROVE  LET f == ContainerFingerprint(c) IN
           /\ f[2] = c.restarts
           /\ c.wait = None /\ c.last = None => Len(f) = 2
           /\ c.wait # None /\ c.last = None => Len(f) = 5 /\ f[3] = "W" /\ f[4] = c.wait.reason
           /\ c.wait = None /\ c.last # None => Len(f) = 5 /\ f[3] = "T"
           /\ c.wait # None /\ c.last # None => Len(f) = 8 /\ f[4] = c.wait.reason
<1>1. CASE c.wait = None /\ c.last = None
  BY <1>1 DEF ContainerFingerprint
<1>2. CASE c.wait # None /\ c.last = None
  BY <1>2 DEF ContainerFingerprint
<1>3. CASE c.wait = None /\ c.last # None
  BY <1>3 DEF ContainerFingerprint
<1>4. CASE c.wait # None /\ c.last # None
  BY <1>4 DEF ContainerFingerprint
<1> QED
  BY <1>1, <1>2, <1>3, <1>4

LEMMA SameStage ==
    ASSUME NEW c \in Status, NEW d \in Status,
           ContainerFingerprint(c) = ContainerFingerprint(d)
    PROVE  /\ c.restarts = d.restarts
           /\ Stage(c) = Stage(d)
<1>1. c.restarts = d.restarts
  BY FingerprintParts
<1>2. c.wait = None <=> d.wait = None
  BY FingerprintParts
<1>3. c.last = None <=> d.last = None
  BY <1>2, FingerprintParts
<1>4. c.wait # None => c.wait.reason = d.wait.reason
  BY <1>2, <1>3, FingerprintParts
<1> QED
  BY <1>1, <1>2, <1>3, <1>4 DEF Stage, WaitsFor

LEMMA StageType == ASSUME NEW c PROVE Stage(c) \in Nat
BY DEF Stage

\* A status is not remembered while it lasts.
LEMMA NotRemembered ==
    ASSUME NEW c \in Status, PastOK(c, past)
    PROVE  ContainerFingerprint(c) \notin past[c.name]
<1> SUFFICES ASSUME ContainerFingerprint(c) \in past[c.name]
             PROVE  FALSE
  OBVIOUS
<1>1. PICK d \in Status: Earlier(d, c) /\ ContainerFingerprint(c) = ContainerFingerprint(d)
  BY DEF PastOK
<1>2. c.restarts \in Nat
  BY StatusParts
<1> QED
  BY <1>1, <1>2, SameStage, StageType DEF Earlier

---------------------------------------------------------------------------
(* What a container goes through.                                          *)

\* A container never goes back, and leaves a status that will be remembered for
\* good.
LEMMA StepForward ==
    ASSUME NEW c \in Status, LifeOK(c), NEW d \in Steps(c)
    PROVE  /\ d \in Status /\ d.name = c.name /\ LifeOK(d)
           /\ \/ Earlier(c, d)
              \/ /\ d.restarts = c.restarts /\ Stage(d) = Stage(c)
                 /\ \/ WaitsFor(c, Reasons)
                    \/ ContainerFingerprint(d) = ContainerFingerprint(c)
<1> USE DEF LifeOK
<1>1. /\ c.name \in ContainerNames /\ c.restarts \in 0 .. MaxRestarts
      /\ c.exit \in Exits \cup {None} /\ c.last \in Exits \cup {None}
      /\ c.wait \in Waits \cup {None}
  BY DEF Status, ContainerNames
<1>2. None \notin Exits /\ None \notin Waits /\ MaxRestarts \in Nat
  BY StatusAssumption
<1>3. LastExit(c) \in Exits \cup {None}
  BY <1>1 DEF LastExit
<1>4. \A r \in Reasons: r \notin {"PodInitializing", "CrashLoopBackOff"}
  BY ReasonsAssumption DEF PullReasons, ErrorReasons
<1>5. ASSUME d \in Start(c), c.wait # None \/ c.exit # None
      PROVE  d \in Status /\ d.name = c.name /\ LifeOK(d) /\ Earlier(c, d)
  <2>1. PICK n \in 0 .. MaxRestarts:
          /\ n = IF LastExit(c) = None THEN 0 ELSE c.restarts + 1
          /\ d = [c EXCEPT !.wait = None, !.exit = None, !.last = LastExit(c), !.restarts = n]
    BY <1>5 DEF Start
  <2>2. /\ d \in Status /\ d.name = c.name /\ d.wait = None /\ d.exit = None
        /\ d.last = LastExit(c) /\ d.restarts = n
    BY <1>1, <1>3, <2>1 DEF Status
  <2>3. LifeOK(d)
    BY <1>1, <2>1, <2>2 DEF WaitsFor
  <2>4. Earlier(c, d)
    BY <1>1, <1>5, <2>1, <2>2 DEF Earlier, Stage, LastExit, WaitsFor
  <2> QED
    BY <2>2, <2>3, <2>4
<1>6. ASSUME NEW R \in {Reasons, Reasons \cup {"CrashLoopBackOff"}}, d \in Wait(c, R),
             c.wait # None => R = Reasons, c.wait = None => c.exit # None
      PROVE  /\ d \in Status /\ d.name = c.name /\ LifeOK(d)
             /\ \/ Earlier(c, d)
                \/ d.restarts = c.restarts /\ Stage(d) = Stage(c) /\ WaitsFor(c, Reasons)
  <2>1. PICK w \in Waits:
          /\ w.reason \in R
          /\ d = [c EXCEPT !.wait = w, !.exit = None, !.last = LastExit(c)]
    BY <1>6 DEF Wait
  <2>2. /\ d \in Status /\ d.name = c.name /\ d.wait = w /\ d.exit = None
        /\ d.last = LastExit(c) /\ d.restarts = c.restarts
    BY <1>1, <1>3, <2>1 DEF Status
  <2>3. d.wait # None
    BY <1>2, <2>2
  <2>4. ~WaitsFor(d, {"PodInitializing"}) /\ (c.wait # None => WaitsFor(d, Reasons))
    BY <1>4, <1>6, <2>1, <2>2, <2>3 DEF WaitsFor
  <2>5. LifeOK(d)
    BY <1>4, <1>6, <2>1, <2>2, <2>3, <2>4 DEF WaitsFor, LastExit
  <2>6. CASE c.wait = None
    <3>1. Stage(c) = 2 /\ Stage(d) \in {3, 4}
      BY <1>2, <1>6, <2>2, <2>3, <2>6 DEF Stage, LastExit
    <3> QED
      BY <2>2, <2>5, <3>1 DEF Earlier
  <2>7. CASE c.wait # None
    <3>1. d.last = c.last /\ ~WaitsFor(d, {"CrashLoopBackOff"})
      BY <1>4, <2>2, <2>4, <2>7 DEF LastExit, WaitsFor
    <3>2. c.wait.reason \in {"PodInitializing", "CrashLoopBackOff"} \cup Reasons
      BY <1>1, <2>7 DEF Waits
    <3>3. CASE WaitsFor(c, Reasons)
      BY <1>4, <2>2, <2>3, <2>4, <2>5, <2>7, <3>1, <3>3 DEF Stage, WaitsFor
    <3>4. CASE WaitsFor(c, {"PodInitializing"})
      BY <2>2, <2>3, <2>4, <2>5, <2>7, <3>1, <3>4 DEF Stage, Earlier
    <3>5. CASE WaitsFor(c, {"CrashLoopBackOff"})
      BY <2>2, <2>3, <2>4, <2>5, <2>7, <3>1, <3>5 DEF Stage, Earlier
    <3> QED
      BY <2>7, <3>2, <3>3, <3>4, <3>5 DEF WaitsFor
  <2> QED
    BY <2>6, <2>7
<1>7. ASSUME NEW e \in Exits, d = [c EXCEPT !.exit = e], c.wait = None
      PROVE  /\ d \in Status /\ d.name = c.name /\ LifeOK(d)
             /\ d.restarts = c.restarts /\ Stage(d) = Stage(c)
             /\ ContainerFingerprint(d) = ContainerFingerprint(c)
  <2>1. /\ d \in Status /\ d.name = c.name /\ d.wait = c.wait /\ d.last = c.last
        /\ d.restarts = c.restarts
    BY <1>1, <1>7 DEF Status
  <2> QED
    BY <1>7, <2>1 DEF WaitsFor, Stage, ContainerFingerprint
<1>8. CASE c.wait # None
  <2>1. d \in Start(c) \/ d \in Wait(c, Reasons)
    BY <1>8 DEF Steps
  <2> QED
    BY <1>5, <1>6, <1>8, <2>1
<1>9. CASE c.wait = None /\ c.exit = None
  <2>1. PICK e \in Exits: d = [c EXCEPT !.exit = e]
    BY <1>9 DEF Steps
  <2> QED
    BY <1>7, <1>9, <2>1
<1>10. CASE c.wait = None /\ c.exit # None
  <2>1. d \in Start(c) \/ d \in Wait(c, Reasons \cup {"CrashLoopBackOff"})
    BY <1>10 DEF Steps
  <2> QED
    BY <1>5, <1>6, <1>10, <2>1
<1> QED
  BY <1>8, <1>9, <1>10

---------------------------------------------------------------------------
(* PodOK is inductive.                                                     *)

OthersKept(m) == DOMAIN past' = DOMAIN past /\ \A n \in DOMAIN past \ {m}: past'[n] = past[n]
Distinct(names) == \A i, j \in 1 .. Len(names): names[i] = names[j] => i = j
NotAmong(m, names) == \A i \in 1 .. Len(names): names[i] # m

\* A container in one of the lists keeps what is remembered of it in order when
\* it takes a step.
LEMMA StepRemembered ==
    ASSUME NEW c \in Status, LifeOK(c), PastOK(c, past), NEW d \in Steps(c),
           DOMAIN past = ContainerNames, Remember(c, d)
    PROVE  PastOK(d, past') /\ OthersKept(c.name)
<1>1. /\ d \in Status /\ d.name = c.name
      /\ \/ Earlier(c, d)
         \/ /\ d.restarts = c.restarts /\ Stage(d) = Stage(c)
            /\ \/ WaitsFor(c, Reasons)
               \/ ContainerFingerprint(d) = ContainerFingerprint(c)
  BY StepForward
<1>2. c.name \in ContainerNames
  BY StatusParts
<1>3. /\ DOMAIN past' = ContainerNames
      /\ \A n \in ContainerNames \ {c.name}: past'[n] = past[n]
      /\ past'[c.name] =
           IF WaitsFor(c, Reasons) \/ ContainerFingerprint(c) = ContainerFingerprint(d)
             THEN past[c.name] ELSE past[c.name] \cup {ContainerFingerprint(c)}
  BY <1>2 DEF Remember
<1>4. ASSUME NEW f \in past[c.name]
      PROVE  \E e \in Status: ~WaitsFor(e, Reasons) /\ Earlier(e, d) /\ f = ContainerFingerprint(e)
  <2>1. PICK e \in Status: ~WaitsFor(e, Reasons) /\ Earlier(e, c) /\ f = ContainerFingerprint(e)
    BY DEF PastOK
  <2>2. Earlier(e, d)
    <3>1. c.restarts \in Nat /\ d.restarts \in Nat /\ e.restarts \in Nat
      BY <1>1, StatusParts
    <3> QED
      BY <1>1, <2>1, <3>1, StageType DEF Earlier
  <2> QED
    BY <2>1, <2>2
<1>5. ASSUME ~WaitsFor(c, Reasons), ContainerFingerprint(c) # ContainerFingerprint(d)
      PROVE  Earlier(c, d)
  BY <1>1, <1>5
<1>6. \A f \in past'[d.name]: \E e \in Status:
        ~WaitsFor(e, Reasons) /\ Earlier(e, d) /\ f = ContainerFingerprint(e)
  BY <1>1, <1>3, <1>4, <1>5
<1> QED
  BY <1>3, <1>6 DEF PastOK, OthersKept

\* Container i of list s comes from its status to d, which makes the list t.
Moves(s, i, d, t) ==
    /\ i \in DOMAIN s /\ d \in Steps(s[i])
    /\ t = [s EXCEPT ![i] = d]
    /\ Remember(s[i], d)

\* One list of containers takes a step in one of them.
LEMMA ListStep ==
    ASSUME NEW s, NEW names, Listed(s, names), Distinct(names), DOMAIN past = ContainerNames,
           NEW i, NEW d, NEW t, Moves(s, i, d, t)
    PROVE  /\ t \in Seq(Status) /\ Len(t) = Len(names)
           /\ \A j \in 1 .. Len(t):
                t[j].name = names[j] /\ LifeOK(t[j]) /\ PastOK(t[j], past')
<1>0. i \in DOMAIN s /\ d \in Steps(s[i]) /\ t = [s EXCEPT ![i] = d] /\ Remember(s[i], d)
  BY DEF Moves
<1>1. s \in Seq(Status) /\ i \in 1 .. Len(s) /\ s[i] \in Status /\ LifeOK(s[i]) /\ PastOK(s[i], past)
  BY <1>0 DEF Listed
<1>2. d \in Status /\ d.name = s[i].name /\ LifeOK(d)
  BY <1>0, <1>1, StepForward
<1>3. t \in Seq(Status) /\ Len(t) = Len(s) /\ t[i] = d /\ \A j \in 1 .. Len(s): j # i => t[j] = s[j]
  BY <1>0, <1>1, <1>2
<1>4. ASSUME NEW j \in 1 .. Len(t)
      PROVE  t[j].name = names[j] /\ LifeOK(t[j]) /\ PastOK(t[j], past')
  <2>1. CASE j = i
    BY <1>0, <1>1, <1>2, <1>3, <2>1, StepRemembered DEF Listed
  <2>2. CASE j # i
    <3>1. t[j] = s[j] /\ s[j] \in Status
      BY <1>1, <1>3, <2>2
    <3>2. s[j].name # s[i].name /\ s[j].name \in ContainerNames
      BY <1>1, <1>3, <2>2, <3>1, StatusParts DEF Listed, Distinct
    <3>3. past'[s[j].name] = past[s[j].name]
      BY <1>0, <1>1, <3>2, StepRemembered DEF OthersKept
    <3>4. PastOK(s[j], past) /\ LifeOK(s[j]) /\ s[j].name = names[j]
      BY <1>3 DEF Listed
    <3> QED
      BY <3>1, <3>3, <3>4 DEF PastOK
  <2> QED
    BY <2>1, <2>2
<1> QED
  BY <1>3, <1>4 DEF Listed

\* The other list is not concerned.
LEMMA OtherList ==
    ASSUME NEW s, NEW names, Listed(s, names), NEW m, NotAmong(m, names), OthersKept(m),
           DOMAIN past = ContainerNames
    PROVE  \A j \in 1 .. Len(s): PastOK(s[j], past')
<1> SUFFICES ASSUME NEW j \in 1 .. Len(s)
             PROVE  PastOK(s[j], past')
  OBVIOUS
<1>1. s[j] \in Status /\ s[j].name # m /\ PastOK(s[j], past)
  BY DEF Listed, NotAmong
<1>2. past'[s[j].name] = past[s[j].name]
  BY <1>1, StatusParts DEF OthersKept
<1> QED
  BY <1>1, <1>2 DEF PastOK

\* Containers have names of their own.
LEMMA NamesApart ==
    /\ InitNames \in Seq(STRING) /\ AppNames \in Seq(STRING) /\ Len(AppNames) > 0
    /\ Distinct(InitNames) /\ Distinct(AppNames)
    /\ \A i \in 1 .. Len(InitNames), j \in 1 .. Len(AppNames): InitNames[i] # AppNames[j]
    /\ \A i \in 1 .. Len(InitNames): InitNames[i] \in ContainerNames
    /\ \A i \in 1 .. Len(AppNames): AppNames[i] \in ContainerNames
<1> DEFINE names == InitNames \o AppNames
           k == Len(InitNames)
           l == Len(AppNames)
<1>1. InitNames \in Seq(STRING) /\ AppNames \in Seq(STRING) /\ AppNames # <<>>
  BY NamesAssumption
<1>2. k \in Nat /\ l \in Nat /\ l > 0
  BY <1>1
<1>3. /\ DOMAIN names = 1 .. k + l
      /\ \A i \in 1 .. k: names[i] = InitNames[i]
      /\ \A j \in 1 .. l: names[k + j] = AppNames[j]
  BY <1>1
<1>4. \A i, j \in 1 .. k + l: names[i] = names[j] => i = j
  BY <1>3, NamesAssumption
<1>5. \A i \in 1 .. k + l: names[i] \in ContainerNames
  BY <1>3 DEF ContainerNames, ToSet
<1> HIDE DEF names, k, l
<1>6. \A i \in 1 .. k: i \in 1 .. k + l
  BY <1>2
<1>7. \A j \in 1 .. l: k + j \in 1 .. k + l
  BY <1>2
<1>8. \A i, j \in 1 .. k: InitNames[i] = InitNames[j] => i = j
  BY <1>3, <1>4, <1>6
<1>9. \A i, j \in 1 .. l: AppNames[i] = AppNames[j] => i = j
  <2> SUFFICES ASSUME NEW i \in 1 .. l, NEW j \in 1 .. l, AppNames[i] = AppNames[j]
               PROVE  i = j
    OBVIOUS
  <2>1. k + i = k + j
    BY <1>3, <1>4, <1>7
  <2> QED
    BY <1>2, <2>1
<1>10. ASSUME NEW i \in 1 .. k, NEW j \in 1 .. l PROVE InitNames[i] # AppNames[j]
  <2>1. i # k + j
    BY <1>2
  <2> QED
    BY <1>3, <1>4, <1>6, <1>7, <2>1
<1> QED
  BY <1>1, <1>2, <1>3, <1>5, <1>6, <1>7, <1>8, <1>9, <1>10 DEF k, l, Distinct

\* A pod on a node starts with containers that wait.
LEMMA CreatedType ==
    ASSUME NEW names \in Seq(STRING), \A i \in 1 .. Len(names): names[i] \in ContainerNames
    PROVE  /\ Created(names) \in Seq(Status) /\ Len(Created(names)) = Len(names)
           /\ \A i \in 1 .. Len(names):
                Created(names)[i].name = names[i] /\ LifeOK(Created(names)[i])
<1>1. PICK m \in Messages: m = CHOOSE x \in Messages: TRUE
  BY StatusAssumption
<1> DEFINE Blank(i) == [name |-> names[i], restarts |-> 0, exit |-> None, last |-> None,
                        wait |-> [reason |-> "PodInitializing", message |-> m]]
<1>2. Created(names) = [i \in 1 .. Len(names) |-> Blank(i)]
  BY <1>1 DEF Created
<1>3. MaxRestarts \in Nat
  BY StatusAssumption
<1>4. ASSUME NEW i \in 1 .. Len(names)
      PROVE  Blank(i) \in Status /\ Blank(i).name = names[i] /\ LifeOK(Blank(i))
  <2>1. [reason |-> "PodInitializing", message |-> m] \in Waits
    BY DEF Waits
  <2> QED
    BY <1>3, <2>1 DEF Status, ContainerNames, LifeOK, WaitsFor
<1> HIDE DEF Blank
<1> QED
  BY <1>2, <1>4

LEMMA PodStart == Init => PodOK
BY DEF Init, PodOK, ContainerNames

LEMMA PodStep == PodOK /\ [Next]_vars => PodOK'
<1> SUFFICES ASSUME PodOK, [Next]_vars
             PROVE  PodOK'
  OBVIOUS
<1>1. CASE UNCHANGED vars
  <2>1. UNCHANGED <<policy, sched, inits, apps, past>>
    BY <1>1 DEF vars
  <2>3. ASSUME NEW names, Listed(inits, names) PROVE Listed(inits, names)'
    BY <2>1, <2>3 DEF Listed
  <2>4. ASSUME NEW names, Listed(apps, names) PROVE Listed(apps, names)'
    BY <2>1, <2>4 DEF Listed
  <2> QED
    BY <2>1, <2>3, <2>4 DEF PodOK
<1>2. ASSUME apps # <<>>
      PROVE  sched = "" /\ Listed(inits, InitNames) /\ Listed(apps, AppNames)
  BY <1>2 DEF PodOK
<1>3. ASSUME apps = <<>>
      PROVE  inits = <<>> /\ apps = <<>> /\ \A n \in ContainerNames: past[n] = {}
  <2>1. ~Listed(apps, AppNames)
    <3>1. Len(apps) = 0 /\ Len(AppNames) > 0
      BY <1>3, NamesApart
    <3> QED
      BY <3>1 DEF Listed
  <2> QED
    BY <1>3, <2>1 DEF PodOK
<1>4. CASE Unschedulable
  BY <1>3, <1>4 DEF Unschedulable, NotScheduled, PodOK
<1>5. CASE Scheduled
  <2>0. sched' = ""
    BY <1>5 DEF Scheduled
  <2>1. /\ inits' = Created(InitNames) /\ apps' = Created(AppNames)
        /\ UNCHANGED <<policy, past>> /\ \A n \in ContainerNames: past[n] = {}
    BY <1>3, <1>5 DEF Scheduled, NotScheduled
  <2>2. ASSUME NEW names \in {InitNames, AppNames}
        PROVE  /\ Created(names) \in Seq(Status) /\ Len(Created(names)) = Len(names)
               /\ \A i \in 1 .. Len(names):
                    /\ Created(names)[i].name = names[i] /\ LifeOK(Created(names)[i])
                    /\ PastOK(Created(names)[i], past)
    <3>1. names \in Seq(STRING) /\ \A i \in 1 .. Len(names): names[i] \in ContainerNames
      BY NamesApart
    <3> QED
      BY <2>1, <3>1, CreatedType DEF PastOK
  <2>3. Listed(inits, InitNames)'
    BY <2>1, <2>2 DEF Listed, PastOK
  <2>4. Listed(apps, AppNames)'
    BY <2>1, <2>2 DEF Listed, PastOK
  <2> QED
    BY <2>0, <2>1, <2>3, <2>4 DEF PodOK
<1>6. ASSUME NEW i \in DOMAIN inits, InitStep(i) PROVE PodOK'
  <2>1. /\ Listed(inits, InitNames) /\ Listed(apps, AppNames)
        /\ UNCHANGED <<policy, sched, apps>>
    <3>1. apps # <<>>
      BY <1>3, <1>6
    <3> QED
      BY <1>2, <1>6, <3>1 DEF InitStep
  <2>0. sched = ""
    <3>1. apps # <<>>
      BY <1>3, <1>6
    <3> QED
      BY <1>2, <3>1
  <2>2. PICK c \in Steps(inits[i]): inits' = [inits EXCEPT ![i] = c] /\ Remember(inits[i], c)
    BY <1>6 DEF InitStep
  <2>3. /\ inits[i] \in Status /\ inits[i].name = InitNames[i] /\ i \in 1 .. Len(InitNames)
        /\ LifeOK(inits[i]) /\ PastOK(inits[i], past)
    <3>1. inits \in Seq(Status) /\ i \in 1 .. Len(inits)
      BY <1>6, <2>1 DEF Listed
    <3> QED
      BY <2>1, <3>1 DEF Listed
  <2>4. OthersKept(inits[i].name)
    BY <2>2, <2>3, StepRemembered DEF PodOK
  <2>5. Listed(inits, InitNames)'
    <3>1. Distinct(InitNames)
      BY NamesApart
    <3>2. DOMAIN past = ContainerNames
      BY DEF PodOK
    <3>3. Moves(inits, i, c, inits')
      BY <1>6, <2>2 DEF Moves
    <3>4. /\ inits' \in Seq(Status) /\ Len(inits') = Len(InitNames)
          /\ \A j \in 1 .. Len(inits'):
               inits'[j].name = InitNames[j] /\ LifeOK(inits'[j]) /\ PastOK(inits'[j], past')
      BY <2>1, <3>1, <3>2, <3>3, ListStep
    <3> QED
      BY <3>4 DEF Listed
  <2>6. Listed(apps, AppNames)'
    <3>1. NotAmong(inits[i].name, AppNames)
      BY <2>3, NamesApart DEF NotAmong
    <3>2. \A j \in 1 .. Len(apps): PastOK(apps[j], past')
      BY <2>1, <2>4, <3>1, OtherList DEF PodOK
    <3> QED
      BY <2>1, <3>2 DEF Listed, PastOK
  <2> QED
    BY <2>0, <2>1, <2>4, <2>5, <2>6 DEF PodOK, OthersKept
<1>7. ASSUME NEW i \in DOMAIN apps, AppStep(i) PROVE PodOK'
  <2>1. /\ Listed(inits, InitNames) /\ Listed(apps, AppNames)
        /\ UNCHANGED <<policy, sched, inits>>
    <3>1. apps # <<>>
      BY <1>3, <1>7
    <3> QED
      BY <1>2, <1>7, <3>1 DEF AppStep
  <2>0. sched = ""
    <3>1. apps # <<>>
      BY <1>3, <1>7
    <3> QED
      BY <1>2, <3>1
  <2>2. PICK c \in Steps(apps[i]): apps' = [apps EXCEPT ![i] = c] /\ Remember(apps[i], c)
    BY <1>7 DEF AppStep
  <2>3. /\ apps[i] \in Status /\ apps[i].name = AppNames[i] /\ i \in 1 .. Len(AppNames)
        /\ LifeOK(apps[i]) /\ PastOK(apps[i], past)
    <3>1. apps \in Seq(Status) /\ i \in 1 .. Len(apps)
      BY <1>7, <2>1 DEF Listed
    <3> QED
      BY <2>1, <3>1 DEF Listed
  <2>4. OthersKept(apps[i].name)
    BY <2>2, <2>3, StepRemembered DEF PodOK
  <2>5. Listed(apps, AppNames)'
    <3>1. Distinct(AppNames)
      BY NamesApart
    <3>2. DOMAIN past = ContainerNames
      BY DEF PodOK
    <3>3. Moves(apps, i, c, apps')
      BY <1>7, <2>2 DEF Moves
    <3>4. /\ apps' \in Seq(Status) /\ Len(apps') = Len(AppNames)
          /\ \A j \in 1 .. Len(apps'):
               apps'[j].name = AppNames[j] /\ LifeOK(apps'[j]) /\ PastOK(apps'[j], past')
      BY <2>1, <3>1, <3>2, <3>3, ListStep
    <3> QED
      BY <3>4 DEF Listed
  <2>6. Listed(inits, InitNames)'
    <3>1. NotAmong(apps[i].name, InitNames)
      BY <2>3, NamesApart DEF NotAmong
    <3>2. \A j \in 1 .. Len(inits): PastOK(inits[j], past')
      BY <2>1, <2>4, <3>1, OtherList DEF PodOK
    <3> QED
      BY <2>1, <3>2 DEF Listed, PastOK
  <2> QED
    BY <2>0, <2>1, <2>4, <2>5, <2>6 DEF PodOK, OthersKept
<1> QED
  BY <1>1, <1>4, <1>5, <1>6, <1>7 DEF Next

\* Through any number of restarts of any containers, statuses are what the kubelet
\* may report, and what is remembered of a container lies behind it.
THEOREM PodInvariant == Spec => []PodOK
BY PodStart, PodStep, PTL DEF Spec

\* A container that was left in one state by a diagnosis and fails anew does so
\* with another fingerprint, so the new failure is diagnosed.
THEOREM FingerprintsDoNotRecur == Spec => []FingerprintNeverRecurs
<1>1. ASSUME PodOK PROVE FingerprintNeverRecurs
  <2> SUFFICES ASSUME NEW c \in ToSet(inits \o apps)
               PROVE  ContainerFingerprint(c) \notin past[c.name]
    BY DEF FingerprintNeverRecurs
  <2>1. c \in Status /\ PastOK(c, past)
    <3>1. CASE inits = <<>> /\ apps = <<>>
      BY <3>1 DEF ToSet
    <3>2. CASE Listed(inits, InitNames) /\ Listed(apps, AppNames)
      <4>1. inits \in Seq(Status) /\ apps \in Seq(Status)
        BY <3>2 DEF Listed
      <4>2. \/ \E i \in 1 .. Len(inits): c = inits[i]
            \/ \E i \in 1 .. Len(apps): c = apps[i]
        BY <4>1 DEF ToSet
      <4> QED
        BY <3>2, <4>1, <4>2 DEF Listed
    <3> QED
      BY <1>1, <3>1, <3>2 DEF PodOK
  <2> QED
    BY <2>1, NotRemembered
<1> QED
  BY <1>1, PodInvariant, PTL

---------------------------------------------------------------------------
(* What Classify answers.                                                  *)

Answers == [ft: FailureTypes, container: ContainerNames \cup {None}]

\* The positions of the containers that Classify looks for.
OOMs(s) == {i \in 1 .. Len(s): OOMKilled(s[i])}
Failed(s) == {i \in 1 .. Len(s): InitContainerFailure(s[i])}
Backing(s) == {i \in 1 .. Len(s): Stuck(s[i])}
Misconfigured(s) == {i \in 1 .. Len(s): ConfigError(s[i])}

\* The answer about the first of positions I of s.
First(I) == IF I # {} THEN Min(I) ELSE 0
About(s, i, ft) == IF i = 0 THEN <<>> ELSE <<[ft |-> ft, container |-> s[i].name]>>

OOMAnswer(s) == About(s, First(OOMs(s)), "OOMKilled")
InitAnswer(s) == About(s, First(Failed(s)), "InitContainerError")
StuckAnswer(s) == About(s, First(Backing(s)), StuckAs(s[First(Backing(s))]))
ConfigAnswer(s) == About(s, First(Misconfigured(s)), "PendingScheduling")

LEMMA CandidatesInOrder ==
    ASSUME NEW p
    PROVE  Candidates(p) =
             OOMAnswer(p.apps) \o OOMAnswer(p.inits) \o InitAnswer(p.inits)
               \o StuckAnswer(p.apps) \o PendingScheduling(p)
BY DEF Candidates, FirstOf, SelectInSeq, OOMAnswer, InitAnswer, StuckAnswer, About, First,
   OOMs, Failed, Backing

LEMMA PendingInOrder ==
    ASSUME NEW p
    PROVE  PendingScheduling(p) =
             IF p.phase # "Pending" THEN <<>>
             ELSE IF p.sched \in {"FailedScheduling", "Unschedulable"}
               THEN <<[ft |-> "PendingScheduling", container |-> None]>>
             ELSE ConfigAnswer(p.inits) \o ConfigAnswer(p.apps)
BY DEF PendingScheduling, FirstOf, SelectInSeq, ConfigAnswer, About, First, Misconfigured

LEMMA AboutFirst ==
    ASSUME NEW s \in Seq(Status), NEW I \in SUBSET (1 .. Len(s)), NEW ft \in FailureTypes
    PROVE  /\ About(s, First(I), ft) \in Seq(Answers)
           /\ About(s, First(I), ft) = <<>> <=> I = {}
           /\ I # {} => /\ First(I) \in I
                        /\ About(s, First(I), ft) =
                             <<[ft |-> ft, container |-> s[First(I)].name]>>
<1>1. CASE I = {}
  BY <1>1 DEF About, First
<1>2. CASE I # {}
  <2>1. First(I) \in I
    <3>1. Len(s) \in Nat
      OBVIOUS
    <3> QED
      BY <1>2, <3>1, FirstPosition DEF First
  <2>2. s[First(I)].name \in ContainerNames
    <3>1. First(I) \in 1 .. Len(s)
      BY <2>1
    <3>2. s[First(I)] \in Status
      BY <3>1
    <3> QED
      BY <3>2, StatusParts
  <2>3. [ft |-> ft, container |-> s[First(I)].name] \in Answers
    BY <2>2 DEF Answers
  <2>4. First(I) # 0
    BY <2>1
  <2>5. About(s, First(I), ft) = <<[ft |-> ft, container |-> s[First(I)].name]>>
    BY <2>4 DEF About
  <2>6. About(s, First(I), ft) \in Seq(Answers) /\ About(s, First(I), ft) # <<>>
    BY <2>3, <2>5
  <2> QED
    BY <1>2, <2>1, <2>5, <2>6
<1> QED
  BY <1>1, <1>2

\* The first candidate is that of the first list that has one.
LEMMA FirstCandidate ==
    ASSUME NEW a \in Seq(Answers), NEW b \in Seq(Answers)
    PROVE  /\ a \o b \in Seq(Answers)
           /\ a \o b = <<>> <=> a = <<>> /\ b = <<>>
           /\ a = <<>> => a \o b = b
           /\ a # <<>> => Head(a \o b) = Head(a)
<1>1. a \o b \in Seq(Answers) /\ Len(a \o b) = Len(a) + Len(b)
  OBVIOUS
<1>2. a = <<>> => a \o b = b
  OBVIOUS
<1>3. a # <<>> => Len(a) > 0 /\ (a \o b)[1] = a[1]
  OBVIOUS
<1> QED
  BY <1>1, <1>2, <1>3

LEMMA PendingType ==
    ASSUME NEW p, p.inits \in Seq(Status), p.apps \in Seq(Status)
    PROVE  /\ PendingScheduling(p) \in Seq(Answers)
           /\ PendingScheduling(p) # <<>> =>
                /\ Head(PendingScheduling(p)).ft = "PendingScheduling"
                /\ \/ Head(PendingScheduling(p)).container = None
                   \/ \E i \in Misconfigured(p.inits): TRUE
                   \/ \E i \in Misconfigured(p.apps):
                        Head(PendingScheduling(p)).container = p.apps[i].name
           /\ PendingScheduling(p) = <<>> <=>
                \/ p.phase # "Pending"
                \/ /\ p.sched \notin {"FailedScheduling", "Unschedulable"}
                   /\ Misconfigured(p.inits) = {} /\ Misconfigured(p.apps) = {}
<1>1. "PendingScheduling" \in FailureTypes
  BY DEF FailureTypes
<1>2. /\ Misconfigured(p.inits) \in SUBSET (1 .. Len(p.inits))
      /\ Misconfigured(p.apps) \in SUBSET (1 .. Len(p.apps))
  BY DEF Misconfigured
<1>3. /\ ConfigAnswer(p.inits) \in Seq(Answers) /\ ConfigAnswer(p.apps) \in Seq(Answers)
      /\ ConfigAnswer(p.inits) = <<>> <=> Misconfigured(p.inits) = {}
      /\ ConfigAnswer(p.apps) = <<>> <=> Misconfigured(p.apps) = {}
      /\ Misconfigured(p.apps) # {} =>
           \E i \in Misconfigured(p.apps):
             ConfigAnswer(p.apps) = <<[ft |-> "PendingScheduling", container |-> p.apps[i].name]>>
      /\ Misconfigured(p.inits) # {} =>
           \E i \in Misconfigured(p.inits):
             ConfigAnswer(p.inits) = <<[ft |-> "PendingScheduling", container |-> p.inits[i].name]>>
  BY <1>1, <1>2, AboutFirst DEF ConfigAnswer
<1>4. CASE p.phase # "Pending"
  <2>1. PendingScheduling(p) = <<>>
    BY <1>4, PendingInOrder
  <2> QED
    BY <1>4, <2>1
<1>5. CASE p.phase = "Pending" /\ p.sched \in {"FailedScheduling", "Unschedulable"}
  <2>1. PendingScheduling(p) = <<[ft |-> "PendingScheduling", container |-> None]>>
    BY <1>5, PendingInOrder
  <2>2. [ft |-> "PendingScheduling", container |-> None] \in Answers
    BY <1>1 DEF Answers
  <2> QED
    BY <1>5, <2>1, <2>2
<1>6. CASE p.phase = "Pending" /\ p.sched \notin {"FailedScheduling", "Unschedulable"}
  <2>1. PendingScheduling(p) = ConfigAnswer(p.inits) \o ConfigAnswer(p.apps)
    BY <1>6, PendingInOrder
  <2>2. CASE Misconfigured(p.inits) # {}
    <3>1. PICK i \in Misconfigured(p.inits):
            ConfigAnswer(p.inits) = <<[ft |-> "PendingScheduling", container |-> p.inits[i].name]>>
      BY <1>3, <2>2
    <3>2. Head(PendingScheduling(p)) = [ft |-> "PendingScheduling", container |-> p.inits[i].name]
      BY <1>3, <2>1, <2>2, <3>1, FirstCandidate
    <3> QED
      BY <1>3, <1>6, <2>1, <2>2, <3>2, FirstCandidate
  <2>3. CASE Misconfigured(p.inits) = {} /\ Misconfigured(p.apps) # {}
    <3>1. PICK i \in Misconfigured(p.apps):
            ConfigAnswer(p.apps) = <<[ft |-> "PendingScheduling", container |-> p.apps[i].name]>>
      BY <1>3, <2>3
    <3>2. PendingScheduling(p) = ConfigAnswer(p.apps)
      BY <1>3, <2>1, <2>3, FirstCandidate
    <3>3. Head(PendingScheduling(p)) = [ft |-> "PendingScheduling", container |-> p.apps[i].name]
      BY <3>1, <3>2
    <3> QED
      BY <1>3, <1>6, <2>3, <3>2, <3>3
  <2>4. CASE Misconfigured(p.inits) = {} /\ Misconfigured(p.apps) = {}
    BY <1>3, <1>6, <2>1, <2>4, FirstCandidate
  <2> QED
    BY <2>2, <2>3, <2>4
<1> QED
  BY <1>4, <1>5, <1>6

\* A container of s is what answer x is about.
Explains(c, x) ==
    /\ x.container = c.name
    /\ x.ft = "OOMKilled" => OOMKilled(c)
    /\ x.ft = "CrashLoopBackOff" => WaitsFor(c, {"CrashLoopBackOff"})
Said(x, s) == \E i \in 1 .. Len(s): Explains(s[i], x)

LEMMA SaidOfFirst ==
    ASSUME NEW s \in Seq(Status)
    PROVE  /\ OOMs(s) # {} => Said(Head(OOMAnswer(s)), s)
           /\ Failed(s) # {} => Said(Head(InitAnswer(s)), s)
           /\ Backing(s) # {} => Said(Head(StuckAnswer(s)), s)
<1>1. /\ OOMs(s) \in SUBSET (1 .. Len(s)) /\ Failed(s) \in SUBSET (1 .. Len(s))
      /\ Backing(s) \in SUBSET (1 .. Len(s))
  BY DEF OOMs, Failed, Backing
<1>2. /\ {"OOMKilled", "InitContainerError"} \subseteq FailureTypes
      /\ \A x: StuckAs(x) \in FailureTypes
  BY DEF FailureTypes, StuckAs
<1>3. ASSUME OOMs(s) # {} PROVE Said(Head(OOMAnswer(s)), s)
  <2> DEFINE i == First(OOMs(s))
  <2>1. i \in OOMs(s) /\ OOMAnswer(s) = <<[ft |-> "OOMKilled", container |-> s[i].name]>>
    BY <1>1, <1>2, <1>3, AboutFirst DEF OOMAnswer
  <2> HIDE DEF i
  <2> QED
    BY <2>1 DEF OOMs, Said, Explains
<1>4. ASSUME Failed(s) # {} PROVE Said(Head(InitAnswer(s)), s)
  <2> DEFINE i == First(Failed(s))
  <2>1. i \in Failed(s) /\ InitAnswer(s) = <<[ft |-> "InitContainerError", container |-> s[i].name]>>
    BY <1>1, <1>2, <1>4, AboutFirst DEF InitAnswer
  <2> HIDE DEF i
  <2> QED
    BY <2>1 DEF Failed, Said, Explains
<1>5. ASSUME Backing(s) # {} PROVE Said(Head(StuckAnswer(s)), s)
  <2> DEFINE i == First(Backing(s))
  <2>1. i \in Backing(s) /\ StuckAnswer(s) = <<[ft |-> StuckAs(s[i]), container |-> s[i].name]>>
    BY <1>1, <1>2, <1>5, AboutFirst DEF StuckAnswer
  <2> HIDE DEF i
  <2>2. Stuck(s[i]) /\ i \in 1 .. Len(s)
    BY <2>1 DEF Backing
  <2>3. StuckAs(s[i]) # "OOMKilled"
    BY DEF StuckAs
  <2>4. StuckAs(s[i]) = "CrashLoopBackOff" => WaitsFor(s[i], {"CrashLoopBackOff"})
    BY <2>2 DEF StuckAs, Stuck, WaitsFor
  <2> QED
    BY <2>1, <2>2, <2>3, <2>4 DEF Said, Explains
<1> QED
  BY <1>3, <1>4, <1>5

\* The class of a pod, in order of preference.
LEMMA ClassIs ==
    ASSUME inits \in Seq(Status), apps \in Seq(Status)
    PROVE  /\ Class \in Answers \cup {None}
           /\ OOMs(apps) # {} \/ OOMs(inits) # {} => Class # None /\ Class.ft = "OOMKilled"
           /\ Failed(inits) # {} => Class # None /\ Class.ft # "PendingScheduling"
           /\ Backing(apps) # {} => Class # None /\ Class.ft # "PendingScheduling"
           /\ OOMs(apps) = {} /\ OOMs(inits) = {} /\ Failed(inits) = {} /\ Backing(apps) = {} =>
                Class = IF PendingScheduling(pod) = <<>> THEN None
                        ELSE Head(PendingScheduling(pod))
           /\ Class # None =>
                Class.ft = "PendingScheduling" \/ Said(Class, apps) \/ Said(Class, inits)
<1> DEFINE a == OOMAnswer(apps)
           b == OOMAnswer(inits)
           c == InitAnswer(inits)
           d == StuckAnswer(apps)
           e == PendingScheduling(pod)
<1>1. pod.inits = inits /\ pod.apps = apps
  BY DEF pod
<1>2. Candidates(pod) = a \o b \o c \o d \o e
  BY <1>1, CandidatesInOrder
<1>3. /\ OOMs(apps) \in SUBSET (1 .. Len(apps)) /\ OOMs(inits) \in SUBSET (1 .. Len(inits))
      /\ Failed(inits) \in SUBSET (1 .. Len(inits)) /\ Backing(apps) \in SUBSET (1 .. Len(apps))
  BY DEF OOMs, Failed, Backing
<1>4. /\ {"OOMKilled", "InitContainerError"} \subseteq FailureTypes
      /\ \A x: StuckAs(x) \in FailureTypes \ {"PendingScheduling"}
  BY DEF FailureTypes, StuckAs
<1>5. /\ a \in Seq(Answers) /\ (a = <<>> <=> OOMs(apps) = {})
      /\ a # <<>> => Head(a).ft = "OOMKilled"
  BY <1>3, <1>4, AboutFirst DEF OOMAnswer
<1>6. /\ b \in Seq(Answers) /\ (b = <<>> <=> OOMs(inits) = {})
      /\ b # <<>> => Head(b).ft = "OOMKilled"
  BY <1>3, <1>4, AboutFirst DEF OOMAnswer
<1>7. /\ c \in Seq(Answers) /\ (c = <<>> <=> Failed(inits) = {})
      /\ c # <<>> => Head(c).ft = "InitContainerError"
  BY <1>3, <1>4, AboutFirst DEF InitAnswer
<1>8. /\ d \in Seq(Answers) /\ (d = <<>> <=> Backing(apps) = {})
      /\ d # <<>> => Head(d).ft # "PendingScheduling"
  BY <1>3, <1>4, AboutFirst DEF StuckAnswer
<1>9. e \in Seq(Answers) /\ (e # <<>> => Head(e).ft = "PendingScheduling")
  BY <1>1, PendingType
<1>9a. /\ a # <<>> => Said(Head(a), apps)
       /\ b # <<>> => Said(Head(b), inits)
       /\ c # <<>> => Said(Head(c), inits)
       /\ d # <<>> => Said(Head(d), apps)
  BY <1>5, <1>6, <1>7, <1>8, SaidOfFirst
<1>10. None \notin Answers
  BY StatusAssumption DEF Answers, ContainerNames
<1> HIDE DEF a, b, c, d, e
<1>11. /\ a \o b \in Seq(Answers) /\ a \o b \o c \in Seq(Answers)
       /\ a \o b \o c \o d \in Seq(Answers) /\ Candidates(pod) \in Seq(Answers)
  BY <1>2, <1>5, <1>6, <1>7, <1>8, <1>9, FirstCandidate
<1>12. ASSUME Candidates(pod) # <<>>
       PROVE  Class = Head(Candidates(pod)) /\ Class \in Answers /\ Class # None
  BY <1>10, <1>11, <1>12 DEF Class, Classify
<1>13. Candidates(pod) = <<>> => Class = None
  BY DEF Class, Classify
<1>14. CASE a # <<>>
  <2>1. Candidates(pod) # <<>> /\ Head(Candidates(pod)) = Head(a)
    BY <1>2, <1>5, <1>6, <1>7, <1>8, <1>9, <1>11, <1>14, FirstCandidate
  <2> QED
    BY <1>5, <1>12, <1>14, <1>9a, <2>1
<1>15. CASE a = <<>> /\ b # <<>>
  <2>1. a \o b = b
    BY <1>5, <1>6, <1>15, FirstCandidate
  <2>2. Candidates(pod) # <<>> /\ Head(Candidates(pod)) = Head(b)
    BY <1>2, <1>6, <1>7, <1>8, <1>9, <1>11, <1>15, <2>1, FirstCandidate
  <2> QED
    BY <1>5, <1>6, <1>12, <1>15, <1>9a, <2>2
<1>16. CASE a = <<>> /\ b = <<>> /\ c # <<>>
  <2>1. a \o b \o c = c
    BY <1>5, <1>6, <1>7, <1>16, FirstCandidate
  <2>2. Candidates(pod) # <<>> /\ Head(Candidates(pod)) = Head(c)
    BY <1>2, <1>7, <1>8, <1>9, <1>11, <1>16, <2>1, FirstCandidate
  <2> QED
    BY <1>5, <1>6, <1>7, <1>12, <1>16, <1>9a, <2>2
<1>17. CASE a = <<>> /\ b = <<>> /\ c = <<>> /\ d # <<>>
  <2>1. a \o b \o c \o d = d
    BY <1>5, <1>6, <1>7, <1>8, <1>11, <1>17, FirstCandidate
  <2>2. Candidates(pod) # <<>> /\ Head(Candidates(pod)) = Head(d)
    BY <1>2, <1>8, <1>9, <1>11, <1>17, <2>1, FirstCandidate
  <2> QED
    BY <1>5, <1>6, <1>7, <1>8, <1>12, <1>17, <1>9a, <2>2
<1>18. CASE a = <<>> /\ b = <<>> /\ c = <<>> /\ d = <<>>
  <2>1. a \o b \o c \o d = <<>>
    BY <1>5, <1>6, <1>7, <1>8, <1>11, <1>18, FirstCandidate
  <2>2. Candidates(pod) = e
    BY <1>2, <1>9, <1>11, <2>1, FirstCandidate
  <2> QED
    BY <1>5, <1>6, <1>7, <1>8, <1>9, <1>12, <1>13, <1>18, <2>2 DEF e
<1> QED
  BY <1>14, <1>15, <1>16, <1>17, <1>18

---------------------------------------------------------------------------
(* What follows for the pods that the controller sees.                     *)

\* What every status is known to be, wherever it is listed.
LEMMA PodParts ==
    ASSUME PodOK
    PROVE  /\ inits \in Seq(Status) /\ apps \in Seq(Status)
           /\ \A i \in 1 .. Len(inits): LifeOK(inits[i]) /\ inits[i].name = InitNames[i]
           /\ \A i \in 1 .. Len(apps): LifeOK(apps[i]) /\ apps[i].name = AppNames[i]
           /\ inits # <<>> => Len(inits) = Len(InitNames)
           /\ apps # <<>> => sched = "" /\ Len(apps) = Len(AppNames)
<1>1. CASE inits = <<>> /\ apps = <<>>
  BY <1>1
<1>2. CASE Listed(inits, InitNames) /\ Listed(apps, AppNames)
  <2>1. apps # <<>> => sched = ""
    BY DEF PodOK
  <2> QED
    BY <1>2, <2>1 DEF Listed
<1> QED
  BY <1>1, <1>2 DEF PodOK

LEMMA PodTypes == PodOK => TypeOK
<1> SUFFICES ASSUME PodOK PROVE TypeOK
  OBVIOUS
<1>1. inits \in Seq(Status) /\ apps \in Seq(Status)
  BY PodParts
<1>2. Class \in {None} \cup Answers
  BY <1>1, ClassIs
<1> QED
  BY <1>1, <1>2 DEF PodOK, TypeOK, Answers, ContainerNames

\* For any containers, restart policies and statuses, Classify answers with a
\* failure class and a container of the pod, or not at all.
THEOREM ClassesAreOfThePod == Spec => []TypeOK
BY PodTypes, PodInvariant, PTL

LEMMA NoInitPending == PodOK => PendingNamesNoInit
<1> SUFFICES ASSUME PodOK, Class # None, Class.ft = "PendingScheduling"
             PROVE  Class.container \notin ToSet(InitNames)
  BY DEF PendingNamesNoInit
<1>1. inits \in Seq(Status) /\ apps \in Seq(Status)
  BY PodParts
<1>2. /\ OOMs(apps) = {} /\ OOMs(inits) = {} /\ Failed(inits) = {} /\ Backing(apps) = {}
  BY <1>1, ClassIs
<1>3. PendingScheduling(pod) # <<>> /\ Class = Head(PendingScheduling(pod))
  BY <1>1, <1>2, ClassIs
<1>4. pod.inits = inits /\ pod.apps = apps
  BY DEF pod
\* A configuration error of an init container is one of its failures.
<1>5. Misconfigured(inits) = {}
  BY <1>2 DEF Misconfigured, Failed, ConfigError, InitContainerFailure, WaitsFor, ErrorReasons
<1>6. CASE Class.container = None
  <2>1. None \notin ContainerNames
    BY StatusAssumption DEF ContainerNames
  <2>2. \A n \in ToSet(InitNames): n \in ContainerNames
    BY NamesApart DEF ToSet
  <2> QED
    BY <1>6, <2>1, <2>2
<1>7. ASSUME NEW i \in Misconfigured(apps), Class.container = apps[i].name
      PROVE  Class.container \notin ToSet(InitNames)
  <2>1. i \in 1 .. Len(AppNames) /\ apps[i].name = AppNames[i]
    <3>1. i \in 1 .. Len(apps)
      BY DEF Misconfigured
    <3>2. apps # <<>>
      BY <1>1, <3>1
    <3> QED
      BY <3>1, <3>2, PodParts
  <2>2. \A j \in 1 .. Len(InitNames): InitNames[j] # AppNames[i]
    BY <2>1, NamesApart
  <2> QED
    BY <1>7, <2>1, <2>2, NamesApart DEF ToSet
<1> QED
  BY <1>1, <1>3, <1>4, <1>5, <1>6, <1>7, PendingType

\* The branch of classifyPendingScheduling for init containers is dead code, for
\* any init containers and whatever keeps them from starting.
THEOREM PendingIsNotAboutInits == Spec => []PendingNamesNoInit
BY NoInitPending, PodInvariant, PTL

LEMMA Noticed == PodOK => FailuresNoticed
<1> SUFFICES ASSUME PodOK,
                    \/ NotScheduled /\ sched \in {"Unschedulable", "FailedScheduling"}
                    \/ \E i \in DOMAIN inits: ~Completed(inits[i]) /\ inits[i].exit # None
                    \/ \E c \in ToSet(inits \o apps): c.wait # None /\ c.wait.reason \in
                         {"CrashLoopBackOff", "ErrImagePull", "ImagePullBackOff"}
             PROVE  Class # None
  BY DEF FailuresNoticed
<1>1. inits \in Seq(Status) /\ apps \in Seq(Status)
  BY PodParts
<1>2. CASE NotScheduled /\ sched \in {"Unschedulable", "FailedScheduling"}
  <2>1. pod.phase = "Pending" /\ pod.sched = sched /\ pod.inits = inits /\ pod.apps = apps
    BY <1>2 DEF pod, Phase
  <2>2. PendingScheduling(pod) # <<>>
    BY <1>1, <1>2, <2>1, PendingType
  <2>3. Head(PendingScheduling(pod)) # None
    <3>1. PendingScheduling(pod) \in Seq(Answers)
      BY <1>1, <2>1, PendingType
    <3>2. None \notin Answers
      BY StatusAssumption DEF Answers, ContainerNames
    <3> QED
      BY <2>2, <3>1, <3>2
  <2> QED
    BY <1>1, <2>2, <2>3, ClassIs
<1>3. ASSUME NEW i \in 1 .. Len(inits), InitContainerFailure(inits[i])
      PROVE  Class # None
  BY <1>1, <1>3, ClassIs DEF Failed
<1>4. ASSUME NEW i \in 1 .. Len(apps), Stuck(apps[i])
      PROVE  Class # None
  BY <1>1, <1>4, ClassIs DEF Backing
<1>5. ASSUME NEW i \in DOMAIN inits, ~Completed(inits[i]) /\ inits[i].exit # None
      PROVE  Class # None
  BY <1>1, <1>3, <1>5 DEF Completed, InitContainerFailure
<1>6. ASSUME NEW c \in ToSet(inits \o apps), c.wait # None,
             c.wait.reason \in {"CrashLoopBackOff", "ErrImagePull", "ImagePullBackOff"}
      PROVE  Class # None
  <2>1. Stuck(c) /\ InitContainerFailure(c)
    BY <1>6 DEF Stuck, InitContainerFailure, WaitsFor, PullReasons
  <2>2. \/ \E i \in 1 .. Len(inits): c = inits[i]
        \/ \E i \in 1 .. Len(apps): c = apps[i]
    BY <1>1 DEF ToSet
  <2> QED
    BY <1>3, <1>4, <2>1, <2>2
<1> QED
  BY <1>2, <1>5, <1>6

\* No pod that cannot be scheduled, initialized or started stays undiagnosed.
THEOREM FailuresAreNoticed == Spec => []FailuresNoticed
BY Noticed, PodInvariant, PTL

LEMMA NoAlarm == PodOK => NoFalseAlarm
<1> SUFFICES ASSUME PodOK, apps # <<>>, Initialized,
                    \A i \in DOMAIN apps: apps[i].wait = None,
                    \A c \in ToSet(inits \o apps): c.last # None => c.last.reason # "OOMKilled"
             PROVE  Class = None
  BY DEF NoFalseAlarm
<1>1. inits \in Seq(Status) /\ apps \in Seq(Status)
  BY PodParts
<1>2. /\ \A i \in 1 .. Len(inits): inits[i] \in ToSet(inits \o apps)
      /\ \A i \in 1 .. Len(apps): apps[i] \in ToSet(inits \o apps)
  <2>1. \A i \in 1 .. Len(inits): i \in DOMAIN (inits \o apps) /\ (inits \o apps)[i] = inits[i]
    BY <1>1
  <2>2. \A i \in 1 .. Len(apps): /\ Len(inits) + i \in DOMAIN (inits \o apps)
                                 /\ (inits \o apps)[Len(inits) + i] = apps[i]
    BY <1>1
  <2> QED
    BY <2>1, <2>2 DEF ToSet
<1>3. OOMs(inits) = {} /\ OOMs(apps) = {}
  BY <1>2 DEF OOMs, OOMKilled
<1>4. \A i \in 1 .. Len(inits): inits[i].wait = None /\ Completed(inits[i])
  <2> TAKE i \in 1 .. Len(inits)
  <2>1. i \in DOMAIN inits
    BY <1>1
  <2>2. Completed(inits[i])
    BY <2>1 DEF Initialized
  <2>3. LifeOK(inits[i])
    BY PodParts
  <2> QED
    BY <2>2, <2>3 DEF Completed, LifeOK
<1>5. Failed(inits) = {} /\ Misconfigured(inits) = {}
  BY <1>4 DEF Failed, Misconfigured, InitContainerFailure, ConfigError, Completed, WaitsFor
<1>6. Backing(apps) = {} /\ Misconfigured(apps) = {}
  BY <1>1 DEF Backing, Misconfigured, Stuck, ConfigError, WaitsFor
<1>7. pod.sched = "" /\ pod.inits = inits /\ pod.apps = apps
  BY PodParts DEF pod
<1>8. PendingScheduling(pod) = <<>>
  BY <1>1, <1>5, <1>6, <1>7, PendingType
<1> QED
  BY <1>1, <1>3, <1>5, <1>6, <1>8, ClassIs

\* A pod that runs is left alone, unless it was short of memory before.
THEOREM NoAlarmIsFalse == Spec => []NoFalseAlarm
BY NoAlarm, PodInvariant, PTL

=============================================================================
