--------------------------- MODULE CollectProofs ---------------------------
(***************************************************************************)
(* Theorems about Collect, for any containers, events, limits and number   *)
(* of requests that fail.                                                  *)
(***************************************************************************)
EXTENDS Collect, PodStatusProofs, FiniteSetTheorems

---------------------------------------------------------------------------
(* The inductive invariant.                                                *)

\* The containers only go forward from what was read of them.
SeenOK ==
    seen.ended # {} \/ seen.ft \in Crashed =>
      /\ apps # <<>> /\ seen.container # None
      /\ \A c \in Named(seen.container):
           /\ seen.ft \in Crashed => PreviousInstance(c) # None
           /\ \A i \in seen.ended:
                /\ CurrentInstance(c) # None /\ CurrentInstance(c) >= i
                /\ seen.ft \in Crashed => PreviousInstance(c) >= i

\* The previous log is asked for of a crash only, and the current one after that
\* was blank or the request failed.
PrevOK ==
    /\ call \in {"idle", "events", "previous"} => prev = None
    /\ call = "previous" => seen.ft \in Crashed
    /\ call = "current" =>
         /\ prev # None => prev.log.lines = 0
         /\ seen.ft \in Crashed => prev # None \/ failures < MaxFailures

\* A prompt has an excerpt of one log, or none.
ShownOK ==
    call = "shown" =>
      \/ shown = Unavailable
      \/ \E i \in 0 .. MaxRestarts, log \in Logs: shown = Excerpt(i, log)

CollectOK ==
    /\ PodOK
    /\ CollectTypeOK
    /\ call # "idle" => seen # None /\ SeenOK
    /\ PrevOK
    /\ ShownOK
    /\ LogsCoverTheFailure

---------------------------------------------------------------------------
(* The instances of a container.                                           *)

\* The numbers that instances have.
LEMMA InstanceType ==
    ASSUME NEW c \in Status, LifeOK(c)
    PROVE  /\ PreviousInstance(c) \in (0 .. MaxRestarts) \cup {None}
           /\ CurrentInstance(c) \in (0 .. MaxRestarts) \cup {None}
           /\ PreviousInstance(c) = None <=> c.last = None
           /\ PreviousInstance(c) # None =>
                CurrentInstance(c) # None /\ CurrentInstance(c) >= PreviousInstance(c)
<1>1. c.restarts \in 0 .. MaxRestarts /\ MaxRestarts \in Nat
  BY StatusAssumption DEF Status
<1>2. \A i \in 0 .. MaxRestarts: i # None
  BY NothingAssumption
<1>3. PICK r \in 0 .. MaxRestarts: r = c.restarts
  BY <1>1
<1>4. CASE c.last = None
  BY <1>1, <1>2, <1>4 DEF PreviousInstance, CurrentInstance
<1>5. CASE c.last # None /\ c.wait # None
  BY <1>1, <1>2, <1>5 DEF PreviousInstance, CurrentInstance
<1>6. CASE c.last # None /\ c.wait = None
  <2>1. r - 1 \in 0 .. MaxRestarts
    BY <1>1, <1>3, <1>6 DEF LifeOK
  <2>2. PreviousInstance(c) = r - 1 /\ CurrentInstance(c) = r
    BY <1>3, <1>6 DEF PreviousInstance, CurrentInstance
  <2> QED
    BY <1>1, <1>2, <1>3, <1>6, <2>1, <2>2
<1> QED
  BY <1>4, <1>5, <1>6

\* No restart takes an instance back.
LEMMA InstanceGrows ==
    ASSUME NEW c \in Status, LifeOK(c), NEW d \in Steps(c)
    PROVE  /\ PreviousInstance(c) # None =>
                PreviousInstance(d) # None /\ PreviousInstance(d) >= PreviousInstance(c)
           /\ CurrentInstance(c) # None =>
                CurrentInstance(d) # None /\ CurrentInstance(d) >= CurrentInstance(c)
<1>1. /\ c.restarts \in 0 .. MaxRestarts /\ MaxRestarts \in Nat
      /\ d \in Status /\ LifeOK(d) /\ d.restarts \in 0 .. MaxRestarts
  BY StatusAssumption, StepForward DEF Status
<1>2. \A i \in 0 .. MaxRestarts: i # None
  BY NothingAssumption
<1>3. None \notin Waits
  BY StatusAssumption
<1>4. PICK r \in 0 .. MaxRestarts: r = c.restarts
  BY <1>1
<1>5. ASSUME d \in Start(c), c.wait # None \/ c.exit # None
      PROVE  /\ d.wait = None /\ d.last = LastExit(c)
             /\ d.restarts = IF LastExit(c) = None THEN 0 ELSE r + 1
  BY <1>4, <1>5 DEF Start, Status
<1>6. ASSUME NEW R, d \in Wait(c, R)
      PROVE  d.wait # None /\ d.last = LastExit(c) /\ d.restarts = r
  BY <1>3, <1>4, <1>6 DEF Wait, Status
<1>7. CASE c.wait # None
  <2>1. LastExit(c) = c.last
    BY <1>7 DEF LastExit, LifeOK
  <2>2. d \in Start(c) \/ d \in Wait(c, Reasons)
    BY <1>7 DEF Steps
  <2>3. CASE c.last = None
    BY <1>2, <2>1, <2>2, <2>3, <1>7 DEF PreviousInstance, CurrentInstance
  <2>4. CASE c.last # None /\ d \in Start(c)
    <3>1. d.wait = None /\ d.last # None /\ d.restarts = r + 1
      BY <1>5, <1>7, <2>1, <2>4
    <3>2. PreviousInstance(d) = r /\ CurrentInstance(d) = r + 1
      BY <3>1 DEF PreviousInstance, CurrentInstance
    <3>3. PreviousInstance(c) = r /\ CurrentInstance(c) = r
      BY <1>4, <1>7, <2>4 DEF PreviousInstance, CurrentInstance
    <3>4. r + 1 \in 0 .. MaxRestarts
      BY <1>1, <3>1
    <3> QED
      BY <1>2, <3>2, <3>3, <3>4
  <2>5. CASE c.last # None /\ d \in Wait(c, Reasons)
    <3>1. d.wait # None /\ d.last # None /\ d.restarts = r
      BY <1>6, <2>1, <2>5
    <3> QED
      BY <1>2, <1>4, <1>7, <2>5, <3>1 DEF PreviousInstance, CurrentInstance
  <2> QED
    BY <2>2, <2>3, <2>4, <2>5
<1>8. CASE c.wait = None /\ c.exit = None
  <2>1. d.wait = c.wait /\ d.last = c.last /\ d.restarts = c.restarts
    BY <1>8 DEF Steps, Status
  <2> QED
    BY <1>1, <1>2, <1>8, <2>1, InstanceType DEF PreviousInstance, CurrentInstance
<1>9. CASE c.wait = None /\ c.exit # None
  <2>1. LastExit(c) # None
    BY <1>9 DEF LastExit
  <2>2. d \in Start(c) \/ d \in Wait(c, Reasons \cup {"CrashLoopBackOff"})
    BY <1>9 DEF Steps
  <2>3. CurrentInstance(c) = r /\ (PreviousInstance(c) # None => PreviousInstance(c) = r - 1)
    BY <1>4, <1>9 DEF PreviousInstance, CurrentInstance
  <2>4. CASE d \in Start(c)
    <3>1. d.wait = None /\ d.last # None /\ d.restarts = r + 1
      BY <1>5, <1>9, <2>1, <2>4
    <3>2. PreviousInstance(d) = r /\ CurrentInstance(d) = r + 1
      BY <3>1 DEF PreviousInstance, CurrentInstance
    <3>3. r + 1 \in 0 .. MaxRestarts
      BY <1>1, <3>1
    <3> QED
      BY <1>2, <2>3, <3>2, <3>3
  <2>5. CASE d \in Wait(c, Reasons \cup {"CrashLoopBackOff"})
    <3>1. d.wait # None /\ d.last # None /\ d.restarts = r
      BY <1>6, <2>1, <2>5
    <3>2. PreviousInstance(d) = r /\ CurrentInstance(d) = r
      BY <3>1 DEF PreviousInstance, CurrentInstance
    <3> QED
      BY <1>2, <2>3, <3>2
  <2> QED
    BY <2>2, <2>4, <2>5
<1> QED
  BY <1>7, <1>8, <1>9

---------------------------------------------------------------------------
(* The named container.                                                    *)

Listing == Listed(inits, InitNames) /\ Listed(apps, AppNames)

LEMMA ListedTogether == ASSUME PodOK, apps # <<>> \/ inits # <<>> PROVE Listing
BY DEF PodOK, Listing

\* Where the containers of a pod are.
LEMMA Contained ==
    ASSUME NEW S, NEW s \in Seq(S), NEW t \in Seq(S), NEW c \in ToSet(s \o t)
    PROVE  \/ \E i \in 1 .. Len(s): c = s[i]
           \/ \E i \in 1 .. Len(t): c = t[i]
BY DEF ToSet

LEMMA ContainedIn ==
    ASSUME NEW s \in Seq(Status), NEW t \in Seq(Status)
    PROVE  /\ \A i \in 1 .. Len(s): s[i] \in ToSet(s \o t)
           /\ \A i \in 1 .. Len(t): t[i] \in ToSet(s \o t)
<1>1. \A i \in 1 .. Len(s): i \in DOMAIN (s \o t) /\ (s \o t)[i] = s[i]
  OBVIOUS
<1>2. \A i \in 1 .. Len(t): Len(s) + i \in DOMAIN (s \o t) /\ (s \o t)[Len(s) + i] = t[i]
  OBVIOUS
<1> QED
  BY <1>1, <1>2 DEF ToSet

LEMMA NamedParts ==
    ASSUME PodOK, NEW name, NEW c \in Named(name)
    PROVE  /\ c \in Status /\ c.name = name /\ LifeOK(c)
           /\ name \in ContainerNames /\ apps # <<>> /\ Listing
<1>1. c \in ToSet(inits \o apps) /\ c.name = name
  BY DEF Named
<1>2. inits \in Seq(Status) /\ apps \in Seq(Status)
  BY PodParts
<1>3. \/ \E i \in 1 .. Len(inits): c = inits[i]
      \/ \E i \in 1 .. Len(apps): c = apps[i]
  BY <1>1, <1>2, Contained
<1>4. Listing
  BY <1>2, <1>3, ListedTogether
<1>5. apps # <<>>
  BY <1>4, NamesApart DEF Listing, Listed
<1>6. c \in Status /\ LifeOK(c)
  <2>1. /\ \A i \in 1 .. Len(inits): LifeOK(inits[i])
        /\ \A i \in 1 .. Len(apps): LifeOK(apps[i])
    BY PodParts
  <2>2. /\ \A i \in 1 .. Len(inits): inits[i] \in Status
        /\ \A i \in 1 .. Len(apps): apps[i] \in Status
    BY <1>2
  <2> QED
    BY <1>3, <2>1, <2>2
<1> QED
  BY <1>1, <1>4, <1>5, <1>6, StatusParts

\* A pod on a node has all its containers.
LEMMA NamedExists ==
    ASSUME PodOK, apps # <<>>, NEW name \in ContainerNames
    PROVE  Named(name) # {}
<1>1. /\ inits \in Seq(Status) /\ Len(inits) = Len(InitNames)
      /\ apps \in Seq(Status) /\ Len(apps) = Len(AppNames)
  BY ListedTogether DEF Listing, Listed
<1>2. /\ \A i \in 1 .. Len(inits): inits[i].name = InitNames[i]
      /\ \A i \in 1 .. Len(apps): apps[i].name = AppNames[i]
  BY PodParts
<1>3. \/ \E i \in 1 .. Len(InitNames): name = InitNames[i]
      \/ \E i \in 1 .. Len(AppNames): name = AppNames[i]
  BY NamesApart, Contained DEF ContainerNames
<1> QED
  BY <1>1, <1>2, <1>3, ContainedIn DEF Named

\* A name is that of one container.
LEMMA NamedOnce ==
    ASSUME PodOK, NEW name, NEW c \in Named(name), NEW d \in Named(name)
    PROVE  c = d
<1>1. /\ c \in ToSet(inits \o apps) /\ c.name = name
      /\ d \in ToSet(inits \o apps) /\ d.name = name
  BY DEF Named
<1>2. /\ inits \in Seq(Status) /\ Len(inits) = Len(InitNames)
      /\ apps \in Seq(Status) /\ Len(apps) = Len(AppNames)
  BY NamedParts DEF Listing, Listed
<1>3. /\ \A i \in 1 .. Len(inits): inits[i].name = InitNames[i]
      /\ \A i \in 1 .. Len(apps): apps[i].name = AppNames[i]
  BY PodParts
<1>4. CASE \E i \in 1 .. Len(inits): c = inits[i]
  <2>1. PICK i \in 1 .. Len(inits): c = inits[i]
    BY <1>4
  <2>2. \A j \in 1 .. Len(apps): d # apps[j]
    BY <1>1, <1>2, <1>3, <2>1, NamesApart
  <2>3. PICK j \in 1 .. Len(inits): d = inits[j]
    BY <1>1, <1>2, <2>2, Contained
  <2>4. i = j
    BY <1>1, <1>2, <1>3, <2>1, <2>3, NamesApart DEF Distinct
  <2> QED
    BY <2>1, <2>3, <2>4
<1>5. CASE \E i \in 1 .. Len(apps): c = apps[i]
  <2>1. PICK i \in 1 .. Len(apps): c = apps[i]
    BY <1>5
  <2>2. \A j \in 1 .. Len(inits): d # inits[j]
    BY <1>1, <1>2, <1>3, <2>1, NamesApart
  <2>3. PICK j \in 1 .. Len(apps): d = apps[j]
    BY <1>1, <1>2, <2>2, Contained
  <2>4. i = j
    BY <1>1, <1>2, <1>3, <2>1, <2>3, NamesApart DEF Distinct
  <2> QED
    BY <2>1, <2>3, <2>4
<1> QED
  BY <1>1, <1>2, <1>4, <1>5, Contained

\* The container that has a name had it before, and took at most one step.
LEMMA NamedStep ==
    ASSUME PodOK, [Next]_vars, apps # <<>>
    PROVE  /\ apps' # <<>>
           /\ \A name: \A c \in Named(name)':
                \E d \in Named(name): c = d \/ c \in Steps(d)
<1>1. /\ inits \in Seq(Status) /\ apps \in Seq(Status)
      /\ \A i \in 1 .. Len(inits): LifeOK(inits[i])
      /\ \A i \in 1 .. Len(apps): LifeOK(apps[i])
  BY PodParts
<1>2. ASSUME NEW s \in Seq(Status), NEW i \in DOMAIN s, LifeOK(s[i]), NEW d \in Steps(s[i])
      PROVE  /\ i \in 1 .. Len(s) /\ [s EXCEPT ![i] = d] \in Seq(Status)
             /\ Len([s EXCEPT ![i] = d]) = Len(s)
             /\ d.name = s[i].name /\ [s EXCEPT ![i] = d][i] = d
             /\ \A j \in 1 .. Len(s): j # i => [s EXCEPT ![i] = d][j] = s[j]
  <2>1. i \in 1 .. Len(s) /\ s[i] \in Status
    OBVIOUS
  <2>2. d \in Status /\ d.name = s[i].name
    BY <1>2, <2>1, StepForward
  <2> QED
    BY <2>1, <2>2
<1>3. CASE UNCHANGED vars
  BY <1>3 DEF vars, Named
<1>4. ASSUME NEW i \in DOMAIN inits, InitStep(i)
      PROVE  /\ apps' # <<>>
             /\ \A name: \A c \in Named(name)': \E d \in Named(name): c = d \/ c \in Steps(d)
  <2>1. PICK e \in Steps(inits[i]): inits' = [inits EXCEPT ![i] = e] /\ apps' = apps
    BY <1>4 DEF InitStep
  <2>2. /\ i \in 1 .. Len(inits) /\ inits' \in Seq(Status) /\ Len(inits') = Len(inits)
        /\ e.name = inits[i].name /\ inits'[i] = e
        /\ \A j \in 1 .. Len(inits): j # i => inits'[j] = inits[j]
    BY <1>1, <1>2, <2>1
  <2>3. ASSUME NEW name, NEW c \in Named(name)'
        PROVE  \E d \in Named(name): c = d \/ c \in Steps(d)
    <3> DEFINE s == inits'
               t == apps'
    <3>1. c \in ToSet(s \o t) /\ c.name = name
      BY DEF Named
    <3>2. s \in Seq(Status) /\ t \in Seq(Status)
      BY <1>1, <2>1, <2>2
    <3>3. (\E j \in 1 .. Len(s): c = s[j]) \/ (\E j \in 1 .. Len(t): c = t[j])
      <4> HIDE DEF s, t
      <4> QED
        BY <3>1, <3>2, Contained
    <3>4. \/ \E j \in 1 .. Len(inits): c = inits'[j]
          \/ \E j \in 1 .. Len(apps): c = apps[j]
      BY <2>1, <2>2, <3>3
    <3>5. CASE c = e
      <4>1. inits[i] \in Named(name)
        BY <1>1, <2>2, <3>1, <3>5, ContainedIn DEF Named
      <4> QED
        BY <3>5, <4>1
    <3>6. CASE c # e
      <4>1. c \in ToSet(inits \o apps)
        BY <1>1, <2>2, <3>4, <3>6, ContainedIn
      <4> QED
        BY <3>1, <4>1 DEF Named
    <3> QED
      BY <3>5, <3>6
  <2> QED
    BY <2>1, <2>3
<1>5. ASSUME NEW i \in DOMAIN apps, AppStep(i)
      PROVE  /\ apps' # <<>>
             /\ \A name: \A c \in Named(name)': \E d \in Named(name): c = d \/ c \in Steps(d)
  <2>1. PICK e \in Steps(apps[i]): apps' = [apps EXCEPT ![i] = e] /\ inits' = inits
    BY <1>5 DEF AppStep
  <2>2. /\ i \in 1 .. Len(apps) /\ apps' \in Seq(Status) /\ Len(apps') = Len(apps)
        /\ e.name = apps[i].name /\ apps'[i] = e
        /\ \A j \in 1 .. Len(apps): j # i => apps'[j] = apps[j]
    BY <1>1, <1>2, <2>1
  <2>3. ASSUME NEW name, NEW c \in Named(name)'
        PROVE  \E d \in Named(name): c = d \/ c \in Steps(d)
    <3> DEFINE s == inits'
               t == apps'
    <3>1. c \in ToSet(s \o t) /\ c.name = name
      BY DEF Named
    <3>2. s \in Seq(Status) /\ t \in Seq(Status)
      BY <1>1, <2>1, <2>2
    <3>3. (\E j \in 1 .. Len(s): c = s[j]) \/ (\E j \in 1 .. Len(t): c = t[j])
      <4> HIDE DEF s, t
      <4> QED
        BY <3>1, <3>2, Contained
    <3>4. \/ \E j \in 1 .. Len(inits): c = inits[j]
          \/ \E j \in 1 .. Len(apps): c = apps'[j]
      BY <2>1, <2>2, <3>3
    <3>5. CASE c = e
      <4>1. apps[i] \in Named(name)
        BY <1>1, <2>2, <3>1, <3>5, ContainedIn DEF Named
      <4> QED
        BY <3>5, <4>1
    <3>6. CASE c # e
      <4>1. c \in ToSet(inits \o apps)
        BY <1>1, <2>2, <3>4, <3>6, ContainedIn
      <4> QED
        BY <3>1, <4>1 DEF Named
    <3> QED
      BY <3>5, <3>6
  <2>4. apps' # <<>>
    BY <1>1, <2>2
  <2> QED
    BY <2>3, <2>4
<1> QED
  BY <1>3, <1>4, <1>5 DEF Next, Unschedulable, Scheduled, NotScheduled

---------------------------------------------------------------------------
(* Excerpts.                                                               *)

LEMMA LogParts ==
    ASSUME NEW log \in Logs
    PROVE  log.lines \in 0 .. MaxLines /\ log.width \in Nat \ {0}
<1>1. MaxLines \in Nat /\ Widths \subseteq Nat \ {0}
  BY LogAssumption
<1>2. CASE log \in [lines: {0}, width: {1}]
  BY <1>1, <1>2
<1>3. CASE log \in [lines: 1 .. MaxLines, width: Widths]
  <2>1. PICK n \in 1 .. MaxLines: n = log.lines
    BY <1>3
  <2>2. n \in 0 .. MaxLines
    BY <1>1
  <2>3. log.width \in Widths
    BY <1>3
  <2>4. log.width \in Nat \ {0}
    BY <1>1, <2>3
  <2> QED
    BY <2>1, <2>2, <2>4
<1> QED
  BY <1>2, <1>3 DEF Logs

\* Dividing by a width.
LEMMA Quotient ==
    ASSUME NEW m \in Nat, NEW w \in Nat \ {0}
    PROVE  m \div w \in Nat /\ \A n \in Nat: m \div w < n => w * n > m
<1>1. m \div w \in Nat
  OBVIOUS
<1>2. m < w * (m \div w + 1)
  OBVIOUS
<1> QED
  BY <1>1, <1>2

LEMMA ExcerptType ==
    ASSUME NEW i \in 0 .. MaxRestarts, NEW log \in Logs
    PROVE  /\ Excerpt(i, log) \in Excerpts
           /\ Excerpt(i, log) # Unavailable /\ Excerpt(i, log) # None
           /\ Excerpt(i, log).instance = i /\ Excerpt(i, log).log = log
<1>1. MaxLines \in Nat \ {0} /\ TailLines \in Nat \ {0} /\ MaxLogRunes \in Nat
  BY LogAssumption
<1>2. log.lines \in 0 .. MaxLines /\ log.width \in Nat \ {0}
  BY LogParts
<1>3. MaxLogRunes \div log.width \in Nat
  BY <1>1, <1>2, Quotient
<1>4. FirstLine(log) \in 1 .. MaxLines
  BY <1>1, <1>2 DEF FirstLine
<1>5. TrimRunes(log) \in 0 .. MaxLines
  BY <1>1, <1>2, <1>3, <1>4 DEF TrimRunes
<1>6. Excerpt(i, log) \in Excerpts
  BY <1>4, <1>5 DEF Excerpt, Excerpts
<1> QED
  BY <1>6, NothingAssumption DEF Excerpt

LEMMA EndOfExcerpt ==
    ASSUME NEW i \in 0 .. MaxRestarts, NEW log \in Logs
    PROVE  \/ Excerpt(i, log).last = log.lines
           \/ log.width * (IF log.lines < TailLines THEN log.lines ELSE TailLines) > MaxLogRunes
<1> DEFINE q == MaxLogRunes \div log.width
           n == IF log.lines < TailLines THEN log.lines ELSE TailLines
<1>1. MaxLines \in Nat \ {0} /\ TailLines \in Nat \ {0} /\ MaxLogRunes \in Nat
  BY LogAssumption
<1>2. log.lines \in 0 .. MaxLines /\ log.width \in Nat \ {0}
  BY LogParts
<1>3. q \in Nat /\ n \in Nat
  BY <1>1, <1>2, Quotient
<1>4. Excerpt(i, log).last = TrimRunes(log)
  BY DEF Excerpt
<1>5. TrimRunes(log) = IF FirstLine(log) + q - 1 < log.lines THEN FirstLine(log) + q - 1
                       ELSE log.lines
  BY DEF TrimRunes
<1>6. FirstLine(log) + n - 1 = log.lines
  BY <1>1, <1>2 DEF FirstLine
<1>7. FirstLine(log) \in Nat
  BY <1>1, <1>2 DEF FirstLine
<1>8. q < n => log.width * n > MaxLogRunes
  BY <1>1, <1>2, <1>3, Quotient
<1> HIDE DEF q
<1>9. ~(q < n) => ~(FirstLine(log) + q - 1 < log.lines)
  <2> HIDE DEF n
  <2> QED
    BY <1>3, <1>6, <1>7
<1> QED
  BY <1>4, <1>5, <1>8, <1>9

---------------------------------------------------------------------------
(* CollectOK is inductive.                                                 *)

LEMMA CollectStart == CollectInit => CollectOK
<1> SUFFICES ASSUME CollectInit PROVE CollectOK
  OBVIOUS
<1>1. PodOK
  BY PodStart DEF CollectInit
<1>2. call = "idle" /\ seen = None /\ prev = None /\ shown = None /\ failures = MaxFailures
  BY DEF CollectInit
<1>3. MaxFailures \in Nat
  BY LogAssumption
<1>4. CollectTypeOK
  BY <1>2, <1>3 DEF CollectTypeOK
<1> QED
  BY <1>1, <1>2, <1>4 DEF CollectOK, PrevOK, ShownOK, LogsCoverTheFailure

\* What is read of the pod stays behind it while it takes steps.
LEMMA SeenBehind ==
    ASSUME PodOK, [Next]_vars, seen \in Readings, SeenOK, seen' = seen
    PROVE  SeenOK'
<1> SUFFICES ASSUME seen.ended # {} \/ seen.ft \in Crashed
             PROVE  /\ apps' # <<>> /\ seen.container # None
                    /\ \A c \in Named(seen.container)':
                         /\ seen.ft \in Crashed => PreviousInstance(c) # None
                         /\ \A i \in seen.ended:
                              /\ CurrentInstance(c) # None /\ CurrentInstance(c) >= i
                              /\ seen.ft \in Crashed => PreviousInstance(c) >= i
  BY DEF SeenOK, Named
<1>1. /\ apps # <<>> /\ seen.container # None
      /\ \A c \in Named(seen.container):
           /\ seen.ft \in Crashed => PreviousInstance(c) # None
           /\ \A i \in seen.ended:
                /\ CurrentInstance(c) # None /\ CurrentInstance(c) >= i
                /\ seen.ft \in Crashed => PreviousInstance(c) >= i
  BY DEF SeenOK
<1>2. apps' # <<>> /\ \A c \in Named(seen.container)':
        \E d \in Named(seen.container): c = d \/ c \in Steps(d)
  <2>1. apps' # <<>> /\ \A name: \A c \in Named(name)':
          \E d \in Named(name): c = d \/ c \in Steps(d)
    BY <1>1, NamedStep
  <2>2. Named(seen.container)' = {c \in ToSet(inits' \o apps'): c.name = seen.container}
    BY DEF Named
  <2>3. PICK name: name = seen.container
    OBVIOUS
  <2> QED
    BY <2>1, <2>2, <2>3 DEF Named
<1>3. ASSUME NEW c \in Named(seen.container)'
      PROVE  /\ seen.ft \in Crashed => PreviousInstance(c) # None
             /\ \A i \in seen.ended:
                  /\ CurrentInstance(c) # None /\ CurrentInstance(c) >= i
                  /\ seen.ft \in Crashed => PreviousInstance(c) >= i
  <2>1. PICK d \in Named(seen.container): c = d \/ c \in Steps(d)
    BY <1>2
  <2>2. d \in Status /\ LifeOK(d)
    BY NamedParts
  <2>3. c \in Status /\ LifeOK(c)
    BY <2>1, <2>2, StepForward
  <2>4. /\ PreviousInstance(d) # None =>
             PreviousInstance(c) # None /\ PreviousInstance(c) >= PreviousInstance(d)
        /\ CurrentInstance(d) # None =>
             CurrentInstance(c) # None /\ CurrentInstance(c) >= CurrentInstance(d)
    <3>1. CASE c \in Steps(d)
      BY <2>2, <3>1, InstanceGrows
    <3>2. CASE c = d
      BY <2>2, <3>2, InstanceType
    <3> QED
      BY <2>1, <3>1, <3>2
  <2>5. /\ PreviousInstance(d) \in Nat \cup {None} /\ CurrentInstance(d) \in Nat \cup {None}
        /\ PreviousInstance(c) \in Nat \cup {None} /\ CurrentInstance(c) \in Nat \cup {None}
    BY <2>2, <2>3, InstanceType
  <2>6. seen.ended \subseteq Nat
    BY DEF Readings
  <2>7. /\ seen.ft \in Crashed => PreviousInstance(d) # None
        /\ \A i \in seen.ended:
             /\ CurrentInstance(d) # None /\ CurrentInstance(d) >= i
             /\ seen.ft \in Crashed => PreviousInstance(d) >= i
    BY <1>1, <2>1
  <2>8. ASSUME NEW i \in seen.ended
        PROVE  CurrentInstance(c) # None /\ CurrentInstance(c) >= i
    BY <2>4, <2>5, <2>6, <2>7
  <2>9. ASSUME NEW i \in seen.ended, seen.ft \in Crashed
        PROVE  PreviousInstance(c) >= i
    BY <2>4, <2>5, <2>6, <2>7, <2>9
  <2> QED
    BY <2>4, <2>7, <2>8, <2>9
<1> QED
  BY <1>1, <1>2, <1>3

\* What Read reads of the pod.
LEMMA ReadBehind ==
    ASSUME PodOK, Read
    PROVE  seen' \in Readings /\ SeenOK'
<1> DEFINE ft == Class.ft
           name == Class.container
<1>1. /\ Class # None
      /\ seen' = [ft |-> ft, container |-> name,
                  ended |-> {Ended(ft, c): c \in Named(name)} \ {None}]
      /\ UNCHANGED <<policy, sched, inits, apps, past>>
  BY DEF Read, vars
<1>2. inits \in Seq(Status) /\ apps \in Seq(Status)
  BY PodParts
<1>3. ft \in FailureTypes /\ name \in ContainerNames \cup {None}
  BY <1>1, <1>2, ClassIs DEF Answers
<1>4. ft \in Crashed => \E c \in Named(name): c.last # None
  <2> SUFFICES ASSUME ft \in Crashed PROVE \E c \in Named(name): c.last # None
    OBVIOUS
  <2>1. ft # "PendingScheduling"
    BY DEF Crashed
  <2>2. Said(Class, apps) \/ Said(Class, inits)
    BY <1>1, <1>2, <2>1, ClassIs
  <2>3. ASSUME NEW s \in {inits, apps}, Said(Class, s)
        PROVE  \E c \in ToSet(inits \o apps): Explains(c, Class) /\ LifeOK(c)
    <3>1. PICK i \in 1 .. Len(s): Explains(s[i], Class)
      BY <2>3 DEF Said
    <3>2. LifeOK(s[i])
      BY <3>1, PodParts
    <3>3. s[i] \in ToSet(inits \o apps)
      BY <1>2, <3>1, ContainedIn
    <3> QED
      BY <3>1, <3>2, <3>3
  <2>4. PICK c \in ToSet(inits \o apps): Explains(c, Class) /\ LifeOK(c)
    BY <2>2, <2>3
  <2> QED
    BY <2>4 DEF Named, Explains, Crashed, OOMKilled, LifeOK
<1>5. ASSUME NEW c \in Named(name)
      PROVE  /\ Ended(ft, c) \in (0 .. MaxRestarts) \cup {None}
             /\ Ended(ft, c) # None => CurrentInstance(c) # None /\ CurrentInstance(c) >= Ended(ft, c)
             /\ ft \in Crashed => Ended(ft, c) = PreviousInstance(c)
  <2>1. c \in Status /\ LifeOK(c)
    BY NamedParts
  <2>2. CASE ft = "InitContainerError" /\ c.exit # None
    <3>1. Ended(ft, c) = c.restarts /\ CurrentInstance(c) = c.restarts
      BY <2>1, <2>2 DEF Ended, CurrentInstance, LifeOK
    <3>2. c.restarts \in 0 .. MaxRestarts
      BY <2>1 DEF Status
    <3> QED
      BY <2>2, <3>1, <3>2, NothingAssumption DEF Crashed
  <2>3. CASE ~(ft = "InitContainerError" /\ c.exit # None)
    <3>1. Ended(ft, c) = PreviousInstance(c)
      BY <2>3 DEF Ended
    <3> QED
      BY <2>1, <3>1, InstanceType
  <2> QED
    BY <2>2, <2>3
<1>6. seen' \in Readings
  BY <1>1, <1>3, <1>5 DEF Readings, ContainerNames
<1>7. ASSUME seen'.ended # {} \/ seen'.ft \in Crashed
      PROVE  \E c \in Named(name): TRUE
  BY <1>1, <1>4, <1>7
<1>8. ASSUME NEW c \in Named(name)
      PROVE  /\ seen'.ft \in Crashed => PreviousInstance(c) # None
             /\ \A i \in seen'.ended:
                  /\ CurrentInstance(c) # None /\ CurrentInstance(c) >= i
                  /\ seen'.ft \in Crashed => PreviousInstance(c) >= i
  <2>1. \A d \in Named(name): d = c
    BY NamedOnce
  <2>2. c \in Status /\ LifeOK(c)
    BY NamedParts
  <2>3. seen'.ended = {Ended(ft, c)} \ {None} /\ seen'.ft = ft
    BY <1>1, <2>1
  <2>4. ft \in Crashed => c.last # None
    BY <1>4, <2>1
  <2>5. PreviousInstance(c) \in Nat \cup {None}
    BY <2>2, InstanceType
  <2> HIDE DEF ft, name
  <2>6. ft \in Crashed => PreviousInstance(c) # None
    BY <2>2, <2>4, InstanceType
  <2>7. ft \in Crashed /\ Ended(ft, c) # None => PreviousInstance(c) >= Ended(ft, c)
    BY <1>5, <2>5
  <2> QED
    BY <1>5, <2>3, <2>6, <2>7
<1>9. ASSUME NEW c \in Named(name)
      PROVE  apps # <<>> /\ name # None
  <2>1. apps # <<>> /\ name \in ContainerNames
    BY NamedParts
  <2> QED
    BY <2>1, StatusAssumption DEF ContainerNames
<1>10. Named(seen.container)' = Named(name) /\ apps' = apps /\ seen'.container = name
  BY <1>1 DEF Named
<1> HIDE DEF ft, name
<1>11. SeenOK'
  BY <1>7, <1>8, <1>9, <1>10 DEF SeenOK
<1> QED
  BY <1>6, <1>11

\* Of the pod nothing has changed.
LEMMA SeenUnchanged ==
    ASSUME SeenOK, UNCHANGED vars, seen' = seen
    PROVE  SeenOK'
BY DEF SeenOK, Named, vars

LEMMA PodUnchanged == ASSUME PodOK, UNCHANGED vars PROVE PodOK'
BY PodStep

LEMMA CollectStep == CollectOK /\ [CollectNext]_collectVars => CollectOK'
<1> SUFFICES ASSUME CollectOK, [CollectNext]_collectVars
             PROVE  CollectOK'
  OBVIOUS
<1>1. PodOK /\ CollectTypeOK /\ PrevOK /\ ShownOK /\ LogsCoverTheFailure
  BY DEF CollectOK
<1>2. call # "idle" => seen \in Readings /\ seen # None /\ SeenOK
  BY DEF CollectOK, CollectTypeOK
<1>3. MaxFailures \in Nat /\ failures \in 0 .. MaxFailures
  BY <1>1, LogAssumption DEF CollectTypeOK
\* A step of the pod, or none.
<1>4. CASE [Next]_vars /\ UNCHANGED <<call, seen, prev, shown, failures>>
  <2>1. PodOK'
    BY <1>1, <1>4, PodStep
  <2>2. call' # "idle" => SeenOK'
    BY <1>1, <1>2, <1>4, SeenBehind
  <2> QED
    BY <1>1, <1>2, <1>4, <2>1, <2>2
       DEF CollectOK, CollectTypeOK, PrevOK, ShownOK, LogsCoverTheFailure
<1>5. CASE Read
  <2>1. PodOK'
    BY <1>1, <1>5, PodUnchanged DEF Read
  <2>2. seen' \in Readings /\ SeenOK'
    BY <1>1, <1>5, ReadBehind
  <2>3. call = "idle" /\ call' = "events" /\ UNCHANGED <<prev, shown, failures>>
    BY <1>5 DEF Read
  <2>4. seen' # None
    BY <2>2, NothingAssumption
  <2> QED
    BY <1>1, <2>1, <2>2, <2>3, <2>4
       DEF CollectOK, CollectTypeOK, PrevOK, ShownOK, LogsCoverTheFailure
<1>6. CASE ListEvents
  <2>1. PodOK' /\ SeenOK'
    BY <1>1, <1>2, <1>6, PodUnchanged, SeenUnchanged DEF ListEvents
  <2>2. /\ call = "events" /\ UNCHANGED <<seen, prev, shown, failures>>
        /\ call' \in {"previous", "current"}
        /\ call' = "previous" <=> seen.ft \in Crashed
    BY <1>6 DEF ListEvents, WantPrevious, Crashed
  <2> QED
    BY <1>1, <1>2, <2>1, <2>2
       DEF CollectOK, CollectTypeOK, PrevOK, ShownOK, LogsCoverTheFailure
<1>7. CASE ReadPrevious
  <2>1. PICK c \in Named(seen.container), log \in Logs:
          /\ prev' = [instance |-> PreviousInstance(c), log |-> log]
          /\ IF NotBlank(log) THEN Show(Excerpt(PreviousInstance(c), log))
             ELSE call' = "current" /\ UNCHANGED shown
    BY <1>7 DEF ReadPrevious
  <2>2. call = "previous" /\ UNCHANGED <<seen, failures>> /\ UNCHANGED vars
    BY <1>7 DEF ReadPrevious
  <2>3. PodOK' /\ SeenOK' /\ seen.ft \in Crashed
    BY <1>1, <1>2, <2>2, PodUnchanged, SeenUnchanged DEF PrevOK
  <2>4. /\ PreviousInstance(c) \in 0 .. MaxRestarts
        /\ \A i \in seen.ended: PreviousInstance(c) >= i
    <3>1. c \in Status /\ LifeOK(c)
      BY <1>1, NamedParts
    <3> QED
      BY <1>2, <2>2, <2>3, <3>1, InstanceType DEF SeenOK
  <2>5. PICK i \in 0 .. MaxRestarts: i = PreviousInstance(c)
    BY <2>4
  <2>6. prev' \in Replies /\ prev' # None /\ prev'.log = log
    BY <2>1, <2>5, NothingAssumption DEF Replies
  <2>7. log.lines \in Nat
    BY LogParts, LogAssumption
  <2>8. CASE NotBlank(log)
    <3>1. call' = "shown" /\ shown' = Excerpt(i, log)
      BY <2>1, <2>5, <2>8 DEF Show
    <3>2. shown' \in Excerpts /\ shown' # Unavailable /\ shown'.instance = i
      BY <3>1, ExcerptType
    <3>3. LogsCoverTheFailure'
      BY <2>2, <2>4, <2>5, <3>2 DEF LogsCoverTheFailure
    <3>4. CollectTypeOK'
      BY <1>1, <2>2, <2>6, <3>1, <3>2 DEF CollectTypeOK
    <3>5. PrevOK' /\ ShownOK'
      BY <3>1 DEF PrevOK, ShownOK
    <3> QED
      BY <1>2, <2>2, <2>3, <3>3, <3>4, <3>5 DEF CollectOK
  <2>9. CASE ~NotBlank(log)
    <3>1. call' = "current" /\ UNCHANGED shown /\ log.lines = 0
      BY <2>1, <2>7, <2>9 DEF NotBlank
    <3>2. CollectTypeOK'
      BY <1>1, <2>2, <2>6, <3>1 DEF CollectTypeOK
    <3>3. PrevOK' /\ ShownOK' /\ LogsCoverTheFailure'
      BY <2>6, <3>1 DEF PrevOK, ShownOK, LogsCoverTheFailure
    <3> QED
      BY <1>2, <2>2, <2>3, <3>2, <3>3 DEF CollectOK
  <2> QED
    BY <2>8, <2>9
<1>8. CASE ReadCurrent
  <2>1. call = "current" /\ UNCHANGED <<seen, prev, failures>> /\ UNCHANGED vars
    BY <1>8 DEF ReadCurrent
  <2>2. PodOK' /\ SeenOK'
    BY <1>1, <1>2, <2>1, PodUnchanged, SeenUnchanged
  <2>3. ASSUME NEW c \in Named(seen.container), CurrentInstance(c) # None,
               NEW log \in LogOf(CurrentInstance(c)), Show(Excerpt(CurrentInstance(c), log))
        PROVE  CollectOK'
    <3>1. c \in Status /\ LifeOK(c)
      BY <1>1, NamedParts
    <3>2. PICK i \in 0 .. MaxRestarts: i = CurrentInstance(c)
      BY <2>3, <3>1, InstanceType
    <3>3. log \in Logs
      BY <1>1 DEF LogOf, CollectTypeOK, Replies
    <3>4. call' = "shown" /\ shown' = Excerpt(i, log)
      BY <2>3, <3>2 DEF Show
    <3>5. shown' \in Excerpts /\ shown' # Unavailable /\ shown'.instance = i
      BY <3>3, <3>4, ExcerptType
    <3>6. \A j \in seen.ended: i >= j
      BY <1>2, <2>1, <3>2 DEF SeenOK
    <3>7. LogsCoverTheFailure'
      BY <2>1, <3>5, <3>6 DEF LogsCoverTheFailure
    <3>8. CollectTypeOK'
      BY <1>1, <2>1, <3>4, <3>5 DEF CollectTypeOK
    <3>9. PrevOK' /\ ShownOK'
      BY <3>3, <3>4 DEF PrevOK, ShownOK
    <3> QED
      BY <1>2, <2>1, <2>2, <3>7, <3>8, <3>9 DEF CollectOK
  <2>4. ASSUME \A c \in Named(seen.container): CurrentInstance(c) = None, Show(Unavailable)
        PROVE  CollectOK'
    <3>1. call' = "shown" /\ shown' = Unavailable
      BY <2>4 DEF Show
    <3>2. ASSUME NEW j \in seen.ended PROVE FALSE
      <4>1. /\ apps # <<>> /\ seen.container \in ContainerNames
            /\ \A c \in Named(seen.container): CurrentInstance(c) # None
        BY <1>2, <2>1 DEF SeenOK, Readings, ContainerNames
      <4> QED
        BY <1>1, <2>4, <4>1, NamedExists
    <3>3. LogsCoverTheFailure'
      BY <2>1, <3>2 DEF LogsCoverTheFailure
    <3>4. CollectTypeOK' /\ PrevOK' /\ ShownOK'
      BY <1>1, <2>1, <3>1 DEF CollectTypeOK, PrevOK, ShownOK
    <3> QED
      BY <1>2, <2>1, <2>2, <3>3, <3>4 DEF CollectOK
  <2> QED
    BY <1>8, <2>3, <2>4 DEF ReadCurrent
<1>9. CASE RequestFails
  <2>1. /\ failures > 0 /\ failures' = failures - 1 /\ UNCHANGED vars
        /\ call \in {"events", "previous", "current"}
    BY <1>9 DEF RequestFails
  <2>2. PodOK' /\ (seen' = seen => SeenOK')
    BY <1>1, <1>2, <2>1, PodUnchanged, SeenUnchanged
  <2>3. failures' \in 0 .. MaxFailures /\ failures' < MaxFailures
    BY <1>3, <2>1
  <2>4. CASE call = "events" /\ Reset
    BY <1>1, <2>2, <2>3, <2>4
       DEF Reset, CollectOK, CollectTypeOK, PrevOK, ShownOK, LogsCoverTheFailure
  <2>5. CASE call = "previous" /\ PreviousFails /\ UNCHANGED <<seen, prev>>
    BY <1>1, <1>2, <2>2, <2>3, <2>5
       DEF PreviousFails, CollectOK, CollectTypeOK, PrevOK, ShownOK, LogsCoverTheFailure
  <2>6. CASE call = "current" /\ Show(Unavailable) /\ UNCHANGED <<seen, prev>>
    <3>1. call' = "shown" /\ shown' = Unavailable
      BY <2>6 DEF Show
    <3>2. seen.ft \in Crashed => prev # None \/ failures' + 1 < MaxFailures
      BY <1>1, <1>3, <2>1, <2>6 DEF PrevOK
    <3>3. LogsCoverTheFailure'
      BY <2>3, <2>6, <3>1, <3>2 DEF LogsCoverTheFailure
    <3> QED
      BY <1>1, <1>2, <2>2, <2>3, <2>6, <3>1, <3>3
         DEF CollectOK, CollectTypeOK, PrevOK, ShownOK
  <2> QED
    BY <1>9, <2>4, <2>5, <2>6 DEF RequestFails
<1>10. CASE Diagnose
  <2>1. PodOK' /\ Reset /\ UNCHANGED failures
    BY <1>1, <1>10, PodUnchanged DEF Diagnose
  <2> QED
    BY <1>1, <2>1 DEF Reset, CollectOK, CollectTypeOK, PrevOK, ShownOK, LogsCoverTheFailure
<1> QED
  BY <1>4, <1>5, <1>6, <1>7, <1>8, <1>9, <1>10 DEF CollectNext, Pod, collectVars

\* While containers restart and requests fail, what was read of the pod stays
\* behind its containers, and the prompt has what the requests returned.
THEOREM CollectInvariant == CollectSpec => []CollectOK
BY CollectStart, CollectStep, PTL DEF CollectSpec

\* For any containers and events, and any limits, the requests for the context of
\* a failure are made in order and return what such requests can.
THEOREM GatherTypeCorrect == CollectSpec => []CollectTypeOK
BY CollectInvariant, PTL DEF CollectOK

\* The LLM is shown a log of the failure that was seen, or of a later instance of
\* the container, unless the requests for it failed.
THEOREM FailureIsShown == CollectSpec => []LogsCoverTheFailure
BY CollectInvariant, PTL DEF CollectOK

LEMMA EndShown == CollectOK => EndShownIfItFits
<1> SUFFICES ASSUME CollectOK, call = "shown", shown # Unavailable
             PROVE  \/ shown.last = shown.log.lines
                    \/ shown.log.width *
                         (IF shown.log.lines < TailLines THEN shown.log.lines ELSE TailLines)
                         > MaxLogRunes
  BY DEF EndShownIfItFits
<1>1. PICK i \in 0 .. MaxRestarts, log \in Logs: shown = Excerpt(i, log)
  BY DEF CollectOK, ShownOK
<1>2. shown.log = log
  BY <1>1, ExcerptType
<1> QED
  BY <1>1, <1>2, EndOfExcerpt

\* Whatever the two limits are, the log is cut at its end only if the lines asked
\* for are too long for a prompt.
THEOREM EndOfLogIsShown == CollectSpec => []EndShownIfItFits
BY EndShown, CollectInvariant, PTL

---------------------------------------------------------------------------
(* The log of a crash.                                                     *)

CrashShown ==
    call' = "shown" /\ call # "shown" /\ failures' = MaxFailures /\ seen.ft \in Crashed =>
      \A c \in Named(seen.container):
        /\ shown'.log.lines = 0 => shown'.instance = CurrentInstance(c)
        /\ shown'.instance # PreviousInstance(c) => prev # None /\ prev.log.lines = 0

LEMMA CrashStep == CollectOK /\ [CollectNext]_collectVars => CrashShown
<1> SUFFICES ASSUME CollectOK, CollectNext, call' = "shown", call # "shown",
                    failures' = MaxFailures, seen.ft \in Crashed,
                    NEW c \in Named(seen.container)
             PROVE  /\ shown'.log.lines = 0 => shown'.instance = CurrentInstance(c)
                    /\ shown'.instance # PreviousInstance(c) => prev # None /\ prev.log.lines = 0
  BY DEF CrashShown, collectVars
<1>1. PodOK /\ PrevOK /\ (call # "idle" => SeenOK)
  BY DEF CollectOK
<1>2. c \in Status /\ LifeOK(c)
  BY <1>1, NamedParts
<1>3. \A d \in Named(seen.container): d = c
  BY <1>1, NamedOnce
<1>4. ReadPrevious \/ ReadCurrent
  <2>1. failures \in 0 .. MaxFailures /\ MaxFailures \in Nat
    BY LogAssumption DEF CollectOK, CollectTypeOK
  <2>2. ~RequestFails
    BY <2>1 DEF RequestFails
  <2> QED
    BY <2>2 DEF CollectNext, Pod, Read, ListEvents, Diagnose, Reset
<1>5. call \in {"previous", "current"} /\ PreviousInstance(c) # None
  <2>1. call \in {"previous", "current"}
    BY <1>4 DEF ReadPrevious, ReadCurrent
  <2> QED
    BY <1>1, <2>1 DEF SeenOK
<1>6. PreviousInstance(c) \in 0 .. MaxRestarts /\ CurrentInstance(c) \in 0 .. MaxRestarts
  BY <1>2, <1>5, InstanceType
<1>7. CASE ReadPrevious
  <2>1. PICK log \in Logs: NotBlank(log) /\ shown' = Excerpt(PreviousInstance(c), log)
    BY <1>3, <1>7 DEF ReadPrevious, Show
  <2>2. shown'.instance = PreviousInstance(c) /\ shown'.log = log
    BY <1>6, <2>1, ExcerptType
  <2> QED
    BY <2>1, <2>2 DEF NotBlank
<1>8. CASE ReadCurrent
  <2>1. CurrentInstance(c) # None
    BY <1>6, NothingAssumption
  <2>2. PICK log \in LogOf(CurrentInstance(c)): shown' = Excerpt(CurrentInstance(c), log)
    BY <1>3, <1>8, <2>1 DEF ReadCurrent, Show
  <2>3. log \in Logs
    BY DEF LogOf, CollectOK, CollectTypeOK, Replies
  <2>4. shown'.instance = CurrentInstance(c)
    BY <1>6, <2>2, <2>3, ExcerptType
  <2>5. prev # None /\ prev.log.lines = 0
    <3>1. call = "current" /\ failures = MaxFailures
      BY <1>8 DEF ReadCurrent
    <3>2. MaxFailures \in Nat
      BY LogAssumption
    <3> QED
      BY <1>1, <3>1, <3>2 DEF PrevOK
  <2> QED
    BY <2>4, <2>5
<1> QED
  BY <1>4, <1>7, <1>8

\* No request having failed, what the LLM is shown of a crash is the log of the
\* instance that crashed, or a later one if that one wrote nothing.
THEOREM CrashIsShown == CollectSpec => LogsOfTheCrash
BY CollectInvariant, CrashStep, PTL DEF CollectSpec, LogsOfTheCrash, CrashShown

---------------------------------------------------------------------------
(* Events.                                                                 *)

\* Any events can be listed in order of time: the earliest comes after the others.
LEMMA EventsCanBeSorted == \A items \in SUBSET Events: Sorted(items) # {}
<1> DEFINE Bad == {n \in Nat: \E items \in SUBSET Events:
                               Cardinality(items) = n /\ Sorted(items) = {}}
<1>1. \A items \in SUBSET Events: IsFiniteSet(items) /\ Cardinality(items) \in Nat
  BY EventAssumption, FS_Subset, FS_CardinalityType
<1>2. SUFFICES ASSUME Bad # {} PROVE FALSE
  BY <1>1
<1>3. PICK n \in Bad: \A m \in Bad: n <= m
  <2>1. Bad \in SUBSET Nat
    OBVIOUS
  <2> HIDE DEF Bad
  <2> QED
    BY <1>2, <2>1, LeastNatural
<1>4. PICK items \in SUBSET Events: Cardinality(items) = n /\ Sorted(items) = {}
  OBVIOUS
<1>5. n \in Nat
  OBVIOUS
<1>6. CASE items = {}
  <2> DEFINE t == [i \in 1 .. 0 |-> i]
  <2>1. Cardinality(items) = 0
    BY <1>6, FS_EmptySet
  <2>2. t \in [1 .. 0 -> items] /\ ToSet(t) = items
    BY <1>6 DEF ToSet
  <2>3. \A i, j \in DOMAIN t: i < j => Occurred(t[i]) >= Occurred(t[j])
    OBVIOUS
  <2>4. t \in Sorted(items)
    BY <2>1, <2>2, <2>3 DEF Sorted
  <2> QED
    BY <1>4, <2>4
<1>7. CASE items # {}
  <2>1. \A e \in items: Occurred(e) \in Nat
    BY EventAssumption DEF Occurred, LastTimestamp, EventTime
  <2>2. PICK e \in items: \A f \in items: Occurred(e) <= Occurred(f)
    <3> DEFINE Times == {Occurred(f): f \in items}
    <3>1. Times \in SUBSET Nat /\ Times # {}
      BY <1>7, <2>1
    <3>2. PICK d \in Times: \A c \in Times: d <= c
      <4> HIDE DEF Times
      <4> QED
        BY <3>1, LeastNatural
    <3>3. PICK e \in items: d = Occurred(e)
      OBVIOUS
    <3>4. \A f \in items: Occurred(f) \in Times
      OBVIOUS
    <3> QED
      BY <3>2, <3>3, <3>4
  <2> DEFINE rest == items \ {e}
  <2>3. rest \in SUBSET Events /\ Cardinality(rest) = n - 1 /\ n - 1 \in Nat
    <3>1. IsFiniteSet(items) /\ n # 0
      BY <1>1, <1>4, <1>7, FS_EmptySet
    <3>2. Cardinality(items \ {e}) = n - 1
      BY <1>4, <3>1, FS_RemoveElement
    <3> QED
      BY <1>5, <3>1, <3>2
  <2>4. Sorted(rest) # {}
    <3>1. n - 1 \notin Bad
      <4> HIDE DEF Bad
      <4> QED
        BY <1>3, <1>5
    <3> QED
      BY <2>3, <3>1
  <2>5. PICK t \in Sorted(rest): TRUE
    BY <2>4
  <2>6. /\ t \in [1 .. n - 1 -> rest] /\ rest = {t[i]: i \in 1 .. n - 1}
        /\ \A i, j \in 1 .. n - 1: i < j => Occurred(t[i]) >= Occurred(t[j])
    BY <2>3 DEF Sorted, ToSet
  <2> DEFINE u == [i \in 1 .. n |-> IF i = n THEN e ELSE t[i]]
  <2> HIDE DEF Bad, rest
  <2>7. items = rest \cup {e}
    BY DEF rest
  <2>8. n \in 1 .. n /\ \A i \in 1 .. n: i # n => i \in 1 .. n - 1
    BY <1>5, <2>3
  <2>9. \A i \in 1 .. n - 1: i \in 1 .. n /\ i # n
    BY <1>5
  <2>10. u \in [1 .. n -> items]
    BY <2>6, <2>7, <2>8
  <2>11. ToSet(u) = items
    <3>1. ToSet(u) \subseteq items
      BY <2>10 DEF ToSet
    <3>2. e \in ToSet(u)
      BY <2>8 DEF ToSet
    <3>3. rest \subseteq ToSet(u)
      BY <2>6, <2>9 DEF ToSet
    <3> QED
      BY <2>7, <3>1, <3>2, <3>3
  <2>12. ASSUME NEW i \in 1 .. n, NEW j \in 1 .. n, i < j
         PROVE  Occurred(u[i]) >= Occurred(u[j])
    <3>1. i # n /\ i \in 1 .. n - 1
      BY <1>5, <2>12
    <3>2. t[i] \in items
      BY <2>6, <2>7, <3>1
    <3>3. u[i] = t[i] /\ u[j] = IF j = n THEN e ELSE t[j]
      BY <3>1
    <3>4. CASE j = n
      BY <2>1, <2>2, <3>2, <3>3, <3>4
    <3>5. CASE j # n
      BY <2>6, <2>8, <2>12, <3>1, <3>3, <3>5
    <3> QED
      BY <3>4, <3>5
  <2>13. u \in Sorted(items)
    BY <1>4, <2>10, <2>11, <2>12 DEF Sorted
  <2> QED
    BY <1>4, <2>13
<1> QED
  BY <1>6, <1>7

\* A summary is the beginning of the list in order of time.
LEMMA SummaryIs ==
    ASSUME NEW items \in SUBSET Events, NEW s \in SummarizeEvents(items)
    PROVE  /\ Cardinality(items) \in Nat
           /\ \E t \in Sorted(items):
                LET n == Cardinality(items)
                    k == IF n < MaxEvents THEN n ELSE MaxEvents
                IN  ToSet(s) = {t[i]: i \in 1 .. k}
<1> DEFINE n == Cardinality(items)
           k == IF n < MaxEvents THEN n ELSE MaxEvents
<1>1. n \in Nat
  BY EventAssumption, FS_Subset, FS_CardinalityType
<1>2. PICK t \in Sorted(items):
        s = SubSeq(t, 1, IF Len(t) < MaxEvents THEN Len(t) ELSE MaxEvents)
  BY DEF SummarizeEvents
<1>3. t \in [1 .. n -> items] /\ t \in Seq(items)
  BY <1>1, <1>2 DEF Sorted
<1> HIDE DEF n
<1>4. Len(t) = n
  BY <1>1, <1>3
<1>5. k \in Nat /\ k <= n
  BY <1>1, LogAssumption
<1>6. s = SubSeq(t, 1, k)
  BY <1>2, <1>4
<1> HIDE DEF k
<1>7. Len(s) = k /\ \A i \in 1 .. k: s[i] = t[i]
  BY <1>3, <1>4, <1>5, <1>6
<1>8. s \in Seq(items)
  BY <1>3, <1>4, <1>5, <1>6
<1>9. ToSet(s) = {t[i]: i \in 1 .. k}
  BY <1>7, <1>8 DEF ToSet
<1> QED
  BY <1>1, <1>2, <1>9 DEF n, k

\* It has as many events as it may.
LEMMA SummarySize ==
    ASSUME NEW items \in SUBSET Events, NEW t \in Sorted(items), NEW k \in Nat,
           Cardinality(items) \in Nat, k <= Cardinality(items)
    PROVE  /\ Cardinality({t[i]: i \in 1 .. k}) = k
           /\ k = Cardinality(items) => {t[i]: i \in 1 .. k} = items
<1> DEFINE n == Cardinality(items)
           D == 1 .. n
           K == 1 .. k
           T == {t[i]: i \in K}
           u == [i \in K |-> t[i]]
<1>1. /\ IsFiniteSet(D) /\ Cardinality(D) = n
      /\ IsFiniteSet(K) /\ Cardinality(K) = k
  <2>1. ASSUME NEW m \in Nat
        PROVE  IsFiniteSet(1 .. m) /\ Cardinality(1 .. m) = m
    <3>1. /\ IsFiniteSet(1 .. m)
          /\ Cardinality(1 .. m) = IF 1 > m THEN 0 ELSE m - 1 + 1
      BY FS_Interval, 1 \in Int, m \in Int, Zenon
    <3> DEFINE length == Cardinality(1 .. m)
    <3>2. length = IF 1 > m THEN 0 ELSE m - 1 + 1
      BY <3>1
    <3> HIDE DEF length
    <3>3. length = m
      BY <3>2
    <3> QED
      BY <3>1, <3>3 DEF length
  <2> QED
    BY <2>1
<1>2. t \in [D -> items] /\ items = {t[i]: i \in D}
  BY DEF Sorted, ToSet
<1>3. K \subseteq D
  OBVIOUS
<1> HIDE DEF D, K
<1>4. t \in Surjection(D, items)
  BY <1>2 DEF Surjection
<1>5. t \in Injection(D, items)
  BY <1>1, <1>4, FS_SurjSameCardinalityImpliesInj
<1>6. u \in Bijection(K, T)
  BY <1>2, <1>3, <1>5 DEF Bijection, Injection, Surjection, IsInjective
<1>7. Cardinality(T) = k
  BY <1>1, <1>6, FS_Bijection DEF ExistsBijection
<1> QED
  BY <1>2, <1>7 DEF D, K

\* No event that was left out is later than one that was not.
LEMMA LeftOutEarlier ==
    ASSUME NEW items \in SUBSET Events, NEW t \in Sorted(items), NEW k \in Nat,
           NEW f \in {t[i]: i \in 1 .. k}, NEW e \in items \ {t[i]: i \in 1 .. k},
           Cardinality(items) \in Nat, k <= Cardinality(items), ~e.series
    PROVE  e.last <= f.last
<1> DEFINE n == Cardinality(items)
<1>1. /\ DOMAIN t = 1 .. n /\ items = {t[i]: i \in 1 .. n}
      /\ \A i, j \in 1 .. n: i < j => Occurred(t[i]) >= Occurred(t[j])
  BY DEF Sorted, ToSet
<1> HIDE DEF n
<1>2. PICK j \in 1 .. n: e = t[j]
  BY <1>1
<1>3. PICK i \in 1 .. k: f = t[i]
  OBVIOUS
<1>4. i \in 1 .. n /\ i < j
  <2>1. j \notin 1 .. k
    BY <1>2
  <2>2. n \in Nat /\ k <= n
    BY DEF n
  <2> QED
    BY <2>1, <2>2
<1>5. f \in Events /\ e \in Events
  BY <1>1, <1>2, <1>3, <1>4
<1>6. Occurred(f) >= Occurred(e)
  BY <1>1, <1>2, <1>3, <1>4
<1>7. /\ e.last \in Nat \ {0} /\ f.last \in Nat \ {0} /\ f.first \in Nat \ {0}
      /\ f.first <= f.last
  BY <1>5, EventAssumption
<1>8. Occurred(e) = e.last
  BY <1>7 DEF Occurred, LastTimestamp
<1>9. Occurred(f) <= f.last
  BY <1>7 DEF Occurred, LastTimestamp, EventTime
<1>10. Occurred(f) \in Nat
  BY <1>7 DEF Occurred, LastTimestamp, EventTime
<1> QED
  BY <1>6, <1>7, <1>8, <1>9, <1>10

LEMMA NoneMisleads == Misleading = {}
<1> SUFFICES ASSUME NEW items \in SUBSET Events, NEW s \in SummarizeEvents(items)
             PROVE  /\ ~(Cardinality(ToSet(s)) < MaxEvents /\ ToSet(s) # items)
                    /\ \A e \in items \ ToSet(s), f \in ToSet(s):
                         ~(~e.series /\ e.last > f.last)
  BY DEF Misleading
<1> DEFINE n == Cardinality(items)
           k == IF n < MaxEvents THEN n ELSE MaxEvents
<1>1. n \in Nat
  BY SummaryIs
<1>2. PICK t \in Sorted(items): ToSet(s) = {t[i]: i \in 1 .. k}
  BY SummaryIs
<1>3. MaxEvents \in Nat
  BY LogAssumption
<1>4. k \in Nat /\ k <= n
  BY <1>1, <1>3
<1>5. k # n => k = MaxEvents
  OBVIOUS
<1> HIDE DEF k
<1>6. ~(Cardinality(ToSet(s)) < MaxEvents /\ ToSet(s) # items)
  BY <1>1, <1>2, <1>3, <1>4, <1>5, SummarySize
<1>7. ASSUME NEW e \in items \ ToSet(s), NEW f \in ToSet(s)
      PROVE  ~(~e.series /\ e.last > f.last)
  <2>1. /\ e \in items \ {t[i]: i \in 1 .. k} /\ f \in {t[i]: i \in 1 .. k}
    BY <1>2
  <2>2. ~e.series => e.last <= f.last
    BY <1>1, <1>4, <2>1, LeftOutEarlier
  <2>3. e \in Events /\ f \in Events
    <3>1. t \in [1 .. n -> items]
      BY <1>2 DEF Sorted
    <3>2. PICK i \in 1 .. k: f = t[i]
      BY <2>1
    <3> HIDE DEF n
    <3>3. i \in 1 .. n
      BY <1>1, <1>4, <3>2
    <3> QED
      BY <3>1, <3>2, <3>3
  <2>4. e.last \in Nat /\ f.last \in Nat
    BY <2>3, EventAssumption
  <2> QED
    BY <2>2, <2>4
<1> QED
  BY <1>6, <1>7

\* Of any events, and however many fit in a prompt, the latest are in it (and,
\* by EventsCanBeSorted, there is a summary).
THEOREM LatestEventsAreTold == CollectSpec => []RecentEvents
<1>1. CollectInit => RecentEvents
  BY NoneMisleads DEF RecentEvents
<1>2. RecentEvents /\ [CollectNext]_collectVars => RecentEvents'
  BY NoneMisleads DEF RecentEvents, Misleading
<1> QED
  BY <1>1, <1>2, PTL DEF CollectSpec

=============================================================================
