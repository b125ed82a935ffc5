--------------------------- MODULE DiagctlProofs ---------------------------
(***************************************************************************)
(* Diagctl: what commands report and remove, for any number of users,      *)
(* names and command lines.                                                *)
(***************************************************************************)
EXTENDS Diagctl, FiniteSetTheorems, TLAPS

---------------------------------------------------------------------------
(* The inductive invariant.                                                *)

\* A command says something when it ends, and not before; it says deleted when it
\* removed something, and otherwise at most that its request failed.
Fate(u) ==
    /\ step[u] # "done" => removed[u] = None /\ outcome[u] = None
    /\ step[u] = "delete" => found[u] # None
    /\ removed[u] # None => outcome[u] \in {"deleted", "failed"}
    /\ outcome[u] = "deleted" => removed[u] # None

\* No uid is given out twice.
Uids ==
    /\ \A p \in Places: stored[p] # None => stored[p] <= created
    /\ \A p, q \in Places: stored[p] # None /\ stored[p] = stored[q] => p = q

\* What was removed does not come back, and was removed by one command.
Gone(u) == removed[u] # None =>
    /\ removed[u].uid <= created
    /\ \A p \in Places: stored[p] # removed[u].uid
    /\ \A v \in Users \ {u}: removed[v] # None => removed[v].uid # removed[u].uid

\* What now stands where an object was found is that object or a later one.
Later(u) == found[u] # None =>
    /\ found[u].uid <= created
    /\ stored[Place(found[u])] # None => found[u].uid <= stored[Place(found[u])]

Told == \A u \in Users: Fate(u) /\ Gone(u) /\ Later(u)

DiagctlInv == TypeOK /\ Uids /\ Told

---------------------------------------------------------------------------
LEMMA PlaceOfObject ==
    /\ \A o \in Objects: Place(o) \in Places /\ o.uid \in Nat /\ o # None
    /\ \A p \in Places: Place(ObjectAt(p)) = p
BY PlacesAssumption DEF Objects, Places, Place, ObjectAt

LEMMA ObjectAtType ==
    ASSUME TypeOK, NEW p \in Places, stored[p] # None
    PROVE  ObjectAt(p) \in Objects /\ ObjectAt(p).uid = stored[p]
BY DEF TypeOK, ObjectAt, Objects, Places

\* The words of a command line are told nothing but how to use the command.
LEMMA RejectionType ==
    ASSUME NEW verb, NEW p
    PROVE  Rejection(verb, p) \in {"helped", "misused", "refused", None}
BY DEF Rejection

\* What a command that ends without a removal does to the invariant.
LEMMA TellKeeps ==
    ASSUME DiagctlInv, NEW u \in Users, NEW what, Tell(u, what),
           what \in Outcomes \ {"deleted"}, step[u] # "done",
           UNCHANGED <<stored, created, removed>>,
           found' = found \/ (\E p \in Places: stored[p] # None
                                /\ found' = [found EXCEPT ![u] = ObjectAt(p)])
    PROVE  /\ step' \in [Users -> {"start", "resolve", "delete", "done"}]
           /\ outcome' \in [Users -> Outcomes \cup {None}]
           /\ found' \in [Users -> Objects \cup {None}]
           /\ Uids' /\ Told'
<1>1. /\ step' \in [Users -> {"start", "resolve", "delete", "done"}]
      /\ outcome' \in [Users -> Outcomes \cup {None}]
      /\ step'[u] = "done" /\ outcome'[u] = what
      /\ \A v \in Users \ {u}: step'[v] = step[v] /\ outcome'[v] = outcome[v]
  BY DEF Tell, Goto, DiagctlInv, TypeOK
<1>2. /\ found' \in [Users -> Objects \cup {None}]
      /\ \A v \in Users \ {u}: found'[v] = found[v]
      /\ \/ found'[u] = found[u]
         \/ \E p \in Places: stored[p] # None /\ found'[u] = ObjectAt(p)
  BY ObjectAtType DEF DiagctlInv, TypeOK
<1>3. Uids'
  BY DEF DiagctlInv, Uids
<1>4. ASSUME NEW v \in Users PROVE Fate(v)' /\ Gone(v)' /\ Later(v)'
  <2>1. Fate(v)'
    BY <1>1, <1>2 DEF DiagctlInv, Told, Fate
  <2>2. Gone(v)'
    BY DEF DiagctlInv, Told, Gone
  <2>3. Later(v)'
    <3>1. CASE found'[v] = found[v]
      BY <3>1 DEF DiagctlInv, Told, Later, Place
    <3>2. ASSUME NEW p \in Places, stored[p] # None, found'[v] = ObjectAt(p)
          PROVE  Later(v)'
      <4>1. ObjectAt(p).uid = stored[p] /\ stored[p] \in Nat /\ Place(ObjectAt(p)) = p
        BY <3>2, ObjectAtType, PlaceOfObject DEF DiagctlInv, TypeOK
      <4>2. Place(found[v])' = Place(found'[v])
        BY DEF Place
      <4> QED
        BY <3>2, <4>1, <4>2 DEF DiagctlInv, Uids, Later
    <3> QED
      BY <1>2, <3>1, <3>2
  <2> QED
    BY <2>1, <2>2, <2>3
<1> QED
  BY <1>1, <1>2, <1>3, <1>4 DEF Told

\* What a command that ends with a removal does to it.
LEMMA RemovalKeeps ==
    ASSUME DiagctlInv, NEW u \in Users, NEW what \in {"deleted", "failed"}, Tell(u, what),
           step[u] = "delete", NEW p \in Places, stored[p] # None, RemoveObject(u, p),
           UNCHANGED <<created, found>>
    PROVE  /\ step' \in [Users -> {"start", "resolve", "delete", "done"}]
           /\ outcome' \in [Users -> Outcomes \cup {None}]
           /\ stored' \in [Places -> Nat \cup {None}]
           /\ removed' \in [Users -> Objects \cup {None}]
           /\ Uids' /\ Told'
<1>1. /\ step' \in [Users -> {"start", "resolve", "delete", "done"}]
      /\ outcome' \in [Users -> Outcomes \cup {None}]
      /\ step'[u] = "done" /\ outcome'[u] = what
      /\ \A v \in Users \ {u}: step'[v] = step[v] /\ outcome'[v] = outcome[v]
  BY DEF Tell, Goto, DiagctlInv, TypeOK, Outcomes
<1>2. /\ ObjectAt(p) \in Objects /\ ObjectAt(p).uid = stored[p] /\ ObjectAt(p) # None
      /\ stored[p] \in Nat
  BY ObjectAtType, PlaceOfObject DEF DiagctlInv, TypeOK
<1>3. /\ stored' \in [Places -> Nat \cup {None}]
      /\ stored'[p] = None
      /\ \A q \in Places \ {p}: stored'[q] = stored[q]
  BY DEF RemoveObject, DiagctlInv, TypeOK
<1>4. /\ removed' \in [Users -> Objects \cup {None}]
      /\ removed'[u] = ObjectAt(p)
      /\ \A v \in Users \ {u}: removed'[v] = removed[v]
  BY <1>2 DEF RemoveObject, DiagctlInv, TypeOK
<1>5. Uids'
  BY <1>3 DEF DiagctlInv, Uids
<1>6. ASSUME NEW v \in Users PROVE Fate(v)' /\ Gone(v)' /\ Later(v)'
  <2>1. Fate(v)'
    BY <1>1, <1>2, <1>4 DEF DiagctlInv, Told, Fate
  <2>2. Gone(v)'
    <3>1. CASE v = u
      <4>1. stored[p] <= created /\ \A q \in Places \ {p}: stored[q] # stored[p]
        BY DEF DiagctlInv, Uids
      <4>2. \A q \in Places: stored'[q] # stored[p]
        BY <1>3, <4>1
      <4>3. \A w \in Users \ {u}: removed[w] # None => removed[w].uid # stored[p]
        BY DEF DiagctlInv, Told, Gone
      <4> QED
        BY <1>2, <1>4, <3>1, <4>1, <4>2, <4>3 DEF Gone
    <3>2. CASE v # u
      <4>1. removed[v] # None => removed[v].uid # stored[p] /\ removed[v].uid \in Nat
        BY PlaceOfObject DEF DiagctlInv, Told, Gone, TypeOK
      <4>2. removed[v] # None => removed[v].uid # None
        BY <4>1, PlacesAssumption
      <4> QED
        BY <1>2, <1>3, <1>4, <3>2, <4>1, <4>2 DEF DiagctlInv, Told, Gone
    <3> QED
      BY <3>1, <3>2
  <2>3. Later(v)'
    <3>1. found[v] # None => Place(found[v]) \in Places
      BY PlaceOfObject DEF DiagctlInv, TypeOK
    <3>2. Place(found[v])' = Place(found[v])
      BY DEF Place
    <3> QED
      BY <1>3, <3>1, <3>2 DEF DiagctlInv, Told, Later
  <2> QED
    BY <2>1, <2>2, <2>3
<1> QED
  BY <1>1, <1>3, <1>4, <1>5, <1>6 DEF Told

\* Objects that come and go by themselves.
LEMMA ObjectsStep ==
    ASSUME DiagctlInv, NEW p \in Places, Create(p) \/ Collect(p)
    PROVE  DiagctlInv'
<1>1. UNCHANGED <<failures, cmd, step, found, outcome, removed>>
  BY DEF Create, Collect
<1>2. /\ \A q \in Places \ {p}: stored'[q] = stored[q]
      /\ \/ stored'[p] = None /\ created' = created
         \/ stored[p] = None /\ stored'[p] = created' /\ created' = created + 1
      /\ created' \in 0 .. MaxObjects /\ created \in Nat
      /\ stored' \in [Places -> Nat \cup {None}]
  BY PlacesAssumption DEF Create, Collect, DiagctlInv, TypeOK
<1>3. /\ created' \in Nat /\ created' # None
      /\ \A q \in Places: stored[q] # None => stored[q] \in Nat /\ stored[q] <= created
  BY <1>2, PlacesAssumption DEF DiagctlInv, Uids, TypeOK
<1>4. TypeOK'
  BY <1>1, <1>2 DEF DiagctlInv, TypeOK
<1>5. Uids'
  BY <1>2, <1>3 DEF DiagctlInv, Uids
<1>6. ASSUME NEW v \in Users PROVE Fate(v)' /\ Gone(v)' /\ Later(v)'
  <2>1. Fate(v)'
    BY <1>1 DEF DiagctlInv, Told, Fate
  <2>2. Gone(v)'
    <3>1. removed[v] # None => removed[v].uid \in Nat /\ removed[v].uid <= created
      BY PlaceOfObject DEF DiagctlInv, TypeOK, Told, Gone
    <3>2. removed[v] # None => removed[v].uid # None /\ removed[v].uid # created + 1
      BY <1>2, <3>1, PlacesAssumption
    <3> QED
      BY <1>1, <1>2, <3>1, <3>2 DEF DiagctlInv, Told, Gone
  <2>3. Later(v)'
    <3>1. found[v] # None => Place(found[v]) \in Places /\ found[v].uid \in Nat
      BY PlaceOfObject DEF DiagctlInv, TypeOK
    <3>2. Place(found[v])' = Place(found[v])
      BY <1>1 DEF Place
    <3> QED
      BY <1>1, <1>2, <3>1, <3>2 DEF DiagctlInv, Told, Later
  <2> QED
    BY <2>1, <2>2, <2>3
<1> QED
  BY <1>4, <1>5, <1>6 DEF DiagctlInv, Told

\* What a command does to it that goes on to its next request.
LEMMA GotoKeeps ==
    ASSUME DiagctlInv, NEW u \in Users, NEW s \in {"resolve", "delete"}, Goto(u, s),
           step[u] \in {"start", "resolve"},
           UNCHANGED <<stored, created, removed, outcome>>,
           \/ s = "resolve" /\ found' = found
           \/ \E p \in Places: stored[p] # None /\ found' = [found EXCEPT ![u] = ObjectAt(p)]
    PROVE  /\ step' \in [Users -> {"start", "resolve", "delete", "done"}]
           /\ found' \in [Users -> Objects \cup {None}]
           /\ Uids' /\ Told'
<1>1. /\ step' \in [Users -> {"start", "resolve", "delete", "done"}]
      /\ step'[u] = s
      /\ \A v \in Users \ {u}: step'[v] = step[v]
  BY DEF Goto, DiagctlInv, TypeOK
<1>2. /\ found' \in [Users -> Objects \cup {None}]
      /\ \A v \in Users \ {u}: found'[v] = found[v]
      /\ \/ s = "resolve" /\ found'[u] = found[u]
         \/ \E p \in Places: stored[p] # None /\ found'[u] = ObjectAt(p)
  BY ObjectAtType DEF DiagctlInv, TypeOK
<1>3. Uids'
  BY DEF DiagctlInv, Uids
<1>4. ASSUME NEW v \in Users PROVE Fate(v)' /\ Gone(v)' /\ Later(v)'
  <2>1. Fate(v)'
    BY <1>1, <1>2, ObjectAtType, PlaceOfObject DEF DiagctlInv, Told, Fate
  <2>2. Gone(v)'
    BY DEF DiagctlInv, Told, Gone
  <2>3. Later(v)'
    <3>1. CASE found'[v] = found[v]
      BY <3>1 DEF DiagctlInv, Told, Later, Place
    <3>2. ASSUME NEW p \in Places, stored[p] # None, found'[v] = ObjectAt(p)
          PROVE  Later(v)'
      <4>1. ObjectAt(p).uid = stored[p] /\ stored[p] \in Nat /\ Place(ObjectAt(p)) = p
        BY <3>2, ObjectAtType, PlaceOfObject DEF DiagctlInv, TypeOK
      <4>2. Place(found[v])' = Place(found'[v])
        BY DEF Place
      <4> QED
        BY <3>2, <4>1, <4>2 DEF DiagctlInv, Uids, Later
    <3> QED
      BY <1>2, <3>1, <3>2
  <2> QED
    BY <2>1, <2>2, <2>3
<1> QED
  BY <1>1, <1>2, <1>3, <1>4 DEF Told

LEMMA StartStep ==
    ASSUME DiagctlInv, NEW u \in Users, NEW verb \in Verbs, NEW line, Start(u, verb, line)
    PROVE  DiagctlInv'
<1> DEFINE rejection == Rejection(verb, Parse(verb, line))
<1>1. /\ step[u] = "start"
      /\ UNCHANGED <<stored, created, failures, found, removed>>
  BY DEF Start
<1>2. \/ rejection # None /\ Tell(u, rejection) /\ UNCHANGED cmd
      \/ rejection = None /\ verb = "explain" /\ Tell(u, "printed") /\ UNCHANGED cmd
      \/ /\ verb # "explain" /\ Goto(u, "resolve") /\ UNCHANGED outcome
         /\ cmd' = [cmd EXCEPT ![u] = Request(verb, Parse(verb, line))]
  BY DEF Start
<1>3. rejection \in {"helped", "misused", "refused", None}
  BY RejectionType
<1> HIDE DEF rejection
<1>4. CASE UNCHANGED cmd /\ \E what \in Outcomes \ {"deleted"}: Tell(u, what)
  BY <1>1, <1>4, TellKeeps DEF DiagctlInv, TypeOK
<1>5. CASE /\ verb # "explain" /\ Goto(u, "resolve") /\ UNCHANGED outcome
           /\ cmd' = [cmd EXCEPT ![u] = Request(verb, Parse(verb, line))]
  <2>1. Request(verb, Parse(verb, line)).verb = verb
    BY DEF Request
  <2>2. DOMAIN cmd' = Users /\ \A v \in Users: cmd'[v] = None \/ cmd'[v].verb \in Verbs \ {"explain"}
    BY <1>5, <2>1 DEF DiagctlInv, TypeOK
  <2> QED
    BY <1>1, <1>5, <2>2, GotoKeeps DEF DiagctlInv, TypeOK
<1> QED
  BY <1>2, <1>3, <1>4, <1>5 DEF Outcomes

LEMMA CommandStep ==
    ASSUME DiagctlInv, NEW u \in Users, Command(u)
    PROVE  DiagctlInv'
<1>1. CASE List(u)
  BY <1>1, TellKeeps DEF List, DiagctlInv, TypeOK, Outcomes
<1>2. CASE Resolve(u)
  <2>1. /\ step[u] = "resolve"
        /\ UNCHANGED <<stored, created, failures, cmd, removed>>
    BY <1>2 DEF Resolve
  <2>2. CASE UNCHANGED found /\ (Tell(u, "notFound") \/ Tell(u, "ambiguous"))
    BY <2>1, <2>2, TellKeeps DEF DiagctlInv, TypeOK, Outcomes
  <2>3. ASSUME NEW p \in Unique(u), found' = [found EXCEPT ![u] = ObjectAt(p)],
               Tell(u, "printed") \/ (Goto(u, "delete") /\ UNCHANGED outcome)
        PROVE  DiagctlInv'
    <3>1. p \in Places /\ stored[p] # None
      BY <2>3 DEF Unique, Matches, Searched
    <3>2. CASE Tell(u, "printed")
      BY <2>1, <2>3, <3>1, <3>2, TellKeeps DEF DiagctlInv, TypeOK, Outcomes
    <3>3. CASE Goto(u, "delete") /\ UNCHANGED outcome
      BY <2>1, <2>3, <3>1, <3>3, GotoKeeps DEF DiagctlInv, TypeOK
    <3> QED
      BY <2>3, <3>2, <3>3
  <2> QED
    BY <1>2, <2>2, <2>3 DEF Resolve
<1>3. ASSUME step[u] = "delete", NEW what \in {"deleted", "failed"}, Tell(u, what),
             stored[Place(found[u])] # None, RemoveObject(u, Place(found[u])),
             failures' \in 0 .. MaxFailures, UNCHANGED <<created, cmd, found>>
      PROVE  DiagctlInv'
  <2>1. Place(found[u]) \in Places
    BY <1>3, PlaceOfObject DEF DiagctlInv, Told, Fate, TypeOK
  <2> QED
    BY <1>3, <2>1, RemovalKeeps DEF DiagctlInv, TypeOK
<1>4. CASE Delete(u)
  <2>1. CASE NotFound(u) /\ UNCHANGED <<stored, removed>>
    BY <1>4, <2>1, TellKeeps DEF Delete, NotFound, DiagctlInv, TypeOK, Outcomes
  <2> QED
    BY <1>3, <1>4, <2>1 DEF Delete, DiagctlInv, TypeOK
<1>5. CASE RequestFails(u)
  <2>1. failures' \in 0 .. MaxFailures
    <3>1. failures > 0 /\ failures' = failures - 1 /\ failures \in 0 .. MaxFailures
      BY <1>5 DEF RequestFails, DiagctlInv, TypeOK
    <3> QED
      BY <3>1, PlacesAssumption
  <2>2. CASE UNCHANGED <<stored, removed>>
    BY <1>5, <2>1, <2>2, TellKeeps DEF RequestFails, DiagctlInv, TypeOK, Outcomes
  <2> QED
    BY <1>3, <1>5, <2>1, <2>2 DEF RequestFails
<1> QED
  BY <1>1, <1>2, <1>4, <1>5, StartStep DEF Command

LEMMA DiagctlStep == DiagctlInv /\ [Next]_vars => DiagctlInv'
<1> SUFFICES ASSUME DiagctlInv, [Next]_vars PROVE DiagctlInv'
  OBVIOUS
<1>1. CASE UNCHANGED vars
  BY <1>1 DEF vars, DiagctlInv, TypeOK, Uids, Told, Fate, Gone, Later, Place
<1> QED
  BY <1>1, ObjectsStep, CommandStep DEF Next

LEMMA DiagctlStart == Init => DiagctlInv
<1> SUFFICES ASSUME Init PROVE DiagctlInv
  OBVIOUS
<1>1. TypeOK
  BY PlacesAssumption DEF Init, TypeOK
<1>2. Uids
  BY DEF Init, Uids
<1>3. ASSUME NEW u \in Users PROVE Fate(u) /\ Gone(u) /\ Later(u)
  BY PlacesAssumption DEF Init, Fate, Gone, Later, Outcomes
<1> QED
  BY <1>1, <1>2, <1>3 DEF DiagctlInv, Told

\* Types, uids and what commands have told stay right, whoever else is at work.
THEOREM DiagctlInvariant == Spec => []DiagctlInv
BY DiagctlStart, DiagctlStep, PTL DEF Spec

---------------------------------------------------------------------------
(* The properties.                                                         *)

\* Every variable of diagctl and of the objects keeps its type.
THEOREM DiagctlTypeCorrect == Spec => []TypeOK
<1>1. DiagctlInv => TypeOK
  BY DEF DiagctlInv
<1> QED
  BY <1>1, DiagctlInvariant, PTL

\* For any number of users and objects, a command says deleted when its own
\* request removed the object, and no object is removed by two commands.
THEOREM CommandsTellTheTruth == Spec => []TellsTheTruth
<1>1. DiagctlInv => TellsTheTruth
  BY DEF DiagctlInv, Told, Fate, Gone, TellsTheTruth
<1> QED
  BY <1>1, DiagctlInvariant, PTL

\* What a lookup without -n finds was the only object of its name.
LEMMA FoundIsUnique ==
    ASSUME DiagctlInv, NEW u \in Users, Resolve(u), found'[u] # found[u],
           NEW p \in Places, p[2] = cmd[u].name, stored[p] # None
    PROVE  p = Place(found'[u]) \/ cmd[u].ns # None
<1>1. PICK o \in Unique(u): found'[u] = ObjectAt(o)
  BY DEF Resolve, DiagctlInv, TypeOK
<1>2. o \in Places /\ Place(ObjectAt(o)) = o
  BY PlaceOfObject DEF Unique, Matches, Searched
<1>3. IsFiniteSet(Matches(u)) /\ Cardinality(Matches(u)) = 1
  <2>1. Matches(u) \subseteq Places
    BY DEF Matches, Searched
  <2> QED
    BY <2>1, PlacesAssumption, FS_Subset DEF Unique
<1>4. PICK x: Matches(u) = {x}
  BY <1>3, FS_Singleton
<1>5. o \in Matches(u) /\ (cmd[u].ns = None => p \in Matches(u))
  BY DEF Unique, Matches, Searched
<1> QED
  BY <1>1, <1>2, <1>4, <1>5

\* For any number of users and namespaces, a name that stands in several
\* namespaces is not resolved, and what is removed stood where it was found.
THEOREM NamesAreUnambiguous == Spec => OnlyUniqueNames
<1> DEFINE Careful(u) ==
      /\ found'[u] # found[u] =>
           \A p \in Places: p[2] = cmd[u].name /\ stored[p] # None =>
               p = Place(found'[u]) \/ cmd[u].ns # None
      /\ removed'[u] # removed[u] =>
           Place(removed'[u]) = Place(found[u]) /\ removed'[u].uid >= found[u].uid
<1>1. ASSUME DiagctlInv, [Next]_vars, NEW u \in Users PROVE Careful(u)
  <2>1. ASSUME RemoveObject(u, Place(found[u])), stored[Place(found[u])] # None,
               step[u] = "delete"
        PROVE  Place(removed'[u]) = Place(found[u]) /\ removed'[u].uid >= found[u].uid
    <3> DEFINE p == Place(found[u])
    <3>1. found[u] \in Objects /\ found[u] # None /\ p \in Places /\ found[u].uid \in Nat
      BY <1>1, <2>1, PlaceOfObject DEF DiagctlInv, Told, Fate, TypeOK
    <3>2. /\ ObjectAt(p).uid = stored[p] /\ stored[p] \in Nat /\ Place(ObjectAt(p)) = p
          /\ found[u].uid <= stored[p]
      BY <1>1, <2>1, <3>1, ObjectAtType, PlaceOfObject DEF DiagctlInv, Told, Later, TypeOK
    <3>3. removed'[u] = ObjectAt(p)
      BY <1>1, <2>1 DEF RemoveObject, DiagctlInv, TypeOK
    <3> QED
      BY <3>1, <3>2, <3>3 DEF Place
  <2>2. CASE Resolve(u)
    BY <1>1, <2>2, FoundIsUnique DEF Resolve
  <2>3. CASE Delete(u)
    BY <2>1, <2>3 DEF Delete
  <2>4. CASE RequestFails(u)
    BY <2>1, <2>4 DEF RequestFails
  <2>5. CASE UNCHANGED <<found[u], removed[u]>>
    BY <2>5
  <2>6. ASSUME NEW v \in Users \ {u}, Command(v) PROVE UNCHANGED <<found[u], removed[u]>>
    BY <1>1, <2>6 DEF Command, Start, List, Resolve, Delete, RequestFails, RemoveObject,
       DiagctlInv, TypeOK
  <2>7. CASE UNCHANGED vars \/ \E p \in Places: Create(p) \/ Collect(p)
    BY <2>5, <2>7 DEF vars, Create, Collect
  <2>8. CASE List(u) \/ \E verb \in Verbs, line \in Lines: Start(u, verb, line)
    BY <2>5, <2>8 DEF List, Start
  <2> HIDE DEF Careful
  <2> QED
    BY <1>1, <2>2, <2>3, <2>4, <2>5, <2>6, <2>7, <2>8 DEF Next, Command
<1>2. DiagctlInv /\ [Next]_vars => \A u \in Users: Careful(u)
  BY <1>1
<1> QED
  BY <1>2, DiagctlInvariant, PTL DEF Spec, OnlyUniqueNames

=============================================================================
