------------------------------ MODULE Diagctl ------------------------------
(***************************************************************************)
(* cmd/diagctl: several users type a command line each, to list, print or  *)
(* delete ClusterDiagnoses.  Its words are parsed and checked, and then    *)
(* get and delete look the named object up, and delete sends a second      *)
(* request by name, while the manager, the garbage collector and the other *)
(* users create and remove objects.                                        *)
(***************************************************************************)
EXTENDS Integers, FiniteSets, Sequences, SequencesExt

CONSTANTS
    Users,
    Namespaces,
    DiagNames,    \* names of ClusterDiagnoses
    Lines,        \* what users may type after the verb: sequences of words
    None,         \* no object, nothing found, nothing removed, and the empty word
    MaxObjects,   \* bound: objects that are ever created
    MaxFailures   \* bound: requests that fail or whose answer is lost

Places == Namespaces \X DiagNames
Verbs == {"list", "get", "delete", "explain"}
Objects == [ns: Namespaces, name: DiagNames, uid: Nat]
Outcomes == {"helped", "misused", "refused", "notFound", "ambiguous", "failed",
             "printed", "deleted"}

ASSUME PlacesAssumption ==
    /\ IsFiniteSet(Places)
    /\ None \notin Nat \cup Objects \cup Outcomes
    /\ MaxObjects \in Nat
    /\ MaxFailures \in Nat

VARIABLES
    stored,    \* API server: uid of the object at each place
    created,   \* API server: how many objects were created
    failures,  \* requests that may still go wrong
    cmd,       \* what each user asked for, once it was checked
    step,      \* the next request of each user's command
    found,     \* the object that was looked up
    outcome,   \* what the command tells its user
    removed    \* history: the object that the command's request removed

vars == <<stored, created, failures, cmd, step, found, outcome, removed>>

Init ==
    /\ stored = [p \in Places |-> None]
    /\ created = 0
    /\ failures = MaxFailures
    /\ cmd = [u \in Users |-> None]
    /\ step = [u \in Users |-> "start"]
    /\ found = [u \in Users |-> None]
    /\ outcome = [u \in Users |-> None]
    /\ removed = [u \in Users |-> None]

---------------------------------------------------------------------------
(* The manager creates diagnoses, and the garbage collector removes them.  *)

Create(p) ==
    /\ stored[p] = None
    /\ created < MaxObjects
    /\ created' = created + 1
    /\ stored' = [stored EXCEPT ![p] = created']
    /\ UNCHANGED <<failures, cmd, step, found, outcome, removed>>

Collect(p) ==
    /\ stored[p] # None
    /\ stored' = [stored EXCEPT ![p] = None]
    /\ UNCHANGED <<created, failures, cmd, step, found, outcome, removed>>

---------------------------------------------------------------------------
(* The command line.                                                       *)

Help == {"-h", "--help"}
ValueFlags(verb) == IF verb = "explain" THEN {} ELSE {"-n", "-o"}
Flags == {"-n", "-o", "--yes"} \cup Help

\* stop: why parsing ended early; wants: the flag whose value comes next.
NothingRead == [n |-> None, o |-> "text", yes |-> FALSE, wants |-> None, stop |-> None,
                args |-> <<>>]

\* flag.FlagSet: from the first word on that is no flag, all words are arguments.
ReadWord(verb, p, w) ==
    CASE p.stop # None -> p
      [] p.wants = "-n" -> [p EXCEPT !.n = w, !.wants = None]
      [] p.wants = "-o" -> [p EXCEPT !.o = w, !.wants = None]
      [] p.args # <<>> \/ w \notin Flags -> [p EXCEPT !.args = Append(@, w)]
      [] w \in Help -> [p EXCEPT !.stop = "helped"]
      [] w \in ValueFlags(verb) -> [p EXCEPT !.wants = w]
      [] w = "--yes" /\ verb = "delete" -> [p EXCEPT !.yes = TRUE]
      [] OTHER -> [p EXCEPT !.stop = "misused"]

Parse(verb, line) ==
    LET Read(p, w) == ReadWord(verb, p, w)
        p == FoldLeft(Read, NothingRead, line)
    IN  IF p.wants = None THEN p ELSE [p EXCEPT !.stop = "misused"]

\* What is told before anything is asked of the cluster, if the line is no request.
Rejection(verb, p) ==
    CASE p.stop \in {"helped", "misused"} -> p.stop
      [] p.o \notin {"text", "json"} -> "misused"
      [] ToSet(p.args) \cap Help # {} -> "helped"
      [] verb \in {"list", "explain"} -> IF p.args = <<>> THEN None ELSE "misused"
      [] Len(p.args) # 1 \/ p.args = <<None>> -> "misused"
      [] verb = "delete" /\ ~p.yes -> "refused"
      [] OTHER -> None

Request(verb, p) ==
    [verb |-> verb, ns |-> p.n, name |-> IF verb = "list" THEN None ELSE p.args[1]]

Goto(u, s) == step' = [step EXCEPT ![u] = s]

Tell(u, what) ==
    /\ Goto(u, "done")
    /\ outcome' = [outcome EXCEPT ![u] = what]

\* explain asks nothing of the cluster.
Start(u, verb, line) ==
    LET p == Parse(verb, line)
        rejection == Rejection(verb, p)
    IN  /\ step[u] = "start"
        /\ CASE rejection # None -> Tell(u, rejection) /\ UNCHANGED cmd
             [] rejection = None /\ verb = "explain" -> Tell(u, "printed") /\ UNCHANGED cmd
             [] rejection = None /\ verb # "explain" ->
                  /\ Goto(u, "resolve")
                  /\ cmd' = [cmd EXCEPT ![u] = Request(verb, p)]
                  /\ UNCHANGED outcome
        /\ UNCHANGED <<stored, created, failures, found, removed>>

---------------------------------------------------------------------------
(* The requests.                                                           *)

\* list prints what one List returns.
List(u) ==
    /\ step[u] = "resolve"
    /\ cmd[u].verb = "list"
    /\ Tell(u, "printed")
    /\ UNCHANGED <<stored, created, failures, cmd, found, removed>>

\* Where the name may stand: one Get, or one List of all namespaces.
Searched(u) == {p \in Places: p[2] = cmd[u].name /\ cmd[u].ns \in {None, p[1]}}
Matches(u) == {p \in Searched(u): stored[p] # None}

ObjectAt(p) == [ns |-> p[1], name |-> p[2], uid |-> stored[p]]

\* Mutant: the first of several matches is taken.
Chosen(u) == {p \in Matches(u): \A q \in Matches(u): stored[p] <= stored[q]}

\* A name that stands in several namespaces is not resolved.
Unique(u) == {p \in Matches(u): Cardinality(Matches(u)) = 1}

Resolve(u) ==
    /\ step[u] = "resolve"
    /\ cmd[u].verb # "list"
    /\ \/ /\ Matches(u) = {}
          /\ Tell(u, "notFound")
          /\ UNCHANGED found
       \/ /\ Matches(u) # {} /\ Unique(u) = {}
          /\ Tell(u, "ambiguous")
          /\ UNCHANGED found
       \/ \E p \in Unique(u):
            /\ found' = [found EXCEPT ![u] = ObjectAt(p)]
            /\ IF cmd[u].verb = "get"
                 THEN Tell(u, "printed")
                 ELSE Goto(u, "delete") /\ UNCHANGED outcome
    /\ UNCHANGED <<stored, created, failures, cmd, removed>>

Place(o) == <<o.ns, o.name>>

RemoveObject(u, p) ==
    /\ removed' = [removed EXCEPT ![u] = ObjectAt(p)]
    /\ stored' = [stored EXCEPT ![p] = None]

\* Mutant: an object that is gone counts as deleted.
TellGone(u) == Tell(u, "deleted")

NotFound(u) == Tell(u, "notFound")

\* Mutant: the answer that nothing is there is not looked at.
DeleteBlindly(u) ==
    /\ step[u] = "delete"
    /\ RemoveObject(u, Place(found[u]))
    /\ Tell(u, "deleted")
    /\ UNCHANGED <<created, failures, cmd, found>>

\* The request names the place of what was found; the uid is not sent.
Delete(u) ==
    LET p == Place(found[u]) IN
    /\ step[u] = "delete"
    /\ \/ stored[p] # None /\ RemoveObject(u, p) /\ Tell(u, "deleted")
       \/ stored[p] = None /\ NotFound(u) /\ UNCHANGED <<stored, removed>>
    /\ UNCHANGED <<created, failures, cmd, found>>

\* There is no cluster, the request is refused, or its answer is lost, in which case it took effect.
RequestFails(u) ==
    /\ failures > 0
    /\ failures' = failures - 1
    /\ step[u] \in {"resolve", "delete"}
    /\ Tell(u, "failed")
    /\ \/ UNCHANGED <<stored, removed>>
       \/ /\ step[u] = "delete"
          /\ stored[Place(found[u])] # None
          /\ RemoveObject(u, Place(found[u]))
    /\ UNCHANGED <<created, cmd, found>>

Command(u) ==
    \/ \E verb \in Verbs, line \in Lines: Start(u, verb, line)
    \/ List(u)
    \/ Resolve(u)
    \/ Delete(u)
    \/ RequestFails(u)

Next ==
    \/ \E p \in Places: Create(p) \/ Collect(p)
    \/ \E u \in Users: Command(u)

Spec == Init /\ [][Next]_vars

---------------------------------------------------------------------------
TypeOK ==
    /\ stored \in [Places -> Nat \cup {None}]
    /\ created \in 0 .. MaxObjects
    /\ failures \in 0 .. MaxFailures
    /\ DOMAIN cmd = Users
    /\ \A u \in Users: cmd[u] = None \/ cmd[u].verb \in Verbs \ {"explain"}
    /\ step \in [Users -> {"start", "resolve", "delete", "done"}]
    /\ found \in [Users -> Objects \cup {None}]
    /\ outcome \in [Users -> Outcomes \cup {None}]
    /\ removed \in [Users -> Objects \cup {None}]

\* What a command tells its user is what it did: it says deleted exactly when its
\* own request removed the object, so that of two users who delete one object only
\* one is told so, and after any other answer but a failed request nothing is gone
\* on its account (runDelete).
TellsTheTruth ==
    /\ \A u \in Users: outcome[u] = "deleted" => removed[u] # None
    /\ \A u \in Users: removed[u] # None => outcome[u] \in {"deleted", "failed"}
    /\ \A u, v \in Users: u # v /\ removed[u] # None => removed[u] # removed[v]

\* A command without -n looks up, prints and removes an object only if, when it
\* looked, its name stood in no other namespace; what it removes then stood at
\* that place, though it may be a later object of the same name (resolveDiagnosis).
OnlyUniqueNames ==
    [][\A u \in Users:
         /\ found'[u] # found[u] =>
              \A p \in Places: p[2] = cmd[u].name /\ stored[p] # None =>
                  p = Place(found'[u]) \/ cmd[u].ns # None
         /\ removed'[u] # removed[u] =>
              Place(removed'[u]) = Place(found[u]) /\ removed'[u].uid >= found[u].uid]_vars

\* The examples of printGlobalUsage, of the usage of each verb, of runDelete's
\* refusal, and of README.md.
Examples(verb) ==
    CASE verb = "list" -> {<<>>, <<"-o", "json">>}
           \cup {<<"-n", n>>: n \in Namespaces}
           \cup {<<"-n", n, "-o", "json">>: n \in Namespaces}
      [] verb = "get" -> {<<d>>: d \in DiagNames}
           \cup {<<d, "-n", n>>: d \in DiagNames, n \in Namespaces}
           \cup {<<d, "-o", "json", "-n", n>>: d \in DiagNames, n \in Namespaces}
      [] verb = "delete" -> {<<d, "-n", n, "--yes">>: d \in DiagNames, n \in Namespaces}
      [] verb = "explain" -> {<<>>}

\* Whoever types one of the examples is not told that the usage is invalid.
ExamplesAccepted ==
    [][\A u \in Users, verb \in Verbs: \A line \in Examples(verb):
         Start(u, verb, line) => outcome'[u] # "misused"]_vars

=============================================================================
