\* Two users, two names in two namespaces, objects that come and go.
SPECIFICATION Spec
CONSTANTS
    Users = {u1, u2}
    Namespaces = {ns1, ns2}
    DiagNames = {d, e}
    Lines <- MCLines
    None = None
    MaxObjects = 3
    MaxFailures = 1
INVARIANTS TypeOK TellsTheTruth
PROPERTIES OnlyUniqueNames
SYMMETRY Symmetry
CHECK_DEADLOCK FALSE
