\* One user who types the examples.
SPECIFICATION Spec
CONSTANTS
    Users = {u1}
    Namespaces = {ns1}
    DiagNames = {d}
    Lines <- MCExamples
    None = None
    MaxObjects = 1
    MaxFailures = 0
PROPERTIES ExamplesAccepted
CHECK_DEADLOCK FALSE
