\* One address announced on two nodes, nothing changed from outside.
SPECIFICATION Spec
CONSTANTS
    Addresses = {a1}
    Nodes = {n1, n2}
    MaxExternal = 0
    None = None
PROPERTY DisabledOnEveryServer
