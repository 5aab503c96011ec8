CONSTANTS
    h1 = h1
    h2 = h2
    u1 = u1
    Default = Default
    Hosts <- MCHosts
    Users <- MCUsers
    Playbooks <- MCPlaybooks
    MaxItems = 2
SPECIFICATION Spec
INVARIANTS
    CeaseOnFailure
