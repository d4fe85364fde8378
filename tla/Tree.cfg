SPECIFICATION Spec
CONSTANTS
    comp = comp
    part = part
    factory = factory
    proxy = proxy
    proxypart = proxypart
    proxyfactory = proxyfactory
    Root = root
    Peer = peer
    NoEntity = NoEntity
    Locals <- MCLocals
    Remotes <- MCRemotes
    Factories <- MCFactories
    Names = {"a", "b"}
    RootNames = {"me", "myself"}
    PeerName = "you"
    Creatables = {"c"}
    MaxSteps = 7
INVARIANTS LookupMatches TreeAgrees CreatablesFound
CHECK_DEADLOCK FALSE
