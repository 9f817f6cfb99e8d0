SPECIFICATION FairSpec
CONSTANTS
    ra = ra
    rb = rb
    na = na
    nb = nb
    Realm = {ra, rb}
    NoRealm = NoRealm
    Notifier = {na}
    Owner <- OneOwner
    MaxVersion = 2
    Uses = {"query", "used"}
    SilentWrites = FALSE
    OtherThreads = FALSE
PROPERTIES
    WaitsEnd
    CommitsArrive
CHECK_DEADLOCK FALSE
