SPECIFICATION Spec
CONSTANTS
    ra = ra
    rb = rb
    na = na
    nb = nb
    Realm = {ra, rb}
    NoRealm = NoRealm
    Notifier = {na}
    Owner <- OneOwner
    MaxVersion = 3
    Uses = {"query", "used"}
    SilentWrites = TRUE
    OtherThreads = TRUE
INVARIANTS
    SuppressedAreSilent
CHECK_DEADLOCK FALSE
