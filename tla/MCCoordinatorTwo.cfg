SPECIFICATION Spec
CONSTANTS
    ra = ra
    rb = rb
    na = na
    nb = nb
    Realm = {ra, rb}
    NoRealm = NoRealm
    Notifier = {na, nb}
    Owner <- TwoOwners
    MaxVersion = 2
    Uses = {"used"}
    SilentWrites = FALSE
    OtherThreads = FALSE
INVARIANTS
    VersionsInOrder
SYMMETRY Symmetry
CHECK_DEADLOCK FALSE
