\* A reader and an author who may follow and block each other.
CONSTANTS
    v = v
    a = a
    l30 = l30
    Entries <- MCEntries
    Users = {v, a}
    Authors = {a}
    Limits = {l30}
    Requests = {r1, r2}
    MaxItems = 1

SPECIFICATION Spec

INVARIANTS
    TypeOK
    StaleOnlyIfExcused

PROPERTIES
    RemovedItemsVanish
