\* Three callers of one key, with equal or different decisions.
CONSTANTS
    Callers = {c1, c2, c3}
    Fingerprints = {f, g}
    Budget = 1
    TTL = 2
SPECIFICATION Spec
INVARIANTS
    OneWorkerPerKey
    ReplayedIsRecorded
PROPERTIES
    ImplementsContract
    AbandonedKeysExpire
