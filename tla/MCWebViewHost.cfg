SPECIFICATION WebSpec
CONSTANTS
    Threads = {t1, t2}
    FirstThread = t1
    Views = {v1}
    MaxOps = 1
    MaxAttaches = 2
    Nobody = Nobody
INVARIANTS EditorsAreHonest
PROPERTIES NoLateOperation GenerationsAreReleased EditorIsExplained
CHECK_DEADLOCK FALSE
