CONSTANTS
    d1 = d1
    d2 = d2
    t1 = t1
    t2 = t2
    e1 = e1
    e2 = e2
    e3 = e3
    Devices = {d1, d2}
    Tabs = {t1, t2}
    DeviceOf <- TwoDevices
    Edits = {e1, e2}
    Habits = {"purge", "late", "lapse"}
    MaxKeys = 4
    MaxFailures = 1
SPECIFICATION Spec
SYMMETRY Symmetry
INVARIANTS
    NoLostEdit
    CleanRowsAreServerRows
