SPECIFICATION Spec
CONSTANTS
    None = None
    Threads = {t1, t2}
    Instances = {i1, i2}
    Devices = {d1, d2}
    DriverSurfaces = TRUE
    MaxDevices = 2
    MaxInstances = 2
    MaxSurfaces = 1
SYMMETRY Symmetry
INVARIANTS
    NeverStale
    RegistriesAgree
CHECK_DEADLOCK FALSE
