SPECIFICATION Spec
CONSTANTS
    None = None
    m1 = m1
    m2 = m2
    d1 = d1
    d2 = d2
    Threads = {t1, t2}
    Memories = {m1, m2}
    Devices = {d1, d2}
    DeviceOf <- MCDeviceOf
    Coherent = {m1}
    Regions = {r1, r2}
    MaxSize = 2
SYMMETRY Symmetry
INVARIANTS
    CopiesAreSafe
    RegionsAreOwned
    HostWritesSurvive
PROPERTIES
    WritesAreCarried
