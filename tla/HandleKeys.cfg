SPECIFICATION Spec
CONSTANTS
    None = None
    Instances = {i1, i2}
    Devices = {d1, d2, d3}
    Queues = {q1, q2}
    Words = {w1, w2}
    Blocks = {b1, b2, b3}
    MaxInstances = 3
    MaxDevices = 4
    DriverCommands <- DriverHas
    Emulated = {d1, d2}
    Unsafe = {d1}
SYMMETRY Symmetry
INVARIANTS
    DevicesFindTheirData
    CallsStayHome
CHECK_DEADLOCK FALSE
