SPECIFICATION EmulationSpec
CONSTANTS
    None = None
    Instances = {i1, i2}
    Engines = {"vkd3d", "other"}
    Override = "auto"
    UnsafeSpoof = TRUE
    FilterMemoryHost = TRUE
    DriverFeatures = {"divisor", "vertexPipelineStoresAndAtomics"}
    DriverExtensions = {"KHR_divisor", "memory_host", "external_fence", "dma_buf"}
    OptionalByLayer = {"external_fence"}
    RequiredByLayer = {"dma_buf"}
    Threads = {t1, t2}
    Devices = {d1}
    Buffers = {b1}
    Images = {m1}
    Pools = {p1}
    Budget = 2
    Sizes = {1, 2}
    Wanted <- WantedSets
INVARIANTS
    AdvertisedCanBeEnabled
    DriverUsedAsEnabled
    BudgetHolds
    PoolsAreKnown
CHECK_DEADLOCK FALSE
