\* Three workers, one workload per service.
CONSTANTS
    w1 = w1  w2 = w2  w3 = w3
    index_html = index_html  style_css = style_css  demo_html = demo_html
    Escaped = Escaped  NoRequest = NoRequest
    Workers <- ThreeWorkers
    Files <- SiteFiles
    StaticPaths <- SitePaths
    Resolve <- SiteResolve
    Workloads <- AllWorkloads
    bucketBounds <- Bounds
    stoi <- Integer
    SizeBits = 8
    MaxVersion = 2
    Characters <- Alphabet
    maxEntries = 2
    maxKeyLength = 1
    maxValueLength = 2
SYMMETRY WorkerSymmetry
SPECIFICATION Spec
INVARIANTS
    TypeOK HighestLayerWins CacheIsLru ServedWasOnDisk StoreAccounted
    AllowExact JsonFaithful NothingUncounted ReportLagBounded PercentileHonest
CHECK_DEADLOCK FALSE
