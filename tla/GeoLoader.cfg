\* One database in each format, two versions of it on the server.
SPECIFICATION FairSpec
CONSTANTS
    None = None
    p = p
    q = q
    c1 = c1
    c2 = c2
    c3 = c3
    Callers = {c1, c2, c3}
    Procs = {p, q}
    ProcOf <- MCProcOf
    Databases = {"geoip"}
    Versions = {"v1", "v2"}
    MaxCrashes = 2
INVARIANTS Inv OneMapPerProcess TempsRemoved
PROPERTIES StaysLoadable FailsOnlyWithoutFile CallReturns
