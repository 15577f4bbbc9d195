\* One caller is enough to ask whether a good database may become empty.
SPECIFICATION Spec
CONSTANTS
    None = None
    p = p
    q = q
    c1 = c1
    c2 = c2
    c3 = c3
    Callers = {c1}
    Procs = {p, q}
    ProcOf <- MCProcOf
    Databases = {"geosite"}
    Versions = {"v1"}
    MaxCrashes = 1
PROPERTY StaysUseful
