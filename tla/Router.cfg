\* Names with and without rules, all lookups, two ports, and calls again and
\* again with one Addr.
SPECIFICATION Spec
CONSTANTS
    Nil = Nil
    i4 = i4
    j4 = j4
    i6 = i6
    j6 = j6
    V4 = {i4, j4}
    V6 = {i6, j6}
    L4 = L4
    L6 = L6
    Device = eth0
    Rules <- MCRules
    Hosts <- MCHosts
    Ports = {53, 80}
    Default = "direct"
INVARIANTS Inv DialledWasMatched HijackReachesProxy MatchedIsFresh LeavesAsConfigured RepliesReach
