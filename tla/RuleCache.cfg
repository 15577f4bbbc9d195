\* Two callers, a cache of two entries and five requests with four keys:
\* hits, misses, evictions and two adds of one key all occur.
SPECIFICATION Spec
CONSTANTS
    Nil = Nil
    i4 = i4
    i6 = i6
    h4 = h4
    Callers = {c1, c2}
    Size = 2
    Rules <- MCRules
    Requests <- MCRequests
INVARIANT Inv
PROPERTIES AnsweredIsCached ImplementsService
