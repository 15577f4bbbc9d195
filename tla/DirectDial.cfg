\* Every mode and option, every outcome of the lookup and every reachability
\* of the target.  The call is over at some point: it may stop.
SPECIFICATION FairSpec
INVARIANTS Inv ErrorMeansAllFailed ReachableIsReached
PROPERTY Settles
CHECK_DEADLOCK FALSE
