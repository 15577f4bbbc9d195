\* Both proxies, every failure, and three bytes of payload.  A call that is
\* over and a connection that is closed have no next step.
SPECIFICATION FairSpec
CONSTANT Bytes = 3
INVARIANTS Inv ErrorCloses BytesInOrder
PROPERTIES KeptWhileWanted AssociationEnds CallReturns
CHECK_DEADLOCK FALSE
