SPECIFICATION Spec
CONSTANT MaxRequests = 2
INVARIANT AvailabilityIsNewest
CHECK_DEADLOCK FALSE
