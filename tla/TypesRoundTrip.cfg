SPECIFICATION Spec
INVARIANT RoundTrip
CHECK_DEADLOCK FALSE
