SPECIFICATION Spec
INVARIANT NoMisparse
