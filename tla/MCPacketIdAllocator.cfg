CONSTANT MaxPid = 7
SPECIFICATION Spec
INVARIANT FreeIsUnused
PROPERTY ImplementsPool
