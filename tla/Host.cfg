SPECIFICATION Spec
CONSTANTS
 Envs={e1,e2}
 Cells={c1,c2}
 DBs={d1,d2}
 None=None
 MaxInits=2
 MaxCalls=2
SYMMETRY Symmetry
CHECK_DEADLOCK FALSE
INVARIANTS HostTypeOK ServedByOwn InitErrorRecent WorkOwned PendingHoldsLoop AttachedAsIssued
