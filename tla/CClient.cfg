SPECIFICATION CSpec
CONSTANT Addresses = {a1, a2, a3, a4, a5}
CHECK_DEADLOCK FALSE
INVARIANTS OwnershipAgrees 
