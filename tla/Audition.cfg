\* Every configuration and every outcome of every gate; nothing is bounded.
SPECIFICATION Spec
CONSTANT Absent = Absent
INVARIANT AuditionSafe
PROPERTY PushesOnlyVerified
CHECK_DEADLOCK FALSE
