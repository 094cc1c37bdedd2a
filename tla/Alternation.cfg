SPECIFICATION Spec
CONSTANT Requests <- Alternations
INVARIANT EveryArm
