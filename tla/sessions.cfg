SPECIFICATION Spec
CONSTANTS
  N = 2
  Slots = {s1, s2}
  Requests = {r1, r2}
  MaxRequests = 3
  MaxCrashes = 2
INVARIANTS AssemblyIsAttended OneAssemblyUnlessRearmed ReadyIsQueued NoPartForgotten
PROPERTIES AssembledWholeUnlessDisturbed
SYMMETRY Symmetry
CHECK_DEADLOCK FALSE
