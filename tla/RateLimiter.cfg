SPECIFICATION Spec
CONSTANTS
  c1 = c1
  c2 = c2
  c3 = c3
  Callers = {c1, c2, c3}
  Cost = 2
  Full = 4
  MaxClock = 5
INVARIANTS
  TypeOK
  WindowBound
PROPERTIES
  PatientCallerAdmitted
SYMMETRY Symmetry
