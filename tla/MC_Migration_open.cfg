SPECIFICATION Spec
CONSTANTS
  Process = {p1, p2, p3}
SYMMETRY Symmetry
INVARIANTS
  SchemaIsWhole
  BrokenOnlyByAStop
