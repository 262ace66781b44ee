\* One branch, with and without a roster; users and networks of every mode.
CONSTANTS
  None = None
  b1 = b1
  ann = ann
  eve = eve
  Branches = {b1}
  Names = {ann, eve}
  Slots = {q1, q2}
  Modes <- AllModes
SPECIFICATION Spec
SYMMETRY Symmetry
INVARIANTS RosterKept Converged
CHECK_DEADLOCK FALSE
