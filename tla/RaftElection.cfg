CONSTANTS
  Nodes = {n1, n2, n3}
  NoVote = NoVote
  MaxTerm = 3
  MaxAttempts = 4
SPECIFICATION Spec
INVARIANTS SecondLeaderCountedLate
SYMMETRY Symmetry
CHECK_DEADLOCK FALSE
