SPECIFICATION Spec
CONSTANTS
  c1 = c1
  c2 = c2
  e1 = e1
  Terms = Terms
  Free = Free
  Dead = Dead
  Clients = {c1, c2}
  Embeddings = {e1}
  MaxHead = 2
SYMMETRY ClientSymmetry
INVARIANTS TypeOK IndexHeadsResolve AnswersAreLive LockedAnswersAreCurrent
