SPECIFICATION Spec
CONSTANTS
  father = father
  a = a
  Procs = {father, a}
  Conns = {1}
  Size <- Pages
  Listeners = {father}
  NodeSize = 128
  Mortal = {father}
  MaxSends = 1
  MaxDeaths = 1
CHECK_DEADLOCK FALSE
INVARIANT
  ReaderResumes
