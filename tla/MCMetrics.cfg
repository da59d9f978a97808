SPECIFICATION Spec
CONSTANTS
  Pid = {1, 2}
  NumCpus = 1
  MaxNow = 5
INVARIANT CountedOnce
