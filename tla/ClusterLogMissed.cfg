SPECIFICATION Spec
CONSTANTS
  step = step  done = done  done2 = done2
  Events = {step, done, done2}
  Kind <- MCKind
  MaxBreaks = 1
  MaxRepeats = 1
PROPERTY FinishEnds
\* A stream that has ended stays so.
CHECK_DEADLOCK FALSE
