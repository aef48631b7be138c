SPECIFICATION Spec
CONSTANTS
  left = left
  right = right
  completed = completed
  failed = failed
  o1 = o1
  o2 = o2
  s1 = s1
  s2 = s2
  None = None
  Task = {left, right}
  Ending = {completed, failed}
  Result <- MCResult
  Direct = {right}
  Group = {left, right}
  Wants = {left, right}
  Attempt = {1, 2}
  Output = {o1, o2}
  Session = {s1, s2}
  MaxRestarts = 0
INVARIANTS
  OneContinuation
CHECK_DEADLOCK FALSE
