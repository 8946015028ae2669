CONSTANTS
  Calls = {c1, c2, c3, c4}
  Keys = {k1}
  Results = {ok}
  Failures = {err}
  KeyError = KeyError
  None = None
  MaxRestarts = 1
SPECIFICATION BoundedRestartFairSpec
INVARIANTS
  AtMostOncePerProcess
  AnsweredByOwnProcess
PROPERTIES
  EachProcessImplementsAtMostOnce
  AnsweredOrLost
