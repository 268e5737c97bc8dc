\* Odd and even numbers of repetitions, blocked and not.
CONSTANTS
  Repetitions = {1, 3, 4}
  MaxSignals = 3
SPECIFICATION FairSpec
INVARIANT FirstHalfInOrder
PROPERTIES StepsByOne Ends
