SPECIFICATION Spec
CONSTANTS
  Programs <- AllPrograms
  Squashable <- AllButDo
  MaxTrue = 2
INVARIANTS FollowsSource EndsAsWritten StacksBalanced
PROPERTY Terminates
