SPECIFICATION Spec
CONSTANTS
  Programs <- NativeIfElse
  Squashable = {}
  MaxTrue = 2
INVARIANT FollowsSource
