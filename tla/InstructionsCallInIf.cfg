SPECIFICATION Spec
CONSTANTS
  Programs <- CallInIf
  Squashable = {}
  MaxTrue = 2
INVARIANT FollowsSource
