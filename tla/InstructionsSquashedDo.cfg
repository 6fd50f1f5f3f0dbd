SPECIFICATION Spec
CONSTANTS
  Programs <- SquashedDo
  Squashable = {"p"}
  MaxTrue = 2
INVARIANT FollowsSource
