SPECIFICATION FairSpec
CONSTANTS
  MaxRequests = 4
  MaxPosts = 2
INVARIANTS RepliesInOrder InStep OwnSession PostsInOrder
PROPERTIES RequestReturns
CHECK_DEADLOCK FALSE
