SPECIFICATION Spec
CONSTANTS
  Asks <- SmallAsks
  Posts <- SmallPosts
  Replies <- SmallReplies
  Field <- SmallField
  Parsable <- SmallParsable
  AuthKey <- Auth
  MaxCalls = 2
INVARIANTS RequestsArrive ResponsesArrive PostsAnswered StreamsDecode
CHECK_DEADLOCK FALSE
