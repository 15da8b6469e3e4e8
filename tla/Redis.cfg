CONSTANTS
  Threads = {t1, t2}
  Topics <- SomeTopics
  Channels <- SomeChannels
  PatternOf <- RedisPatterns
  Glob <- ServerMatches
  Matches <- ListenerMatches
  MaxOps = 3
  Ops = {"subscribe", "receive", "request"}
  None = None
  TopicChars = {"a", "b", ".", "?"}
  PatternChars = {"a", "b", ".", "*", "?"}
  MaxTopic = 3
  MaxPattern = 4
SPECIFICATION RedisSpec
INVARIANTS RefsCountUsers NoMissedCall SubscriptionsMeanSegments
CHECK_DEADLOCK FALSE
