CONSTANTS
  Threads = {t1}
  Topics <- SomeTopics
  Channels <- SomeChannels
  PatternOf <- RedisPatterns
  Glob <- ServerMatches
  Matches <- ListenerMatches
  MaxOps = 0
  Ops = {"subscribe"}
  None = None
  TopicChars = {"a", "b", "."}
  PatternChars = {"a", ".", "*"}
  MaxTopic = 3
  MaxPattern = 3
SPECIFICATION RedisSpec
INVARIANT MemoryStarIsOneSegment
CHECK_DEADLOCK FALSE
