------------------------------- MODULE MCRedis -------------------------------
(***************************************************************************)
(* Redis for TLC, with the patterns and the matching of TopicPatterns.  A  *)
(* behaviour is one of the transport, or one topic and one pattern to      *)
(* match.                                                                  *)
(***************************************************************************)
EXTENDS Redis, TopicPatterns

VARIABLES topic, pattern   \* what is matched; <<>> for the transport

AB == <<"a", ".", "b">>
ABB == <<"a", ".", "b", ".", "b">>
AStar == <<"a", ".", "*">>
AStars == <<"a", ".", "*", "*">>

\* "a.*" and "a.**" become the same Redis glob.
SomeTopics == {AB, AStar, AStars}
SomeChannels == {AB, ABB}
RedisPatterns == [x \in Topics |-> RedisPattern(x)]
ServerMatches == {<<c, p>> \in Channels \X Patterns : Engine(p, c)}
ListenerMatches == {<<c, x>> \in Channels \X Topics : LocalMatches(c, x)}

RedisInit == Init /\ topic \in ShortTopics /\ pattern \in WholePatterns
RedisNext == topic = <<>> /\ pattern = <<>> /\ Next /\ UNCHANGED <<topic, pattern>>
RedisSpec == RedisInit /\ [][RedisNext]_<<vars, topic, pattern>>

-----------------------------------------------------------------------------
\* A subscription to a pattern of whole segments gets the topics it means,
\* within the exceptions that MeansSegments lists for each transport, although
\* the broker and the local filter match character by character and in different
\* languages (_to_redis_pattern, _to_nats_subject and the _matches functions).
SubscriptionsMeanSegments == MeansSegments(topic, pattern)

\* "Topic strings support `*` (one segment)" (src/README.md), "`*` matches single
\* segment" (MemoryTransport._matches): in memory, a subscription to "a.*" gets
\* "a.b" and not "a.b.b".
MemoryStarIsOneSegment == StarIsOneSegment(topic, pattern)
=============================================================================
