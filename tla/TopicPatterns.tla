--------------------------- MODULE TopicPatterns ---------------------------
(***************************************************************************)
(* The topic matching of the transports (src/eventforge/transports): pure  *)
(* functions of a topic and a pattern, both sequences of characters.  Each *)
(* transport turns the pattern into a list of tokens for a matching        *)
(* engine: a token admits one character of a set, or any number of them.   *)
(* "[" and "]" are left out of the alphabet.                               *)
(***************************************************************************)
EXTENDS Integers, Sequences, SequencesExt

CONSTANTS TopicChars, PatternChars, MaxTopic, MaxPattern

Chars == TopicChars \cup PatternChars

-----------------------------------------------------------------------------
(* The matching engines: fnmatch, re, and the glob of the Redis server *)

One(S) == <<[chars |-> S, star |-> FALSE]>>
Many(S) == <<[chars |-> S, star |-> TRUE]>>

\* Tokens ts match the whole of s (external).
Engine(ts, s) ==
  LET m[i \in 1..Len(ts) + 1, j \in 1..Len(s) + 1] ==
        IF i > Len(ts) THEN j > Len(s)
        ELSE LET fits == j <= Len(s) /\ s[j] \in ts[i].chars
             IN IF ts[i].star THEN m[i + 1, j] \/ (fits /\ m[i, j + 1])
                ELSE fits /\ m[i + 1, j + 1]
  IN m[1, 1]

\* A scan of p from the left that gives "**" to double, another "*" to single
\* and every other character c to other[c].
Scan(p, double, single, other) ==
  LET t[i \in 1..Len(p) + 2] ==
        IF i > Len(p) THEN <<>>
        ELSE IF i < Len(p) /\ p[i] = "*" /\ p[i + 1] = "*" THEN double \o t[i + 2]
        ELSE IF p[i] = "*" THEN single \o t[i + 1]
        ELSE other[p[i]] \o t[i + 1]
  IN t[1]

Literal == [c \in Chars |-> One({c})]
\* In a glob "?" is any one character.
GlobChar == [c \in Chars |-> IF c = "?" THEN One(Chars) ELSE One({c})]
GlobTokens(p) == Scan(p, Many(Chars), Many(Chars), GlobChar)

-----------------------------------------------------------------------------
(* The transports *)

\* MemoryTransport._matches: "*" becomes "[^.]*", which to fnmatch is one of
\* the characters "^" and "." followed by anything.
MemoryMatches(t, p) ==
  \/ t = p
  \/ Engine(Scan(p, Many(Chars), One({"^", "."}) \o Many(Chars), GlobChar), t)

\* tcp._topic_matches: fnmatch.
TcpMatches(t, p) == t = p \/ Engine(GlobTokens(p), t)

\* redis._matches: "*" is "[^.]*", "**" is ".*".
LocalMatches(t, p) ==
  t = p \/ Engine(Scan(p, Many(Chars), Many(Chars \ {"."}), Literal), t)

\* nats._matches: the same text.
NatsMatches(t, p) == LocalMatches(t, p)

\* _to_redis_pattern: "**" and "*" both become the "*" of a Redis glob.
RedisPattern(p) == GlobTokens(p)
RedisDelivers(t, p) == Engine(RedisPattern(p), t)

Segments(s) ==
  LET cuts == SetToSortSeq({0, Len(s) + 1} \cup {i \in DOMAIN s : s[i] = "."}, <)
  IN [k \in 1..Len(cuts) - 1 |-> SubSeq(s, cuts[k] + 1, cuts[k + 1] - 1)]

Star == <<"*">>
DoubleStar == <<"*", "*">>
Rest == <<">">>

\* Mutant: the doubled star is passed on as it is.
NatsSubjectUnmapped(p) == Segments(p)

\* _to_nats_subject: a token that is "**" becomes ">".
NatsSubject(p) ==
  [k \in DOMAIN Segments(p) |-> IF Segments(p)[k] = DoubleStar THEN Rest ELSE Segments(p)[k]]

\* The NATS server (external): "*" is one token, a final ">" one or more; a
\* ">" elsewhere makes the subject invalid.
NatsDelivers(t, p) ==
  LET s == NatsSubject(p)
      ts == Segments(t)
      tail == s[Len(s)] = Rest
  IN /\ \A k \in 1..Len(s) - 1 : s[k] # Rest
     /\ IF tail THEN Len(ts) >= Len(s) ELSE Len(ts) = Len(s)
     /\ \A k \in DOMAIN s : s[k] \in {Star, Rest} \/ s[k] = ts[k]

-----------------------------------------------------------------------------
(* Properties *)

ShortTopics == BoundedSeq(TopicChars, MaxTopic)

\* The meaning of a pattern on segments: "*" is one segment, "**" stands for at
\* least so many, anything else for itself.
SegmentMatches(t, p, least) ==
  LET ts == Segments(t)
      ps == Segments(p)
      m[i \in 1..Len(ps) + 1, j \in 1..Len(ts) + 1] ==
        IF i > Len(ps) THEN j > Len(ts)
        ELSE IF ps[i] = DoubleStar THEN \E k \in j + least..Len(ts) + 1 : m[i + 1, k]
        ELSE j <= Len(ts) /\ ps[i] \in {Star, ts[j]} /\ m[i + 1, j + 1]
  IN m[1, 1]

\* Stars are whole segments; none is a single star; "**" comes last.
WholeSegments(p) == \A i \in DOMAIN Segments(p) :
  LET s == Segments(p)[i]
  IN s \in {Star, DoubleStar} \/ \A j \in DOMAIN s : s[j] # "*"
NoSingleStar(p) == \A i \in DOMAIN Segments(p) : Segments(p)[i] # Star
NoDoubleStar(p) == \A i \in DOMAIN Segments(p) : Segments(p)[i] # DoubleStar
NoEmptySegment(p) == \A i \in DOMAIN Segments(p) : Segments(p)[i] # <<>>
StarsLast(p) == \A i \in 1..Len(Segments(p)) - 1 : Segments(p)[i] # DoubleStar
NoQuestionMark(p) == \A i \in DOMAIN p : p[i] # "?"

WholePatterns == {p \in BoundedSeq(PatternChars, MaxPattern) : WholeSegments(p)}

\* What a subscriber to a pattern p of whole segments gets of the topic t, where
\* "*" is meant as one segment, "**" as one or more, and "?" as itself:
\*   behind Redis exactly that, although the server's glob takes "?" and both
\*     stars for more;
\*   behind NATS exactly that where "**" comes last and no segment is empty;
\*   over TCP at least that, and nothing else if p has no "*" segment and no "?";
\*   in memory the same, but with a "*" segment nothing is said.
\* The docs let "**" stand for "any number of segments"; no transport takes it
\* for none, so that "a.**" does not get "a".
MeansSegments(t, p) ==
  LET meant == SegmentMatches(t, p, 1)
  IN /\ RedisDelivers(t, p) /\ LocalMatches(t, p) <=> meant
     /\ StarsLast(p) /\ NoEmptySegment(p) /\ NoEmptySegment(t)
          => (NatsDelivers(t, p) /\ NatsMatches(t, p) <=> meant)
     /\ meant => TcpMatches(t, p) /\ (NoSingleStar(p) => MemoryMatches(t, p))
     /\ NoSingleStar(p) /\ NoQuestionMark(p) /\ (TcpMatches(t, p) \/ MemoryMatches(t, p)) => meant

\* The documented meaning of "*", one segment, for the memory transport.
StarIsOneSegment(t, p) ==
  NoDoubleStar(p) /\ NoQuestionMark(p) /\ NoEmptySegment(p) /\ NoEmptySegment(t)
    => (MemoryMatches(t, p) <=> SegmentMatches(t, p, 0))
=============================================================================
