----------------------------- MODULE QualityScorer -----------------------------
(***************************************************************************)
(* What the pipeline makes of an MCAP file: the topics it lists and the    *)
(* quality score (pipeline/pipeline: extractors/mcap_extractor.py,         *)
(* quality/scorer.py), the step ExtractAndScore of module Pipeline.        *)
(*                                                                         *)
(* Numbers are fixed-point: rates in hundredths of a hertz, to which the   *)
(* code rounds them, scores in ten-thousandths, likewise.                  *)
(***************************************************************************)
EXTENDS McapFile, FiniteSetsExt, SequencesExt

CONSTANTS
    ProjectSchemas,  \* the topic_schema of the projects there may be
    TicksPerSecond,  \* the unit of log times
    MaxFrames,       \* frames read at most, 50
    Samples,         \* frames sampled at most, 5
    BorderPasses,    \* the pairs of a rate and an expected one, exactly a tenth
                     \* apart, that the comparison of floats lets pass
    Signals          \* sharpness the sampled frames may have

Unit == 10000

ASSUME QualityAssumption ==
    /\ \A p \in ProjectSchemas :
         /\ \A t \in DOMAIN p.expected : t \in Topics /\ p.expected[t] \in Int
         /\ p.required \in Seq(Topics)
    /\ TicksPerSecond \in Nat \ {0}
    /\ MaxFrames \in Nat \ {0}
    /\ Samples \in Nat \ {0, 1}
    /\ BorderPasses \subseteq Nat \X Nat
    /\ Signals \subseteq 0 .. Unit

VARIABLES
    schema,    \* the topic_schema of the project the file belongs to
    phase,     \* "stored", "extracted", "scored"
    stats,     \* the listed topics
    quality    \* the scores

qualityVars == <<schema, phase, stats, quality>>

Expected == schema.expected      \* topic_frequency
Required == schema.required      \* required_topics

QualityInit ==
    /\ schema \in ProjectSchemas
    /\ phase = "stored"
    /\ stats = <<>>
    /\ quality = [rate |-> 0, complete |-> 0, signal |-> 0, total |-> 0, sample |-> <<>>]

-----------------------------------------------------------------------------
(* McapExtractor.extract                                                   *)

RoundDiv(a, b) == (2 * a + b) \div (2 * b)

Listed == IF file.summary = "full" THEN {c.topic : c \in ToSet(file.channels)} ELSE {}
ChannelsOf(t) == {c \in DOMAIN file.channels : file.channels[c].topic = t}
MessageCount(c) == Cardinality({i \in DOMAIN file.messages : file.messages[i].channel = c})

\* An empty or instantaneous recording counts as one second.
Duration ==
    IF EndTime(file) > StartTime(file) THEN EndTime(file) - StartTime(file)
    ELSE TicksPerSecond

\* A later channel of a topic overwrites what an earlier one left.
TopicMeta(t) ==
    LET c == Max(ChannelsOf(t))
        n == MessageCount(c)
    IN  [type |-> IF file.channels[c].schema = "image" THEN "image" ELSE "other",
         count |-> n,
         rate |-> RoundDiv(100 * n * TicksPerSecond, Duration)]

Extract ==
    /\ phase = "stored"
    /\ phase' = "extracted"
    /\ stats' = [t \in Listed |-> TopicMeta(t)]
    /\ UNCHANGED <<file, schema, quality>>

-----------------------------------------------------------------------------
(* QualityScorer.score                                                     *)

\* A mutant: a topic that comes too often is not off.
RateScoreOfSlow(t) ==
    LET e == Expected[t]
        off == IF stats[t].rate > e THEN 0 ELSE e - stats[t].rate
    IN  IF 10 * off <= e THEN Unit
        ELSE IF off >= e THEN 0 ELSE Unit - RoundDiv(Unit * off, e)

\* Full marks within a tenth of the expected rate, else the share that is off
\* is lost.  abs(1.0 - ratio) <= 0.10 compares floats: at exactly a tenth it
\* depends on how the two rates divide (27.0 passes for 30.0, 33.0 does not).
\* (The code rounds only the mean, the model each topic's share too.)
RateScore(t) ==
    LET e == Expected[t]
        off == IF stats[t].rate > e THEN stats[t].rate - e ELSE e - stats[t].rate
    IN  IF 10 * off < e \/ (10 * off = e /\ <<stats[t].rate, e>> \in BorderPasses) THEN Unit
        ELSE IF off >= e THEN 0 ELSE Unit - RoundDiv(Unit * off, e)

\* Topics that are not listed, or expected at no rate, do not count.
Rated == {t \in DOMAIN Expected \cap DOMAIN stats : Expected[t] > 0}

FrameRate ==
    IF Rated = {} THEN Unit
    ELSE RoundDiv(MapThenSumSet(RateScore, Rated), Cardinality(Rated))

Completeness ==
    IF Required = <<>> THEN Unit
    ELSE RoundDiv(Unit * Cardinality(ToSet(Required) \cap DOMAIN stats), Len(Required))

\* _sample_sharpness: which of n frames are looked at.
SampleIndices(n) ==
    [i \in 1 .. Min({Samples, n}) |-> 1 + ((i - 1) * (n - 1)) \div (Samples - 1)]

\* The first image topic in the order of the channels, and its frames.
ImageTopics == {t \in DOMAIN stats : stats[t].type = "image"}
FirstImage == CHOOSE t \in ImageTopics :
                \A u \in ImageTopics : Min(ChannelsOf(t)) <= Min(ChannelsOf(u))
Frames(t) == Min({MaxFrames,
                  Cardinality({i \in DOMAIN file.messages : ChannelOf(file, i).topic = t})})

\* Without an image topic the signal is taken for perfect; without a frame, a
\* decodable one or cv2, for 0.9.
SignalQuality(n) ==
    IF ImageTopics = {} THEN {Unit}
    ELSE IF n = 0 THEN {9000} ELSE Signals \cup {9000}

Score ==
    /\ phase = "extracted"
    /\ phase' = "scored"
    /\ LET n == IF ImageTopics = {} THEN 0 ELSE Frames(FirstImage)
       IN \E s \in SignalQuality(n) :
            quality' = [rate |-> FrameRate, complete |-> Completeness, signal |-> s,
                        total |-> RoundDiv(4 * FrameRate + 4 * Completeness + 2 * s, 10),
                        sample |-> SampleIndices(n)]
    /\ UNCHANGED <<file, schema, stats>>

QualityNext == Extract \/ Score

-----------------------------------------------------------------------------
\* Less, and more, than a tenth from the rate that is expected of it.
NearRate(t) == 9 * Expected[t] < 10 * stats[t].rate /\ 10 * stats[t].rate < 11 * Expected[t]
FarRate(t) == 10 * stats[t].rate < 9 * Expected[t] \/ 11 * Expected[t] < 10 * stats[t].rate

\* A recording with all required topics, sharp but for what the last rounding
\* lifts (a schema that requires a topic twice never gives full marks).
CompleteAndSharp ==
    /\ ToSet(Required) \subseteq DOMAIN stats
    /\ IsInjective(Required)
    /\ quality.signal >= Unit - 2

\* Two thousand thirds of topics and more hide a bad one in the rounding.
Discerning == 3 * Cardinality(Rated) < 2000 /\ 3 * Len(Required) < 2 * Unit

\* The score lies in its range.  It is full for a complete and sharp recording
\* with every listed topic near its rate; if it is full, the recording is
\* complete and sharp and no topic is far from its rate, as far as the rounding
\* lets tell.  The frames sampled for it exist, in order; if there are enough
\* of them they are different and reach from the first to the last.
ScoreIsEarned ==
    phase = "scored" =>
        LET q == quality
            n == Frames(FirstImage)
        IN  /\ \A x \in {q.rate, q.complete, q.signal, q.total} : x \in 0 .. Unit
            /\ CompleteAndSharp /\ (\A t \in Rated : NearRate(t)) => q.total = Unit
            /\ Discerning /\ q.total = Unit => CompleteAndSharp /\ \A t \in Rated : ~FarRate(t)
            /\ ImageTopics # {} =>
                 /\ \A i \in DOMAIN q.sample : q.sample[i] \in 1 .. n
                 /\ \A i, j \in DOMAIN q.sample : i < j => q.sample[i] <= q.sample[j]
                 /\ n >= Samples => /\ IsInjective(q.sample)
                                    /\ q.sample[1] = 1
                                    /\ q.sample[Samples] = n
=============================================================================
