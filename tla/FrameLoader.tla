----------------------------- MODULE FrameLoader -----------------------------
(***************************************************************************)
(* The frames of the preview page (web/src/hooks/useMcapFrames.ts):        *)
(* loadFrames, called again whenever the position moves, asks the dataset  *)
(* service for a frame of each topic, a few requests at a time.  A later   *)
(* call stops an earlier one from starting more requests, but the answers  *)
(* to those it did start still count.                                      *)
(*                                                                         *)
(* JavaScript runs one callback at a time: a step is a call of loadFrames, *)
(* or an answer with all that follows before the next one.                 *)
(***************************************************************************)
EXTENDS Integers, FiniteSetsExt, SequencesExt

CONSTANTS
    TopicList,      \* topics, in the order of the page: resubmitting an episode
                    \* lists its topics again, and the page keeps them all
    Positions,      \* what loadFrames may be called with
    BucketSize,     \* of a cache key, 100 ms
    MaxConcurrent,  \* MAX_CONCURRENT
    MaxCalls        \* bound: calls of loadFrames

ASSUME LoaderAssumption ==
    /\ Positions \subseteq Nat
    /\ BucketSize \in Nat \ {0} /\ MaxConcurrent \in Nat \ {0} /\ MaxCalls \in Nat
    /\ TopicList \in Seq(ToSet(TopicList)) /\ TopicList # <<>>

VARIABLES
    calls,      \* the calls of loadFrames, the last one with the live controller
    cache,      \* cacheRef: the image of a cache key
    frames,     \* what is shown: the call that set it, and an image of each topic
    isLoading

loaderVars == <<calls, cache, frames, isLoading>>

\* An image is told by the topic and the position it was requested for.
Image(t, p) == [topic |-> t, position |-> p]

LoaderInit ==
    /\ calls = <<>>
    /\ cache = <<>>
    /\ frames = [call |-> 0, images |-> <<>>]
    /\ isLoading = FALSE

Calls == DOMAIN calls
Items == DOMAIN TopicList
Bucket(p) == p \div BucketSize

\* A mutant: the key forgets the position.
KeyOfTopic(t, p) == <<t>>
CacheKey(t, p) == <<t, Bucket(p)>>

-----------------------------------------------------------------------------
\* A mutant: what is queued starts all the same.
NeverAborted(c, last) == FALSE
Aborted(c, last) == c < last

Put(f, x, v) == [y \in DOMAIN f \cup {x} |-> IF y = x THEN v ELSE f[y]]

\* Which of the first n queued items have a topic that is not cached.
Missing(call, cached, n) ==
    {j \in 1 .. n : CacheKey(TopicList[call.queue[j]], call.position) \notin DOMAIN cached}

\* How many items can be started: up to the one that takes the last free
\* slot.  Those that are cached take none.
Startable(call, cached) ==
    LET free == MaxConcurrent - Cardinality(call.flight)
        full == {n \in DOMAIN call.queue : Cardinality(Missing(call, cached, n)) = free}
    IN  IF full = {} THEN Len(call.queue) ELSE Min(full)

\* runWithConcurrency goes on from call c's state: it starts items while it
\* has a free slot, and drops what is queued once the call is aborted.  A topic
\* listed twice may be requested twice at once.
Advance(c, last, call, cached) ==
    LET n == Startable(call, cached)
        missing == Missing(call, cached, n)
        hits == {TopicList[call.queue[j]] : j \in (1 .. n) \ missing}
    IN  IF Aborted(c, last) THEN [call EXCEPT !.queue = <<>>]
        ELSE [call EXCEPT
                !.queue = SubSeq(@, n + 1, Len(@)),
                !.flight = @ \cup {call.queue[j] : j \in missing},
                !.got = [t \in hits \cup DOMAIN @ |->
                           IF t \in hits THEN cached[CacheKey(t, call.position)] ELSE @[t]]]

\* A mutant: the end of any call ends the loading.
SettleAny(c, last, call) ==
    /\ frames' = IF call.flight = {} /\ call.got # <<>>
                 THEN [call |-> c, images |-> call.got] ELSE frames
    /\ isLoading' = (call.flight # {})

\* With nothing in flight the call ends: what it got is shown, if anything.
Settle(c, last, call) ==
    /\ frames' = IF call.flight = {} /\ call.got # <<>>
                 THEN [call |-> c, images |-> call.got] ELSE frames
    /\ isLoading' = IF Aborted(c, last) THEN isLoading ELSE call.flight # {}

LoadFrames(p) ==
    LET c == Len(calls) + 1
        call == Advance(c, c, [position |-> p, queue |-> [i \in Items |-> i], flight |-> {},
                               got |-> <<>>, failed |-> {}], cache)
    IN  /\ c <= MaxCalls
        /\ calls' = Append(calls, call)
        /\ Settle(c, c, call)
        /\ UNCHANGED cache

Answer(c, i) ==
    LET p == calls[c].position
        t == TopicList[i]
        cached == Put(cache, CacheKey(t, p), Image(t, p))
        call == Advance(c, Len(calls), [calls[c] EXCEPT !.flight = @ \ {i},
                                              !.got = Put(@, t, Image(t, p))], cached)
    IN  /\ i \in calls[c].flight
        /\ cache' = cached
        /\ calls' = [calls EXCEPT ![c] = call]
        /\ Settle(c, Len(calls), call)

\* The request fails: the item leaves its topic as it is.
Fail(c, i) ==
    LET call == Advance(c, Len(calls), [calls[c] EXCEPT !.flight = @ \ {i},
                                              !.failed = @ \cup {i}], cache)
    IN  /\ i \in calls[c].flight
        /\ calls' = [calls EXCEPT ![c] = call]
        /\ Settle(c, Len(calls), call)
        /\ UNCHANGED cache

LoaderNext ==
    \/ \E p \in Positions : LoadFrames(p)
    \/ \E c \in Calls : \E i \in calls[c].flight : Answer(c, i) \/ Fail(c, i)

LoaderSpec == LoaderInit /\ [][LoaderNext]_loaderVars

-----------------------------------------------------------------------------
(* Safety                                                                  *)

\* The spinner turns exactly while the latest call waits for something, however
\* earlier calls end.
LoadingIsTrue ==
    isLoading <=> calls # <<>> /\ Last(calls).flight # {}

\* Whatever overlaps, the frames shown side by side are of one moment: each is
\* of its topic and of the bucket of one call.  A topic of the latest call is
\* blank exactly if every request for it failed, however often it is listed.
ShownIsOneMoment ==
    frames.call # 0 =>
        LET call == calls[frames.call]
        IN  /\ \A t \in DOMAIN frames.images :
                 /\ frames.images[t].topic = t
                 /\ Bucket(frames.images[t].position) = Bucket(call.position)
            /\ frames.call = Len(calls) =>
                 \A t \in ToSet(TopicList) :
                     t \notin DOMAIN frames.images
                         <=> \A i \in Items : TopicList[i] = t => i \in call.failed

\* A superseded call starts no further request, so that each call has at most
\* MAX_CONCURRENT requests under way and only one call adds to them.
StaleCallsStartNothing ==
    [][\A c \in Calls : /\ Cardinality(calls'[c].flight) <= MaxConcurrent
                        /\ c < Len(calls) => calls'[c].flight \subseteq calls[c].flight]_loaderVars
=============================================================================
