------------------------------- MODULE Metrics -------------------------------
(***************************************************************************)
(* The METRICS object: counters that appear with their first increment     *)
(* (defaultdicts), kept as bags, and what render makes of them.  Every     *)
(* method holds the lock from its first to its last access, so each is one *)
(* step of whoever calls it.  A duration is a number; the edges of the     *)
(* latency buckets are a constant.                                         *)
(***************************************************************************)
EXTENDS Integers, Sequences, FiniteSetsExt, Bags

CONSTANT LatencyBuckets          (* LATENCY_BUCKETS: edges, in ascending order *)

ASSUME BucketAssumption ==
    /\ LatencyBuckets \in Seq(Nat) /\ LatencyBuckets # <<>>
    /\ \A i, j \in DOMAIN LatencyBuckets : i < j => LatencyBuckets[i] < LatencyBuckets[j]

NoMetrics ==
    [requests |-> EmptyBag, upstream |-> EmptyBag, latency |-> EmptyBag, count |-> EmptyBag]

\* A counter that was never incremented reads zero.
Copies(key, counters) == IF BagIn(key, counters) THEN counters[key] ELSE 0

Incremented(counters, key) == counters (+) SetToBag({key})

\* The bucket a duration is put in: the first whose edge it does not exceed,
\* or the one behind the last edge.
BucketStrictMutant(duration) ==
    CHOOSE b \in 1 .. Len(LatencyBuckets) + 1 :
        /\ b <= Len(LatencyBuckets) => duration < LatencyBuckets[b]
        /\ \A i \in 1 .. b - 1 : duration >= LatencyBuckets[i]

Bucket(duration) ==
    CHOOSE b \in 1 .. Len(LatencyBuckets) + 1 :
        /\ b <= Len(LatencyBuckets) => duration <= LatencyBuckets[b]
        /\ \A i \in 1 .. b - 1 : duration > LatencyBuckets[i]

ObserveRequest(m, route, status, duration) ==
    [m EXCEPT !.requests = Incremented(@, <<route, status>>),
              !.latency = Incremented(@, <<route, Bucket(duration)>>),
              !.count = Incremented(@, route)]

ObserveUpstream(m, upstream, outcome) ==
    [m EXCEPT !.upstream = Incremented(@, <<upstream, outcome>>)]

\* render: the line of each bucket is the sum of the buckets up to it, and the
\* last line is +Inf.
Rendered(m) ==
    LET Lines == 1 .. Len(LatencyBuckets) + 1
        Cumulative(route) ==
            [line \in Lines |->
                MapThenSumSet(LAMBDA b : Copies(<<route, b>>, m.latency), 1 .. line)]
    IN  [requests |-> m.requests, upstream |-> m.upstream, count |-> m.count,
         buckets |-> [route \in BagToSet(m.count) |-> Cumulative(route)]]
==============================================================================
