-------------------------------- MODULE Meters --------------------------------
(***************************************************************************)
(* What counts and measures in utils/src/selection_event_bus.cpp: the two  *)
(* limiters of requests, the collector of metrics and the delays of        *)
(* retries.  A method holds the lock of its object from beginning to end.  *)
(* The steady clock runs in ticks, of which TicksPerMs are a millisecond.  *)
(***************************************************************************)
EXTENDS Integers, Sequences, SequencesExt, FiniteSetsExt

CONSTANTS MaxRequests, WindowMs, RefillMs,      \* of the limiters
          TicksPerMs, MaxTicks,
          MetricNames, Samples, MaxHistogramSamples, MaxRecorded,
          RetryConfig, MaxAttempt

ASSUME MetersAssumption ==
    /\ {MaxRequests, WindowMs, RefillMs, TicksPerMs, MaxHistogramSamples} \subseteq Nat \ {0}
    /\ {MaxTicks, MaxRecorded, MaxAttempt} \subseteq Nat /\ Samples \subseteq Int
    /\ RetryConfig \in [initialDelay : Nat, maxDelay : Nat, multiplier : Nat, maxRetries : Nat]

VARIABLES ticks,
          timestamps,               \* SelectionSlidingWindowLimiter, in milliseconds
          tokens, lastRefillTime,   \* SelectionTokenBucketLimiter: a token is RefillMs units
          windowGrants, bucketGrants,   \* when each let a request through, since it was reset
          metrics,                  \* SelectionMetricsCollector
          recorded                  \* every sample of each histogram since the last ResetAll
meterVars == <<ticks, timestamps, tokens, lastRefillTime, windowGrants, bucketGrants>>
metricVars == <<metrics, recorded>>

MeterInit ==
    /\ ticks = 0 /\ timestamps = <<>> /\ windowGrants = <<>>
    /\ tokens = MaxRequests * RefillMs /\ lastRefillTime = 0 /\ bucketGrants = <<>>

NowMs == ticks \div TicksPerMs

-----------------------------------------------------------------------------
(* SelectionSlidingWindowLimiter *)

Active(times, now) == {i \in DOMAIN times : times[i] > now - WindowMs}

\* Only the oldest are looked at, and go.
Live(now) ==
    SubSeq(timestamps, Min(Active(timestamps, now) \cup {Len(timestamps) + 1}), Len(timestamps))

\* Mutation for MetersAreRight: the limit is passed by one.
AllowInWindowOneMore ==
    LET live == Live(NowMs) free == Len(live) <= MaxRequests
    IN  /\ timestamps' = IF free THEN Append(live, NowMs) ELSE live
        /\ windowGrants' = IF free THEN Append(windowGrants, NowMs) ELSE windowGrants
        /\ UNCHANGED <<ticks, tokens, lastRefillTime, bucketGrants>>

AllowInWindow ==
    LET live == Live(NowMs) free == Len(live) < MaxRequests
    IN  /\ timestamps' = IF free THEN Append(live, NowMs) ELSE live
        /\ windowGrants' = IF free THEN Append(windowGrants, NowMs) ELSE windowGrants
        /\ UNCHANGED <<ticks, tokens, lastRefillTime, bucketGrants>>

ResetWindow ==
    /\ timestamps # <<>> /\ timestamps' = <<>> /\ windowGrants' = <<>>
    /\ UNCHANGED <<ticks, tokens, lastRefillTime, bucketGrants>>

WindowQuota ==
    LET active == Cardinality(Active(timestamps, NowMs))
    IN  IF MaxRequests > active THEN MaxRequests - active ELSE 0

-----------------------------------------------------------------------------
(* SelectionTokenBucketLimiter.  The part of a millisecond that has passed   *)
(* since the last request is lost: one that is asked more often than once in *)
(* a millisecond never fills up.                                             *)

Refilled ==
    LET more == tokens + (ticks - lastRefillTime) \div TicksPerMs
    IN  IF more < MaxRequests * RefillMs THEN more ELSE MaxRequests * RefillMs

AllowFromBucket ==
    LET free == Refilled >= RefillMs
    IN  /\ tokens' = IF free THEN Refilled - RefillMs ELSE Refilled
        /\ lastRefillTime' = ticks
        /\ bucketGrants' = IF free THEN Append(bucketGrants, ticks) ELSE bucketGrants
        /\ UNCHANGED <<ticks, timestamps, windowGrants>>

ResetBucket ==
    /\ bucketGrants # <<>> /\ bucketGrants' = <<>>
    /\ tokens' = MaxRequests * RefillMs /\ lastRefillTime' = ticks
    /\ UNCHANGED <<ticks, timestamps, windowGrants>>

\* GetRemainingQuota does not refill the bucket first.
BucketQuota == tokens \div RefillMs

MeterTick ==
    /\ ticks < MaxTicks /\ ticks' = ticks + 1
    /\ UNCHANGED <<timestamps, tokens, lastRefillTime, windowGrants, bucketGrants>>

MeterNext == AllowInWindow \/ ResetWindow \/ AllowFromBucket \/ ResetBucket \/ MeterTick

\* Delays between retries, in milliseconds; the backoff is a whole multiple.
BackoffDelay[attempt \in Nat] ==
    IF attempt <= 1 THEN RetryConfig.initialDelay
    ELSE BackoffDelay[attempt - 1] * RetryConfig.multiplier

GetDelayForAttempt(attempt) ==
    IF attempt = 0 THEN 0
    ELSE IF BackoffDelay[attempt] < RetryConfig.maxDelay THEN BackoffDelay[attempt]
    ELSE RetryConfig.maxDelay

ShouldRetry(attempt) == attempt < RetryConfig.maxRetries

\* In no window are more requests let through than allowed, and none is held back in one
\* that has room; in no stretch of time does the bucket give more tokens than it holds and
\* what the time refills; what they say is left is what they give, though the bucket may
\* give more; and the delays of retries grow up to their limit, unless what they are
\* multiplied by is nothing.
LimitsHold ==
    /\ Cardinality(Active(windowGrants, NowMs)) + WindowQuota = MaxRequests
    /\ WindowQuota = MaxRequests - Len(Live(NowMs))
    /\ \A i \in DOMAIN bucketGrants, j \in DOMAIN bucketGrants :
         i <= j => (j - i + 1 - MaxRequests) * RefillMs * TicksPerMs
                     <= bucketGrants[j] - bucketGrants[i]
    /\ BucketQuota <= Refilled \div RefillMs
    /\ \A n \in 1 .. MaxAttempt :
         /\ RetryConfig.multiplier # 0 => GetDelayForAttempt(n - 1) <= GetDelayForAttempt(n)
         /\ GetDelayForAttempt(n) <= RetryConfig.maxDelay
         /\ ShouldRetry(n) => ShouldRetry(n - 1)

-----------------------------------------------------------------------------
(* SelectionMetricsCollector.  What names an unknown metric, or one of       *)
(* another type, is ignored.                                                 *)

MetricsInit == metrics = <<>> /\ recorded = [name \in MetricNames |-> <<>>]

NewMetric(type) == [type |-> type, value |-> 0, samples |-> <<>>]
Is(name, type) == name \in DOMAIN metrics /\ metrics[name].type = type

\* RegisterCounter, RegisterGauge and RegisterHistogram.
Register(name, type) ==
    /\ name \notin DOMAIN metrics
    /\ metrics' = [n \in DOMAIN metrics \cup {name} |->
                     IF n = name THEN NewMetric(type) ELSE metrics[n]]
    /\ UNCHANGED recorded

\* The bound keeps counters finite.
IncrementCounter(name) ==
    /\ Is(name, "COUNTER") /\ metrics[name].value < MaxRecorded
    /\ metrics' = [metrics EXCEPT ![name].value = @ + 1] /\ UNCHANGED recorded

SetGauge(name, value) ==
    /\ Is(name, "GAUGE")
    /\ metrics' = [metrics EXCEPT ![name].value = value] /\ UNCHANGED recorded

RecordHistogramSample(name, sample) ==
    /\ Is(name, "HISTOGRAM") /\ Len(recorded[name]) < MaxRecorded
    /\ LET longer == Append(metrics[name].samples, sample)
       IN  metrics' = [metrics EXCEPT ![name].samples =
                         IF Len(longer) > MaxHistogramSamples THEN Tail(longer) ELSE longer]
    /\ recorded' = [recorded EXCEPT ![name] = Append(@, sample)]

ResetAll ==
    /\ metrics' = [n \in DOMAIN metrics |-> NewMetric(metrics[n].type)]
    /\ recorded' = [name \in MetricNames |-> <<>>]

\* p is in hundredths, and so is the result.
Percentile(sorted, p) ==
    LET idx == p * (Len(sorted) - 1) lo == idx \div 100 rest == idx % 100
    IN  IF rest = 0 THEN 100 * sorted[lo + 1]
        ELSE sorted[lo + 1] * (100 - rest) + sorted[lo + 2] * rest

SortedSamples(samples) ==
    LET rearranged == {[i \in DOMAIN samples |-> samples[from[i]]] :
                         from \in Bijection(DOMAIN samples, DOMAIN samples)}
    IN  CHOOSE s \in rearranged : \A i, j \in DOMAIN s : i < j => s[i] <= s[j]

GetHistogramStats(name) ==
    LET sorted == SortedSamples(metrics[name].samples)
    IN  <<100 * Head(sorted), Percentile(sorted, 50), Percentile(sorted, 95),
          Percentile(sorted, 99), 100 * Last(sorted)>>

MetricsNext ==
    \/ \E name \in MetricNames :
         \/ \E type \in {"COUNTER", "GAUGE", "HISTOGRAM"} : Register(name, type)
         \/ IncrementCounter(name)
         \/ \E value \in Samples : SetGauge(name, value) \/ RecordHistogramSample(name, value)
    \/ ResetAll

MetersNext == (MeterNext /\ UNCHANGED metricVars) \/ (MetricsNext /\ UNCHANGED meterVars)

MetersSpec == MeterInit /\ MetricsInit /\ [][MetersNext]_<<meterVars, metricVars>>

\* A number of requests, and the times when they were let through, up to the present.
MeterTypeOK ==
    /\ ticks \in Nat /\ timestamps \in Seq(0 .. NowMs) /\ windowGrants \in Seq(0 .. NowMs)
    /\ tokens \in 0 .. MaxRequests * RefillMs
    /\ lastRefillTime \in 0 .. ticks /\ bucketGrants \in Seq(0 .. lastRefillTime)

\* What a metric is: a histogram has its samples, and the other two a value.
Metric == [type : {"COUNTER", "GAUGE", "HISTOGRAM"}, value : Int, samples : Seq(Samples)]
MetricsTypeOK ==
    /\ DOMAIN metrics \subseteq MetricNames /\ metrics \in [DOMAIN metrics -> Metric]
    /\ recorded \in [MetricNames -> Seq(Samples)]

MetersTypeOK == MeterTypeOK /\ MetricsTypeOK

\* A histogram is made of the last samples recorded under its name, and its percentiles lie
\* in their order between the least and the greatest of them.
StatsFollowTheSamples ==
    \A name \in DOMAIN metrics :
      LET samples == metrics[name].samples
          all == recorded[name]
          skipped == Len(all) - Len(samples)
      IN  /\ samples = SubSeq(all, skipped + 1, Len(all))
          /\ skipped > 0 => Len(samples) = MaxHistogramSamples
          /\ samples # <<>> =>
               LET stats == GetHistogramStats(name)
               IN  \A i \in 1 .. 4 : stats[i] <= stats[i + 1]

MetersAreRight == LimitsHold /\ StatsFollowTheSamples
=============================================================================
