----------------------------- MODULE RateWindow -----------------------------
(***************************************************************************)
(* determine_USB_audio_rate: the average rate of one direction of the      *)
(* stream, over a ring of buckets of time and data and the one being       *)
(* filled.  AdaptiveRate says when it is called and when first_time is     *)
(* set.  The division itself is left out: what is modelled is its          *)
(* numerator and denominator.                                              *)
(***************************************************************************)
EXTENDS Integers

CONSTANTS
  TotalStored,      \* TOTAL_STORED: 64
  TicksPerStored,   \* REF_CLOCK_TICKS_PER_STORED_AVG
  ClockModulus,     \* 2^32: timestamps and spans wrap
  MaxTicks,         \* the longest time between two transfers of a measurement
  Lengths           \* the lengths a transfer can have

\* The time that a bucket can span, and the ring with the bucket being filled
LongestBucket == TicksPerStored - 1 + MaxTicks
Horizon == (TotalStored + 1) * LongestBucket

\* 64 buckets of a quarter of a second are well below the 42.95 s after which
\* the reference clock has come round.
ASSUME RateWindowAssumption ==
  /\ TotalStored \in Nat \ {0} /\ TicksPerStored \in Nat \ {0}
  /\ MaxTicks \in Nat \ {0} /\ ClockModulus \in Nat /\ Horizon < ClockModulus
  /\ Lengths \subseteq Nat

VARIABLES
  dataLengths,      \* data_lengths
  timeBuckets,      \* time_buckets
  bucketData,       \* current_data_bucket_size
  firstStamp,       \* first_timestamp
  bucketsFull,      \* buckets_full
  overflowed,       \* times_overflowed, modulo TotalStored
  firstCall,        \* first_time
  clock,            \* the timestamp of the last transfer
  divided,          \* the data and the time that the last call divided
  since             \* history: for each transfer of the measurement the time
                    \* and the data since it, as far back as Horizon

windowVars == <<dataLengths, timeBuckets, bucketData, firstStamp, bucketsFull,
                overflowed, firstCall, clock, divided, since>>

Buckets == 0 .. TotalStored - 1
Empty == [i \in Buckets |-> 0]
Nothing == [time |-> 0, data |-> 0]

WindowInit ==
  /\ dataLengths = Empty /\ timeBuckets = Empty
  /\ bucketData = 0 /\ firstStamp = 0
  /\ bucketsFull = FALSE /\ overflowed = 0
  /\ firstCall = TRUE
  /\ clock = 0 /\ divided = Nothing /\ since = {}

\* The accumulator of sum_array, after each pass of its loop
Accumulated(array) ==
  LET acc[i \in 0 .. TotalStored] == IF i = 0 THEN 0 ELSE acc[i - 1] + array[i - 1]
  IN acc

sum_array(array) == Accumulated(array)[TotalStored]

Timespan(now) == (now - firstStamp) % ClockModulus

\* total_data_intermed and total_timespan, at a transfer of length n
TotalData(n) == bucketData + n + sum_array(dataLengths)
TotalTimespan(now) == (Timespan(now) + sum_array(timeBuckets)) % ClockModulus

\* The index of the bucket to replace when all are in use
JustAfterOldest == (overflowed + 1) % TotalStored
oldest_bucket == overflowed % TotalStored

\* A first call only resets the statics
FirstTransfer(now) ==
  /\ firstCall
  /\ firstCall' = FALSE
  /\ firstStamp' = now
  /\ bucketData' = 0 /\ overflowed' = 0 /\ bucketsFull' = FALSE
  /\ dataLengths' = Empty /\ timeBuckets' = Empty
  /\ divided' = Nothing
  /\ since' = {[time |-> 0, data |-> 0, first |-> TRUE]}

\* The history keeps as much as a window can span
Logged(ticks, n) ==
  LET later == {[time |-> r.time + ticks, data |-> r.data + n, first |-> r.first] :
                  r \in since}
  IN {r \in later : r.time <= Horizon}
     \cup {[time |-> 0, data |-> 0, first |-> FALSE]}

\* Any other call divides
Divide(now, ticks, n) ==
  /\ ~firstCall
  /\ divided' = [time |-> TotalTimespan(now), data |-> TotalData(n)]
  /\ since' = Logged(ticks, n)
  /\ UNCHANGED firstCall

\* A transfer that does not fill the bucket
AddToBucket(now, n) ==
  /\ Timespan(now) < TicksPerStored
  /\ bucketData' = bucketData + n
  /\ UNCHANGED <<dataLengths, timeBuckets, firstStamp, bucketsFull, overflowed>>

\* One that does.  The index counts up to TOTAL_STORED, and on as a ring.
StoreBucket(now, n) ==
  /\ Timespan(now) >= TicksPerStored
  /\ LET bucket == IF bucketsFull THEN oldest_bucket ELSE overflowed
     IN /\ timeBuckets' = [timeBuckets EXCEPT ![bucket] = Timespan(now)]
        /\ dataLengths' = [dataLengths EXCEPT ![bucket] = bucketData + n]
  /\ bucketData' = 0 /\ firstStamp' = now
  /\ bucketsFull' = (bucketsFull \/ overflowed + 1 = TotalStored)
  /\ overflowed' = (overflowed + 1) % TotalStored

WindowTransfer(ticks, n) ==
  LET now == (clock + ticks) % ClockModulus
  IN /\ clock' = now
     /\ \/ FirstTransfer(now)
        \/ Divide(now, ticks, n) /\ (AddToBucket(now, n) \/ StoreBucket(now, n))

\* reset_state
WindowReset ==
  /\ firstCall' = TRUE
  /\ since' = {}
  /\ UNCHANGED <<dataLengths, timeBuckets, bucketData, firstStamp, bucketsFull,
                 overflowed, clock, divided>>

WindowNext ==
  \/ \E ticks \in 1 .. MaxTicks, n \in Lengths : WindowTransfer(ticks, n)
  \/ WindowReset

WindowSpec == WindowInit /\ [][WindowNext]_windowVars

-----------------------------------------------------------------------------
\* What determine_USB_audio_rate divides is the data and the time of the same
\* transfers, all those since one of the measured ones: the first one, or one
\* at least as long ago as the stored buckets are to cover, and not longer than
\* they can (Horizon).  No transfer is counted twice or left out when the ring
\* of buckets or the clock wraps.
RateOfRecentTransfers ==
  firstCall \/ \E r \in since :
                 /\ divided = [time |-> r.time, data |-> r.data]
                 /\ r.first \/ r.time >= TotalStored * TicksPerStored
=============================================================================
