------------------------------ MODULE RateLimit ------------------------------
(***************************************************************************)
(* The rate limiter of backend/app/request_guard.py: a deque of the times  *)
(* of accepted requests for each client and path, cut back to the window   *)
(* when a request comes in, and a sweep of the table of deques once it has *)
(* grown too large.  _is_rate_limited awaits nothing, so each call is one  *)
(* step of the event loop.  Requests it does not limit are left out.       *)
(***************************************************************************)
EXTENDS Naturals, Sequences, FiniteSets, FiniteSetsExt

CONSTANTS
    Keys,        \* client and path
    Limit,       \* rate_limit_requests
    Window,      \* rate_limit_window_seconds
    MaxBuckets,  \* 4096 in the code
    EndOfTime    \* bound: the clock

ASSUME RateAssumption ==
    {Limit, Window, MaxBuckets, EndOfTime} \subseteq Nat \ {0}

VARIABLES
    time,      \* time.monotonic()
    buckets,   \* per key: its deque; a key with no entry has an empty one
    granted    \* per key: the times of all the requests it was granted

rateVars == <<time, buckets, granted>>

RateInit ==
    /\ time = 0
    /\ buckets = [k \in Keys |-> <<>>]
    /\ granted = [k \in Keys |-> <<>>]

\* An entry at the cutoff is out of the window
InWindow(t) == t + Window > time

\* popleft, until the first entry is in the window
Dropped(bucket) ==
    Min({n \in 0..Len(bucket) : n < Len(bucket) => InWindow(bucket[n + 1])})

Recent(bucket) == SubSeq(bucket, Dropped(bucket) + 1, Len(bucket))

Full(k) == Len(Recent(buckets[k])) >= Limit

\* The sweep empties the table
SweptAll(table) == [k \in Keys |-> <<>>]

\* The sweep keeps the deques whose last entry is in the window
Swept(table) ==
    [k \in Keys |-> IF table[k] # <<>> /\ InWindow(table[k][Len(table[k])])
                    THEN table[k] ELSE <<>>]

Sweep(table) ==
    IF Cardinality({k \in Keys : table[k] # <<>>}) > MaxBuckets
      THEN Swept(table) ELSE table

\* _is_rate_limited
Request(k) ==
    /\ \/ /\ Full(k)
          /\ buckets' = [buckets EXCEPT ![k] = Recent(@)]
          /\ UNCHANGED granted
       \/ /\ ~Full(k)
          /\ buckets' = Sweep([buckets EXCEPT ![k] = Append(Recent(@), time)])
          /\ granted' = [granted EXCEPT ![k] = Append(@, time)]
    /\ UNCHANGED time

Tick ==
    /\ time < EndOfTime
    /\ time' = time + 1
    /\ UNCHANGED <<buckets, granted>>

RateNext == Tick \/ \E k \in Keys : Request(k)

RateSpec == RateInit /\ [][RateNext]_rateVars

-------------------------------------------------------------------------------
RateTypeOK ==
    /\ time \in 0..EndOfTime
    /\ buckets \in [Keys -> Seq(0..EndOfTime)]
    /\ granted \in [Keys -> Seq(0..EndOfTime)]

\* _is_rate_limited: no window of rate_limit_window_seconds ever holds more
\* granted requests than the limit, and a request is refused only in a window
\* that holds that many, sweeps of the table notwithstanding
WindowHolds ==
    \A k \in Keys :
        LET inWindow == {i \in DOMAIN granted[k] : InWindow(granted[k][i])}
        IN  /\ Cardinality(inWindow) <= Limit
            /\ Full(k) => Cardinality(inWindow) = Limit
===============================================================================
