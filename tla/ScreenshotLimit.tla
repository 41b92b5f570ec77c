---------------------------- MODULE ScreenshotLimit ----------------------------
(* TokenBucket of ui/screens.py: at most RATE screenshots of one key within    *)
(* WINDOW. A caller reads the clock first and takes the lock later, so the     *)
(* deque may get its stamps out of order, and a call may be counted, or make   *)
(* others be forgotten, at a time that has passed.                             *)
EXTENDS Naturals, Sequences, FiniteSets

CONSTANTS
    Keys,       \* what is limited: see Key in UiTools
    RATE,       \* rate_per_minute
    WINDOW      \* window_seconds

ASSUME LimitAssumption == RATE \in Nat /\ WINDOW \in Nat \ {0}

VARIABLES
    buckets,    \* by key, the deque of stamps
    taken       \* history: by key, the grants whose stamps are within WINDOW of
                \*   the present, each a stamp and how many had it before

limitVars == <<buckets, taken>>

LimitTypeOK ==
    /\ buckets \in [Keys -> Seq(Nat)]
    /\ \A k \in Keys : Len(buckets[k]) <= RATE
    /\ taken \in [Keys -> SUBSET (Nat \X Nat)]
    /\ \A k \in Keys : IsFiniteSet(taken[k])

LimitInit ==
    /\ buckets = [k \in Keys |-> <<>>]
    /\ taken = [k \in Keys |-> {}]

(* The eviction pops the head for as long as it is too old. It stops at the    *)
(* first stamp that is not, whatever lies behind it.                           *)
Old(bucket, stamp) ==
    {i \in 1..Len(bucket) : \A j \in 1..i : bucket[j] + WINDOW <= stamp}
MutEvicted(bucket, stamp) ==
    SubSeq(bucket, Cardinality({i \in 1..Len(bucket) : bucket[i] < stamp}) + 1,
           Len(bucket))
Evicted(bucket, stamp) ==
    SubSeq(bucket, Cardinality(Old(bucket, stamp)) + 1, Len(bucket))

(* check(), under the lock: evict, then refuse at the cap or append the stamp. *)
MutAllowed(key, stamp) == Len(Evicted(buckets[key], stamp)) <= RATE
Allowed(key, stamp) == Len(Evicted(buckets[key], stamp)) < RATE
Recent(stamp, time) == stamp + WINDOW > time
Granted(key, stamp) == <<stamp, Cardinality({t \in taken[key] : t[1] = stamp})>>
CheckLimit(key, stamp, time) ==
    /\ buckets' = [buckets EXCEPT ![key] =
                    IF Allowed(key, stamp)
                    THEN Append(Evicted(@, stamp), stamp) ELSE Evicted(@, stamp)]
    /\ taken' = [taken EXCEPT ![key] =
                    IF Allowed(key, stamp) /\ Recent(stamp, time)
                    THEN @ \union {Granted(key, stamp)} ELSE @]

(* History: what is too old by now is forgotten.                               *)
Forget(time) ==
    /\ taken' = [k \in Keys |-> {t \in taken[k] : Recent(t[1], time)}]
    /\ UNCHANGED buckets

(* Of one key, no more than RATE screenshots that were asked for within the    *)
(* last WINDOW have been granted, however the callers overtake each other      *)
(* between their clock and the lock. (A caller that was held up for longer     *)
(* than WINDOW is granted on top of these: the cap on the grants themselves    *)
(* does not hold.)                                                             *)
RateHeld == \A k \in Keys : Cardinality(taken[k]) <= RATE
================================================================================
