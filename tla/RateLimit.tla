------------------------------- MODULE RateLimit -------------------------------
(***************************************************************************)
(* The sliding window of one key (src/src/middleware/rate_limit.rs).       *)
(* check_limit holds the key's entry of the map from the look at the       *)
(* window to the answer, so that requests of a key come one by one.        *)
(***************************************************************************)
EXTENDS Naturals, Sequences, FiniteSets, Window

CONSTANTS
  RateWindow,   \* window_duration in moments: 60 s or 3600 s
  Second,       \* moments in a second
  MaxRequests,  \* max_requests
  MomentBound   \* bound of the clock

ASSUME RateLimitAssumption ==
  /\ RateWindow \in Nat \ {0} /\ Second \in Nat \ {0} /\ RateWindow % Second = 0
  /\ MaxRequests \in Nat \ {0} /\ MomentBound \in Nat

VARIABLES
  stamps,   \* timestamps of the window
  passed,   \* history: the moments at which a request passed
  answer,   \* the answer to the last request: "pass" or "refuse", and retry_after_secs
  moment

rateVars == <<stamps, passed, answer, moment>>

RateInit ==
  stamps = <<>> /\ passed = <<>> /\ answer = [is |-> "none", retry |-> 0] /\ moment = 0

Kept == Prune(stamps, RateWindow, moment)

\* Mutant: counted from the newest timestamp
RetryAfter_Newest(kept) ==
  LET wait == (kept[Len(kept)] + RateWindow) - moment
  IN IF wait \div Second > 1 THEN wait \div Second ELSE 1

\* retry_after().as_secs().max(1)
RetryAfter(kept) ==
  LET wait == (Head(kept) + RateWindow) - moment
  IN IF wait \div Second > 1 THEN wait \div Second ELSE 1

Pass ==
  /\ Len(Kept) < MaxRequests /\ stamps' = Append(Kept, moment) /\ passed' = Append(passed, moment)
  /\ answer' = [is |-> "pass", retry |-> 0] /\ UNCHANGED moment

Refuse ==
  /\ Len(Kept) >= MaxRequests /\ stamps' = Kept
  /\ answer' = [is |-> "refuse", retry |-> RetryAfter(Kept)] /\ UNCHANGED <<passed, moment>>

MomentPasses ==
  /\ moment < MomentBound /\ moment' = moment + 1 /\ answer' = [is |-> "none", retry |-> 0]
  /\ UNCHANGED <<stamps, passed>>

RateNext == Pass \/ Refuse \/ MomentPasses

RateSpec == RateInit /\ [][RateNext]_rateVars
-----------------------------------------------------------------------------
RateTypeOK ==
  /\ stamps \in Seq(0..moment) /\ passed \in Seq(0..moment) /\ moment \in Nat
  /\ answer \in [is: {"none", "pass", "refuse"}, retry: Nat]

\* The requests that passed in the window, both ends included, that ends at m
PassedIn(m) == {k \in 1..Len(passed) : passed[k] <= m /\ m <= passed[k] + RateWindow}

\* However requests are spread, no window of the given length lets more than the
\* maximum pass, and a request is refused only when its window is full.
WindowHolds ==
  /\ \A m \in 0..moment : Cardinality(PassedIn(m)) <= MaxRequests
  /\ answer.is = "refuse" => Cardinality(PassedIn(moment)) = MaxRequests

\* When a refused client waits as long as it was told, its request passes or the wait was
\* cut by less than a second (or at the very edge of the window): it is never told to
\* wait longer than it must, unless that is less than a second.
RetryIsClose ==
  answer.is = "refuse" =>
    LET free == CHOOSE m \in moment..(moment + RateWindow + 1) :
                  /\ Cardinality({k \in PassedIn(moment) : m <= passed[k] + RateWindow}) < MaxRequests
                  /\ \A n \in moment..(m - 1) :
                       Cardinality({k \in PassedIn(moment) : n <= passed[k] + RateWindow}) = MaxRequests
        wait == free - moment
    IN wait <= (answer.retry + 1) * Second /\ (answer.retry > 1 => answer.retry * Second < wait)
=============================================================================
