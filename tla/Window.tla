------------------------------- MODULE Window ---------------------------------
(***************************************************************************)
(* Timestamps of a sliding window, oldest first, as the rate limiter       *)
(* (src/src/middleware/rate_limit.rs) and the AI quota                     *)
(* (src/src/ai/service.rs) keep them in a deque.                           *)
(***************************************************************************)
EXTENDS Naturals, Sequences, FiniteSets

\* Mutant: a timestamp at the edge is stale.
Stale_Edge(t, width, now) == t + width <= now

\* front < now - width
Stale(t, width, now) == t + width < now

\* The place of the first timestamp that is not stale, or the place after the last one.
FirstFresh(s, width, now) ==
  CHOOSE k \in 1..(Len(s) + 1) :
    /\ \A j \in 1..(k - 1) : Stale(s[j], width, now)
    /\ k <= Len(s) => ~Stale(s[k], width, now)

\* while front < cutoff { pop_front }
Prune(s, width, now) == SubSeq(s, FirstFresh(s, width, now), Len(s))

\* The places of the timestamps in the window
Fresh(s, width, now) == {k \in 1..Len(s) : ~Stale(s[k], width, now)}
=============================================================================
