--------------------------- MODULE SampleChannel ----------------------------
(***************************************************************************)
(* What the SmurfBuilder promises about samples, whatever its two stashes  *)
(* and two threads do: a lossy first-in first-out channel.  Samples leave  *)
(* in batches of one channel count, in the order in which they came; one   *)
(* is refused only while at least Capacity channels * samples wait; and    *)
(* never much more than two stashes full wait at once.                     *)
(***************************************************************************)
EXTENDS Naturals, Sequences, SequencesExt

CONSTANTS
  Sample,       \* samples, records with a field nchans
  Capacity,     \* channels * samples of one stash
  MostChannels  \* the largest channel count of a sample

VARIABLES
  ready,      \* the channel has started: until then it may refuse anything
  pending,    \* samples accepted, not yet delivered
  delivered,  \* samples delivered, in order
  dropped     \* number of samples refused

vars == <<ready, pending, delivered, dropped>>

Load(samples) == FoldLeft(LAMBDA n, s : n + s.nchans, 0, samples)

Init ==
  /\ ready = FALSE
  /\ pending = <<>> /\ delivered = <<>>
  /\ dropped = 0

Start ==
  /\ ~ready
  /\ ready' = TRUE
  /\ UNCHANGED <<pending, delivered, dropped>>

Accept ==
  /\ Load(pending) < 2 * Capacity + MostChannels
  /\ Len(pending') = Len(pending) + 1
  /\ SubSeq(pending', 1, Len(pending)) = pending
  /\ Last(pending') \in Sample
  /\ UNCHANGED <<ready, delivered, dropped>>

Refuse ==
  /\ ready => Load(pending) >= Capacity
  /\ dropped' = dropped + 1
  /\ UNCHANGED <<ready, pending, delivered>>

Deliver ==
  \E n \in 1..Len(pending) :
    /\ \A i \in 1..n : pending[i].nchans = pending[1].nchans
    /\ delivered' = delivered \o SubSeq(pending, 1, n)
    /\ pending' = SubSeq(pending, n + 1, Len(pending))
    /\ UNCHANGED <<ready, dropped>>

Next == Start \/ Accept \/ Refuse \/ Deliver

Spec == Init /\ [][Next]_vars
=============================================================================
