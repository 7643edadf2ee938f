----------------------------- MODULE LossyFifo -----------------------------
(***************************************************************************)
(* What a client stream writer promises at the least, whatever its callers *)
(* and the network do: requests are numbered in the order they were        *)
(* submitted, they reach the stream in that order, each at most once, and  *)
(* none is invented.  A request may be discarded instead of delivered (the *)
(* writer refuses it, or drops it), but only when its turn has come.       *)
(*                                                                         *)
(* StreamWriter.tla implements this specification.                         *)
(***************************************************************************)
EXTENDS Naturals, Sequences

VARIABLES
  submitted,   \* how many requests were submitted; they are numbered 1, 2, ...
  pending,     \* the requests waiting for their turn, oldest first
  delivered    \* the requests handed to the stream, oldest first

vars == <<submitted, pending, delivered>>

Init ==
  /\ submitted = 0
  /\ pending = <<>>
  /\ delivered = <<>>

\* A caller submits the next request.
Submit ==
  /\ submitted' = submitted + 1
  /\ pending' = Append(pending, submitted + 1)
  /\ UNCHANGED delivered

\* The oldest pending request goes to the stream.
Deliver ==
  /\ pending # <<>>
  /\ delivered' = Append(delivered, Head(pending))
  /\ pending' = Tail(pending)
  /\ UNCHANGED submitted

\* The oldest pending request is refused or lost.
Discard ==
  /\ pending # <<>>
  /\ pending' = Tail(pending)
  /\ UNCHANGED <<submitted, delivered>>

Next == Submit \/ Deliver \/ Discard

Spec == Init /\ [][Next]_vars

=============================================================================
