--------------------------- MODULE OrderedChannel ---------------------------
(***************************************************************************)
(* What the outbound side of one connection promises the HTTP/2 library:   *)
(* frames reach the peer in the order they were submitted, each at most    *)
(* once and none skipped, until the channel breaks; a broken channel       *)
(* carries nothing more.  Frame k is the k-th frame submitted.             *)
(***************************************************************************)
EXTENDS Naturals, Sequences

CONSTANT MaxFrames   \* bound on the frames submitted in one behaviour

VARIABLES
  queued,      \* number of frames submitted
  wire,        \* the frames delivered, in order of delivery
  broken       \* the channel has failed

vars == <<queued, wire, broken>>

Init ==
  /\ queued = 0
  /\ wire = << >>
  /\ broken = FALSE

Submit ==
  /\ queued < MaxFrames
  /\ queued' = queued + 1
  /\ UNCHANGED <<wire, broken>>

Deliver ==
  /\ ~broken
  /\ Len(wire) < queued
  /\ wire' = Append(wire, Len(wire) + 1)
  /\ UNCHANGED <<queued, broken>>

Break ==
  /\ ~broken
  /\ queued > 0
  /\ broken' = TRUE
  /\ UNCHANGED <<queued, wire>>

Next == Submit \/ Deliver \/ Break

Safety == Init /\ [][Next]_vars

\* A channel that does not break keeps delivering.
Spec == Safety /\ WF_vars(Deliver)
=============================================================================
