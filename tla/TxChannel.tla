------------------------------ MODULE TxChannel ------------------------------
(***************************************************************************)
(* What GatoSocket's sending side promises its callers: packets handed to  *)
(* send() on one link are given to the kernel in that order, each once;    *)
(* when the link ends, everything not yet written is dropped as a whole.   *)
(***************************************************************************)
EXTENDS Naturals, Sequences

CONSTANT Packet

VARIABLES accepted,   \* packets taken from the callers, oldest first
          delivered   \* how many of them the kernel has

vars == <<accepted, delivered>>

Init == accepted = <<>> /\ delivered = 0

Accept(p) ==
    /\ accepted' = Append(accepted, p)
    /\ UNCHANGED delivered

Deliver ==
    /\ delivered < Len(accepted)
    /\ delivered' = delivered + 1
    /\ UNCHANGED accepted

\* Taken and written in one step: only when nothing is ahead.
AcceptAndDeliver(p) ==
    /\ delivered = Len(accepted)
    /\ accepted' = Append(accepted, p)
    /\ delivered' = delivered + 1

Drop == accepted' = <<>> /\ delivered' = 0

Next ==
    \/ \E p \in Packet : Accept(p) \/ AcceptAndDeliver(p)
    \/ Deliver
    \/ Drop

Spec == Init /\ [][Next]_vars
=============================================================================
