---------------------------- MODULE OutboundFifo ----------------------------
(***************************************************************************)
(* What an OutboundQueue promises: batches enter whole and in one piece,   *)
(* frames leave in the order they entered, and closing only stops further  *)
(* batches from entering.                                                  *)
(***************************************************************************)
EXTENDS Sequences

CONSTANT Batches    \* the frame sequences a producer may enqueue

VARIABLES
    contents,   \* frames that have not left
    out,        \* frames that have left, in order
    closed

fifoVars == <<contents, out, closed>>

FifoInit == contents = <<>> /\ out = <<>> /\ closed = FALSE

Put(batch) ==
    /\ ~closed
    /\ contents' = contents \o batch
    /\ UNCHANGED <<out, closed>>

Take ==
    /\ contents # <<>>
    /\ out' = Append(out, Head(contents))
    /\ contents' = Tail(contents)
    /\ UNCHANGED closed

Shut ==
    /\ closed' = TRUE
    /\ UNCHANGED <<contents, out>>

FifoNext == (\E b \in Batches : Put(b)) \/ Take \/ Shut

FifoSpec == FifoInit /\ [][FifoNext]_fifoVars

=============================================================================
