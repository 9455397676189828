---------------------------- MODULE MCKernels ----------------------------
(***************************************************************************)
(* The hand-written OpenMP kernels of computations.hpp, checked in one    *)
(* model: the reductions of sum_array (the inputs of MCSumArray) and the  *)
(* channel shuffles.  The kernels share no state; a behaviour runs one   *)
(* sum_array reduction, or a sequence of channel_shuffle calls.           *)
(* Shuffles: batch 1..2, 1..6 channels, 1..2 spatial positions and every *)
(* group from 1 to C + 1, so groups that do not divide C are rejected.   *)
(***************************************************************************)
EXTENDS MCSumArray

CONSTANTS Rejected, None

VARIABLES call, y, gradx

ShuffleCases ==
    {x \in [n: 1..2, c: 1..6, s: 1..2, group: 1..7]: x.group <= x.c + 1}

Shuffle == INSTANCE ChannelShuffle

kernelVars == <<input, call, y, gradx>>

KernelsInit ==
    \/ Init /\ Shuffle!Init
    \/ input = None /\ Shuffle!Init

KernelsNext ==
    \/ input = None /\ Shuffle!Next /\ UNCHANGED input
    \/ input # None /\ UNCHANGED kernelVars

KernelsSpec == KernelsInit /\ [][KernelsNext]_kernelVars

ShuffleMatchesReference == Shuffle!ShuffleMatchesReference
=============================================================================
