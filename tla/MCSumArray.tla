---------------------------- MODULE MCSumArray ----------------------------
(***************************************************************************)
(* Inputs of sum_array for TLC.  Blocked inputs: batch 1..4, 1..3 spatial  *)
(* positions, blocks of 8 and 16 channels, 1..4 threads.  Plain inputs:   *)
(* shapes of 2 to 5 dimensions and every ordered list of distinct axes,   *)
(* with 1..3 threads.  The team OpenMP grants is the full one.            *)
(***************************************************************************)
EXTENDS SumArray

MaxThreads == 4

\* Channel counts sum_nChwXC_along_channel receives in an nChw8c/nChw16c tensor.
FastInputs(ics) ==
    {[mb |-> mb, ic |-> ic, hw |-> hw, cg |-> cg, nthr |-> n, team |-> n]:
        mb \in 1..4, ic \in ics, hw \in 1..3, cg \in {8, 16}, n \in 1..MaxThreads}

\* Channel counts that fill whole blocks, and ones that do not.
WholeBlocks == {x \in FastInputs({8, 16}): x.ic % x.cg = 0}
PartialBlocks == {x \in FastInputs({12}): x.cg = 8}

Shapes == {<<3, 2>>, <<2, 3, 2>>, <<2, 1, 3, 2>>, <<2, 2, 1, 2, 1>>}

\* Ordered lists of distinct axes of an n-dimensional tensor.
AxisLists(n) == {s \in UNION {[1..k -> 0..(n - 1)]: k \in 1..n}:
                    \A i, j \in DOMAIN s: i # j => s[i] # s[j]}

PlainInputs == UNION {{[dims |-> d, axis |-> a, nthr |-> n, team |-> n]:
                          a \in AxisLists(Len(d)), n \in 1..3}: d \in Shapes}

\* The batch axis alone on a tensor of other than two dimensions.
BatchOnly(x) == x.axis = <<0>> /\ Len(x.dims) # 2

PlainAccepted == {x \in PlainInputs: CommonAccepted(x.dims, x.axis) /\ ~BatchOnly(x)}
PlainBatchOnly == {x \in PlainInputs: CommonAccepted(x.dims, x.axis) /\ BatchOnly(x)}

NoInputs == {}

=============================================================================
