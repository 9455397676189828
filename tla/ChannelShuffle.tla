---------------------------- MODULE ChannelShuffle ----------------------------
(***************************************************************************)
(* channel_shuffle_forward and channel_shuffle_backward: the channels of  *)
(* a 4-D f32 tensor, seen as group rows of K = C / group channels, are    *)
(* transposed to K rows of group channels (and back).  compute reorders a *)
(* source that is not in a public format into nchw, gives the output the *)
(* same descriptor, and calls compute_impl, which copies h * w floats at a *)
(* time in an OpenMP loop collapsed over (n, g, i).                        *)
(*                                                                         *)
(* A tensor is its nchw image: offset -> value.  The reorder to nchw      *)
(* keeps the logical content, so the kernel's input is that image; every  *)
(* source element is its own offset, so a misplaced, dropped or doubled   *)
(* element shows.  An output element no iteration writes, and one that    *)
(* two iterations write (a data race between OpenMP threads: either value *)
(* may land), is Garbage.  The AVX2 build copies with                      *)
(* FM_AVX2_PREF::memcpy, whose source is not in the tree; the std::memcpy *)
(* build is modelled.                                                      *)
(***************************************************************************)
EXTENDS Integers, FiniteSets

CONSTANTS
    ShuffleCases,   \* calls: [n, c, s, group], s = h * w, group >= 1
    Garbage,        \* an unwritten or raced element (any value)
    Rejected,       \* IDEEP_ENFORCE threw
    None

VARIABLES
    call,           \* the arguments of the last forward, or None
    y,              \* its output, Rejected, or None
    gradx           \* the backward of y, Rejected, or None

shuffleVars == <<call, y, gradx>>

Size(x) == x.n * x.c * x.s

\* The nchw image of the source: each element holds its offset.
Src(x) == [o \in 0..(Size(x) - 1) |-> o]

\* K = C / group (computed before the enforce; group >= 1 here).
K(x) == x.c \div x.group

\* The iterations of the collapse(3) loop.
Iterations(x) == (0..(x.n - 1)) \X (0..(x.group - 1)) \X (0..(K(x) - 1))

\* X + g * K * S + n * C * S + S * i: row g, column i of the source.
XOffset(x, it) == it[2] * K(x) * x.s + it[1] * x.c * x.s + x.s * it[3]

\* The output stride taken as K (the source's row length) instead of group.
YOffsetByK(x, it) == it[2] * x.s + it[1] * x.c * x.s + K(x) * x.s * it[3]

\* Y + g * S + n * C * S + group * S * i: row i, column g of the output.
YOffset(x, it) == it[2] * x.s + it[1] * x.c * x.s + x.group * x.s * it[3]

(***************************************************************************)
(* The element copies of one compute_impl: std::memcpy(dst, src, S) for   *)
(* every iteration, as <<destination offset, source offset>> pairs.        *)
(* Forward copies from X offsets to Y offsets; backward from dY offsets   *)
(* (the Y formula) to dX offsets (the X formula).                          *)
(***************************************************************************)
ForwardCopies(x) ==
    {<<YOffset(x, it) + j, XOffset(x, it) + j>>: it \in Iterations(x), j \in 0..(x.s - 1)}

BackwardCopies(x) ==
    {<<XOffset(x, it) + j, YOffset(x, it) + j>>: it \in Iterations(x), j \in 0..(x.s - 1)}

Writers(copies, o) == {cp \in copies: cp[1] = o}

\* The output buffer after the copies from in (reinit leaves it unwritten).
Copied(x, copies, in) ==
    [o \in 0..(Size(x) - 1) |->
        LET w == Writers(copies, o)
        IN IF Cardinality(w) = 1 /\ (CHOOSE cp \in w: TRUE)[2] \in DOMAIN in
           THEN in[(CHOOSE cp \in w: TRUE)[2]]
           ELSE Garbage]

(***************************************************************************)
(* compute_impl: IDEEP_ENFORCE(C % group == 0) throws; group <= 1 is      *)
(* direct_copy; otherwise the loop.                                        *)
(***************************************************************************)
ComputeImpl(x, copies, in) ==
    CASE x.c % x.group # 0 -> Rejected
      [] x.group <= 1      -> in
      [] OTHER             -> Copied(x, copies, in)

Init ==
    /\ call = None
    /\ y = None
    /\ gradx = None

\* channel_shuffle_forward::compute(src, dst, group).
ChannelShuffleForward(x) ==
    /\ call' = x
    /\ y' = ComputeImpl(x, ForwardCopies(x), Src(x))
    /\ gradx' = None

\* channel_shuffle_backward::compute(grady, gradx, group), with grady = y.
ChannelShuffleBackward ==
    /\ call # None
    /\ y \notin {None, Rejected}
    /\ gradx = None
    /\ gradx' = ComputeImpl(call, BackwardCopies(call), y)
    /\ UNCHANGED <<call, y>>

Next ==
    \/ \E x \in ShuffleCases: ChannelShuffleForward(x)
    \/ ChannelShuffleBackward

Spec == Init /\ [][Next]_shuffleVars

(***************************************************************************)
(* The reference channel shuffle, from its definition: view the channels *)
(* as a group x K matrix and transpose it, so output channel c holds      *)
(* input channel (c % group) * K + c \div group, at every n and position. *)
(***************************************************************************)
ShuffleReference(x) ==
    [o \in 0..(Size(x) - 1) |->
        LET n  == o \div (x.c * x.s)
            c  == (o \div x.s) % x.c
            sp == o % x.s
        IN n * x.c * x.s + ((c % x.group) * K(x) + c \div x.group) * x.s + sp]

Accepted(x) == x.c % x.group = 0

(***************************************************************************)
(* channel_shuffle_forward gives the reference shuffle for every accepted *)
(* channel count and group, and channel_shuffle_backward of that output   *)
(* gives back the source: backward is the inverse permutation.  So the    *)
(* threads of the collapsed OpenMP loop write disjoint slices that cover  *)
(* the output: an element two iterations race on, or none writes, is      *)
(* Garbage and breaks the equality.                                       *)
(***************************************************************************)
ShuffleMatchesReference ==
    /\ call # None /\ Accepted(call) => y = ShuffleReference(call)
    /\ gradx # None => gradx = Src(call)

=============================================================================
