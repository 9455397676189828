------------------------------ MODULE SumArray ------------------------------
(***************************************************************************)
(* sum_array: reduction of a tensor along axes, split over OpenMP threads *)
(* by hand.  Two kernels:                                                  *)
(*  - sum_nChwXC_along_channel, for a 4-D tensor in a blocked layout       *)
(*    (nChw8c / nChw16c) summed along axes {0, 2, 3}: per-thread partial  *)
(*    sums over a range of the batch, then an all-reduce over channels;   *)
(*  - sum_along_axis, for a tensor in its plain layout: per batch, one    *)
(*    axis at a time, into a fresh work buffer; then, when the batch axis  *)
(*    is reduced too, a per-thread and a global all-reduce.               *)
(*                                                                         *)
(* Values are symbolic: every element of the source is its memory offset, *)
(* and a sum is the bag of offsets added into it, so a dropped, doubled   *)
(* or foreign element shows.  Padding of a blocked layout is zero and adds *)
(* nothing; a buffer element nothing wrote, or a read past the end of the  *)
(* source, is Garbage (an uninitialized value: any number).               *)
(***************************************************************************)
EXTENDS Naturals, Sequences, Bags, SequencesExt

CONSTANTS
    Garbage,        \* an uninitialized value
    FastCases,      \* inputs of sum_nChwXC_along_channel: [mb, ic, hw, cg, nthr, team]
    CommonCases     \* inputs of sum_along_axis: [dims, axis, nthr, team]

VARIABLE input

\* A sum: Garbage absorbs everything.
Add(x, y) == IF x = Garbage \/ y = Garbage THEN Garbage ELSE x (+) y

\* The element at offset i of an array a, Garbage past its end.
At(a, i) == IF a # Garbage /\ i \in DOMAIN a THEN a[i] ELSE Garbage

Prod(s) == FoldLeft(LAMBDA x, y: x * y, 1, s)

(***************************************************************************)
(* The hand-written static schedule: nthr = omp_get_max_threads() threads *)
(* over n items, len = n / nthr each and the first n % nthr one more;     *)
(* when len = 0 the thread count is cut to n.                              *)
(***************************************************************************)
Threads(n, nthr) == IF n \div nthr = 0 THEN n ELSE nthr

\* Mutant: the first thread past the remainder also takes one extra item.
PartLongLast(ithr, n, nthr) ==
    LET len == n \div nthr
        ex  == n % nthr
    IN [start |-> IF ithr <= ex THEN (len + 1) * ithr
                  ELSE ex * (len + 1) + (ithr - ex) * len,
        len   |-> IF ithr <= ex THEN len + 1 ELSE len]

Part(ithr, n, nthr) ==
    LET len == n \div nthr
        ex  == n % nthr
    IN [start |-> IF ithr <= ex THEN (len + 1) * ithr
                  ELSE ex * (len + 1) + (ithr - ex) * len,
        len   |-> IF ithr < ex THEN len + 1 ELSE len]

\* The items thread ithr covers.
Chunk(ithr, n, nthr) ==
    LET p == Part(ithr, n, nthr) IN p.start .. (p.start + p.len - 1)

(***************************************************************************)
(* "#pragma omp parallel num_threads(k)" starts at most k threads: the     *)
(* team is smaller when OpenMP grants fewer (a nested region gets one).   *)
(* Threads the code counted on but that never ran leave their items       *)
(* undone.                                                                 *)
(***************************************************************************)
Ran(ithr, n, nthr, team) == ithr < Threads(n, nthr) /\ ithr < team

Covered(item, n, nthr, team) ==
    \E i \in 0..(Threads(n, nthr) - 1): Ran(i, n, nthr, team) /\ item \in Chunk(i, n, nthr)

\* "dst[c] = 0; for each thread's partial: dst[c] += part[c]", each c set
\* by the all-reduce thread whose range holds it; others keep dst's
\* uninitialized content.
AllReduce(size, parts, nthr, team) ==
    [c \in 0..(size - 1) |->
        IF Covered(c, size, nthr, team)
        THEN FoldLeft(LAMBDA acc, p: Add(acc, At(p, c)), EmptyBag, parts)
        ELSE Garbage]

-----------------------------------------------------------------------------
(***************************************************************************)
(* sum_nChwXC_along_channel.  Channels are padded to Cp, a multiple of the *)
(* block cg; element (n, c, h) is at ((n * Cp/cg + c/cg) * hw + h) * cg + *)
(* c % cg.  Thread ithr's buffer buf[ithr * ic ..] accumulates, for each  *)
(* batch of its range, cn = ic / cg blocks of hw * cg elements read from  *)
(* loc_src = src + bstart * ic * hw onwards; only the first cn * cg        *)
(* elements of its buffer are zeroed.                                      *)
(***************************************************************************)
Padded(ic, cg) == ((ic + cg - 1) \div cg) * cg

BlockedOffset(n, c, h, ic, hw, cg) ==
    ((n * (Padded(ic, cg) \div cg) + c \div cg) * hw + h) * cg + (c % cg)

BlockedSrc(mb, ic, hw, cg) ==
    [i \in 0..(mb * Padded(ic, cg) * hw - 1) |->
        IF (((i \div cg) \div hw) % (Padded(ic, cg) \div cg)) * cg + (i % cg) < ic
        THEN SetToBag({i}) ELSE EmptyBag]

ChannelPartial(src, ithr, mb, ic, hw, cg, nthr) ==
    LET p  == Part(ithr, mb, nthr)
        cn == ic \div cg
    IN [k \in 0..(ic - 1) |->
          IF k >= cn * cg \/ p.len = 0 THEN Garbage
          ELSE LET c == k \div cg
                   o == k % cg
               IN FoldLeft(LAMBDA acc, e: Add(acc, At(src, e)), EmptyBag,
                    [j \in 1..(p.len * hw) |->
                       LET b == p.start + (j - 1) \div hw
                           h == (j - 1) % hw
                       IN p.start * ic * hw + (b - p.start) * cn * cg * hw
                          + c * hw * cg + h * cg + o])]

SumNChwXCAlongChannel(mb, ic, hw, cg, nthr, team) ==
    LET src   == BlockedSrc(mb, ic, hw, cg)
        parts == [i \in 1..Threads(mb, nthr) |->
                    IF Ran(i - 1, mb, nthr, team)
                    THEN ChannelPartial(src, i - 1, mb, ic, hw, cg, nthr)
                    ELSE Garbage]
    IN AllReduce(ic, parts, nthr, team)

\* What the reduction must give: channel c sums every (n, c, h) once.
ChannelReference(mb, ic, hw, cg) ==
    [c \in 0..(ic - 1) |->
        SetToBag({BlockedOffset(n, c, h, ic, hw, cg): n \in 0..(mb - 1), h \in 0..(hw - 1)})]

-----------------------------------------------------------------------------
(***************************************************************************)
(* sum_along_axis.  The kernel sums cur (dims cd) along axis ax into a    *)
(* work buffer of fore * tail elements, walking the source with base/off  *)
(* exactly as the code does.                                               *)
(***************************************************************************)
RECURSIVE KernelLoop(_, _, _, _, _, _, _, _)
KernelLoop(cur, dim, tail, size, w, base, off, ws) ==
    IF w >= size THEN ws
    ELSE LET ws2 == [ws EXCEPT ![w] = FoldLeft(LAMBDA acc, t: Add(acc, At(cur, off + t * tail)),
                                             @, [t \in 1..dim |-> t - 1])]
         IN IF (w + 1) % tail = 0
            THEN KernelLoop(cur, dim, tail, size, w + 1, base + tail * dim,
                            base + tail * dim, ws2)
            ELSE KernelLoop(cur, dim, tail, size, w + 1, base, off + 1, ws2)

Kernel(cur, cd, ax) ==
    LET fore == Prod([d \in 1..(ax - 1) |-> cd[d + 1]])
        tail == Prod([d \in 1..(Len(cd) - ax - 1) |-> cd[ax + d + 1]])
    IN KernelLoop(cur, cd[ax + 1], tail, fore * tail, 0, 0, 0,
                  [i \in 0..(fore * tail - 1) |-> EmptyBag])

\* cur_axis: the non-batch axes, in reverse order of the caller's list.
CurAxis(axis) == Reverse(SelectSeq(axis, LAMBDA a: a # 0))

\* Mutant: every later axis moves down, also those below the erased one.
ShiftAxesAll(ca, a) == [i \in 1..Len(ca) |-> IF i > a THEN ca[i] - 1 ELSE ca[i]]

\* The axes after position a that are above cur_axis[a] move down by one.
ShiftAxes(ca, a) == [i \in 1..Len(ca) |-> IF i > a /\ ca[i] > ca[a] THEN ca[i] - 1 ELSE ca[i]]

RECURSIVE AxisLoop(_, _, _, _)
AxisLoop(cur, cd, ca, a) ==
    IF a > Len(ca) THEN cur
    ELSE AxisLoop(Kernel(cur, cd, ca[a]),
                  [i \in 1..(Len(cd) - 1) |-> IF i <= ca[a] THEN cd[i] ELSE cd[i + 1]],
                  ShiftAxes(ca, a), a + 1)

\* loc_ws[b - bstart] for batch b: set by the last axis of cur_axis, never
\* set when cur_axis is empty.
BatchSum(src, dims, axis, b) ==
    LET tail == Prod(Tail(dims))
    IN IF CurAxis(axis) = <<>> THEN Garbage
       ELSE AxisLoop([j \in 0..(tail - 1) |-> At(src, b * tail + j)], dims, CurAxis(axis), 1)

GblWsSize(dims, axis) ==
    Prod([d \in 1..(Len(dims) - 1) |->
            IF \E a \in 1..Len(axis): axis[a] = d THEN 1 ELSE dims[d + 1]])

AlongMb(axis) == \E a \in 1..Len(axis): axis[a] = 0

\* Thread ithr's gbl_ws[ithr] when the batch axis is reduced.
ThreadPartial(src, dims, axis, ithr, nthr) ==
    LET p    == Part(ithr, dims[1], nthr)
        tail == Prod(Tail(dims))
        gsz  == GblWsSize(dims, axis)
        bs   == [j \in 1..p.len |-> p.start + j - 1]
    IN IF Len(dims) = 2 /\ axis = <<0>>
       THEN [o \in 0..(tail - 1) |->
               FoldLeft(LAMBDA acc, b: Add(acc, At(src, b * tail + o)), EmptyBag, bs)]
       ELSE LET ws0 == BatchSum(src, dims, axis, p.start)
            IN [o \in 0..(gsz - 1) |->
                  FoldLeft(LAMBDA acc, j: Add(acc, At(BatchSum(src, dims, axis, bs[j]), o)),
                           At(ws0, o), [j \in 2..p.len |-> j])]

SumAlongAxis(dims, axis, nthr, team) ==
    LET src == [i \in 0..(Prod(dims) - 1) |-> SetToBag({i})]
        gsz == GblWsSize(dims, axis)
    IN IF AlongMb(axis)
       THEN AllReduce(gsz, [i \in 1..Threads(dims[1], nthr) |->
                              IF Ran(i - 1, dims[1], nthr, team)
                              THEN ThreadPartial(src, dims, axis, i - 1, nthr)
                              ELSE Garbage], nthr, team)
       ELSE [j \in 0..(dims[1] * gsz - 1) |->
               IF Covered(j \div gsz, dims[1], nthr, team)
               THEN At(BatchSum(src, dims, axis, j \div gsz), j % gsz)
               ELSE Garbage]

\* get_dst_dims, and the reference: dst element j sums every source
\* element whose coordinates outside axis flatten to j.
DstDims(dims, axis) ==
    SelectSeq([d \in 1..Len(dims) |-> IF \E a \in 1..Len(axis): axis[a] = d - 1 THEN 0 ELSE dims[d]],
              LAMBDA x: x # 0)

RECURSIVE Coords(_, _)
Coords(i, dims) ==
    IF dims = <<>> THEN <<>>
    ELSE Coords(i \div dims[Len(dims)], SubSeq(dims, 1, Len(dims) - 1))
         \o <<i % dims[Len(dims)]>>

Flatten(cs, dims) == FoldLeft(LAMBDA acc, k: acc * dims[k] + cs[k], 0, [k \in 1..Len(dims) |-> k])

AxisReference(dims, axis) ==
    LET kept == SelectSeq([d \in 1..Len(dims) |-> d],
                          LAMBDA d: ~\E a \in 1..Len(axis): axis[a] = d - 1)
        dd   == DstDims(dims, axis)
        DstOf(i) == Flatten([k \in 1..Len(kept) |-> Coords(i, dims)[kept[k]]], dd)
    IN [j \in 0..(Prod(dd) - 1) |->
          SetToBag({i \in 0..(Prod(dims) - 1): DstOf(i) = j})]

(***************************************************************************)
(* sum_common_along_axis accepts a non-empty axis list whose result has   *)
(* 1, 2 or 4 dimensions.                                                   *)
(***************************************************************************)
CommonAccepted(dims, axis) ==
    /\ axis # <<>>
    /\ Len(dims) - Len(axis) \in {1, 2, 4}

-----------------------------------------------------------------------------
\* The inputs are chosen once; the kernels are pure.
Init == input \in FastCases \cup CommonCases

Next == UNCHANGED input

Spec == Init /\ [][Next]_input

(***************************************************************************)
(* sum_nChwXC_along_channel returns, for every channel, the sum of that   *)
(* channel over all batches and positions, each element once, for every   *)
(* batch size, spatial size, block and thread count.                      *)
(***************************************************************************)
FastMatchesReference ==
    LET x == input
    IN x \in FastCases =>
       SumNChwXCAlongChannel(x.mb, x.ic, x.hw, x.cg, x.nthr, x.team)
         = ChannelReference(x.mb, x.ic, x.hw, x.cg)

(***************************************************************************)
(* sum_along_axis returns the reference reduction for every shape and     *)
(* axis list sum_common_along_axis accepts, and every thread count.       *)
(***************************************************************************)
CommonMatchesReference ==
    LET x == input
    IN x \in CommonCases /\ CommonAccepted(x.dims, x.axis)
         => SumAlongAxis(x.dims, x.axis, x.nthr, x.team) = AxisReference(x.dims, x.axis)

=============================================================================
