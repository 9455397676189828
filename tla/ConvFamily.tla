----------------------------- MODULE ConvFamily -----------------------------
(***************************************************************************)
(* The eager path (web_opt = false) of the convolution-family operators:  *)
(* convolution_forward, convolution_backward_data,                        *)
(* convolution_backward_weights, the three convolution_transpose          *)
(* operators and the three inner_product operators; and of concat of two *)
(* inputs (inputs aligned to input 0's format), batch_normalization_      *)
(* backward (no negotiation; slots src and grady) and eltwise_backward    *)
(* (grady aligned to src's format; slots src and grady).  Each compute    *)
(* derives the key, fetches or builds the object in its operator's cache, *)
(* reshapes the inputs (inner product), negotiates its two primary inputs *)
(* (src_in / weights_in, grady_in / weights_in, src_in / grady_in)        *)
(* against the object's expected layouts, reorders the caller's buffers   *)
(* into scratch buffers where they differ, and executes the object.       *)
(*                                                                         *)
(* The key holds dims, data type and attributes but -- concat's aside --   *)
(* not all of the caller's layouts, while the object is built with the    *)
(* first caller's layouts: an object built for one layout is reused by    *)
(* callers of another.  The engine's layout choice (format_any) depends  *)
(* on the configuration only, so it is a constant function of the key.    *)
(*                                                                         *)
(* Every operator kind has its own cache (utils::computation_cache<T>);   *)
(* lru_cache.hpp is not part of the source tree, so the cache is modelled *)
(* from spec section 4.1 as an LRU store of bounded capacity per kind,    *)
(* and fetch_or_create_m as handing out the cached object itself.         *)
(***************************************************************************)
EXTENDS Naturals, Sequences

CONSTANTS
    Layouts, Data, NoData, None, MaxExecs,
    Keys,           \* configurations (dims, type, attributes)
    KeyOp,          \* KeyOp[k]: the operator whose cache k belongs to
    EngineLayout,   \* EngineLayout[k][i]: the engine's layout for input i of k
    Capacity,       \* LRU capacity of each operator's cache
    Rank,           \* Rank[l]: the number of dims of a tensor in layout l
    PublicOf,       \* PublicOf[r]: the public (plain) layout of rank r
    KeyRank,        \* KeyRank[k][i]: the rank of input i in k's dims
    KeyFormats,     \* KeyFormats[k][i]: the format of input i a key holds (concat, BN)
    GradyFollowsSrc \* BN backward callers pass grady in src's format

VARIABLES
    cache,      \* cache[k]: the object cached for k, or None
    lru,        \* lru[op]: op's resident keys, most recently used first
    lastExec,   \* what the primitive read in the last compute(), or None
    execs       \* number of compute() calls so far

\* The computation object's operators; the objects live in the caches.
Object == INSTANCE Computation

Slots == Object!Slots
Tensor == Object!Tensor

Ops == {"conv_fwd", "conv_bwd_data", "conv_bwd_weights",
        "deconv_fwd", "deconv_bwd_data", "deconv_bwd_weights",
        "ip_fwd", "ip_bwd_data", "ip_bwd_weights", "concat", "bn_bwd",
        "eltwise_bwd"}

Ranks == {2, 4}

ASSUME KeyOp \in [Keys -> Ops]
ASSUME EngineLayout \in [Keys -> [Slots -> Layouts]]
ASSUME Capacity \in Nat \ {0}
ASSUME Rank \in [Layouts -> Ranks] /\ PublicOf \in [Ranks -> Layouts]
ASSUME \A r \in Ranks: Rank[PublicOf[r]] = r
ASSUME KeyRank \in [Keys -> [Slots -> Ranks]]
ASSUME \A k \in Keys, i \in Slots: Rank[EngineLayout[k][i]] = KeyRank[k][i]
ASSUME KeyFormats \in [Keys -> [Slots -> Layouts]]
ASSUME GradyFollowsSrc \in BOOLEAN

Public == {PublicOf[r]: r \in Ranks}

vars == <<cache, lru, lastExec, execs>>

(***************************************************************************)
(* The descriptors of convolution and of inner_product_forward call      *)
(* create_reorder_pds for their two primary inputs; those of              *)
(* convolution_transpose and of the inner_product backward passes do not, *)
(* so need_reorder_input is false everywhere and connect_reorder_for      *)
(* leaves inouts_ in the engine's layouts.                                 *)
(***************************************************************************)
HasReorders(op) == op \in {"conv_fwd", "conv_bwd_data", "conv_bwd_weights", "ip_fwd"}

(***************************************************************************)
(* concat::init: the primitive descriptor takes the input descriptors as  *)
(* given -- every input in input 0's format, after the alignment -- so    *)
(* its object expects exactly those and attaches no reorder.               *)
(***************************************************************************)
ConcatBuild(provided) ==
    LET aligned == [i \in Slots |-> provided[0]] IN Object!Construct(aligned, aligned)

(***************************************************************************)
(* batch_normalization_backward::init(gradx_desc, src_desc, epsilon),     *)
(* called with (src.get_descriptor(), src.get_descriptor(), epsilon): the *)
(* gradient descriptor, which is also grady's, is src's.                   *)
(***************************************************************************)
BnBackwardBuild(provided) ==
    LET d == [i \in Slots |-> provided[0]] IN Object!Construct(d, d)

(***************************************************************************)
(* eltwise_backward::init(grady_in_desc, src_desc): compute has already   *)
(* given grady_in src's format when grady's differed, so both descriptors *)
(* are src's, and the eltwise descriptor attaches no reorder.              *)
(***************************************************************************)
EltwiseBackwardBuild(provided) ==
    LET d == [i \in Slots |-> provided[0]] IN Object!Construct(d, d)

(***************************************************************************)
(* descriptor + computation::init of k's operator, for the caller's       *)
(* layouts.                                                                *)
(***************************************************************************)
Build(k, provided) ==
    CASE KeyOp[k] = "concat" -> ConcatBuild(provided)
      [] KeyOp[k] = "bn_bwd" -> BnBackwardBuild(provided)
      [] KeyOp[k] = "eltwise_bwd" -> EltwiseBackwardBuild(provided)
      [] OTHER -> Object!Construct(IF HasReorders(KeyOp[k]) THEN provided
                                                            ELSE EngineLayout[k],
                                   EngineLayout[k])

(***************************************************************************)
(* utils::create_key(inputs_dt, inputs_dims, inputs_format, axis): a      *)
(* concat key holds the caller's formats, so only callers passing those   *)
(* formats reach its object.  The BN backward and eltwise backward keys   *)
(* hold src's format only.  The other operators' keys hold no layout.                        *)
(***************************************************************************)
\* Mutant: a concat key of data types, dims and axis only.
KeyFitsNoFormats(k, t) == TRUE

KeyFits(k, t) ==
    /\ KeyOp[k] = "concat" => \A i \in Slots: t[i].layout = KeyFormats[k][i]
    /\ KeyOp[k] \in {"bn_bwd", "eltwise_bwd"} => t[0].layout = KeyFormats[k][0]

(***************************************************************************)
(* computation_cache::fetch_or_create (spec 4.1): a resident object is    *)
(* returned and becomes most recently used in its operator's list;        *)
(* otherwise one is built from the caller's descriptors and inserted, and *)
(* the least recently used key of that operator is evicted when the       *)
(* capacity is exceeded.                                                   *)
(***************************************************************************)
Touch(k) == <<k>> \o SelectSeq(lru[KeyOp[k]], LAMBDA x: x # k)

Fetch(k, provided) ==
    IF cache[k] # None
    THEN [obj |-> cache[k], cache |-> cache, lru |-> [lru EXCEPT ![KeyOp[k]] = Touch(k)]]
    ELSE LET o      == Build(k, provided)
             l      == <<k>> \o lru[KeyOp[k]]
             victim == IF Len(l) > Capacity THEN {l[Len(l)]} ELSE {}
         IN [obj   |-> o,
             cache |-> [x \in Keys |-> IF x \in victim THEN None
                                       ELSE IF x = k THEN o ELSE cache[x]],
             lru   |-> [lru EXCEPT ![KeyOp[k]] = IF victim # {} THEN SubSeq(l, 1, Capacity)
                                                                ELSE l]]

(***************************************************************************)
(* inner_product_forward::compute: when src and weights differ in rank,  *)
(* the one whose rank differs from "src public ? weights.ndims :          *)
(* src.ndims" is reshaped to it; inner_product_backward_data::compute     *)
(* reshapes weights to the rank of gradx.  A reshape keeps the buffer and *)
(* relabels a public tensor with the public layout of the new rank (the   *)
(* callers reshape public tensors only).  The other operators pass their  *)
(* inputs unchanged.                                                       *)
(***************************************************************************)
ReshapeTo(x, r) == IF Rank[x.layout] = r THEN x ELSE [x EXCEPT !.layout = PublicOf[r]]

Reshape(k, t) ==
    CASE KeyOp[k] = "ip_fwd" ->
            LET r == IF t[0].layout \in Public THEN Rank[t[1].layout] ELSE Rank[t[0].layout]
            IN [i \in Slots |-> ReshapeTo(t[i], r)]
      [] KeyOp[k] = "ip_bwd_data" -> [t EXCEPT ![1] = ReshapeTo(t[1], KeyRank[k][1])]
      [] OTHER -> t

(***************************************************************************)
(* src_in (weights_in, grady_in) is the (reshaped) caller's tensor, or a  *)
(* new scratch buffer in the object's expected layout when its descriptor *)
(* differs from it.  weights.as_weights() only relabels a public layout   *)
(* as a weights layout, which the layout tags do not tell apart.           *)
(***************************************************************************)
\* Mutant: negotiation against the layout the object was built with.
NeedsScratchVsProvided(o, t, i) == t[i].layout # o.inout[i]

NeedsScratch(o, t, i) == t[i].layout # o.expected[i]

(***************************************************************************)
(* concat::compute ("align all inputs format with first one"): input 0 is *)
(* passed as is; an input i >= 1 whose format differs from input 0's gets *)
(* a scratch buffer of its dims in input 0's format.  do_compute reorders *)
(* into the inputs whose handle differs from the caller's.                 *)
(***************************************************************************)
ConcatAligns(t, i) == i # 0 /\ t[i].layout # t[0].layout

(***************************************************************************)
(* eltwise_backward::compute ("if grady is from outside, make it ours"):  *)
(* grady_in is a new buffer with src's descriptor when grady's internal   *)
(* format differs from src's; do_compute reorders grady into it when the *)
(* handles differ.                                                         *)
(***************************************************************************)
EltwiseBackwardAligns(t, i) == i = 1 /\ t[1].layout # t[0].layout

\* batch_normalization_backward::compute passes its inputs as they are.
Scratch(k, o, t, i) ==
    CASE KeyOp[k] = "concat"      -> ConcatAligns(t, i)
      [] KeyOp[k] = "eltwise_bwd" -> EltwiseBackwardAligns(t, i)
      [] KeyOp[k] = "bn_bwd"      -> FALSE
      [] OTHER                    -> NeedsScratch(o, t, i)

ScratchLayout(k, o, t, i) ==
    IF KeyOp[k] \in {"concat", "eltwise_bwd"} THEN t[0].layout ELSE o.expected[i]

(***************************************************************************)
(* reorder::compute(input, output): a conversion plan exists between      *)
(* descriptors of equal shape only (spec section 6, convert); for others *)
(* the reorder descriptor cannot be created and error::wrap_c_api throws. *)
(***************************************************************************)
Convertible(x, layout) == Rank[x.layout] = Rank[layout]

(***************************************************************************)
(* do_compute(t, ..., tin): when an input's scratch buffer is not the     *)
(* caller's buffer, reorder::compute(t[i], scratch) fills it -- from the  *)
(* caller's tensor as passed, not its reshaped view; the object then      *)
(* executes on the negotiated pair.  ReorderThrows: one of the reorders   *)
(* has no conversion plan.                                                 *)
(***************************************************************************)
ReorderThrows(k, o, t, tin) ==
    \E i \in Slots: Scratch(k, o, tin, i) /\ ~Convertible(t[i], ScratchLayout(k, o, tin, i))

DoComputeInputs(k, o, t, tin) ==
    [i \in Slots |-> IF Scratch(k, o, tin, i)
                     THEN Object!Reorder(t[i], ScratchLayout(k, o, tin, i))
                     ELSE tin[i]]

(***************************************************************************)
(* convolution_forward::create_computation returns a copy of the fetched  *)
(* object (comp = _comp; return comp), and compute_impl executes the      *)
(* copy: the copy's reorder slots are its own, but the memory bound to    *)
(* the slots is shared with the cached object.  The other operators       *)
(* execute the fetched object itself.                                      *)
(***************************************************************************)
ExecutesCopy(op) == op = "conv_fwd"

Release(op, fetched, executed) ==
    IF ExecutesCopy(op) THEN [executed EXCEPT !.aux = fetched.aux] ELSE executed

Init ==
    /\ cache = [k \in Keys |-> None]
    /\ lru = [op \in Ops |-> <<>>]
    /\ lastExec = None
    /\ execs = 0

(***************************************************************************)
(* compute (compute_impl) of k's operator for a caller tensor pair t:     *)
(* reshape, fetch, the negotiation, the reinit of the outputs (not        *)
(* modelled: outputs are not read back), the reorders and the execute.    *)
(* The key holds the reshaped dims, so the caller's ranks fit the key.     *)
(* A reorder that throws leaves the fetched object unexecuted.             *)
(***************************************************************************)
Compute(k, t) ==
    /\ execs < MaxExecs
    /\ LET tin  == Reshape(k, t)
           f    == Fetch(k, [i \in Slots |-> tin[i].layout])
           comp == f.obj
       IN /\ \A i \in Slots: Rank[tin[i].layout] = KeyRank[k][i]
          /\ KeyFits(k, tin)
          /\ lru' = f.lru
          /\ IF ReorderThrows(k, comp, t, tin)
             THEN /\ cache' = f.cache
                  /\ lastExec' = [ok |-> FALSE, args |-> t, expected |-> comp.expected,
                                  read |-> comp.prim]
             ELSE \E r \in Object!ExecuteOn(comp, DoComputeInputs(k, comp, t, tin)):
                     /\ cache' = [f.cache EXCEPT ![k] = Release(KeyOp[k], comp, r.obj)]
                     /\ lastExec' = Object!Observe(r, t)
    /\ execs' = execs + 1

ConvForwardCompute(k, t) == KeyOp[k] = "conv_fwd" /\ Compute(k, t)
ConvBackwardDataCompute(k, t) == KeyOp[k] = "conv_bwd_data" /\ Compute(k, t)
ConvBackwardWeightsCompute(k, t) == KeyOp[k] = "conv_bwd_weights" /\ Compute(k, t)
DeconvForwardCompute(k, t) == KeyOp[k] = "deconv_fwd" /\ Compute(k, t)
DeconvBackwardDataCompute(k, t) == KeyOp[k] = "deconv_bwd_data" /\ Compute(k, t)
DeconvBackwardWeightsCompute(k, t) == KeyOp[k] = "deconv_bwd_weights" /\ Compute(k, t)
InnerProductForwardCompute(k, t) == KeyOp[k] = "ip_fwd" /\ Compute(k, t)
InnerProductBackwardDataCompute(k, t) == KeyOp[k] = "ip_bwd_data" /\ Compute(k, t)
InnerProductBackwardWeightsCompute(k, t) == KeyOp[k] = "ip_bwd_weights" /\ Compute(k, t)
ConcatCompute(k, t) == KeyOp[k] = "concat" /\ Compute(k, t)
BnBackwardCompute(k, t) == KeyOp[k] = "bn_bwd" /\ Compute(k, t)
EltwiseBackwardCompute(k, t) == KeyOp[k] = "eltwise_bwd" /\ Compute(k, t)

(***************************************************************************)
(* The arguments callers pass: any tensors, except that with              *)
(* GradyFollowsSrc a BN backward caller passes grady in src's format, as  *)
(* the grady produced by eltwise_backward or pooling_backward of the same *)
(* activation is.                                                          *)
(***************************************************************************)
CallerArgs(k) ==
    {t \in [Slots -> Tensor]:
        KeyOp[k] = "bn_bwd" /\ GradyFollowsSrc => t[1].layout = t[0].layout}

\* The bound on calls is reached: the caller issues no more calls.
Done == execs = MaxExecs /\ UNCHANGED vars

Next ==
    \/ \E k \in Keys: \E t \in CallerArgs(k):
          \/ ConvForwardCompute(k, t)
          \/ ConvBackwardDataCompute(k, t)
          \/ ConvBackwardWeightsCompute(k, t)
          \/ DeconvForwardCompute(k, t)
          \/ DeconvBackwardDataCompute(k, t)
          \/ DeconvBackwardWeightsCompute(k, t)
          \/ InnerProductForwardCompute(k, t)
          \/ InnerProductBackwardDataCompute(k, t)
          \/ InnerProductBackwardWeightsCompute(k, t)
          \/ ConcatCompute(k, t)
          \/ BnBackwardCompute(k, t)
          \/ EltwiseBackwardCompute(k, t)
    \/ Done

Spec == Init /\ [][Next]_vars

TypeOK ==
    /\ cache \in [Keys -> Object!Obj \cup {None}]
    /\ lru \in [Ops -> Seq(Keys)]
    /\ \A op \in Ops: Len(lru[op]) <= Capacity
    /\ \A k \in Keys: cache[k] # None <=>
                          \E n \in 1..Len(lru[KeyOp[k]]): lru[KeyOp[k]][n] = k
    /\ lastExec \in Object!ExecRecord \cup {None}
    /\ execs \in 0..MaxExecs

(***************************************************************************)
(* Every compute() of a convolution-family operator, concat, BN or eltwise *)
(* backward succeeds, and its primitive reads, at both primary inputs,    *)
(* the caller's data in the engine's layout -- also when the cached       *)
(* object was built (and, for the operators that execute it directly,     *)
(* its reorders dropped) by earlier callers that used other layouts.      *)
(***************************************************************************)
ComputeReadsCallerData ==
    lastExec # None => lastExec.ok /\ Object!ReadsCallerData(lastExec)

=============================================================================
