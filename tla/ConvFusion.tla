------------------------------ MODULE ConvFusion ------------------------------
(***************************************************************************)
(* Lazy execution (web_opt = true) of convolution_forward, eltwise_forward *)
(* and batch_normalization_forward_inference through the computation web, *)
(* with the convolution's fusion rules: fuse_if_necessary and the two      *)
(* closures it dispatches to, conv_fuse_ (a RELU post-op) and              *)
(* conv_bn_folding_ (BN folded into the weights, the folded pair cached in *)
(* the weights tensor's opts keyed by the scale tensor's handle).          *)
(*                                                                         *)
(* The web itself (web.hpp) is not in the source tree and is modelled from *)
(* spec 4.4: every compute() creates a node and build_deps succeeds (all   *)
(* inputs are materialized or targets of pending nodes); a node whose      *)
(* fusion attribute is not NA and whose source is the target of the conv   *)
(* node enqueued just before it is offered to that node's                  *)
(* fuse_if_necessary, and a non-null result replaces the conv node at its  *)
(* position; reading a tensor fires the pending nodes in enqueue order up  *)
(* to its producer.                                                        *)
(*                                                                         *)
(* Tensor contents are symbolic terms.  A ghost variable keeps the value   *)
(* each tensor would have if every call had executed eagerly; a read must  *)
(* return that value, up to the algebra that makes fusion sound (a fold of *)
(* BN statistics s into weights and bias is BN with s after the           *)
(* convolution; RELU is idempotent).                                       *)
(***************************************************************************)
EXTENDS Naturals, Sequences, SequencesExt

CONSTANTS
    XData,      \* contents of caller inputs
    WData,      \* contents of weights tensors
    SData,      \* contents of BN statistics (mean, variance, scale, shift)
    Inputs,     \* caller input tensors
    Wts,        \* weights tensors
    Stats,      \* BN statistics groups; deps[2] is the group's scale tensor
    Outs,       \* output tensors the caller passes as dst
    Writable,   \* caller tensors the caller overwrites between iterations
    Follows,    \* <<producer op, consumer op>> pairs the network contains
    Undef,      \* content of a tensor nothing has written
    None,
    MaxCalls    \* bound on the number of caller calls

Tensors == Inputs \cup Wts \cup Stats \cup Outs
Ops == {"input", "conv", "relu", "elt", "bn"}

ASSUME Writable \subseteq Wts \cup Stats
ASSUME Follows \subseteq Ops \X (Ops \ {"input"})

VARIABLES
    content,    \* content[t]: what t's buffer holds
    mat,        \* mat[t]: t is materialized
    queue,      \* pending nodes in enqueue order
    opts,       \* opts[w]: the folded pair cached on weights w, or None
    eager,      \* ghost: eager[t] is t's value under eager execution
    lastOp,     \* ghost: the operation that last produced t
    live,       \* outputs the caller holds and has not yet consumed
    lastRead,   \* the last read: what it returned and its eager value
    calls

vars == <<content, mat, queue, opts, eager, lastOp, live, lastRead, calls>>

(***************************************************************************)
(* Terms.  Weights of a convolution are [base, folds]: a caller content   *)
(* and the BN statistics folded into it; the bias is the sequence of       *)
(* statistics folded into the zero bias (comp.zero_bias()).                 *)
(***************************************************************************)
ConvT(x, w, b, relu) == [op |-> "conv", x |-> x, w |-> w, b |-> b, relu |-> relu]
ReluT(a) == [op |-> "relu", a |-> a]
EltT(a) == [op |-> "elt", a |-> a]
BnT(a, s) == [op |-> "bn", a |-> a, s |-> s]
OpOf(v) == IF v \in XData \cup {Undef} THEN "leaf" ELSE v.op

\* A reference a node or closure holds to weights: a caller tensor, read
\* when used, or a tensor of its own (folded weights).
TRef(t) == [t |-> t, v |-> None]
Lit(v) == [t |-> None, v |-> v]
Deref(r, c) == IF r.t # None THEN [base |-> c[r.t], folds |-> <<>>] ELSE r.v

(***************************************************************************)
(* The computation object's fusion state: its post-op, and the weights    *)
(* and bias captured by conv_fuse_ (init_web_opt_fusion) and by            *)
(* conv_bn_folding_ (init_web_opt_folding).                                *)
(***************************************************************************)
NewConvComp(wref, b, relu) ==
    [relu |-> relu, fuseW |-> wref, fuseB |-> b, foldW |-> wref, foldB |-> b]

Node(op, comp, x, w, b, g, dst) ==
    [op |-> op, comp |-> comp, x |-> x, w |-> w, b |-> b, g |-> g, dst |-> dst]

(***************************************************************************)
(* bn_folding: factor = scale / sqrt(var + eps); W' = W * factor per      *)
(* output channel; b' = factor * (b - mean) + shift.  Symbolically: the    *)
(* statistics are appended to the folds of weights and bias.               *)
(***************************************************************************)
FoldWeights(wv, s) == [wv EXCEPT !.folds = Append(@, s)]

FoldBias(bv, s) == Append(bv, s)

(***************************************************************************)
(* fuse_if_necessary(pre_comp, tar_attr, dst) on the pending conv node p, *)
(* for the fusion attribute of a node reading p's target.  Returns         *)
(* [node, opts] or None (nullptr).                                         *)
(*  - RELU: conv_fuse(dst, fuse_relu): create_computation with the         *)
(*    captured src, weights and bias and a RELU post-op; the new object's  *)
(*    closures capture those same weights and bias.                        *)
(*  - BN: conv_bn_folding(pre_comp, dst, deps): take the folded pair from *)
(*    weights.opts() when its scale handle is deps[2]'s, else fold the     *)
(*    captured weights and bias and store the pair and the scale in opts;  *)
(*    then re-initialise pre_comp's conv_fuse_ with the folded pair and   *)
(*    create a node of pre_comp on the folded pair.                        *)
(***************************************************************************)
ConvFuse(p, d) ==
    LET c == p.comp
    IN [node |-> Node("conv", NewConvComp(c.fuseW, c.fuseB, TRUE), p.x,
                      c.fuseW, c.fuseB, None, d),
        opts |-> opts]

\* Mutant: any folded pair cached on the weights is reused, whatever the
\* statistics it was folded with.
ConvBnFoldingAnyOpts(p, g, d) ==
    LET c      == p.comp
        w      == c.foldW.t
        hit    == w # None /\ opts[w] # None
        folded == IF hit THEN opts[w]
                  ELSE [w |-> FoldWeights(Deref(c.foldW, content), content[g]),
                        b |-> FoldBias(c.foldB, content[g]),
                        scale |-> g]
        comp2  == [c EXCEPT !.fuseW = Lit(folded.w), !.fuseB = folded.b]
    IN [node |-> Node("conv", comp2, p.x, Lit(folded.w), folded.b, None, d),
        opts |-> IF ~hit /\ w # None THEN [opts EXCEPT ![w] = folded] ELSE opts]

ConvBnFolding(p, g, d) ==
    LET c      == p.comp
        w      == c.foldW.t
        hit    == w # None /\ opts[w] # None /\ opts[w].scale = g
        folded == IF hit THEN opts[w]
                  ELSE [w |-> FoldWeights(Deref(c.foldW, content), content[g]),
                        b |-> FoldBias(c.foldB, content[g]),
                        scale |-> g]
        comp2  == [c EXCEPT !.fuseW = Lit(folded.w), !.fuseB = folded.b]
    IN [node |-> Node("conv", comp2, p.x, Lit(folded.w), folded.b, None, d),
        opts |-> IF ~hit /\ w # None THEN [opts EXCEPT ![w] = folded] ELSE opts]

FuseIfNecessary(p, op, g, d) ==
    CASE op = "relu" -> ConvFuse(p, d)
      [] op = "bn"   -> ConvBnFolding(p, g, d)
      [] OTHER       -> None

(***************************************************************************)
(* fire_computation_node of each kind, on the contents c: the node reads  *)
(* its inputs' buffers when it fires.                                      *)
(***************************************************************************)
Fire(c, n) ==
    [c EXCEPT ![n.dst] =
        CASE n.op = "conv" -> ConvT(c[n.x], Deref(n.w, c), n.b, n.comp.relu)
          [] n.op = "relu" -> ReluT(c[n.x])
          [] n.op = "elt"  -> EltT(c[n.x])
          [] n.op = "bn"   -> BnT(c[n.x], c[n.g])]

\* The nodes of q fire one after another, in order, on the contents c.
RECURSIVE FireAll(_, _)
FireAll(c, q) == IF q = <<>> THEN c ELSE FireAll(Fire(c, Head(q)), Tail(q))

\* What eager execution of an operation gives.
EagerOf(op, a, g) ==
    CASE op = "relu" -> ReluT(a)
      [] op = "elt"  -> EltT(a)
      [] op = "bn"   -> BnT(a, content[g])

\* The pending nodes that read or write t.
Referenced(t) ==
    \E i \in 1..Len(queue):
        t \in {queue[i].x, queue[i].w.t, queue[i].g, queue[i].dst}

\* Output tensors the caller may pass as a fresh dst.
FreeOuts == {o \in Outs: o \notin live /\ ~Referenced(o)}

Init ==
    /\ \E x \in [Inputs -> XData], w \in [Wts -> WData], s \in [Stats -> SData]:
          content = [t \in Tensors |-> IF t \in Inputs THEN x[t]
                                       ELSE IF t \in Wts THEN w[t]
                                       ELSE IF t \in Stats THEN s[t]
                                       ELSE Undef]
    /\ mat = [t \in Tensors |-> t \notin Outs]
    /\ queue = <<>>
    /\ opts = [w \in Wts |-> None]
    /\ eager = content
    /\ lastOp = [t \in Tensors |-> "input"]
    /\ live = {}
    /\ lastRead = None
    /\ calls = 0

(***************************************************************************)
(* convolution_forward::compute_impl, web_opt, no bias: the object's       *)
(* closures capture src, weights and the zero bias; the node is created    *)
(* and enqueued (build_deps succeeds).  A convolution has no fusion        *)
(* attribute of its own.                                                   *)
(***************************************************************************)
ConvCall(x, w, d) ==
    /\ calls < MaxCalls
    /\ x \in Inputs \cup live
    /\ <<lastOp[x], "conv">> \in Follows
    /\ d \in FreeOuts
    /\ queue' = Append(queue, Node("conv", NewConvComp(TRef(w), <<>>, FALSE),
                                   x, TRef(w), <<>>, None, d))
    /\ mat' = [mat EXCEPT ![d] = FALSE]
    /\ eager' = [eager EXCEPT ![d] =
                    ConvT(eager[x], [base |-> content[w], folds |-> <<>>], <<>>, FALSE)]
    /\ lastOp' = [lastOp EXCEPT ![d] = "conv"]
    /\ live' = (live \ {x}) \cup {d}
    /\ calls' = calls + 1
    /\ UNCHANGED <<content, opts, lastRead>>

(***************************************************************************)
(* computation_node::create with a fusion attribute, then build_deps and   *)
(* enqueue (web.hpp, spec 4.4): dst may be src (in place); the node is     *)
(* offered to the conv node enqueued just before it when that node         *)
(* produces src, and a fused node replaces that node; otherwise the node   *)
(* is enqueued.                                                            *)
(***************************************************************************)
EnqueueFused(op, s, g, d) ==
    /\ calls < MaxCalls
    /\ s \in Inputs \cup live
    /\ <<lastOp[s], op>> \in Follows
    /\ d \in FreeOuts \cup ({s} \cap Outs)
    /\ LET p     == IF queue # <<>> THEN Last(queue) ELSE None
           fused == IF p # None /\ p.op = "conv" /\ p.dst = s
                    THEN FuseIfNecessary(p, op, g, d) ELSE None
       IN /\ queue' = IF fused # None THEN [queue EXCEPT ![Len(queue)] = fused.node]
                      ELSE Append(queue, Node(op, None, s, TRef(None), <<>>, g, d))
          /\ opts' = IF fused # None THEN fused.opts ELSE opts
    /\ mat' = [mat EXCEPT ![d] = FALSE]
    /\ eager' = [eager EXCEPT ![d] = EagerOf(op, eager[s], g)]
    /\ lastOp' = [lastOp EXCEPT ![d] = op]
    /\ live' = (live \ {s}) \cup {d}
    /\ calls' = calls + 1
    /\ UNCHANGED <<content, lastRead>>

(***************************************************************************)
(* eltwise_forward::compute, web_opt: fusion attribute RELU for the relu  *)
(* algorithm and NA for any other.                                         *)
(***************************************************************************)
EltwiseCall(alg, s, d) ==
    EnqueueFused(IF alg = "relu" THEN "relu" ELSE "elt", s, None, d)

(***************************************************************************)
(* batch_normalization_forward_inference::compute, web_opt: fusion         *)
(* attribute BN with deps {mean, variance, scale, shift} of group g.       *)
(***************************************************************************)
BnInferenceCall(s, g, d) == EnqueueFused("bn", s, g, d)

\* Mutant: a read fires t's producer only, not the nodes enqueued before it.
ReadProducerOnly(t) ==
    /\ calls < MaxCalls
    /\ t \in live
    /\ LET k     == Max({0} \cup {i \in 1..Len(queue): queue[i].dst = t})
           fired == IF k = 0 THEN <<>> ELSE <<queue[k]>>
           c2    == FireAll(content, fired)
       IN /\ content' = c2
          /\ mat' = [u \in Tensors |-> mat[u] \/ (k > 0 /\ queue[k].dst = u)]
          /\ queue' = SubSeq(queue, 1, k - 1) \o SubSeq(queue, k + 1, Len(queue))
          /\ lastRead' = [val |-> c2[t], eager |-> eager[t]]
    /\ calls' = calls + 1
    /\ UNCHANGED <<opts, eager, lastOp, live>>

(***************************************************************************)
(* The caller reads t: the pending nodes up to t's producer fire in        *)
(* enqueue order and materialize their targets.                            *)
(***************************************************************************)
Read(t) ==
    /\ calls < MaxCalls
    /\ t \in live
    /\ LET k     == Max({0} \cup {i \in 1..Len(queue): queue[i].dst = t})
           fired == SubSeq(queue, 1, k)
           c2    == FireAll(content, fired)
       IN /\ content' = c2
          /\ mat' = [u \in Tensors |-> mat[u] \/ \E i \in 1..k: fired[i].dst = u]
          /\ queue' = SubSeq(queue, k + 1, Len(queue))
          /\ lastRead' = [val |-> c2[t], eager |-> eager[t]]
    /\ calls' = calls + 1
    /\ UNCHANGED <<opts, eager, lastOp, live>>

(***************************************************************************)
(* The caller overwrites weights or statistics in place (a training step, *)
(* a model reload) while no pending node uses them.                        *)
(***************************************************************************)
Write(t, v) ==
    /\ calls < MaxCalls
    /\ t \in Writable
    /\ v # content[t]
    /\ ~Referenced(t)
    /\ content' = [content EXCEPT ![t] = v]
    /\ eager' = [eager EXCEPT ![t] = v]
    /\ calls' = calls + 1
    /\ UNCHANGED <<mat, queue, opts, lastOp, live, lastRead>>

Done == calls = MaxCalls /\ UNCHANGED vars

Next ==
    \/ \E x \in Tensors, w \in Wts, d \in Outs: ConvCall(x, w, d)
    \/ \E alg \in {"relu", "tanh"}, s \in Tensors, d \in Outs: EltwiseCall(alg, s, d)
    \/ \E s \in Tensors, g \in Stats, d \in Outs: BnInferenceCall(s, g, d)
    \/ \E t \in Outs: Read(t)
    \/ \E t \in Writable, v \in WData \cup SData:
          /\ (t \in Wts => v \in WData) /\ (t \in Stats => v \in SData)
          /\ Write(t, v)
    \/ Done

Spec == Init /\ [][Next]_vars

(***************************************************************************)
(* The meaning of a term: a convolution whose weights and bias carry the   *)
(* same folds is BN after the unfolded convolution, one BN per fold, and  *)
(* a RELU post-op is RELU after it; RELU of RELU is RELU.                  *)
(***************************************************************************)
Relu1(a) == IF OpOf(a) = "relu" THEN a ELSE ReluT(a)

\* BN with each of the statistics ss in turn, after a.
RECURSIVE BnChain(_, _)
BnChain(a, ss) == IF ss = <<>> THEN a ELSE BnChain(BnT(a, Head(ss)), Tail(ss))

RECURSIVE Meaning(_)
Meaning(v) ==
    CASE OpOf(v) = "leaf" -> v
      [] OpOf(v) = "conv" ->
            LET core == ConvT(Meaning(v.x), [base |-> v.w.base, folds |-> <<>>],
                              <<>>, FALSE)
                lin  == IF v.w.folds = v.b THEN BnChain(core, v.w.folds)
                        ELSE [op |-> "mixed", of |-> v]
            IN IF v.relu THEN Relu1(lin) ELSE lin
      [] OpOf(v) = "relu" -> Relu1(Meaning(v.a))
      [] OpOf(v) = "elt"  -> EltT(Meaning(v.a))
      [] OpOf(v) = "bn"   -> BnT(Meaning(v.a), v.s)

TypeOK ==
    /\ DOMAIN content = Tensors /\ DOMAIN eager = Tensors
    /\ mat \in [Tensors -> BOOLEAN]
    /\ opts \in [Wts -> {None} \cup [w: [base: WData, folds: Seq(SData)],
                                     b: Seq(SData), scale: Stats]]
    /\ lastOp \in [Tensors -> Ops]
    /\ live \subseteq Outs
    /\ calls \in 0..MaxCalls

(***************************************************************************)
(* Every read returns what eager execution of the same calls returns:     *)
(* deferring, fusing RELU into the convolution and folding BN into its    *)
(* weights (with the folded pair reused from weights.opts()) change when  *)
(* and how the work is done, never the result (spec 4.4, 8).              *)
(***************************************************************************)
ReadIsEager ==
    lastRead # None => Meaning(lastRead.val) = Meaning(lastRead.eager)


(***************************************************************************)
(* Refinement of EagerCompute.  A tensor's value is what it holds once    *)
(* every pending node has fired in enqueue order; weights and statistics  *)
(* are never targets.  Outputs the caller does not hold are Dead.         *)
(***************************************************************************)
Flushed == FireAll(content, queue)

\* The view of the contents f: values in the operator algebra.
ViewOf(f) ==
    [t \in Tensors |-> IF t \in Outs /\ t \notin live THEN Undef
                      ELSE IF t \in Wts \cup Stats THEN f[t]
                      ELSE Meaning(f[t])]

\* (The flushed contents are bound once rather than re-derived per tensor.)
EagerView == CHOOSE v \in {ViewOf(f): f \in {Flushed}}: TRUE

Eager == INSTANCE EagerCompute WITH val <- EagerView, Dead <- Undef

(***************************************************************************)
(* Every step of the web is a step of eager execution, or leaves the      *)
(* values unchanged: enqueueing (fused or not) gives the callee's dst, in *)
(* the flushed view, exactly the eager result at the moment of the call,  *)
(* and a read that fires a prefix of the queue changes no value.  This    *)
(* covers values that are never read, which ReadIsEager does not see.     *)
(***************************************************************************)
ImplementsEager == Eager!Spec

=============================================================================
