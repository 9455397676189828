---------------------------- MODULE EagerCompute ----------------------------
(***************************************************************************)
(* What the computation web promises its callers (spec 4.4 and 8): with   *)
(* or without web_opt, every convolution_forward, eltwise_forward and     *)
(* batch_normalization_forward_inference call has the effect eager        *)
(* execution has, at the moment of the call.  Deferring, fusing RELU into *)
(* a convolution and folding BN into its weights are invisible.           *)
(*                                                                         *)
(* val[t] is the value of tensor t in the algebra of the operators: a     *)
(* RELU of a RELU is that RELU.  An output the caller has passed on to a  *)
(* consumer (or never received) holds no value the caller may use: Dead. *)
(***************************************************************************)
CONSTANTS
    Inputs, Wts, Stats, Outs,   \* caller inputs, weights, BN statistics, outputs
    XData,                      \* contents of caller inputs
    Dead                        \* the value of an output the caller does not hold

VARIABLES
    val,        \* val[t]: the value of t
    live        \* the outputs the caller holds

Tensors == Inputs \cup Wts \cup Stats \cup Outs

Conv(a, w) == [op |-> "conv", x |-> a, w |-> [base |-> w, folds |-> <<>>], b |-> <<>>,
               relu |-> FALSE]
IsRelu(a) == a \notin XData \cup {Dead} /\ a.op = "relu"
Relu(a) == IF IsRelu(a) THEN a ELSE [op |-> "relu", a |-> a]
Elt(a) == [op |-> "elt", a |-> a]
Bn(a, s) == [op |-> "bn", a |-> a, s |-> s]

Init ==
    /\ DOMAIN val = Tensors
    /\ \A t \in Inputs: val[t] \in XData
    /\ \A t \in Outs: val[t] = Dead
    /\ live = {}

(***************************************************************************)
(* A call reading x and writing v into d: x, when it is an output, passes *)
(* to the callee; d is a fresh output or x itself (in place).              *)
(***************************************************************************)
Apply(x, d, v) ==
    /\ x \in Inputs \cup live
    /\ d \in Outs
    /\ d \notin live \/ d = x
    /\ live' = (live \ {x}) \cup {d}
    /\ val' = [val EXCEPT ![x] = IF x \in Outs THEN Dead ELSE @, ![d] = v]

ConvolutionForward(x, w, d) == w \in Wts /\ Apply(x, d, Conv(val[x], val[w]))

EltwiseForward(alg, s, d) ==
    Apply(s, d, IF alg = "relu" THEN Relu(val[s]) ELSE Elt(val[s]))

BatchNormInference(s, g, d) == g \in Stats /\ Apply(s, d, Bn(val[s], val[g]))

\* The caller overwrites weights or statistics with any new content.
Overwrite(t) ==
    /\ t \in Wts \cup Stats
    /\ UNCHANGED live
    /\ LET now == val
           new == val'
       IN DOMAIN new = Tensors /\ \A u \in Tensors \ {t}: new[u] = now[u]

\* A read returns val[t] and changes nothing: it is a stuttering step.
Next ==
    \/ \E x \in Tensors, w \in Wts, d \in Outs: ConvolutionForward(x, w, d)
    \/ \E alg \in {"relu", "tanh"}, s \in Tensors, d \in Outs: EltwiseForward(alg, s, d)
    \/ \E s \in Tensors, g \in Stats, d \in Outs: BatchNormInference(s, g, d)
    \/ \E t \in Wts \cup Stats: Overwrite(t)

Spec == Init /\ [][Next]_<<val, live>>

=============================================================================
