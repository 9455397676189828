------------------------------ MODULE Workspace ------------------------------
(***************************************************************************)
(* The workspace side-channel of lrn_forward / lrn_backward and           *)
(* pooling_forward / pooling_backward.  A training forward that needs a   *)
(* workspace (every training LRN, training max pooling) writes it into a  *)
(* tensor attached to dst as dst.extra; the backward reads y.extra.       *)
(*                                                                         *)
(* The forward object is cached per key and is shared by every caller of  *)
(* that key.  Its workspace output is bound by connect_handle_for only    *)
(* when execute() is given a third tensor; otherwise the output keeps the *)
(* handle bound by the previous call (nullptr on a fresh object).          *)
(*                                                                         *)
(* All activation tensors have one shape, so in-place calls are possible  *)
(* and a reinit keeps the buffer and its content.  Contents are symbolic: *)
(* a forward's result and its workspace are the record [key, of] of the   *)
(* configuration and the input content.  Gradient tensors are not         *)
(* modelled: the backward's outcome is what it read.                      *)
(***************************************************************************)
EXTENDS Naturals, FiniteSets

CONSTANTS
    Acts,       \* caller activation tensors
    Bufs,       \* workspace buffers init_extra may allocate
    Data,       \* initial contents of the activation tensors
    None,
    MaxCalls

ASSUME MaxCalls \in Nat
\* Every call allocates at most one workspace.
ASSUME Cardinality(Bufs) >= MaxCalls

VARIABLES
    data,       \* data[t]: content of activation tensor t
    extra,      \* extra[t]: the workspace buffer attached to t, or None
    wsData,     \* wsData[b]: what buffer b holds, or None (never written)
    wsDesc,     \* wsDesc[b]: the workspace descriptor b was allocated with
    bound,      \* bound[k]: buffer bound to the workspace output of k's object
    lastBwd,    \* what the last backward read, or None
    crashed,    \* the process died: a null workspace handle, or a failed assert
    calls

vars == <<data, extra, wsData, wsDesc, bound, lastBwd, crashed, calls>>

Ops == {"lrn", "pool"}

\* Forward keys: create_key holds dims, type and format (one shape here),
\* the operator's parameters, the algorithm and the propagation kind.
Keys == [op: {"lrn"}, alg: {"across"}, prop: {"training", "inference"}]
        \cup [op: {"pool"}, alg: {"max", "avg"}, prop: {"training", "inference"}]

(***************************************************************************)
(* The engine gives a forward primitive a workspace output for training   *)
(* LRN and training max pooling.                                           *)
(***************************************************************************)
HasWorkspaceOutput(k) ==
    k.prop = "training" /\ (k.op = "lrn" \/ k.alg = "max")

\* expected_workspace_descriptor: an LRN workspace and a pooling one differ.
WsDescOf(k) == k.op

(***************************************************************************)
(* The backward object is built with the forward as hint; the engine's    *)
(* hint is a training forward, so a backward LRN always takes the         *)
(* workspace as an input and a backward pooling does for max pooling      *)
(* (num_of_inputs() is 3 for LRN, 2 for pooling).                         *)
(***************************************************************************)
BwdTakesWorkspace(op, alg) == op = "lrn" \/ alg = "max"

Init ==
    /\ data \in [Acts -> Data]
    /\ extra = [t \in Acts |-> None]
    /\ wsData = [b \in Bufs |-> None]
    /\ wsDesc = [b \in Bufs |-> None]
    /\ bound = [k \in Keys |-> None]
    /\ lastBwd = None
    /\ crashed = FALSE
    /\ calls = 0

\* The buffer the next init_extra allocates.
NextBuf == CHOOSE b \in Bufs: wsDesc[b] = None

\* Mutant: pooling's condition used for LRN too.
WithWorkspacePoolRule(k) == k.prop = "training" /\ k.alg = "max"

(***************************************************************************)
(* with_workspace in lrn_forward::compute (every training call) and       *)
(* pooling_forward::compute (training max pooling).                        *)
(***************************************************************************)
WithWorkspace(k) ==
    k.prop = "training" /\ (k.op = "lrn" \/ k.alg = "max")

\* Mutant: init_extra only for a dst that has no extra yet.
DstExtraReuse(k, s, d, b) ==
    IF d # s /\ WithWorkspace(k) /\ extra[d] = None THEN b ELSE extra[d]

(***************************************************************************)
(* "if (dst != src) { dst.reinit(...); if (with_workspace)                *)
(* dst.init_extra(...); }": the extra dst has when do_compute runs.  A    *)
(* reinit alone keeps the extra (tensor::reinit only resets the buffer).  *)
(***************************************************************************)
DstExtra(k, s, d, b) ==
    IF d # s /\ WithWorkspace(k) THEN b ELSE extra[d]

(***************************************************************************)
(* The forward's execute(src, dst): with dst.has_extra(), execute(src,   *)
(* dst, *dst.get_extra()), whose connect_handle_for(2, extra) binds the   *)
(* workspace output -- or throws std::out_of_range at inouts_.at(2) when  *)
(* the object has no workspace output.  Its assert that the extra has the *)
(* expected workspace descriptor aborts a debug build and is compiled out *)
(* of a release build.  Without an extra, execute(src, dst) binds src and *)
(* dst only.  Outcomes [ok, abort, ws, bind]: ws is the buffer the        *)
(* primitive writes its workspace into (None: a null handle), bind the    *)
(* handle left bound to the workspace output.  eDesc is the extra's       *)
(* descriptor.                                                             *)
(***************************************************************************)
ExecuteForward(k, e, eDesc) ==
    LET run(w) == [ok |-> TRUE, abort |-> FALSE, ws |-> w, bind |-> w]
    IN IF e = None THEN {run(bound[k])}
       ELSE IF ~HasWorkspaceOutput(k)
            THEN {[ok |-> FALSE, abort |-> FALSE, ws |-> None, bind |-> bound[k]]}
       ELSE IF eDesc = WsDescOf(k) THEN {run(e)}
       ELSE {[ok |-> FALSE, abort |-> TRUE, ws |-> None, bind |-> bound[k]], run(e)}

(***************************************************************************)
(* lrn_forward::compute and pooling_forward::compute, eager path, from    *)
(* src s into dst d (d = s is the in-place call): key and fetch, then the *)
(* reinit and init_extra of a distinct dst, then do_compute.  A primitive *)
(* whose workspace output is bound to nullptr crashes the process.        *)
(***************************************************************************)
ForwardCompute(k, s, d) ==
    /\ ~crashed
    /\ calls < MaxCalls
    /\ LET b     == NextBuf
           e     == DstExtra(k, s, d, b)
           eDesc == IF e = b THEN WsDescOf(k) ELSE IF e = None THEN None ELSE wsDesc[e]
           out   == [key |-> k, of |-> data[s]]
       IN \E r \in ExecuteForward(k, e, eDesc):
          /\ extra' = [extra EXCEPT ![d] = e]
          /\ wsDesc' = IF e = b THEN [wsDesc EXCEPT ![b] = WsDescOf(k)] ELSE wsDesc
          /\ bound' = [bound EXCEPT ![k] = r.bind]
          /\ crashed' = (r.abort \/ (r.ok /\ HasWorkspaceOutput(k) /\ r.ws = None))
          /\ data' = IF r.ok /\ ~crashed' THEN [data EXCEPT ![d] = out] ELSE data
          /\ wsData' = IF r.ok /\ ~crashed' /\ HasWorkspaceOutput(k)
                       THEN [wsData EXCEPT ![r.ws] = out] ELSE wsData
    /\ lastBwd' = None
    /\ calls' = calls + 1

LrnForwardCompute(prop, s, d) ==
    ForwardCompute([op |-> "lrn", alg |-> "across", prop |-> prop], s, d)

PoolingForwardCompute(alg, prop, s, d) ==
    ForwardCompute([op |-> "pool", alg |-> alg, prop |-> prop], s, d)

(***************************************************************************)
(* lrn_backward::compute and pooling_backward::compute, eager path, for   *)
(* the output y of a forward: execute(x, grady, *y.get_extra(), gradx)    *)
(* (LRN) or execute(grady_in, *y.get_extra(), gradx) (max pooling), and   *)
(* no workspace for average pooling.  pooling_backward's reorder of grady *)
(* into x's format changes no content.  A missing extra is a null         *)
(* dereference.                                                            *)
(***************************************************************************)
BackwardCompute(op, alg, y) ==
    /\ ~crashed
    /\ calls < MaxCalls
    /\ IF BwdTakesWorkspace(op, alg) /\ extra[y] = None
       THEN /\ crashed' = TRUE
            /\ lastBwd' = None
       ELSE /\ crashed' = FALSE
            /\ lastBwd' = IF BwdTakesWorkspace(op, alg)
                          THEN [ws |-> wsData[extra[y]], y |-> data[y]]
                          ELSE None
    /\ calls' = calls + 1
    /\ UNCHANGED <<data, extra, wsData, wsDesc, bound>>

LrnBackwardCompute(y) == BackwardCompute("lrn", "across", y)

PoolingBackwardCompute(alg, y) == BackwardCompute("pool", alg, y)

(***************************************************************************)
(* The caller's protocol: a backward is asked for the output of a         *)
(* training forward of the same operator and algorithm.                    *)
(***************************************************************************)
ProducedBy(y, op, alg) ==
    data[y] \notin Data
    /\ data[y].key = [op |-> op, alg |-> alg, prop |-> "training"]

\* The bound on calls is reached, or the process has crashed.
Done == (calls = MaxCalls \/ crashed) /\ UNCHANGED vars

\* InPlace: whether a training forward may be called in place.
NextWith(InPlace) ==
    \/ \E prop \in {"training", "inference"}, s, d \in Acts:
          /\ InPlace \/ d # s \/ prop = "inference"
          /\ LrnForwardCompute(prop, s, d)
    \/ \E alg \in {"max", "avg"}, prop \in {"training", "inference"}, s, d \in Acts:
          /\ InPlace \/ d # s \/ prop = "inference"
          /\ PoolingForwardCompute(alg, prop, s, d)
    \/ \E y \in Acts: ProducedBy(y, "lrn", "across") /\ LrnBackwardCompute(y)
    \/ \E alg \in {"max", "avg"}, y \in Acts:
          ProducedBy(y, "pool", alg) /\ PoolingBackwardCompute(alg, y)
    \/ Done

\* Every call the code accepts.
Next == NextWith(TRUE)
Spec == Init /\ [][Next]_vars

\* Training forwards only out of place.
OutOfPlaceNext == NextWith(FALSE)
OutOfPlaceSpec == Init /\ [][OutOfPlaceNext]_vars

TypeOK ==
    /\ extra \in [Acts -> Bufs \cup {None}]
    /\ wsDesc \in [Bufs -> Ops \cup {None}]
    /\ bound \in [Keys -> Bufs \cup {None}]
    /\ crashed \in BOOLEAN
    /\ calls \in 0..MaxCalls

(***************************************************************************)
(* Every backward that takes a workspace reads the one written by the     *)
(* forward that produced y -- same configuration, same input -- whatever  *)
(* other forwards of the same cached object ran in between.               *)
(***************************************************************************)
BackwardReadsOwnWorkspace ==
    lastBwd # None => lastBwd.ws = lastBwd.y

(***************************************************************************)
(* No call takes the process down: no primitive runs with a null          *)
(* workspace handle (a forward whose object's workspace output was never  *)
(* bound, a backward on an output without an extra), and no forward binds *)
(* a workspace of another descriptor (the assert in connect_handle_for).  *)
(***************************************************************************)
NoAbort == ~crashed

=============================================================================
