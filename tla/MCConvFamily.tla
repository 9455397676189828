--------------------------- MODULE MCConvFamily ---------------------------
(* Three layouts -- nc, nchw and a blocked 4-D layout -- two contents,    *)
(* and two configurations of every operator, sharing their operator's    *)
(* cache of capacity one.  The engine wants a blocked layout for some     *)
(* inputs and a plain one for others, so both negotiation outcomes occur  *)
(* at every slot of the convolution operators.                             *)
EXTENDS ConvFamily, TLC

CONSTANTS Nc, Nchw, Blocked, D1, D2, C1, C2

MCLayouts == {Nc, Nchw, Blocked}
MCData == {D1, D2}
MCRank == (Nc :> 2) @@ (Nchw :> 4) @@ (Blocked :> 4)
MCPublicOf == (2 :> Nc) @@ (4 :> Nchw)
\* A key is an operator and one of two configurations of it.
MCKeys == Ops \X {C1, C2}
MCKeyOp == [k \in MCKeys |-> k[1]]

Pair(a, b) == (0 :> a) @@ (1 :> b)
IpOps == {"ip_fwd", "ip_bwd_data", "ip_bwd_weights"}

(* Convolution operators: C1 wants both inputs blocked, C2 a blocked     *)
(* first input and plain second one.  Inner product: C1 is the 4-D case, *)
(* C2 the 2-D one; the engine wants the public layout of every input an  *)
(* inner product may reshape, and a blocked x for backward weights.       *)
(* Concat: C1 holds a blocked input 0 and a plain input 1, which the     *)
(* alignment reorders; C2 holds two plain inputs.  The engine takes the   *)
(* aligned formats.  BN and eltwise backward: C1 holds a blocked src, C2  *)
(* a plain one; the engine takes src's format for src and grady.          *)
MCKeyFormats ==
    [k \in MCKeys |-> IF k[2] = C1 THEN Pair(Blocked, Nchw) ELSE Pair(Nchw, Nchw)]
MCEngineLayout ==
    [k \in MCKeys |->
        CASE k[1] \in {"concat", "bn_bwd", "eltwise_bwd"} -> LET f == MCKeyFormats[k][0] IN Pair(f, f)
          [] k[1] \notin IpOps -> IF k[2] = C1 THEN Pair(Blocked, Blocked)
                                              ELSE Pair(Blocked, Nchw)
          [] k[2] = C2         -> Pair(Nc, Nc)
          [] k[1] = "ip_fwd"      -> Pair(Nchw, Nchw)
          [] k[1] = "ip_bwd_data" -> Pair(Nc, Nchw)
          [] OTHER                -> Pair(Blocked, Nc)]
MCKeyRank == [k \in MCKeys |-> [i \in Slots |-> MCRank[MCEngineLayout[k][i]]]]

(* The operators' caches are disjoint and no state is shared between     *)
(* them, so behaviours that call one operator only are explored.          *)
OneOperator == \A a, b \in Ops: lru[a] # <<>> /\ lru[b] # <<>> => a = b
\* Contents are only compared for equality: D1 and D2 are interchangeable.
DataSymmetry == Permutations(MCData)
=============================================================================
