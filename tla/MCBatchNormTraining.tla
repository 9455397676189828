------------------------- MODULE MCBatchNormTraining -------------------------
(***************************************************************************)
(* Layers L1 and L2 normalise sources of the same shape with the same     *)
(* epsilon and different momenta; L3 has another shape.                    *)
(***************************************************************************)
EXTENDS BatchNormTraining

CONSTANTS L1, L2, L3, S1, S2, E1, M1, M2, B1, B2

MCLayers == {L1, L2, L3}
MCShapeOf == (L1 :> S1) @@ (L2 :> S1) @@ (L3 :> S2)
MCEpsOf == [l \in MCLayers |-> E1]
MCMomentumOf == (L1 :> M1) @@ (L2 :> M2) @@ (L3 :> M2)
MCBatches == {B1, B2}

=============================================================================
