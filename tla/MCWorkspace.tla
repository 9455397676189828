---------------------------- MODULE MCWorkspace ----------------------------
(***************************************************************************)
(* Three activation tensors holding two contents, so that an in-place     *)
(* call, a distinct dst and a third caller of the same cached object all  *)
(* occur; one workspace buffer per call.                                  *)
(***************************************************************************)
EXTENDS Workspace

CONSTANTS A1, A2, A3, D1, D2, B1, B2, B3, B4, B5

MCActs == {A1, A2, A3}
MCData == {D1, D2}
MCBufs == {B1, B2, B3, B4, B5}

=============================================================================
