----------------------------- MODULE Computation -----------------------------
(***************************************************************************)
(* A computation object (struct computation / primitive_group in           *)
(* computations.hpp): an engine primitive with input slots, built once for *)
(* a configuration and then executed many times against caller buffers.   *)
(*                                                                         *)
(* At construction the engine chooses the layout it wants for each input   *)
(* ("expected"); when the caller's construction-time layout ("provided")   *)
(* differs, a reorder is attached to the slot and inouts_[i] is given the  *)
(* provided descriptor.  At execution connect_handle_for binds each caller *)
(* buffer either to the reorder's input (layout = provided) or, by a       *)
(* "destructional move" that throws the reorder away, directly to the      *)
(* primitive's input (layout = expected).                                  *)
(*                                                                         *)
(* Data is abstracted to a layout tag and a logical content: a reorder    *)
(* keeps the content and changes the layout.  The object is a record and  *)
(* the module defines operators only, so that a cache of objects          *)
(* (ConvFamily) can hold several of them and run the operations on them.  *)
(***************************************************************************)
EXTENDS Naturals

CONSTANTS
    Layouts,    \* memory-layout tags (e.g. plain nchw and a blocked format)
    Data,       \* logical tensor contents
    NoData,     \* a buffer that holds no caller data (unbound or just allocated)
    None        \* no execution has happened yet

\* primitive_group::execute schedules reorders for inputs 0 and 1 only
\* ("TODO: varadic needed"); every create_reorder_pds call passes two
\* descriptors, so these are the only slots that can carry a reorder.
Slots == 0..1

Tensor == [layout: Layouts, data: Data]
Content == Tensor \cup {NoData}

Obj == [expected: [Slots -> Layouts],   \* primitive_inputs_[i] descriptor
        inout:    [Slots -> Layouts],   \* inouts_[i] descriptor
        aux:      [Slots -> BOOLEAN],   \* auxiliaries_[i] (reorder) present
        src:      [Slots -> Content],   \* buffer bound to inouts_[i]
        prim:     [Slots -> Content]]   \* buffer bound to primitive_inputs_[i]

ExecRecord == [ok: BOOLEAN, args: [Slots -> Tensor],
               expected: [Slots -> Layouts], read: [Slots -> Content]]

(***************************************************************************)
(* descriptor_group::create_reorder_pds: a reorder descriptor is created   *)
(* for input i exactly when the engine's layout differs from the provided. *)
(***************************************************************************)
NeedsReorder(provided, expected, i) == expected[i] # provided[i]

(***************************************************************************)
(* computation::init: init_internal gives every slot the engine's layout, *)
(* then connect_reorder_for replaces inouts_[i] by the provided descriptor *)
(* and creates the reorder for every slot that needs one.                  *)
(***************************************************************************)
Construct(provided, expected) ==
    [expected |-> expected,
     inout    |-> [i \in Slots |-> IF NeedsReorder(provided, expected, i)
                                   THEN provided[i] ELSE expected[i]],
     aux      |-> [i \in Slots |-> NeedsReorder(provided, expected, i)],
     src      |-> [i \in Slots |-> NoData],
     prim     |-> [i \in Slots |-> NoData]]

(***************************************************************************)
(* A reorder writes the content of its input into its output in the       *)
(* output's layout; from a buffer with no data it produces no data.        *)
(***************************************************************************)
Reorder(c, layout) ==
    IF c = NoData THEN NoData ELSE [layout |-> layout, data |-> c.data]

(***************************************************************************)
(* computation::connect_handle_for(index, atensor) for an input index.    *)
(* The outcomes are records [ok, obj]; ok = FALSE is the thrown "Cannot   *)
(* accept incompatible input" or a failed assert.                          *)
(*  - inouts_ differs from primitive_inputs_ (a reorder was attached):    *)
(*    . tensor has the inouts_ layout: bind it as the reorder's source;   *)
(*      primitive_inputs_.materialize() keeps whatever buffer it has;     *)
(*    . tensor has the engine layout: destructional move, bind it to the  *)
(*      primitive and reset the reorder;                                  *)
(*    . otherwise: throw.                                                  *)
(*  - else (no reorder): assert the layouts agree and bind the buffer to  *)
(*    the shared memory; a debug build aborts on a mismatch, a release    *)
(*    build binds it anyway.                                               *)
(***************************************************************************)
ConnectInput(o, i, t) ==
    IF o.inout[i] # o.expected[i]
    THEN CASE o.inout[i] = t.layout ->
                {[ok |-> TRUE, obj |-> [o EXCEPT !.src[i] = t]]}
           [] o.expected[i] = t.layout ->
                {[ok |-> TRUE, obj |-> [o EXCEPT !.prim[i] = t, !.aux[i] = FALSE]]}
           [] OTHER ->
                {[ok |-> FALSE, obj |-> o]}
    ELSE IF o.inout[i] = t.layout
         THEN {[ok |-> TRUE, obj |-> [o EXCEPT !.prim[i] = t]]}
         ELSE {[ok |-> FALSE, obj |-> o],
               [ok |-> TRUE, obj |-> [o EXCEPT !.prim = [j \in Slots |->
                                                  IF j = i THEN t ELSE o.prim[j]]]]}

(***************************************************************************)
(* primitive_group::execute: the reorders still attached run first, then  *)
(* the primitive reads its input buffers.                                  *)
(***************************************************************************)
RunPrimitive(o) ==
    [o EXCEPT !.prim = [i \in Slots |->
                          IF o.aux[i] THEN Reorder(o.src[i], o.expected[i])
                                      ELSE o.prim[i]]]

(***************************************************************************)
(* computation::execute(arg0, args...): connect input 0, then input 1 (a  *)
(* throw at input 1 leaves input 0 already rebound), then run.  Outcomes  *)
(* are records [ok, obj]; on success obj.prim is what the primitive read. *)
(***************************************************************************)
ExecuteOn(o, t) ==
    UNION {IF ~r0.ok THEN {r0}
           ELSE {IF r1.ok THEN [ok |-> TRUE, obj |-> RunPrimitive(r1.obj)]
                          ELSE r1 : r1 \in ConnectInput(r0.obj, 1, t[1])}
           : r0 \in ConnectInput(o, 0, t[0])}

\* The record of one execution, as the primitive saw it.
Observe(r, t) ==
    [ok |-> r.ok, args |-> t, expected |-> r.obj.expected, read |-> r.obj.prim]

(***************************************************************************)
(* Every successful execute() has the primitive read, at every input, the *)
(* caller's data in the engine's layout: either the caller's buffer       *)
(* directly or the attached reorder's output.  This is what               *)
(* connect_handle_for and primitive_group::execute promise together; the  *)
(* comment at the destructional move ("assume we never change back") is  *)
(* the caller discipline it relies on.                                     *)
(***************************************************************************)
ReadsCallerData(e) ==
    e.ok => \A i \in Slots:
               e.read[i] = [layout |-> e.expected[i], data |-> e.args[i].data]

=============================================================================
