-------------------------- MODULE ExpectedWeights --------------------------
(***************************************************************************)
(* convolution_forward::expected_weights_descriptor(weights_dims, dtype,  *)
(* strides, padding_l, padding_r, dilates, group): the weights layout the *)
(* engine wants, found by building a dummy convolution around the         *)
(* weights.  The dummy input is 1 x ic x 2kh x 4kw; its output height and *)
(* width follow the convolution formula with the caller's strides,        *)
(* paddings and dilations, in C++ int arithmetic.                          *)
(*                                                                         *)
(* Only the spatial arithmetic is modelled.  The channel dims (ic, oc, the *)
(* grouping of 4-D weights) reach the dummy unchanged and are left out;   *)
(* so are the descriptors built from the dims, which the engine checks.   *)
(***************************************************************************)
EXTENDS Integers

CONSTANTS
    Kernels,      \* kernel heights and widths (the last two weights dims)
    Dilates,      \* caller dilations, per axis
    Pads,         \* padding_l and padding_r, per axis
    Strides,      \* strides, per axis
    None

ASSUME Kernels \subseteq Nat \ {0} /\ Strides \subseteq Nat \ {0}
ASSUME Pads \subseteq Nat /\ Dilates \subseteq Int

Axes == 1..2      \* height, width

VARIABLE dummy    \* the last call's arguments and dummy shapes, or None

\* C++ '/' on int truncates toward zero; \div floors.
CDiv(a, b) == IF a >= 0 THEN a \div b ELSE -((-a) \div b)

(***************************************************************************)
(* dilates_in: the caller's dilations minus one when every one of them is *)
(* positive, otherwise no dilation at all.                                 *)
(***************************************************************************)
DilatesIn(dil) ==
    IF \A i \in Axes: dil[i] > 0 THEN [i \in Axes |-> dil[i] - 1]
                                ELSE [i \in Axes |-> 0]

\* The dummy input's spatial dims: h = 2 * kh, w = 4 * kw.
DummyIn(k) == <<2 * k[1], 4 * k[2]>>

\* The extent of a kernel of size k with dilation d (engine convention).
Extent(k, d) == (k - 1) * (d + 1) + 1

(***************************************************************************)
(* oh = (h - ((kh - 1) * (dilates_in[0] + 1) + 1)                         *)
(*       + (padding_l[0] + padding_r[0])) / strides[0] + 1, and ow alike.  *)
(***************************************************************************)
DummyOut(k, st, pl, pr, dil) ==
    LET din == DilatesIn(dil)
    IN [i \in Axes |-> CDiv(DummyIn(k)[i] - Extent(k[i], din[i]) + pl[i] + pr[i],
                            st[i]) + 1]

Init == dummy = None

\* One call of expected_weights_descriptor with the given spatial arguments.
ExpectedWeightsDescriptor(k, st, pl, pr, dil) ==
    dummy' = [kernel |-> k, strides |-> st, padL |-> pl, padR |-> pr,
              dilates |-> dil, in |-> DummyIn(k), out |-> DummyOut(k, st, pl, pr, dil)]

Next ==
    \E k \in Kernels \X Kernels, st \in Strides \X Strides,
       pl, pr \in Pads \X Pads, dil \in Dilates \X Dilates:
        ExpectedWeightsDescriptor(k, st, pl, pr, dil)

Spec == Init /\ [][Next]_dummy

(***************************************************************************)
(* Every argument list is a convolution the engine builds for an input    *)
(* large enough (spec 6), and callers pass the arguments of the           *)
(* convolution they will run.  The dummy convolution built for it must    *)
(* then have a non-empty output, or the dummy's descriptors are invalid   *)
(* and the call fails for a valid convolution.                             *)
(***************************************************************************)
DummyOutputNonEmpty == dummy # None => \A i \in Axes: dummy.out[i] >= 1

=============================================================================
