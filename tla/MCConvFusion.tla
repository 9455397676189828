----------------------------- MODULE MCConvFusion -----------------------------
EXTENDS ConvFusion, TLC

CONSTANTS X, W, G1, G2, Y1, Y2, XA, WA, WB, SA, SB

MCXData == {XA}
MCWData == {WA, WB}
MCSData == {SA, SB}

\* A conv-bn-relu network: convolutions on inputs and activations, each
\* followed by BN and/or an activation.
ConvBnRelu ==
    {<<"input", "conv">>, <<"relu", "conv">>, <<"elt", "conv">>,
     <<"conv", "bn">>, <<"conv", "relu">>, <<"conv", "elt">>,
     <<"bn", "relu">>, <<"bn", "elt">>}

\* A network without BN: convolutions and activations only.
ConvRelu ==
    {<<"input", "conv">>, <<"relu", "conv">>, <<"elt", "conv">>,
     <<"conv", "relu">>, <<"conv", "elt">>}

\* BN after the activation (conv -> relu -> bn).
ReluBn == ConvBnRelu \cup {<<"relu", "bn">>}
=============================================================================
