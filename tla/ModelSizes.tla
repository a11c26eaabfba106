------------------------------ MODULE ModelSizes ------------------------------
(***************************************************************************)
(* The sizes of the model, as every script of src/scripts derives them     *)
(* from text_config: widths, parameters, multiplications, and the bytes of *)
(* weights and of state.  A constant module, so that it can be instantiated*)
(* with any configuration.                                                 *)
(***************************************************************************)
EXTENDS Integers, FiniteSets

CONSTANT Text   \* text_config: the record of the model's dimensions

NLayers == Text.num_hidden_layers
Layers == 0 .. NLayers - 1
Bf16 == 2
F32 == 4

\* The layers whose type is full attention, as the interval gives them.
FullLayers ==
    {l \in Layers : l % Text.full_attention_interval
                        = Text.full_attention_interval - 1}
LinearLayers == Layers \ FullLayers
MtpBlocks == Text.mtp_num_hidden_layers

\* The widths.
H == Text.hidden_size
QkvWidth == (2 * Text.linear_num_key_heads + Text.linear_num_value_heads)
                * Text.linear_key_head_dim
ZWidth == Text.linear_num_value_heads * Text.linear_value_head_dim
Delay == Text.linear_conv_kernel_dim - 1
GWidth == Text.num_attention_heads * Text.head_dim
KvWidth == Text.num_key_value_heads * Text.head_dim

MacFullProj == 2 * GWidth * H + KvWidth * H + KvWidth * H + H * GWidth
MacAttnCoeff == 2 * GWidth
MacLinToken ==
    QkvWidth * H + ZWidth * H + 2 * Text.linear_num_value_heads * H
      + QkvWidth * Text.linear_conv_kernel_dim
      + 3 * Text.linear_num_value_heads * Text.linear_key_head_dim
          * Text.linear_value_head_dim
      + H * ZWidth
MacMlp == 3 * Text.intermediate_size * H
MacLmHead == Text.vocab_size * H
MacMtpFc == H * (2 * H)

\* Parameters of a linear-attention mixer and of a full-attention one.
LinParams ==
    QkvWidth * H + ZWidth * H + 2 * Text.linear_num_value_heads * H
      + QkvWidth * Text.linear_conv_kernel_dim
      + 2 * Text.linear_num_value_heads + Text.linear_value_head_dim
      + H * ZWidth
FullParams == 2 * GWidth * H + 2 * KvWidth * H + H * GWidth
                + 2 * Text.head_dim

\* State bytes of one layer: keys and values of one token, the convolution
\* delay line, and the recurrent state.
KvBytes == 2 * KvWidth * Bf16
CBytes == Delay * QkvWidth * Bf16
SBytes == Text.linear_num_value_heads * Text.linear_key_head_dim
            * Text.linear_value_head_dim * F32

\* The totals.
NFull == Cardinality(FullLayers)
NLinear == Cardinality(LinearLayers)

MacC ==
    NLinear * MacLinToken + NFull * MacFullProj + NLayers * MacMlp + MacLmHead
      + (MacMtpFc + MacFullProj + MacMlp + MacLmHead)
MacA == NFull * MacAttnCoeff + MacAttnCoeff
DecodeMac(T) == MacC + MacA * T
PrefillMac(T) == MacC * T + (MacA * T * (T + 1)) \div 2
PrefillMacLast(T) == PrefillMac(T) - 2 * (T - 1) * MacLmHead

MtpParams == H * (2 * H) + 5 * H + FullParams + 3 * Text.intermediate_size * H
UniqueBytes ==
    (H + Text.vocab_size * H + 2 * NLayers * H + NLinear * LinParams
      + NFull * FullParams + NLayers * 3 * Text.intermediate_size * H
      + MtpParams) * Bf16
GatherBytes == 2 * H * Bf16

KvAll == (NFull + MtpBlocks) * KvBytes
CWriteAll == NLinear * QkvWidth * Bf16
CReadAll == NLinear * CBytes
SAll == NLinear * SBytes
StorageBytes(T) == KvAll * T + CReadAll + SAll

=============================================================================
