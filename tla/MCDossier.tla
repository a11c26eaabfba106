------------------------------ MODULE MCDossier ------------------------------
(* A small model: equal where the real one is (key and value head width),    *)
(* even where a change halves a dimension.  The drifts double one dimension, *)
(* or double one and halve another, so that products of the two stay.        *)
EXTENDS Dossier

MCSitting ==
    [num_hidden_layers |-> 4, full_attention_interval |-> 2,
     full_layers |-> {1, 3}, hidden_size |-> 8, intermediate_size |-> 12,
     vocab_size |-> 10, num_attention_heads |-> 4, num_key_value_heads |-> 2,
     head_dim |-> 4, linear_num_key_heads |-> 2, linear_num_value_heads |-> 4,
     linear_key_head_dim |-> 2, linear_value_head_dim |-> 2,
     linear_conv_kernel_dim |-> 4, mtp_num_hidden_layers |-> 1,
     max_position_embeddings |-> 16, rotary_divisor |-> 2, rms_norm_eps |-> 1,
     dtype |-> "bfloat16", mamba_ssm_dtype |-> "float32",
     attn_output_gate |-> TRUE]

Dimensions ==
    <<"hidden_size", "intermediate_size", "vocab_size", "num_attention_heads",
      "num_key_value_heads", "head_dim", "linear_num_key_heads",
      "linear_num_value_heads", "linear_key_head_dim", "linear_value_head_dim",
      "linear_conv_kernel_dim", "max_position_embeddings", "rotary_divisor",
      "rms_norm_eps", "mtp_num_hidden_layers">>

\* Two dimensions that are multiplied in some quantity the scripts assert.
Factors ==
    <<<<"intermediate_size", "hidden_size">>, <<"vocab_size", "hidden_size">>,
      <<"num_attention_heads", "num_key_value_heads">>,
      <<"num_attention_heads", "head_dim">>, <<"num_key_value_heads", "head_dim">>,
      <<"linear_num_key_heads", "linear_num_value_heads">>,
      <<"linear_num_key_heads", "linear_key_head_dim">>,
      <<"linear_num_value_heads", "linear_key_head_dim">>,
      <<"linear_num_value_heads", "linear_value_head_dim">>,
      <<"linear_key_head_dim", "linear_value_head_dim">>>>

Doubled(c, f) == [c EXCEPT ![f] = 2 * @]
Halved(c, f) == [c EXCEPT ![f] = @ \div 2]

\* layer_types follows the interval and the depth.
Deeper == [MCSitting EXCEPT !.num_hidden_layers = 8,
                            !.full_layers = {1, 3, 5, 7}]
Sparser == [MCSitting EXCEPT !.full_attention_interval = 4, !.full_layers = {3}]
Stretched == [Deeper EXCEPT !.full_attention_interval = 4,
                            !.full_layers = {3, 7}]

MCConfigurations ==
    <<MCSitting, Deeper, Sparser, Stretched,
      [MCSitting EXCEPT !.full_layers = {0, 2}],
      [MCSitting EXCEPT !.dtype = "float16"],
      [MCSitting EXCEPT !.mamba_ssm_dtype = "bfloat16"],
      [MCSitting EXCEPT !.attn_output_gate = FALSE]>>
      \o [i \in DOMAIN Dimensions |-> Doubled(MCSitting, Dimensions[i])]
      \o [i \in DOMAIN Factors |->
            Halved(Doubled(MCSitting, Factors[i][1]), Factors[i][2])]
      \o [i \in DOMAIN Factors |->
            Halved(Doubled(MCSitting, Factors[i][2]), Factors[i][1])]

MCEditNames == {"mtp_num_hidden_layers", "n_language_mtp_parameters", "head_dim",
                "s_f32_bytes", "s_bytes_all", "compiler_profile_ids",
                "frozen_for_comparative_review", "selected"}
MCEditFaults == {"Claim", "BesideWrapper", "Tokens", "Headings"}
MCEditDocs == {"inventory", "semantics", "tensors", "numerical", "compiler",
               "hardware", "validation", "architecture", "backlog"}
=============================================================================
