---------------------------- MODULE DossierScripts ----------------------------
(***************************************************************************)
(* What each checker script of src/scripts publishes and holds fixed.  For *)
(* every document of the dossier:                                          *)
(*   ...States   the keys its first JSON fence states that another fence   *)
(*               states too, under the same or another name;               *)
(*   ...Locks    the quantities the script asserts to have the value they  *)
(*               have in the sitting model;                                *)
(*   ...Refuses  the faults of the surrounding text it refuses.            *)
(* Keys and quantities are the names of the scripts.  Of the catalogues    *)
(* (node ids, stage kinds, recipes, mappings, risks) one name stands for   *)
(* the list and its count.  "selected" stands for the ..._selected flags.  *)
(***************************************************************************)

\* Faults of a document's text: headings out of the required list, fence keys
\* out of order, a forbidden token (TODO, TBD), the word UNKNOWN outside the
\* deferred vision section, a missing, second or misplaced diagram, a canonical
\* sentence missing, a required id, number, citation or equation tag missing.
TextFaults == {"Headings", "Order", "Forbidden", "Unknown", "Diagram", "Sentence",
               "Tokens"}
Sectioned == {"Headings", "Order", "Forbidden"}

\* How a phrase that names a winner occurs: as a claim, inside an allowed wording
\* ("not a selected winner"), or as a claim on a line that also holds an allowed
\* wording.  ...Allows are the occurrences a design document's script lets pass.
Wordings == {"Claim", "Negated", "BesideWrapper"}

\* The shape of the decoder, which every instantiated fence repeats.
Shape == {"hidden_size", "n_decoder_layers", "n_linear_layers", "n_full_layers",
          "n_mtp_blocks", "full_attention_indices"}
Outer == Shape \cup {"intermediate_size", "vocab_size"}
KvShape == {"n_full_layers_with_kv", "n_kv_heads", "n_attn_heads", "head_dim"}
GdnShape == {"linear_num_value_heads", "linear_key_head_dim",
             "linear_value_head_dim"}
Weights == {"n_language_mtp_parameters", "weight_bytes_language_mtp_excl_vision",
            "weight_bytes_unique_non_embed"}
LayerMacs == {"mac_full_proj_per_layer", "mac_lin_token_per_layer",
              "mac_mlp_per_layer", "mac_lm_head"}

\* What every _assert_identities but those of the semantics and the dataflow
\* fixes first: the layer counts, the indices and the two dtypes.
CountLocks == {"n_linear_layers", "n_full_layers", "n_mtp_blocks",
               "full_attention_indices", "dtype", "mamba_ssm_dtype"}
WeightLocks == Weights \cup {"mlp_n", "embed_n", "linear_attn_bytes",
                             "self_attn_bytes"}

-----------------------------------------------------------------------------
InventoryStates == {"dtype", "n_tensors", "n_shards", "n_parameters", "n_bytes"}
InventoryRefuses == {}

SemanticsStates ==
    (Outer \ {"n_decoder_layers", "n_mtp_blocks"})
      \cup {"num_hidden_layers", "mtp_num_hidden_layers", "num_key_value_heads",
            "num_attention_heads", "head_dim", "linear_num_key_heads",
            "linear_num_value_heads", "linear_key_head_dim",
            "linear_value_head_dim", "linear_conv_kernel_dim",
            "linear_conv_delay", "linear_qkv_width", "linear_z_width",
            "gqa_group_size", "linear_kv_repeat", "rotary_dim"}
SemanticsLocks == {"rotary_dim", "linear_qkv_by_role", "linear_z_width",
                   "linear_kv_repeat", "gqa_group_size", "n_full_layers",
                   "n_linear_layers", "full_attention_indices",
                   "linear_conv_delay", "head_dim", "attn_output_gate",
                   "mamba_ssm_dtype"}
SemanticsRefuses == Sectioned \cup {"Unknown", "Tokens"}

DataflowStates == Shape \cup {"catalog_ids"}
DataflowLocks == {"full_attention_indices"}
DataflowRefuses == Sectioned \cup {"Unknown", "Diagram", "Sentence", "Tokens"}

LifetimeStates ==
    Shape \cup {"n_full_layers_with_kv", "n_kv_heads", "head_dim",
                "linear_conv_delay", "linear_qkv_width",
                "kv_bytes_all_per_token", "c_bytes_all", "s_bytes_all",
                "storage_kv_bytes_coeff_T", "decode_read_kv_bytes_coeff_Tm1",
                "storage_fixed_bytes", "decode_read_fixed_bytes", "catalog_ids"}
LifetimeLocks == {"n_full_layers_with_kv", "full_attention_indices", "dtype",
                  "mamba_ssm_dtype", "kv_elems_per_full_layer",
                  "kv_bytes_all_per_token", "c_bytes_all", "s_bytes_all"}
LifetimeRefuses == DataflowRefuses

\* The fence of the tensor analysis comes from a scan of all payload bytes; its
\* script is not part of a sweep.
TensorStates == {"dtype", "n_language_mtp_parameters", "n_tensors", "n_shards",
                 "n_parameters", "n_bytes", "n_language_mtp_tensors",
                 "n_vision_tensors", "n_vision_parameters", "pooled_absmax"}

WorkStates ==
    Outer \cup KvShape \cup GdnShape \cup LayerMacs
      \cup {"linear_conv_kernel_dim", "linear_qkv_width", "linear_z_width",
            "weight_bytes_language_mtp_excl_vision",
            "weight_bytes_unique_non_embed", "mac_C_complete", "mac_A_complete",
            "kv_bytes_all_per_token", "c_bytes_all", "s_bytes_all",
            "storage_kv_bytes_coeff_T", "decode_read_kv_bytes_coeff_Tm1",
            "storage_fixed_bytes", "decode_read_fixed_bytes", "catalog_ids",
            "logits_bytes"}
WorkLocks ==
    (CountLocks \ {"mamba_ssm_dtype"}) \cup LayerMacs \cup WeightLocks
      \cup {"n_full_layers_with_kv", "attn_output_gate", "mac_C_complete",
            "mac_A_complete", "kv_bytes_all_per_token", "storage_fixed_bytes"}
WorkRefuses == DataflowRefuses

NumericalStates ==
    Outer \cup KvShape \cup GdnShape
      \cup {"linear_conv_kernel_dim", "linear_conv_delay", "linear_qkv_width",
            "T_max", "param_dtype", "eps", "kv_bytes_all_per_token", "c_bytes_all",
            "s_bytes_all", "sensitive_ops", "high_risk_ids"}
NumericalLocks ==
    Outer \cup CountLocks
      \cup {"n_full_layers_with_kv", "head_dim", "model_T_max",
            "kv_bytes_all_per_token", "c_bytes_all", "s_bytes_all",
            "s_elems_per_layer"}
NumericalRefuses == DataflowRefuses

\* Every design document: all of it, and the names of winners its script knows.
DesignRefuses(allows) == DataflowRefuses \cup (Wordings \ allows)

QuantizationStates ==
    Outer \cup Weights
      \cup {"unique_non_embed_bf16_bytes", "kv_bytes_all_per_token",
            "c_bytes_all", "s_f32_bytes", "quality_risk_ids",
            "candidate_recipe_ids", "policy_families", "selected"}
QuantizationLocks ==
    CountLocks \cup WeightLocks
      \cup {"hidden_size", "attn_output_gate", "s_bytes_all",
            "kv_bytes_all_per_token", "c_bytes_all"}
QuantizationAllows == {"Negated"}
QuantizationRefuses == DesignRefuses(QuantizationAllows)

FormatStates ==
    (QuantizationStates \ {"quality_risk_ids", "policy_families"})
      \cup {"n_language_mtp_tensors"}
FormatLocks ==
    CountLocks \cup Weights
      \cup {"mlp_n", "embed_n", "hidden_size", "attn_output_gate", "s_bytes_all",
            "kv_bytes_all_per_token", "c_bytes_all"}
FormatAllows == {"Negated"}
FormatRefuses == DesignRefuses(FormatAllows)

CompilerStates ==
    Outer \cup Weights
      \cup {"s_f32_bytes", "candidate_recipe_ids", "policy_families",
            "compiler_profile_ids", "n_language_mtp_tensors", "selected"}
CompilerLocks ==
    CountLocks \cup Weights
      \cup {"mlp_n", "embed_n", "hidden_size", "attn_output_gate", "s_bytes_all"}
CompilerAllows == {"Negated"}
CompilerRefuses == DesignRefuses(CompilerAllows)

GraphStates ==
    Outer \cup KvShape \cup GdnShape \cup LayerMacs
      \cup {"param_dtype", "kv_bytes_all_per_token", "s_bytes_all",
            "n_node_instances_complete", "catalog_ids", "node_type_ids"}
GraphLocks ==
    CountLocks \cup LayerMacs
      \cup {"n_full_layers_with_kv", "n_node_instances_complete", "hidden_size",
            "embed_n", "g_elems", "kv_bytes_all_per_token",
            "kv_elems_per_full_layer", "s_bytes_all", "s_elems_per_layer",
            "c_bytes_per_layer"}
GraphAllows == {"Negated"}
GraphRefuses == DesignRefuses(GraphAllows)

FusionStates ==
    Outer \cup KvShape \cup GdnShape
      \cup {"kv_bytes_all_per_token", "s_bytes_all", "storage_kv_bytes_coeff_T",
            "storage_fixed_bytes", "catalog_ids", "fusion_hypothesis_ids",
            "residual_bytes", "logits_bytes", "selected"}
FusionLocks ==
    CountLocks
      \cup {"n_full_layers_with_kv", "hidden_size", "intermediate_size",
            "vocab_size", "g_elems", "linear_z_width", "k_rope_elems",
            "linear_qkv_width", "kv_bytes_all_per_token", "s_bytes_all",
            "storage_fixed_bytes"}
FusionAllows == {"Negated"}
FusionRefuses == DesignRefuses(FusionAllows)

DecodeStates ==
    Outer \cup KvShape \cup GdnShape \cup LayerMacs
      \cup {"weight_bytes_unique_non_embed", "mac_C_complete", "mac_A_complete",
            "kv_bytes_all_per_token", "c_read_bytes_all", "s_bytes_all",
            "storage_kv_bytes_coeff_T", "decode_read_kv_bytes_coeff_Tm1",
            "storage_fixed_bytes", "decode_read_fixed_bytes",
            "n_node_instances_complete", "node_type_ids", "stage_kind_ids",
            "fusion_hypothesis_ids", "residual_bytes", "logits_bytes", "selected"}
DecodeLocks ==
    CountLocks
      \cup {"n_full_layers_with_kv", "n_node_instances_complete",
            "residual_bytes", "logits_bytes", "weight_bytes_unique_non_embed",
            "decode_write_bytes", "mac_C_complete", "mac_A_complete"}
DecodeAllows == {"Negated"}
DecodeRefuses == DesignRefuses(DecodeAllows)

PrefillStates == DecodeStates \ {"decode_read_kv_bytes_coeff_Tm1"}
PrefillLocks == DecodeLocks \cup {"s_bytes_all"}
PrefillAllows == {"Negated"}
PrefillRefuses == DesignRefuses(PrefillAllows)

LayoutStates ==
    Outer \cup GdnShape
      \cup {"n_full_layers_with_kv", "num_key_value_heads",
            "num_attention_heads", "head_dim", "linear_conv_kernel_dim",
            "linear_conv_delay", "d_qkv", "g_qa", "kv_bytes_all_per_token",
            "c_bytes_all", "s_f32_bytes", "stage_kind_ids", "selected"}
LayoutLocks ==
    CountLocks \cup GdnShape
      \cup {"n_full_layers_with_kv", "hidden_size", "intermediate_size",
            "vocab_size", "head_dim", "n_attn_heads", "n_kv_heads",
            "gqa_group_size", "linear_conv_kernel_dim", "linear_conv_delay",
            "linear_qkv_width", "kv_bytes_all_per_token", "c_bytes_all",
            "s_bytes_all", "embed_n"}
LayoutAllows == {"Negated"}
LayoutRefuses == DesignRefuses(LayoutAllows)

HardwareStates == {"sku_unknown_symbols", "warp_size", "n_bank"}
HardwareRefuses == Sectioned \cup {"Sentence", "Tokens"}

CudaStates ==
    (LayoutStates \ {"linear_conv_delay", "c_bytes_all"}) \cup LayerMacs
      \cup {"n_node_instances_complete", "node_type_ids",
            "fusion_hypothesis_ids", "mapping_ids", "sku_unknown_symbols",
            "N_w", "N_bank"}
CudaLocks ==
    (LayoutLocks \ {"linear_conv_delay", "c_bytes_all"}) \cup LayerMacs
      \cup {"g_elems", "s_elems_per_layer", "n_node_instances_complete"}
CudaAllows == {"Negated"}
CudaRefuses == DesignRefuses(CudaAllows) \ {"Unknown"}

ValidationStates ==
    Outer \cup Weights
      \cup {"T_max", "s_f32_bytes", "high_risk_ids", "quality_risk_ids",
            "candidate_recipe_ids", "policy_families", "compiler_profile_ids",
            "n_language_mtp_tensors", "selected"}
ValidationLocks ==
    CountLocks \cup Weights
      \cup {"attn_output_gate", "model_T_max", "mlp_n", "s_bytes_all"}
ValidationAllows == {"Negated"}
ValidationRefuses == DesignRefuses(ValidationAllows)

PerformanceStates ==
    Outer \cup Weights
      \cup {"model_T_max", "dtype", "mamba_ssm_dtype", "mac_C_complete",
            "mac_A_complete", "mac_decode_complete_T1",
            "n_node_instances_complete", "node_type_ids", "stage_kind_ids",
            "mapping_ids", "sku_unknown_symbols", "N_w", "N_bank", "selected"}
PerformanceLocks ==
    CountLocks \cup Outer \cup Weights
      \cup {"model_T_max", "n_node_instances_complete"}
PerformanceAllows == {"Negated"}
PerformanceRefuses == DesignRefuses(PerformanceAllows) \ {"Unknown"}

ArchitectureStates ==
    PerformanceStates
      \cup {"sensitive_ops", "candidate_recipe_ids", "policy_families",
            "fusion_hypothesis_ids", "frozen_for_comparative_review"}
ArchitectureLocks == PerformanceLocks
ArchitectureAllows == {"Negated", "BesideWrapper"}
ArchitectureRefuses == DesignRefuses(ArchitectureAllows) \ {"Unknown"}
BacklogRefuses == ArchitectureRefuses \ {"Diagram"}

ReviewStates ==
    Outer \cup Weights
      \cup {"n_full_layers_with_kv", "model_T_max", "dtype", "mamba_ssm_dtype",
            "mac_C_complete", "mac_A_complete", "mac_decode_complete_T1",
            "kv_bytes_all_per_token", "c_bytes_all", "s_bytes_all",
            "storage_kv_bytes_coeff_T", "storage_fixed_bytes",
            "n_node_instances_complete", "sensitive_ops", "catalog_ids",
            "node_type_ids", "stage_kind_ids", "candidate_recipe_ids",
            "fusion_hypothesis_ids", "mapping_ids", "sku_unknown_symbols",
            "N_w", "N_bank", "n_tensors", "n_shards", "n_parameters", "n_bytes",
            "n_language_mtp_tensors", "n_vision_tensors", "n_vision_parameters",
            "selected"}
ReviewLocks ==
    CountLocks \cup Outer \cup Weights
      \cup {"n_full_layers_with_kv", "model_T_max", "n_node_instances_complete"}
ReviewAllows == {"Negated", "BesideWrapper"}
ReviewRefuses == DesignRefuses(ReviewAllows) \ {"Unknown"}

=============================================================================
