------------------------------- MODULE Dossier -------------------------------
(***************************************************************************)
(* The architecture dossier and its gates.  Twenty-one documents under     *)
(* docs/architecture and a review publish, in their first JSON fence,      *)
(* numbers of one model.  Each has a script in src/scripts that derives the*)
(* numbers from config.json, asserts the ones it holds fixed, and compares *)
(* its document.  check_clean_sheet_review.py then compares the fences of  *)
(* all documents and freezes them.                                         *)
(*                                                                         *)
(* A sweep runs the scripts of SIBLING_CHECKER_SCRIPTS in order and the    *)
(* review last, and stops at the first refusal.  Between two scripts an    *)
(* author may edit a fence or a text, change config.json, or paste a       *)
(* script's --json output into its document.  A number a script asserts is *)
(* the value of its formula for the sitting model: a literal in the code   *)
(* is here the formula at Sitting.                                         *)
(***************************************************************************)
EXTENDS DossierScripts, Integers, FiniteSets, Sequences

CONSTANTS
    Configurations,   \* the contents config.json may have: a sequence of records
    EditNames,        \* keys whose value an author may get wrong
    EditFaults,       \* faults an author may bring into a text
    EditDocs,         \* documents an author may get wrong
    MaxEdits          \* bound on wrong edits and configuration changes

Configs == DOMAIN Configurations

\* The configuration the literals of the scripts come from.
Sitting == 1

\* text_config: what the scripts read of it.  The RMS epsilon stands for itself, and
\* the rotary factor for the divisor it is the reciprocal of.  The scripts ask for
\* integers; what they divide by is positive.
Positive == Nat \ {0}
TextConfigs ==
    [num_hidden_layers : Int, full_attention_interval : Positive,
     full_layers : SUBSET Nat, hidden_size : Int, intermediate_size : Int,
     vocab_size : Int, num_attention_heads : Int,
     num_key_value_heads : Positive, head_dim : Int,
     linear_num_key_heads : Positive, linear_num_value_heads : Int,
     linear_key_head_dim : Int, linear_value_head_dim : Int,
     linear_conv_kernel_dim : Int, mtp_num_hidden_layers : Int,
     max_position_embeddings : Int, rotary_divisor : Positive,
     rms_norm_eps : Int, dtype : STRING, mamba_ssm_dtype : STRING,
     attn_output_gate : BOOLEAN]

Sizes(c) == INSTANCE ModelSizes WITH Text <- c

\* The sitting model has one MTP block and full-attention layers where the interval
\* puts them; its two formulas for the width of qkv give one number (10240); 48
\* value heads share 16 key heads, and a quarter of 256 dimensions is rotated.
ASSUME DossierAssumption ==
    /\ MaxEdits \in Nat
    /\ Configurations \in Seq(TextConfigs)
    /\ Sitting \in Configs
    /\ LET sitting == Configurations[Sitting]
       IN  /\ sitting.mtp_num_hidden_layers = 1
           /\ sitting.full_layers # {}
           /\ sitting.full_layers = Sizes(sitting)!FullLayers
           /\ sitting.linear_key_head_dim = sitting.linear_value_head_dim
           /\ {sitting.linear_num_value_heads, sitting.head_dim} \subseteq Positive
           /\ sitting.linear_num_value_heads % sitting.linear_num_key_heads = 0
           /\ sitting.head_dim % sitting.rotary_divisor = 0

-----------------------------------------------------------------------------
\* SIBLING_CHECKER_SCRIPTS, named by their documents, and the review.
SweepOrder ==
    <<"inventory", "semantics", "dataflow", "lifetime", "work", "numerical",
      "quantization", "format", "compiler", "graph", "fusion", "decode",
      "prefill", "layout", "hardware", "cuda", "validation", "performance",
      "architecture", "review">>
Last == Len(SweepOrder)
Gates == {SweepOrder[i] : i \in 1 .. Last}

\* CORPUS_PATHS and the review.
Corpus == (Gates \ {"review"}) \cup {"tensors", "backlog"}
Docs == Corpus \cup {"review"}

States ==
    [inventory |-> InventoryStates, semantics |-> SemanticsStates,
     dataflow |-> DataflowStates, lifetime |-> LifetimeStates,
     tensors |-> TensorStates, work |-> WorkStates,
     numerical |-> NumericalStates, quantization |-> QuantizationStates,
     format |-> FormatStates, compiler |-> CompilerStates, graph |-> GraphStates,
     fusion |-> FusionStates, decode |-> DecodeStates, prefill |-> PrefillStates,
     layout |-> LayoutStates, hardware |-> HardwareStates, cuda |-> CudaStates,
     validation |-> ValidationStates, performance |-> PerformanceStates,
     architecture |-> ArchitectureStates, backlog |-> ArchitectureStates,
     review |-> ReviewStates]

Locks ==
    [semantics |-> SemanticsLocks, dataflow |-> DataflowLocks,
     lifetime |-> LifetimeLocks, work |-> WorkLocks,
     numerical |-> NumericalLocks, quantization |-> QuantizationLocks,
     format |-> FormatLocks, compiler |-> CompilerLocks, graph |-> GraphLocks,
     fusion |-> FusionLocks, decode |-> DecodeLocks, prefill |-> PrefillLocks,
     layout |-> LayoutLocks, cuda |-> CudaLocks, validation |-> ValidationLocks,
     performance |-> PerformanceLocks, architecture |-> ArchitectureLocks,
     review |-> ReviewLocks]

Refuses ==
    [inventory |-> InventoryRefuses, semantics |-> SemanticsRefuses,
     dataflow |-> DataflowRefuses, lifetime |-> LifetimeRefuses,
     work |-> WorkRefuses, numerical |-> NumericalRefuses,
     quantization |-> QuantizationRefuses, format |-> FormatRefuses,
     compiler |-> CompilerRefuses, graph |-> GraphRefuses,
     fusion |-> FusionRefuses, decode |-> DecodeRefuses,
     prefill |-> PrefillRefuses, layout |-> LayoutRefuses,
     hardware |-> HardwareRefuses, cuda |-> CudaRefuses,
     validation |-> ValidationRefuses, performance |-> PerformanceRefuses,
     architecture |-> ArchitectureRefuses, backlog |-> BacklogRefuses,
     review |-> ReviewRefuses]

\* The documents a gate holds against its own summary: the architecture's
\* script checks the backlog too.
Owned(g) == IF g = "architecture" THEN {"architecture", "backlog"} ELSE {g}

\* The gates that take --config.
ConfigReaders == DOMAIN Locks

-----------------------------------------------------------------------------
\* Two names of one quantity, in the documents' own words.
Synonyms ==
    [num_hidden_layers |-> "n_decoder_layers",
     mtp_num_hidden_layers |-> "n_mtp_blocks",
     num_key_value_heads |-> "n_kv_heads",
     num_attention_heads |-> "n_attn_heads",
     g_qa |-> "gqa_group_size", d_qkv |-> "linear_qkv_width",
     param_dtype |-> "dtype", T_max |-> "model_T_max", s_f32_bytes |-> "s_bytes_all",
     c_read_bytes_all |-> "c_bytes_all",
     storage_kv_bytes_coeff_T |-> "kv_bytes_all_per_token",
     decode_read_kv_bytes_coeff_Tm1 |-> "kv_bytes_all_per_token",
     decode_read_fixed_bytes |-> "storage_fixed_bytes",
     unique_non_embed_bf16_bytes |-> "weight_bytes_unique_non_embed",
     warp_size |-> "N_w", n_bank |-> "N_bank"]

Meaning(n) == IF n \in DOMAIN Synonyms THEN Synonyms[n] ELSE n

\* The node instances of the semantic graph.
NodeInstances(c) ==
    (1 + c.mtp_num_hidden_layers) + (Sizes(c)!NFull + c.mtp_num_hidden_layers)
      + Sizes(c)!NLinear + (c.num_hidden_layers + c.mtp_num_hidden_layers)
      + (1 + c.mtp_num_hidden_layers) + c.mtp_num_hidden_layers

\* What the mappings, the performance, the architecture and the review count:
\* two embeddings, two heads and one mix, whatever the number of MTP blocks.
PairedInstances(c) ==
    2 + (Sizes(c)!NFull + c.mtp_num_hidden_layers) + Sizes(c)!NLinear
      + (c.num_hidden_layers + c.mtp_num_hidden_layers) + 2 + 1

\* What the scripts compute from a configuration.
Derived(c) ==
    [hidden_size |-> c.hidden_size, intermediate_size |-> c.intermediate_size,
     vocab_size |-> c.vocab_size, n_decoder_layers |-> c.num_hidden_layers,
     n_mtp_blocks |-> c.mtp_num_hidden_layers,
     n_kv_heads |-> c.num_key_value_heads,
     n_attn_heads |-> c.num_attention_heads, head_dim |-> c.head_dim,
     linear_num_key_heads |-> c.linear_num_key_heads,
     linear_num_value_heads |-> c.linear_num_value_heads,
     linear_key_head_dim |-> c.linear_key_head_dim,
     linear_value_head_dim |-> c.linear_value_head_dim,
     linear_conv_kernel_dim |-> c.linear_conv_kernel_dim,
     model_T_max |-> c.max_position_embeddings, eps |-> c.rms_norm_eps,
     dtype |-> c.dtype, mamba_ssm_dtype |-> c.mamba_ssm_dtype,
     attn_output_gate |-> c.attn_output_gate,
     full_attention_indices |-> c.full_layers,
     n_full_layers |-> Cardinality(c.full_layers),
     n_linear_layers |-> c.num_hidden_layers - Cardinality(c.full_layers),
     n_full_layers_with_kv |-> Sizes(c)!NFull + c.mtp_num_hidden_layers,
     n_node_instances_complete |-> NodeInstances(c),
     n_node_instances_paired |-> PairedInstances(c),
     rotary_dim |-> c.head_dim \div c.rotary_divisor,
     gqa_group_size |-> c.num_attention_heads \div c.num_key_value_heads,
     linear_kv_repeat |-> c.linear_num_value_heads \div c.linear_num_key_heads,
     linear_conv_delay |-> Sizes(c)!Delay,
     linear_qkv_width |-> Sizes(c)!QkvWidth,
     linear_qkv_by_role |-> 2 * c.linear_num_key_heads * c.linear_key_head_dim
                              + Sizes(c)!ZWidth,
     linear_z_width |-> Sizes(c)!ZWidth, g_elems |-> Sizes(c)!GWidth,
     k_rope_elems |-> Sizes(c)!KvWidth,
     residual_bytes |-> c.hidden_size * Sizes(c)!Bf16,
     logits_bytes |-> c.vocab_size * Sizes(c)!Bf16,
     mac_full_proj_per_layer |-> Sizes(c)!MacFullProj,
     mac_lin_token_per_layer |-> Sizes(c)!MacLinToken,
     mac_mlp_per_layer |-> Sizes(c)!MacMlp, mac_lm_head |-> Sizes(c)!MacLmHead,
     mac_C_complete |-> Sizes(c)!MacC, mac_A_complete |-> Sizes(c)!MacA,
     mac_decode_complete_T1 |-> Sizes(c)!DecodeMac(1),
     mlp_n |-> c.num_hidden_layers * Sizes(c)!MacMlp,
     embed_n |-> Sizes(c)!MacLmHead,
     linear_attn_bytes |-> Sizes(c)!NLinear * Sizes(c)!LinParams,
     self_attn_bytes |-> Sizes(c)!NFull * Sizes(c)!FullParams,
     weight_bytes_unique_non_embed |-> Sizes(c)!UniqueBytes,
     weight_bytes_language_mtp_excl_vision |->
         Sizes(c)!UniqueBytes + Sizes(c)!MacLmHead * Sizes(c)!Bf16,
     n_language_mtp_parameters |->
         Sizes(c)!UniqueBytes \div Sizes(c)!Bf16 + Sizes(c)!MacLmHead,
     kv_elems_per_full_layer |-> 2 * Sizes(c)!KvWidth,
     kv_bytes_all_per_token |-> Sizes(c)!KvAll,
     c_bytes_per_layer |-> Sizes(c)!CBytes, c_bytes_all |-> Sizes(c)!CReadAll,
     s_elems_per_layer |-> Sizes(c)!SBytes, s_bytes_all |-> Sizes(c)!SAll,
     storage_fixed_bytes |-> Sizes(c)!StorageBytes(0),
     decode_write_bytes |->
         Sizes(c)!KvAll + Sizes(c)!CWriteAll + Sizes(c)!SAll]

Live == [c \in Configs |-> Derived(Configurations[c])]

\* The totals some scripts cite as literals instead of computing them.
Cited ==
    [performance |-> {"mac_C_complete", "mac_A_complete",
                      "mac_decode_complete_T1", "dtype", "mamba_ssm_dtype"},
     review |-> {"mac_C_complete", "mac_A_complete", "mac_decode_complete_T1",
                 "kv_bytes_all_per_token", "storage_fixed_bytes", "s_bytes_all",
                 "c_bytes_all", "dtype", "mamba_ssm_dtype"}]

CitedBy(d) ==
    CASE d \in {"performance", "architecture", "backlog"} -> Cited.performance
      [] d = "review" -> Cited.review
      [] OTHER -> {}

\* The quantity document d's script computes for key n: two are computed
\* by different formulas in different scripts.
Quantity(d, n) ==
    CASE d = "semantics" /\ n = "linear_qkv_width" -> "linear_qkv_by_role"
      [] /\ d \in {"cuda", "performance", "architecture", "backlog", "review"}
         /\ n = "n_node_instances_complete" -> "n_node_instances_paired"
      [] OTHER -> Meaning(n)

\* What document d's script computes for key n from configuration c.  A key that is
\* not derived from the configuration (a catalogue, a flag, a count of the
\* checkpoint) is its own name.
Value(d, n, c) ==
    LET q == Quantity(d, n)
    IN  IF q \notin DOMAIN Live[Sitting] THEN q
        ELSE IF q \in CitedBy(d) \/ d \in {"inventory", "tensors"}
               THEN Live[Sitting][q]
        ELSE Live[c][q]

\* The part of the summary of d's script that the fence states.
Summary ==
    [c \in Configs |-> [d \in Docs |-> [n \in States[d] |-> Value(d, n, c)]]]

-----------------------------------------------------------------------------
VARIABLES
    config,    \* config.json
    from,      \* from[d]: the configuration the values of d's fence come from
    wrong,     \* wrong[d]: the keys of d's fence that say something else
    text,      \* text[d]: the faults of the text around the fence
    done,      \* how many gates of the running sweep have accepted
    touched,   \* when a document was last edited: before, during, after the sweep
    drifted,   \* when config.json was last changed
    edits

fence == <<from, wrong, text>>
sweep == <<done, touched, drifted>>
vars == <<config, fence, sweep, edits>>

\* The values of d's fence, but for the keys an author got wrong.
Fence(d) == Summary[from[d]][d]

Init ==
    /\ config = Sitting
    /\ from = [d \in Docs |-> Sitting]
    /\ wrong = [d \in Docs |-> {}]
    /\ text = [d \in Docs |-> {}]
    /\ done = 0
    /\ touched = "before"
    /\ drifted = "before"
    /\ edits = 0

-----------------------------------------------------------------------------
\* instantiate and its assertions: layer_types and the interval agree, the
\* group sizes and the rotary share divide, and every locked quantity has the
\* value of the sitting model.
TypesAgree(c) ==
    Configurations[c].full_layers = Sizes(Configurations[c])!FullLayers

HeadsDivide(g, c) ==
    /\ g \in {"semantics", "layout", "cuda"}
         => Live[c].n_attn_heads % Live[c].n_kv_heads = 0
    /\ g = "semantics"
         => /\ Live[c].linear_num_value_heads % Live[c].linear_num_key_heads = 0
            /\ Live[c].head_dim % Configurations[c].rotary_divisor = 0
            /\ Live[c].rotary_dim % 2 = 0

\* Mutant of LocksHold: only what the fence states is asserted.
LocksHoldWhereStated(g, c) ==
    \A q \in Locks[g] \cap {Meaning(n) : n \in States[g]} :
        Live[c][Quantity(g, q)] = Live[Sitting][Quantity(g, q)]

LocksHold(g, c) ==
    \A q \in Locks[g] :
        Live[c][Quantity(g, q)] = Live[Sitting][Quantity(g, q)]

\* main's own assertions about the two dtypes.
DtypesHold(g, c) ==
    g \in {"performance", "architecture", "review"}
      => \A q \in {"dtype", "mamba_ssm_dtype"} : Live[c][q] = Live[Sitting][q]

InstantiableFrom ==
    [g \in ConfigReaders |->
        {c \in Configs : /\ TypesAgree(c)
                         /\ HeadsDivide(g, c)
                         /\ LocksHold(g, c)
                         /\ DtypesHold(g, c)}]

\* The validation's script reads three other fences and asserts four of the
\* five lists it takes from them.
UpstreamHolds ==
    /\ "high_risk_ids" \notin wrong["numerical"]
    /\ wrong["quantization"] \cap {"quality_risk_ids", "policy_families",
                                   "candidate_recipe_ids"} = {}

\* The keys of g's summary that are wrong because they were read from a wrong
\* fence: the one upstream list no assertion fixes.
ReadWrong(g) ==
    IF g = "validation" THEN wrong["compiler"] \cap {"compiler_profile_ids"}
    ELSE {}

\* KEY_ALIASES, and T_max where it is an integer.
KeyOf(n) ==
    IF n \in {"num_hidden_layers", "mtp_num_hidden_layers",
              "num_key_value_heads", "T_max", "warp_size", "n_bank"}
      THEN Synonyms[n] ELSE n

\* The keys of _comparison_locked, and the flags.
Compared ==
    Outer \cup Weights
      \cup {"dtype", "mamba_ssm_dtype", "model_T_max", "n_kv_heads", "n_tensors",
            "n_shards", "n_parameters", "n_bytes", "n_vision_parameters",
            "n_vision_tensors",
            "n_language_mtp_tensors", "mac_C_complete", "mac_A_complete",
            "mac_decode_complete_T1", "N_w", "N_bank", "catalog_ids",
            "n_full_layers_with_kv", "kv_bytes_all_per_token",
            "storage_kv_bytes_coeff_T", "storage_fixed_bytes", "s_bytes_all",
            "c_bytes_all", "node_type_ids", "n_node_instances_complete",
            "stage_kind_ids", "candidate_recipe_ids", "fusion_hypothesis_ids",
            "mapping_ids", "sku_unknown_symbols", "sensitive_ops", "selected"}

\* Mutant of PresentKeys: an alias is looked up under its own name.
PresentKeysUnaliased == [d \in Docs |-> States[d] \cap Compared]

\* The keys the review compares in each document, and _comparison_locked.
PresentKeys == [d \in Docs |-> {n \in States[d] : KeyOf(n) \in Compared}]
ComparisonLocked ==
    [c \in Configs |-> [q \in Compared |-> Value("review", q, c)]]

\* The configurations for which the review finds no difference in d's fence
\* when it was computed from b.
NoDifference ==
    [d \in Corpus |-> [b \in Configs |->
        {c \in Configs : \A n \in PresentKeys[d] :
            Summary[b][d][n] = ComparisonLocked[c][KeyOf(n)]}]]

\* _compare_present_keys for one document.
PresentKeysAgree(d) ==
    PresentKeys[d] \cap wrong[d] = {} /\ config \in NoDifference[d][from[d]]

\* The architecture's fence and the backlog's are deep-equal.
SameFence(d, e) ==
    wrong[d] = wrong[e] /\ Fence(d) = Fence(e)

\* compare_corpus_fences.
CorpusAgrees ==
    /\ \A d \in {"semantics", "work", "numerical"} : "Tokens" \notin text[d]
    /\ \A d \in Corpus : PresentKeysAgree(d)
    /\ SameFence("architecture", "backlog")
    /\ "frozen_for_comparative_review" \notin wrong["architecture"]
    /\ "pooled_absmax" \notin wrong["tensors"]

Instantiates(g) ==
    /\ g \in ConfigReaders => config \in InstantiableFrom[g]
    /\ g = "validation" => UpstreamHolds
    /\ g = "review" => CorpusAgrees

\* Mutant of FenceMatches: only the keys the review knows are compared.
FenceMatchesWhereReviewed(g) ==
    \A d \in Owned(g) :
        \A n \in PresentKeys[d] :
            n \notin wrong[d] /\ Fence(d)[n] = Summary[config][d][n]

\* diff_summary: every key the fence states is what the script computes.
FenceMatches(g) ==
    \A d \in Owned(g) :
        wrong[d] = ReadWrong(g) /\ Fence(d) = Summary[config][d]

\* check_...: the first fence and the text around it.
Accepts(g) ==
    /\ Instantiates(g)
    /\ FenceMatches(g)
    /\ \A d \in Owned(g) : text[d] \cap Refuses[d] = {}

-----------------------------------------------------------------------------
\* The next script of the sweep accepts.
RunGate ==
    /\ done < Last
    /\ Accepts(SweepOrder[done + 1])
    /\ done' = done + 1
    /\ UNCHANGED <<config, fence, touched, drifted, edits>>

\* A new sweep: after a refusal, after a repair, or after a completed one.
Restart ==
    /\ done > 0
    /\ done' = 0
    /\ touched' = "before"
    /\ drifted' = "before"
    /\ UNCHANGED <<config, fence, edits>>

\* Where the sweep stands.
Now ==
    CASE done = 0 -> "before"
      [] done = Last -> "after"
      [] OTHER -> "during"

\* The next script's --json output is pasted into its document.
Regenerate ==
    /\ done < Last
    /\ LET g == SweepOrder[done + 1]
       IN  /\ Instantiates(g)
           /\ ~FenceMatches(g)
           /\ from' = [d \in Docs |-> IF d \in Owned(g) THEN config ELSE from[d]]
           /\ wrong' = [d \in Docs |-> IF d \in Owned(g) THEN ReadWrong(g)
                                       ELSE wrong[d]]
    /\ touched' = Now
    /\ UNCHANGED <<config, text, done, drifted, edits>>

\* A wrong value in a fence, or a fault in a text.
EditFence(d, n) ==
    /\ edits < MaxEdits
    /\ n \in States[d] \ wrong[d]
    /\ wrong' = [wrong EXCEPT ![d] = @ \cup {n}]
    /\ touched' = Now
    /\ edits' = edits + 1
    /\ UNCHANGED <<config, from, text, done, drifted>>

EditText(d, f) ==
    /\ edits < MaxEdits
    /\ f \notin text[d]
    /\ text' = [text EXCEPT ![d] = @ \cup {f}]
    /\ touched' = Now
    /\ edits' = edits + 1
    /\ UNCHANGED <<config, from, wrong, done, drifted>>

\* The published version of a document is restored.
Restore(d) ==
    /\ wrong[d] # {} \/ text[d] # {} \/ from[d] # Sitting
    /\ from' = [from EXCEPT ![d] = Sitting]
    /\ wrong' = [wrong EXCEPT ![d] = {}]
    /\ text' = [text EXCEPT ![d] = {}]
    /\ touched' = Now
    /\ UNCHANGED <<config, done, drifted, edits>>

\* config.json is changed, or restored.
ChangeConfig(c) ==
    /\ c # config
    /\ c # Sitting => config = Sitting /\ edits < MaxEdits
    /\ config' = c
    /\ drifted' = Now
    /\ edits' = IF c = Sitting THEN edits ELSE edits + 1
    /\ UNCHANGED <<fence, done, touched>>

Next ==
    \/ RunGate
    \/ Restart
    \/ Regenerate
    \/ \E d \in EditDocs, n \in EditNames : EditFence(d, n)
    \/ \E d \in EditDocs, f \in EditFaults : EditText(d, f)
    \/ \E d \in Docs : Restore(d)
    \/ \E c \in Configs : ChangeConfig(c)

Spec == Init /\ [][Next]_vars

-----------------------------------------------------------------------------
\* A sweep that ran to its end.
Swept == done = Last

\* What the dossier states, as pairs of a document and a key.
Statements == UNION {{d} \X States[d] : d \in Docs}

\* The statements are of one value: none is wrong and all are equal.
OneValue(S) ==
    /\ \A s \in S : s[2] \notin wrong[s[1]]
    /\ Cardinality({Fence(s[1])[s[2]] : s \in S}) <= 1

\* The statements of each quantity, and those the review compares as one.
Stating ==
    [q \in {Meaning(s[2]) : s \in Statements} |->
        {s \in Statements : Meaning(s[2]) = q}]
ComparedStating ==
    [q \in Compared |-> {s \in Statements : KeyOf(s[2]) = q}]

DesignDocs == {d \in Docs \ {"tensors"} : "Claim" \in Refuses[d]}

\* A sweep that ended without a change of config.json since it began, whatever
\* was edited or regenerated meanwhile, ran on the sitting model: no change of
\* several dimensions that leaves some totals alone passes all scripts.  The
\* RMS epsilon is the exception; no script asserts it.
SweptConfigIsSitting ==
    Swept /\ drifted = "before" =>
        \A f \in DOMAIN Configurations[Sitting] \ {"rms_norm_eps"} :
            Configurations[config][f] = Configurations[Sitting][f]

\* A sweep that ended with nothing edited since it began leaves one model in
\* the dossier: two fences that state one quantity, under whatever names, state
\* one value, and no design document claims a winner on a line of its own.
SweptDossierIsOneModel ==
    Swept /\ drifted = "before" /\ touched = "before" =>
        /\ \A q \in DOMAIN Stating : OneValue(Stating[q])
        /\ \A d \in DesignDocs : "Claim" \notin text[d]

\* The review is run last and catches what was edited after a document's own
\* script had accepted it: when it accepts, two fences that state a quantity it
\* compares state one value, and the backlog repeats the architecture.
FreezeSeesLateEdits ==
    Swept /\ drifted # "after" /\ touched # "after" =>
        /\ \A q \in Compared : OneValue(ComparedStating[q])
        /\ SameFence("architecture", "backlog")

=============================================================================
