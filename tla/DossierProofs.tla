---------------------------- MODULE DossierProofs ----------------------------
(* What a completed sweep of the gates guarantees, for every sequence of      *)
(* configurations, set of wrong edits and number of them.                     *)
EXTENDS Dossier, FiniteSetTheorems, TLAPS

Direct == {"hidden_size", "intermediate_size", "vocab_size", "head_dim",
           "n_attn_heads", "n_kv_heads", "linear_conv_kernel_dim",
           "linear_num_value_heads", "linear_key_head_dim",
           "linear_value_head_dim", "full_attention_indices", "n_mtp_blocks",
           "dtype", "mamba_ssm_dtype"}

\* A configuration every script instantiates from.
Passes(c) == \A g \in ConfigReaders : c \in InstantiableFrom[g]

LEMMA Locked ==
  ASSUME NEW c \in Configs, NEW g \in ConfigReaders, c \in InstantiableFrom[g],
         NEW q \in Locks[g]
  PROVE  Live[c][Quantity(g, q)] = Live[Sitting][Quantity(g, q)]
  BY DEF InstantiableFrom, LocksHold

\* The dimensions the layout asserts one by one.
LEMMA DirectLocks ==
  ASSUME NEW c \in Configs, Passes(c), NEW q \in Direct
  PROVE  Live[c][q] = Live[Sitting][q]
<1>1. "layout" \in ConfigReaders /\ Locks["layout"] = LayoutLocks
  BY DEF ConfigReaders, Locks
<1>2. Direct \subseteq LayoutLocks
  BY DEF Direct, LayoutLocks, CountLocks, GdnShape
<1>3. Quantity("layout", q) = q
  <2>1. q \notin DOMAIN Synonyms
    BY DEF Direct, Synonyms
  <2> QED BY <2>1 DEF Quantity, Meaning
<1> QED BY <1>1, <1>2, <1>3, Locked DEF Passes

LEMMA OtherLocks ==
  ASSUME NEW c \in Configs, Passes(c)
  PROVE  /\ Live[c]["n_decoder_layers"] = Live[Sitting]["n_decoder_layers"]
         /\ Live[c]["model_T_max"] = Live[Sitting]["model_T_max"]
         /\ Live[c]["attn_output_gate"] = Live[Sitting]["attn_output_gate"]
         /\ Live[c]["linear_kv_repeat"] = Live[Sitting]["linear_kv_repeat"]
         /\ Live[c]["rotary_dim"] = Live[Sitting]["rotary_dim"]
<1>1. /\ "numerical" \in ConfigReaders /\ Locks["numerical"] = NumericalLocks
      /\ "semantics" \in ConfigReaders /\ Locks["semantics"] = SemanticsLocks
  BY DEF ConfigReaders, Locks
<1>2. /\ "n_decoder_layers" \in NumericalLocks /\ "model_T_max" \in NumericalLocks
      /\ "attn_output_gate" \in SemanticsLocks
      /\ "linear_kv_repeat" \in SemanticsLocks
      /\ "rotary_dim" \in SemanticsLocks
  BY DEF NumericalLocks, SemanticsLocks, Outer, Shape
<1>3. /\ Quantity("numerical", "n_decoder_layers") = "n_decoder_layers"
      /\ Quantity("numerical", "model_T_max") = "model_T_max"
      /\ Quantity("semantics", "attn_output_gate") = "attn_output_gate"
      /\ Quantity("semantics", "linear_kv_repeat") = "linear_kv_repeat"
      /\ Quantity("semantics", "rotary_dim") = "rotary_dim"
  BY DEF Quantity, Meaning, Synonyms
<1>4. /\ Live[c][Quantity("numerical", "n_decoder_layers")]
           = Live[Sitting][Quantity("numerical", "n_decoder_layers")]
      /\ Live[c][Quantity("numerical", "model_T_max")]
           = Live[Sitting][Quantity("numerical", "model_T_max")]
      /\ Live[c][Quantity("semantics", "attn_output_gate")]
           = Live[Sitting][Quantity("semantics", "attn_output_gate")]
      /\ Live[c][Quantity("semantics", "linear_kv_repeat")]
           = Live[Sitting][Quantity("semantics", "linear_kv_repeat")]
      /\ Live[c][Quantity("semantics", "rotary_dim")]
           = Live[Sitting][Quantity("semantics", "rotary_dim")]
  BY <1>1, <1>2, Locked DEF Passes
<1> QED BY <1>3, <1>4

\* Division by hand: what the quotient and the remainder are.
LEMMA Division ==
  ASSUME NEW x \in Nat, NEW a \in Nat \ {0}
  PROVE  x % a \in 0 .. a - 1 /\ x \div a \in Nat /\ x = a * (x \div a) + (x % a)
  OBVIOUS

\* Divisors that leave no remainder and have one quotient are equal.
LEMMA DivisorOf ==
  ASSUME NEW x \in Nat \ {0}, NEW y \in Nat \ {0}, NEW z \in Nat \ {0},
         x % y = 0, x % z = 0, x \div y = x \div z
  PROVE  y = z
<1>1. /\ x = y * (x \div y) + (x % y) /\ x \div y \in Nat
      /\ x = z * (x \div z) + (x % z)
  BY Division
<1>2. PICK p \in Nat : p = x \div y /\ p = x \div z
  BY <1>1
<1>3. x = y * p /\ x = z * p
  BY <1>1, <1>2
<1>4. p # 0
  BY <1>3
<1>5. (y - z) * p = 0
  BY <1>3
<1>6. y - z = 0
  BY <1>4, <1>5, SMTT(30)
<1> QED BY <1>6

LEMMA ConfigTypes ==
  ASSUME NEW c \in Configs
  PROVE  /\ Configurations[c] \in TextConfigs /\ Sitting \in Configs
         /\ Configurations[Sitting] \in TextConfigs
  BY DossierAssumption DEF Configs

\* What the gates assert of a configuration, in its own fields.
LEMMA FieldsHeld ==
  ASSUME NEW c \in Configs, Passes(c)
  PROVE  LET x == Configurations[c]
             y == Configurations[Sitting]
         IN  /\ x.hidden_size = y.hidden_size
             /\ x.intermediate_size = y.intermediate_size
             /\ x.vocab_size = y.vocab_size /\ x.head_dim = y.head_dim
             /\ x.num_attention_heads = y.num_attention_heads
             /\ x.num_key_value_heads = y.num_key_value_heads
             /\ x.linear_conv_kernel_dim = y.linear_conv_kernel_dim
             /\ x.linear_num_value_heads = y.linear_num_value_heads
             /\ x.linear_key_head_dim = y.linear_key_head_dim
             /\ x.linear_value_head_dim = y.linear_value_head_dim
             /\ x.full_layers = y.full_layers
             /\ x.mtp_num_hidden_layers = y.mtp_num_hidden_layers
             /\ x.dtype = y.dtype /\ x.mamba_ssm_dtype = y.mamba_ssm_dtype
             /\ x.num_hidden_layers = y.num_hidden_layers
             /\ x.max_position_embeddings = y.max_position_embeddings
             /\ x.attn_output_gate = y.attn_output_gate
             /\ x.linear_num_value_heads \div x.linear_num_key_heads
                  = y.linear_num_value_heads \div y.linear_num_key_heads
             /\ x.head_dim \div x.rotary_divisor = y.head_dim \div y.rotary_divisor
<1>1. Sitting \in Configs
  BY ConfigTypes
<1>2. \A q \in Direct : Live[c][q] = Live[Sitting][q]
  BY DirectLocks
<1>3. \A d \in Configs : Live[d] = Derived(Configurations[d])
  BY DEF Live
<1>4. ASSUME NEW d \in Configs
      PROVE  /\ Live[d]["hidden_size"] = Configurations[d].hidden_size
             /\ Live[d]["intermediate_size"] = Configurations[d].intermediate_size
             /\ Live[d]["vocab_size"] = Configurations[d].vocab_size
             /\ Live[d]["head_dim"] = Configurations[d].head_dim
             /\ Live[d]["n_attn_heads"] = Configurations[d].num_attention_heads
             /\ Live[d]["n_kv_heads"] = Configurations[d].num_key_value_heads
             /\ Live[d]["linear_conv_kernel_dim"]
                  = Configurations[d].linear_conv_kernel_dim
             /\ Live[d]["linear_num_value_heads"]
                  = Configurations[d].linear_num_value_heads
             /\ Live[d]["linear_key_head_dim"]
                  = Configurations[d].linear_key_head_dim
             /\ Live[d]["linear_value_head_dim"]
                  = Configurations[d].linear_value_head_dim
             /\ Live[d]["full_attention_indices"] = Configurations[d].full_layers
             /\ Live[d]["n_mtp_blocks"] = Configurations[d].mtp_num_hidden_layers
             /\ Live[d]["dtype"] = Configurations[d].dtype
             /\ Live[d]["mamba_ssm_dtype"] = Configurations[d].mamba_ssm_dtype
             /\ Live[d]["n_decoder_layers"] = Configurations[d].num_hidden_layers
             /\ Live[d]["model_T_max"] = Configurations[d].max_position_embeddings
             /\ Live[d]["attn_output_gate"] = Configurations[d].attn_output_gate
             /\ Live[d]["linear_kv_repeat"]
                  = Configurations[d].linear_num_value_heads
                      \div Configurations[d].linear_num_key_heads
             /\ Live[d]["rotary_dim"]
                  = Configurations[d].head_dim \div Configurations[d].rotary_divisor
  <2>1. Live[d] = Derived(Configurations[d])
    BY <1>3
  <2>2. /\ Live[d]["hidden_size"] = Configurations[d].hidden_size
        /\ Live[d]["intermediate_size"] = Configurations[d].intermediate_size
        /\ Live[d]["vocab_size"] = Configurations[d].vocab_size
        /\ Live[d]["head_dim"] = Configurations[d].head_dim
        /\ Live[d]["n_attn_heads"] = Configurations[d].num_attention_heads
    BY <2>1 DEF Derived
  <2>3. /\ Live[d]["n_kv_heads"] = Configurations[d].num_key_value_heads
        /\ Live[d]["linear_conv_kernel_dim"]
             = Configurations[d].linear_conv_kernel_dim
        /\ Live[d]["linear_num_value_heads"]
             = Configurations[d].linear_num_value_heads
        /\ Live[d]["linear_key_head_dim"] = Configurations[d].linear_key_head_dim
        /\ Live[d]["linear_value_head_dim"]
             = Configurations[d].linear_value_head_dim
    BY <2>1 DEF Derived
  <2>4. /\ Live[d]["full_attention_indices"] = Configurations[d].full_layers
        /\ Live[d]["n_mtp_blocks"] = Configurations[d].mtp_num_hidden_layers
        /\ Live[d]["dtype"] = Configurations[d].dtype
        /\ Live[d]["mamba_ssm_dtype"] = Configurations[d].mamba_ssm_dtype
        /\ Live[d]["n_decoder_layers"] = Configurations[d].num_hidden_layers
    BY <2>1 DEF Derived
  <2>5. /\ Live[d]["model_T_max"] = Configurations[d].max_position_embeddings
        /\ Live[d]["attn_output_gate"] = Configurations[d].attn_output_gate
        /\ Live[d]["linear_kv_repeat"]
             = Configurations[d].linear_num_value_heads
                 \div Configurations[d].linear_num_key_heads
        /\ Live[d]["rotary_dim"]
             = Configurations[d].head_dim \div Configurations[d].rotary_divisor
    BY <2>1 DEF Derived
  <2> QED BY <2>2, <2>3, <2>4, <2>5
<1>5. /\ Live[c]["hidden_size"] = Live[Sitting]["hidden_size"]
      /\ Live[c]["intermediate_size"] = Live[Sitting]["intermediate_size"]
      /\ Live[c]["vocab_size"] = Live[Sitting]["vocab_size"]
      /\ Live[c]["head_dim"] = Live[Sitting]["head_dim"]
      /\ Live[c]["n_attn_heads"] = Live[Sitting]["n_attn_heads"]
      /\ Live[c]["n_kv_heads"] = Live[Sitting]["n_kv_heads"]
      /\ Live[c]["linear_conv_kernel_dim"] = Live[Sitting]["linear_conv_kernel_dim"]
      /\ Live[c]["linear_num_value_heads"] = Live[Sitting]["linear_num_value_heads"]
      /\ Live[c]["linear_key_head_dim"] = Live[Sitting]["linear_key_head_dim"]
      /\ Live[c]["linear_value_head_dim"] = Live[Sitting]["linear_value_head_dim"]
      /\ Live[c]["full_attention_indices"] = Live[Sitting]["full_attention_indices"]
      /\ Live[c]["n_mtp_blocks"] = Live[Sitting]["n_mtp_blocks"]
      /\ Live[c]["dtype"] = Live[Sitting]["dtype"]
      /\ Live[c]["mamba_ssm_dtype"] = Live[Sitting]["mamba_ssm_dtype"]
  BY <1>2 DEF Direct
<1> QED BY <1>1, <1>4, <1>5, OtherLocks

\* The interval is the first full-attention layer's index plus one.
LEMMA IntervalHeld ==
  ASSUME NEW c \in Configs, TypesAgree(c),
         Configurations[c].num_hidden_layers
           = Configurations[Sitting].num_hidden_layers,
         Configurations[c].full_layers = Configurations[Sitting].full_layers
  PROVE  Configurations[c].full_attention_interval
           = Configurations[Sitting].full_attention_interval
<1> DEFINE N == Configurations[Sitting].num_hidden_layers
           i == Configurations[c].full_attention_interval
           j == Configurations[Sitting].full_attention_interval
           Every(k) == {l \in 0 .. N - 1 : l % k = k - 1}
<1>1. N \in Int /\ i \in Nat \ {0} /\ j \in Nat \ {0}
  BY ConfigTypes DEF TextConfigs, Positive
<1>2. Every(i) = Every(j) /\ Every(j) # {}
  <2>1. Every(i) = Configurations[c].full_layers
    BY DEF TypesAgree, Sizes!FullLayers, Sizes!Layers, Sizes!NLayers
  <2>2. Every(j) = Configurations[Sitting].full_layers
    BY DossierAssumption DEF Sizes!FullLayers, Sizes!Layers, Sizes!NLayers
  <2> QED BY <2>1, <2>2, DossierAssumption
<1> HIDE DEF N, i, j
\* The first of them is k - 1.
<1>3. ASSUME NEW k \in Nat \ {0}, Every(k) # {}
      PROVE  k - 1 \in Every(k) /\ \A l \in Every(k) : l >= k - 1
  <2>1. ASSUME NEW l \in Every(k) PROVE l \in Nat /\ l < N /\ l >= k - 1
    <3>1. l \in Nat /\ l < N /\ l % k = k - 1
      BY <1>1
    <3>2. l = k * (l \div k) + (l % k) /\ l \div k \in Nat
      BY <3>1, Division
    <3>3. k * (l \div k) >= 0
      BY <3>2, SMT
    <3> QED BY <3>1, <3>2, <3>3
  <2>2. k - 1 \in 0 .. N - 1
    BY <1>1, <1>3, <2>1
  <2>3. (k - 1) % k = k - 1
    BY SMT
  <2> QED BY <2>1, <2>2, <2>3
<1>4. /\ i - 1 \in Every(i) /\ \A l \in Every(i) : l >= i - 1
      /\ j - 1 \in Every(j) /\ \A l \in Every(j) : l >= j - 1
  BY <1>1, <1>2, <1>3
<1>5. i - 1 >= j - 1 /\ j - 1 >= i - 1
  BY <1>2, <1>4
<1>6. i = j
  BY <1>1, <1>5
<1> QED BY <1>6 DEF i, j

Described == DOMAIN Configurations[Sitting] \ {"rms_norm_eps"}

\* The gates together fix every dimension but the epsilon: no change of several
\* dimensions passes all of them.
LEMMA LocksDetermine ==
  ASSUME NEW c \in Configs, Passes(c)
  PROVE  \A f \in Described : Configurations[c][f] = Configurations[Sitting][f]
<1> DEFINE x == Configurations[c]
           y == Configurations[Sitting]
<1>1. x \in TextConfigs /\ y \in TextConfigs
  BY ConfigTypes
<1>2. /\ x.hidden_size = y.hidden_size
      /\ x.intermediate_size = y.intermediate_size
      /\ x.vocab_size = y.vocab_size /\ x.head_dim = y.head_dim
      /\ x.num_attention_heads = y.num_attention_heads
      /\ x.num_key_value_heads = y.num_key_value_heads
      /\ x.linear_conv_kernel_dim = y.linear_conv_kernel_dim
      /\ x.linear_num_value_heads = y.linear_num_value_heads
      /\ x.linear_key_head_dim = y.linear_key_head_dim
      /\ x.linear_value_head_dim = y.linear_value_head_dim
      /\ x.full_layers = y.full_layers
      /\ x.mtp_num_hidden_layers = y.mtp_num_hidden_layers
      /\ x.dtype = y.dtype /\ x.mamba_ssm_dtype = y.mamba_ssm_dtype
      /\ x.num_hidden_layers = y.num_hidden_layers
      /\ x.max_position_embeddings = y.max_position_embeddings
      /\ x.attn_output_gate = y.attn_output_gate
      /\ x.linear_num_value_heads \div x.linear_num_key_heads
           = y.linear_num_value_heads \div y.linear_num_key_heads
      /\ x.head_dim \div x.rotary_divisor = y.head_dim \div y.rotary_divisor
  BY FieldsHeld
<1>3. /\ TypesAgree(c)
      /\ x.linear_num_value_heads % x.linear_num_key_heads = 0
      /\ x.head_dim % x.rotary_divisor = 0
  <2>1. "semantics" \in ConfigReaders
    BY DEF ConfigReaders, Locks
  <2>2. TypesAgree(c) /\ HeadsDivide("semantics", c)
    BY <2>1 DEF Passes, InstantiableFrom
  <2>3. /\ Live[c].linear_num_value_heads = x.linear_num_value_heads
        /\ Live[c].linear_num_key_heads = x.linear_num_key_heads
        /\ Live[c].head_dim = x.head_dim
    BY DEF Live, Derived
  <2> QED BY <2>2, <2>3 DEF HeadsDivide
<1>4. /\ y.linear_num_value_heads \in Nat \ {0} /\ y.head_dim \in Nat \ {0}
      /\ y.linear_num_value_heads % y.linear_num_key_heads = 0
      /\ y.head_dim % y.rotary_divisor = 0
  BY DossierAssumption DEF Positive
<1>5. x.full_attention_interval = y.full_attention_interval
  BY <1>2, <1>3, IntervalHeld
<1> HIDE DEF x, y
<1>6. x.linear_num_key_heads = y.linear_num_key_heads
  BY <1>1, <1>2, <1>3, <1>4, DivisorOf DEF TextConfigs, Positive
<1>7. x.rotary_divisor = y.rotary_divisor
  BY <1>1, <1>2, <1>3, <1>4, DivisorOf DEF TextConfigs, Positive
<1>8. ASSUME NEW f \in DOMAIN y \ {"rms_norm_eps"}
      PROVE  x[f] = y[f]
  <2>1. DOMAIN y = {"num_hidden_layers", "full_attention_interval", "full_layers",
                    "hidden_size", "intermediate_size", "vocab_size",
                    "num_attention_heads", "num_key_value_heads", "head_dim",
                    "linear_num_key_heads", "linear_num_value_heads",
                    "linear_key_head_dim", "linear_value_head_dim",
                    "linear_conv_kernel_dim", "mtp_num_hidden_layers",
                    "max_position_embeddings", "rotary_divisor", "rms_norm_eps",
                    "dtype", "mamba_ssm_dtype", "attn_output_gate"}
    BY <1>1 DEF TextConfigs
  <2> QED BY <1>2, <1>5, <1>6, <1>7, <2>1
<1> QED BY <1>8 DEF x, y, Described

-----------------------------------------------------------------------------
\* The order of a sweep, spelled out.
GateNames ==
    {"inventory", "semantics", "dataflow", "lifetime", "work",
     "numerical", "quantization", "format", "compiler", "graph",
     "fusion", "decode", "prefill", "layout", "hardware", "cuda",
     "validation", "performance", "architecture", "review"}

LEMMA SweepFacts ==
  /\ Last = 20 /\ SweepOrder[Last] = "review"
  /\ Gates = GateNames
  /\ ConfigReaders \subseteq Gates
<1>1. Last = 20
  BY DEF Last, SweepOrder
<1>2. SweepOrder[20] = "review"
  BY DEF SweepOrder
<1>3. \A i \in 1 .. 20 : SweepOrder[i] \in GateNames
  BY DEF SweepOrder, GateNames
<1>4. /\ SweepOrder[1] = "inventory"
      /\ SweepOrder[2] = "semantics"
      /\ SweepOrder[3] = "dataflow"
      /\ SweepOrder[4] = "lifetime"
      /\ SweepOrder[5] = "work"
      /\ SweepOrder[6] = "numerical"
      /\ SweepOrder[7] = "quantization"
      /\ SweepOrder[8] = "format"
      /\ SweepOrder[9] = "compiler"
      /\ SweepOrder[10] = "graph"
      /\ SweepOrder[11] = "fusion"
      /\ SweepOrder[12] = "decode"
      /\ SweepOrder[13] = "prefill"
      /\ SweepOrder[14] = "layout"
      /\ SweepOrder[15] = "hardware"
      /\ SweepOrder[16] = "cuda"
      /\ SweepOrder[17] = "validation"
      /\ SweepOrder[18] = "performance"
      /\ SweepOrder[19] = "architecture"
      /\ SweepOrder[20] = "review"
  BY DEF SweepOrder
<1>5. \A g \in GateNames : \E i \in 1 .. 20 : SweepOrder[i] = g
  BY <1>4 DEF GateNames
<1>6. Gates = GateNames
  <2>1. Gates = {SweepOrder[i] : i \in 1 .. 20}
    BY <1>1 DEF Gates
  <2> QED BY <1>3, <1>5, <2>1, Zenon
<1>7. ConfigReaders \subseteq Gates
  BY <1>6 DEF ConfigReaders, Locks, GateNames
<1> QED BY <1>1, <1>2, <1>6, <1>7

TypeInv ==
    /\ config \in Configs
    /\ from \in [Docs -> Configs]
    /\ DOMAIN wrong = Docs /\ DOMAIN text = Docs
    /\ done \in 0 .. Last

\* Every gate that has accepted in a sweep without a change of config.json
\* instantiates from it.
ReadSince ==
    drifted = "before" =>
        \A i \in 1 .. done : SweepOrder[i] \in ConfigReaders
            => config \in InstantiableFrom[SweepOrder[i]]

\* Every gate that has accepted in a sweep without any edit still accepts.
AcceptsSince ==
    drifted = "before" /\ touched = "before" =>
        \A i \in 1 .. done : Accepts(SweepOrder[i])

\* The review still accepts until something is edited after it.
Frozen ==
    done = Last /\ drifted # "after" /\ touched # "after" => Accepts("review")

DInv == TypeInv /\ ReadSince /\ AcceptsSince /\ Frozen

LEMMA AcceptsStays ==
  ASSUME UNCHANGED <<config, fence>>, NEW g
  PROVE  Accepts(g)' = Accepts(g)
BY DEF fence, Accepts, Instantiates, UpstreamHolds, ReadWrong, FenceMatches,
       CorpusAgrees, PresentKeysAgree, SameFence, Fence

LEMMA NowFact ==
  ASSUME done \in 0 .. Last
  PROVE  /\ Now = "before" => done = 0
         /\ done = Last => Now = "after"
BY SweepFacts DEF Now

\* An edit of a document, at any point of a sweep.
LEMMA Edited ==
  ASSUME DInv, TypeInv', UNCHANGED <<config, done, drifted>>, touched' = Now
  PROVE  DInv'
<1>1. Now = "before" => done = 0
  BY NowFact DEF DInv, TypeInv
<1>2. done = Last => Now = "after"
  BY NowFact DEF DInv, TypeInv
<1>3. ReadSince'
  BY DEF DInv, ReadSince
<1>4. AcceptsSince'
  BY <1>1 DEF AcceptsSince
<1>5. Frozen'
  BY <1>2 DEF Frozen
<1> QED BY <1>3, <1>4, <1>5 DEF DInv

LEMMA RunGateKeeps ==
  ASSUME DInv, RunGate
  PROVE  DInv'
<1> USE DEF DInv
<1>1. TypeInv'
  <2>1. done < Last /\ done' = done + 1 /\ done \in 0 .. Last /\ Last = 20
    BY SweepFacts DEF TypeInv, RunGate
  <2>2. done' \in 0 .. Last
    BY <2>1
  <2> QED BY <2>2 DEF TypeInv, RunGate, fence
<1>2. Accepts(SweepOrder[done + 1]) /\ UNCHANGED <<config, fence, touched, drifted>>
  BY DEF RunGate, fence
<1>3. done' = done + 1 /\ done \in Nat
  BY DEF RunGate, TypeInv
<1>4. \A g : Accepts(g)' = Accepts(g)
  BY <1>2, AcceptsStays
<1>5. ReadSince'
  <2>1. ASSUME drifted = "before", NEW i \in 1 .. done + 1,
               SweepOrder[i] \in ConfigReaders
        PROVE  config \in InstantiableFrom[SweepOrder[i]]
    <3>1. CASE i \in 1 .. done
      BY <2>1, <3>1 DEF ReadSince
    <3>2. CASE i = done + 1
      BY <1>2, <2>1, <3>2 DEF Accepts, Instantiates
    <3> QED BY <1>3, <3>1, <3>2
  <2>2. ASSUME drifted'
          = "before", NEW i \in 1 .. done', SweepOrder[i] \in ConfigReaders
        PROVE  config' \in InstantiableFrom[SweepOrder[i]]
    BY <1>2, <1>3, <2>1, <2>2
  <2> QED BY <2>2 DEF ReadSince
<1>6. AcceptsSince'
  <2>1. ASSUME drifted = "before", touched = "before", NEW i \in 1 .. done + 1
        PROVE  Accepts(SweepOrder[i])
    <3>1. CASE i \in 1 .. done
      BY <2>1, <3>1 DEF AcceptsSince
    <3>2. CASE i = done + 1
      BY <1>2, <3>2
    <3> QED BY <1>3, <3>1, <3>2
  <2>2. ASSUME drifted' = "before", touched' = "before", NEW i \in 1 .. done'
        PROVE  Accepts(SweepOrder[i])'
    BY <1>2, <1>3, <1>4, <2>1, <2>2
  <2> QED BY <2>2 DEF AcceptsSince
<1>7. Frozen'
  <2>1. ASSUME done' = Last PROVE Accepts("review")
    BY <1>2, <1>3, <2>1, SweepFacts
  <2> QED BY <1>4, <2>1 DEF Frozen
<1> QED BY <1>1, <1>5, <1>6, <1>7

LEMMA RestartKeeps ==
  ASSUME DInv, Restart
  PROVE  DInv'
<1>1. TypeInv'
  BY SweepFacts DEF DInv, TypeInv, Restart, fence
<1>2. done' = 0
  BY DEF Restart
<1>3. ReadSince' /\ AcceptsSince' /\ Frozen'
  BY <1>2, SweepFacts DEF ReadSince, AcceptsSince, Frozen
<1> QED BY <1>1, <1>3 DEF DInv

LEMMA RegenerateKeeps ==
  ASSUME DInv, Regenerate
  PROVE  DInv'
<1>1. TypeInv'
  BY DEF DInv, TypeInv, Regenerate
<1>2. UNCHANGED <<config, done, drifted>> /\ touched' = Now
  BY DEF Regenerate
<1> QED BY <1>1, <1>2, Edited

LEMMA EditKeeps ==
  ASSUME DInv, NEW d, NEW n, EditFence(d, n) \/ EditText(d, n) \/ Restore(d)
  PROVE  DInv'
<1>1. UNCHANGED <<config, done, drifted>> /\ touched' = Now
  BY DEF EditFence, EditText, Restore
<1>2. Sitting \in Configs
  BY DossierAssumption
<1>3. TypeInv'
  BY <1>2 DEF DInv, TypeInv, EditFence, EditText, Restore
<1> QED BY <1>1, <1>3, Edited

LEMMA ChangeConfigKeeps ==
  ASSUME DInv, NEW c \in Configs, ChangeConfig(c)
  PROVE  DInv'
<1>1. TypeInv'
  BY DEF DInv, TypeInv, ChangeConfig, fence
<1>2. done' = done /\ drifted' = Now
  BY DEF ChangeConfig
<1>3. Now = "before" => done = 0
  BY NowFact DEF DInv, TypeInv
<1>4. done = Last => Now = "after"
  BY NowFact DEF DInv, TypeInv
<1>5. ReadSince' /\ AcceptsSince' /\ Frozen'
  BY <1>2, <1>3, <1>4 DEF ReadSince, AcceptsSince, Frozen
<1> QED BY <1>1, <1>5 DEF DInv

LEMMA DInvHolds == Spec => []DInv
<1>1. Init => DInv
  <2>1. SUFFICES ASSUME Init PROVE DInv
    OBVIOUS
  <2>2. TypeInv
    BY <2>1, DossierAssumption, SweepFacts DEF Init, TypeInv
  <2>3. ReadSince /\ AcceptsSince /\ Frozen
    BY <2>1, SweepFacts DEF Init, ReadSince, AcceptsSince, Frozen
  <2> QED BY <2>2, <2>3 DEF DInv
<1>2. DInv /\ [Next]_vars => DInv'
  <2>1. SUFFICES ASSUME DInv, [Next]_vars PROVE DInv'
    OBVIOUS
  <2>2. CASE RunGate
    BY <2>1, <2>2, RunGateKeeps
  <2>3. CASE Restart
    BY <2>1, <2>3, RestartKeeps
  <2>4. CASE Regenerate
    BY <2>1, <2>4, RegenerateKeeps
  <2>5. CASE \E d \in EditDocs, n \in EditNames : EditFence(d, n)
    BY <2>1, <2>5, EditKeeps
  <2>6. CASE \E d \in EditDocs, f \in EditFaults : EditText(d, f)
    BY <2>1, <2>6, EditKeeps
  <2>7. CASE \E d \in Docs : Restore(d)
    BY <2>1, <2>7, EditKeeps
  <2>8. CASE \E c \in Configs : ChangeConfig(c)
    BY <2>1, <2>8, ChangeConfigKeeps
  <2>9. CASE UNCHANGED vars
    <3>1. UNCHANGED <<config, fence, sweep>>
      BY <2>9 DEF vars
    <3>2. \A g : Accepts(g)' = Accepts(g)
      BY <3>1, AcceptsStays
    <3> QED BY <2>1, <3>1, <3>2
            DEF DInv, TypeInv, ReadSince, AcceptsSince, Frozen, fence, sweep
  <2> QED BY <2>1, <2>2, <2>3, <2>4, <2>5, <2>6, <2>7, <2>8, <2>9 DEF Next
<1> QED BY <1>1, <1>2, PTL DEF Spec

-----------------------------------------------------------------------------
\* Two configurations that differ at most in the epsilon give the same numbers.
Quantities ==
    {"hidden_size", "intermediate_size", "vocab_size", "n_decoder_layers",
     "n_mtp_blocks", "n_kv_heads", "n_attn_heads", "head_dim",
     "linear_num_key_heads", "linear_num_value_heads",
     "linear_key_head_dim", "linear_value_head_dim",
     "linear_conv_kernel_dim", "model_T_max", "eps", "dtype",
     "mamba_ssm_dtype", "attn_output_gate", "full_attention_indices",
     "n_full_layers", "n_linear_layers", "n_full_layers_with_kv",
     "n_node_instances_complete", "n_node_instances_paired", "rotary_dim",
     "gqa_group_size", "linear_kv_repeat", "linear_conv_delay",
     "linear_qkv_width", "linear_qkv_by_role", "linear_z_width", "g_elems",
     "k_rope_elems", "residual_bytes", "logits_bytes",
     "mac_full_proj_per_layer", "mac_lin_token_per_layer",
     "mac_mlp_per_layer", "mac_lm_head", "mac_C_complete",
     "mac_A_complete", "mac_decode_complete_T1", "mlp_n", "embed_n",
     "linear_attn_bytes", "self_attn_bytes",
     "weight_bytes_unique_non_embed",
     "weight_bytes_language_mtp_excl_vision", "n_language_mtp_parameters",
     "kv_elems_per_full_layer", "kv_bytes_all_per_token",
     "c_bytes_per_layer", "c_bytes_all", "s_elems_per_layer",
     "s_bytes_all", "storage_fixed_bytes", "decode_write_bytes"}

LEMMA QuantitiesFact ==
  ASSUME NEW x
  PROVE  DOMAIN Derived(x) = Quantities
BY DEF Derived, Quantities

LEMMA SameNumbers ==
  ASSUME NEW x \in TextConfigs, NEW y \in TextConfigs,
         \A f \in DOMAIN y \ {"rms_norm_eps"} : x[f] = y[f]
  PROVE  \A q \in Quantities \ {"eps"} : Derived(x)[q] = Derived(y)[q]
<1>1. DOMAIN y = {"num_hidden_layers", "full_attention_interval", "full_layers",
                  "hidden_size", "intermediate_size", "vocab_size",
                  "num_attention_heads", "num_key_value_heads", "head_dim",
                  "linear_num_key_heads", "linear_num_value_heads",
                  "linear_key_head_dim", "linear_value_head_dim",
                  "linear_conv_kernel_dim", "mtp_num_hidden_layers",
                  "max_position_embeddings", "rotary_divisor", "rms_norm_eps",
                  "dtype", "mamba_ssm_dtype", "attn_output_gate"}
  BY DEF TextConfigs
<1>2. /\ x.hidden_size = y.hidden_size
      /\ x.intermediate_size = y.intermediate_size
      /\ x.vocab_size = y.vocab_size /\ x.head_dim = y.head_dim
      /\ x.num_attention_heads = y.num_attention_heads
      /\ x.num_key_value_heads = y.num_key_value_heads
      /\ x.linear_conv_kernel_dim = y.linear_conv_kernel_dim
      /\ x.linear_num_key_heads = y.linear_num_key_heads
      /\ x.linear_num_value_heads = y.linear_num_value_heads
      /\ x.linear_key_head_dim = y.linear_key_head_dim
      /\ x.linear_value_head_dim = y.linear_value_head_dim
      /\ x.full_layers = y.full_layers
      /\ x.full_attention_interval = y.full_attention_interval
      /\ x.mtp_num_hidden_layers = y.mtp_num_hidden_layers
      /\ x.dtype = y.dtype /\ x.mamba_ssm_dtype = y.mamba_ssm_dtype
      /\ x.num_hidden_layers = y.num_hidden_layers
      /\ x.max_position_embeddings = y.max_position_embeddings
      /\ x.rotary_divisor = y.rotary_divisor
      /\ x.attn_output_gate = y.attn_output_gate
  BY <1>1
<1>3. Sizes(x)!NLayers = Sizes(y)!NLayers
  BY <1>2 DEF Sizes!NLayers
<1>4. Sizes(x)!Layers = Sizes(y)!Layers
  BY <1>2, <1>3 DEF Sizes!Layers
<1>5. Sizes(x)!FullLayers = Sizes(y)!FullLayers
  BY <1>2, <1>4 DEF Sizes!FullLayers
<1>6. Sizes(x)!LinearLayers = Sizes(y)!LinearLayers
  BY <1>2, <1>4, <1>5 DEF Sizes!LinearLayers
<1>7. Sizes(x)!MtpBlocks = Sizes(y)!MtpBlocks
  BY <1>2 DEF Sizes!MtpBlocks
<1>8. Sizes(x)!H = Sizes(y)!H
  BY <1>2 DEF Sizes!H
<1>9. Sizes(x)!QkvWidth = Sizes(y)!QkvWidth
  BY <1>2 DEF Sizes!QkvWidth
<1>10. Sizes(x)!ZWidth = Sizes(y)!ZWidth
  BY <1>2 DEF Sizes!ZWidth
<1>11. Sizes(x)!Delay = Sizes(y)!Delay
  BY <1>2 DEF Sizes!Delay
<1>12. Sizes(x)!GWidth = Sizes(y)!GWidth
  BY <1>2 DEF Sizes!GWidth
<1>13. Sizes(x)!KvWidth = Sizes(y)!KvWidth
  BY <1>2 DEF Sizes!KvWidth
<1>14. Sizes(x)!MacFullProj = Sizes(y)!MacFullProj
  BY <1>2, <1>12, <1>8, <1>13 DEF Sizes!MacFullProj
<1>15. Sizes(x)!MacAttnCoeff = Sizes(y)!MacAttnCoeff
  BY <1>2, <1>12 DEF Sizes!MacAttnCoeff
<1>16. Sizes(x)!MacLinToken = Sizes(y)!MacLinToken
  BY <1>2, <1>9, <1>10, <1>8 DEF Sizes!MacLinToken
<1>17. Sizes(x)!MacMlp = Sizes(y)!MacMlp
  BY <1>2, <1>8 DEF Sizes!MacMlp
<1>18. Sizes(x)!MacLmHead = Sizes(y)!MacLmHead
  BY <1>2, <1>8 DEF Sizes!MacLmHead
<1>19. Sizes(x)!MacMtpFc = Sizes(y)!MacMtpFc
  BY <1>2, <1>8 DEF Sizes!MacMtpFc
<1>20. Sizes(x)!LinParams = Sizes(y)!LinParams
  BY <1>2, <1>9, <1>8, <1>10 DEF Sizes!LinParams
<1>21. Sizes(x)!FullParams = Sizes(y)!FullParams
  BY <1>2, <1>12, <1>13, <1>8 DEF Sizes!FullParams
<1>22. Sizes(x)!KvBytes = Sizes(y)!KvBytes
  BY <1>2, <1>13 DEF Sizes!KvBytes, Sizes!Bf16
<1>23. Sizes(x)!CBytes = Sizes(y)!CBytes
  BY <1>2, <1>11, <1>9 DEF Sizes!CBytes, Sizes!Bf16
<1>24. Sizes(x)!SBytes = Sizes(y)!SBytes
  BY <1>2 DEF Sizes!SBytes, Sizes!F32
<1>25. Sizes(x)!NFull = Sizes(y)!NFull
  <2> DEFINE S == Sizes(y)!FullLayers
  <2>1. Sizes(x)!Cardinality(S) = Sizes(y)!Cardinality(S)
    BY DEF Sizes!Cardinality
  <2> QED BY <1>5, <2>1 DEF Sizes!NFull
<1>26. Sizes(x)!NLinear = Sizes(y)!NLinear
  <2> DEFINE S == Sizes(y)!LinearLayers
  <2>1. Sizes(x)!Cardinality(S) = Sizes(y)!Cardinality(S)
    BY DEF Sizes!Cardinality
  <2> QED BY <1>6, <2>1 DEF Sizes!NLinear
<1>27. Sizes(x)!MacC = Sizes(y)!MacC
  BY <1>2, <1>26, <1>16, <1>25, <1>14, <1>3, <1>17, <1>18, <1>19 DEF Sizes!MacC
<1>28. Sizes(x)!MacA = Sizes(y)!MacA
  BY <1>2, <1>25, <1>15 DEF Sizes!MacA
<1>29. Sizes(x)!DecodeMac(1) = Sizes(y)!DecodeMac(1)
  BY <1>2, <1>27, <1>28 DEF Sizes!DecodeMac
<1>30. Sizes(x)!MtpParams = Sizes(y)!MtpParams
  BY <1>2, <1>8, <1>21 DEF Sizes!MtpParams
<1>31. Sizes(x)!UniqueBytes = Sizes(y)!UniqueBytes
  BY <1>2, <1>8, <1>3, <1>26, <1>20, <1>25, <1>21, <1>30
     DEF Sizes!UniqueBytes, Sizes!Bf16
<1>32. Sizes(x)!KvAll = Sizes(y)!KvAll
  BY <1>2, <1>25, <1>7, <1>22 DEF Sizes!KvAll
<1>33. Sizes(x)!CWriteAll = Sizes(y)!CWriteAll
  BY <1>2, <1>26, <1>9 DEF Sizes!CWriteAll, Sizes!Bf16
<1>34. Sizes(x)!CReadAll = Sizes(y)!CReadAll
  BY <1>2, <1>26, <1>23 DEF Sizes!CReadAll
<1>35. Sizes(x)!SAll = Sizes(y)!SAll
  BY <1>2, <1>26, <1>24 DEF Sizes!SAll
<1>36. Sizes(x)!StorageBytes(0) = Sizes(y)!StorageBytes(0)
  BY <1>2, <1>32, <1>34, <1>35 DEF Sizes!StorageBytes
<1>37. /\ Derived(x)["hidden_size"] = Derived(y)["hidden_size"]
      /\ Derived(x)["intermediate_size"] = Derived(y)["intermediate_size"]
      /\ Derived(x)["vocab_size"] = Derived(y)["vocab_size"]
      /\ Derived(x)["n_decoder_layers"] = Derived(y)["n_decoder_layers"]
      /\ Derived(x)["n_mtp_blocks"] = Derived(y)["n_mtp_blocks"]
  BY <1>2 DEF Derived
<1>38. /\ Derived(x)["n_kv_heads"] = Derived(y)["n_kv_heads"]
      /\ Derived(x)["n_attn_heads"] = Derived(y)["n_attn_heads"]
      /\ Derived(x)["head_dim"] = Derived(y)["head_dim"]
      /\ Derived(x)["linear_num_key_heads"] = Derived(y)["linear_num_key_heads"]
      /\ Derived(x)["linear_num_value_heads"] = Derived(y)["linear_num_value_heads"]
  BY <1>2 DEF Derived
<1>39. /\ Derived(x)["linear_key_head_dim"] = Derived(y)["linear_key_head_dim"]
      /\ Derived(x)["linear_value_head_dim"] = Derived(y)["linear_value_head_dim"]
      /\ Derived(x)["linear_conv_kernel_dim"] = Derived(y)["linear_conv_kernel_dim"]
      /\ Derived(x)["model_T_max"] = Derived(y)["model_T_max"]
      /\ Derived(x)["dtype"] = Derived(y)["dtype"]
  BY <1>2 DEF Derived
<1>40. /\ Derived(x)["mamba_ssm_dtype"] = Derived(y)["mamba_ssm_dtype"]
      /\ Derived(x)["attn_output_gate"] = Derived(y)["attn_output_gate"]
      /\ Derived(x)["full_attention_indices"] = Derived(y)["full_attention_indices"]
      /\ Derived(x)["n_full_layers"] = Derived(y)["n_full_layers"]
      /\ Derived(x)["n_linear_layers"] = Derived(y)["n_linear_layers"]
  BY <1>2 DEF Derived
<1>41. /\ Derived(x)["n_full_layers_with_kv"] = Derived(y)["n_full_layers_with_kv"]
      /\ Derived(x)["n_node_instances_complete"]
           = Derived(y)["n_node_instances_complete"]
      /\ Derived(x)["n_node_instances_paired"]
           = Derived(y)["n_node_instances_paired"]
      /\ Derived(x)["rotary_dim"] = Derived(y)["rotary_dim"]
      /\ Derived(x)["gqa_group_size"] = Derived(y)["gqa_group_size"]
  BY <1>2, <1>25, <1>26 DEF Derived, NodeInstances, PairedInstances
<1>42. /\ Derived(x)["linear_kv_repeat"] = Derived(y)["linear_kv_repeat"]
      /\ Derived(x)["linear_conv_delay"] = Derived(y)["linear_conv_delay"]
      /\ Derived(x)["linear_qkv_width"] = Derived(y)["linear_qkv_width"]
      /\ Derived(x)["linear_qkv_by_role"] = Derived(y)["linear_qkv_by_role"]
      /\ Derived(x)["linear_z_width"] = Derived(y)["linear_z_width"]
  BY <1>2, <1>9, <1>10, <1>11 DEF Derived
<1>43. /\ Derived(x)["g_elems"] = Derived(y)["g_elems"]
      /\ Derived(x)["k_rope_elems"] = Derived(y)["k_rope_elems"]
      /\ Derived(x)["residual_bytes"] = Derived(y)["residual_bytes"]
      /\ Derived(x)["logits_bytes"] = Derived(y)["logits_bytes"]
      /\ Derived(x)["mac_full_proj_per_layer"]
           = Derived(y)["mac_full_proj_per_layer"]
  BY <1>2, <1>12, <1>13, <1>14 DEF Derived, Sizes!Bf16
<1>44. /\ Derived(x)["mac_lin_token_per_layer"]
            = Derived(y)["mac_lin_token_per_layer"]
      /\ Derived(x)["mac_mlp_per_layer"] = Derived(y)["mac_mlp_per_layer"]
      /\ Derived(x)["mac_lm_head"] = Derived(y)["mac_lm_head"]
      /\ Derived(x)["mac_C_complete"] = Derived(y)["mac_C_complete"]
      /\ Derived(x)["mac_A_complete"] = Derived(y)["mac_A_complete"]
  BY <1>2, <1>16, <1>17, <1>18, <1>27, <1>28 DEF Derived
<1>45. /\ Derived(x)["mac_decode_complete_T1"]
            = Derived(y)["mac_decode_complete_T1"]
      /\ Derived(x)["mlp_n"] = Derived(y)["mlp_n"]
      /\ Derived(x)["embed_n"] = Derived(y)["embed_n"]
      /\ Derived(x)["linear_attn_bytes"] = Derived(y)["linear_attn_bytes"]
      /\ Derived(x)["self_attn_bytes"] = Derived(y)["self_attn_bytes"]
  BY <1>2, <1>17, <1>18, <1>20, <1>21, <1>25, <1>26, <1>29 DEF Derived
<1>46. /\ Derived(x)["weight_bytes_unique_non_embed"]
            = Derived(y)["weight_bytes_unique_non_embed"]
      /\ Derived(x)["weight_bytes_language_mtp_excl_vision"]
           = Derived(y)["weight_bytes_language_mtp_excl_vision"]
      /\ Derived(x)["n_language_mtp_parameters"]
           = Derived(y)["n_language_mtp_parameters"]
      /\ Derived(x)["kv_elems_per_full_layer"]
           = Derived(y)["kv_elems_per_full_layer"]
      /\ Derived(x)["kv_bytes_all_per_token"] = Derived(y)["kv_bytes_all_per_token"]
  BY <1>2, <1>13, <1>18, <1>31, <1>32 DEF Derived, Sizes!Bf16
<1>47. /\ Derived(x)["c_bytes_per_layer"] = Derived(y)["c_bytes_per_layer"]
      /\ Derived(x)["c_bytes_all"] = Derived(y)["c_bytes_all"]
      /\ Derived(x)["s_elems_per_layer"] = Derived(y)["s_elems_per_layer"]
      /\ Derived(x)["s_bytes_all"] = Derived(y)["s_bytes_all"]
      /\ Derived(x)["storage_fixed_bytes"] = Derived(y)["storage_fixed_bytes"]
  BY <1>2, <1>23, <1>24, <1>34, <1>35, <1>36 DEF Derived
<1>48. /\ Derived(x)["decode_write_bytes"] = Derived(y)["decode_write_bytes"]
  BY <1>2, <1>32, <1>33, <1>35 DEF Derived
<1> QED BY <1>37, <1>38, <1>39, <1>40, <1>41, <1>42, <1>43, <1>44, <1>45, <1>46,
           <1>47, <1>48 DEF Quantities

-----------------------------------------------------------------------------
LEMMA SameValues ==
  ASSUME NEW c \in Configs, Passes(c)
  PROVE  \A q \in Quantities \ {"eps"} : Live[c][q] = Live[Sitting][q]
<1>1. Configurations[c] \in TextConfigs /\ Configurations[Sitting] \in TextConfigs
  BY ConfigTypes
<1>2. \A f \in DOMAIN Configurations[Sitting] \ {"rms_norm_eps"} :
        Configurations[c][f] = Configurations[Sitting][f]
  BY LocksDetermine DEF Described
<1>3. \A q \in Quantities \ {"eps"} :
        Derived(Configurations[c])[q] = Derived(Configurations[Sitting])[q]
  BY <1>1, <1>2, SameNumbers
<1>4. Sitting \in Configs
  BY ConfigTypes
<1> QED BY <1>3, <1>4 DEF Live

\* Of the sitting model, the two widths of qkv are one, and so are the two counts
\* of node instances.
LEMMA TwoFormulas ==
  /\ Live[Sitting]["linear_qkv_by_role"] = Live[Sitting]["linear_qkv_width"]
  /\ Live[Sitting]["n_node_instances_paired"]
       = Live[Sitting]["n_node_instances_complete"]
<1> DEFINE y == Configurations[Sitting]
<1>1. Sitting \in Configs /\ y \in TextConfigs
  BY DossierAssumption DEF Configs
<1>2. y.mtp_num_hidden_layers = 1 /\ y.linear_key_head_dim = y.linear_value_head_dim
  BY DossierAssumption
<1>3. Live[Sitting] = Derived(y)
  BY <1>1 DEF Live
<1> HIDE DEF y
<1>4. Derived(y)["linear_qkv_by_role"] = Derived(y)["linear_qkv_width"]
  <2>1. /\ Derived(y)["linear_qkv_by_role"]
             = 2 * y.linear_num_key_heads * y.linear_key_head_dim
                 + y.linear_num_value_heads * y.linear_value_head_dim
        /\ Derived(y)["linear_qkv_width"]
             = (2 * y.linear_num_key_heads + y.linear_num_value_heads)
                 * y.linear_key_head_dim
    BY DEF Derived, Sizes!ZWidth, Sizes!QkvWidth
  <2>2. PICK k \in Int, v \in Int, w \in Int :
          /\ k = y.linear_num_key_heads /\ v = y.linear_num_value_heads
          /\ w = y.linear_key_head_dim
    BY <1>1 DEF TextConfigs, Positive
  <2>3. 2 * k * w + v * w = (2 * k + v) * w
    BY SMT
  <2> QED BY <1>2, <2>1, <2>2, <2>3
<1>5. Derived(y)["n_node_instances_paired"]
        = Derived(y)["n_node_instances_complete"]
  BY <1>1, <1>2 DEF Derived, NodeInstances, PairedInstances, TextConfigs, Positive
<1> QED BY <1>3, <1>4, <1>5

\* What a document of one model says of a quantity.
OneModel(c, q) ==
    IF q \notin Quantities THEN q
    ELSE IF q = "eps" THEN Live[c]["eps"] ELSE Live[Sitting][q]

LEMMA ValueIsOneModel ==
  ASSUME NEW c \in Configs, Passes(c), NEW d \in Docs, NEW n \in States[d]
  PROVE  Value(d, n, c) = OneModel(c, Meaning(n))
<1>1. DOMAIN Live[Sitting] = Quantities
  BY ConfigTypes, QuantitiesFact DEF Live
<1>2. \A q \in Quantities \ {"eps"} : Live[c][q] = Live[Sitting][q]
  BY SameValues
<1>3. \A q : q \in CitedBy(d) => q # "eps"
  BY DEF CitedBy, Cited
<1>4. CASE d = "semantics" /\ n = "linear_qkv_width"
  <2>1. Quantity(d, n) = "linear_qkv_by_role" /\ Meaning(n) = "linear_qkv_width"
    BY <1>4 DEF Quantity, Meaning, Synonyms
  <2>2. /\ "linear_qkv_by_role" \in Quantities \ {"eps"}
        /\ "linear_qkv_width" \in Quantities \ {"eps"}
    BY DEF Quantities
  <2> QED BY <1>1, <1>2, <2>1, <2>2, TwoFormulas DEF Value, OneModel
<1>5. CASE /\ d \in {"cuda", "performance", "architecture", "backlog", "review"}
           /\ n = "n_node_instances_complete"
  <2>1. /\ Quantity(d, n) = "n_node_instances_paired"
        /\ Meaning(n) = "n_node_instances_complete"
    BY <1>5 DEF Quantity, Meaning, Synonyms
  <2>2. /\ "n_node_instances_paired" \in Quantities \ {"eps"}
        /\ "n_node_instances_complete" \in Quantities \ {"eps"}
    BY DEF Quantities
  <2> QED BY <1>1, <1>2, <2>1, <2>2, TwoFormulas DEF Value, OneModel
<1>6. CASE /\ ~(d = "semantics" /\ n = "linear_qkv_width")
           /\ ~(/\ d \in {"cuda", "performance", "architecture", "backlog", "review"}
                /\ n = "n_node_instances_complete")
  <2>1. Quantity(d, n) = Meaning(n)
    BY <1>6 DEF Quantity
  <2>2. ASSUME Meaning(n) = "eps"
        PROVE  d \notin {"inventory", "tensors"}
    <3>1. n = "eps"
      BY <2>2 DEF Meaning, Synonyms
    <3>2. "eps" \notin States["inventory"] /\ "eps" \notin States["tensors"]
      BY DEF States, InventoryStates, TensorStates
    <3> QED BY <3>1, <3>2
  <2>3. CASE Meaning(n) \notin Quantities
    BY <1>1, <2>1, <2>3 DEF Value, OneModel
  <2>4. CASE Meaning(n) = "eps"
    BY <1>1, <1>3, <2>1, <2>2, <2>4 DEF Value, OneModel, Quantities
  <2>5. CASE Meaning(n) \in Quantities \ {"eps"}
    BY <1>1, <1>2, <2>1, <2>5 DEF Value, OneModel
  <2> QED BY <2>3, <2>4, <2>5
<1> QED BY <1>4, <1>5, <1>6

LEMMA FenceValue ==
  ASSUME NEW c \in Configs, NEW d \in Docs, NEW n \in States[d]
  PROVE  Summary[c][d][n] = Value(d, n, c)
BY DEF Summary

\* Statements that all have one value.
LEMMA OneValueFact ==
  ASSUME NEW S, NEW v,
         \A s \in S : s[2] \notin wrong[s[1]] /\ Fence(s[1])[s[2]] = v
  PROVE  OneValue(S)
<1>1. {Fence(s[1])[s[2]] : s \in S} \subseteq {v}
  OBVIOUS
<1>2. IsFiniteSet({v}) /\ Cardinality({v}) = 1
  BY FS_Singleton
<1>3. Cardinality({Fence(s[1])[s[2]] : s \in S}) <= 1
  BY <1>1, <1>2, FS_Subset
<1> QED BY <1>3 DEF OneValue

LEMMA StatementParts ==
  ASSUME NEW s \in Statements
  PROVE  s[1] \in Docs /\ s[2] \in States[s[1]]
BY DEF Statements

\* What the review has compared when it accepts.
LEMMA ReviewCompares ==
  ASSUME TypeInv, Accepts("review"), NEW d \in Docs, NEW n \in States[d],
         KeyOf(n) \in Compared
  PROVE  /\ n \notin wrong[d]
         /\ Fence(d)[n] = Value("review", KeyOf(n), config)
<1>1. /\ CorpusAgrees /\ FenceMatches("review")
      /\ config \in Configs /\ from[d] \in Configs
  BY DEF Accepts, Instantiates, TypeInv
<1>2. CASE d \in Corpus
  <2>1. PresentKeysAgree(d) /\ n \in PresentKeys[d]
    BY <1>1, <1>2 DEF CorpusAgrees, PresentKeys
  <2>2. n \notin wrong[d] /\ config \in NoDifference[d][from[d]]
    BY <2>1 DEF PresentKeysAgree
  <2>3. Summary[from[d]][d][n] = ComparisonLocked[config][KeyOf(n)]
    BY <1>1, <1>2, <2>1, <2>2 DEF NoDifference
  <2>4. ComparisonLocked[config][KeyOf(n)] = Value("review", KeyOf(n), config)
    BY <1>1 DEF ComparisonLocked
  <2> QED BY <2>2, <2>3, <2>4 DEF Fence
<1>3. CASE d = "review"
  <2>1. wrong["review"] = {} /\ Fence("review") = Summary[config]["review"]
    BY <1>1 DEF FenceMatches, Owned, ReadWrong
  <2>2. n \in ReviewStates
    BY <1>3 DEF States
  <2>3. KeyOf(n) = n
    BY <2>2 DEF KeyOf, ReviewStates, Outer, Shape, Weights
  <2> QED BY <1>1, <1>3, <2>1, <2>3, FenceValue
<1> QED BY <1>2, <1>3 DEF Docs

-----------------------------------------------------------------------------
LEMMA SweepPasses ==
  ASSUME DInv, Swept, drifted = "before"
  PROVE  config \in Configs /\ Passes(config)
<1>1. ASSUME NEW g \in ConfigReaders
      PROVE  config \in InstantiableFrom[g]
  <2>1. PICK i \in 1 .. Last : SweepOrder[i] = g
    BY SweepFacts DEF Gates
  <2> QED BY <2>1 DEF DInv, ReadSince, Swept
<1> QED BY <1>1 DEF Passes, DInv, TypeInv

(* A sweep that ended without a change of config.json since it began ran on   *)
(* the sitting model in every dimension but the epsilon, which no script     *)
(* asserts: check_layout_strategy.py, check_model_semantics.py and            *)
(* check_numerical_contracts.py together determine each of them.              *)
THEOREM SweptConfigHolds == Spec => []SweptConfigIsSitting
<1>1. DInv => SweptConfigIsSitting
  BY SweepPasses, LocksDetermine DEF SweptConfigIsSitting, Described
<1> QED BY <1>1, DInvHolds, PTL

(* When the review accepts, and until something is edited after it, any two    *)
(* fences that state a quantity it compares state one value, and the backlog   *)
(* repeats the architecture, whatever was edited after a document's own        *)
(* script had accepted it (check_clean_sheet_review.py, compare_corpus_fences).*)
THEOREM FreezeHolds == Spec => []FreezeSeesLateEdits
<1>1. ASSUME TypeInv, Accepts("review")
      PROVE  /\ \A q \in Compared : OneValue(ComparedStating[q])
             /\ SameFence("architecture", "backlog")
  <2>1. ASSUME NEW q \in Compared
        PROVE  OneValue(ComparedStating[q])
    <3>1. ComparedStating[q] = {s \in Statements : KeyOf(s[2]) = q}
      BY <2>1 DEF ComparedStating
    <3>2. \A s \in ComparedStating[q] :
            /\ s[2] \notin wrong[s[1]]
            /\ Fence(s[1])[s[2]] = Value("review", q, config)
      BY <1>1, <3>1, StatementParts, ReviewCompares
    <3> QED BY <3>2, OneValueFact
  <2>2. SameFence("architecture", "backlog")
    BY <1>1 DEF Accepts, Instantiates, CorpusAgrees
  <2> QED BY <2>1, <2>2
<1>2. DInv => FreezeSeesLateEdits
  BY <1>1 DEF DInv, Frozen, FreezeSeesLateEdits, Swept
<1> QED BY <1>2, DInvHolds, PTL

LEMMA SweptFences ==
  ASSUME DInv, Swept, drifted = "before", touched = "before",
         NEW d \in Docs \ {"tensors"}
  PROVE  /\ wrong[d] = {} /\ Fence(d) = Summary[config][d]
         /\ text[d] \cap Refuses[d] = {}
<1>1. ASSUME NEW g \in Gates PROVE Accepts(g)
  <2>1. PICK i \in 1 .. Last : SweepOrder[i] = g
    BY DEF Gates
  <2> QED BY <2>1 DEF DInv, AcceptsSince, Swept
<1>2. \E g \in Gates : d \in Owned(g)
  BY SweepFacts DEF Owned, Docs, Corpus, GateNames
<1>3. PICK g \in Gates : d \in Owned(g)
  BY <1>2
<1>4. /\ wrong[d] = ReadWrong(g) /\ Fence(d) = Summary[config][d]
      /\ text[d] \cap Refuses[d] = {}
  BY <1>1, <1>3 DEF Accepts, FenceMatches
<1>5. wrong["compiler"] = {}
  <2>1. "compiler" \in Gates
    BY SweepFacts DEF GateNames
  <2> QED BY <1>1, <2>1 DEF Accepts, FenceMatches, Owned, ReadWrong
<1>6. ReadWrong(g) = {}
  BY <1>5 DEF ReadWrong
<1> QED BY <1>4, <1>6

\* The fence of the tensor analysis has no script in the sweep: the review compares
\* all of it but the pooled maximum, which it asserts.
LEMMA SweptTensors ==
  ASSUME DInv, Swept, drifted = "before", touched = "before",
         NEW n \in States["tensors"]
  PROVE  /\ n \notin wrong["tensors"]
         /\ Fence("tensors")[n] = OneModel(config, Meaning(n))
<1>1. Accepts("review") /\ TypeInv /\ config \in Configs /\ Passes(config)
  BY SweepPasses DEF DInv, Frozen, Swept
<1>2. n \in TensorStates
  BY DEF States
<1>3. KeyOf(n) = n /\ Meaning(n) = n
  BY <1>2 DEF KeyOf, Meaning, Synonyms, TensorStates
<1>4. "tensors" \in Docs
  BY DEF Docs, Corpus
<1>5. CASE n = "pooled_absmax"
  <2>1. n \notin wrong["tensors"]
    BY <1>1, <1>5 DEF Accepts, Instantiates, CorpusAgrees
  <2>2. n \notin Quantities
    BY <1>5 DEF Quantities
  <2>3. from["tensors"] \in Configs
    BY <1>1, <1>4 DEF TypeInv
  <2>4. Fence("tensors")[n] = Value("tensors", n, from["tensors"])
    BY <1>4, <2>3, FenceValue DEF Fence
  <2>5. Quantity("tensors", n) = n
    BY <1>3 DEF Quantity
  <2>6. DOMAIN Live[Sitting] = Quantities
    BY DossierAssumption, QuantitiesFact DEF Live
  <2> QED BY <1>3, <2>1, <2>2, <2>4, <2>5, <2>6 DEF Value, OneModel
<1>6. CASE n # "pooled_absmax"
  <2>1. n \in Compared /\ n \in States["review"] /\ "review" \in Docs
    BY <1>2, <1>6 DEF TensorStates, Compared, Weights, States, ReviewStates, Docs
  <2>2. /\ n \notin wrong["tensors"]
        /\ Fence("tensors")[n] = Value("review", n, config)
    BY <1>1, <1>3, <1>4, <2>1, ReviewCompares
  <2>3. Value("review", n, config) = OneModel(config, Meaning(n))
    BY <1>1, <2>1, ValueIsOneModel
  <2> QED BY <2>2, <2>3
<1> QED BY <1>5, <1>6

(* A sweep that ended with nothing edited since it began leaves one model in  *)
(* the dossier: all fences that state one quantity, under whatever names and  *)
(* by whichever of two formulas their scripts compute it, state one value, and*)
(* no design document claims a winner.                                        *)
THEOREM SweptDossierHolds == Spec => []SweptDossierIsOneModel
<1>1. ASSUME DInv, Swept, drifted = "before", touched = "before"
      PROVE  /\ \A q \in DOMAIN Stating : OneValue(Stating[q])
             /\ \A d \in DesignDocs : "Claim" \notin text[d]
  <2>1. config \in Configs /\ Passes(config)
    BY <1>1, SweepPasses
  <2>2. ASSUME NEW d \in Docs, NEW n \in States[d]
        PROVE  n \notin wrong[d] /\ Fence(d)[n] = OneModel(config, Meaning(n))
    <3>1. CASE d = "tensors"
      BY <1>1, <2>2, <3>1, SweptTensors
    <3>2. CASE d # "tensors"
      <4>1. wrong[d] = {} /\ Fence(d) = Summary[config][d]
        BY <1>1, <3>2, SweptFences
      <4> QED BY <2>1, <4>1, FenceValue, ValueIsOneModel
    <3> QED BY <3>1, <3>2
  <2>3. ASSUME NEW q \in DOMAIN Stating
        PROVE  OneValue(Stating[q])
    <3>1. Stating[q] = {s \in Statements : Meaning(s[2]) = q}
      BY DEF Stating
    <3>2. \A s \in Stating[q] :
            s[2] \notin wrong[s[1]] /\ Fence(s[1])[s[2]] = OneModel(config, q)
      BY <2>2, <3>1, StatementParts
    <3> QED BY <3>2, OneValueFact
  <2>4. ASSUME NEW d \in DesignDocs
        PROVE  "Claim" \notin text[d]
    <3>1. d \in Docs \ {"tensors"} /\ "Claim" \in Refuses[d]
      BY DEF DesignDocs
    <3>2. text[d] \cap Refuses[d] = {}
      BY <1>1, <3>1, SweptFences
    <3> QED BY <3>1, <3>2
  <2> QED BY <2>3, <2>4
<1>2. DInv => SweptDossierIsOneModel
  BY <1>1 DEF SweptDossierIsOneModel
<1> QED BY <1>2, DInvHolds, PTL
=============================================================================
