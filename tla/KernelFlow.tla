----------------------------- MODULE KernelFlow -----------------------------
(* The kernels of one decode step or one prefill chunk, in the order they are *)
(* put on the stream, as reads and writes of device memory: the scratch that  *)
(* ArenaPlan has placed, the residual rows, and the workspaces of the prefill. *)
(* A buffer is a range of bytes and its contents are named by what they are   *)
(* (a quantity of a layer); a kernel that writes a byte destroys what else    *)
(* was there.  One row tile stands for all the tiles of a projection.         *)
EXTENDS ArenaPlan

CONSTANTS Layers,        \* number of language layers
          KvCapacities,  \* capacities a session may be created with
          RowCounts      \* lengths of a prefill chunk

TokenCapacity == 512     \* kArenaTokenCapacity

ASSUME FlowAssumption == /\ Layers \in Nat \ {0}
                         /\ KvCapacities \subseteq Nat
                         /\ RowCounts \subseteq 1 .. TokenCapacity

VARIABLES flow,     \* "idle", "running", "done"
          unit,     \* kind of unit, rows of the chunk, weight formats
          layer, at,          \* the kernel to launch: place in the layer's schedule
          residual, mid, next,  \* buffers of residual rows
          memory    \* set of contents: where, what, and the stage that wrote it
flowVars == <<flow, unit, layer, at, residual, mid, next, memory>>

-----------------------------------------------------------------------------
\* Views of device memory.
View(buffer, slot, first, bytes) ==
    [buffer |-> buffer, slot |-> slot, first |-> first, last |-> first + bytes]

Overlap(v, w) == v.buffer = w.buffer /\ RangesOverlap(v.first, v.last, w.first, w.last)

Contains(v, w) == v.buffer = w.buffer /\ v.first <= w.first /\ w.last <= v.last

Holding(view, quantity) == [view |-> view, value |-> <<quantity, layer>>]

Kernel(stage, reads, writes) == [stage |-> stage, reads |-> reads, writes |-> writes]

Rows == unit.rows

\* Rows padded to the tile of the packed formats.
Padded(m) == ((m + 127) \div 128) * 128

\* A buffer carved into regions, in order, each of so many bytes for each row.
Carved(carving, name) ==
    LET start[i \in DOMAIN carving] == IF i = 1 THEN 0 ELSE start[i - 1] + carving[i - 1][2]
        place == CHOOSE i \in DOMAIN carving : carving[i][1] = name
    IN  [first |-> start[place], bytes |-> carving[place][2]]

CarvedBytes(carving) == LET end == Carved(carving, carving[Len(carving)][1])
                        IN  end.first + end.bytes

\* Session scratch: the requests of V0Requests in order.
Scratch(slot, first, bytes) == View("scratch", slot, Offset(slot) + first, bytes)

GdnScratch == << <<"qkv", 20480>>, <<"z", 12288>>, <<"convolved", 20480>>,
                 <<"q_hat", 8192>>, <<"k_hat", 8192>>, <<"a", 192>>, <<"b", 192>>,
                 <<"alpha", 192>>, <<"beta", 192>>, <<"o", 24576>>, <<"u", 12288>> >>

\* The merge puts y where q was.
AttentionScratch == << <<"qg", 24576>>, <<"k", 2048>>, <<"v", 2048>>, <<"q", 12288>>,
                       <<"g", 12288>>, <<"partials", requests[3].bytes - 53248>> >>

\* Workspaces of the prefill.
PrefillGdn == << <<"normalized", 10240>>, <<"qkv", 20480>>, <<"z", 12288>>, <<"a", 192>>,
                 <<"b", 192>>, <<"convolved", 20480>>, <<"q_hat", 8192>>, <<"k_hat", 8192>>,
                 <<"alpha", 192>>, <<"beta", 192>>, <<"o", 24576>>, <<"u", 12288>> >>

PrefillAttention == << <<"normalized", 10240>>, <<"qg", 24576>>, <<"k", 2048>>,
                       <<"v", 2048>>, <<"q", 12288>>, <<"g", 12288>>, <<"y", 12288>> >>

Engine == << <<"weight_tile", 512 * 34816>>, <<"accum_a", TokenCapacity * 69632>>,
             <<"accum_b", TokenCapacity * 69632>>, <<"normalized", TokenCapacity * 10240>>,
             <<"swiglu", TokenCapacity * 34816>>, <<"library", 4194304>> >>

Fp8Bytes == TokenCapacity * (6144 + 192 + 49152)

\* Mutant: the column sums of the packed rows are forgotten.
Q8Bytes_NoSums == TokenCapacity * (17408 + 2176 + 139264) + 4

Q8Bytes == TokenCapacity * (17408 + 4352 + 139264) + 4

Allocated(buffer) ==
    CASE buffer = "scratch" -> total
      [] buffer \in {"residual_h", "residual_h_mid", "next_h"} -> TokenCapacity * 20480
      [] buffer = "prefill_gdn" -> TokenCapacity * CarvedBytes(PrefillGdn)
      [] buffer = "prefill_attention" -> TokenCapacity * CarvedBytes(PrefillAttention)
      [] buffer = "engine" -> CarvedBytes(Engine)
      [] buffer = "fp8" -> Fp8Bytes
      [] buffer = "q8" -> Q8Bytes
      [] OTHER -> Layers    \* persistent state, one unit for each layer

-----------------------------------------------------------------------------
\* Operands.
Attends(l) == l % 4 = 3

Persistent(buffer, version) == Holding(View(buffer, 0, layer, 1), version)

RowsOf(buffer, quantity) == Holding(View(buffer, 0, 0, Rows * 20480), quantity)

Hidden == RowsOf(residual, "hidden")
Mixed == RowsOf(mid, "mixed")
NextHidden == [RowsOf(next, "hidden") EXCEPT !.value = <<"hidden", layer + 1>>]

Normalized(quantity) == Holding(Scratch(1, 0, 10240), quantity)

Gdn(name) ==
    IF unit.kind = "decode"
    THEN LET region == Carved(GdnScratch, name)
         IN  Holding(Scratch(2, region.first, region.bytes), name)
    ELSE LET region == Carved(PrefillGdn, name)
         IN  Holding(View("prefill_gdn", 0, region.first * TokenCapacity,
                          region.bytes * Rows), name)

\* v aliases the tail of the convolved row.
GdnV == LET convolved == Gdn("convolved")
        IN  IF unit.kind = "decode"
            THEN [convolved EXCEPT !.view.first = @ + 8192]
            ELSE convolved

Attention(name) ==
    IF unit.kind = "decode"
    THEN LET region == Carved(AttentionScratch, IF name = "y" THEN "q" ELSE name)
         IN  Holding(Scratch(3, region.first, region.bytes), name)
    ELSE LET region == Carved(PrefillAttention, name)
         IN  Holding(View("prefill_attention", 0, region.first * TokenCapacity,
                          region.bytes * Rows), name)

EngineAt(name, first, bytes, quantity) ==
    Holding(View("engine", 0, Carved(Engine, name).first + first, bytes), quantity)

WeightTile(role) == EngineAt("weight_tile", 0, 512 * 34816, role)
AccumA(role) == EngineAt("accum_a", 0, Rows * 69632, role)
AccumB(role) == EngineAt("accum_b", 0, Rows * 69632, role)
Library == EngineAt("library", 0, 4194304, "library")

\* packed_input and packed_scales lie in the weight tile.
NvFp4Pack == {EngineAt("weight_tile", 0, Rows * 2560, "packed"),
              EngineAt("weight_tile", TokenCapacity * 2560, Padded(Rows) * 320, "packed")}

\* One packed operand for every FP8 projection of a layer.
Fp8Pack(k, quantity) ==
    {Holding(View("fp8", 0, 0, Padded(Rows) * k), quantity),
     Holding(View("fp8", 0, TokenCapacity * 6144, Padded(Rows) * (k \div 128) * 4), quantity)}

\* Mutant: the accumulator begins where the codes end.
Fp8Sum_OverScales(role, n) ==
    Holding(View("fp8", 0, TokenCapacity * 6144, Padded(Rows) * n * 4), role)

Fp8Sum(role, n) ==
    Holding(View("fp8", 0, TokenCapacity * (6144 + 192), Padded(Rows) * n * 4), role)

\* The Q8 MLP carves its workspace for the rows at hand.
Q8Pack(k, quantity) ==
    {Holding(View("q8", 0, 0, Rows * k), quantity),
     Holding(View("q8", 0, Rows * 17408, Rows * (k \div 32) * 4), quantity),
     Holding(View("q8", 0, Rows * (17408 + 2176), Rows * (k \div 32) * 4), quantity)}

Q8Gate == Holding(View("q8", 0, Rows * (17408 + 4352), Rows * 69632), "gate")
Q8Up == Holding(View("q8", 0, Rows * (17408 + 4352 + 69632), Rows * 69632), "up")

-----------------------------------------------------------------------------
\* Stages (KernelStage).
LayerNorm == 1
Mixer == 2
MixerOutput == 3
MlpNorm == 4
MlpSwiglu == 5
MlpDown == 6
FinalNorm == 7
LmHead == 8

\* PrefillEngine::project with the weights unpacked to BF16 (gemm_tile).
Unpacked(stage, role, input, add, output) ==
    << Kernel(stage, {}, {WeightTile(role)}),
       Kernel(stage, {WeightTile(role), input}, {AccumA(role), Library}),
       Kernel(stage, {AccumA(role)} \cup add, {output}) >>

\* PrefillEngine::project with FP8 weights: packed rows, or one row as a decode.
Fp8Mixer == unit.mixer = "fp8"
Packs == Fp8Mixer /\ Rows > 1

Projected(stage, role, n, input, pack, add, output) ==
    IF Packs
    THEN << Kernel(stage, pack, {Fp8Sum(role, n), Library}),
            Kernel(stage, {Fp8Sum(role, n)} \cup add, {output}) >>
    ELSE IF Fp8Mixer
    THEN << Kernel(stage, {input} \cup add, {output}) >>
    ELSE Unpacked(stage, role, input, add, output)

GdnOperands(names) == {Gdn(name) : name \in names}
AttentionOperands(names) == {Attention(name) : name \in names}

-----------------------------------------------------------------------------
\* execute_decode_gdn: regions rms, qkvz, ab, conv, prep, recur, gated, out.
DecodeGdn ==
    LET normalized == Normalized("mixer_input")
    IN  << Kernel(LayerNorm, {Hidden}, {normalized}),
           Kernel(Mixer, {normalized}, GdnOperands({"qkv", "z"})),
           Kernel(Mixer, {normalized}, GdnOperands({"a", "b"})),
           Kernel(Mixer, {Gdn("qkv"), Persistent("conv_history", "old")},
                         {Gdn("convolved"), Persistent("conv_history", "new")}),
           Kernel(Mixer, GdnOperands({"convolved", "a", "b"}),
                         GdnOperands({"q_hat", "k_hat", "alpha", "beta"})),
           Kernel(Mixer, GdnOperands({"q_hat", "k_hat", "alpha", "beta"})
                           \cup {GdnV, Persistent("gdn_s", "old")},
                         {Gdn("o"), Persistent("gdn_s", "new")}),
           Kernel(Mixer, GdnOperands({"o", "z"}), {Gdn("u")}),
           Kernel(MixerOutput, {Gdn("u"), Hidden}, {Mixed}) >>

\* attention_prep and attention_core.
DecodeAttention ==
    LET normalized == Normalized("mixer_input")
    IN  << Kernel(LayerNorm, {Hidden}, {normalized}),
           Kernel(Mixer, {normalized}, AttentionOperands({"qg", "k", "v"})),
           Kernel(Mixer, AttentionOperands({"qg", "k", "v"}),
                         AttentionOperands({"q", "g"}) \cup {Persistent("kv", "new")}),
           Kernel(Mixer, {Attention("q"), Persistent("kv", "new")}, {Attention("partials")}),
           Kernel(Mixer, AttentionOperands({"partials", "g"}), {Attention("y")}),
           Kernel(MixerOutput, {Attention("y"), Hidden}, {Mixed}) >>

\* Submission::mlp with weights decoded as they are read.
DecodeMlp ==
    LET normalized == Normalized("mlp_input")
        swiglu == Holding(Scratch(4, 0, 34816), "swiglu")
    IN  << Kernel(MlpNorm, {Mixed}, {normalized}),
           Kernel(MlpSwiglu, {normalized}, {swiglu}),
           Kernel(MlpDown, {swiglu, Mixed}, {NextHidden}) >>

\* q4k_q8_mlp.
Q8Mlp ==
    << Kernel(MlpNorm, {Mixed}, Q8Pack(5120, "mlp_input")),
       Kernel(MlpSwiglu, Q8Pack(5120, "mlp_input"), {Q8Gate}),
       Kernel(MlpSwiglu, Q8Pack(5120, "mlp_input"), {Q8Up}),
       Kernel(MlpSwiglu, {Q8Gate, Q8Up}, Q8Pack(17408, "swiglu")),
       Kernel(MlpDown, Q8Pack(17408, "swiglu") \cup {Mixed}, {NextHidden}) >>

-----------------------------------------------------------------------------
\* Submission::prefill_gdn: FP8 weights read the packed rows, a and b do not.
PrefillGdnMixer ==
    LET normalized == Gdn("normalized")
        input == Fp8Pack(5120, "mixer_input")
        output == Fp8Pack(6144, "mixer_output")
    IN  << Kernel(LayerNorm, {Hidden}, {normalized} \cup (IF Packs THEN input ELSE {})) >>
        \o Projected(Mixer, "qkv", 10240, normalized, input, {}, Gdn("qkv"))
        \o Projected(Mixer, "z", 6144, normalized, input, {}, Gdn("z"))
        \o Unpacked(Mixer, "a", normalized, {}, Gdn("a"))
        \o Unpacked(Mixer, "b", normalized, {}, Gdn("b"))
        \o << Kernel(Mixer, {Gdn("qkv"), Persistent("conv_history", "old")}, {Gdn("convolved")}),
              Kernel(Mixer, {Gdn("qkv"), Persistent("conv_history", "old")},
                            {Persistent("conv_history", "new")}),
              Kernel(Mixer, GdnOperands({"convolved", "a", "b"}),
                            GdnOperands({"q_hat", "k_hat", "alpha", "beta"})),
              Kernel(Mixer, GdnOperands({"q_hat", "k_hat", "alpha", "beta"})
                              \cup {GdnV, Persistent("gdn_s", "old")},
                            {Gdn("o"), Persistent("gdn_s", "new")}),
              Kernel(Mixer, GdnOperands({"o", "z"}), IF Packs THEN output ELSE {Gdn("u")}) >>
        \o Projected(MixerOutput, "out", 5120, Gdn("u"), output, {Hidden}, Mixed)

\* Submission::prefill_attention: with FP8 weights no normalized row is kept.
PrefillAttentionMixer ==
    LET normalized == Attention("normalized")
        input == Fp8Pack(5120, "mixer_input")
        output == Fp8Pack(6144, "mixer_output")
    IN  << Kernel(LayerNorm, {Hidden}, IF Packs THEN input ELSE {normalized}) >>
        \o Projected(Mixer, "qg", 12288, normalized, input, {}, Attention("qg"))
        \o Projected(Mixer, "k", 1024, normalized, input, {}, Attention("k"))
        \o Projected(Mixer, "v", 1024, normalized, input, {}, Attention("v"))
        \o << Kernel(Mixer, AttentionOperands({"qg", "k", "v"}),
                            AttentionOperands({"q", "g"}) \cup {Persistent("kv", "new")}),
              Kernel(Mixer, AttentionOperands({"q", "g"}) \cup {Persistent("kv", "new")},
                            IF Packs THEN output ELSE {Attention("y")}) >>
        \o Projected(MixerOutput, "out", 5120, Attention("y"), output, {Hidden}, Mixed)

\* PrefillEngine::mlp: gate and up are packed (NVFP4) or unpacked to BF16 in turn.
PrefillMlp ==
    LET normalized == EngineAt("normalized", 0, Rows * 10240, "mlp_input")
        swiglu == EngineAt("swiglu", 0, Rows * 34816, "swiglu")
        paired == IF unit.mlp = "nvfp4"
                  THEN << Kernel(MlpNorm, {Mixed}, NvFp4Pack),
                          Kernel(MlpSwiglu, NvFp4Pack, {AccumA("gate"), Library}),
                          Kernel(MlpSwiglu, NvFp4Pack, {AccumB("up"), Library}) >>
                  ELSE << Kernel(MlpNorm, {Mixed}, {normalized}),
                          Kernel(MlpSwiglu, {}, {WeightTile("gate")}),
                          Kernel(MlpSwiglu, {WeightTile("gate"), normalized},
                                            {AccumA("gate"), Library}),
                          Kernel(MlpSwiglu, {}, {WeightTile("up")}),
                          Kernel(MlpSwiglu, {WeightTile("up"), normalized},
                                            {AccumB("up"), Library}) >>
    IN  paired
        \o << Kernel(MlpSwiglu, {AccumA("gate"), AccumB("up")}, {swiglu}) >>
        \o Unpacked(MlpDown, "down", swiglu, {Mixed}, NextHidden)

\* The final norm and the head, of the last row.
Readout ==
    LET last == View(residual, 0, (Rows - 1) * 20480, 20480)
        normalized == Normalized("head_input")
    IN  << Kernel(FinalNorm, {Holding(last, "hidden")}, {normalized}),
           Kernel(LmHead, {normalized}, {Holding(Scratch(5, 0, 993280), "logits")}) >>

\* enqueue_decode, and the body of prefill_tokens: the kernels of this layer, the
\* embedding before the first one, and the readout in place of one past the last.
Schedule ==
    IF layer = Layers
    THEN Readout
    ELSE (IF layer = 0 THEN << Kernel(0, {}, {Hidden}) >> ELSE <<>>)
         \o (CASE unit.kind = "decode" /\ ~Attends(layer) -> DecodeGdn
               [] unit.kind = "decode" /\ Attends(layer) -> DecodeAttention
               [] unit.kind = "prefill" /\ ~Attends(layer) -> PrefillGdnMixer
               [] unit.kind = "prefill" /\ Attends(layer) -> PrefillAttentionMixer)
         \o (CASE unit.mlp = "q8" -> Q8Mlp
               [] unit.mlp # "q8" /\ unit.kind = "decode" -> DecodeMlp
               [] unit.mlp # "q8" /\ unit.kind = "prefill" -> PrefillMlp)

-----------------------------------------------------------------------------
FlowInit == /\ PlanInit
            /\ flow = "idle"
            /\ unit = [kind |-> "decode", rows |-> 1, mixer |-> "plain", mlp |-> "bounded"]
            /\ layer = 0
            /\ at = 1
            /\ residual = "residual_h" /\ mid = "residual_h_mid" /\ next = "next_h"
            /\ memory = {}

\* Weight formats that the compiler writes together (WeightFormatPolicy).
Formats == {<<"plain", "bounded">>, <<"plain", "nvfp4">>, <<"fp8", "bounded">>, <<"fp8", "q8">>}

\* What the units before this one have left that this one may use.
Kept == {[view |-> View(buffer, 0, l, 1), value |-> <<"old", l>>, stage |-> 0] :
            buffer \in {"conv_history", "gdn_s"}, l \in 0 .. Layers - 1}

\* A decode step writes the next hidden row over the residual row it read.
BeginUnit ==
    /\ flow = "idle"
    /\ planning = "planned"
    /\ \E capacity \in KvCapacities : requests = V0Requests(TokenCapacity, capacity)
    /\ \E formats \in Formats, kind \in {"decode", "prefill"}, rows \in RowCounts :
          /\ kind = "decode" => rows = 1
          /\ unit' = [kind |-> kind, rows |-> rows, mixer |-> formats[1], mlp |-> formats[2]]
          /\ next' = IF kind = "decode" THEN residual ELSE "next_h"
    /\ flow' = "running"
    /\ memory' = Kept
    /\ UNCHANGED <<planVars, layer, at, residual, mid>>

Launch ==
    /\ flow = "running"
    /\ at <= Len(Schedule)
    /\ LET kernel == Schedule[at]
       IN  memory' = {kept \in memory : \A w \in kernel.writes : ~Overlap(kept.view, w.view)}
                       \cup {[view |-> w.view, value |-> w.value, stage |-> kernel.stage] :
                                w \in kernel.writes}
    /\ at' = at + 1
    /\ UNCHANGED <<planVars, flow, unit, layer, residual, mid, next>>

\* Mutant: a chunk's rows do not rotate between layers.
Rotate_Never == UNCHANGED <<residual, mid, next>>

\* prefill_tokens: old = residual; residual = next; next = h_mid; h_mid = old.
Rotate == IF unit.kind = "prefill"
          THEN residual' = next /\ next' = mid /\ mid' = residual
          ELSE UNCHANGED <<residual, mid, next>>

FinishLayer ==
    /\ flow = "running"
    /\ at > Len(Schedule)
    /\ layer < Layers
    /\ layer' = layer + 1
    /\ at' = 1
    /\ Rotate
    /\ UNCHANGED <<planVars, flow, unit, memory>>

FinishUnit ==
    /\ flow = "running"
    /\ at > Len(Schedule)
    /\ layer = Layers
    /\ flow' = "done"
    /\ UNCHANGED <<planVars, unit, layer, at, residual, mid, next, memory>>

FlowNext == \/ PlanNext /\ UNCHANGED flowVars
            \/ BeginUnit
            \/ Launch
            \/ FinishLayer
            \/ FinishUnit

FlowSpec == FlowInit /\ [][FlowNext]_<<planVars, flowVars>> /\ WF_planVars(PlanStep)

-----------------------------------------------------------------------------
Launching == flow = "running" /\ at <= Len(Schedule)

Current(read, kept) == kept.value = read.value /\ Contains(kept.view, read.view)

\* Every operand of the kernel about to run still holds what its producer wrote
\* for this layer: no kernel in between has been placed over it, no layer reads
\* the rows of another one, and the old ring is read before it is replaced
\* (gdn.cpp, attention.cpp, mlp.cpp, prefill*.cpp, cuda/prefill.cu).
OperandsAreCurrent ==
    Launching => \A read \in Schedule[at].reads : \E kept \in memory : Current(read, kept)

\* No kernel writes over its own operands or twice to one place, persistent state
\* updated in place excepted; what the alias checks of the launchers ask for
\* ("live operands overlap") is never refused (distinct in cuda/prefill.cu).
NoKernelAliases ==
    Launching =>
        \A w \in Schedule[at].writes :
            /\ \A other \in Schedule[at].writes \ {w} : ~Overlap(w.view, other.view)
            /\ \A read \in Schedule[at].reads :
                  Overlap(w.view, read.view) =>
                      w.view = read.view /\ w.view.buffer \in {"conv_history", "gdn_s"}

\* The intervals v0_scratch_requests declares are those the kernels need: scratch
\* is written in a stage it is live in, and stays live, in one interval, until
\* the last kernel has read it; else the planner could give the bytes away.
DeclaredLiveWhileUsed ==
    Launching =>
        LET kernel == Schedule[at]
            Covered(slot, from) == \E interval \in requests[slot].live :
                                      interval.first <= from /\ kernel.stage <= interval.last
        IN  /\ \A w \in kernel.writes :
                  w.view.buffer = "scratch" => Covered(w.view.slot, kernel.stage)
            /\ \A read \in kernel.reads, kept \in memory :
                  read.view.buffer = "scratch" /\ Current(read, kept) =>
                      Covered(read.view.slot, kept.stage)

\* Every operand lies inside the buffer, and inside the scratch request, it was
\* carved from, for every chunk length and capacity (the carving of workspaces in
\* prefill_gdn.cpp, prefill_attention.cpp, cuda/prefill.cu and cuda/q4k_q8.cu).
OperandsStayInside ==
    Launching =>
        \A operand \in Schedule[at].reads \cup Schedule[at].writes :
            LET view == operand.view
            IN  /\ view.last <= Allocated(view.buffer)
                /\ view.buffer = "scratch" =>
                      view.last <= Offset(view.slot) + requests[view.slot].bytes
=============================================================================
