---------------------------- MODULE InferencePlan ----------------------------
(***************************************************************************)
(* The hardware-independent execution plans of src/scripts: the semantic   *)
(* graph of the model, the schedules of a prefill and of a decode step     *)
(* over it, and the closed forms in which the plans state their work and   *)
(* traffic.                                                                *)
(*                                                                         *)
(* The scripts compute those closed forms from the configuration; nothing  *)
(* in them runs a schedule.  Here the schedule runs, stage by stage and    *)
(* position by position, on values that only remember which tokens they    *)
(* were computed from, and an account is kept of what each stage reads,    *)
(* writes and multiplies, to be compared with the closed forms.            *)
(***************************************************************************)
EXTENDS ModelSizes, Sequences, FiniteSetsExt

CONSTANTS
    MaxT,      \* tokens presented in one behaviour
    Orders,    \* of {"serial", "ready"}: the selected order, and any order
               \* the ready constraints admit (the hoist hypotheses)
    Modes,     \* of {"layer_serial", "token_serial"}: how a prompt is run
    LastOnly   \* of BOOLEAN: inference_last_logits, only the last position
               \* of a prompt is projected on the vocabulary

ASSUME PlanAssumption ==
    /\ NLayers \in Nat \ {0}
    /\ Text.full_attention_interval \in Nat \ {0}
    /\ Text.linear_conv_kernel_dim \in Nat \ {0}
    /\ MtpBlocks = 1
    /\ \A size \in {H, Text.intermediate_size, Text.vocab_size,
                    Text.num_attention_heads, Text.num_key_value_heads,
                    Text.head_dim, Text.linear_num_key_heads,
                    Text.linear_num_value_heads, Text.linear_key_head_dim,
                    Text.linear_value_head_dim} : size \in Int
    /\ MaxT \in Nat \ {0}
    /\ Orders \subseteq {"serial", "ready"}
    /\ Modes \subseteq {"layer_serial", "token_serial"}
    /\ LastOnly \subseteq BOOLEAN

-----------------------------------------------------------------------------
(* The stages: a node of the graph, executed over the positions presented.  *)

LoopKinds == {"language_mixer", "language_mlp"}
SingleKinds == {"embed_current", "lm_head_primary", "embed_next", "mtp_mix",
                "mtp_mixer", "mtp_mlp", "lm_head_mtp"}
Stages == (LoopKinds \X Layers) \cup (SingleKinds \X {0})

Mixer(l) == <<"language_mixer", l>>
Mlp(l) == <<"language_mlp", l>>
Only(kind) == <<kind, 0>>
Projections == {Only("lm_head_primary"), Only("lm_head_mtp")}

\* The stages whose visible output a stage takes in.
Producers(s) ==
    CASE s[1] = "language_mixer" ->
            {IF s[2] = 0 THEN Only("embed_current") ELSE Mlp(s[2] - 1)}
      [] s[1] = "language_mlp" -> {Mixer(s[2])}
      [] s[1] = "lm_head_primary" -> {Mlp(NLayers - 1)}
      [] s[1] = "mtp_mix" -> {Mlp(NLayers - 1), Only("embed_next")}
      [] s[1] = "mtp_mixer" -> {Only("mtp_mix")}
      [] s[1] = "mtp_mlp" -> {Only("mtp_mixer")}
      [] s[1] = "lm_head_mtp" -> {Only("mtp_mlp")}
      [] OTHER -> {}

\* The place of a stage in the serial order; mixer and mlp take turns.
Rank(s) ==
    CASE s[1] = "embed_current" -> 0
      [] s[1] = "language_mixer" -> 1 + 2 * s[2]
      [] s[1] = "language_mlp" -> 2 + 2 * s[2]
      [] s[1] = "lm_head_primary" -> 2 * NLayers + 1
      [] s[1] = "embed_next" -> 2 * NLayers + 2
      [] s[1] = "mtp_mix" -> 2 * NLayers + 3
      [] s[1] = "mtp_mixer" -> 2 * NLayers + 4
      [] s[1] = "mtp_mlp" -> 2 * NLayers + 5
      [] s[1] = "lm_head_mtp" -> 2 * NLayers + 6

\* The stages that carry state from one token to the next, and which.
KvStages == {Mixer(l) : l \in FullLayers} \cup {Only("mtp_mixer")}
CsStages == {Mixer(l) : l \in LinearLayers}

-----------------------------------------------------------------------------
(* What one position costs in one stage, from the dimensions.               *)

\* Multiplications of stage s at position t; attention contracts with the
\* stored length after the append, which is t.
StageMac(s, t) ==
    CASE s \in KvStages -> MacFullProj + MacAttnCoeff * t
      [] s \in CsStages -> MacLinToken
      [] s[1] \in {"language_mlp", "mtp_mlp"} -> MacMlp
      [] s \in Projections -> MacLmHead
      [] s[1] = "mtp_mix" -> MacMtpFc
      [] OTHER -> 0

\* The weights a stage multiplies with, named, and their parameters; the two
\* projections share W_lm, and each norm belongs to the stage that applies it.
StageWeights(s) ==
    CASE s \in Projections -> {<<"W_lm", 0>>, s}
      [] s[1] \in {"embed_current", "embed_next"} -> {}
      [] OTHER -> {s}
Params(w) ==
    CASE w = <<"W_lm", 0>> -> Text.vocab_size * H
      [] w \in Projections -> H
      [] w \in KvStages -> FullParams + H
      [] w \in CsStages -> LinParams + H
      [] w[1] \in {"language_mlp", "mtp_mlp"} -> MacMlp + H
      [] w[1] = "mtp_mix" -> MacMtpFc + 2 * H

\* Activation bytes a stage leaves at its boundary, and the part of them,
\* with the gate inside a mixer, that must be live at some point.
CutBytes(s) == (IF s \in Projections THEN Text.vocab_size ELSE H) * Bf16
ForcedBytes(s) ==
    CASE s \in KvStages -> (GWidth + H) * Bf16
      [] s \in CsStages -> (ZWidth + H) * Bf16
      [] s[1] \in {"language_mlp", "mtp_mlp"} -> H * Bf16
      [] s \in Projections -> Text.vocab_size * Bf16
      [] OTHER -> 0

-----------------------------------------------------------------------------
(* The closed forms of the plans, for a prompt of T tokens and for the      *)
(* decode step after which T tokens are stored.                             *)

\* Mutant of PrefillKvRead: reads what is stored after the append.
PrefillKvReadAfterAppend(T) == (KvAll * T * (T + 1)) \div 2

PrefillKvRead(T) == (KvAll * T * (T - 1)) \div 2
DecodeKvRead(T) == KvAll * (T - 1)

ResidualCrossings == 1 + (NLayers + MtpBlocks) + (NLayers - 1) + 1 + 1 + 1 + 1
ResidualCut == ResidualCrossings * H * Bf16
LogitsCut == 2 * Text.vocab_size * Bf16
ForcedComplete ==
    (2 * NLayers * H + NFull * GWidth + NLinear * ZWidth + Text.vocab_size
      + 2 * H + GWidth + Text.vocab_size) * Bf16

DecodeAccount(T) ==
    [mac |-> DecodeMac(T), loads |-> UniqueBytes, gather |-> GatherBytes,
     kvRead |-> DecodeKvRead(T), kvWrite |-> KvAll,
     csRead |-> CReadAll + SAll, csWrite |-> CWriteAll + SAll,
     residual |-> ResidualCut, logits |-> LogitsCut,
     forced |-> ForcedComplete]

\* The initial zeros are not read: C and S are read by T - 1 positions.
PrefillAccount(T) ==
    [mac |-> PrefillMac(T), loads |-> UniqueBytes, gather |-> GatherBytes * T,
     kvRead |-> PrefillKvRead(T), kvWrite |-> KvAll * T,
     csRead |-> (CReadAll + SAll) * (T - 1), csWrite |-> (CWriteAll + SAll) * T,
     residual |-> ResidualCut * T, logits |-> LogitsCut * T,
     forced |-> ForcedComplete * T]

-----------------------------------------------------------------------------
(* The schedules.                                                           *)

VARIABLES
    plan,     \* the order, the mode and the prompt length of this behaviour
    horizon,  \* positions presented so far
    out,      \* per stage, the tokens each position's output was computed from
    kv,       \* per attention stage, what was appended to its K and V
    conv,     \* per linear mixer, what its delay line holds
    rec,      \* per linear mixer, what its recurrent state has absorbed
    resident, \* weights the present pass has loaded
    acct      \* the account of the present prefill or decode step

vars == <<plan, horizon, out, kv, conv, rec, resident, acct>>

Done(s) == Len(out[s])
Complete == \A s \in Stages : Done(s) = horizon

NoAccount == [mac |-> 0, loads |-> 0, gather |-> 0, kvRead |-> 0,
              kvWrite |-> 0, csRead |-> 0, csWrite |-> 0, residual |-> 0,
              logits |-> 0, forced |-> 0]

Init ==
    /\ plan \in [order : Orders, mode : Modes, last : LastOnly,
                 prompt : 1 .. MaxT]
    /\ horizon = IF plan.mode = "layer_serial" THEN plan.prompt ELSE 1
    /\ out = [s \in Stages |-> <<>>]
    /\ kv = [s \in KvStages |-> <<>>]
    /\ conv = [s \in CsStages |-> <<>>]
    /\ rec = [s \in CsStages |-> {}]
    /\ resident = {}
    /\ acct = NoAccount

\* Mutant of MayRun: a producer that has begun is taken for one that is done.
MayRunEarly(s) ==
    /\ Done(s) < horizon
    /\ \A u \in Stages :
          (IF plan.order = "serial" THEN Rank(u) < Rank(s)
           ELSE u \in Producers(s)) => Done(u) > 0

\* A stage may run in the serial order when every earlier stage has run over
\* the positions presented, and in a ready order when its producers have.
MayRun(s) ==
    /\ Done(s) < horizon
    /\ \A u \in Stages :
          (IF plan.order = "serial" THEN Rank(u) < Rank(s)
           ELSE u \in Producers(s)) => Done(u) = horizon

\* The account a completed prompt should show under its hypotheses.
PlannedPrefill(T) ==
    LET full == PrefillAccount(T)
        head == MapThenSumSet(Params, {<<"W_lm", 0>>} \cup Projections) * Bf16
        unprojected == IF plan.last THEN T - 1 ELSE 0
    IN  [full EXCEPT
            !.mac = IF plan.last THEN PrefillMacLast(T) ELSE @,
            !.loads = IF plan.mode = "token_serial"
                      THEN T * @ - unprojected * head ELSE @,
            !.logits = @ - unprojected * LogitsCut,
            !.forced = @ - unprojected * LogitsCut]

\* What a stage takes in at position t: a token, or its producers' outputs.
Input(s, t) ==
    CASE s[1] = "embed_current" -> {t}
      [] s[1] = "embed_next" -> {t + 1}
      [] OTHER -> UNION {out[p][t] : p \in {q \in Producers(s) : t <= Done(q)}}

\* Only the last position of a prompt is projected under inference_last_logits.
Skipped(s, t) == plan.last /\ s \in Projections /\ t < plan.prompt

Carried(s) ==
    CASE s \in KvStages -> UNION {kv[s][i] : i \in 1 .. Len(kv[s])}
      [] s \in CsStages -> rec[s] \cup UNION {conv[s][i] : i \in 1 .. Len(conv[s])}
      [] OTHER -> {}

Charge(s, t) ==
    LET new == StageWeights(s) \ resident
        populated == t > 1
    IN  [mac |-> acct.mac + StageMac(s, t),
         loads |-> acct.loads + MapThenSumSet(Params, new) * Bf16,
         gather |-> acct.gather
                      + (IF s[1] \in {"embed_current", "embed_next"}
                         THEN H * Bf16 ELSE 0),
         kvRead |-> acct.kvRead
                      + (IF s \in KvStages THEN Len(kv[s]) * KvBytes ELSE 0),
         kvWrite |-> acct.kvWrite + (IF s \in KvStages THEN KvBytes ELSE 0),
         csRead |-> acct.csRead
                      + (IF s \in CsStages /\ populated
                         THEN CBytes + SBytes ELSE 0),
         csWrite |-> acct.csWrite
                      + (IF s \in CsStages THEN QkvWidth * Bf16 + SBytes ELSE 0),
         residual |-> acct.residual
                      + (IF s \in Projections THEN 0 ELSE CutBytes(s)),
         logits |-> acct.logits
                      + (IF s \in Projections THEN CutBytes(s) ELSE 0),
         forced |-> acct.forced + ForcedBytes(s)]

\* Mutant of Shift: a full delay line keeps what it has.
ShiftKeepingOldest(line, x) ==
    IF Len(line) < Delay THEN Append(line, x) ELSE line

\* The last Delay of what was pushed.
Shift(line, x) ==
    LET pushed == Append(line, x)
    IN  IF Len(pushed) > Delay THEN Tail(pushed) ELSE pushed

\* Stage s absorbs its next position: reads its state, then appends to it.
RunStage(s) ==
    LET t == Done(s) + 1
        in == Input(s, t)
    IN  /\ MayRun(s)
        /\ out' = [out EXCEPT ![s] = Append(@,
                      IF Skipped(s, t) THEN {} ELSE in \cup Carried(s))]
        /\ kv' = IF s \in KvStages
                 THEN [kv EXCEPT ![s] = Append(@, in)] ELSE kv
        /\ conv' = IF s \in CsStages
                   THEN [conv EXCEPT ![s] = Shift(@, in)] ELSE conv
        /\ rec' = IF s \in CsStages
                  THEN [rec EXCEPT ![s] = @ \cup in] ELSE rec
        /\ acct' = IF Skipped(s, t) THEN acct ELSE Charge(s, t)
        /\ resident' = IF Skipped(s, t) THEN resident
                       ELSE resident \cup StageWeights(s)
        /\ UNCHANGED <<plan, horizon>>

\* Mutant of Present: presents without end.
PresentForever ==
    /\ Complete
    /\ horizon' = horizon + 1
    /\ resident' = {}
    /\ acct' = IF horizon < plan.prompt THEN acct ELSE NoAccount
    /\ UNCHANGED <<plan, out, kv, conv, rec>>

\* The next token: of the prompt when it is run token by token, or decoded on
\* the state the prompt has left; only a decode step opens a new account.
Present ==
    /\ Complete
    /\ horizon < MaxT
    /\ horizon' = horizon + 1
    /\ resident' = {}
    /\ acct' = IF horizon < plan.prompt THEN acct ELSE NoAccount
    /\ UNCHANGED <<plan, out, kv, conv, rec>>

Finished == Complete /\ horizon = MaxT /\ UNCHANGED vars

Next == (\E s \in Stages : RunStage(s)) \/ Present \/ Finished
Spec == Init /\ [][Next]_vars

-----------------------------------------------------------------------------
\* Every stage records the tokens each of its outputs was computed from, the
\* caches per position, the recurrence as the one state it carries.
TypeOK ==
    /\ plan \in [order : Orders, mode : Modes, last : LastOnly,
                 prompt : 1 .. MaxT]
    /\ horizon \in 1 .. MaxT
    /\ out \in [Stages -> Seq(SUBSET (1 .. MaxT + 1))]
    /\ kv \in [KvStages -> Seq(SUBSET (1 .. MaxT + 1))]
    /\ conv \in [CsStages -> Seq(SUBSET (1 .. MaxT + 1))]
    /\ rec \in [CsStages -> SUBSET (1 .. MaxT + 1)]

\* Whatever order the stages run in, the first projection at a position is
\* computed from all the tokens up to it and from none after it, and the
\* second from the teacher-forced next token as well; a prompt that projects
\* its last position only gives the same there.
LogitsSeeThePrefix ==
    \A s \in Projections : \A t \in 1 .. Done(s) :
        ~Skipped(s, t) =>
            out[s][t] = 1 .. (IF s = Only("lm_head_primary") THEN t ELSE t + 1)

\* What enters a mixer at position i.
Entering(s, i) ==
    CASE s = Mixer(0) -> {i}
      [] s = Only("mtp_mixer") -> 1 .. i + 1
      [] OTHER -> 1 .. i

\* However the prompt was run, the state that decoding continues on is that of
\* its tokens taken one by one: keys and values of each position in order, the
\* last Delay of them in the delay line, all of them in the recurrent state.
StateHoldsThePrefix ==
    /\ \A s \in KvStages : kv[s] = [i \in 1 .. Done(s) |-> Entering(s, i)]
    /\ \A s \in CsStages :
          LET n == Done(s)
              m == IF n < Delay THEN n ELSE Delay
          IN  /\ conv[s] = [i \in 1 .. m |-> Entering(s, n - m + i)]
              /\ rec[s] = UNION {Entering(s, i) : i \in 1 .. n}

\* When a prompt or a decode step is complete, what its stages did adds up to
\* the closed forms of the plans, whatever the order (a prompt run token by
\* token loads its weights once for each of them), and the surviving state
\* holds as many bytes as the plans store.
AccountsMatchExecution ==
    Complete /\ horizon >= plan.prompt =>
        /\ acct = IF horizon > plan.prompt THEN DecodeAccount(horizon)
                  ELSE PlannedPrefill(horizon)
        /\ StorageBytes(horizon) =
              MapThenSumSet(LAMBDA s : Len(kv[s]) * KvBytes, KvStages)
                + Cardinality(CsStages) * (CBytes + SBytes)

=============================================================================
