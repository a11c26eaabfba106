------------------------- MODULE InferencePlanProofs -------------------------
(* Machine-checked proofs about InferencePlan: for every number of layers,    *)
(* every interval of full attention and every kernel width, the serial order  *)
(* and every order the ready constraints admit, a prompt taken at once or     *)
(* token by token.  First what is computed from which tokens; then what it    *)
(* costs: sums, the classes of stages that cost alike, the account as a tally *)
(* of positions, and the closed forms of the plans as such tallies.           *)
EXTENDS InferencePlan, SequenceTheorems, FiniteSetTheorems, WellFoundedInduction, TLAPS

-----------------------------------------------------------------------------
(* The inductive invariant.                                                  *)

\* The tokens the output of a stage at position t is to be computed from.
Sees(s, t) ==
    CASE s[1] = "embed_current" -> {t}
      [] s[1] = "embed_next" -> {t + 1}
      [] s[1] \in LoopKinds \cup {"lm_head_primary"} -> 1 .. t
      [] OTHER -> 1 .. t + 1

\* No stage has run past the positions presented.
Bounded == \A s \in Stages : Done(s) <= horizon

\* Every output, not only those of the projections, was computed from the tokens
\* it should see: what makes the next stage see them too.
Traced ==
    \A s \in Stages : \A t \in 1 .. Done(s) :
        out[s][t] = IF Skipped(s, t) THEN {} ELSE Sees(s, t)

IInv == TypeOK /\ Bounded /\ Traced /\ StateHoldsThePrefix

-----------------------------------------------------------------------------
(* The graph.                                                                *)

LEMMA SizeFact ==
  /\ NLayers \in Nat \ {0} /\ MaxT \in Nat \ {0} /\ Delay \in Nat
  /\ Layers = 0 .. NLayers - 1 /\ NLayers - 1 \in Layers /\ 0 \in Layers
  /\ FullLayers \subseteq Layers /\ LinearLayers \subseteq Layers
  /\ FullLayers \cap LinearLayers = {} /\ FullLayers \cup LinearLayers = Layers
<1>1. NLayers \in Nat \ {0} /\ MaxT \in Nat \ {0}
  BY PlanAssumption
<1>2. Delay \in Nat
  BY PlanAssumption DEF Delay
<1>3. Layers = 0 .. NLayers - 1
  BY DEF Layers
<1> QED BY <1>1, <1>2, <1>3 DEF FullLayers, LinearLayers

LEMMA StageShape ==
  ASSUME NEW s \in Stages
  PROVE  \/ \E l \in Layers : s = Mixer(l)
         \/ \E l \in Layers : s = Mlp(l)
         \/ \E kind \in SingleKinds : s = Only(kind)
  BY DEF Stages, LoopKinds, Mixer, Mlp, Only

LEMMA StageKinds ==
  /\ \A l \in Layers : Mixer(l) \in Stages /\ Mlp(l) \in Stages
  /\ \A kind \in SingleKinds : Only(kind) \in Stages
  BY DEF Stages, LoopKinds, Mixer, Mlp, Only

\* The stages that carry state are two disjoint sets of mixers.
LEMMA CarrierFact ==
  /\ KvStages \subseteq Stages /\ CsStages \subseteq Stages
  /\ KvStages \cap CsStages = {}
  /\ (KvStages \cup CsStages) \cap Projections = {}
  /\ \A s \in KvStages \cup CsStages :
        (\E l \in Layers : s = Mixer(l)) \/ s = Only("mtp_mixer")
  /\ \A l \in Layers : Mixer(l) \in KvStages \cup CsStages
<1>1. "mtp_mixer" \in SingleKinds
  BY DEF SingleKinds
<1>2. KvStages \subseteq Stages /\ CsStages \subseteq Stages
  BY <1>1, SizeFact, StageKinds DEF KvStages, CsStages
<1>3. KvStages \cap CsStages = {}
  BY SizeFact DEF KvStages, CsStages, Mixer, Only
<1>4. (KvStages \cup CsStages) \cap Projections = {}
  BY DEF KvStages, CsStages, Projections, Mixer, Only
<1>5. \A l \in Layers : Mixer(l) \in KvStages \cup CsStages
  BY SizeFact DEF KvStages, CsStages
<1>6. \A s \in KvStages \cup CsStages :
        (\E l \in Layers : s = Mixer(l)) \/ s = Only("mtp_mixer")
  BY SizeFact DEF KvStages, CsStages
<1> QED BY <1>2, <1>3, <1>4, <1>5, <1>6

\* What a stage takes in comes from stages that come before it in the serial
\* order: the serial order is one of the ready orders.
LEMMA ProducersFact ==
  ASSUME NEW s \in Stages, NEW u \in Producers(s)
  PROVE  u \in Stages /\ u \notin Projections /\ Rank(u) < Rank(s)
<1> USE SizeFact
<1>1. CASE \E l \in Layers : s = Mixer(l)
  <2>1. PICK l \in Layers : s = Mixer(l)
    BY <1>1
  <2>2. s[1] = "language_mixer" /\ s[2] = l
    BY <2>1 DEF Mixer
  <2>3. u = IF l = 0 THEN Only("embed_current") ELSE Mlp(l - 1)
    BY <2>2 DEF Producers
  <2>4. CASE l = 0
    <3>1. u = Only("embed_current") /\ u[1] = "embed_current"
      BY <2>3, <2>4 DEF Only
    <3>2. Rank(u) = 0 /\ Rank(s) = 1
      BY <3>1, <2>2, <2>4 DEF Rank
    <3> QED BY <3>1, <3>2, StageKinds DEF SingleKinds, Projections, Only
  <2>5. CASE l # 0
    <3>1. u = Mlp(l - 1) /\ l - 1 \in Layers /\ u[1] = "language_mlp" /\ u[2] = l - 1
      BY <2>3, <2>5 DEF Mlp
    <3>2. Rank(u) = 2 + 2 * (l - 1) /\ Rank(s) = 1 + 2 * l
      BY <3>1, <2>2 DEF Rank
    <3> QED BY <3>1, <3>2, StageKinds DEF Projections, Only
  <2> QED BY <2>4, <2>5
<1>2. CASE \E l \in Layers : s = Mlp(l)
  <2>1. PICK l \in Layers : s = Mlp(l)
    BY <1>2
  <2>2. s[1] = "language_mlp" /\ s[2] = l
    BY <2>1 DEF Mlp
  <2>3. u = Mixer(l) /\ u[1] = "language_mixer" /\ u[2] = l
    BY <2>2 DEF Producers, Mixer
  <2>4. Rank(u) = 1 + 2 * l /\ Rank(s) = 2 + 2 * l
    BY <2>2, <2>3 DEF Rank
  <2> QED BY <2>3, <2>4, StageKinds DEF Projections, Only
<1>3. CASE \E kind \in SingleKinds : s = Only(kind)
  <2>1. PICK kind \in SingleKinds : s = Only(kind)
    BY <1>3
  <2>2. s[1] = kind
    BY <2>1 DEF Only
  <2>3. CASE kind = "lm_head_primary"
    <3>1. u = Mlp(NLayers - 1) /\ u[1] = "language_mlp" /\ u[2] = NLayers - 1
      BY <2>2, <2>3 DEF Producers, Mlp
    <3>2. Rank(u) = 2 + 2 * (NLayers - 1) /\ Rank(s) = 2 * NLayers + 1
      BY <2>2, <2>3, <3>1 DEF Rank
    <3> QED BY <3>1, <3>2, StageKinds DEF Projections, Only
  <2>4. CASE kind = "mtp_mix"
    <3>1. \/ u = Mlp(NLayers - 1) /\ u[1] = "language_mlp" /\ u[2] = NLayers - 1
          \/ u = Only("embed_next") /\ u[1] = "embed_next"
      BY <2>2, <2>4 DEF Producers, Mlp, Only
    <3>2. /\ u = Mlp(NLayers - 1) => Rank(u) = 2 + 2 * (NLayers - 1)
          /\ u = Only("embed_next") => Rank(u) = 2 * NLayers + 2
          /\ Rank(s) = 2 * NLayers + 3
      BY <2>2, <2>4 DEF Rank, Mlp, Only
    <3> QED BY <3>1, <3>2, StageKinds DEF Projections, Only, SingleKinds
  <2>5. CASE kind = "mtp_mixer"
    <3>1. u = Only("mtp_mix") /\ u[1] = "mtp_mix"
      BY <2>2, <2>5 DEF Producers, Only
    <3>2. Rank(u) = 2 * NLayers + 3 /\ Rank(s) = 2 * NLayers + 4
      BY <2>2, <2>5, <3>1 DEF Rank
    <3> QED BY <3>1, <3>2, StageKinds DEF Projections, Only, SingleKinds
  <2>6. CASE kind = "mtp_mlp"
    <3>1. u = Only("mtp_mixer") /\ u[1] = "mtp_mixer"
      BY <2>2, <2>6 DEF Producers, Only
    <3>2. Rank(u) = 2 * NLayers + 4 /\ Rank(s) = 2 * NLayers + 5
      BY <2>2, <2>6, <3>1 DEF Rank
    <3> QED BY <3>1, <3>2, StageKinds DEF Projections, Only, SingleKinds
  <2>7. CASE kind = "lm_head_mtp"
    <3>1. u = Only("mtp_mlp") /\ u[1] = "mtp_mlp"
      BY <2>2, <2>7 DEF Producers, Only
    <3>2. Rank(u) = 2 * NLayers + 5 /\ Rank(s) = 2 * NLayers + 6
      BY <2>2, <2>7, <3>1 DEF Rank
    <3> QED BY <3>1, <3>2, StageKinds DEF Projections, Only, SingleKinds
  <2>8. CASE kind \in {"embed_current", "embed_next"}
    BY <2>2, <2>8 DEF Producers
  <2> QED BY <2>1, <2>3, <2>4, <2>5, <2>6, <2>7, <2>8 DEF SingleKinds
<1> QED BY <1>1, <1>2, <1>3, StageShape

-----------------------------------------------------------------------------
(* What the stages see.                                                      *)

LEMMA SeesFact ==
  ASSUME NEW t \in Nat \ {0}
  PROVE  /\ \A l \in Layers : Sees(Mixer(l), t) = 1 .. t /\ Sees(Mlp(l), t) = 1 .. t
         /\ Sees(Only("embed_current"), t) = {t}
         /\ Sees(Only("embed_next"), t) = {t + 1}
         /\ Sees(Only("lm_head_primary"), t) = 1 .. t
         /\ \A kind \in {"mtp_mix", "mtp_mixer", "mtp_mlp", "lm_head_mtp"} :
               Sees(Only(kind), t) = 1 .. t + 1
<1>1. \A l \in Layers : Sees(Mixer(l), t) = 1 .. t /\ Sees(Mlp(l), t) = 1 .. t
  BY DEF Sees, Mixer, Mlp, LoopKinds
<1>2. /\ Sees(Only("embed_current"), t) = {t} /\ Sees(Only("embed_next"), t) = {t + 1}
      /\ Sees(Only("lm_head_primary"), t) = 1 .. t
  BY DEF Sees, Only, LoopKinds
<1>3. \A kind \in {"mtp_mix", "mtp_mixer", "mtp_mlp", "lm_head_mtp"} :
         Sees(Only(kind), t) = 1 .. t + 1
  BY DEF Sees, Only, LoopKinds
<1> QED BY <1>1, <1>2, <1>3

LEMMA SeesBound ==
  ASSUME NEW s \in Stages, NEW t \in Nat \ {0}
  PROVE  Sees(s, t) \subseteq 1 .. t + 1
  BY DEF Sees

\* The tokens a stage takes in at position t, before it joins what it carries.
Takes(s, t) ==
    CASE s[1] = "embed_current" -> {t}
      [] s[1] = "embed_next" -> {t + 1}
      [] OTHER -> UNION {Sees(u, t) : u \in Producers(s)}

LEMMA OneProducer ==
  ASSUME NEW s, NEW u, NEW t, Producers(s) = {u},
         s[1] \notin {"embed_current", "embed_next"}
  PROVE  Takes(s, t) = Sees(u, t)
<1>1. Takes(s, t) = UNION {Sees(v, t) : v \in Producers(s)}
  BY DEF Takes
<1>2. {Sees(v, t) : v \in Producers(s)} = {Sees(u, t)}
  OBVIOUS
<1> QED BY <1>1, <1>2

LEMMA TakesFact ==
  ASSUME NEW t \in Nat \ {0}
  PROVE  /\ \A l \in Layers : /\ Takes(Mixer(l), t) = IF l = 0 THEN {t} ELSE 1 .. t
                              /\ Takes(Mlp(l), t) = 1 .. t
         /\ Takes(Only("embed_current"), t) = {t}
         /\ Takes(Only("embed_next"), t) = {t + 1}
         /\ Takes(Only("lm_head_primary"), t) = 1 .. t
         /\ \A kind \in {"mtp_mix", "mtp_mixer", "mtp_mlp", "lm_head_mtp"} :
               Takes(Only(kind), t) = 1 .. t + 1
<1>0. /\ \A l \in Layers : Mixer(l)[1] = "language_mixer" /\ Mlp(l)[1] = "language_mlp"
      /\ \A kind \in SingleKinds : Only(kind)[1] = kind
  BY DEF Mixer, Mlp, Only
<1>1. ASSUME NEW l \in Layers
      PROVE  Takes(Mixer(l), t) = IF l = 0 THEN {t} ELSE 1 .. t
  <2>1. Producers(Mixer(l)) = {IF l = 0 THEN Only("embed_current") ELSE Mlp(l - 1)}
    BY DEF Producers, Mixer
  <2>2. Takes(Mixer(l), t)
            = Sees(IF l = 0 THEN Only("embed_current") ELSE Mlp(l - 1), t)
    BY <1>0, <2>1, OneProducer
  <2>3. CASE l = 0
    BY <2>2, <2>3, SeesFact
  <2>4. CASE l # 0
    <3>1. l - 1 \in Layers
      BY <2>4, SizeFact
    <3> QED BY <2>2, <2>4, <3>1, SeesFact
  <2> QED BY <2>3, <2>4
<1>2. ASSUME NEW l \in Layers PROVE Takes(Mlp(l), t) = 1 .. t
  <2>1. Producers(Mlp(l)) = {Mixer(l)}
    BY DEF Producers, Mlp
  <2>2. Takes(Mlp(l), t) = Sees(Mixer(l), t)
    BY <1>0, <2>1, OneProducer
  <2> QED BY <2>2, SizeFact, SeesFact
<1>3. Takes(Only("embed_current"), t) = {t} /\ Takes(Only("embed_next"), t) = {t + 1}
  BY DEF Takes, Only
<1>4. Takes(Only("lm_head_primary"), t) = 1 .. t
  <2>1. Producers(Only("lm_head_primary")) = {Mlp(NLayers - 1)}
    BY DEF Producers, Only
  <2>2. Takes(Only("lm_head_primary"), t) = Sees(Mlp(NLayers - 1), t)
    BY <1>0, <2>1, OneProducer DEF SingleKinds
  <2> QED BY <2>2, SizeFact, SeesFact
<1>5. Takes(Only("mtp_mix"), t) = 1 .. t + 1
  <2>1. Producers(Only("mtp_mix")) = {Mlp(NLayers - 1), Only("embed_next")}
    BY DEF Producers, Only
  <2>2. Takes(Only("mtp_mix"), t)
            = Sees(Mlp(NLayers - 1), t) \cup Sees(Only("embed_next"), t)
    <3>1. Only("mtp_mix")[1] \notin {"embed_current", "embed_next"}
      BY DEF Only
    <3>2. Takes(Only("mtp_mix"), t)
              = UNION {Sees(u, t) : u \in {Mlp(NLayers - 1), Only("embed_next")}}
      BY <2>1, <3>1 DEF Takes
    <3>3. {Sees(u, t) : u \in {Mlp(NLayers - 1), Only("embed_next")}}
              = {Sees(Mlp(NLayers - 1), t), Sees(Only("embed_next"), t)}
      OBVIOUS
    <3> QED BY <3>2, <3>3
  <2>3. Takes(Only("mtp_mix"), t) = (1 .. t) \cup {t + 1}
    BY <2>2, SizeFact, SeesFact
  <2>4. (1 .. t) \cup {t + 1} = 1 .. t + 1
    OBVIOUS
  <2> QED BY <2>3, <2>4
<1>6. Takes(Only("mtp_mixer"), t) = 1 .. t + 1
  <2>1. Producers(Only("mtp_mixer")) = {Only("mtp_mix")}
    BY DEF Producers, Only
  <2>2. Takes(Only("mtp_mixer"), t) = Sees(Only("mtp_mix"), t)
    BY <1>0, <2>1, OneProducer DEF SingleKinds
  <2> QED BY <2>2, SizeFact, SeesFact
<1>7. Takes(Only("mtp_mlp"), t) = 1 .. t + 1
  <2>1. Producers(Only("mtp_mlp")) = {Only("mtp_mixer")}
    BY DEF Producers, Only
  <2>2. Takes(Only("mtp_mlp"), t) = Sees(Only("mtp_mixer"), t)
    BY <1>0, <2>1, OneProducer DEF SingleKinds
  <2> QED BY <2>2, SizeFact, SeesFact
<1>8. Takes(Only("lm_head_mtp"), t) = 1 .. t + 1
  <2>1. Producers(Only("lm_head_mtp")) = {Only("mtp_mlp")}
    BY DEF Producers, Only
  <2>2. Takes(Only("lm_head_mtp"), t) = Sees(Only("mtp_mlp"), t)
    BY <1>0, <2>1, OneProducer DEF SingleKinds
  <2> QED BY <2>2, SizeFact, SeesFact
<1> QED BY <1>1, <1>2, <1>3, <1>4, <1>5, <1>6, <1>7, <1>8

LEMMA EnteringFact ==
  ASSUME NEW i \in Nat \ {0}
  PROVE  /\ \A l \in Layers : Entering(Mixer(l), i) = IF l = 0 THEN {i} ELSE 1 .. i
         /\ Entering(Only("mtp_mixer"), i) = 1 .. i + 1
  BY SizeFact DEF Entering, Mixer, Only

\* A stage without state passes on what it takes in; a mixer takes in what is to
\* enter its state, and with what it has absorbed before sees the whole prefix.
LEMMA AbsorbFact ==
  ASSUME NEW s \in Stages, NEW t \in Nat \ {0}
  PROVE  /\ Takes(s, t) \subseteq 1 .. t + 1
         /\ s \notin KvStages \cup CsStages => Takes(s, t) = Sees(s, t)
         /\ s \in KvStages \cup CsStages =>
               /\ Takes(s, t) = Entering(s, t)
               /\ UNION {Entering(s, i) : i \in 1 .. t} = Sees(s, t)
<1>1. CASE \E l \in Layers : s = Mixer(l)
  <2>1. PICK l \in Layers : s = Mixer(l)
    BY <1>1
  <2>2. /\ s \in KvStages \cup CsStages
        /\ Takes(s, t) = Entering(s, t) /\ Takes(s, t) \subseteq 1 .. t + 1
    <3>1. s \in KvStages \cup CsStages
      BY <2>1, CarrierFact
    <3>2. Takes(s, t) = IF l = 0 THEN {t} ELSE 1 .. t
      BY <2>1, TakesFact
    <3>3. Entering(s, t) = IF l = 0 THEN {t} ELSE 1 .. t
      BY <2>1, EnteringFact
    <3> QED BY <3>1, <3>2, <3>3
  <2>3. \A i \in 1 .. t : i \in Entering(s, i) /\ Entering(s, i) \subseteq 1 .. t
    <3>1. ASSUME NEW i \in 1 .. t
          PROVE  Entering(s, i) = IF l = 0 THEN {i} ELSE 1 .. i
      <4>1. i \in Nat \ {0}
        OBVIOUS
      <4> QED BY <2>1, <4>1, EnteringFact
    <3> QED BY <3>1
  <2>4. UNION {Entering(s, i) : i \in 1 .. t} = 1 .. t
    BY <2>3
  <2> QED BY <2>1, <2>2, <2>4, SeesFact
<1>2. CASE \E l \in Layers : s = Mlp(l)
  <2>1. PICK l \in Layers : s = Mlp(l)
    BY <1>2
  <2>2. s \notin KvStages \cup CsStages
    BY <2>1, CarrierFact DEF Mlp, Mixer, Only
  <2> QED BY <2>1, <2>2, TakesFact, SeesFact
<1>3. CASE \E kind \in SingleKinds : s = Only(kind)
  <2>1. PICK kind \in SingleKinds : s = Only(kind)
    BY <1>3
  <2>2. CASE kind # "mtp_mixer"
    <3>1. s \notin KvStages \cup CsStages
      <4>1. s # Only("mtp_mixer")
        BY <2>1, <2>2 DEF Only
      <4>2. \A l \in Layers : s # Mixer(l)
        BY <2>1 DEF Only, Mixer, SingleKinds
      <4> QED BY <4>1, <4>2, CarrierFact
    <3>2. CASE kind \in {"mtp_mix", "mtp_mlp", "lm_head_mtp"}
      <4>1. Takes(s, t) = 1 .. t + 1 /\ Sees(s, t) = 1 .. t + 1
        BY <2>1, <3>2, TakesFact, SeesFact
      <4> QED BY <3>1, <4>1
    <3>3. CASE kind \in {"embed_current", "embed_next", "lm_head_primary"}
      <4>1. Takes(s, t) = Sees(s, t) /\ Takes(s, t) \subseteq 1 .. t + 1
        <5>1. CASE kind = "embed_current"
          <6>1. Takes(s, t) = {t} /\ Sees(s, t) = {t}
            BY <2>1, <5>1, TakesFact, SeesFact
          <6> QED BY <6>1
        <5>2. CASE kind = "embed_next"
          <6>1. Takes(s, t) = {t + 1} /\ Sees(s, t) = {t + 1}
            BY <2>1, <5>2, TakesFact, SeesFact
          <6> QED BY <6>1
        <5>3. CASE kind = "lm_head_primary"
          BY <2>1, <5>3, TakesFact, SeesFact
        <5> QED BY <3>3, <5>1, <5>2, <5>3
      <4> QED BY <3>1, <4>1
    <3> QED BY <2>2, <3>2, <3>3 DEF SingleKinds
  <2>3. CASE kind = "mtp_mixer"
    <3>1. s = Only("mtp_mixer") /\ s \in KvStages
      BY <2>1, <2>3 DEF KvStages
    <3>2. Takes(s, t) = Entering(s, t) /\ Takes(s, t) \subseteq 1 .. t + 1
      BY <3>1, TakesFact, EnteringFact
    <3>3. \A i \in 1 .. t : Entering(s, i) = 1 .. i + 1
      BY <3>1, EnteringFact
    <3>4. UNION {Entering(s, i) : i \in 1 .. t} = 1 .. t + 1
      <4>1. t \in 1 .. t /\ Entering(s, t) = 1 .. t + 1
        BY <3>3
      <4>2. \A i \in 1 .. t : Entering(s, i) \subseteq 1 .. t + 1
        BY <3>3
      <4> QED BY <4>1, <4>2
    <3> QED BY <3>1, <3>2, <3>4, SeesFact
  <2> QED BY <2>2, <2>3
<1> QED BY <1>1, <1>2, <1>3, StageShape

-----------------------------------------------------------------------------
(* What the mixers carry.                                                    *)

History(s, n) == [i \in 1 .. n |-> Entering(s, i)]

\* The tail of the history that fits the delay line.
Held(n) == IF n < Delay THEN n ELSE Delay
Window(s, n) == [i \in 1 .. Held(n) |-> Entering(s, n - Held(n) + i)]

Absorbed(s, n) == UNION {Entering(s, i) : i \in 1 .. n}

LEMMA HistoryStep ==
  ASSUME NEW s, NEW n \in Nat, NEW T, History(s, n) \in Seq(T), Entering(s, n + 1) \in T
  PROVE  Append(History(s, n), Entering(s, n + 1)) = History(s, n + 1)
<1> DEFINE h == History(s, n)
           p == Append(h, Entering(s, n + 1))
<1>1. DOMAIN h = 1 .. n /\ \A i \in 1 .. n : h[i] = Entering(s, i)
  BY DEF History
<1>2. Len(h) = n
  BY <1>1, LenProperties
<1>3. /\ p \in Seq(T) /\ Len(p) = n + 1
      /\ \A i \in 1 .. n : p[i] = h[i]
      /\ p[n + 1] = Entering(s, n + 1)
  BY <1>2, AppendProperties
<1> HIDE DEF p
<1>4. p \in [1 .. n + 1 -> T]
  BY <1>3, LenProperties
<1>5. \A i \in 1 .. n + 1 : p[i] = Entering(s, i)
  BY <1>1, <1>3
<1>6. p = [i \in 1 .. n + 1 |-> Entering(s, i)]
  BY <1>4, <1>5
<1> QED BY <1>6 DEF p, History

LEMMA WindowStep ==
  ASSUME NEW s, NEW n \in Nat, NEW T, Window(s, n) \in Seq(T), Entering(s, n + 1) \in T
  PROVE  /\ Shift(Window(s, n), Entering(s, n + 1)) = Window(s, n + 1)
         /\ Window(s, n + 1) \in Seq(T)
<1> DEFINE m == Held(n)
           k == Held(n + 1)
           w == Window(s, n)
           p == Append(w, Entering(s, n + 1))
           q == Shift(w, Entering(s, n + 1))
<1>1. /\ m \in Nat /\ k \in Nat /\ m <= n /\ Delay \in Nat
      /\ n < Delay => m = n /\ k = n + 1
      /\ ~(n < Delay) => m = Delay /\ k = Delay
  BY SizeFact DEF Held
<1>2. DOMAIN w = 1 .. m /\ \A i \in 1 .. m : w[i] = Entering(s, n - m + i)
  BY DEF Window
<1>0. w \in Seq(T)
  OBVIOUS
<1> HIDE DEF w
<1>3. Len(w) = m
  BY <1>0, <1>1, <1>2, LenProperties
<1>4. /\ p \in Seq(T) /\ Len(p) = m + 1
      /\ \A i \in 1 .. m : p[i] = w[i]
      /\ p[m + 1] = Entering(s, n + 1)
  BY <1>0, <1>3, AppendProperties
<1>5. q = IF Len(p) > Delay THEN Tail(p) ELSE p
  BY DEF Shift
<1> HIDE DEF p, q, w, m, k
<1>6. p # <<>>
  BY <1>1, <1>4
<1>7. /\ Tail(p) \in Seq(T) /\ Len(Tail(p)) = m
      /\ \A i \in 1 .. m : Tail(p)[i] = p[i + 1]
  BY <1>1, <1>4, <1>6, HeadTailProperties
<1>8. q \in Seq(T) /\ Len(q) = k /\ \A i \in 1 .. k : q[i] = Entering(s, (n + 1) - k + i)
  <2>1. CASE n < Delay
    <3>1. m = n /\ k = n + 1 /\ q = p
      BY <1>1, <1>4, <1>5, <2>1
    <3>2. \A i \in 1 .. n : p[i] = Entering(s, i)
      BY <1>2, <1>4, <3>1
    <3>3. \A i \in 1 .. n + 1 : p[i] = Entering(s, i)
      BY <1>4, <3>1, <3>2
    <3>4. \A i \in 1 .. k : (n + 1) - k + i = i
      BY <1>1, <3>1
    <3> QED BY <1>4, <3>1, <3>3, <3>4
  <2>2. CASE ~(n < Delay)
    <3>1. m = Delay /\ k = Delay /\ q = Tail(p)
      BY <1>1, <1>4, <1>5, <2>2
    <3>2. ASSUME NEW i \in 1 .. k PROVE q[i] = Entering(s, (n + 1) - k + i)
      <4>1. i \in 1 .. m /\ q[i] = p[i + 1]
        BY <1>7, <3>1
      <4>2. CASE i = m
        BY <1>1, <1>4, <3>1, <4>1, <4>2
      <4>3. CASE i < m
        <5>1. i + 1 \in 1 .. m /\ n - m + (i + 1) = (n + 1) - k + i
          BY <1>1, <3>1, <4>1, <4>3
        <5>2. p[i + 1] = Entering(s, n - m + (i + 1))
          BY <1>2, <1>4, <5>1
        <5> QED BY <4>1, <5>1, <5>2
      <4> QED BY <1>1, <4>1, <4>2, <4>3
    <3> QED BY <1>7, <3>1, <3>2
  <2> QED BY <2>1, <2>2
<1>9. q \in [1 .. k -> T]
  BY <1>8, LenProperties
<1>10. q = [i \in 1 .. k |-> Entering(s, (n + 1) - k + i)]
  BY <1>8, <1>9
<1>11. q = Window(s, n + 1)
  BY <1>10 DEF Window, k
<1> QED BY <1>8, <1>11 DEF q, w

LEMMA AbsorbedStep ==
  ASSUME NEW s, NEW n \in Nat
  PROVE  Absorbed(s, n) \cup Entering(s, n + 1) = Absorbed(s, n + 1)
<1>1. \A i : i \in 1 .. n + 1 <=> i \in 1 .. n \/ i = n + 1
  OBVIOUS
<1>2. \A x : x \in Absorbed(s, n + 1) <=> \E i \in 1 .. n + 1 : x \in Entering(s, i)
  BY DEF Absorbed
<1>3. \A x : x \in Absorbed(s, n) <=> \E i \in 1 .. n : x \in Entering(s, i)
  BY DEF Absorbed
<1> QED BY <1>1, <1>2, <1>3

\* The delay line holds nothing that the recurrent state has not absorbed.
LEMMA WindowAbsorbed ==
  ASSUME NEW s, NEW n \in Nat, NEW i \in DOMAIN Window(s, n)
  PROVE  Window(s, n)[i] \subseteq Absorbed(s, n)
<1> DEFINE m == Held(n)
<1>1. i \in 1 .. m /\ Window(s, n)[i] = Entering(s, n - m + i)
  BY DEF Window
<1>2. n - m + i \in 1 .. n
  BY <1>1, SizeFact DEF Held
<1> HIDE DEF m
<1> QED BY <1>1, <1>2 DEF Absorbed

-----------------------------------------------------------------------------
(* A stage runs.                                                             *)

LEMMA StateForm ==
  StateHoldsThePrefix <=>
    /\ \A s \in KvStages : kv[s] = History(s, Done(s))
    /\ \A s \in CsStages : /\ conv[s] = Window(s, Done(s))
                           /\ rec[s] = Absorbed(s, Done(s))
  BY DEF StateHoldsThePrefix, History, Window, Held, Absorbed

LEMMA DoneFact ==
  ASSUME TypeOK, NEW s \in Stages
  PROVE  Done(s) \in Nat /\ out[s] \in Seq(SUBSET (1 .. MaxT + 1))
  BY LenProperties DEF TypeOK, Done

\* In either order a stage finds the outputs of all its producers.
LEMMA InputFact ==
  ASSUME IInv, NEW s \in Stages, MayRun(s)
  PROVE  /\ Done(s) + 1 \in 1 .. horizon
         /\ Input(s, Done(s) + 1) = Takes(s, Done(s) + 1)
<1> DEFINE t == Done(s) + 1
<1>1. /\ Done(s) \in Nat /\ horizon \in Nat /\ Done(s) < horizon
  BY DoneFact DEF IInv, TypeOK, MayRun
<1>2. t \in 1 .. horizon
  BY <1>1
<1>3. ASSUME NEW u \in Producers(s)
      PROVE  t <= Done(u) /\ out[u][t] = Sees(u, t)
  <2>1. u \in Stages /\ u \notin Projections /\ Rank(u) < Rank(s)
    BY ProducersFact
  <2>2. Done(u) = horizon
    BY <1>3, <2>1 DEF MayRun
  <2>3. t \in 1 .. Done(u)
    BY <1>2, <2>2
  <2>4. out[u][t] = IF Skipped(u, t) THEN {} ELSE Sees(u, t)
    BY <2>1, <2>3 DEF IInv, Traced
  <2>5. ~Skipped(u, t)
    BY <2>1 DEF Skipped
  <2> QED BY <1>1, <2>2, <2>4, <2>5
<1> HIDE DEF t
<1>4. {q \in Producers(s) : t <= Done(q)} = Producers(s)
  BY <1>3
<1>5. {out[u][t] : u \in Producers(s)} = {Sees(u, t) : u \in Producers(s)}
  BY <1>3
<1>6. Input(s, t) = Takes(s, t)
  BY <1>4, <1>5 DEF Input, Takes
<1> QED BY <1>2, <1>6 DEF t

\* What a stage takes in and what it carries are together what it should see.
LEMMA CarriedFact ==
  ASSUME IInv, NEW s \in Stages
  PROVE  Takes(s, Done(s) + 1) \cup Carried(s) = Sees(s, Done(s) + 1)
<1> DEFINE n == Done(s)
<1>1. n \in Nat
  BY DoneFact DEF IInv
<1>2. n + 1 \in Nat \ {0}
  BY <1>1
<1> HIDE DEF n
<1>3. CASE s \notin KvStages \cup CsStages
  <2>1. Carried(s) = {}
    BY <1>3 DEF Carried
  <2>2. Takes(s, n + 1) = Sees(s, n + 1)
    BY <1>2, <1>3, AbsorbFact
  <2> QED BY <2>1, <2>2 DEF n
<1>4. ASSUME s \in KvStages \cup CsStages, Carried(s) = Absorbed(s, n)
      PROVE  Takes(s, Done(s) + 1) \cup Carried(s) = Sees(s, Done(s) + 1)
  <2>1. Takes(s, n + 1) = Entering(s, n + 1) /\ Absorbed(s, n + 1) = Sees(s, n + 1)
    BY <1>2, <1>4, AbsorbFact DEF Absorbed
  <2>2. Absorbed(s, n) \cup Entering(s, n + 1) = Absorbed(s, n + 1)
    BY <1>1, AbsorbedStep
  <2> QED BY <1>4, <2>1, <2>2 DEF n
<1>5. CASE s \in KvStages
  <2>1. kv[s] = History(s, n)
    BY <1>5, StateForm DEF IInv, n
  <2>2. Len(kv[s]) = n
    <3>1. kv[s] \in Seq(SUBSET (1 .. MaxT + 1))
      BY <1>5 DEF IInv, TypeOK
    <3> QED BY <1>1, <2>1, <3>1, LenProperties DEF History
  <2>3. {kv[s][i] : i \in 1 .. Len(kv[s])} = {Entering(s, i) : i \in 1 .. n}
    BY <2>1, <2>2 DEF History
  <2>4. Carried(s) = UNION {kv[s][i] : i \in 1 .. Len(kv[s])}
    BY <1>5, CarrierFact DEF Carried
  <2> QED BY <1>4, <1>5, <2>3, <2>4 DEF Absorbed
<1>6. CASE s \in CsStages
  <2>1. conv[s] = Window(s, n) /\ rec[s] = Absorbed(s, n)
    BY <1>6, StateForm DEF IInv, n
  <2>2. 1 .. Len(conv[s]) = DOMAIN Window(s, n)
    <3>1. conv[s] \in Seq(SUBSET (1 .. MaxT + 1))
      BY <1>6 DEF IInv, TypeOK
    <3> QED BY <2>1, <3>1, LenProperties
  <2>3. \A i \in 1 .. Len(conv[s]) : conv[s][i] \subseteq Absorbed(s, n)
    BY <1>1, <2>1, <2>2, WindowAbsorbed
  <2>4. Carried(s) = rec[s] \cup UNION {conv[s][i] : i \in 1 .. Len(conv[s])}
    BY <1>6, CarrierFact DEF Carried
  <2>5. Carried(s) = Absorbed(s, n)
    BY <2>1, <2>3, <2>4
  <2> QED BY <1>4, <1>6, <2>5
<1> QED BY <1>3, <1>5, <1>6

\* A step that is not a stage's leaves everything but the horizon, which grows.
LEMMA RunCases ==
  ASSUME [Next]_vars
  PROVE  \/ \E s \in Stages : RunStage(s)
         \/ /\ plan' = plan /\ out' = out /\ kv' = kv /\ conv' = conv /\ rec' = rec
            /\ horizon' = horizon \/ (horizon < MaxT /\ horizon' = horizon + 1)
  BY DEF Next, Present, Finished, vars

LEMMA RunEffect ==
  ASSUME IInv, NEW s \in Stages, RunStage(s)
  PROVE  /\ Done(s) + 1 \in 1 .. horizon
         /\ plan' = plan /\ horizon' = horizon
         /\ out' = [out EXCEPT ![s] = Append(@, IF Skipped(s, Done(s) + 1) THEN {}
                                                ELSE Sees(s, Done(s) + 1))]
         /\ kv' = IF s \in KvStages
                  THEN [kv EXCEPT ![s] = Append(@, Entering(s, Done(s) + 1))] ELSE kv
         /\ conv' = IF s \in CsStages
                    THEN [conv EXCEPT ![s] = Shift(@, Entering(s, Done(s) + 1))] ELSE conv
         /\ rec' = IF s \in CsStages
                   THEN [rec EXCEPT ![s] = @ \cup Entering(s, Done(s) + 1)] ELSE rec
<1> DEFINE t == Done(s) + 1
<1>1. MayRun(s)
  BY DEF RunStage
<1>2. t \in 1 .. horizon /\ Input(s, t) = Takes(s, t)
  BY <1>1, InputFact
<1>3. t \in Nat \ {0}
  BY DoneFact DEF IInv
<1>4. Takes(s, t) \cup Carried(s) = Sees(s, t)
  BY CarriedFact
<1> HIDE DEF t
<1>5. s \in KvStages \cup CsStages => Takes(s, t) = Entering(s, t)
  BY <1>3, AbsorbFact
<1>6. PICK in : /\ in = Takes(s, t)
                /\ out' = [out EXCEPT ![s] = Append(@,
                              IF Skipped(s, t) THEN {} ELSE in \cup Carried(s))]
                /\ kv' = IF s \in KvStages
                         THEN [kv EXCEPT ![s] = Append(@, in)] ELSE kv
                /\ conv' = IF s \in CsStages
                           THEN [conv EXCEPT ![s] = Shift(@, in)] ELSE conv
                /\ rec' = IF s \in CsStages
                          THEN [rec EXCEPT ![s] = @ \cup in] ELSE rec
                /\ plan' = plan /\ horizon' = horizon
  BY <1>2 DEF RunStage, t
<1> QED BY <1>2, <1>4, <1>5, <1>6 DEF t

LEMMA BoundFact ==
  ASSUME TypeOK, NEW s \in Stages, NEW t \in 1 .. horizon
  PROVE  /\ Sees(s, t) \in SUBSET (1 .. MaxT + 1)
         /\ s \in KvStages \cup CsStages => Entering(s, t) \in SUBSET (1 .. MaxT + 1)
<1>1. t \in Nat \ {0} /\ 1 .. t + 1 \subseteq 1 .. MaxT + 1
  BY SizeFact DEF TypeOK
<1>2. Sees(s, t) \subseteq 1 .. t + 1
  BY <1>1, SeesBound
<1>3. s \in KvStages \cup CsStages => Entering(s, t) \subseteq 1 .. t + 1
  BY <1>1, AbsorbFact
<1> QED BY <1>1, <1>2, <1>3

LEMMA OutStep ==
  ASSUME IInv, NEW s \in Stages, RunStage(s)
  PROVE  /\ out' \in [Stages -> Seq(SUBSET (1 .. MaxT + 1))]
         /\ Done(s)' = Done(s) + 1
         /\ \A u \in Stages \ {s} : Done(u)' = Done(u)
         /\ Bounded' /\ Traced'
<1> DEFINE n == Done(s)
           x == IF Skipped(s, n + 1) THEN {} ELSE Sees(s, n + 1)
<1>1. /\ n + 1 \in 1 .. horizon /\ plan' = plan /\ horizon' = horizon
      /\ out' = [out EXCEPT ![s] = Append(@, x)]
  BY RunEffect
<1>2. n \in Nat /\ out[s] \in Seq(SUBSET (1 .. MaxT + 1)) /\ Len(out[s]) = n
  BY DoneFact DEF IInv, Done
<1>3. x \in SUBSET (1 .. MaxT + 1)
  BY <1>1, BoundFact DEF IInv
<1> HIDE DEF x
<1>4. /\ Append(out[s], x) \in Seq(SUBSET (1 .. MaxT + 1))
      /\ Len(Append(out[s], x)) = n + 1
      /\ \A i \in 1 .. n : Append(out[s], x)[i] = out[s][i]
      /\ Append(out[s], x)[n + 1] = x
  BY <1>2, <1>3, AppendProperties
<1>5. out \in [Stages -> Seq(SUBSET (1 .. MaxT + 1))]
  BY DEF IInv, TypeOK
<1>6. out'[s] = Append(out[s], x) /\ \A u \in Stages \ {s} : out'[u] = out[u]
  BY <1>1, <1>5
<1>7. out' \in [Stages -> Seq(SUBSET (1 .. MaxT + 1))]
  BY <1>1, <1>4, <1>5
<1>8. Done(s)' = n + 1 /\ \A u \in Stages \ {s} : Done(u)' = Done(u)
  BY <1>4, <1>6 DEF Done
<1>9. Bounded'
  <2>1. ASSUME NEW u \in Stages PROVE Done(u)' <= horizon
    BY <1>1, <1>8 DEF IInv, Bounded
  <2> QED BY <1>1, <2>1 DEF Bounded
<1>10. ASSUME NEW u \in Stages, NEW t \in 1 .. Done(u)'
       PROVE  out'[u][t] = IF Skipped(u, t)' THEN {} ELSE Sees(u, t)
  <2>1. Skipped(u, t)' = Skipped(u, t)
    BY <1>1 DEF Skipped
  <2>2. CASE u # s
    <3>1. t \in 1 .. Done(u)
      BY <1>8, <2>2
    <3> QED BY <1>6, <2>1, <2>2, <3>1 DEF IInv, Traced
  <2>3. CASE u = s /\ t = n + 1
    BY <1>4, <1>6, <2>1, <2>3 DEF x
  <2>4. CASE u = s /\ t # n + 1
    <3>1. t \in 1 .. n
      BY <1>2, <1>8, <2>4
    <3>2. out[s][t] = IF Skipped(s, t) THEN {} ELSE Sees(s, t)
      BY <3>1 DEF IInv, Traced
    <3> QED BY <1>4, <1>6, <2>1, <2>4, <3>1, <3>2
  <2> QED BY <2>2, <2>3, <2>4
<1>11. Traced'
  BY <1>10 DEF Traced
<1> QED BY <1>7, <1>8, <1>9, <1>11

LEMMA StateStep ==
  ASSUME IInv, NEW s \in Stages, RunStage(s)
  PROVE  /\ kv' \in [KvStages -> Seq(SUBSET (1 .. MaxT + 1))]
         /\ conv' \in [CsStages -> Seq(SUBSET (1 .. MaxT + 1))]
         /\ rec' \in [CsStages -> SUBSET (1 .. MaxT + 1)]
         /\ StateHoldsThePrefix'
<1> DEFINE n == Done(s)
           x == Entering(s, n + 1)
           T == SUBSET (1 .. MaxT + 1)
<1>1. /\ n + 1 \in 1 .. horizon
      /\ kv' = IF s \in KvStages THEN [kv EXCEPT ![s] = Append(@, x)] ELSE kv
      /\ conv' = IF s \in CsStages THEN [conv EXCEPT ![s] = Shift(@, x)] ELSE conv
      /\ rec' = IF s \in CsStages THEN [rec EXCEPT ![s] = @ \cup x] ELSE rec
  BY RunEffect
<1>2. n \in Nat
  BY DoneFact DEF IInv
<1>3. s \in KvStages \cup CsStages => x \in T
  BY <1>1, BoundFact DEF IInv
<1>4. Done(s)' = n + 1 /\ \A u \in Stages \ {s} : Done(u)' = Done(u)
  BY OutStep
<1>5. /\ kv \in [KvStages -> Seq(T)] /\ conv \in [CsStages -> Seq(T)]
      /\ rec \in [CsStages -> T]
  BY DEF IInv, TypeOK
<1>6. /\ \A u \in KvStages : kv[u] = History(u, Done(u))
      /\ \A u \in CsStages : conv[u] = Window(u, Done(u)) /\ rec[u] = Absorbed(u, Done(u))
  BY StateForm DEF IInv
<1>7. KvStages \subseteq Stages /\ CsStages \subseteq Stages
  BY CarrierFact
<1> HIDE DEF n, x, T
<1>8. s \in KvStages =>
         Append(kv[s], x) \in Seq(T) /\ Append(kv[s], x) = History(s, n + 1)
  <2> SUFFICES ASSUME s \in KvStages
               PROVE  Append(kv[s], x) \in Seq(T) /\ Append(kv[s], x) = History(s, n + 1)
    OBVIOUS
  <2>1. kv[s] = History(s, n) /\ kv[s] \in Seq(T) /\ x \in T /\ x = Entering(s, n + 1)
    BY <1>3, <1>5, <1>6 DEF n, x
  <2> QED BY <1>2, <2>1, HistoryStep, AppendProperties
<1>9. s \in CsStages =>
         /\ Shift(conv[s], x) \in Seq(T) /\ Shift(conv[s], x) = Window(s, n + 1)
         /\ (rec[s] \cup x) \in T /\ (rec[s] \cup x) = Absorbed(s, n + 1)
  <2> SUFFICES ASSUME s \in CsStages
               PROVE  /\ Shift(conv[s], x) \in Seq(T)
                      /\ Shift(conv[s], x) = Window(s, n + 1)
                      /\ (rec[s] \cup x) \in T /\ (rec[s] \cup x) = Absorbed(s, n + 1)
    OBVIOUS
  <2>1. /\ conv[s] = Window(s, n) /\ conv[s] \in Seq(T)
        /\ rec[s] = Absorbed(s, n) /\ rec[s] \in T /\ x \in T /\ x = Entering(s, n + 1)
    BY <1>3, <1>5, <1>6 DEF n, x
  <2>2. Shift(conv[s], x) \in Seq(T) /\ Shift(conv[s], x) = Window(s, n + 1)
    BY <1>2, <2>1, WindowStep
  <2>3. (rec[s] \cup x) = Absorbed(s, n + 1)
    BY <1>2, <2>1, AbsorbedStep
  <2>4. (rec[s] \cup x) \in T
    BY <2>1 DEF T
  <2> QED BY <2>2, <2>3, <2>4
<1>10. kv' \in [KvStages -> Seq(T)] /\ conv' \in [CsStages -> Seq(T)] /\ rec' \in [CsStages -> T]
  BY <1>1, <1>5, <1>8, <1>9
<1>11. ASSUME NEW u \in KvStages PROVE kv'[u] = History(u, Done(u)')
  <2>1. CASE u = s
    BY <1>1, <1>4, <1>5, <1>8, <2>1
  <2>2. CASE u # s
    <3>1. kv'[u] = kv[u]
      BY <1>1, <1>5, <2>2
    <3> QED BY <1>4, <1>6, <1>7, <2>2, <3>1
  <2> QED BY <2>1, <2>2
<1>12. ASSUME NEW u \in CsStages
       PROVE  conv'[u] = Window(u, Done(u)') /\ rec'[u] = Absorbed(u, Done(u)')
  <2>1. CASE u = s
    BY <1>1, <1>4, <1>5, <1>9, <2>1
  <2>2. CASE u # s
    <3>1. conv'[u] = conv[u] /\ rec'[u] = rec[u]
      BY <1>1, <1>5, <2>2
    <3> QED BY <1>4, <1>6, <1>7, <2>2, <3>1
  <2> QED BY <2>1, <2>2
<1>13. StateHoldsThePrefix'
  <2>1. StateHoldsThePrefix' <=>
          /\ \A u \in KvStages : kv'[u] = History(u, Done(u)')
          /\ \A u \in CsStages : /\ conv'[u] = Window(u, Done(u)')
                                 /\ rec'[u] = Absorbed(u, Done(u)')
    BY DEF StateHoldsThePrefix, History, Window, Held, Absorbed
  <2> QED BY <1>11, <1>12, <2>1
<1> QED BY <1>10, <1>13 DEF T

-----------------------------------------------------------------------------
(* The theorems.                                                             *)

LEMMA InitIsInductive == Init => IInv
<1> SUFFICES ASSUME Init PROVE IInv
  OBVIOUS
<1>1. /\ out = [s \in Stages |-> <<>>] /\ kv = [s \in KvStages |-> <<>>]
      /\ conv = [s \in CsStages |-> <<>>] /\ rec = [s \in CsStages |-> {}]
      /\ plan \in [order : Orders, mode : Modes, last : LastOnly, prompt : 1 .. MaxT]
      /\ horizon \in 1 .. MaxT
  BY SizeFact DEF Init
<1>2. \A s \in Stages : Done(s) = 0
  BY <1>1, EmptySeq DEF Done
<1>3. TypeOK
  BY <1>1, EmptySeq DEF TypeOK
<1>4. Bounded /\ Traced
  BY <1>1, <1>2 DEF Bounded, Traced
<1>5. \A s : /\ History(s, 0) = <<>> /\ Window(s, 0) = <<>> /\ Absorbed(s, 0) = {}
  <2>1. 1 .. 0 = {} /\ Held(0) = 0
    BY SizeFact DEF Held
  <2> QED BY <2>1 DEF History, Window, Absorbed
<1>6. StateHoldsThePrefix
  BY <1>1, <1>2, <1>5, CarrierFact, StateForm
<1> QED BY <1>3, <1>4, <1>6 DEF IInv

LEMMA StepIsInductive ==
  ASSUME IInv, [Next]_vars
  PROVE  IInv'
<1>1. ASSUME NEW s \in Stages, RunStage(s) PROVE IInv'
  <2>1. plan' = plan /\ horizon' = horizon
    BY <1>1, RunEffect
  <2>2. TypeOK'
    BY <1>1, <2>1, OutStep, StateStep DEF IInv, TypeOK
  <2> QED BY <1>1, <2>2, OutStep, StateStep DEF IInv
<1>2. CASE /\ plan' = plan /\ out' = out /\ kv' = kv /\ conv' = conv /\ rec' = rec
           /\ horizon' = horizon \/ (horizon < MaxT /\ horizon' = horizon + 1)
  <2>1. horizon' \in 1 .. MaxT /\ horizon <= horizon'
    BY <1>2, SizeFact DEF IInv, TypeOK
  <2>2. \A s \in Stages : Done(s)' = Done(s)
    BY <1>2 DEF Done
  <2>3. TypeOK'
    BY <1>2, <2>1 DEF IInv, TypeOK
  <2>4. Bounded'
    <3>1. ASSUME NEW s \in Stages PROVE Done(s)' <= horizon'
      BY <2>1, <2>2, DoneFact DEF IInv, Bounded, TypeOK
    <3> QED BY <3>1 DEF Bounded
  <2>5. Traced'
    BY <1>2, <2>2 DEF IInv, Traced, Skipped
  <2>6. StateHoldsThePrefix'
    BY <1>2 DEF IInv, StateHoldsThePrefix, Done
  <2> QED BY <2>3, <2>4, <2>5, <2>6 DEF IInv
<1> QED BY <1>1, <1>2, RunCases

LEMMA Inductive == Spec => []IInv
BY InitIsInductive, StepIsInductive, PTL DEF Spec

\* Outputs and state are what they are said to be, for any number of layers,
\* any interval of full attention and any kernel width.
THEOREM TypeCorrect == Spec => []TypeOK
BY Inductive, PTL DEF IInv

\* In every order the ready constraints admit, and for a prompt taken at once or
\* token by token, the first projection sees exactly the tokens up to its position
\* and the second one the teacher-forced next token as well (the selected order and
\* the hoist hypotheses of the plans agree on what is computed).
THEOREM LogitsAreCausal == Spec => []LogitsSeeThePrefix
<1>1. IInv => LogitsSeeThePrefix
  <2> SUFFICES ASSUME IInv, NEW s \in Projections, NEW t \in 1 .. Done(s), ~Skipped(s, t)
               PROVE  out[s][t] = 1 .. (IF s = Only("lm_head_primary") THEN t ELSE t + 1)
    BY DEF LogitsSeeThePrefix
  <2>1. s \in Stages
    BY StageKinds DEF Projections, SingleKinds
  <2>2. out[s][t] = Sees(s, t)
    BY <2>1 DEF IInv, Traced
  <2>3. t \in Nat \ {0}
    BY <2>1, DoneFact DEF IInv
  <2>4. CASE s = Only("lm_head_primary")
    BY <2>2, <2>3, <2>4, SeesFact
  <2>5. CASE s = Only("lm_head_mtp") /\ s # Only("lm_head_primary")
    BY <2>2, <2>3, <2>5, SeesFact
  <2> QED BY <2>4, <2>5 DEF Projections
<1> QED BY Inductive, <1>1, PTL

\* The state a prompt leaves does not depend on how it was run: keys and values
\* of each position in order, the last of them in the delay line, all of them in
\* the recurrent state.  Decoding may follow a prefill as it follows decoding.
THEOREM StateIsCausal == Spec => []StateHoldsThePrefix
BY Inductive, PTL DEF IInv

-----------------------------------------------------------------------------
(* Sums over finite sets.                                                    *)

LEMMA LeastOf ==
  ASSUME NEW T, T \subseteq Nat, T # {}
  PROVE  \E x \in T : \A y \in T : x <= y
<1> DEFINE Less == {ss \in Nat \X Nat : ss[1] < ss[2]}
<1>1. IsWellFoundedOn(Less, Nat)
  BY NatLessThanWellFounded DEF OpToRel
<1>2. PICK x \in T : \A y \in T : ~(<<y, x>> \in Less)
  <2> HIDE DEF Less
  <2> QED BY <1>1, WFMin
<1>3. \A y \in T : <<y, x>> \in Nat \X Nat /\ ~(y < x)
  BY <1>2
<1>4. ASSUME NEW y \in T
      PROVE  x <= y
  <2>1. x \in Nat /\ y \in Nat /\ ~(y < x)
    BY <1>3
  <2> QED BY <2>1
<1> QED BY <1>4

\* The element a fold takes out first.
One(T) == CHOOSE x \in T : TRUE

\* g sums F over the sets in D, taking one element out of a set at a time.
SumsOver(F, D, g) ==
    g = [T \in D |-> IF T = {} THEN 0 ELSE F[One(T)] + g[T \ {One(T)}]]

Sums(F, S, g) ==
    /\ g[{}] = 0
    /\ \A T \in SUBSET S : T # {} => g[T] = F[One(T)] + g[T \ {One(T)}]

LEMMA OneLess ==
  ASSUME NEW S, IsFiniteSet(S), NEW T \in SUBSET S, T # {}
  PROVE  /\ One(T) \in T /\ IsFiniteSet(T)
         /\ T \ {One(T)} \in SUBSET S
         /\ Cardinality(T) \in Nat \ {0}
         /\ Cardinality(T \ {One(T)}) = Cardinality(T) - 1
<1>1. One(T) \in T
  BY DEF One
<1>2. IsFiniteSet(T)
  BY FS_Subset
<1>3. Cardinality(T) \in Nat /\ Cardinality(T) # 0
  BY <1>2, FS_CardinalityType, FS_EmptySet
<1>4. Cardinality(T \ {One(T)}) = Cardinality(T) - 1
  BY <1>1, <1>2, FS_RemoveElement
<1> QED BY <1>1, <1>2, <1>3, <1>4

\* Such a g exists: a smallest size up to which there is none would follow one up
\* to which there is.
LEMMA SumExists ==
  ASSUME NEW S, IsFiniteSet(S), NEW F
  PROVE  \E g : SumsOver(F, SUBSET S, g)
<1> DEFINE Upto(n) == {T \in SUBSET S : Cardinality(T) <= n}
           Bad == {n \in Nat : ~ \E g : SumsOver(F, Upto(n), g)}
<1>1. Cardinality(S) \in Nat /\ Upto(Cardinality(S)) = SUBSET S
  BY FS_CardinalityType, FS_Subset
<1>2. \A T \in SUBSET S : Cardinality(T) \in Nat /\ (Cardinality(T) = 0 <=> T = {})
  BY FS_Subset, FS_CardinalityType, FS_EmptySet
<1>3. CASE Bad = {}
  <2>1. \E g : SumsOver(F, Upto(Cardinality(S)), g)
    BY <1>1, <1>3
  <2> QED BY <1>1, <2>1
<1>4. CASE Bad # {}
  <2>1. PICK n \in Bad : \A m \in Bad : n <= m
    <3>1. Bad \subseteq Nat
      OBVIOUS
    <3> HIDE DEF Bad
    <3> QED BY <1>4, <3>1, LeastOf
  <2>2. CASE n = 0
    <3> DEFINE g == [T \in Upto(n) |-> 0]
    <3>1. \A T \in Upto(n) : T = {}
      BY <1>2, <2>2
    <3>2. SumsOver(F, Upto(n), g)
      BY <3>1 DEF SumsOver
    <3> QED BY <2>1, <3>2
  <2>3. CASE n # 0
    <3>1. n \in Nat /\ n - 1 \in Nat /\ n - 1 \notin Bad
      <4>1. n \in Nat /\ n - 1 \in Nat /\ ~(n <= n - 1)
        BY <2>1, <2>3
      <4> HIDE DEF Bad
      <4> QED BY <2>1, <4>1
    <3>2. PICK f : SumsOver(F, Upto(n - 1), f)
      BY <3>1
    <3> DEFINE g == [T \in Upto(n) |-> IF T = {} THEN 0 ELSE F[One(T)] + f[T \ {One(T)}]]
    <3>3. ASSUME NEW T \in Upto(n - 1)
          PROVE  T \in Upto(n) /\ g[T] = f[T]
      <4>1. T \in Upto(n)
        BY <1>2, <3>1
      <4>2. f[T] = IF T = {} THEN 0 ELSE F[One(T)] + f[T \ {One(T)}]
        BY <3>2 DEF SumsOver
      <4> QED BY <4>1, <4>2
    <3>4. ASSUME NEW T \in Upto(n), T # {}
          PROVE  g[T \ {One(T)}] = f[T \ {One(T)}]
      <4>1. T \ {One(T)} \in Upto(n - 1)
        BY <3>1, <3>4, OneLess
      <4> QED BY <3>3, <4>1
    <3>5. SumsOver(F, Upto(n), g)
      BY <3>4 DEF SumsOver
    <3> QED BY <2>1, <3>5
  <2> QED BY <2>2, <2>3
<1> QED BY <1>3, <1>4

LEMMA SumStep ==
  ASSUME NEW S, NEW F, NEW g, SumsOver(F, SUBSET S, g)
  PROVE  Sums(F, S, g)
<1>1. g = [T \in SUBSET S |-> IF T = {} THEN 0 ELSE F[One(T)] + g[T \ {One(T)}]]
  BY DEF SumsOver
<1> QED BY <1>1 DEF Sums

LEMMA SumOfOne ==
  ASSUME NEW S, NEW F, NEW g, Sums(F, S, g), NEW a \in S, F[a] \in Int,
         NEW T, \A x : x \in T <=> x = a
  PROVE  g[T] = F[a]
<1>1. T \in SUBSET S /\ T # {} /\ One(T) = a
  BY DEF One
<1>2. T \ {One(T)} = {}
  BY <1>1
<1>3. g[T] = F[One(T)] + g[T \ {One(T)}] /\ g[{}] = 0
  BY <1>1 DEF Sums
<1>4. g[T] = F[a] + 0
  BY <1>1, <1>2, <1>3
<1> QED BY <1>4

LEMMA SumOfTwo ==
  ASSUME NEW S, NEW F, NEW g, Sums(F, S, g), NEW a \in S, NEW b \in S, a # b,
         F[a] \in Int, F[b] \in Int, NEW T, \A x : x \in T <=> x = a \/ x = b
  PROVE  g[T] = F[a] + F[b]
<1>1. T \in SUBSET S /\ T # {} /\ One(T) \in T
  BY DEF One
<1>2. g[T] = F[One(T)] + g[T \ {One(T)}]
  BY <1>1 DEF Sums
<1>3. g[T \ {a}] = F[b]
  <2>1. \A x : x \in T \ {a} <=> x = b
    OBVIOUS
  <2> QED BY <2>1, SumOfOne
<1>4. g[T \ {b}] = F[a]
  <2>1. \A x : x \in T \ {b} <=> x = a
    OBVIOUS
  <2> QED BY <2>1, SumOfOne
<1>5. CASE One(T) = a
  BY <1>2, <1>3, <1>5
<1>6. CASE One(T) = b
  BY <1>2, <1>4, <1>6
<1> QED BY <1>1, <1>5, <1>6

LEMMA SumOfThree ==
  ASSUME NEW S, NEW F, NEW g, Sums(F, S, g),
         NEW a \in S, NEW b \in S, NEW c \in S, a # b, a # c, b # c,
         F[a] \in Int, F[b] \in Int, F[c] \in Int,
         NEW T, \A x : x \in T <=> x = a \/ x = b \/ x = c
  PROVE  g[T] = F[a] + F[b] + F[c]
<1>1. T \in SUBSET S /\ T # {} /\ One(T) \in T
  BY DEF One
<1>2. g[T] = F[One(T)] + g[T \ {One(T)}]
  BY <1>1 DEF Sums
<1>3. g[T \ {a}] = F[b] + F[c]
  <2>1. \A x : x \in T \ {a} <=> x = b \/ x = c
    OBVIOUS
  <2> QED BY <2>1, SumOfTwo
<1>4. g[T \ {b}] = F[a] + F[c]
  <2>1. \A x : x \in T \ {b} <=> x = a \/ x = c
    OBVIOUS
  <2> QED BY <2>1, SumOfTwo
<1>5. g[T \ {c}] = F[a] + F[b]
  <2>1. \A x : x \in T \ {c} <=> x = a \/ x = b
    OBVIOUS
  <2> QED BY <2>1, SumOfTwo
<1>6. CASE One(T) = a
  BY <1>2, <1>3, <1>6
<1>7. CASE One(T) = b
  BY <1>2, <1>4, <1>7
<1>8. CASE One(T) = c
  BY <1>2, <1>5, <1>8
<1> QED BY <1>1, <1>6, <1>7, <1>8

\* The sum of one number over a set.
LEMMA SumOfSame ==
  ASSUME NEW S, IsFiniteSet(S), NEW k \in Int, NEW F, \A x \in S : F[x] = k,
         NEW g, Sums(F, S, g)
  PROVE  g[S] = Cardinality(S) * k
<1> DEFINE Bad == {n \in Nat : \E T \in SUBSET S : Cardinality(T) = n /\ g[T] # n * k}
<1>1. CASE Bad = {}
  <2>1. Cardinality(S) \in Nat
    BY FS_CardinalityType
  <2> QED BY <1>1, <2>1
<1>2. CASE Bad # {}
  <2>1. PICK n \in Bad : \A m \in Bad : n <= m
    <3>1. Bad \subseteq Nat
      OBVIOUS
    <3> HIDE DEF Bad
    <3> QED BY <1>2, <3>1, LeastOf
  <2>2. PICK T \in SUBSET S : Cardinality(T) = n /\ g[T] # n * k
    BY <2>1
  <2>3. n \in Nat
    BY <2>1
  <2>4. CASE T = {}
    <3>1. n = 0 /\ g[T] = 0
      BY <2>2, <2>4, FS_EmptySet DEF Sums
    <3> QED BY <2>2, <3>1
  <2>5. CASE T # {}
    <3> DEFINE U == T \ {One(T)}
    <3>1. One(T) \in S /\ U \in SUBSET S /\ Cardinality(U) = n - 1 /\ n - 1 \in Nat
      BY <2>2, <2>5, OneLess
    <3>2. g[T] = F[One(T)] + g[U]
      BY <2>5 DEF Sums
    <3>3. n - 1 \notin Bad
      <4>1. ~(n <= n - 1)
        BY <2>3
      <4> HIDE DEF Bad
      <4> QED BY <2>1, <4>1
    <3>4. g[U] = (n - 1) * k
      BY <3>1, <3>3
    <3>5. g[T] = k + (n - 1) * k
      BY <3>1, <3>2, <3>4
    <3> QED BY <2>2, <2>3, <3>5
  <2> QED BY <2>4, <2>5
<1> QED BY <1>1, <1>2

\* What the two sums of the plan are.
LEMMA ParamsSum ==
  ASSUME NEW S, IsFiniteSet(S)
  PROVE  \E g : /\ Sums([w \in S |-> Params(w)], S, g)
                /\ MapThenSumSet(Params, S) = g[S]
<1> DEFINE F == [w \in S |-> Params(w)]
           E(g) == g = [T \in SUBSET S |-> IF T = {} THEN 0
                           ELSE Params(CHOOSE x \in T : TRUE)
                                    + g[T \ {CHOOSE x \in T : TRUE}]]
           c == CHOOSE g : E(g)
<1>1. \A T \in SUBSET S : T # {} => F[One(T)] = Params(CHOOSE x \in T : TRUE)
  BY DEF One
<1>2. ASSUME NEW g PROVE SumsOver(F, SUBSET S, g) <=> E(g)
  BY <1>1 DEF SumsOver, One
<1>3. MapThenSumSet(Params, S) = c[S]
  BY DEF MapThenSumSet, MapThenFoldSet
<1> HIDE DEF E, F
<1>4. E(c)
  BY <1>2, SumExists
<1>5. Sums(F, S, c)
  BY <1>2, <1>4, SumStep
<1> QED BY <1>3, <1>5 DEF F

LEMMA StoredSum ==
  ASSUME NEW k \in Int, \A s \in KvStages : Len(kv[s]) * KvBytes = k, IsFiniteSet(KvStages)
  PROVE  MapThenSumSet(LAMBDA s : Len(kv[s]) * KvBytes, KvStages)
            = Cardinality(KvStages) * k
<1> DEFINE S == KvStages
           F == [s \in S |-> k]
           E(g) == g = [T \in SUBSET S |-> IF T = {} THEN 0
                           ELSE (Len(kv[CHOOSE x \in T : TRUE]) * KvBytes)
                                    + g[T \ {CHOOSE x \in T : TRUE}]]
           c == CHOOSE g : E(g)
<1>1. \A T \in SUBSET S : T # {} =>
         F[One(T)] = Len(kv[CHOOSE x \in T : TRUE]) * KvBytes
  BY DEF One
<1>2. ASSUME NEW g PROVE SumsOver(F, SUBSET S, g) <=> E(g)
  BY <1>1 DEF SumsOver, One
<1>3. MapThenSumSet(LAMBDA s : Len(kv[s]) * KvBytes, S) = c[S]
  BY DEF MapThenSumSet, MapThenFoldSet
<1>4. \A s \in S : F[s] = k
  OBVIOUS
<1> HIDE DEF E, F
<1>5. E(c)
  BY <1>2, SumExists
<1>6. Sums(F, S, c)
  BY <1>2, <1>5, SumStep
<1> QED BY <1>3, <1>4, <1>6, SumOfSame

-----------------------------------------------------------------------------
(* The classes of stages that cost alike.                                    *)

Mlps == {s \in Stages : s[1] \in {"language_mlp", "mtp_mlp"}}
Mixes == {Only("mtp_mix")}
Embeds == {Only("embed_current"), Only("embed_next")}

\* The weights of the vocabulary, which both projections use.
WLm == <<"W_lm", 0>>

LEMMA WidthsFact ==
  /\ H \in Int /\ QkvWidth \in Int /\ ZWidth \in Int /\ GWidth \in Int /\ KvWidth \in Int
  /\ Delay \in Int /\ Text.vocab_size \in Int /\ Text.intermediate_size \in Int
  /\ Text.linear_num_value_heads \in Int /\ Text.linear_key_head_dim \in Int
  /\ Text.linear_value_head_dim \in Int /\ Text.linear_conv_kernel_dim \in Int
  /\ Text.head_dim \in Int
<1>1. /\ H \in Int /\ Text.vocab_size \in Int /\ Text.intermediate_size \in Int
      /\ Text.num_attention_heads \in Int /\ Text.num_key_value_heads \in Int
      /\ Text.head_dim \in Int /\ Text.linear_num_key_heads \in Int
      /\ Text.linear_num_value_heads \in Int /\ Text.linear_key_head_dim \in Int
      /\ Text.linear_value_head_dim \in Int /\ Text.linear_conv_kernel_dim \in Int
  BY PlanAssumption
<1>2. QkvWidth \in Int /\ ZWidth \in Int /\ GWidth \in Int /\ KvWidth \in Int /\ Delay \in Int
  BY <1>1 DEF QkvWidth, ZWidth, GWidth, KvWidth, Delay
<1> QED BY <1>1, <1>2

LEMMA CostsFact ==
  /\ MacFullProj \in Int /\ MacAttnCoeff \in Int /\ MacLinToken \in Int /\ MacMlp \in Int
  /\ MacLmHead \in Int /\ MacMtpFc \in Int /\ LinParams \in Int /\ FullParams \in Int
  /\ KvBytes \in Int /\ CBytes \in Int /\ SBytes \in Int /\ Bf16 = 2
<1> USE WidthsFact
<1>1. MacFullProj \in Int /\ MacAttnCoeff \in Int
  BY DEF MacFullProj, MacAttnCoeff
<1>2. MacLinToken \in Int
  BY DEF MacLinToken
<1>3. MacMlp \in Int /\ MacLmHead \in Int /\ MacMtpFc \in Int
  BY DEF MacMlp, MacLmHead, MacMtpFc
<1>4. LinParams \in Int
  BY DEF LinParams
<1>5. FullParams \in Int
  BY DEF FullParams
<1>6. KvBytes \in Int /\ CBytes \in Int /\ SBytes \in Int
  BY DEF KvBytes, CBytes, SBytes, Bf16, F32
<1> QED BY <1>1, <1>2, <1>3, <1>4, <1>5, <1>6 DEF Bf16

LEMMA FiniteFact ==
  /\ IsFiniteSet(Layers) /\ Cardinality(Layers) = NLayers
  /\ IsFiniteSet(Stages)
  /\ \A S \in SUBSET Stages : IsFiniteSet(S)
<1>1. IsFiniteSet(Layers) /\ Cardinality(Layers) = NLayers
  BY SizeFact, FS_Interval
<1>2. IsFiniteSet(LoopKinds) /\ IsFiniteSet(SingleKinds) /\ IsFiniteSet({0})
  <2>1. IsFiniteSet(LoopKinds)
    <3>1. LoopKinds = {"language_mixer"} \cup {"language_mlp"}
      BY DEF LoopKinds
    <3> QED BY <3>1, FS_Singleton, FS_Union
  <2>2. IsFiniteSet(SingleKinds)
    <3>1. IsFiniteSet({"embed_current"} \cup {"lm_head_primary"})
      BY FS_Singleton, FS_Union
    <3>2. IsFiniteSet({"embed_next"} \cup {"mtp_mix"})
      BY FS_Singleton, FS_Union
    <3>3. IsFiniteSet({"mtp_mixer"} \cup {"mtp_mlp"})
      BY FS_Singleton, FS_Union
    <3>4. IsFiniteSet(({"embed_current"} \cup {"lm_head_primary"})
                          \cup ({"embed_next"} \cup {"mtp_mix"}))
      BY <3>1, <3>2, FS_Union
    <3>5. IsFiniteSet(({"mtp_mixer"} \cup {"mtp_mlp"}) \cup {"lm_head_mtp"})
      BY <3>3, FS_Singleton, FS_Union
    <3>6. SingleKinds = (({"embed_current"} \cup {"lm_head_primary"})
                             \cup ({"embed_next"} \cup {"mtp_mix"}))
                        \cup (({"mtp_mixer"} \cup {"mtp_mlp"}) \cup {"lm_head_mtp"})
      BY DEF SingleKinds
    <3> QED BY <3>4, <3>5, <3>6, FS_Union
  <2> QED BY <2>1, <2>2, FS_Singleton
<1>3. IsFiniteSet(LoopKinds \X Layers) /\ IsFiniteSet(SingleKinds \X {0})
  BY <1>1, <1>2, FS_Product
<1>4. IsFiniteSet(Stages)
  BY <1>3, FS_Union DEF Stages
<1> QED BY <1>1, <1>4, FS_Subset

\* Every stage is in one class and no other.
LEMMA ClassFact ==
  ASSUME NEW s \in Stages
  PROVE  \/ s \in KvStages /\ s \notin CsStages /\ s \notin Mlps /\ s \notin Projections
               /\ s \notin Mixes /\ s \notin Embeds
         \/ s \notin KvStages /\ s \in CsStages /\ s \notin Mlps /\ s \notin Projections
               /\ s \notin Mixes /\ s \notin Embeds
         \/ s \notin KvStages /\ s \notin CsStages /\ s \in Mlps /\ s \notin Projections
               /\ s \notin Mixes /\ s \notin Embeds
         \/ s \notin KvStages /\ s \notin CsStages /\ s \notin Mlps /\ s \in Projections
               /\ s \notin Mixes /\ s \notin Embeds
         \/ s \notin KvStages /\ s \notin CsStages /\ s \notin Mlps /\ s \notin Projections
               /\ s \in Mixes /\ s \notin Embeds
         \/ s \notin KvStages /\ s \notin CsStages /\ s \notin Mlps /\ s \notin Projections
               /\ s \notin Mixes /\ s \in Embeds
<1>1. /\ s \in KvStages \cup CsStages => s[1] \in {"language_mixer", "mtp_mixer"}
      /\ KvStages \cap CsStages = {}
  BY CarrierFact DEF Mixer, Only
<1>2. /\ s \in Mlps <=> s[1] \in {"language_mlp", "mtp_mlp"}
      /\ s \in Projections => s[1] \in {"lm_head_primary", "lm_head_mtp"}
      /\ s \in Mixes => s[1] = "mtp_mix"
      /\ s \in Embeds => s[1] \in {"embed_current", "embed_next"}
  BY DEF Mlps, Projections, Mixes, Embeds, Only
<1>3. s \in KvStages \cup CsStages \/ s \in Mlps \/ s \in Projections \/ s \in Mixes
        \/ s \in Embeds
  <2>1. CASE \E l \in Layers : s = Mixer(l)
    BY <2>1, CarrierFact
  <2>2. CASE \E l \in Layers : s = Mlp(l)
    BY <1>2, <2>2 DEF Mlp
  <2>3. CASE \E kind \in SingleKinds : s = Only(kind)
    <3>1. PICK kind \in SingleKinds : s = Only(kind) /\ s[1] = kind
      BY <2>3 DEF Only
    <3>2. Only("mtp_mixer") \in KvStages
      BY DEF KvStages
    <3> QED BY <1>2, <3>1, <3>2 DEF SingleKinds, Projections, Mixes, Embeds
  <2> QED BY <2>1, <2>2, <2>3, StageShape
<1> QED BY <1>1, <1>2, <1>3

LEMMA ClassSets ==
  /\ KvStages \subseteq Stages /\ CsStages \subseteq Stages /\ Mlps \subseteq Stages
  /\ Projections \subseteq Stages /\ Mixes \subseteq Stages /\ Embeds \subseteq Stages
  /\ WLm \notin Stages
<1>1. KvStages \subseteq Stages /\ CsStages \subseteq Stages
  BY CarrierFact
<1>2. Mlps \subseteq Stages
  BY DEF Mlps
<1>3. Projections \subseteq Stages /\ Mixes \subseteq Stages /\ Embeds \subseteq Stages
  BY StageKinds DEF Projections, Mixes, Embeds, SingleKinds
<1>4. WLm \notin Stages
  BY DEF WLm, Stages, LoopKinds, SingleKinds
<1> QED BY <1>1, <1>2, <1>3, <1>4

\* What a stage of each class costs.
LEMMA KvCost ==
  ASSUME NEW s \in KvStages, NEW t
  PROVE  /\ StageMac(s, t) = MacFullProj + MacAttnCoeff * t
         /\ StageWeights(s) = {s} /\ Params(s) = FullParams + H
         /\ CutBytes(s) = H * Bf16 /\ ForcedBytes(s) = (GWidth + H) * Bf16
<1>1. s \in Stages /\ s \notin CsStages /\ s \notin Projections /\ s # WLm
  BY CarrierFact, ClassSets
<1>2. s[1] \in {"language_mixer", "mtp_mixer"}
  BY CarrierFact DEF Mixer, Only
<1>3. StageMac(s, t) = MacFullProj + MacAttnCoeff * t
  BY <1>1, <1>2 DEF StageMac
<1>4. StageWeights(s) = {s}
  BY <1>1, <1>2 DEF StageWeights
<1>5. Params(s) = FullParams + H
  BY <1>1, <1>2 DEF Params, WLm
<1>6. CutBytes(s) = H * Bf16 /\ ForcedBytes(s) = (GWidth + H) * Bf16
  BY <1>1, <1>2 DEF CutBytes, ForcedBytes
<1> QED BY <1>3, <1>4, <1>5, <1>6

LEMMA CsCost ==
  ASSUME NEW s \in CsStages, NEW t
  PROVE  /\ StageMac(s, t) = MacLinToken
         /\ StageWeights(s) = {s} /\ Params(s) = LinParams + H
         /\ CutBytes(s) = H * Bf16 /\ ForcedBytes(s) = (ZWidth + H) * Bf16
<1>1. s \in Stages /\ s \notin KvStages /\ s \notin Projections /\ s # WLm
  BY CarrierFact, ClassSets
<1>2. s[1] \in {"language_mixer", "mtp_mixer"}
  BY CarrierFact DEF Mixer, Only
<1>3. StageMac(s, t) = MacLinToken
  BY <1>1, <1>2 DEF StageMac
<1>4. StageWeights(s) = {s}
  BY <1>1, <1>2 DEF StageWeights
<1>5. Params(s) = LinParams + H
  BY <1>1, <1>2 DEF Params, WLm
<1>6. CutBytes(s) = H * Bf16 /\ ForcedBytes(s) = (ZWidth + H) * Bf16
  BY <1>1, <1>2 DEF CutBytes, ForcedBytes
<1> QED BY <1>3, <1>4, <1>5, <1>6

LEMMA MlpCost ==
  ASSUME NEW s \in Mlps, NEW t
  PROVE  /\ StageMac(s, t) = MacMlp
         /\ StageWeights(s) = {s} /\ Params(s) = MacMlp + H
         /\ CutBytes(s) = H * Bf16 /\ ForcedBytes(s) = H * Bf16
<1>1. s \in Stages /\ s # WLm /\ s[1] \in {"language_mlp", "mtp_mlp"}
  BY ClassSets DEF Mlps
<1>2. s \notin KvStages /\ s \notin CsStages /\ s \notin Projections
  BY <1>1, ClassFact
<1>3. StageMac(s, t) = MacMlp
  BY <1>1, <1>2 DEF StageMac
<1>4. StageWeights(s) = {s}
  BY <1>1, <1>2 DEF StageWeights
<1>5. Params(s) = MacMlp + H
  BY <1>1, <1>2 DEF Params, WLm
<1>6. CutBytes(s) = H * Bf16 /\ ForcedBytes(s) = H * Bf16
  BY <1>1, <1>2 DEF CutBytes, ForcedBytes
<1> QED BY <1>3, <1>4, <1>5, <1>6

LEMMA ProjectionCost ==
  ASSUME NEW s \in Projections, NEW t
  PROVE  /\ StageMac(s, t) = MacLmHead
         /\ StageWeights(s) = {WLm, s} /\ Params(s) = H
         /\ CutBytes(s) = Text.vocab_size * Bf16 /\ ForcedBytes(s) = Text.vocab_size * Bf16
<1>1. s \in Stages /\ s # WLm /\ s[1] \in {"lm_head_primary", "lm_head_mtp"}
  BY ClassSets DEF Projections, Only
<1>2. s \notin KvStages /\ s \notin CsStages /\ s \in Projections
  BY <1>1, ClassFact
<1>3. StageMac(s, t) = MacLmHead
  BY <1>1, <1>2 DEF StageMac
<1>4. StageWeights(s) = {WLm, s}
  BY <1>1, <1>2 DEF StageWeights, WLm
<1>5. Params(s) = H
  BY <1>1, <1>2 DEF Params, WLm
<1>6. CutBytes(s) = Text.vocab_size * Bf16 /\ ForcedBytes(s) = Text.vocab_size * Bf16
  BY <1>1, <1>2 DEF CutBytes, ForcedBytes
<1> QED BY <1>3, <1>4, <1>5, <1>6

LEMMA MixCost ==
  ASSUME NEW s \in Mixes, NEW t
  PROVE  /\ StageMac(s, t) = MacMtpFc
         /\ StageWeights(s) = {s} /\ Params(s) = MacMtpFc + 2 * H
         /\ CutBytes(s) = H * Bf16 /\ ForcedBytes(s) = 0
<1>1. s \in Stages /\ s # WLm /\ s[1] = "mtp_mix"
  BY ClassSets DEF Mixes, Only
<1>2. s \notin KvStages /\ s \notin CsStages /\ s \notin Projections
  BY <1>1, ClassFact
<1>3. StageMac(s, t) = MacMtpFc
  BY <1>1, <1>2 DEF StageMac
<1>4. StageWeights(s) = {s}
  BY <1>1, <1>2 DEF StageWeights
<1>5. Params(s) = MacMtpFc + 2 * H
  BY <1>1, <1>2 DEF Params, WLm
<1>6. CutBytes(s) = H * Bf16 /\ ForcedBytes(s) = 0
  BY <1>1, <1>2 DEF CutBytes, ForcedBytes
<1> QED BY <1>3, <1>4, <1>5, <1>6

LEMMA EmbedCost ==
  ASSUME NEW s \in Embeds, NEW t
  PROVE  /\ StageMac(s, t) = 0 /\ StageWeights(s) = {}
         /\ CutBytes(s) = H * Bf16 /\ ForcedBytes(s) = 0
<1>1. s \in Stages /\ s[1] \in {"embed_current", "embed_next"}
  BY ClassSets DEF Embeds, Only
<1>2. s \notin KvStages /\ s \notin CsStages /\ s \notin Projections
  BY <1>1, ClassFact
<1>3. StageMac(s, t) = 0
  BY <1>1, <1>2 DEF StageMac
<1>4. StageWeights(s) = {}
  BY <1>1, <1>2 DEF StageWeights
<1>6. CutBytes(s) = H * Bf16 /\ ForcedBytes(s) = 0
  BY <1>1, <1>2 DEF CutBytes, ForcedBytes
<1> QED BY <1>3, <1>4, <1>6

LEMMA EmbedKinds ==
  ASSUME NEW s \in Stages
  PROVE  s[1] \in {"embed_current", "embed_next"} <=> s \in Embeds
<1>1. s \in Embeds => s[1] \in {"embed_current", "embed_next"}
  BY DEF Embeds, Only
<1>2. s[1] \in {"embed_current", "embed_next"} => s \in Embeds
  BY StageShape DEF Embeds, Only, Mixer, Mlp
<1> QED BY <1>1, <1>2

-----------------------------------------------------------------------------
(* The parameters of a set of weights.                                       *)

Weights == (Stages \ Embeds) \cup {WLm}

\* How many weights of a class there are in R.
Of(R, S) == Cardinality(R \cap S)

\* The parameters of the weights in R.
Weighed(R) ==
    (Text.vocab_size * H) * Of(R, {WLm}) + H * Of(R, Projections)
      + (FullParams + H) * Of(R, KvStages) + (LinParams + H) * Of(R, CsStages)
      + (MacMlp + H) * Of(R, Mlps) + (MacMtpFc + 2 * H) * Of(R, Mixes)

LEMMA WeightsFinite ==
  ASSUME NEW R \in SUBSET Weights
  PROVE  IsFiniteSet(R)
<1>1. IsFiniteSet(Stages \ Embeds)
  BY FiniteFact
<1>2. IsFiniteSet(Weights)
  BY <1>1, FS_Singleton, FS_Union DEF Weights
<1> QED BY <1>2, FS_Subset

LEMMA OfAdd ==
  ASSUME NEW R, IsFiniteSet(R), NEW w, w \notin R, NEW S
  PROVE  /\ Of(R, S) \in Nat
         /\ Of(R \cup {w}, S) = IF w \in S THEN Of(R, S) + 1 ELSE Of(R, S)
<1> DEFINE Q == R \cap S
<1>1. IsFiniteSet(Q) /\ Cardinality(Q) \in Nat /\ w \notin Q
  BY FS_Intersection, FS_CardinalityType
<1>2. CASE w \in S
  <2>1. (R \cup {w}) \cap S = Q \cup {w}
    BY <1>2
  <2>2. Cardinality(Q \cup {w}) = Cardinality(Q) + 1
    BY <1>1, FS_AddElement
  <2> HIDE DEF Q
  <2>3. Of(R \cup {w}, S) = Cardinality(Q) + 1
    BY <2>1, <2>2 DEF Of
  <2> QED BY <1>1, <1>2, <2>3 DEF Of, Q
<1>3. CASE w \notin S
  <2>1. (R \cup {w}) \cap S = Q
    BY <1>3
  <2> QED BY <1>1, <1>3, <2>1 DEF Of
<1> QED BY <1>2, <1>3

\* The class of a weight tells its parameters.
LEMMA WeightClass ==
  ASSUME NEW w \in Weights
  PROVE  \/ /\ w = WLm /\ w \notin Projections /\ w \notin KvStages /\ w \notin CsStages
            /\ w \notin Mlps /\ w \notin Mixes /\ Params(w) = Text.vocab_size * H
         \/ /\ w # WLm /\ w \in Projections /\ w \notin KvStages /\ w \notin CsStages
            /\ w \notin Mlps /\ w \notin Mixes /\ Params(w) = H
         \/ /\ w # WLm /\ w \notin Projections /\ w \in KvStages /\ w \notin CsStages
            /\ w \notin Mlps /\ w \notin Mixes /\ Params(w) = FullParams + H
         \/ /\ w # WLm /\ w \notin Projections /\ w \notin KvStages /\ w \in CsStages
            /\ w \notin Mlps /\ w \notin Mixes /\ Params(w) = LinParams + H
         \/ /\ w # WLm /\ w \notin Projections /\ w \notin KvStages /\ w \notin CsStages
            /\ w \in Mlps /\ w \notin Mixes /\ Params(w) = MacMlp + H
         \/ /\ w # WLm /\ w \notin Projections /\ w \notin KvStages /\ w \notin CsStages
            /\ w \notin Mlps /\ w \in Mixes /\ Params(w) = MacMtpFc + 2 * H
<1>1. CASE w = WLm
  <2>1. /\ w \notin Projections /\ w \notin KvStages /\ w \notin CsStages
        /\ w \notin Mlps /\ w \notin Mixes
    BY <1>1, ClassSets
  <2>2. w[1] = "W_lm" /\ w = <<"W_lm", 0>>
    BY <1>1 DEF WLm
  <2>3. Params(w) = Text.vocab_size * H
    BY <2>1, <2>2 DEF Params
  <2> QED BY <1>1, <2>1, <2>3
<1>2. CASE w # WLm
  <2>1. w \in Stages /\ w \notin Embeds
    BY <1>2 DEF Weights
  <2>2. /\ w \in KvStages => Params(w) = FullParams + H
        /\ w \in CsStages => Params(w) = LinParams + H
        /\ w \in Mlps => Params(w) = MacMlp + H
        /\ w \in Projections => Params(w) = H
        /\ w \in Mixes => Params(w) = MacMtpFc + 2 * H
    BY KvCost, CsCost, MlpCost, ProjectionCost, MixCost
  <2> QED BY <1>2, <2>1, <2>2, ClassFact
<1> QED BY <1>1, <1>2

LEMMA ParamsInt ==
  ASSUME NEW w \in Weights
  PROVE  Params(w) \in Int
<1>1. Text.vocab_size * H \in Int
  BY WidthsFact
<1> QED BY <1>1, WeightClass, WidthsFact, CostsFact

LEMMA OneMore ==
  ASSUME NEW a \in Int, NEW n \in Int
  PROVE  a * (n + 1) = a * n + a /\ a * n \in Int
OBVIOUS

LEMMA WeighedAdd ==
  ASSUME NEW R \in SUBSET Weights, NEW w \in Weights, w \notin R
  PROVE  /\ Weighed(R) \in Int
         /\ Weighed(R \cup {w}) = Weighed(R) + Params(w)
<1> DEFINE a == Text.vocab_size * H
           b == FullParams + H
           c == LinParams + H
           d == MacMlp + H
           e == MacMtpFc + 2 * H
           v == Of(R, {WLm})
           p == Of(R, Projections)
           k == Of(R, KvStages)
           l == Of(R, CsStages)
           m == Of(R, Mlps)
           x == Of(R, Mixes)
<1>1. a \in Int /\ b \in Int /\ c \in Int /\ d \in Int /\ e \in Int /\ H \in Int
  BY WidthsFact, CostsFact
<1>2. IsFiniteSet(R)
  BY WeightsFinite
<1>3. /\ v \in Int /\ p \in Int /\ k \in Int /\ l \in Int /\ m \in Int /\ x \in Int
      /\ Of(R \cup {w}, {WLm}) = IF w = WLm THEN v + 1 ELSE v
      /\ Of(R \cup {w}, Projections) = IF w \in Projections THEN p + 1 ELSE p
      /\ Of(R \cup {w}, KvStages) = IF w \in KvStages THEN k + 1 ELSE k
      /\ Of(R \cup {w}, CsStages) = IF w \in CsStages THEN l + 1 ELSE l
      /\ Of(R \cup {w}, Mlps) = IF w \in Mlps THEN m + 1 ELSE m
      /\ Of(R \cup {w}, Mixes) = IF w \in Mixes THEN x + 1 ELSE x
  <2>1. \A S : /\ Of(R, S) \in Nat
               /\ Of(R \cup {w}, S) = IF w \in S THEN Of(R, S) + 1 ELSE Of(R, S)
    BY <1>2, OfAdd
  <2> QED BY <2>1
<1>4. \/ w = WLm /\ Params(w) = a
      \/ w # WLm /\ Params(w) \in {H, b, c, d, e}
  BY WeightClass
<1>5. Weighed(R) = a * v + H * p + b * k + c * l + d * m + e * x
  BY DEF Weighed
<1>6. Weighed(R \cup {w}) = a * Of(R \cup {w}, {WLm}) + H * Of(R \cup {w}, Projections)
            + b * Of(R \cup {w}, KvStages) + c * Of(R \cup {w}, CsStages)
            + d * Of(R \cup {w}, Mlps) + e * Of(R \cup {w}, Mixes)
  BY DEF Weighed
<1>7. \/ /\ w = WLm /\ w \notin Projections /\ w \notin KvStages /\ w \notin CsStages
         /\ w \notin Mlps /\ w \notin Mixes /\ Params(w) = a
      \/ /\ w # WLm /\ w \in Projections /\ w \notin KvStages /\ w \notin CsStages
         /\ w \notin Mlps /\ w \notin Mixes /\ Params(w) = H
      \/ /\ w # WLm /\ w \notin Projections /\ w \in KvStages /\ w \notin CsStages
         /\ w \notin Mlps /\ w \notin Mixes /\ Params(w) = b
      \/ /\ w # WLm /\ w \notin Projections /\ w \notin KvStages /\ w \in CsStages
         /\ w \notin Mlps /\ w \notin Mixes /\ Params(w) = c
      \/ /\ w # WLm /\ w \notin Projections /\ w \notin KvStages /\ w \notin CsStages
         /\ w \in Mlps /\ w \notin Mixes /\ Params(w) = d
      \/ /\ w # WLm /\ w \notin Projections /\ w \notin KvStages /\ w \notin CsStages
         /\ w \notin Mlps /\ w \in Mixes /\ Params(w) = e
  BY WeightClass
<1> HIDE DEF a, b, c, d, e, v, p, k, l, m, x
<1>8. /\ a * (v + 1) = a * v + a /\ H * (p + 1) = H * p + H /\ b * (k + 1) = b * k + b
      /\ c * (l + 1) = c * l + c /\ d * (m + 1) = d * m + d /\ e * (x + 1) = e * x + e
      /\ a * v \in Int /\ H * p \in Int /\ b * k \in Int /\ c * l \in Int
      /\ d * m \in Int /\ e * x \in Int
  BY <1>1, <1>3, OneMore
<1> QED BY <1>1, <1>3, <1>5, <1>6, <1>7, <1>8

\* What a stage loads.
LEMMA LoadFact ==
  ASSUME NEW R \in SUBSET Weights, NEW s \in Stages
  PROVE  /\ R \cup StageWeights(s) \in SUBSET Weights
         /\ Weighed(R) \in Int /\ MapThenSumSet(Params, StageWeights(s) \ R) \in Int
         /\ Weighed(R \cup StageWeights(s))
                = Weighed(R) + MapThenSumSet(Params, StageWeights(s) \ R)
<1> DEFINE new == StageWeights(s) \ R
           F == [w \in new |-> Params(w)]
<1>1. \/ StageWeights(s) = {}
      \/ s \in Weights /\ StageWeights(s) = {s}
      \/ s \in Weights /\ StageWeights(s) = {WLm, s} /\ s # WLm
  <2>1. \/ s \in KvStages \/ s \in CsStages \/ s \in Mlps \/ s \in Projections
        \/ s \in Mixes \/ s \in Embeds
    BY ClassFact
  <2>2. s \in Embeds => StageWeights(s) = {}
    BY EmbedCost
  <2>3. s \notin Embeds => s \in Weights /\ s # WLm
    BY ClassSets DEF Weights
  <2>4. s \in Projections => StageWeights(s) = {WLm, s}
    BY ProjectionCost
  <2>5. s \in KvStages \/ s \in CsStages \/ s \in Mlps \/ s \in Mixes => StageWeights(s) = {s}
    BY KvCost, CsCost, MlpCost, MixCost
  <2> QED BY <2>1, <2>2, <2>3, <2>4, <2>5
<1>2. WLm \in Weights
  BY DEF Weights
<1>3. new \in SUBSET Weights /\ R \cup new = R \cup StageWeights(s)
  BY <1>1, <1>2
<1>4. IsFiniteSet(new)
  BY <1>3, WeightsFinite
<1>5. PICK g : Sums(F, new, g) /\ MapThenSumSet(Params, new) = g[new]
  BY <1>4, ParamsSum
<1>6. Weighed(R) \in Int
  <2>1. CASE WLm \notin R
    BY <1>2, <2>1, WeighedAdd
  <2>2. CASE WLm \in R
    <3> DEFINE Q == R \ {WLm}
    <3>1. Q \in SUBSET Weights /\ WLm \notin Q /\ R = Q \cup {WLm}
      BY <2>2
    <3>2. Weighed(R) = Weighed(Q) + Params(WLm) /\ Weighed(Q) \in Int /\ Params(WLm) \in Int
      BY <1>2, <3>1, WeighedAdd, ParamsInt
    <3> QED BY <3>2
  <2> QED BY <2>1, <2>2
<1>7. /\ \A w \in new : F[w] = Params(w) /\ F[w] \in Int
      /\ \A w \in new : w \in Weights /\ w \notin R
  BY <1>3, ParamsInt
<1> HIDE DEF F
<1>8. ASSUME new = {}
      PROVE  /\ MapThenSumSet(Params, new) \in Int
             /\ Weighed(R \cup new) = Weighed(R) + MapThenSumSet(Params, new)
  <2>1. g[new] = 0 /\ R \cup new = R
    BY <1>5, <1>8 DEF Sums
  <2> HIDE DEF new
  <2>2. MapThenSumSet(Params, new) = 0
    BY <1>5, <2>1
  <2>3. /\ MapThenSumSet(Params, new) \in Int
        /\ Weighed(R \cup new) = Weighed(R) + MapThenSumSet(Params, new)
    <3>1. Weighed(R \cup new) = Weighed(R)
      BY <2>1
    <3> QED BY <1>6, <2>2, <3>1
  <2> QED BY <2>3 DEF new
<1>9. ASSUME NEW w \in new, \A x : x \in new <=> x = w
      PROVE  /\ MapThenSumSet(Params, new) \in Int
             /\ Weighed(R \cup new) = Weighed(R) + MapThenSumSet(Params, new)
  <2>1. g[new] = F[w]
    BY <1>5, <1>7, <1>9, SumOfOne
  <2>2. R \cup new = R \cup {w}
    BY <1>9
  <2>3. Weighed(R \cup {w}) = Weighed(R) + Params(w)
    BY <1>7, WeighedAdd
  <2> HIDE DEF new
  <2> QED BY <1>5, <1>7, <2>1, <2>2, <2>3
<1>10. ASSUME NEW w \in new, NEW u \in new, w # u, \A x : x \in new <=> x = w \/ x = u
       PROVE  /\ MapThenSumSet(Params, new) \in Int
              /\ Weighed(R \cup new) = Weighed(R) + MapThenSumSet(Params, new)
  <2>1. g[new] = F[w] + F[u]
    BY <1>5, <1>7, <1>10, SumOfTwo
  <2> DEFINE Q == R \cup {w}
  <2>2. R \cup new = Q \cup {u} /\ u \notin Q /\ Q \in SUBSET Weights
    BY <1>7, <1>10
  <2>3. Weighed(Q) = Weighed(R) + Params(w)
    BY <1>7, WeighedAdd
  <2> HIDE DEF Q
  <2>4. Weighed(Q \cup {u}) = Weighed(Q) + Params(u)
    BY <1>7, <2>2, WeighedAdd
  <2>5. Params(w) \in Int /\ Params(u) \in Int
    BY <1>7
  <2> HIDE DEF new
  <2>6. MapThenSumSet(Params, new) = Params(w) + Params(u)
    BY <1>5, <1>7, <2>1
  <2>7. Weighed(R \cup new) = Weighed(Q \cup {u})
    BY <2>2
  <2> QED BY <1>6, <2>3, <2>4, <2>5, <2>6, <2>7
<1>11. \/ new = {} \/ (\E w \in new : \A x : x \in new <=> x = w)
       \/ (\E w \in new, u \in new : w # u /\ \A x : x \in new <=> x = w \/ x = u)
  BY <1>1
<1>12. R \cup StageWeights(s) \in SUBSET Weights
  BY <1>3
<1>13. /\ MapThenSumSet(Params, new) \in Int
       /\ Weighed(R \cup StageWeights(s)) = Weighed(R) + MapThenSumSet(Params, new)
  <2> HIDE DEF new
  <2>1. /\ MapThenSumSet(Params, new) \in Int
        /\ Weighed(R \cup new) = Weighed(R) + MapThenSumSet(Params, new)
    <3>1. CASE new = {}
      BY <1>8, <3>1 DEF new
    <3>2. CASE new # {}
      BY <1>9, <1>10, <1>11, <3>2
    <3> QED BY <3>1, <3>2
  <2> QED BY <1>3, <2>1
<1> QED BY <1>6, <1>12, <1>13

-----------------------------------------------------------------------------
(* The account as a tally of positions.                                      *)

\* The positions the present account, and the present pass, began after.
Base == IF horizon > plan.prompt THEN horizon - 1 ELSE 0
PassBase == IF plan.mode = "layer_serial" /\ horizon = plan.prompt THEN 0 ELSE horizon - 1

\* The positions of the account that the stages of S have run over, those of
\* them after the first, and what attention read at each.
Charges(s, t) == Base < t /\ t <= Done(s) /\ ~Skipped(s, t)
Charged(S) == {p \in S \X (1 .. MaxT) : Charges(p[1], p[2])}
Late(S) == {p \in Charged(S) : p[2] > 1}
Reads == {q \in Charged(KvStages) \X (1 .. MaxT) : q[2] < q[1][2]}

Count(S) == Cardinality(Charged(S))

\* No stage lags behind the pass, and the pass has loaded what its stages used.
Paced ==
    /\ plan.mode = "layer_serial" => horizon >= plan.prompt
    /\ \A s \in Stages : PassBase <= Done(s)
Loaded(s) == PassBase < Done(s) /\ ~Skipped(s, Done(s))
Kept == resident = UNION {StageWeights(s) : s \in {u \in Stages : Loaded(u)}}

\* What the passes over the earlier tokens of the prompt loaded.
HeadBytes == (Text.vocab_size * H + 2 * H) * Bf16
PassBytes == UniqueBytes - (IF plan.last THEN HeadBytes ELSE 0)
Prior == IF plan.mode = "token_serial" /\ horizon <= plan.prompt
         THEN (horizon - 1) * PassBytes ELSE 0

\* The account of k positions of attention that read w, of c positions of linear
\* attention, l of them after the first, of m, p, x and e positions of the MLPs, the
\* projections, the mix and the embeddings, and of so many bytes of weights.
TallyOf(k, w, c, l, m, p, x, e, bytes) ==
    [mac |-> MacFullProj * k + MacAttnCoeff * (k + w) + MacLinToken * c + MacMlp * m
               + MacLmHead * p + MacMtpFc * x,
     loads |-> bytes,
     gather |-> (H * Bf16) * e,
     kvRead |-> KvBytes * w,
     kvWrite |-> KvBytes * k,
     csRead |-> (CBytes + SBytes) * l,
     csWrite |-> (QkvWidth * Bf16 + SBytes) * c,
     residual |-> (H * Bf16) * (k + c + m + x + e),
     logits |-> (Text.vocab_size * Bf16) * p,
     forced |-> ((GWidth + H) * Bf16) * k + ((ZWidth + H) * Bf16) * c
                  + (H * Bf16) * m + (Text.vocab_size * Bf16) * p]
Tally ==
    TallyOf(Count(KvStages), Cardinality(Reads), Count(CsStages),
            Cardinality(Late(CsStages)), Count(Mlps), Count(Projections), Count(Mixes),
            Count(Embeds), Prior + Weighed(resident) * Bf16)

AccountInv == IInv /\ Paced /\ Kept /\ acct = Tally

-----------------------------------------------------------------------------
(* A stage that runs adds its position to its class.                         *)

LEMMA PlanFact ==
  ASSUME TypeOK
  PROVE  /\ horizon \in 1 .. MaxT /\ plan.prompt \in 1 .. MaxT /\ MaxT \in Nat \ {0}
         /\ plan.mode \in {"layer_serial", "token_serial"} /\ plan.last \in BOOLEAN
         /\ plan \in [order : Orders, mode : Modes, last : LastOnly, prompt : 1 .. MaxT]
<1>1. plan \in [order : Orders, mode : Modes, last : LastOnly, prompt : 1 .. MaxT]
  BY DEF TypeOK
<1>2. plan.mode \in Modes /\ plan.last \in LastOnly /\ plan.prompt \in 1 .. MaxT
  BY <1>1
<1>3. Modes \subseteq {"layer_serial", "token_serial"} /\ LastOnly \subseteq BOOLEAN
  BY PlanAssumption
<1> QED BY <1>1, <1>2, <1>3, SizeFact DEF TypeOK

LEMMA BaseFact ==
  ASSUME TypeOK
  PROVE  Base \in Nat /\ PassBase \in Nat /\ Base <= PassBase /\ PassBase < horizon
  BY PlanFact DEF Base, PassBase

LEMMA RunFact ==
  ASSUME AccountInv, NEW s \in Stages, RunStage(s)
  PROVE  /\ Done(s) \in Nat /\ Done(s) + 1 \in 1 .. MaxT /\ Done(s) + 1 <= horizon
         /\ Base < Done(s) + 1 /\ PassBase < Done(s) + 1
         /\ plan' = plan /\ horizon' = horizon /\ Base' = Base /\ PassBase' = PassBase
         /\ Done(s)' = Done(s) + 1 /\ \A u \in Stages \ {s} : Done(u)' = Done(u)
         /\ \A u, t : Skipped(u, t)' <=> Skipped(u, t)
         /\ s \notin Projections => ~Skipped(s, Done(s) + 1)
<1>1. IInv /\ TypeOK /\ PassBase <= Done(s)
  BY DEF AccountInv, IInv, Paced
<1>2. Done(s) + 1 \in 1 .. horizon /\ plan' = plan /\ horizon' = horizon
  BY <1>1, RunEffect
<1>3. Done(s)' = Done(s) + 1 /\ \A u \in Stages \ {s} : Done(u)' = Done(u)
  BY <1>1, OutStep
<1>4. Done(s) \in Nat /\ Done(s) + 1 \in 1 .. MaxT /\ Done(s) + 1 <= horizon
  BY <1>1, <1>2, DoneFact, PlanFact
<1>5. Base < Done(s) + 1 /\ PassBase < Done(s) + 1
  BY <1>1, <1>4, BaseFact
<1>6. Base' = Base /\ PassBase' = PassBase
  BY <1>2 DEF Base, PassBase
<1>7. /\ \A u, t : Skipped(u, t)' <=> Skipped(u, t)
      /\ s \notin Projections => ~Skipped(s, Done(s) + 1)
  BY <1>2 DEF Skipped
<1> QED BY <1>2, <1>3, <1>4, <1>5, <1>6, <1>7

LEMMA ChargesRun ==
  ASSUME AccountInv, NEW s \in Stages, RunStage(s)
  PROVE  /\ ~Charges(s, Done(s) + 1)
         /\ \A u \in Stages : \A i \in 1 .. MaxT :
               Charges(u, i)' <=> \/ Charges(u, i)
                                  \/ /\ u = s /\ i = Done(s) + 1
                                     /\ ~Skipped(s, Done(s) + 1)
<1> DEFINE t == Done(s) + 1
<1>1. Done(s) \in Nat /\ Base < t
  BY RunFact
<1>2. ~Charges(s, t)
  BY <1>1 DEF Charges
<1>3. ASSUME NEW u \in Stages, NEW i \in 1 .. MaxT
      PROVE  Charges(u, i)' <=> Charges(u, i) \/ (u = s /\ i = t /\ ~Skipped(s, t))
  <2>1. Charges(u, i)' <=> Base < i /\ i <= Done(u)' /\ ~Skipped(u, i)
    <3>1. Charges(u, i)' <=> Base' < i /\ i <= Done(u)' /\ ~Skipped(u, i)'
      BY DEF Charges
    <3> QED BY <3>1, RunFact
  <2>2. CASE u # s
    <3>1. Done(u)' = Done(u)
      BY <2>2, RunFact
    <3> QED BY <2>1, <2>2, <3>1 DEF Charges
  <2>3. CASE u = s
    <3>1. Done(s)' = t
      BY RunFact
    <3>2. i <= t <=> i <= Done(s) \/ i = t
      BY <1>1
    <3> QED BY <1>1, <2>1, <2>3, <3>1, <3>2 DEF Charges
  <2> QED BY <2>2, <2>3
<1> QED BY <1>2, <1>3

LEMMA ChargedPairs ==
  ASSUME NEW S \in SUBSET Stages
  PROVE  /\ \A u, i : <<u, i>> \in Charged(S) <=> u \in S /\ i \in 1 .. MaxT /\ Charges(u, i)
         /\ \A p \in Charged(S) : p = <<p[1], p[2]>>
         /\ IsFiniteSet(Charged(S)) /\ Count(S) \in Nat
<1>1. /\ \A u, i : <<u, i>> \in Charged(S) <=> u \in S /\ i \in 1 .. MaxT /\ Charges(u, i)
      /\ \A p \in Charged(S) : p = <<p[1], p[2]>>
  BY DEF Charged
<1>2. IsFiniteSet(S \X (1 .. MaxT))
  <2>1. IsFiniteSet(S) /\ IsFiniteSet(1 .. MaxT)
    BY FiniteFact, SizeFact, FS_Interval
  <2> QED BY <2>1, FS_Product
<1>3. IsFiniteSet(Charged(S))
  BY <1>2, FS_Subset DEF Charged
<1> QED BY <1>1, <1>3, FS_CardinalityType DEF Count

LEMMA ChargedRun ==
  ASSUME AccountInv, NEW s \in Stages, RunStage(s), NEW S \in SUBSET Stages
  PROVE  /\ <<s, Done(s) + 1>> \notin Charged(S)
         /\ Charged(S)' = IF s \in S /\ ~Skipped(s, Done(s) + 1)
                          THEN Charged(S) \cup {<<s, Done(s) + 1>>} ELSE Charged(S)
<1> DEFINE t == Done(s) + 1
           more == IF s \in S /\ ~Skipped(s, t) THEN Charged(S) \cup {<<s, t>>} ELSE Charged(S)
<1>1. t \in 1 .. MaxT
  BY RunFact
<1>2. ~Charges(s, t)
  BY ChargesRun
<1>3. \A u \in Stages : \A i \in 1 .. MaxT :
         Charges(u, i)' <=> Charges(u, i) \/ (u = s /\ i = t /\ ~Skipped(s, t))
  BY ChargesRun
<1>4. Charged(S)' = {p \in S \X (1 .. MaxT) : Charges(p[1], p[2])'}
  BY DEF Charged
<1> HIDE DEF t
<1>5. \A p \in S \X (1 .. MaxT) :
         Charges(p[1], p[2])' <=>
            Charges(p[1], p[2]) \/ (p = <<s, t>> /\ ~Skipped(s, t))
  BY <1>3
<1>6. Charged(S)' = more
  BY <1>1, <1>4, <1>5 DEF Charged
<1>7. <<s, t>> \notin Charged(S)
  BY <1>2, ChargedPairs DEF t
<1> QED BY <1>6, <1>7 DEF t

LEMMA CountRun ==
  ASSUME AccountInv, NEW s \in Stages, RunStage(s), NEW S \in SUBSET Stages
  PROVE  Count(S)' = IF s \in S /\ ~Skipped(s, Done(s) + 1) THEN Count(S) + 1 ELSE Count(S)
<1> DEFINE x == <<s, Done(s) + 1>>
           C == Charged(S)
<1>1. /\ x \notin C
      /\ C' = IF s \in S /\ ~Skipped(s, Done(s) + 1) THEN C \cup {x} ELSE C
  BY ChargedRun
<1>2. IsFiniteSet(C)
  BY ChargedPairs
<1>3. Count(S) = Cardinality(C) /\ Count(S)' = Cardinality(C')
  BY DEF Count
<1> HIDE DEF x, C
<1>4. Cardinality(C \cup {x}) = Cardinality(C) + 1
  BY <1>1, <1>2, FS_AddElement
<1> QED BY <1>1, <1>3, <1>4

LEMMA LateRun ==
  ASSUME AccountInv, NEW s \in Stages, RunStage(s)
  PROVE  /\ Cardinality(Late(CsStages)) \in Nat
         /\ Cardinality(Late(CsStages))'
               = IF s \in CsStages /\ Done(s) + 1 > 1
                 THEN Cardinality(Late(CsStages)) + 1 ELSE Cardinality(Late(CsStages))
<1> DEFINE x == <<s, Done(s) + 1>>
           C == Charged(CsStages)
           L == Late(CsStages)
<1>1. s \in CsStages => ~Skipped(s, Done(s) + 1)
  BY CarrierFact, RunFact
<1>2. /\ x \notin C
      /\ C' = IF s \in CsStages THEN C \cup {x} ELSE C
  BY <1>1, ChargedRun, ClassSets
<1>3. L = {p \in C : p[2] > 1} /\ L' = {p \in C' : p[2] > 1}
  BY DEF Late
<1>4. IsFiniteSet(C)
  BY ChargedPairs, ClassSets
<1>5. IsFiniteSet(L) /\ Cardinality(L) \in Nat
  BY <1>3, <1>4, FS_Subset, FS_CardinalityType
<1>6. x[2] = Done(s) + 1
  OBVIOUS
<1> HIDE DEF x, C, L
<1>7. CASE s \in CsStages /\ Done(s) + 1 > 1
  <2>1. L' = L \cup {x} /\ x \notin L
    BY <1>2, <1>3, <1>6, <1>7
  <2>2. Cardinality(L \cup {x}) = Cardinality(L) + 1
    BY <1>5, <2>1, FS_AddElement
  <2> QED BY <1>5, <1>7, <2>1, <2>2 DEF L
<1>8. CASE ~(s \in CsStages /\ Done(s) + 1 > 1)
  <2>1. L' = L
    BY <1>2, <1>3, <1>6, <1>8
  <2> QED BY <1>5, <1>8, <2>1 DEF L
<1> QED BY <1>7, <1>8

LEMMA ReadsRun ==
  ASSUME AccountInv, NEW s \in Stages, RunStage(s)
  PROVE  /\ Cardinality(Reads) \in Nat
         /\ Cardinality(Reads)' = IF s \in KvStages THEN Cardinality(Reads) + Done(s)
                                  ELSE Cardinality(Reads)
<1> DEFINE n == Done(s)
           x == <<s, n + 1>>
           C == Charged(KvStages)
           R == Reads
           new == {x} \X (1 .. n)
<1>0. n \in Nat /\ n + 1 \in 1 .. MaxT
  BY RunFact
<1>1. s \in KvStages => ~Skipped(s, n + 1)
  BY CarrierFact, RunFact
<1>2. /\ x \notin C
      /\ C' = IF s \in KvStages THEN C \cup {x} ELSE C
  BY <1>1, ChargedRun, ClassSets
<1>3. /\ R = {q \in C \X (1 .. MaxT) : q[2] < q[1][2]}
      /\ R' = {q \in C' \X (1 .. MaxT) : q[2] < q[1][2]}
  BY DEF Reads
<1>4. IsFiniteSet(C)
  BY ChargedPairs, ClassSets
<1>5. IsFiniteSet(R) /\ Cardinality(R) \in Nat
  <2>1. IsFiniteSet(C \X (1 .. MaxT))
    <3>1. IsFiniteSet(1 .. MaxT)
      BY SizeFact, FS_Interval
    <3> QED BY <1>4, <3>1, FS_Product
  <2> QED BY <1>3, <2>1, FS_Subset, FS_CardinalityType
<1>6. x[2] = n + 1
  OBVIOUS
<1> HIDE DEF n, x, C, R
<1>7. IsFiniteSet(new) /\ Cardinality(new) = n
  <2>1. IsFiniteSet({x}) /\ Cardinality({x}) = 1
    BY FS_Singleton
  <2>2. IsFiniteSet(1 .. n) /\ Cardinality(1 .. n) = n
    BY <1>0, FS_Interval
  <2> DEFINE A == {x}
             B == 1 .. n
  <2>3. new = A \X B /\ IsFiniteSet(A) /\ Cardinality(A) = 1 /\ IsFiniteSet(B)
        /\ Cardinality(B) = n
    BY <2>1, <2>2
  <2> HIDE DEF A, B, new
  <2>4. IsFiniteSet(A \X B) /\ Cardinality(A \X B) = Cardinality(A) * Cardinality(B)
    BY <2>3, FS_Product
  <2>5. 1 * n = n
    BY <1>0
  <2> QED BY <2>3, <2>4, <2>5
<1>8. CASE s \in KvStages
  <2>1. R' = R \cup new
    <3>1. ASSUME NEW q \in R' PROVE q \in R \cup new
      <4>1. q \in (C \cup {x}) \X (1 .. MaxT) /\ q[2] < q[1][2]
        BY <1>2, <1>3, <1>8
      <4>2. CASE q[1] \in C
        BY <1>3, <4>1, <4>2
      <4>3. CASE q[1] = x
        <5>1. q[2] \in 1 .. n
          BY <1>0, <1>6, <4>1, <4>3
        <5> QED BY <4>1, <4>3, <5>1
      <4> QED BY <4>1, <4>2, <4>3
    <3>2. ASSUME NEW q \in R PROVE q \in R'
      BY <1>2, <1>3, <1>8
    <3>3. ASSUME NEW q \in new PROVE q \in R'
      <4>1. q \in {x} \X (1 .. n) /\ q[1] = x /\ q[2] \in 1 .. n
        OBVIOUS
      <4>2. q \in C' \X (1 .. MaxT)
        <5>1. C' = C \cup {x}
          BY <1>2, <1>8
        <5>2. q[2] \in 1 .. MaxT
          BY <1>0, <4>1, SizeFact
        <5>3. q[1] \in C'
          BY <4>1, <5>1
        <5>4. q = <<q[1], q[2]>>
          BY <4>1
        <5> QED BY <5>2, <5>3, <5>4
      <4> QED BY <1>0, <1>3, <1>6, <4>1, <4>2
    <3> HIDE DEF new
    <3> QED BY <3>1, <3>2, <3>3
  <2>2. R \cap new = {}
    BY <1>2, <1>3
  <2> HIDE DEF new
  <2>3. Cardinality(R \cup new) = Cardinality(R) + Cardinality(new) - Cardinality(R \cap new)
    BY <1>5, <1>7, FS_Union
  <2>4. Cardinality(R') = Cardinality(R) + n
    <3>1. Cardinality(R \cap new) = 0
      BY <2>2, FS_EmptySet
    <3> QED BY <1>0, <1>5, <1>7, <2>1, <2>3, <3>1
  <2> QED BY <1>5, <1>8, <2>4 DEF R, n
<1>9. CASE s \notin KvStages
  <2>1. R' = R
    BY <1>2, <1>3, <1>9
  <2> QED BY <1>5, <1>9, <2>1 DEF R
<1> QED BY <1>8, <1>9

-----------------------------------------------------------------------------
(* What a stage charges is the tally of its position.                        *)

\* One account after another.
Plus(a, b) ==
    [mac |-> a.mac + b.mac, loads |-> a.loads + b.loads, gather |-> a.gather + b.gather,
     kvRead |-> a.kvRead + b.kvRead, kvWrite |-> a.kvWrite + b.kvWrite,
     csRead |-> a.csRead + b.csRead, csWrite |-> a.csWrite + b.csWrite,
     residual |-> a.residual + b.residual, logits |-> a.logits + b.logits,
     forced |-> a.forced + b.forced]

LEMMA Distribute ==
  ASSUME NEW a \in Int, NEW n \in Int, NEW d \in Int
  PROVE  a * (n + d) = a * n + a * d /\ a * n \in Int /\ a * d \in Int
OBVIOUS

LEMMA TallyAdd ==
  ASSUME NEW k \in Int, NEW w \in Int, NEW c \in Int, NEW l \in Int, NEW m \in Int,
         NEW p \in Int, NEW x \in Int, NEW e \in Int, NEW bytes,
         NEW dk \in Int, NEW dw \in Int, NEW dc \in Int, NEW dl \in Int, NEW dm \in Int,
         NEW dp \in Int, NEW dx \in Int, NEW de \in Int, NEW more
  PROVE  TallyOf(k + dk, w + dw, c + dc, l + dl, m + dm, p + dp, x + dx, e + de, bytes + more)
            = Plus(TallyOf(k, w, c, l, m, p, x, e, bytes),
                   TallyOf(dk, dw, dc, dl, dm, dp, dx, de, more))
<1> DEFINE A == MacFullProj
           B == MacAttnCoeff
           C == MacLinToken
           M == MacMlp
           P == MacLmHead
           X == MacMtpFc
           h == H * Bf16
           v == Text.vocab_size * Bf16
           g == (GWidth + H) * Bf16
           z == (ZWidth + H) * Bf16
           r == CBytes + SBytes
           q == QkvWidth * Bf16 + SBytes
           K == KvBytes
<1>1. /\ A \in Int /\ B \in Int /\ C \in Int /\ M \in Int /\ P \in Int /\ X \in Int /\ h \in Int
      /\ v \in Int /\ g \in Int /\ z \in Int /\ r \in Int /\ q \in Int /\ K \in Int
  BY WidthsFact, CostsFact
<1> DEFINE old == TallyOf(k, w, c, l, m, p, x, e, bytes)
           del == TallyOf(dk, dw, dc, dl, dm, dp, dx, de, more)
           new == TallyOf(k + dk, w + dw, c + dc, l + dl, m + dm, p + dp, x + dx, e + de,
                          bytes + more)
<1>2. old = [mac |-> A * k + B * (k + w) + C * c + M * m + P * p + X * x, loads |-> bytes,
             gather |-> h * e, kvRead |-> K * w, kvWrite |-> K * k, csRead |-> r * l,
             csWrite |-> q * c, residual |-> h * (k + c + m + x + e), logits |-> v * p,
             forced |-> g * k + z * c + h * m + v * p]
  BY DEF TallyOf
<1>3. del = [mac |-> A * dk + B * (dk + dw) + C * dc + M * dm + P * dp + X * dx, loads |-> more,
             gather |-> h * de, kvRead |-> K * dw, kvWrite |-> K * dk, csRead |-> r * dl,
             csWrite |-> q * dc, residual |-> h * (dk + dc + dm + dx + de), logits |-> v * dp,
             forced |-> g * dk + z * dc + h * dm + v * dp]
  BY DEF TallyOf
<1>4. new = [mac |-> A * (k + dk) + B * ((k + dk) + (w + dw)) + C * (c + dc) + M * (m + dm)
                        + P * (p + dp) + X * (x + dx), loads |-> bytes + more,
             gather |-> h * (e + de), kvRead |-> K * (w + dw), kvWrite |-> K * (k + dk),
             csRead |-> r * (l + dl), csWrite |-> q * (c + dc),
             residual |-> h * ((k + dk) + (c + dc) + (m + dm) + (x + dx) + (e + de)),
             logits |-> v * (p + dp),
             forced |-> g * (k + dk) + z * (c + dc) + h * (m + dm) + v * (p + dp)]
  BY DEF TallyOf
<1> HIDE DEF A, B, C, M, P, X, h, v, g, z, r, q, K, old, del, new
<1>5. new.mac = old.mac + del.mac
  <2>1. /\ A * (k + dk) = A * k + A * dk /\ A * k \in Int /\ A * dk \in Int
        /\ C * (c + dc) = C * c + C * dc /\ C * c \in Int /\ C * dc \in Int
        /\ M * (m + dm) = M * m + M * dm /\ M * m \in Int /\ M * dm \in Int
    BY <1>1, Distribute
  <2>2. /\ P * (p + dp) = P * p + P * dp /\ P * p \in Int /\ P * dp \in Int
        /\ X * (x + dx) = X * x + X * dx /\ X * x \in Int /\ X * dx \in Int
    BY <1>1, Distribute
  <2>3. /\ B * ((k + dk) + (w + dw)) = B * (k + w) + B * (dk + dw)
        /\ B * (k + w) \in Int /\ B * (dk + dw) \in Int
    <3>1. (k + dk) + (w + dw) = (k + w) + (dk + dw)
      OBVIOUS
    <3> QED BY <1>1, <3>1, Distribute
  <2> QED BY <1>2, <1>3, <1>4, <2>1, <2>2, <2>3
<1>6. /\ new.loads = old.loads + del.loads /\ new.gather = old.gather + del.gather
      /\ new.kvRead = old.kvRead + del.kvRead /\ new.kvWrite = old.kvWrite + del.kvWrite
  BY <1>1, <1>2, <1>3, <1>4, Distribute
<1>7. /\ new.csRead = old.csRead + del.csRead /\ new.csWrite = old.csWrite + del.csWrite
      /\ new.logits = old.logits + del.logits
  BY <1>1, <1>2, <1>3, <1>4, Distribute
<1>8. new.residual = old.residual + del.residual
  <2>1. (k + dk) + (c + dc) + (m + dm) + (x + dx) + (e + de)
            = (k + c + m + x + e) + (dk + dc + dm + dx + de)
    OBVIOUS
  <2>2. h * ((k + c + m + x + e) + (dk + dc + dm + dx + de))
            = h * (k + c + m + x + e) + h * (dk + dc + dm + dx + de)
    BY <1>1, Distribute
  <2> QED BY <1>2, <1>3, <1>4, <2>1, <2>2
<1>9. new.forced = old.forced + del.forced
  <2>1. /\ g * (k + dk) = g * k + g * dk /\ g * k \in Int /\ g * dk \in Int
        /\ z * (c + dc) = z * c + z * dc /\ z * c \in Int /\ z * dc \in Int
        /\ h * (m + dm) = h * m + h * dm /\ h * m \in Int /\ h * dm \in Int
        /\ v * (p + dp) = v * p + v * dp /\ v * p \in Int /\ v * dp \in Int
    BY <1>1, Distribute
  <2> QED BY <1>2, <1>3, <1>4, <2>1
<1>10. new = [mac |-> new.mac, loads |-> new.loads, gather |-> new.gather,
              kvRead |-> new.kvRead, kvWrite |-> new.kvWrite, csRead |-> new.csRead,
              csWrite |-> new.csWrite, residual |-> new.residual, logits |-> new.logits,
              forced |-> new.forced]
  BY <1>4
<1>11. new = Plus(old, del)
  BY <1>5, <1>6, <1>7, <1>8, <1>9, <1>10 DEF Plus
<1> QED BY <1>11 DEF old, del, new

LEMMA ByNought ==
  ASSUME NEW a \in Int
  PROVE  a * 0 = 0 /\ a * 1 = a
OBVIOUS

\* What stage s adds to the count of class S.
Tick(s, S) == IF s \in S THEN 1 ELSE 0

LEMMA ChargeFact ==
  ASSUME NEW s \in Stages, NEW n \in Nat, s \in KvStages => Len(kv[s]) = n
  PROVE  Charge(s, n + 1)
            = Plus(acct, TallyOf(Tick(s, KvStages), IF s \in KvStages THEN n ELSE 0,
                                 Tick(s, CsStages),
                                 IF s \in CsStages /\ n + 1 > 1 THEN 1 ELSE 0,
                                 Tick(s, Mlps), Tick(s, Projections), Tick(s, Mixes),
                                 Tick(s, Embeds),
                                 MapThenSumSet(Params, StageWeights(s) \ resident) * Bf16))
<1> DEFINE v == MapThenSumSet(Params, StageWeights(s) \ resident) * Bf16
           d == TallyOf(Tick(s, KvStages), IF s \in KvStages THEN n ELSE 0,
                        Tick(s, CsStages), IF s \in CsStages /\ n + 1 > 1 THEN 1 ELSE 0,
                        Tick(s, Mlps), Tick(s, Projections), Tick(s, Mixes),
                        Tick(s, Embeds), v)
<1>1. Charge(s, n + 1) = Plus(acct,
         [mac |-> StageMac(s, n + 1), loads |-> v,
          gather |-> IF s \in Embeds THEN H * Bf16 ELSE 0,
          kvRead |-> IF s \in KvStages THEN Len(kv[s]) * KvBytes ELSE 0,
          kvWrite |-> IF s \in KvStages THEN KvBytes ELSE 0,
          csRead |-> IF s \in CsStages /\ n + 1 > 1 THEN CBytes + SBytes ELSE 0,
          csWrite |-> IF s \in CsStages THEN QkvWidth * Bf16 + SBytes ELSE 0,
          residual |-> IF s \in Projections THEN 0 ELSE CutBytes(s),
          logits |-> IF s \in Projections THEN CutBytes(s) ELSE 0,
          forced |-> ForcedBytes(s)])
  BY EmbedKinds DEF Charge, Plus
<1> DEFINE h == H * Bf16
           V == Text.vocab_size * Bf16
           g == (GWidth + H) * Bf16
           z == (ZWidth + H) * Bf16
           r == CBytes + SBytes
           q == QkvWidth * Bf16 + SBytes
<1>2. /\ h \in Int /\ V \in Int /\ g \in Int /\ z \in Int /\ r \in Int /\ q \in Int
      /\ KvBytes \in Int /\ MacFullProj \in Int /\ MacAttnCoeff \in Int /\ MacLinToken \in Int
      /\ MacMlp \in Int /\ MacLmHead \in Int /\ MacMtpFc \in Int
  BY WidthsFact, CostsFact
<1>3. d = TallyOf(Tick(s, KvStages), IF s \in KvStages THEN n ELSE 0,
                  Tick(s, CsStages), IF s \in CsStages /\ n + 1 > 1 THEN 1 ELSE 0,
                  Tick(s, Mlps), Tick(s, Projections), Tick(s, Mixes),
                  Tick(s, Embeds), v)
  OBVIOUS
<1> HIDE DEF v, h, V, g, z, r, q, d
<1>4. /\ h * 0 = 0 /\ h * 1 = h /\ V * 0 = 0 /\ V * 1 = V /\ g * 0 = 0 /\ g * 1 = g
      /\ z * 0 = 0 /\ z * 1 = z /\ r * 0 = 0 /\ r * 1 = r /\ q * 0 = 0 /\ q * 1 = q
      /\ KvBytes * 0 = 0 /\ KvBytes * 1 = KvBytes
  BY <1>2, ByNought
<1>5. /\ MacFullProj * 0 = 0 /\ MacFullProj * 1 = MacFullProj
      /\ MacAttnCoeff * 0 = 0 /\ MacLinToken * 0 = 0 /\ MacLinToken * 1 = MacLinToken
      /\ MacMlp * 0 = 0 /\ MacMlp * 1 = MacMlp /\ MacLmHead * 0 = 0
      /\ MacLmHead * 1 = MacLmHead /\ MacMtpFc * 0 = 0 /\ MacMtpFc * 1 = MacMtpFc
  BY <1>2, ByNought
<1>6. d = [mac |-> StageMac(s, n + 1), loads |-> v,
          gather |-> IF s \in Embeds THEN h ELSE 0,
          kvRead |-> IF s \in KvStages THEN Len(kv[s]) * KvBytes ELSE 0,
          kvWrite |-> IF s \in KvStages THEN KvBytes ELSE 0,
          csRead |-> IF s \in CsStages /\ n + 1 > 1 THEN r ELSE 0,
          csWrite |-> IF s \in CsStages THEN q ELSE 0,
          residual |-> IF s \in Projections THEN 0 ELSE CutBytes(s),
          logits |-> IF s \in Projections THEN CutBytes(s) ELSE 0,
          forced |-> ForcedBytes(s)]
  <2>1. CASE s \in KvStages
    <3>1. /\ s \notin CsStages /\ s \notin Mlps /\ s \notin Projections /\ s \notin Mixes
          /\ s \notin Embeds
      BY <2>1, ClassFact
    <3>2. /\ StageMac(s, n + 1) = MacFullProj + MacAttnCoeff * (n + 1) /\ CutBytes(s) = h
          /\ ForcedBytes(s) = g /\ Len(kv[s]) * KvBytes = KvBytes * n
          /\ MacAttnCoeff * (n + 1) = MacAttnCoeff * (1 + n)
      BY <1>2, <2>1, KvCost DEF h, g
    <3>3. d = TallyOf(1, n, 0, 0, 0, 0, 0, 0, v)
      BY <1>3, <2>1, <3>1 DEF Tick
    <3>9. d = [mac |-> MacFullProj * 1 + MacAttnCoeff * (1 + n) + MacLinToken * 0
                      + MacMlp * 0 + MacLmHead * 0 + MacMtpFc * 0,
               loads |-> v, gather |-> h * 0, kvRead |-> KvBytes * n, kvWrite |-> KvBytes * 1,
               csRead |-> r * 0, csWrite |-> q * 0, residual |-> h * (1 + 0 + 0 + 0 + 0),
               logits |-> V * 0, forced |-> g * 1 + z * 0 + h * 0 + V * 0]
      BY <3>3 DEF TallyOf, h, V, g, z, r, q
    <3>4. MacAttnCoeff * (n + 1) \in Int
      BY <1>2
    <3> QED BY <1>2, <1>4, <1>5, <2>1, <3>1, <3>2, <3>4, <3>9
  <2>2. CASE s \in CsStages
    <3>1. /\ s \notin KvStages /\ s \notin Mlps /\ s \notin Projections /\ s \notin Mixes
          /\ s \notin Embeds
      BY <2>2, ClassFact
    <3>2. /\ StageMac(s, n + 1) = MacLinToken /\ CutBytes(s) = h /\ ForcedBytes(s) = z
      BY <2>2, CsCost DEF h, z
    <3>3. CASE n + 1 > 1
      <4>1. d = TallyOf(0, 0, 1, 1, 0, 0, 0, 0, v)
        BY <1>3, <2>2, <3>1, <3>3 DEF Tick
      <4>9. d = [mac |-> MacFullProj * 0 + MacAttnCoeff * (0 + 0) + MacLinToken * 1
                        + MacMlp * 0 + MacLmHead * 0 + MacMtpFc * 0,
                 loads |-> v, gather |-> h * 0, kvRead |-> KvBytes * 0, kvWrite |-> KvBytes * 0,
                 csRead |-> r * 1, csWrite |-> q * 1, residual |-> h * (0 + 1 + 0 + 0 + 0),
                 logits |-> V * 0, forced |-> g * 0 + z * 1 + h * 0 + V * 0]
        BY <4>1 DEF TallyOf, h, V, g, z, r, q
      <4> QED BY <1>2, <1>4, <1>5, <2>2, <3>1, <3>2, <3>3, <4>9
    <3>4. CASE ~(n + 1 > 1)
      <4>1. d = TallyOf(0, 0, 1, 0, 0, 0, 0, 0, v)
        BY <1>3, <2>2, <3>1, <3>4 DEF Tick
      <4>9. d = [mac |-> MacFullProj * 0 + MacAttnCoeff * (0 + 0) + MacLinToken * 1
                        + MacMlp * 0 + MacLmHead * 0 + MacMtpFc * 0,
                 loads |-> v, gather |-> h * 0, kvRead |-> KvBytes * 0, kvWrite |-> KvBytes * 0,
                 csRead |-> r * 0, csWrite |-> q * 1, residual |-> h * (0 + 1 + 0 + 0 + 0),
                 logits |-> V * 0, forced |-> g * 0 + z * 1 + h * 0 + V * 0]
        BY <4>1 DEF TallyOf, h, V, g, z, r, q
      <4> QED BY <1>2, <1>4, <1>5, <2>2, <3>1, <3>2, <3>4, <4>9
    <3> QED BY <3>3, <3>4
  <2>3. CASE s \in Mlps
    <3>1. /\ s \notin KvStages /\ s \notin CsStages /\ s \notin Projections /\ s \notin Mixes
          /\ s \notin Embeds
      BY <2>3, ClassFact
    <3>2. /\ StageMac(s, n + 1) = MacMlp /\ CutBytes(s) = h /\ ForcedBytes(s) = h
      BY <2>3, MlpCost DEF h
    <3>3. d = TallyOf(0, 0, 0, 0, 1, 0, 0, 0, v)
      BY <1>3, <2>3, <3>1 DEF Tick
    <3>9. d = [mac |-> MacFullProj * 0 + MacAttnCoeff * (0 + 0) + MacLinToken * 0
                      + MacMlp * 1 + MacLmHead * 0 + MacMtpFc * 0,
               loads |-> v, gather |-> h * 0, kvRead |-> KvBytes * 0, kvWrite |-> KvBytes * 0,
               csRead |-> r * 0, csWrite |-> q * 0, residual |-> h * (0 + 0 + 1 + 0 + 0),
               logits |-> V * 0, forced |-> g * 0 + z * 0 + h * 1 + V * 0]
      BY <3>3 DEF TallyOf, h, V, g, z, r, q
    <3> QED BY <1>2, <1>4, <1>5, <3>1, <3>2, <3>9
  <2>4. CASE s \in Projections
    <3>1. /\ s \notin KvStages /\ s \notin CsStages /\ s \notin Mlps /\ s \notin Mixes
          /\ s \notin Embeds
      BY <2>4, ClassFact
    <3>2. /\ StageMac(s, n + 1) = MacLmHead /\ CutBytes(s) = V /\ ForcedBytes(s) = V
      BY <2>4, ProjectionCost DEF V
    <3>3. d = TallyOf(0, 0, 0, 0, 0, 1, 0, 0, v)
      BY <1>3, <2>4, <3>1 DEF Tick
    <3>9. d = [mac |-> MacFullProj * 0 + MacAttnCoeff * (0 + 0) + MacLinToken * 0
                      + MacMlp * 0 + MacLmHead * 1 + MacMtpFc * 0,
               loads |-> v, gather |-> h * 0, kvRead |-> KvBytes * 0, kvWrite |-> KvBytes * 0,
               csRead |-> r * 0, csWrite |-> q * 0, residual |-> h * (0 + 0 + 0 + 0 + 0),
               logits |-> V * 1, forced |-> g * 0 + z * 0 + h * 0 + V * 1]
      BY <3>3 DEF TallyOf, h, V, g, z, r, q
    <3> QED BY <1>2, <1>4, <1>5, <2>4, <3>1, <3>2, <3>9
  <2>5. CASE s \in Mixes
    <3>1. /\ s \notin KvStages /\ s \notin CsStages /\ s \notin Mlps /\ s \notin Projections
          /\ s \notin Embeds
      BY <2>5, ClassFact
    <3>2. /\ StageMac(s, n + 1) = MacMtpFc /\ CutBytes(s) = h /\ ForcedBytes(s) = 0
      BY <2>5, MixCost DEF h
    <3>3. d = TallyOf(0, 0, 0, 0, 0, 0, 1, 0, v)
      BY <1>3, <2>5, <3>1 DEF Tick
    <3>9. d = [mac |-> MacFullProj * 0 + MacAttnCoeff * (0 + 0) + MacLinToken * 0
                      + MacMlp * 0 + MacLmHead * 0 + MacMtpFc * 1,
               loads |-> v, gather |-> h * 0, kvRead |-> KvBytes * 0, kvWrite |-> KvBytes * 0,
               csRead |-> r * 0, csWrite |-> q * 0, residual |-> h * (0 + 0 + 0 + 1 + 0),
               logits |-> V * 0, forced |-> g * 0 + z * 0 + h * 0 + V * 0]
      BY <3>3 DEF TallyOf, h, V, g, z, r, q
    <3> QED BY <1>2, <1>4, <1>5, <3>1, <3>2, <3>9
  <2>6. CASE s \in Embeds
    <3>1. /\ s \notin KvStages /\ s \notin CsStages /\ s \notin Mlps /\ s \notin Projections
          /\ s \notin Mixes
      BY <2>6, ClassFact
    <3>2. /\ StageMac(s, n + 1) = 0 /\ CutBytes(s) = h /\ ForcedBytes(s) = 0
      BY <2>6, EmbedCost DEF h
    <3>3. d = TallyOf(0, 0, 0, 0, 0, 0, 0, 1, v)
      BY <1>3, <2>6, <3>1 DEF Tick
    <3>9. d = [mac |-> MacFullProj * 0 + MacAttnCoeff * (0 + 0) + MacLinToken * 0
                      + MacMlp * 0 + MacLmHead * 0 + MacMtpFc * 0,
               loads |-> v, gather |-> h * 1, kvRead |-> KvBytes * 0, kvWrite |-> KvBytes * 0,
               csRead |-> r * 0, csWrite |-> q * 0, residual |-> h * (0 + 0 + 0 + 0 + 1),
               logits |-> V * 0, forced |-> g * 0 + z * 0 + h * 0 + V * 0]
      BY <3>3 DEF TallyOf, h, V, g, z, r, q
    <3> QED BY <1>2, <1>4, <1>5, <2>6, <3>1, <3>2, <3>9
  <2> QED BY <2>1, <2>2, <2>3, <2>4, <2>5, <2>6, ClassFact
<1>7. Charge(s, n + 1) = Plus(acct, d)
  BY <1>1, <1>6 DEF h, r, q
<1> QED BY <1>7 DEF d, v

-----------------------------------------------------------------------------
(* The account follows a stage.                                              *)

LEMMA KvLength ==
  ASSUME IInv, NEW s \in KvStages
  PROVE  Len(kv[s]) = Done(s)
<1>1. kv[s] = History(s, Done(s))
  BY StateForm DEF IInv
<1>2. kv[s] \in Seq(SUBSET (1 .. MaxT + 1)) /\ Done(s) \in Nat
  BY DoneFact, CarrierFact DEF IInv, TypeOK
<1> QED BY <1>1, <1>2, LenProperties DEF History

LEMMA LayersFact ==
  /\ NFull \in Nat /\ NLinear \in Nat /\ NFull + NLinear = NLayers /\ NLayers \in Nat
  /\ IsFiniteSet(FullLayers) /\ IsFiniteSet(LinearLayers)
<1>1. IsFiniteSet(FullLayers) /\ IsFiniteSet(LinearLayers)
  BY FiniteFact, SizeFact, FS_Subset
<1>2. Cardinality(FullLayers) \in Nat /\ Cardinality(LinearLayers) \in Nat
  BY <1>1, FS_CardinalityType
<1>3. Cardinality(FullLayers \cup LinearLayers)
         = Cardinality(FullLayers) + Cardinality(LinearLayers)
             - Cardinality(FullLayers \cap LinearLayers)
  BY <1>1, FS_Union
<1>4. Cardinality(FullLayers \cap LinearLayers) = 0
  BY SizeFact, FS_EmptySet
<1>5. Cardinality(FullLayers \cup LinearLayers) = NLayers
  BY SizeFact, FiniteFact
<1> QED BY <1>1, <1>2, <1>3, <1>4, <1>5, SizeFact DEF NFull, NLinear

LEMMA BytesFact == UniqueBytes \in Int /\ HeadBytes \in Int /\ PassBytes \in Int
<1> USE WidthsFact, CostsFact, LayersFact
<1>1. MtpParams \in Int
  BY DEF MtpParams
<1>2. UniqueBytes \in Int
  BY <1>1 DEF UniqueBytes
<1>3. HeadBytes \in Int
  BY DEF HeadBytes
<1> QED BY <1>2, <1>3 DEF PassBytes

LEMMA PriorFact ==
  ASSUME TypeOK
  PROVE  Prior \in Int
<1>1. horizon \in Int
  BY PlanFact
<1> QED BY <1>1, BytesFact DEF Prior

LEMMA ResidentFact ==
  ASSUME Kept
  PROVE  resident \in SUBSET Weights /\ Weighed(resident) \in Int
<1>1. \A s \in Stages : StageWeights(s) \subseteq Weights
  <2>1. ASSUME NEW s \in Stages PROVE StageWeights(s) \subseteq Weights
    <3> DEFINE R == {}
    <3>1. R \in SUBSET Weights
      OBVIOUS
    <3> HIDE DEF R
    <3>2. R \cup StageWeights(s) \in SUBSET Weights
      BY <3>1, LoadFact
    <3> QED BY <3>2
  <2> QED BY <2>1
<1>2. resident \in SUBSET Weights
  BY <1>1 DEF Kept
<1>3. Only("embed_current") \in Stages
  BY StageKinds DEF SingleKinds
<1> QED BY <1>2, <1>3, LoadFact

LEMMA PacedRun ==
  ASSUME AccountInv, NEW s \in Stages, RunStage(s)
  PROVE  Paced'
<1>1. /\ plan' = plan /\ horizon' = horizon /\ PassBase' = PassBase
      /\ PassBase < Done(s) + 1 /\ Done(s)' = Done(s) + 1
      /\ \A u \in Stages \ {s} : Done(u)' = Done(u)
  BY RunFact
<1>2. Done(s) \in Nat /\ PassBase \in Nat
  BY BaseFact, RunFact DEF AccountInv, IInv
<1>3. ASSUME NEW u \in Stages PROVE PassBase' <= Done(u)'
  <2>1. CASE u = s
    BY <1>1, <1>2, <2>1
  <2>2. CASE u # s
    BY <1>1, <2>2 DEF AccountInv, Paced
  <2> QED BY <2>1, <2>2
<1> QED BY <1>1, <1>3 DEF AccountInv, Paced

LEMMA KeptRun ==
  ASSUME AccountInv, NEW s \in Stages, RunStage(s)
  PROVE  Kept'
<1> DEFINE t == Done(s) + 1
           L == {u \in Stages : Loaded(u)}
<1>1. \A u \in Stages \ {s} : Loaded(u)' <=> Loaded(u)
  <2>1. ASSUME NEW u \in Stages \ {s} PROVE Loaded(u)' <=> Loaded(u)
    <3>1. PassBase' = PassBase /\ Done(u)' = Done(u)
      BY RunFact
    <3>2. Skipped(u, Done(u))' <=> Skipped(u, Done(u))
      BY <3>1, RunFact DEF Skipped
    <3> QED BY <3>1, <3>2 DEF Loaded
  <2> QED BY <2>1
<1>2. Loaded(s)' <=> ~Skipped(s, t)
  <2>1. PassBase' = PassBase /\ PassBase < t /\ Done(s)' = t /\ plan' = plan
    BY RunFact
  <2> HIDE DEF t
  <2>2. Skipped(s, Done(s))' <=> Skipped(s, t)
    BY <2>1 DEF Skipped
  <2> QED BY <2>1, <2>2 DEF Loaded
<1>3. Skipped(s, t) => ~Loaded(s)
  <2>1. Done(s) \in Nat /\ plan.prompt \in Nat
    BY RunFact, PlanFact DEF AccountInv, IInv
  <2> QED BY <2>1 DEF Skipped, Loaded
<1>4. resident = UNION {StageWeights(u) : u \in L}
  BY DEF AccountInv, Kept
<1>5. resident' = IF Skipped(s, t) THEN resident ELSE resident \cup StageWeights(s)
  BY DEF RunStage
<1>6. L' = {u \in Stages : Loaded(u)'}
  OBVIOUS
<1>7. L' = IF Skipped(s, t) THEN L ELSE L \cup {s}
  BY <1>1, <1>2, <1>3, <1>6
<1>8. Kept' <=> resident' = UNION {StageWeights(u) : u \in L'}
  BY DEF Kept
<1> HIDE DEF L, t
<1> QED BY <1>4, <1>5, <1>7, <1>8

LEMMA TallyRun ==
  ASSUME AccountInv, NEW s \in Stages, RunStage(s)
  PROVE  acct' = Tally'
<1> DEFINE n == Done(s)
           k == Count(KvStages)
           w == Cardinality(Reads)
           c == Count(CsStages)
           l == Cardinality(Late(CsStages))
           m == Count(Mlps)
           p == Count(Projections)
           x == Count(Mixes)
           e == Count(Embeds)
           b == Prior + Weighed(resident) * Bf16
           v == MapThenSumSet(Params, StageWeights(s) \ resident)
<1>1. /\ IInv /\ TypeOK /\ Kept /\ acct = Tally
  BY DEF AccountInv, IInv
<1>2. n \in Nat /\ (s \notin Projections => ~Skipped(s, n + 1))
  BY RunFact
<1>3. acct' = IF Skipped(s, n + 1) THEN acct ELSE Charge(s, n + 1)
  BY DEF RunStage
<1>4. resident' = IF Skipped(s, n + 1) THEN resident ELSE resident \cup StageWeights(s)
  BY DEF RunStage
<1>5. Prior' = Prior
  <2>1. plan' = plan /\ horizon' = horizon
    BY RunFact
  <2> QED BY <2>1 DEF Prior, PassBytes
<1>6. acct = TallyOf(k, w, c, l, m, p, x, e, b)
  BY <1>1 DEF Tally
<1>7. Tally' = TallyOf(k', w', c', l', m', p', x', e', b')
  BY DEF Tally
<1>8. /\ k \in Nat /\ w \in Nat /\ c \in Nat /\ l \in Nat /\ m \in Nat /\ p \in Nat
      /\ x \in Nat /\ e \in Nat
  BY ChargedPairs, ReadsRun, LateRun, ClassSets
<1>9. /\ \A S \in SUBSET Stages :
            Count(S)' = IF s \in S /\ ~Skipped(s, n + 1) THEN Count(S) + 1 ELSE Count(S)
      /\ w' = IF s \in KvStages THEN w + n ELSE w
      /\ l' = IF s \in CsStages /\ n + 1 > 1 THEN l + 1 ELSE l
  BY CountRun, ReadsRun, LateRun
<1>10. /\ k' = IF s \in KvStages /\ ~Skipped(s, n + 1) THEN k + 1 ELSE k
       /\ c' = IF s \in CsStages /\ ~Skipped(s, n + 1) THEN c + 1 ELSE c
       /\ m' = IF s \in Mlps /\ ~Skipped(s, n + 1) THEN m + 1 ELSE m
       /\ p' = IF s \in Projections /\ ~Skipped(s, n + 1) THEN p + 1 ELSE p
       /\ x' = IF s \in Mixes /\ ~Skipped(s, n + 1) THEN x + 1 ELSE x
       /\ e' = IF s \in Embeds /\ ~Skipped(s, n + 1) THEN e + 1 ELSE e
  BY <1>9, ClassSets
<1>11. CASE Skipped(s, n + 1)
  <2>1. s \notin KvStages /\ s \notin CsStages
    BY <1>2, <1>11, ClassFact
  <2>2. /\ k' = k /\ w' = w /\ c' = c /\ l' = l /\ m' = m /\ p' = p /\ x' = x /\ e' = e
    BY <1>9, <1>10, <1>11, <2>1
  <2>3. b' = b
    BY <1>4, <1>5, <1>11
  <2> HIDE DEF n, k, w, c, l, m, p, x, e, b
  <2> QED BY <1>3, <1>6, <1>7, <1>11, <2>2, <2>3
<1>12. CASE ~Skipped(s, n + 1)
  <2> DEFINE dw == IF s \in KvStages THEN n ELSE 0
             dl == IF s \in CsStages /\ n + 1 > 1 THEN 1 ELSE 0
             dk == Tick(s, KvStages)
             dc == Tick(s, CsStages)
             dm == Tick(s, Mlps)
             dp == Tick(s, Projections)
             dx == Tick(s, Mixes)
             de == Tick(s, Embeds)
  <2>1. s \in KvStages => Len(kv[s]) = n
    BY <1>1, KvLength
  <2>2. acct' = Plus(acct, TallyOf(dk, dw, dc, dl, dm, dp, dx, de, v * Bf16))
    <3>1. Charge(s, n + 1) = Plus(acct, TallyOf(dk, dw, dc, dl, dm, dp, dx, de, v * Bf16))
      <4> HIDE DEF n
      <4> QED BY <1>2, <2>1, ChargeFact
    <3> QED BY <1>3, <1>12, <3>1
  <2>3. b' = b + v * Bf16
    <3>1. /\ resident \in SUBSET Weights /\ Weighed(resident) \in Int
      BY <1>1, ResidentFact
    <3>2. v \in Int /\ Weighed(resident \cup StageWeights(s)) = Weighed(resident) + v
      BY <3>1, LoadFact
    <3>3. Prior \in Int /\ Bf16 = 2
      BY <1>1, PriorFact, CostsFact
    <3>4. b' = Prior' + Weighed(resident') * Bf16
      BY DEF Weighed, Of, Bf16
    <3>5. b' = Prior + Weighed(resident \cup StageWeights(s)) * Bf16
      BY <1>4, <1>5, <1>12, <3>4
    <3> HIDE DEF v
    <3> QED BY <3>1, <3>2, <3>3, <3>5
  <2>4. /\ k' = k + dk /\ c' = c + dc /\ m' = m + dm /\ p' = p + dp /\ x' = x + dx
        /\ e' = e + de
    <3> HIDE DEF n, k, c, m, p, x, e
    <3> QED BY <1>8, <1>10, <1>12 DEF Tick
  <2>5. w' = w + dw /\ l' = l + dl
    <3> HIDE DEF w, l, n
    <3> QED BY <1>8, <1>9
  <2>6. /\ dk \in Int /\ dw \in Int /\ dc \in Int /\ dl \in Int /\ dm \in Int /\ dp \in Int
        /\ dx \in Int /\ de \in Int
    BY <1>2 DEF Tick
  <2> DEFINE more == v * Bf16
  <2> HIDE DEF n, k, w, c, l, m, p, x, e, b, v, dk, dw, dc, dl, dm, dp, dx, de
  <2>7. /\ k \in Int /\ w \in Int /\ c \in Int /\ l \in Int /\ m \in Int /\ p \in Int
        /\ x \in Int /\ e \in Int
    BY <1>8
  <2>8. b' = b + more /\ acct' = Plus(acct, TallyOf(dk, dw, dc, dl, dm, dp, dx, de, more))
    BY <2>2, <2>3
  <2> HIDE DEF more
  <2>9. TallyOf(k + dk, w + dw, c + dc, l + dl, m + dm, p + dp, x + dx, e + de, b + more)
          = Plus(TallyOf(k, w, c, l, m, p, x, e, b),
                 TallyOf(dk, dw, dc, dl, dm, dp, dx, de, more))
    BY <2>6, <2>7, TallyAdd
  <2>10. Tally' = TallyOf(k + dk, w + dw, c + dc, l + dl, m + dm, p + dp, x + dx, e + de,
                         b + more)
    BY <1>7, <2>4, <2>5, <2>8
  <2> QED BY <1>6, <2>8, <2>9, <2>10
<1> QED BY <1>11, <1>12

-----------------------------------------------------------------------------
(* A prompt or a step that is complete.                                      *)

LEMMA ClassSizes ==
  /\ Cardinality(KvStages) = NFull + 1 /\ Cardinality(CsStages) = NLinear
  /\ Cardinality(Mlps) = NLayers + 1 /\ Cardinality(Projections) = 2
  /\ Cardinality(Mixes) = 1 /\ Cardinality(Embeds) = 2
  /\ Cardinality({WLm}) = 1
<1>1. ASSUME NEW kind, NEW L \in SUBSET Layers
      PROVE  IsFiniteSet({kind} \X L) /\ Cardinality({kind} \X L) = Cardinality(L)
  <2>1. IsFiniteSet(L) /\ Cardinality(L) \in Nat
    BY FiniteFact, FS_Subset, FS_CardinalityType
  <2>2. IsFiniteSet({kind}) /\ Cardinality({kind}) = 1
    BY FS_Singleton
  <2>3. IsFiniteSet({kind} \X L) /\ Cardinality({kind} \X L) = Cardinality({kind}) * Cardinality(L)
    BY <2>1, <2>2, FS_Product
  <2> QED BY <2>1, <2>2, <2>3
<1>2. Cardinality(KvStages) = NFull + 1
  <2> DEFINE F == {"language_mixer"} \X FullLayers
             x == Only("mtp_mixer")
  <2>1. IsFiniteSet(F) /\ Cardinality(F) = NFull
    BY <1>1, SizeFact DEF NFull
  <2>2. x \notin F /\ KvStages = F \cup {x}
    BY DEF KvStages, Mixer, Only
  <2> HIDE DEF F, x
  <2> QED BY <2>1, <2>2, FS_AddElement
<1>3. Cardinality(CsStages) = NLinear
  <2>1. CsStages = {"language_mixer"} \X LinearLayers
    BY DEF CsStages, Mixer
  <2> QED BY <1>1, <2>1, SizeFact DEF NLinear
<1>4. Cardinality(Mlps) = NLayers + 1
  <2> DEFINE F == {"language_mlp"} \X Layers
             x == Only("mtp_mlp")
  <2>1. IsFiniteSet(F) /\ Cardinality(F) = NLayers
    BY <1>1, FiniteFact
  <2>2. x \notin F
    BY DEF Only
  <2>3. Mlps = F \cup {x}
    BY DEF Mlps, Stages, LoopKinds, SingleKinds, Only
  <2> HIDE DEF F, x
  <2> QED BY <2>1, <2>2, <2>3, FS_AddElement
<1>5. ASSUME NEW a, NEW b, a # b PROVE Cardinality({a, b}) = 2
  <2>1. IsFiniteSet({a}) /\ Cardinality({a}) = 1 /\ b \notin {a}
    BY <1>5, FS_Singleton
  <2>2. Cardinality({a} \cup {b}) = 1 + 1
    BY <2>1, FS_AddElement
  <2>3. {a, b} = {a} \cup {b}
    OBVIOUS
  <2> QED BY <2>2, <2>3
<1>6. Only("lm_head_primary") # Only("lm_head_mtp")
      /\ Only("embed_current") # Only("embed_next")
  BY DEF Only
<1>7. Cardinality(Projections) = 2 /\ Cardinality(Embeds) = 2
  BY <1>5, <1>6 DEF Projections, Embeds
<1>8. Cardinality(Mixes) = 1 /\ Cardinality({WLm}) = 1
  BY FS_Singleton DEF Mixes
<1> QED BY <1>2, <1>3, <1>4, <1>7, <1>8

LEMMA ProductSize ==
  ASSUME NEW S \in SUBSET Stages, NEW a \in Nat, NEW b \in Nat, a <= b + 1
  PROVE  /\ IsFiniteSet(S \X (a .. b))
         /\ Cardinality(S \X (a .. b)) = Cardinality(S) * ((b + 1) - a)
<1>1. IsFiniteSet(S)
  BY FiniteFact
<1>2. IsFiniteSet(a .. b) /\ Cardinality(a .. b) = (b + 1) - a
  BY FS_Interval
<1>3. Cardinality(S \X (a .. b)) = Cardinality(S) * Cardinality(a .. b)
      /\ IsFiniteSet(S \X (a .. b))
  BY <1>1, <1>2, FS_Product
<1> QED BY <1>2, <1>3

LEMMA EndCharges ==
  ASSUME AccountInv, Complete, horizon >= plan.prompt
  PROVE  /\ Base \in Nat /\ Base < horizon /\ horizon \in 1 .. MaxT
         /\ \A s \in Stages \ Projections : \A t \in 1 .. MaxT :
               Charges(s, t) <=> t \in Base + 1 .. horizon
         /\ \A s \in Projections : \A t \in 1 .. MaxT :
               Charges(s, t) <=>
                  t \in (IF plan.last /\ horizon = plan.prompt THEN horizon ELSE Base + 1)
                           .. horizon
<1>1. /\ Base \in Nat /\ Base < horizon /\ horizon \in 1 .. MaxT /\ plan.prompt \in 1 .. MaxT
      /\ plan.last \in BOOLEAN /\ MaxT \in Nat
  BY BaseFact, PlanFact DEF AccountInv, IInv
<1>2. \A s \in Stages : Done(s) = horizon
  BY DEF Complete
<1>3. ASSUME NEW s \in Stages \ Projections, NEW t \in 1 .. MaxT
      PROVE  Charges(s, t) <=> t \in Base + 1 .. horizon
  <2>1. ~Skipped(s, t)
    BY DEF Skipped
  <2> QED BY <1>1, <1>2, <2>1 DEF Charges
<1>4. ASSUME NEW s \in Projections, NEW t \in 1 .. MaxT
      PROVE  Charges(s, t) <=>
                t \in (IF plan.last /\ horizon = plan.prompt THEN horizon ELSE Base + 1)
                         .. horizon
  <2>1. Charges(s, t) <=> Base < t /\ t <= horizon /\ ~(plan.last /\ t < plan.prompt)
    BY <1>2, ClassSets DEF Charges, Skipped
  <2>2. CASE plan.last /\ horizon = plan.prompt
    BY <1>1, <2>1, <2>2
  <2>3. CASE ~plan.last
    BY <1>1, <2>1, <2>3
  <2>4. CASE horizon # plan.prompt
    <3>1. horizon > plan.prompt /\ Base = horizon - 1
      BY <1>1, <2>4 DEF Base
    <3> QED BY <1>1, <2>1, <2>4, <3>1
  <2> QED BY <2>2, <2>3, <2>4
<1> QED BY <1>1, <1>3, <1>4

LEMMA EndCount ==
  ASSUME AccountInv, Complete, horizon >= plan.prompt
  PROVE  /\ \A S \in SUBSET (Stages \ Projections) :
               /\ Charged(S) = S \X (Base + 1 .. horizon)
               /\ Count(S) = Cardinality(S) * (horizon - Base)
         /\ Count(Projections)
               = 2 * (IF plan.last /\ horizon = plan.prompt THEN 1 ELSE horizon - Base)
<1>1. Base \in Nat /\ Base < horizon /\ horizon \in 1 .. MaxT /\ MaxT \in Nat
  BY EndCharges, SizeFact
<1>2. ASSUME NEW S \in SUBSET (Stages \ Projections)
      PROVE  /\ Charged(S) = S \X (Base + 1 .. horizon)
             /\ Count(S) = Cardinality(S) * (horizon - Base)
  <2>1. \A s \in S : \A t \in 1 .. MaxT : Charges(s, t) <=> t \in Base + 1 .. horizon
    BY EndCharges
  <2>2. Base + 1 .. horizon \subseteq 1 .. MaxT
    BY <1>1
  <2>3. Charged(S) = S \X (Base + 1 .. horizon)
    BY <2>1, <2>2 DEF Charged
  <2>4. Cardinality(S \X (Base + 1 .. horizon))
            = Cardinality(S) * ((horizon + 1) - (Base + 1))
    <3>1. Base + 1 \in Nat /\ horizon \in Nat /\ Base + 1 <= horizon + 1
      BY <1>1
    <3> QED BY <3>1, ProductSize
  <2>5. (horizon + 1) - (Base + 1) = horizon - Base
    BY <1>1
  <2> QED BY <2>3, <2>4, <2>5 DEF Count
<1>3. Count(Projections)
         = 2 * (IF plan.last /\ horizon = plan.prompt THEN 1 ELSE horizon - Base)
  <2> DEFINE a == IF plan.last /\ horizon = plan.prompt THEN horizon ELSE Base + 1
  <2>1. \A s \in Projections : \A t \in 1 .. MaxT : Charges(s, t) <=> t \in a .. horizon
    BY EndCharges
  <2>2. a .. horizon \subseteq 1 .. MaxT /\ a \in Nat /\ a <= horizon + 1
    BY <1>1
  <2>3. (horizon + 1) - a = IF plan.last /\ horizon = plan.prompt THEN 1 ELSE horizon - Base
    BY <1>1
  <2> HIDE DEF a
  <2>4. Charged(Projections) = Projections \X (a .. horizon)
    BY <2>1, <2>2 DEF Charged
  <2>5. Cardinality(Projections \X (a .. horizon)) = Cardinality(Projections) * ((horizon + 1) - a)
    <3>1. horizon \in Nat /\ Projections \in SUBSET Stages
      BY <1>1, ClassSets
    <3> QED BY <2>2, <3>1, ProductSize
  <2> QED BY <2>3, <2>4, <2>5, ClassSizes DEF Count
<1> QED BY <1>2, <1>3

LEMMA EndLate ==
  ASSUME AccountInv, Complete, horizon >= plan.prompt
  PROVE  Cardinality(Late(CsStages))
            = NLinear * (IF horizon > plan.prompt THEN 1 ELSE horizon - 1)
<1> DEFINE a == IF horizon > plan.prompt THEN horizon ELSE 2
<1>1. /\ Base \in Nat /\ Base < horizon /\ horizon \in 1 .. MaxT /\ MaxT \in Nat
      /\ plan.prompt \in 1 .. MaxT
  BY EndCharges, PlanFact DEF AccountInv, IInv
<1>2. Base = IF horizon > plan.prompt THEN horizon - 1 ELSE 0
  BY DEF Base
<1>3. /\ \A t \in Base + 1 .. horizon : t > 1 <=> t \in a .. horizon
      /\ a .. horizon \subseteq Base + 1 .. horizon /\ a \in Nat /\ a <= horizon + 1
      /\ (horizon + 1) - a = IF horizon > plan.prompt THEN 1 ELSE horizon - 1
  BY <1>1, <1>2
<1> HIDE DEF a
<1>4. Charged(CsStages) = CsStages \X (Base + 1 .. horizon)
  BY EndCount, CarrierFact
<1>5. Late(CsStages) = CsStages \X (a .. horizon)
  BY <1>3, <1>4 DEF Late
<1>6. Cardinality(CsStages \X (a .. horizon)) = Cardinality(CsStages) * ((horizon + 1) - a)
  <2>1. horizon \in Nat /\ CsStages \in SUBSET Stages
    BY <1>1, ClassSets
  <2> QED BY <1>3, <2>1, ProductSize
<1> QED BY <1>3, <1>5, <1>6, ClassSizes

\* What the keys of S read over n positions, each all those before it.
Triangle(S, n) == {q \in (S \X (1 .. n)) \X (1 .. n) : q[2] < q[1][2]}

LEMMA TriangleSize ==
  ASSUME NEW S \in SUBSET Stages, NEW N \in Nat
  PROVE  /\ IsFiniteSet(Triangle(S, N)) /\ Cardinality(Triangle(S, N)) \in Nat
         /\ 2 * Cardinality(Triangle(S, N)) = Cardinality(S) * (N * (N - 1))
<1> DEFINE c == Cardinality(S)
           Size(n) == Cardinality(Triangle(S, n))
           Bad == {n \in Nat : ~(2 * Size(n) = c * (n * (n - 1)))}
<1>0. c \in Nat /\ IsFiniteSet(S)
  BY FiniteFact, FS_CardinalityType
<1>1. ASSUME NEW n \in Nat
      PROVE  IsFiniteSet(Triangle(S, n)) /\ Size(n) \in Nat
  <2>1. IsFiniteSet(1 .. n)
    BY FS_Interval
  <2>2. IsFiniteSet(S \X (1 .. n))
    BY <1>0, <2>1, FS_Product
  <2>3. IsFiniteSet((S \X (1 .. n)) \X (1 .. n))
    BY <2>1, <2>2, FS_Product
  <2>4. IsFiniteSet(Triangle(S, n))
    BY <2>3, FS_Subset DEF Triangle
  <2> QED BY <2>4, FS_CardinalityType
<1>2. ASSUME NEW n \in Nat, n # 0
      PROVE  Size(n) = Size(n - 1) + c * (n - 1)
  <2> DEFINE new == (S \X {n}) \X (1 .. n - 1)
             T == Triangle(S, n)
             U == Triangle(S, n - 1)
  <2>1. IsFiniteSet(U) /\ Cardinality(U) \in Nat
    BY <1>1, <1>2
  <2>2. IsFiniteSet(new) /\ Cardinality(new) = c * (n - 1)
    <3>1. IsFiniteSet({n}) /\ Cardinality({n}) = 1
      BY FS_Singleton
    <3>2. IsFiniteSet(S \X {n}) /\ Cardinality(S \X {n}) = c * 1
      BY <1>0, <3>1, FS_Product
    <3>3. IsFiniteSet(1 .. n - 1) /\ Cardinality(1 .. n - 1) = n - 1
      BY <1>2, FS_Interval
    <3> DEFINE A == S \X {n}
               B == 1 .. n - 1
    <3>4. IsFiniteSet(A) /\ Cardinality(A) = c * 1 /\ IsFiniteSet(B) /\ Cardinality(B) = n - 1
      BY <3>2, <3>3
    <3>5. new = A \X B
      OBVIOUS
    <3> HIDE DEF A, B, new, c
    <3>6. IsFiniteSet(A \X B) /\ Cardinality(A \X B) = Cardinality(A) * Cardinality(B)
      BY <3>4, FS_Product
    <3> QED BY <1>0, <3>4, <3>5, <3>6
  <2>3. T = U \cup new
    <3>1. ASSUME NEW q \in T PROVE q \in U \cup new
      <4>1. /\ q \in (S \X (1 .. n)) \X (1 .. n) /\ q[2] < q[1][2]
        BY DEF Triangle
      <4>2. q[1] = <<q[1][1], q[1][2]>> /\ q = <<q[1], q[2]>> /\ q[1][1] \in S
            /\ q[1][2] \in 1 .. n /\ q[2] \in 1 .. n
        BY <4>1
      <4>3. CASE q[1][2] = n
        <5>1. q[2] \in 1 .. n - 1 /\ q[1] \in S \X {n}
          BY <4>1, <4>2, <4>3
        <5> QED BY <4>2, <5>1
      <4>4. CASE q[1][2] # n
        <5>1. q[2] \in 1 .. n - 1 /\ q[1][2] \in 1 .. n - 1
          BY <4>1, <4>2, <4>4
        <5>2. q[1] \in S \X (1 .. n - 1)
          BY <4>2, <5>1
        <5> QED BY <4>1, <4>2, <5>1, <5>2 DEF Triangle
      <4> QED BY <4>3, <4>4
    <3>2. ASSUME NEW q \in U PROVE q \in T
      <4>1. q \in (S \X (1 .. n - 1)) \X (1 .. n - 1) /\ q[2] < q[1][2]
        BY DEF Triangle
      <4>2. 1 .. n - 1 \subseteq 1 .. n
        OBVIOUS
      <4>3. q \in (S \X (1 .. n)) \X (1 .. n)
        BY <4>1, <4>2
      <4> QED BY <4>1, <4>3 DEF Triangle
    <3>3. ASSUME NEW q \in new PROVE q \in T
      <4>1. q[1] \in S \X {n} /\ q[1][2] = n /\ q[2] \in 1 .. n - 1 /\ q = <<q[1], q[2]>>
        OBVIOUS
      <4>2. q[1] \in S \X (1 .. n) /\ q[2] \in 1 .. n /\ q[2] < q[1][2]
        BY <1>2, <4>1
      <4>3. q \in (S \X (1 .. n)) \X (1 .. n)
        BY <4>1, <4>2
      <4> QED BY <4>2, <4>3 DEF Triangle
    <3> HIDE DEF T, U, new
    <3> QED BY <3>1, <3>2, <3>3
  <2>4. U \cap new = {}
    <3>1. \A q \in U : q[1][2] \in 1 .. n - 1
      BY DEF Triangle
    <3>2. \A q \in new : q[1][2] = n
      OBVIOUS
    <3> HIDE DEF U, new
    <3> QED BY <1>2, <3>1, <3>2
  <2>5. Size(n) = Cardinality(T) /\ Size(n - 1) = Cardinality(U)
    OBVIOUS
  <2> HIDE DEF T, U, new, Size, c
  <2>6. Cardinality(T) = Cardinality(U) + Cardinality(new) - Cardinality(U \cap new)
    BY <2>1, <2>2, <2>3, FS_Union
  <2>7. Cardinality(U \cap new) = 0
    BY <2>4, FS_EmptySet
  <2>8. c * (n - 1) \in Int
    BY <1>0
  <2> QED BY <2>1, <2>2, <2>5, <2>6, <2>7, <2>8
<1>3. CASE Bad = {}
  BY <1>1, <1>3
<1>4. CASE Bad # {}
  <2>1. PICK n \in Bad : \A m \in Bad : n <= m
    <3>1. Bad \subseteq Nat
      OBVIOUS
    <3> HIDE DEF Bad
    <3> QED BY <1>4, <3>1, LeastOf
  <2>2. n \in Nat /\ 2 * Size(n) # c * (n * (n - 1))
    BY <2>1
  <2>3. CASE n = 0
    <3>1. Triangle(S, n) = {}
      BY <2>3 DEF Triangle
    <3>2. Size(n) = 0
      BY <3>1, FS_EmptySet
    <3> HIDE DEF Size, c
    <3>3. c * (n * (n - 1)) = 0
      BY <1>0, <2>3
    <3> QED BY <2>2, <3>2, <3>3
  <2>4. CASE n # 0
    <3>1. n - 1 \in Nat /\ n - 1 \notin Bad
      <4>1. n - 1 \in Nat /\ ~(n <= n - 1)
        BY <2>2, <2>4
      <4> HIDE DEF Bad
      <4> QED BY <2>1, <4>1
    <3>2. 2 * Size(n - 1) = c * ((n - 1) * ((n - 1) - 1))
      BY <3>1
    <3>3. Size(n) = Size(n - 1) + c * (n - 1) /\ Size(n - 1) \in Nat
      BY <1>1, <1>2, <2>2, <2>4, <3>1
    <3> HIDE DEF Size, c, Bad
    <3>4. c * ((n - 1) * ((n - 1) - 1)) + 2 * (c * (n - 1)) = c * (n * (n - 1))
      BY <1>0, <2>2
    <3>5. c * (n - 1) \in Int
      BY <1>0, <2>2
    <3>6. 2 * Size(n) = 2 * Size(n - 1) + 2 * (c * (n - 1))
      BY <3>3, <3>5
    <3> QED BY <2>2, <3>2, <3>4, <3>6
  <2> QED BY <2>3, <2>4
<1> QED BY <1>3, <1>4

LEMMA EndReads ==
  ASSUME AccountInv, Complete, horizon >= plan.prompt
  PROVE  /\ Cardinality(Reads) \in Nat
         /\ horizon > plan.prompt => Cardinality(Reads) = (NFull + 1) * (horizon - 1)
         /\ horizon = plan.prompt =>
               2 * Cardinality(Reads) = (NFull + 1) * (horizon * (horizon - 1))
<1> DEFINE n == horizon
<1>1. /\ Base \in Nat /\ n \in Nat \ {0} /\ n <= MaxT /\ MaxT \in Nat
      /\ plan.prompt \in 1 .. MaxT
  BY EndCharges, PlanFact DEF AccountInv, IInv
<1>2. Base = IF horizon > plan.prompt THEN n - 1 ELSE 0
  BY DEF Base
<1>3. Charged(KvStages) = KvStages \X (Base + 1 .. n)
  BY EndCount, CarrierFact
<1>4. Reads = {q \in (KvStages \X (Base + 1 .. n)) \X (1 .. MaxT) : q[2] < q[1][2]}
  BY <1>3 DEF Reads
<1>5. CASE horizon > plan.prompt
  <2> DEFINE A == KvStages \X (n .. n)
             B == 1 .. n - 1
  <2>1. Base + 1 = n
    BY <1>1, <1>2, <1>5
  <2>2. Reads = A \X B
    <3>1. ASSUME NEW q \in Reads PROVE q \in A \X B
      <4>1. q \in (KvStages \X (n .. n)) \X (1 .. MaxT) /\ q[2] < q[1][2]
        BY <1>4, <2>1
      <4>2. q[1] \in A /\ q[1][2] = n /\ q[2] \in Nat /\ q[2] >= 1 /\ q = <<q[1], q[2]>>
        BY <1>1, <4>1
      <4>3. q[2] \in B
        BY <1>1, <4>1, <4>2
      <4> HIDE DEF A, B
      <4> QED BY <4>2, <4>3
    <3>2. ASSUME NEW q \in A \X B PROVE q \in Reads
      <4>1. q[1] \in A /\ q[2] \in B /\ q = <<q[1], q[2]>> /\ q[1][2] = n
        BY <1>1
      <4>2. q[2] \in 1 .. MaxT /\ q[2] < n
        BY <1>1, <4>1
      <4>3. q \in A \X (1 .. MaxT)
        BY <4>1, <4>2
      <4> QED BY <1>4, <2>1, <4>1, <4>2, <4>3
    <3> HIDE DEF A, B
    <3> QED BY <3>1, <3>2
  <2>3. IsFiniteSet(A) /\ Cardinality(A) = Cardinality(KvStages) * ((n + 1) - n)
    <3>1. n \in Nat /\ n <= n + 1 /\ KvStages \in SUBSET Stages
      BY <1>1, ClassSets
    <3> HIDE DEF n
    <3> QED BY <3>1, ProductSize
  <2>4. IsFiniteSet(B) /\ Cardinality(B) = n - 1
    BY <1>1, FS_Interval
  <2>5. Cardinality(KvStages) = NFull + 1 /\ NFull \in Nat
    BY ClassSizes, LayersFact
  <2> HIDE DEF A, B
  <2>6. Cardinality(A) = NFull + 1
    BY <1>1, <2>3, <2>5
  <2>7. Cardinality(A \X B) = Cardinality(A) * Cardinality(B)
    BY <2>3, <2>4, FS_Product
  <2>8. Cardinality(Reads) = (NFull + 1) * (n - 1)
    BY <2>2, <2>4, <2>6, <2>7
  <2>9. (NFull + 1) * (n - 1) \in Nat
    <3>1. n - 1 \in Nat /\ NFull + 1 \in Nat
      BY <1>1, <2>5
    <3> QED BY <3>1
  <2> QED BY <1>1, <1>5, <2>8, <2>9
<1>6. CASE horizon = plan.prompt
  <2>1. Base + 1 = 1
    BY <1>1, <1>2, <1>6
  <2>2. Reads = Triangle(KvStages, n)
    <3>1. ASSUME NEW q \in Reads PROVE q \in Triangle(KvStages, n)
      <4>1. q \in (KvStages \X (1 .. n)) \X (1 .. MaxT) /\ q[2] < q[1][2]
        BY <1>4, <2>1
      <4>2. q[1] \in KvStages \X (1 .. n) /\ q[2] \in 1 .. MaxT /\ q = <<q[1], q[2]>>
            /\ q[1][2] \in 1 .. n
        BY <4>1
      <4>3. q[2] \in 1 .. n
        BY <1>1, <4>1, <4>2
      <4>4. q \in (KvStages \X (1 .. n)) \X (1 .. n)
        BY <4>2, <4>3
      <4> QED BY <4>1, <4>4 DEF Triangle
    <3>2. ASSUME NEW q \in Triangle(KvStages, n) PROVE q \in Reads
      <4>1. q \in (KvStages \X (1 .. n)) \X (1 .. n) /\ q[2] < q[1][2]
        BY DEF Triangle
      <4>2. 1 .. n \subseteq 1 .. MaxT
        BY <1>1
      <4>3. q \in (KvStages \X (1 .. n)) \X (1 .. MaxT)
        BY <4>1, <4>2
      <4> QED BY <1>4, <2>1, <4>1, <4>3
    <3> QED BY <3>1, <3>2
  <2>3. Cardinality(KvStages) = NFull + 1 /\ n \in Nat /\ KvStages \in SUBSET Stages
    BY <1>1, ClassSizes, ClassSets
  <2> HIDE DEF n
  <2>4. /\ Cardinality(Triangle(KvStages, n)) \in Nat
        /\ 2 * Cardinality(Triangle(KvStages, n)) = Cardinality(KvStages) * (n * (n - 1))
    BY <2>3, TriangleSize
  <2>5. Cardinality(Reads) \in Nat /\ 2 * Cardinality(Reads) = (NFull + 1) * (n * (n - 1))
    BY <2>2, <2>3, <2>4
  <2>6. ~(n > plan.prompt) /\ n = horizon
    BY <1>1, <1>6 DEF n
  <2> QED BY <2>5, <2>6
<1> QED BY <1>1, <1>5, <1>6

-----------------------------------------------------------------------------
(* What a pass loads.                                                        *)

LEMMA WeightsOf ==
  ASSUME NEW s \in Stages
  PROVE  /\ StageWeights(s) = IF s \in Projections THEN {WLm, s}
                              ELSE IF s \in Embeds THEN {} ELSE {s}
<1>1. s \in Embeds => StageWeights(s) = {} /\ s \notin Projections
  BY ClassFact, EmbedCost
<1>2. s \in Projections => StageWeights(s) = {WLm, s}
  BY ProjectionCost
<1>3. s \notin Projections /\ s \notin Embeds => StageWeights(s) = {s}
  BY ClassFact, KvCost, CsCost, MlpCost, MixCost
<1> QED BY <1>1, <1>2, <1>3

LEMMA EndResident ==
  ASSUME AccountInv, Complete
  PROVE  resident = IF plan.last /\ horizon < plan.prompt
                    THEN Weights \ ({WLm} \cup Projections) ELSE Weights
<1> DEFINE L == {u \in Stages : Loaded(u)}
<1>1. \A s \in Stages : Done(s) = horizon
  BY DEF Complete
<1>2. PassBase < horizon
  BY BaseFact DEF AccountInv, IInv
<1>3. \A s \in Stages : Loaded(s) <=> ~(plan.last /\ s \in Projections /\ horizon < plan.prompt)
  BY <1>1, <1>2 DEF Loaded, Skipped
<1>4. \A w : w \in resident <=> \E s \in L : w \in StageWeights(s)
  BY DEF AccountInv, Kept
<1>5. Only("lm_head_primary") \in Projections /\ Projections \subseteq Stages
      /\ WLm \notin Stages /\ Projections \cap Embeds = {}
  BY ClassSets, ClassFact DEF Projections
<1>6. CASE plan.last /\ horizon < plan.prompt
  <2>1. L = Stages \ Projections
    BY <1>3, <1>6
  <2>2. \A w : w \in resident <=> w \in Stages /\ w \notin Projections /\ w \notin Embeds
    BY <1>4, <2>1, WeightsOf
  <2> QED BY <1>5, <1>6, <2>2 DEF Weights
<1>7. CASE ~(plan.last /\ horizon < plan.prompt)
  <2>1. L = Stages
    BY <1>3, <1>7
  <2>2. \A w : w \in resident <=> w = WLm \/ (w \in Stages /\ w \notin Embeds)
    <3>1. ASSUME NEW w \in resident PROVE w = WLm \/ (w \in Stages /\ w \notin Embeds)
      BY <1>4, <1>5, <2>1, WeightsOf
    <3>2. WLm \in resident
      BY <1>4, <1>5, <2>1, WeightsOf
    <3>3. ASSUME NEW w \in Stages, w \notin Embeds PROVE w \in resident
      BY <1>4, <2>1, <3>3, WeightsOf
    <3> QED BY <3>1, <3>2, <3>3
  <2> QED BY <1>7, <2>2 DEF Weights
<1> QED BY <1>6, <1>7

LEMMA WeighedAll ==
  /\ Weighed(Weights) * Bf16 = UniqueBytes
  /\ Weighed(Weights \ ({WLm} \cup Projections)) * Bf16 = UniqueBytes - HeadBytes
  /\ Weighed({}) = 0
<1> DEFINE R == Weights \ ({WLm} \cup Projections)
           V == Text.vocab_size * H
           F == FullParams
           L == LinParams
           M == MacMlp
           X == MacMtpFc
<1>1. /\ V \in Int /\ F \in Int /\ L \in Int /\ M \in Int /\ X \in Int /\ H \in Int
      /\ NFull \in Nat /\ NLinear \in Nat /\ NLayers = NFull + NLinear /\ Bf16 = 2
  BY WidthsFact, CostsFact, LayersFact
<1>2. /\ Projections \subseteq Weights /\ KvStages \subseteq Weights /\ CsStages \subseteq Weights
      /\ Mlps \subseteq Weights /\ Mixes \subseteq Weights /\ {WLm} \subseteq Weights
      /\ WLm \notin Stages
      /\ Projections \cap KvStages = {} /\ Projections \cap CsStages = {}
      /\ Projections \cap Mlps = {} /\ Projections \cap Mixes = {}
  BY ClassSets, ClassFact DEF Weights
<1>3. /\ Of(Weights, {WLm}) = 1 /\ Of(Weights, Projections) = 2
      /\ Of(Weights, KvStages) = NFull + 1 /\ Of(Weights, CsStages) = NLinear
      /\ Of(Weights, Mlps) = NLayers + 1 /\ Of(Weights, Mixes) = 1
  <2>1. ASSUME NEW S \in SUBSET Weights PROVE Of(Weights, S) = Cardinality(S)
    <3>1. Weights \cap S = S
      OBVIOUS
    <3> QED BY <3>1 DEF Of
  <2> QED BY <1>2, <2>1, ClassSizes
<1>4. /\ Of(R, {WLm}) = 0 /\ Of(R, Projections) = 0
      /\ Of(R, KvStages) = NFull + 1 /\ Of(R, CsStages) = NLinear
      /\ Of(R, Mlps) = NLayers + 1 /\ Of(R, Mixes) = 1
  <2>1. R \cap {WLm} = {} /\ R \cap Projections = {}
    OBVIOUS
  <2>2. /\ R \cap KvStages = KvStages /\ R \cap CsStages = CsStages
        /\ R \cap Mlps = Mlps /\ R \cap Mixes = Mixes
    BY <1>2, ClassSets
  <2> HIDE DEF R
  <2> QED BY <2>1, <2>2, ClassSizes, FS_EmptySet DEF Of
<1>5. \A S : Of({}, S) = 0
  <2>1. \A S : {} \cap S = {}
    OBVIOUS
  <2> QED BY <2>1, FS_EmptySet DEF Of
<1>6. UniqueBytes = (H + V + 2 * NLayers * H + NLinear * L + NFull * F + NLayers * M
                       + (X + 5 * H + F + M)) * 2
  <2>1. MtpParams = X + 5 * H + F + M
    <3>1. X = H * (2 * H) /\ M = 3 * Text.intermediate_size * H
      BY DEF MacMtpFc, MacMlp
    <3>2. MtpParams = H * (2 * H) + 5 * H + F + 3 * Text.intermediate_size * H
      BY Zenon DEF MtpParams
    <3> HIDE DEF X, M, F
    <3> QED BY <1>1, <3>1, <3>2
  <2>2. NLayers * 3 * Text.intermediate_size * H = NLayers * M
    <3>1. \A a, b, c \in Int : a * 3 * b * c = a * (3 * b * c)
      OBVIOUS
    <3>2. NLayers \in Int /\ Text.intermediate_size \in Int /\ H \in Int
      BY <1>1, WidthsFact
    <3>3. M = 3 * Text.intermediate_size * H
      BY DEF MacMlp
    <3> HIDE DEF M
    <3> QED BY <3>1, <3>2, <3>3
  <2> QED BY <1>1, <2>1, <2>2 DEF UniqueBytes
<1>7. HeadBytes = (V + 2 * H) * 2
  BY <1>1 DEF HeadBytes
<1>8. Weighed(Weights) = V * 1 + H * 2 + (F + H) * (NFull + 1) + (L + H) * NLinear
                           + (M + H) * (NLayers + 1) + (X + 2 * H) * 1
  BY <1>3 DEF Weighed
<1>9. Weighed(R) = V * 0 + H * 0 + (F + H) * (NFull + 1) + (L + H) * NLinear
                     + (M + H) * (NLayers + 1) + (X + 2 * H) * 1
  BY <1>4 DEF Weighed
<1>10. Weighed({}) = V * 0 + H * 0 + (F + H) * 0 + (L + H) * 0 + (M + H) * 0 + (X + 2 * H) * 0
  BY <1>5 DEF Weighed
<1> HIDE DEF R, V, F, L, M, X
<1>11. Weighed({}) = 0
  BY <1>1, <1>10
<1>12. Weighed(Weights) * 2 = UniqueBytes
  BY <1>1, <1>6, <1>8
<1>13. Weighed(R) * 2 = UniqueBytes - HeadBytes
  BY <1>1, <1>6, <1>7, <1>9
<1> QED BY <1>1, <1>11, <1>12, <1>13 DEF R

-----------------------------------------------------------------------------
(* The closed forms are the tallies of a whole prompt and of a whole step.   *)

LEMMA StepMac ==
  ASSUME NEW a \in Int, NEW b \in Int, NEW c \in Int, NEW m \in Int, NEW p \in Int,
         NEW x \in Int, NEW f \in Int, NEW l \in Int, NEW T \in Int
  PROVE  a * (f + 1) + b * ((f + 1) + (f + 1) * (T - 1)) + c * l + m * ((f + l) + 1)
            + p * 2 + x * 1
          = (l * c + f * a + (f + l) * m + p + (x + a + m + p)) + (f * b + b) * T
OBVIOUS

LEMMA ForcedSum ==
  ASSUME NEW h \in Int, NEW g \in Int, NEW z \in Int, NEW v \in Int, NEW f \in Int,
         NEW l \in Int
  PROVE  ((g + h) * 2) * (f + 1) + ((z + h) * 2) * l + (h * 2) * ((f + l) + 1) + (v * 2) * 2
          = (2 * (f + l) * h + f * g + l * z + v + 2 * h + g + v) * 2
OBVIOUS

LEMMA ResidualSum ==
  ASSUME NEW h \in Int, NEW f \in Int, NEW l \in Int
  PROVE  (h * 2) * ((f + 1) + l + ((f + l) + 1) + 1 + 2)
          = (1 + ((f + l) + 1) + ((f + l) - 1) + 1 + 1 + 1 + 1) * h * 2
OBVIOUS

LEMMA StateSums ==
  ASSUME NEW k \in Int, NEW f \in Int, NEW l \in Int, NEW T \in Int, NEW c \in Int,
         NEW s \in Int, NEW q \in Int, NEW h \in Int, NEW v \in Int
  PROVE  /\ k * ((f + 1) * (T - 1)) = ((f + 1) * k) * (T - 1)
         /\ k * (f + 1) = (f + 1) * k
         /\ (c + s) * l = l * c + l * s
         /\ (q * 2 + s) * l = l * q * 2 + l * s
         /\ (h * 2) * 2 = 2 * h * 2
         /\ (v * 2) * 2 = 2 * v * 2
OBVIOUS

LEMMA DecodeTally ==
  ASSUME NEW T \in Int
  PROVE  TallyOf(NFull + 1, (NFull + 1) * (T - 1), NLinear, NLinear, NLayers + 1, 2, 1, 2,
                 UniqueBytes) = DecodeAccount(T)
<1> DEFINE f == NFull
           l == NLinear
           a == MacFullProj
           b == MacAttnCoeff
           c == MacLinToken
           m == MacMlp
           p == MacLmHead
           x == MacMtpFc
           h == H
           v == Text.vocab_size
           g == GWidth
           z == ZWidth
           k == KvBytes
           cb == CBytes
           s == SBytes
           q == QkvWidth
           u == UniqueBytes
<1>1. /\ a \in Int /\ b \in Int /\ c \in Int /\ m \in Int /\ p \in Int /\ x \in Int /\ h \in Int
      /\ v \in Int /\ g \in Int /\ z \in Int /\ k \in Int /\ cb \in Int /\ s \in Int
      /\ q \in Int /\ f \in Int /\ l \in Int
  BY WidthsFact, CostsFact, LayersFact
<1>2. NLayers = f + l /\ MtpBlocks = 1
  BY LayersFact, PlanAssumption
<1>3. TallyOf(NFull + 1, (NFull + 1) * (T - 1), NLinear, NLinear, NLayers + 1, 2, 1, 2, u)
        = [mac |-> a * (f + 1) + b * ((f + 1) + (f + 1) * (T - 1)) + c * l
                     + m * ((f + l) + 1) + p * 2 + x * 1,
           loads |-> u, gather |-> (h * 2) * 2, kvRead |-> k * ((f + 1) * (T - 1)),
           kvWrite |-> k * (f + 1), csRead |-> (cb + s) * l, csWrite |-> (q * 2 + s) * l,
           residual |-> (h * 2) * ((f + 1) + l + ((f + l) + 1) + 1 + 2),
           logits |-> (v * 2) * 2,
           forced |-> ((g + h) * 2) * (f + 1) + ((z + h) * 2) * l + (h * 2) * ((f + l) + 1)
                        + (v * 2) * 2]
  <2> HIDE DEF u
  <2> QED BY <1>2, Zenon DEF TallyOf, Bf16
<1>4. DecodeMac(T) = (l * c + f * a + (f + l) * m + p + (x + a + m + p)) + (f * b + b) * T
  BY <1>2, Zenon DEF DecodeMac, MacC, MacA
<1>5. /\ GatherBytes = 2 * h * 2 /\ DecodeKvRead(T) = ((f + 1) * k) * (T - 1)
      /\ KvAll = (f + 1) * k /\ CReadAll + SAll = l * cb + l * s
      /\ CWriteAll + SAll = l * q * 2 + l * s /\ LogitsCut = 2 * v * 2
  BY <1>2, Zenon DEF GatherBytes, DecodeKvRead, KvAll, CReadAll, CWriteAll, SAll, LogitsCut, Bf16
<1>6. ResidualCut = (1 + ((f + l) + 1) + ((f + l) - 1) + 1 + 1 + 1 + 1) * h * 2
  BY <1>2, Zenon DEF ResidualCut, ResidualCrossings, Bf16
<1>7. ForcedComplete = (2 * (f + l) * h + f * g + l * z + v + 2 * h + g + v) * 2
  BY <1>2, Zenon DEF ForcedComplete, Bf16
<1> HIDE DEF f, l, a, b, c, m, p, x, h, v, g, z, k, cb, s, q, u
<1>8. a * (f + 1) + b * ((f + 1) + (f + 1) * (T - 1)) + c * l + m * ((f + l) + 1)
        + p * 2 + x * 1 = DecodeMac(T)
  BY <1>1, <1>4, StepMac
<1>9. ((g + h) * 2) * (f + 1) + ((z + h) * 2) * l + (h * 2) * ((f + l) + 1) + (v * 2) * 2
        = ForcedComplete
  BY <1>1, <1>7, ForcedSum
<1>10. (h * 2) * ((f + 1) + l + ((f + l) + 1) + 1 + 2) = ResidualCut
  BY <1>1, <1>6, ResidualSum
<1>11. /\ k * ((f + 1) * (T - 1)) = DecodeKvRead(T) /\ k * (f + 1) = KvAll
       /\ (cb + s) * l = CReadAll + SAll /\ (q * 2 + s) * l = CWriteAll + SAll
       /\ (h * 2) * 2 = GatherBytes /\ (v * 2) * 2 = LogitsCut
  BY <1>1, <1>5, StateSums
<1>12. DecodeAccount(T) =
         [mac |-> DecodeMac(T), loads |-> u, gather |-> GatherBytes,
          kvRead |-> DecodeKvRead(T), kvWrite |-> KvAll, csRead |-> CReadAll + SAll,
          csWrite |-> CWriteAll + SAll, residual |-> ResidualCut, logits |-> LogitsCut,
          forced |-> ForcedComplete]
  BY Zenon DEF DecodeAccount, u
<1>13. TallyOf(NFull + 1, (NFull + 1) * (T - 1), NLinear, NLinear, NLayers + 1, 2, 1, 2, u)
         = DecodeAccount(T)
  BY <1>3, <1>8, <1>9, <1>10, <1>11, <1>12, Zenon
<1> QED BY <1>13 DEF u

LEMMA HalfOf ==
  ASSUME NEW n \in Int, NEW d \in Int, d = 2 * n
  PROVE  d \div 2 = n
OBVIOUS

LEMMA PromptMac ==
  ASSUME NEW a \in Int, NEW b \in Int, NEW c \in Int, NEW m \in Int, NEW p \in Int,
         NEW x \in Int, NEW f \in Int, NEW l \in Int, NEW T \in Int, NEW R \in Int,
         2 * R = (f + 1) * (T * (T - 1)), NEW w \in Int
  PROVE  a * ((f + 1) * T) + b * ((f + 1) * T + R) + c * (l * T) + m * (((f + l) + 1) * T)
            + p * (2 * w) + x * (1 * T)
          = ((l * c + f * a + (f + l) * m + p + (x + a + m + p)) * T
               + ((f * b + b) * T * (T + 1)) \div 2) - 2 * (T - w) * p
<1> DEFINE Y == b * ((f + 1) * T + R)
           Z == (f * b + b) * T * (T + 1)
<1>1. Z = 2 * Y
  <2>1. Z = 2 * (b * ((f + 1) * T)) + b * ((f + 1) * (T * (T - 1)))
    OBVIOUS
  <2>2. 2 * Y = 2 * (b * ((f + 1) * T)) + b * (2 * R)
    OBVIOUS
  <2> QED BY <2>1, <2>2
<1>2. Y \in Int /\ Z \in Int
  OBVIOUS
<1>3. a * ((f + 1) * T) + c * (l * T) + m * (((f + l) + 1) * T) + p * (2 * w) + x * (1 * T)
        = (l * c + f * a + (f + l) * m + p + (x + a + m + p)) * T - 2 * (T - w) * p
  OBVIOUS
<1> DEFINE A == a * ((f + 1) * T)
           C == c * (l * T)
           M == m * (((f + l) + 1) * T)
           P == p * (2 * w)
           X == x * (1 * T)
           U == (l * c + f * a + (f + l) * m + p + (x + a + m + p)) * T
           V == 2 * (T - w) * p
<1>4. /\ A \in Int /\ C \in Int /\ M \in Int /\ P \in Int /\ X \in Int /\ U \in Int /\ V \in Int
  OBVIOUS
<1>5. A + C + M + P + X = U - V
  BY <1>3
<1> SUFFICES A + Y + C + M + P + X = (U + Z \div 2) - V
  OBVIOUS
<1> HIDE DEF Y, Z, A, C, M, P, X, U, V
<1>6. Z \div 2 = Y
  BY <1>1, <1>2, HalfOf
<1> QED BY <1>2, <1>4, <1>5, <1>6

LEMMA PromptForced ==
  ASSUME NEW h \in Int, NEW g \in Int, NEW z \in Int, NEW v \in Int, NEW f \in Int,
         NEW l \in Int, NEW T \in Int, NEW w \in Int
  PROVE  ((g + h) * 2) * ((f + 1) * T) + ((z + h) * 2) * (l * T)
            + (h * 2) * (((f + l) + 1) * T) + (v * 2) * (2 * w)
          = ((2 * (f + l) * h + f * g + l * z + v + 2 * h + g + v) * 2) * T
              - (T - w) * (2 * v * 2)
OBVIOUS

LEMMA PromptResidual ==
  ASSUME NEW h \in Int, NEW f \in Int, NEW l \in Int, NEW T \in Int
  PROVE  (h * 2) * ((f + 1) * T + l * T + ((f + l) + 1) * T + 1 * T + 2 * T)
          = ((1 + ((f + l) + 1) + ((f + l) - 1) + 1 + 1 + 1 + 1) * h * 2) * T
OBVIOUS

LEMMA PromptSums ==
  ASSUME NEW k \in Int, NEW f \in Int, NEW l \in Int, NEW T \in Int, NEW c \in Int,
         NEW s \in Int, NEW q \in Int, NEW h \in Int, NEW v \in Int, NEW w \in Int
  PROVE  /\ k * ((f + 1) * T) = ((f + 1) * k) * T
         /\ (c + s) * (l * (T - 1)) = (l * c + l * s) * (T - 1)
         /\ (q * 2 + s) * (l * T) = (l * q * 2 + l * s) * T
         /\ (h * 2) * (2 * T) = (2 * h * 2) * T
         /\ (v * 2) * (2 * w) = (2 * v * 2) * T - (T - w) * (2 * v * 2)
OBVIOUS

LEMMA PromptRead ==
  ASSUME NEW k \in Int, NEW f \in Int, NEW T \in Int, NEW R \in Int,
         2 * R = (f + 1) * (T * (T - 1))
  PROVE  (((f + 1) * k) * T * (T - 1)) \div 2 = k * R
<1> DEFINE Y == k * R
           Z == ((f + 1) * k) * T * (T - 1)
<1>1. Z = k * (2 * R)
  <2>1. Z = k * ((f + 1) * (T * (T - 1)))
    OBVIOUS
  <2> QED BY <2>1
<1>2. Z = 2 * Y /\ Y \in Int /\ Z \in Int
  BY <1>1
<1> SUFFICES Z \div 2 = Y
  OBVIOUS
<1> HIDE DEF Y, Z
<1> QED BY <1>2, HalfOf

\* What the plan takes the projections to share.
LEMMA HeadSum == MapThenSumSet(Params, {<<"W_lm", 0>>} \cup Projections) * Bf16 = HeadBytes
<1> DEFINE S == {<<"W_lm", 0>>} \cup Projections
           F == [w \in S |-> Params(w)]
           a == WLm
           b == Only("lm_head_primary")
           c == Only("lm_head_mtp")
<1>1. \A x : x \in S <=> x = a \/ x = b \/ x = c
  BY DEF Projections, WLm
<1>2. a # b /\ a # c /\ b # c
  BY DEF WLm, Only
<1>3. IsFiniteSet(S)
  <2>1. S \in SUBSET Weights
    <3>1. Projections \subseteq Stages \ Embeds
      BY ClassSets, ClassFact
    <3> QED BY <3>1 DEF Weights, WLm
  <2> QED BY <2>1, WeightsFinite
<1>4. F[a] = Text.vocab_size * H /\ F[b] = H /\ F[c] = H
  <2>1. Params(a) = Text.vocab_size * H
    <3>1. a \in Weights /\ a = WLm
      BY DEF Weights
    <3> HIDE DEF a
    <3> QED BY <3>1, ClassSets, WeightClass
  <2>2. b \in Projections /\ c \in Projections
    BY DEF Projections
  <2> HIDE DEF a, b, c
  <2>3. Params(b) = H /\ Params(c) = H
    BY <2>2, ProjectionCost
  <2> QED BY <1>1, <2>1, <2>3
<1>5. H \in Int /\ Text.vocab_size * H \in Int
  BY WidthsFact
<1> HIDE DEF F, a, b, c
<1>6. PICK t : Sums(F, S, t) /\ MapThenSumSet(Params, S) = t[S]
  BY <1>3, ParamsSum DEF F
<1> HIDE DEF S
<1>7. t[S] = F[a] + F[b] + F[c]
  <2>1. a \in S /\ b \in S /\ c \in S /\ F[a] \in Int /\ F[b] \in Int /\ F[c] \in Int
    BY <1>1, <1>4, <1>5
  <2> QED BY <1>1, <1>2, <1>6, <2>1, SumOfThree
<1>8. MapThenSumSet(Params, S) = Text.vocab_size * H + 2 * H
  BY <1>4, <1>5, <1>6, <1>7
<1> QED BY <1>8 DEF S, HeadBytes

\* The tally of a prompt of T tokens, w of them projected, that read R.
PromptOf(T, R, w, bytes) ==
    TallyOf((NFull + 1) * T, R, NLinear * T, NLinear * (T - 1), (NLayers + 1) * T,
            2 * w, 1 * T, 2 * T, bytes)

LEMMA PromptTally ==
  ASSUME NEW T \in Int, NEW R \in Int, 2 * R = (NFull + 1) * (T * (T - 1)), NEW w \in Int,
         w = IF plan.last THEN 1 ELSE T, NEW B,
         B = IF plan.mode = "token_serial"
             THEN T * UniqueBytes - (T - w) * HeadBytes ELSE UniqueBytes
  PROVE  PromptOf(T, R, w, B) = PlannedPrefill(T)
<1> DEFINE f == NFull
           l == NLinear
           a == MacFullProj
           b == MacAttnCoeff
           c == MacLinToken
           m == MacMlp
           p == MacLmHead
           x == MacMtpFc
           h == H
           v == Text.vocab_size
           g == GWidth
           z == ZWidth
           k == KvBytes
           cb == CBytes
           s == SBytes
           q == QkvWidth
           u == UniqueBytes
           head == MapThenSumSet(Params, {<<"W_lm", 0>>} \cup Projections) * Bf16
<1>1. /\ a \in Int /\ b \in Int /\ c \in Int /\ m \in Int /\ p \in Int /\ x \in Int /\ h \in Int
      /\ v \in Int /\ g \in Int /\ z \in Int /\ k \in Int /\ cb \in Int /\ s \in Int
      /\ q \in Int /\ f \in Int /\ l \in Int
  BY WidthsFact, CostsFact, LayersFact
<1>2. NLayers = f + l /\ MtpBlocks = 1
  BY LayersFact, PlanAssumption
<1>3. PromptOf(T, R, w, B)
        = [mac |-> a * ((f + 1) * T) + b * ((f + 1) * T + R) + c * (l * T)
                     + m * (((f + l) + 1) * T) + p * (2 * w) + x * (1 * T),
           loads |-> B, gather |-> (h * 2) * (2 * T), kvRead |-> k * R,
           kvWrite |-> k * ((f + 1) * T), csRead |-> (cb + s) * (l * (T - 1)),
           csWrite |-> (q * 2 + s) * (l * T),
           residual |-> (h * 2) * ((f + 1) * T + l * T + ((f + l) + 1) * T + 1 * T + 2 * T),
           logits |-> (v * 2) * (2 * w),
           forced |-> ((g + h) * 2) * ((f + 1) * T) + ((z + h) * 2) * (l * T)
                        + (h * 2) * (((f + l) + 1) * T) + (v * 2) * (2 * w)]
  BY <1>2, Zenon DEF PromptOf, TallyOf, Bf16
<1> DEFINE mac == (l * c + f * a + (f + l) * m + p + (x + a + m + p)) * T
                    + ((f * b + b) * T * (T + 1)) \div 2
           plain == [mac |-> mac, loads |-> u, gather |-> (2 * h * 2) * T,
                     kvRead |-> (((f + 1) * k) * T * (T - 1)) \div 2,
                     kvWrite |-> ((f + 1) * k) * T,
                     csRead |-> (l * cb + l * s) * (T - 1),
                     csWrite |-> (l * q * 2 + l * s) * T,
                     residual |-> ((1 + ((f + l) + 1) + ((f + l) - 1) + 1 + 1 + 1 + 1) * h * 2) * T,
                     logits |-> (2 * v * 2) * T,
                     forced |-> ((2 * (f + l) * h + f * g + l * z + v + 2 * h + g + v) * 2) * T]
<1>4. PrefillMac(T) = mac /\ PrefillMacLast(T) = mac - 2 * (T - 1) * p
  BY <1>2, Zenon DEF PrefillMacLast, PrefillMac, MacC, MacA
<1>5. /\ GatherBytes = 2 * h * 2 /\ KvAll = (f + 1) * k
      /\ CReadAll = l * cb /\ SAll = l * s /\ CWriteAll = l * q * 2 /\ LogitsCut = 2 * v * 2
  BY <1>2, Zenon DEF GatherBytes, KvAll, CReadAll, CWriteAll, SAll, LogitsCut, Bf16
<1>6. ResidualCut = (1 + ((f + l) + 1) + ((f + l) - 1) + 1 + 1 + 1 + 1) * h * 2
  BY <1>2, Zenon DEF ResidualCut, ResidualCrossings, Bf16
<1>7. ForcedComplete = (2 * (f + l) * h + f * g + l * z + v + 2 * h + g + v) * 2
  BY <1>2, Zenon DEF ForcedComplete, Bf16
<1>8. PrefillAccount(T) = plain
  BY <1>4, <1>5, <1>6, <1>7, Zenon DEF PrefillAccount, PrefillKvRead
<1>9. head = HeadBytes
  BY HeadSum
<1>10. plain.mac = mac /\ plain.loads = u /\ plain.logits = (2 * v * 2) * T
       /\ plain.forced = ((2 * (f + l) * h + f * g + l * z + v + 2 * h + g + v) * 2) * T
  OBVIOUS
<1>11. PlannedPrefill(T) =
         [PrefillAccount(T) EXCEPT
            !.mac = IF plan.last THEN PrefillMacLast(T) ELSE @,
            !.loads = IF plan.mode = "token_serial"
                      THEN T * @ - (IF plan.last THEN T - 1 ELSE 0) * head ELSE @,
            !.logits = @ - (IF plan.last THEN T - 1 ELSE 0) * LogitsCut,
            !.forced = @ - (IF plan.last THEN T - 1 ELSE 0) * LogitsCut]
  BY DEF PlannedPrefill
<1>12. (IF plan.last THEN T - 1 ELSE 0) = T - w
  OBVIOUS
<1>13. a * ((f + 1) * T) + b * ((f + 1) * T + R) + c * (l * T) + m * (((f + l) + 1) * T)
            + p * (2 * w) + x * (1 * T)
          = mac - 2 * (T - w) * p
  <2>1. 2 * R = (f + 1) * (T * (T - 1))
    OBVIOUS
  <2> HIDE DEF f, l, a, b, c, m, p, x
  <2>2. a * ((f + 1) * T) + b * ((f + 1) * T + R) + c * (l * T) + m * (((f + l) + 1) * T)
            + p * (2 * w) + x * (1 * T)
          = ((l * c + f * a + (f + l) * m + p + (x + a + m + p)) * T
               + ((f * b + b) * T * (T + 1)) \div 2) - 2 * (T - w) * p
    BY <1>1, <2>1, PromptMac
  <2> QED BY <2>2
<1>14. mac - 2 * (T - w) * p = IF plan.last THEN PrefillMacLast(T) ELSE mac
  <2>1. mac \in Int
    <3> DEFINE Z == (f * b + b) * T * (T + 1)
               U == (l * c + f * a + (f + l) * m + p + (x + a + m + p)) * T
    <3>1. U \in Int /\ Z \in Int
      <4> HIDE DEF f, l, a, b, c, m, p, x
      <4> QED BY <1>1
    <3>2. mac = U + Z \div 2
      OBVIOUS
    <3> HIDE DEF U, Z, mac
    <3> QED BY <3>1, <3>2
  <2>2. CASE plan.last
    <3>1. w = 1
      BY <2>2
    <3> HIDE DEF mac, p
    <3> QED BY <1>4, <2>2, <3>1
  <2>3. CASE ~plan.last
    <3>1. w = T
      BY <2>3
    <3>2. 2 * (T - w) * p = 0
      <4> HIDE DEF p
      <4> QED BY <1>1, <3>1
    <3> HIDE DEF mac, p
    <3> QED BY <2>1, <2>3, <3>2
  <2> QED BY <2>2, <2>3
<1> HIDE DEF f, l, a, b, c, m, p, x, h, v, g, z, k, cb, s, q, u, head, mac
<1>15. ((g + h) * 2) * ((f + 1) * T) + ((z + h) * 2) * (l * T)
            + (h * 2) * (((f + l) + 1) * T) + (v * 2) * (2 * w)
          = ((2 * (f + l) * h + f * g + l * z + v + 2 * h + g + v) * 2) * T
              - (T - w) * (2 * v * 2)
  BY <1>1, PromptForced
<1>16. (h * 2) * ((f + 1) * T + l * T + ((f + l) + 1) * T + 1 * T + 2 * T)
          = ((1 + ((f + l) + 1) + ((f + l) - 1) + 1 + 1 + 1 + 1) * h * 2) * T
  BY <1>1, PromptResidual
<1>17. /\ k * ((f + 1) * T) = ((f + 1) * k) * T
       /\ (cb + s) * (l * (T - 1)) = (l * cb + l * s) * (T - 1)
       /\ (q * 2 + s) * (l * T) = (l * q * 2 + l * s) * T
       /\ (h * 2) * (2 * T) = (2 * h * 2) * T
       /\ (v * 2) * (2 * w) = (2 * v * 2) * T - (T - w) * (2 * v * 2)
  BY <1>1, PromptSums
<1>18. (((f + 1) * k) * T * (T - 1)) \div 2 = k * R
  <2>1. 2 * R = (f + 1) * (T * (T - 1))
    BY DEF f
  <2> QED BY <1>1, <2>1, PromptRead
<1>19. PlannedPrefill(T) =
         [mac |-> mac - 2 * (T - w) * p, loads |-> B, gather |-> (2 * h * 2) * T,
          kvRead |-> (((f + 1) * k) * T * (T - 1)) \div 2, kvWrite |-> ((f + 1) * k) * T,
          csRead |-> (l * cb + l * s) * (T - 1), csWrite |-> (l * q * 2 + l * s) * T,
          residual |-> ((1 + ((f + l) + 1) + ((f + l) - 1) + 1 + 1 + 1 + 1) * h * 2) * T,
          logits |-> (2 * v * 2) * T - (T - w) * (2 * v * 2),
          forced |-> ((2 * (f + l) * h + f * g + l * z + v + 2 * h + g + v) * 2) * T
                       - (T - w) * (2 * v * 2)]
  <2> DEFINE M == mac - 2 * (T - w) * p
             L == (2 * v * 2) * T
             E == ((2 * (f + l) * h + f * g + l * z + v + 2 * h + g + v) * 2) * T
             d == (T - w) * LogitsCut
  <2>1. PlannedPrefill(T) =
          [plain EXCEPT !.mac = M, !.loads = B, !.logits = L - d, !.forced = E - d]
    <3>1. (IF plan.last THEN PrefillMacLast(T) ELSE plain.mac) = M
      BY <1>10, <1>14
    <3>2. (IF plan.mode = "token_serial" THEN T * plain.loads - (T - w) * head ELSE plain.loads)
            = B
      BY <1>9, <1>10 DEF u
    <3>3. plain.logits = L /\ plain.forced = E
      BY <1>10
    <3>4. PlannedPrefill(T) =
         [plain EXCEPT
            !.mac = IF plan.last THEN PrefillMacLast(T) ELSE @,
            !.loads = IF plan.mode = "token_serial" THEN T * @ - (T - w) * head ELSE @,
            !.logits = @ - (T - w) * LogitsCut,
            !.forced = @ - (T - w) * LogitsCut]
      <4> HIDE DEF plain
      <4> QED BY <1>8, <1>11, <1>12, Zenon
    <3> HIDE DEF plain, M, L, E
    <3> QED BY <3>1, <3>2, <3>3, <3>4
  <2>2. d = (T - w) * (2 * v * 2)
    BY <1>5
  <2> HIDE DEF M, L, E, d
  <2>3. PlannedPrefill(T) =
         [mac |-> M, loads |-> B, gather |-> (2 * h * 2) * T,
          kvRead |-> (((f + 1) * k) * T * (T - 1)) \div 2, kvWrite |-> ((f + 1) * k) * T,
          csRead |-> (l * cb + l * s) * (T - 1), csWrite |-> (l * q * 2 + l * s) * T,
          residual |-> ((1 + ((f + l) + 1) + ((f + l) - 1) + 1 + 1 + 1 + 1) * h * 2) * T,
          logits |-> L - d, forced |-> E - d]
    <3> DEFINE ga == (2 * h * 2) * T
               kr == (((f + 1) * k) * T * (T - 1)) \div 2
               kw == ((f + 1) * k) * T
               cr == (l * cb + l * s) * (T - 1)
               cw == (l * q * 2 + l * s) * T
               re == ((1 + ((f + l) + 1) + ((f + l) - 1) + 1 + 1 + 1 + 1) * h * 2) * T
    <3>1. plain = [mac |-> mac, loads |-> u, gather |-> ga, kvRead |-> kr, kvWrite |-> kw,
                   csRead |-> cr, csWrite |-> cw, residual |-> re, logits |-> L, forced |-> E]
      BY Zenon DEF L, E
    <3> DEFINE ld == L - d
               ed == E - d
    <3> HIDE DEF plain, ga, kr, kw, cr, cw, re, ld, ed
    <3>2. PlannedPrefill(T) =
            [plain EXCEPT !.mac = M, !.loads = B, !.logits = ld, !.forced = ed]
      BY <2>1, Zenon DEF ld, ed
    <3>3. PlannedPrefill(T) =
            [mac |-> M, loads |-> B, gather |-> ga, kvRead |-> kr, kvWrite |-> kw,
             csRead |-> cr, csWrite |-> cw, residual |-> re, logits |-> ld, forced |-> ed]
      BY <3>1, <3>2
    <3> QED BY <3>3, Zenon DEF ga, kr, kw, cr, cw, re, ld, ed
  <2> QED BY <2>2, <2>3 DEF M, L, E
<1> HIDE DEF plain
<1> QED BY <1>3, <1>13, <1>15, <1>16, <1>17, <1>18, <1>19, ZenonT(30)

LEMMA EndTally ==
  ASSUME AccountInv, Complete, horizon >= plan.prompt
  PROVE  acct = IF horizon > plan.prompt THEN DecodeAccount(horizon) ELSE PlannedPrefill(horizon)
<1> DEFINE T == horizon
           w == IF plan.last THEN 1 ELSE T
           b == Prior + Weighed(resident) * Bf16
<1>1. T \in Nat \ {0} /\ plan.prompt \in Nat /\ NFull \in Nat /\ NLinear \in Nat
      /\ NLayers \in Nat /\ plan.mode \in {"layer_serial", "token_serial"}
  BY PlanFact, LayersFact DEF AccountInv, IInv
<1>2. acct = TallyOf(Count(KvStages), Cardinality(Reads), Count(CsStages),
                     Cardinality(Late(CsStages)), Count(Mlps), Count(Projections),
                     Count(Mixes), Count(Embeds), b)
  BY DEF AccountInv, Tally
<1>3. Base = IF T > plan.prompt THEN T - 1 ELSE 0
  BY DEF Base
<1>4. /\ Count(KvStages) = (NFull + 1) * (T - Base) /\ Count(CsStages) = NLinear * (T - Base)
      /\ Count(Mlps) = (NLayers + 1) * (T - Base) /\ Count(Mixes) = 1 * (T - Base)
      /\ Count(Embeds) = 2 * (T - Base)
  <2>1. \A s \in Stages : /\ s \in KvStages => s \notin Projections
                          /\ s \in CsStages => s \notin Projections
                          /\ s \in Mlps => s \notin Projections
                          /\ s \in Mixes => s \notin Projections
                          /\ s \in Embeds => s \notin Projections
    BY ClassFact
  <2>2. /\ KvStages \in SUBSET (Stages \ Projections) /\ CsStages \in SUBSET (Stages \ Projections)
        /\ Mlps \in SUBSET (Stages \ Projections) /\ Mixes \in SUBSET (Stages \ Projections)
        /\ Embeds \in SUBSET (Stages \ Projections)
    BY <2>1, ClassSets
  <2>3. \A S \in SUBSET (Stages \ Projections) : Count(S) = Cardinality(S) * (T - Base)
    BY EndCount
  <2> HIDE DEF T
  <2>4. /\ Count(KvStages) = Cardinality(KvStages) * (T - Base)
        /\ Count(CsStages) = Cardinality(CsStages) * (T - Base)
        /\ Count(Mlps) = Cardinality(Mlps) * (T - Base)
        /\ Count(Mixes) = Cardinality(Mixes) * (T - Base)
        /\ Count(Embeds) = Cardinality(Embeds) * (T - Base)
    BY <2>2, <2>3
  <2> QED BY <2>4, ClassSizes
<1>5. Count(Projections) = 2 * (IF plan.last /\ T = plan.prompt THEN 1 ELSE T - Base)
  BY EndCount
<1>6. Cardinality(Late(CsStages)) = NLinear * (IF T > plan.prompt THEN 1 ELSE T - 1)
  BY EndLate
<1>7. /\ T > plan.prompt => Cardinality(Reads) = (NFull + 1) * (T - 1)
      /\ T = plan.prompt => 2 * Cardinality(Reads) = (NFull + 1) * (T * (T - 1))
      /\ Cardinality(Reads) \in Nat
  BY EndReads
<1>8. Weighed(resident) * Bf16 = UniqueBytes
  <2>1. ~(horizon < plan.prompt)
    BY <1>1
  <2>2. resident = Weights
    BY <2>1, EndResident
  <2> QED BY <2>2, WeighedAll
<1>9. CASE T > plan.prompt
  <2>1. T - Base = 1
    BY <1>1, <1>3, <1>9
  <2>2. b = UniqueBytes
    <3>1. Prior = 0
      BY <1>1, <1>9 DEF Prior
    <3> QED BY <1>8, <3>1, BytesFact
  <2>3. /\ Count(KvStages) = NFull + 1 /\ Count(CsStages) = NLinear
        /\ Count(Mlps) = NLayers + 1 /\ Count(Mixes) = 1 /\ Count(Embeds) = 2
        /\ Count(Projections) = 2 /\ Cardinality(Late(CsStages)) = NLinear
        /\ Cardinality(Reads) = (NFull + 1) * (T - 1)
    <3> HIDE DEF T
    <3> QED BY <1>1, <1>4, <1>5, <1>6, <1>7, <1>9, <2>1
  <2> HIDE DEF b, T
  <2>4. acct = TallyOf(NFull + 1, (NFull + 1) * (T - 1), NLinear, NLinear, NLayers + 1, 2, 1, 2,
                       UniqueBytes)
    BY <1>2, <2>2, <2>3, Zenon
  <2>5. TallyOf(NFull + 1, (NFull + 1) * (T - 1), NLinear, NLinear, NLayers + 1, 2, 1, 2,
                UniqueBytes) = DecodeAccount(T)
    <3>1. T \in Int
      BY <1>1
    <3> QED BY <3>1, DecodeTally, Zenon
  <2>6. acct = DecodeAccount(T)
    BY <2>4, <2>5, Zenon
  <2> QED BY <1>9, <2>6 DEF T
<1>10. CASE T = plan.prompt
  <2>1. T - Base = T /\ ~(T > plan.prompt)
    BY <1>1, <1>3, <1>10
  <2>2. b = IF plan.mode = "token_serial"
            THEN T * UniqueBytes - (T - w) * HeadBytes ELSE UniqueBytes
    <3> DEFINE u == UniqueBytes
               d == HeadBytes
    <3>1. u \in Int /\ d \in Int
      BY BytesFact
    <3>2. b = Prior + u
      BY <1>8
    <3>3. CASE plan.mode = "token_serial"
      <4>1. Prior = (T - 1) * (u - (IF plan.last THEN d ELSE 0))
        BY <1>1, <1>10, <3>3 DEF Prior, PassBytes
      <4> HIDE DEF u, d, b, T
      <4>2. CASE plan.last
        <5>1. w = 1
          BY <4>2
        <5>2. (T - 1) * (u - d) + u = T * u - (T - 1) * d
          BY <1>1, <3>1
        <5> QED BY <3>2, <3>3, <4>1, <4>2, <5>1, <5>2 DEF u, d
      <4>3. CASE ~plan.last
        <5>1. w = T
          BY <4>3
        <5>2. (T - 1) * (u - 0) + u = T * u - (T - T) * d
          BY <1>1, <3>1
        <5> QED BY <3>2, <3>3, <4>1, <4>3, <5>1, <5>2 DEF u, d
      <4> QED BY <4>2, <4>3
    <3>4. CASE plan.mode # "token_serial"
      <4>1. Prior = 0
        BY <3>4 DEF Prior
      <4> HIDE DEF b
      <4> QED BY <3>1, <3>2, <3>4, <4>1
    <3> QED BY <3>3, <3>4
  <2>3. /\ Count(KvStages) = (NFull + 1) * T /\ Count(CsStages) = NLinear * T
        /\ Count(Mlps) = (NLayers + 1) * T /\ Count(Mixes) = 1 * T /\ Count(Embeds) = 2 * T
        /\ Count(Projections) = 2 * w /\ Cardinality(Late(CsStages)) = NLinear * (T - 1)
        /\ 2 * Cardinality(Reads) = (NFull + 1) * (T * (T - 1))
    <3>1. (IF plan.last /\ T = plan.prompt THEN 1 ELSE T - Base) = w
      BY <1>10, <2>1
    <3> HIDE DEF T, w
    <3> QED BY <1>4, <1>5, <1>6, <1>7, <1>10, <2>1, <3>1
  <2>4. w \in Int /\ w = IF plan.last THEN 1 ELSE T
    BY <1>1
  <2> HIDE DEF b, T, w
  <2> DEFINE R == Cardinality(Reads)
  <2>5. T \in Int /\ R \in Int /\ 2 * R = (NFull + 1) * (T * (T - 1))
    BY <1>1, <1>7, <2>3
  <2>6. acct = PromptOf(T, R, w, b)
    BY <1>2, <2>3, Zenon DEF PromptOf
  <2> HIDE DEF R
  <2>7. PromptOf(T, R, w, b) = PlannedPrefill(T)
    BY <2>2, <2>4, <2>5, PromptTally
  <2>8. acct = PlannedPrefill(T)
    BY <2>6, <2>7, Zenon
  <2> QED BY <2>1, <2>8 DEF T
<1> QED BY <1>1, <1>9, <1>10

\* The state that has accumulated has the size the plans store.
LEMMA EndStorage ==
  ASSUME IInv, Complete
  PROVE  StorageBytes(horizon) =
            MapThenSumSet(LAMBDA s : Len(kv[s]) * KvBytes, KvStages)
              + Cardinality(CsStages) * (CBytes + SBytes)
<1> DEFINE k == horizon * KvBytes
           sum == MapThenSumSet(LAMBDA s : Len(kv[s]) * KvBytes, KvStages)
<1>1. horizon \in Nat /\ KvBytes \in Int /\ k \in Int
  <2>1. horizon \in Nat /\ KvBytes \in Int
    BY CostsFact, PlanFact DEF IInv
  <2> QED BY <2>1
<1>2. \A s \in KvStages : Len(kv[s]) * KvBytes = k
  <2>1. ASSUME NEW s \in KvStages PROVE Len(kv[s]) * KvBytes = k
    <3>1. Len(kv[s]) = Done(s)
      BY KvLength
    <3>2. Done(s) = horizon
      BY CarrierFact DEF Complete
    <3> QED BY <3>1, <3>2
  <2> QED BY <2>1
<1>3. IsFiniteSet(KvStages)
  BY FiniteFact, CarrierFact
<1> HIDE DEF k
<1>4. sum = Cardinality(KvStages) * k
  BY <1>1, <1>2, <1>3, StoredSum
<1>5. sum = (NFull + 1) * k /\ Cardinality(CsStages) = NLinear
  BY <1>4, ClassSizes
<1>6. StorageBytes(horizon) = ((NFull + 1) * KvBytes) * horizon + NLinear * CBytes + NLinear * SBytes
  BY PlanAssumption, Zenon DEF StorageBytes, KvAll, CReadAll, SAll
<1>7. NFull \in Int /\ NLinear \in Int /\ CBytes \in Int /\ SBytes \in Int
  BY LayersFact, CostsFact
<1>8. \A f, b, n, l, c, s \in Int :
         (f * b) * n + l * c + l * s = f * (n * b) + l * (c + s)
  OBVIOUS
<1>9. StorageBytes(horizon) = (NFull + 1) * k + NLinear * (CBytes + SBytes)
  BY <1>1, <1>6, <1>7, <1>8 DEF k
<1> HIDE DEF sum
<1>10. StorageBytes(horizon) = sum + Cardinality(CsStages) * (CBytes + SBytes)
  BY <1>5, <1>9
<1> QED BY <1>10 DEF sum

-----------------------------------------------------------------------------
(* The account invariant.                                                    *)

\* An account that has just been opened.
Opened == TypeOK /\ Prior = 0 /\ resident = {} /\ \A s \in Stages : Done(s) <= Base

LEMMA NothingCharged == Opened => Tally = NoAccount
<1> SUFFICES ASSUME Opened PROVE Tally = NoAccount
  OBVIOUS
<1>1. \A S \in SUBSET Stages : Charged(S) = {}
  <2>1. ASSUME NEW s \in Stages, NEW t \in 1 .. MaxT PROVE ~Charges(s, t)
    <3>1. Done(s) \in Nat /\ Base \in Nat /\ Done(s) <= Base
      BY DoneFact, BaseFact DEF Opened
    <3> QED BY <3>1 DEF Charges
  <2> QED BY <2>1 DEF Charged
<1>2. \A S \in SUBSET Stages : Count(S) = 0
  BY <1>1, FS_EmptySet DEF Count
<1>3. Late(CsStages) = {} /\ Reads = {}
  BY <1>1, ClassSets DEF Late, Reads
<1>4. /\ Count(KvStages) = 0 /\ Count(CsStages) = 0 /\ Count(Mlps) = 0 /\ Count(Projections) = 0
      /\ Count(Mixes) = 0 /\ Count(Embeds) = 0
      /\ Cardinality(Late(CsStages)) = 0 /\ Cardinality(Reads) = 0
  BY <1>2, <1>3, ClassSets, FS_EmptySet
<1>5. Prior + Weighed(resident) * Bf16 = 0
  BY WeighedAll, CostsFact DEF Opened
<1> DEFINE h == H * Bf16
           V == Text.vocab_size * Bf16
           g == (GWidth + H) * Bf16
           z == (ZWidth + H) * Bf16
           r == CBytes + SBytes
           q == QkvWidth * Bf16 + SBytes
<1>6. /\ h \in Int /\ V \in Int /\ g \in Int /\ z \in Int /\ r \in Int /\ q \in Int
      /\ KvBytes \in Int /\ MacFullProj \in Int /\ MacAttnCoeff \in Int
      /\ MacLinToken \in Int /\ MacMlp \in Int /\ MacLmHead \in Int /\ MacMtpFc \in Int
  BY WidthsFact, CostsFact
<1>7. Tally = [mac |-> MacFullProj * 0 + MacAttnCoeff * (0 + 0) + MacLinToken * 0
                    + MacMlp * 0 + MacLmHead * 0 + MacMtpFc * 0,
             loads |-> 0, gather |-> h * 0, kvRead |-> KvBytes * 0, kvWrite |-> KvBytes * 0,
             csRead |-> r * 0, csWrite |-> q * 0, residual |-> h * (0 + 0 + 0 + 0 + 0),
             logits |-> V * 0, forced |-> g * 0 + z * 0 + h * 0 + V * 0]
  BY <1>4, <1>5, Zenon DEF Tally, TallyOf
<1> HIDE DEF h, V, g, z, r, q
<1>8. /\ h * 0 = 0 /\ V * 0 = 0 /\ g * 0 = 0 /\ z * 0 = 0 /\ r * 0 = 0 /\ q * 0 = 0
      /\ KvBytes * 0 = 0 /\ MacFullProj * 0 = 0 /\ MacAttnCoeff * 0 = 0
      /\ MacLinToken * 0 = 0 /\ MacMlp * 0 = 0 /\ MacLmHead * 0 = 0 /\ MacMtpFc * 0 = 0
  BY <1>6, ByNought
<1> QED BY <1>7, <1>8 DEF NoAccount

LEMMA AccountInit == Init => AccountInv
<1> SUFFICES ASSUME Init PROVE AccountInv
  OBVIOUS
<1>1. IInv /\ TypeOK
  BY InitIsInductive DEF IInv
<1>2. \A s \in Stages : Done(s) = 0
  BY EmptySeq DEF Init, Done
<1>3. /\ horizon = IF plan.mode = "layer_serial" THEN plan.prompt ELSE 1
      /\ resident = {} /\ acct = NoAccount
  BY DEF Init
<1>4. Base \in Nat /\ PassBase = 0
  BY <1>1, <1>3, BaseFact, PlanFact DEF PassBase
<1>5. Paced
  <2>1. plan.prompt \in Nat
    BY <1>1, PlanFact
  <2> QED BY <1>2, <1>3, <1>4, <2>1 DEF Paced
<1>6. Kept
  BY <1>2, <1>3, <1>4 DEF Kept, Loaded
<1>7. Prior = 0
  <2>1. CASE plan.mode = "layer_serial"
    BY <2>1 DEF Prior
  <2>2. CASE plan.mode # "layer_serial"
    <3>1. horizon = 1 /\ PassBytes \in Int
      BY <1>3, <2>2, BytesFact
    <3> QED BY <3>1 DEF Prior
  <2> QED BY <2>1, <2>2
<1>8. \A s \in Stages : Done(s) <= Base
  BY <1>2, <1>4
<1> QED BY <1>1, <1>3, <1>5, <1>6, <1>7, <1>8, NothingCharged DEF AccountInv, Opened

\* The positions counted are a matter of what has been done, and since when.
LEMMA SameCharges ==
  ASSUME Base' = Base, plan' = plan, out' = out
  PROVE  /\ \A S : Charged(S)' = Charged(S) /\ Count(S)' = Count(S)
         /\ Late(CsStages)' = Late(CsStages) /\ Reads' = Reads
<1>1. \A s, t : Charges(s, t)' <=> Charges(s, t)
  BY DEF Charges, Done, Skipped
<1>2. ASSUME NEW S PROVE Charged(S)' = Charged(S) /\ Count(S)' = Count(S)
  <2>1. Charged(S)' = Charged(S)
    BY <1>1 DEF Charged
  <2> QED BY <2>1 DEF Count
<1>3. Late(CsStages)' = Late(CsStages)
  <2>1. Late(CsStages)' = {p \in Charged(CsStages)' : p[2] > 1}
    BY DEF Late
  <2> QED BY <1>2, <2>1 DEF Late
<1>4. Reads' = Reads
  <2>1. Reads' = {q \in Charged(KvStages)' \X (1 .. MaxT) : q[2] < q[1][2]}
    BY DEF Reads
  <2> QED BY <1>2, <2>1 DEF Reads
<1> QED BY <1>2, <1>3, <1>4

LEMMA PresentAccount ==
  ASSUME AccountInv, Present
  PROVE  AccountInv'
<1>1. /\ Complete /\ horizon' = horizon + 1 /\ resident' = {} /\ plan' = plan /\ out' = out
      /\ acct' = IF horizon < plan.prompt THEN acct ELSE NoAccount
  BY DEF Present
<1>2. IInv' /\ TypeOK'
  BY StepIsInductive DEF AccountInv, Next, IInv
<1>3. /\ horizon \in Nat \ {0} /\ plan.prompt \in Nat \ {0}
      /\ plan.mode \in {"layer_serial", "token_serial"}
  BY PlanFact DEF AccountInv, IInv
<1>4. \A s \in Stages : Done(s)' = horizon /\ Done(s) = horizon
  <2>1. \A s \in Stages : Done(s) = horizon
    BY <1>1 DEF Complete
  <2> QED BY <1>1, <2>1 DEF Done
<1>5. plan.mode = "layer_serial" => horizon >= plan.prompt
  BY DEF AccountInv, Paced
<1>6. PassBase' = horizon
  <2>1. PassBase' = IF plan.mode = "layer_serial" /\ horizon + 1 = plan.prompt THEN 0
                    ELSE (horizon + 1) - 1
    BY <1>1 DEF PassBase
  <2> QED BY <1>3, <1>5, <2>1
<1>7. Paced'
  <2>1. plan.mode = "layer_serial" => horizon + 1 >= plan.prompt
    BY <1>3, <1>5
  <2>2. \A s \in Stages : PassBase' <= Done(s)'
    BY <1>3, <1>4, <1>6
  <2> QED BY <1>1, <2>1, <2>2 DEF Paced
<1>8. Kept'
  <2>1. \A s \in Stages : ~Loaded(s)'
    <3>1. \A s \in Stages : ~(PassBase' < Done(s)')
      BY <1>3, <1>4, <1>6
    <3> QED BY <3>1 DEF Loaded
  <2>2. Kept' <=> resident' = UNION {StageWeights(s) : s \in {u \in Stages : Loaded(u)'}}
    BY DEF Kept
  <2> QED BY <1>1, <2>1, <2>2
<1>9. CASE horizon < plan.prompt
  <2>1. plan.mode = "token_serial" /\ horizon + 1 <= plan.prompt
    BY <1>3, <1>5, <1>9
  <2>2. Base' = Base
    <3>1. ~(horizon > plan.prompt) /\ ~(horizon + 1 > plan.prompt)
      BY <1>3, <1>9
    <3> QED BY <1>1, <3>1 DEF Base
  <2>3. Weighed(resident) * Bf16 = PassBytes
    <3>1. CASE plan.last
      <4>1. resident = Weights \ ({WLm} \cup Projections)
        BY <1>1, <1>9, <3>1, EndResident
      <4> QED BY <3>1, <4>1, WeighedAll DEF PassBytes
    <3>2. CASE ~plan.last
      <4>1. resident = Weights
        BY <1>1, <3>2, EndResident
      <4> QED BY <3>2, <4>1, WeighedAll, BytesFact DEF PassBytes
    <3> QED BY <3>1, <3>2
  <2>4. Prior = (horizon - 1) * PassBytes /\ Prior' = ((horizon + 1) - 1) * PassBytes
    <3>1. horizon <= plan.prompt
      BY <1>3, <1>9
    <3>2. PassBytes' = PassBytes
      BY <1>1 DEF PassBytes
    <3> QED BY <1>1, <2>1, <3>1, <3>2 DEF Prior
  <2>5. Prior' + Weighed(resident') * Bf16 = Prior + Weighed(resident) * Bf16
    <3>1. Weighed(resident') * Bf16 = 0
      BY <1>1, WeighedAll, CostsFact
    <3>2. PassBytes \in Int
      BY BytesFact
    <3> DEFINE d == PassBytes
    <3> HIDE DEF d
    <3>3. ((horizon + 1) - 1) * d + 0 = (horizon - 1) * d + d
      BY <1>3, <3>2 DEF d
    <3> QED BY <2>3, <2>4, <3>1, <3>3 DEF d
  <2>6. /\ Charged(KvStages)' = Charged(KvStages) /\ Count(KvStages)' = Count(KvStages)
        /\ Count(CsStages)' = Count(CsStages) /\ Count(Mlps)' = Count(Mlps)
        /\ Count(Projections)' = Count(Projections) /\ Count(Mixes)' = Count(Mixes)
        /\ Count(Embeds)' = Count(Embeds)
        /\ Late(CsStages)' = Late(CsStages) /\ Reads' = Reads
    BY <1>1, <2>2, SameCharges
  <2>7. Tally' = Tally
    <3>1. Tally' = TallyOf(Count(KvStages)', Cardinality(Reads)', Count(CsStages)',
            Cardinality(Late(CsStages))', Count(Mlps)', Count(Projections)', Count(Mixes)',
            Count(Embeds)', Prior' + Weighed(resident') * Bf16)
      BY DEF Tally, Weighed, Of, Bf16
    <3>2. Cardinality(Reads)' = Cardinality(Reads)
          /\ Cardinality(Late(CsStages))' = Cardinality(Late(CsStages))
      BY <2>6
    <3> QED BY <2>5, <2>6, <3>1, <3>2, Zenon DEF Tally
  <2> QED BY <1>1, <1>2, <1>7, <1>8, <1>9, <2>7 DEF AccountInv
<1>10. CASE ~(horizon < plan.prompt)
  <2>1. Base' = horizon
    <3>1. horizon + 1 > plan.prompt /\ (horizon + 1) - 1 = horizon
      BY <1>3, <1>10
    <3> QED BY <1>1, <3>1 DEF Base
  <2>2. Prior' = 0
    <3>1. ~(horizon + 1 <= plan.prompt)
      BY <1>3, <1>10
    <3> QED BY <1>1, <3>1 DEF Prior
  <2>3. \A s \in Stages : Done(s)' <= Base'
    BY <1>3, <1>4, <2>1
  <2>4. Opened' => (Tally = NoAccount)'
    BY NothingCharged, PTL
  <2>5. Opened'
    BY <1>1, <1>2, <2>2, <2>3 DEF Opened
  <2>6. Tally' = NoAccount
    BY <2>4, <2>5 DEF NoAccount
  <2> QED BY <1>1, <1>2, <1>7, <1>8, <1>10, <2>6 DEF AccountInv
<1> QED BY <1>9, <1>10

LEMMA AccountStep ==
  ASSUME AccountInv, [Next]_vars
  PROVE  AccountInv'
<1>1. ASSUME NEW s \in Stages, RunStage(s) PROVE AccountInv'
  <2>1. IInv'
    BY <1>1, StepIsInductive DEF AccountInv, Next
  <2> QED BY <1>1, <2>1, PacedRun, KeptRun, TallyRun DEF AccountInv
<1>2. CASE Present
  BY <1>2, PresentAccount
<1>3. CASE UNCHANGED vars
  BY <1>3 DEF vars, AccountInv, IInv, TypeOK, Bounded, Traced, StateHoldsThePrefix, Paced, Kept,
     Loaded, PassBase, Done, Skipped, Tally, Count, Charged, Charges, Base, Reads, Late, Prior,
     PassBytes
<1> QED BY <1>1, <1>2, <1>3 DEF Next, Finished

\* When a prompt or a decode step is complete, the account of what its stages did
\* is the closed form of the plans, for every configuration and every order.
THEOREM AccountsMatch == Spec => []AccountsMatchExecution
<1>1. AccountInv => AccountsMatchExecution
  <2> SUFFICES ASSUME AccountInv, Complete, horizon >= plan.prompt
               PROVE  /\ acct = IF horizon > plan.prompt THEN DecodeAccount(horizon)
                                ELSE PlannedPrefill(horizon)
                      /\ StorageBytes(horizon) =
                            MapThenSumSet(LAMBDA s : Len(kv[s]) * KvBytes, KvStages)
                              + Cardinality(CsStages) * (CBytes + SBytes)
    BY DEF AccountsMatchExecution
  <2> QED BY EndTally, EndStorage DEF AccountInv
<1> QED BY <1>1, AccountInit, AccountStep, PTL DEF Spec
=============================================================================
