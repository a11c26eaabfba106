------------------------ MODULE EvidencePipelineProofs ------------------------
(* Machine-checked proofs about EvidencePipeline, for every number of cases,  *)
(* every set of answers, images and policies, and any number of starts.       *)
EXTENDS EvidencePipeline, SequenceTheorems, TLAPS

-----------------------------------------------------------------------------
(* What the proofs are about.                                                *)

\* A summary scored the ids its probabilities were recorded for; the rows of
\* those probabilities, the reference arm and what the candidate was forced on
\* are the targets its manifest names.
TargetsAreBound ==
    \A s \in scored :
        /\ s.used = s.m.probs.ids
        /\ s.m.probs.rows = s.m.refs
        /\ s.l.refs = s.m.refs
        /\ s.v.forced = s.m.refs

-----------------------------------------------------------------------------
(* Types.                                                                    *)

Ids == [Cases -> AllAnswers \cup {None}]
Sidecars == [rows : Rows, ids : Ids]
Statuses == {"NOT_CAPTURED", "IN_PROGRESS", "INCOMPLETE", "COMPLETE"}
Manifests ==
    [gen : Gens, policy : Policies, status : Statuses, done : 0 .. NCases,
     attempt : Nat, image : Images \cup {None}, refs : Rows \cup {None},
     probs : Sidecars \cup {None}, probAttempt : Nat]

Captures == [pc : {"cases", "publish", "report"}, m : Manifests, gen : Gens,
             got : Seq(AllAnswers)]
Probings == [pc : {"cases", "publish"}, m : Manifests, gen : Gens,
             done : 0 .. NCases, rows : Rows, ids : Ids]
Metas == [fixture : Manifests, prompts : Gens, refs : Rows \cup {None},
          probs : Sidecars \cup {None}]
Evaluations == [pc : {"cases"}, done : 0 .. NCases, read : Seq(Gens),
                forced : Seq(AllAnswers), meta : Metas]
Evaluated == [id : Nat, meta : Metas, replay : ReplayStatuses, read : Seq(Gens),
              forced : Seq(AllAnswers)]
Pairings == [pc : {"score"}, m : Manifests, l : llamaRuns, v : vzeroRuns,
             ids : Ids, used : Seq(AllAnswers \cup {None}), policy : Policies]

WorldType ==
    /\ tokens \in [Cases -> Gens] /\ prompts \in Gens
    /\ policy \in Policies /\ image \in Images
    /\ starts \in [Kinds -> Nat]
    /\ mat \in {Idle} \cup [pc : {"tokens", "prompts", "manifest"}, gen : Gens]

FixtureType ==
    /\ targets \in Ids /\ refs \in Rows \cup {None}
    /\ probs \in Sidecars \cup {None} /\ manifest \in Manifests

ScriptType ==
    /\ cap \in {Idle} \cup Captures
    /\ prob \in {Idle} \cup Probings
    /\ vzero \in {Idle} \cup Evaluations
    /\ vzeroRuns \subseteq Evaluated
    /\ pair \in {Idle} \cup Pairings

-----------------------------------------------------------------------------
(* The inductive invariant.                                                  *)

\* A capture knows what it has written, and numbers its manifests with its own
\* start; only the manifest it is about to publish is complete.
CaptureShape ==
    cap.pc # "idle" =>
        /\ cap.m.image \in Images
        /\ cap.m.attempt = starts["cap"] /\ starts["cap"] >= 1
        /\ Len(cap.got) = cap.m.done
        /\ \A c \in 1 .. cap.m.done : targets[c] = cap.got[c]
        /\ cap.pc = "cases" => cap.m.status = "IN_PROGRESS"
        /\ cap.pc = "publish" => refs \in Rows /\ cap.m.refs \in Rows

\* A complete manifest was published over reference rows.
CompleteShape ==
    /\ manifest.status = "COMPLETE" => refs \in Rows
    /\ prob.pc # "idle" => refs \in Rows /\ prob.m.status = "COMPLETE"

\* The numbers of captures and of probability captures that have been given out
\* and that no script still at work can publish under.
CaptureIsOver(a) ==
    a <= starts["cap"] /\ (cap.pc \in {"cases", "publish"} => a < starts["cap"])
ProbingIsOver(p) ==
    p <= starts["prob"] /\ (prob.pc # "idle" => p < starts["prob"])

\* The manifests the evaluations were prepared from.
Prepared == {v.meta.fixture : v \in vzeroRuns}
                \cup (IF vzero.pc = "idle" THEN {} ELSE {vzero.meta.fixture})

\* Manifests carry those numbers, so that a complete one, once replaced, is never
\* written again: what an evaluation was prepared from is the manifest in place
\* without a break since, or will never be it again.
Stamped ==
    /\ ProbingIsOver(manifest.probAttempt)
    /\ cap.pc # "idle" => ProbingIsOver(cap.m.probAttempt)
    /\ manifest.status = "COMPLETE" => CaptureIsOver(manifest.attempt)
    /\ prob.pc # "idle" => CaptureIsOver(prob.m.attempt)
    /\ prob.pc = "publish" => prob.m.probAttempt = starts["prob"]
    /\ \A f \in Prepared : /\ f.status = "COMPLETE"
                           /\ CaptureIsOver(f.attempt)
                           /\ ProbingIsOver(f.probAttempt)

\* While its manifest is in place, a candidate was forced on the targets in place.
Forced ==
    /\ vzero.pc # "idle" =>
          /\ Len(vzero.forced) = vzero.done
          /\ vzero.meta.fixture = manifest =>
                \A c \in 1 .. vzero.done : vzero.forced[c] = targets[c]
    /\ \A v \in vzeroRuns :
          /\ Len(v.forced) = NCases
          /\ v.meta.fixture = manifest => \A c \in Cases : v.forced[c] = targets[c]

\* What a report that has started knows of its lineage.
Paired ==
    pair.pc # "idle" =>
        /\ pair.m.refs \in Rows /\ pair.m.probs \in Sidecars
        /\ pair.ids = pair.m.probs.ids
        /\ pair.m.probs.rows = pair.m.refs
        /\ pair.l.refs = pair.m.refs
        /\ pair.v.forced = pair.m.refs
        /\ Len(pair.used) <= NCases
        /\ \A i \in 1 .. Len(pair.used) : pair.used[i] = pair.ids[i]

\* How many captures can have written the target of a case by now.
Written(c) ==
    starts["cap"] - (IF cap.pc = "cases" /\ cap.m.done < c THEN 1 ELSE 0)

\* Each capture writes a target once, so every disagreement between ids and rows
\* takes one capture more: the targets differ from the frozen rows, agree with
\* them again while the probabilities are recorded, and differ once more.
Recaptured ==
    /\ refs \in Rows =>
          \A c \in Cases : /\ Written(c) >= 1
                           /\ targets[c] # refs[c] => Written(c) >= 2
    /\ prob.pc # "idle" =>
          \A c \in Cases : prob.ids[c] # prob.rows[c] =>
              /\ Written(c) >= 2
              /\ targets[c] = prob.rows[c] \/ c <= prob.done => Written(c) >= 3
              /\ targets[c] # prob.rows[c] /\ c <= prob.done => Written(c) >= 4
    /\ probs \in Sidecars =>
          \A c \in Cases : probs.ids[c] # probs.rows[c] =>
              /\ Written(c) >= 3
              /\ targets[c] # probs.rows[c] => Written(c) >= 4
    /\ pair.pc # "idle" =>
          \A c \in Cases : pair.ids[c] # pair.m.refs[c] =>
              /\ Written(c) >= 3
              /\ targets[c] # pair.m.refs[c] => Written(c) >= 4
              /\ c <= Len(pair.used) => Written(c) >= 4
    /\ \A s \in scored : s.used # s.m.refs => starts["cap"] >= 4

Inv == /\ WorldType /\ FixtureType /\ ScriptType
       /\ CaptureShape /\ CompleteShape
       /\ Stamped /\ Forced /\ Paired /\ Recaptured /\ TargetsAreBound

-----------------------------------------------------------------------------
(* The steps of the scripts, grouped by what they touch.                     *)

\* Nothing the invariant speaks of changes but the world.
Quiet ==
    /\ UNCHANGED <<targets, refs, probs, manifest, cap, prob, vzero, vzeroRuns,
                   pair, scored>>
    /\ llamaRuns \subseteq llamaRuns'
    /\ starts'["cap"] = starts["cap"] /\ starts'["prob"] = starts["prob"]

\* Scripts end, by themselves or not, and write nothing.
Stop ==
    /\ cap' \in {cap, Idle} /\ prob' \in {prob, Idle}
    /\ vzero' \in {vzero, Idle} /\ pair' \in {pair, Idle}
    /\ UNCHANGED <<targets, refs, probs, manifest, llamaRuns, vzeroRuns, scored,
                   starts>>

\* No script of the lineage starts.
SameStarts == starts'["cap"] = starts["cap"] /\ starts'["prob"] = starts["prob"]

LEMMA StartFact ==
  ASSUME WorldType, NEW kind \in Kinds, Start(kind)
  PROVE  /\ starts' \in [Kinds -> Nat]
         /\ starts'[kind] = starts[kind] + 1
         /\ \A k \in Kinds \ {kind} : starts'[k] = starts[k]
  BY DEF WorldType, Start

LEMMA KindFact ==
  {"mat", "cap", "prob", "llama", "vzero", "pair", "edit"} = Kinds
  BY DEF Kinds

LEMMA WorldStep ==
  ASSUME WorldType, [Next]_vars
  PROVE  WorldType'
<1> USE DEF WorldType
<1>1. starts' \in [Kinds -> Nat]
  <2>1. \/ starts' = starts
        \/ \E kind \in Kinds : Start(kind)
    BY KindFact DEF Next, MatStart, WriteTokenFiles, WritePrompts, WriteFreshManifest,
       CaptureStart, CaptureCase, CaptureWriteRefs, CaptureComplete, CaptureExit,
       CaptureFails, ProbStart, ProbCase, ProbWriteSidecar, ProbComplete, LlamaStart,
       LlamaIdentify, LlamaComplete, Prepare, EvaluateCase, EvaluationComplete,
       PairStart, ScoreCase, WriteSummary, EditPolicy, WriteRebind, Retag, Kill, vars
  <2> QED BY <2>1, StartFact
<1>2. image' \in Images /\ policy' \in Policies
  BY DEF Next, MatStart, WriteTokenFiles, WritePrompts, WriteFreshManifest,
     CaptureStart, CaptureCase, CaptureWriteRefs, CaptureComplete, CaptureExit,
     CaptureFails, ProbStart, ProbCase, ProbWriteSidecar, ProbComplete, LlamaStart,
     LlamaIdentify, LlamaComplete, Prepare, EvaluateCase, EvaluationComplete,
     PairStart, ScoreCase, WriteSummary, EditPolicy, WriteRebind, Retag, Kill, vars,
     world
<1>3. ASSUME NEW g \in Gens, MatStart(g) PROVE WorldType'
  BY <1>1, <1>2, <1>3 DEF MatStart, fixtures
<1>4. CASE WriteTokenFiles
  <2>1. mat \in [pc : {"tokens", "prompts", "manifest"}, gen : Gens]
    BY <1>4 DEF WriteTokenFiles, Idle
  <2>2. tokens' \in [Cases -> Gens]
    BY <1>4, <2>1 DEF WriteTokenFiles
  <2>3. mat' \in {Idle} \cup [pc : {"tokens", "prompts", "manifest"}, gen : Gens]
    BY <1>4, <2>1 DEF WriteTokenFiles
  <2> QED BY <1>1, <1>2, <1>4, <2>2, <2>3 DEF WriteTokenFiles
<1>5. CASE WritePrompts
  <2>1. mat \in [pc : {"tokens", "prompts", "manifest"}, gen : Gens]
    BY <1>5 DEF WritePrompts, Idle
  <2> QED BY <1>1, <1>2, <1>5, <2>1 DEF WritePrompts
<1>6. CASE ~(\E g \in Gens : MatStart(g)) /\ ~WriteTokenFiles /\ ~WritePrompts
  <2>1. tokens' = tokens /\ prompts' = prompts /\ mat' \in {mat, Idle}
    BY <1>6 DEF Next, WriteFreshManifest,
       CaptureStart, CaptureCase, CaptureWriteRefs, CaptureComplete, CaptureExit,
       CaptureFails, ProbStart, ProbCase, ProbWriteSidecar, ProbComplete, LlamaStart,
       LlamaIdentify, LlamaComplete, Prepare, EvaluateCase, EvaluationComplete,
       PairStart, ScoreCase, WriteSummary, EditPolicy, WriteRebind, Retag, Kill, vars,
       fixtures
  <2> QED BY <1>1, <1>2, <2>1
<1> QED BY <1>3, <1>4, <1>5, <1>6

LEMMA StepCases ==
  ASSUME WorldType, [Next]_vars
  PROVE  \/ Quiet \/ Stop \/ WriteFreshManifest
         \/ CaptureStart \/ CaptureCase \/ CaptureWriteRefs \/ CaptureComplete
         \/ CaptureFails
         \/ ProbStart \/ ProbCase \/ ProbWriteSidecar \/ ProbComplete
         \/ Prepare \/ EvaluateCase \/ EvaluationComplete
         \/ \E l \in llamaRuns, v \in vzeroRuns : PairStart(l, v)
         \/ ScoreCase \/ WriteSummary
<1>1. ASSUME NEW kind \in Kinds \ {"cap", "prob"}, Start(kind)
      PROVE  starts'["cap"] = starts["cap"] /\ starts'["prob"] = starts["prob"]
  BY <1>1, StartFact, KindFact
<1>2. ASSUME NEW g \in Gens, MatStart(g) PROVE Quiet
  BY <1>1, <1>2, KindFact DEF MatStart, Quiet, fixtures, world, runs
<1>3. WriteTokenFiles \/ WritePrompts => Quiet
  BY DEF WriteTokenFiles, WritePrompts, Quiet, fixtures, world, runs
<1>4. LlamaStart => Quiet
  BY <1>1, KindFact DEF LlamaStart, Quiet, fixtures, world, runs
<1>5. LlamaIdentify \/ LlamaComplete => Quiet
  BY DEF LlamaIdentify, LlamaComplete, Quiet, fixtures, world, runs
<1>6. EditPolicy \/ Retag => Quiet
  BY <1>1, KindFact DEF EditPolicy, Retag, Quiet, fixtures, world, runs
<1>7. WriteRebind => Quiet
  BY DEF WriteRebind, Quiet, fixtures, world, runs
<1>8. UNCHANGED vars => Quiet
  BY DEF vars, Quiet, fixtures, world, runs
<1>9. CaptureExit \/ Kill => Stop
  BY DEF CaptureExit, Kill, Stop, fixtures, world, runs
<1> QED BY <1>2, <1>3, <1>4, <1>5, <1>6, <1>7, <1>8, <1>9 DEF Next

-----------------------------------------------------------------------------
(* Every step keeps the types.                                               *)

LEMMA CasesFact ==
  /\ NCases \in Nat \ {0} /\ Cases = 1 .. NCases
  BY PipelineAssumption DEF Cases

LEMMA FreshFact ==
  ASSUME NEW g \in Gens, NEW p \in Policies
  PROVE  /\ Fresh(g, p) \in Manifests
         /\ Fresh(g, p).status = "NOT_CAPTURED" /\ Fresh(g, p).probAttempt = 0
  BY CasesFact DEF Fresh, Manifests, Statuses

\* What a capture makes of the manifest it finds.
Opened(m, n, i) == [m EXCEPT !.status = "IN_PROGRESS", !.done = 0, !.attempt = n,
                             !.image = i, !.refs = None]

LEMMA OpenedFact ==
  ASSUME NEW m \in Manifests, NEW n \in Nat, NEW i \in Images
  PROVE  /\ Opened(m, n, i) \in Manifests
         /\ Opened(m, n, i).status = "IN_PROGRESS" /\ Opened(m, n, i).done = 0
         /\ Opened(m, n, i).attempt = n /\ Opened(m, n, i).image = i
         /\ Opened(m, n, i).probAttempt = m.probAttempt
<1> DEFINE a == [m EXCEPT !.status = "IN_PROGRESS"]
           b == [a EXCEPT !.done = 0]
           c == [b EXCEPT !.attempt = n]
           d == [c EXCEPT !.image = i]
           e == [d EXCEPT !.refs = None]
<1>1. Opened(m, n, i) = e
  BY DEF Opened
<1>2. a \in Manifests /\ a.status = "IN_PROGRESS" /\ a.probAttempt = m.probAttempt
  BY DEF Manifests, Statuses
<1> HIDE DEF a
<1>3. b \in Manifests /\ b.status = a.status /\ b.done = 0 /\ b.probAttempt = a.probAttempt
  BY <1>2, CasesFact DEF Manifests
<1> HIDE DEF b
<1>4. /\ c \in Manifests /\ c.status = b.status /\ c.done = b.done /\ c.attempt = n
      /\ c.probAttempt = b.probAttempt
  BY <1>3 DEF Manifests
<1> HIDE DEF c
<1>5. /\ d \in Manifests /\ d.status = c.status /\ d.done = c.done /\ d.attempt = c.attempt
      /\ d.image = i /\ d.probAttempt = c.probAttempt
  BY <1>4 DEF Manifests
<1> HIDE DEF d
<1>6. /\ e \in Manifests /\ e.status = d.status /\ e.done = d.done /\ e.attempt = d.attempt
      /\ e.image = d.image /\ e.probAttempt = d.probAttempt
  BY <1>5 DEF Manifests
<1> HIDE DEF e
<1> QED BY <1>1, <1>2, <1>3, <1>4, <1>5, <1>6

\* The answers a capture can get are typed.
LEMMA AnswersFact ==
  ASSUME NEW g \in Gens, NEW i \in Images, NEW a \in Answers(g, i)
  PROVE  a \in AllAnswers
  BY DEF AllAnswers

LEMMA CaptureActive ==
  ASSUME ScriptType, cap.pc # "idle"
  PROVE  /\ cap \in Captures /\ cap.m \in Manifests /\ cap.gen \in Gens
         /\ cap.got \in Seq(AllAnswers) /\ cap.m.done \in 0 .. NCases
         /\ cap.pc \in {"cases", "publish", "report"}
  BY DEF ScriptType, Idle, Captures, Manifests

LEMMA ProbActive ==
  ASSUME ScriptType, prob.pc # "idle"
  PROVE  /\ prob \in Probings /\ prob.m \in Manifests /\ prob.done \in 0 .. NCases
         /\ prob.rows \in Rows /\ prob.ids \in Ids /\ prob.pc \in {"cases", "publish"}
  BY DEF ScriptType, Idle, Probings

LEMMA VzeroActive ==
  ASSUME ScriptType, vzero.pc # "idle"
  PROVE  /\ vzero \in Evaluations /\ vzero.meta \in Metas /\ vzero.done \in 0 .. NCases
         /\ vzero.forced \in Seq(AllAnswers) /\ vzero.read \in Seq(Gens)
         /\ vzero.pc = "cases"
  BY DEF ScriptType, Idle, Evaluations

LEMMA PairActive ==
  ASSUME ScriptType, pair.pc # "idle"
  PROVE  /\ pair \in Pairings /\ pair.used \in Seq(AllAnswers \cup {None})
         /\ pair.ids \in Ids /\ pair.v \in vzeroRuns /\ pair.m \in Manifests
         /\ pair.pc = "score"
  BY DEF ScriptType, Idle, Pairings

LEMMA FixtureStep ==
  ASSUME WorldType, FixtureType, ScriptType, CaptureShape, [Next]_vars
  PROVE  FixtureType'
<1> USE DEF FixtureType
<1>1. CASE Quiet \/ Stop
  BY <1>1 DEF Quiet, Stop
<1>2. CASE WriteFreshManifest
  <2>1. mat.gen \in Gens /\ policy \in Policies
    BY <1>2 DEF WriteFreshManifest, WorldType, Idle
  <2> QED BY <1>2, <2>1, FreshFact DEF WriteFreshManifest
<1>3. CASE CaptureStart
  <2>1. starts["cap"] + 1 \in Nat /\ image \in Images
    BY KindFact DEF WorldType
  <2>2. manifest' \in Manifests
    <3>1. manifest' = Opened(manifest, starts["cap"] + 1, image)
      BY <1>3 DEF CaptureStart, Opened
    <3> QED BY <2>1, <3>1, OpenedFact
  <2> QED BY <1>3, <2>2 DEF CaptureStart
<1>4. CASE CaptureCase
  <2>1. cap.pc # "idle"
    BY <1>4 DEF CaptureCase
  <2>2. [cap.m EXCEPT !.done = @ + 1] \in Manifests /\ cap.m.done + 1 \in Cases
    BY <1>4, <2>1, CaptureActive, CasesFact DEF CaptureCase, Manifests
  <2>3. PICK a \in Answers(cap.gen, cap.m.image) :
             /\ targets' = [targets EXCEPT ![cap.m.done + 1] = a]
             /\ manifest' = [cap.m EXCEPT !.done = @ + 1]
    BY <1>4, <2>1, CaptureActive DEF CaptureCase, Manifests
  <2>4. a \in AllAnswers
    BY <2>1, <2>3, CaptureActive, AnswersFact DEF CaptureShape
  <2> QED BY <1>4, <2>2, <2>3, <2>4 DEF CaptureCase, Ids
<1>5. CASE CaptureWriteRefs
  <2>1. cap.pc # "idle" /\ cap.m.done = NCases
    BY <1>5 DEF CaptureWriteRefs
  <2>2. cap.got \in Seq(AllAnswers) /\ Len(cap.got) = NCases
    BY <2>1, CaptureActive DEF CaptureShape
  <2>3. cap.got \in Rows
    BY <2>2, LenProperties, CasesFact DEF Rows
  <2> QED BY <1>5, <2>3 DEF CaptureWriteRefs
<1>6. CASE CaptureComplete
  <2>1. cap.pc # "idle"
    BY <1>6 DEF CaptureComplete
  <2> QED BY <1>6, <2>1, CaptureActive DEF CaptureComplete
<1>7. CASE CaptureFails
  <2>1. [cap.m EXCEPT !.status = "INCOMPLETE"] \in Manifests
    BY <1>7, CaptureActive DEF CaptureFails, Manifests, Statuses
  <2> QED BY <1>7, <2>1 DEF CaptureFails
<1>8. CASE ProbStart \/ ProbCase
  BY <1>8 DEF ProbStart, ProbCase, fixtures
<1>9. CASE ProbWriteSidecar
  <2>1. prob.pc # "idle"
    BY <1>9 DEF ProbWriteSidecar
  <2> QED BY <1>9, <2>1, ProbActive DEF ProbWriteSidecar, Sidecars
<1>10. CASE ProbComplete
  <2>1. prob.pc # "idle"
    BY <1>10 DEF ProbComplete
  <2> QED BY <1>10, <2>1, ProbActive DEF ProbComplete
<1>11. CASE Prepare \/ EvaluateCase \/ EvaluationComplete \/ ScoreCase \/ WriteSummary
  BY <1>11 DEF Prepare, EvaluateCase, EvaluationComplete, ScoreCase, WriteSummary, fixtures
<1>12. ASSUME NEW l, NEW v, PairStart(l, v) PROVE FixtureType'
  BY <1>12 DEF PairStart, fixtures
<1> QED BY <1>1, <1>2, <1>3, <1>4, <1>5, <1>6, <1>7, <1>8, <1>9, <1>10, <1>11, <1>12,
           StepCases

LEMMA AppendFact ==
  ASSUME NEW S, NEW s \in Seq(S), NEW x \in S
  PROVE  /\ Append(s, x) \in Seq(S) /\ Len(Append(s, x)) = Len(s) + 1
         /\ Len(s) \in Nat
         /\ \A i \in 1 .. Len(s) : Append(s, x)[i] = s[i]
         /\ Append(s, x)[Len(s) + 1] = x
  BY AppendProperties, LenProperties

LEMMA CaptureStep ==
  ASSUME WorldType, FixtureType, ScriptType, CaptureShape, [Next]_vars
  PROVE  cap' \in {Idle} \cup Captures
<1>1. CASE CaptureStart
  <2>1. starts["cap"] + 1 \in Nat /\ image \in Images /\ prompts \in Gens
    BY KindFact DEF WorldType
  <2>2. PICK m : /\ m = Opened(manifest, starts["cap"] + 1, image)
                 /\ cap' = [pc |-> "cases", m |-> m, gen |-> prompts, got |-> <<>>]
    BY <1>1 DEF CaptureStart, Opened
  <2>3. m \in Manifests
    BY <2>1, <2>2, OpenedFact DEF FixtureType
  <2> QED BY <2>1, <2>2, <2>3, EmptySeq DEF Captures
<1>2. CASE CaptureCase
  <2>1. cap.pc # "idle"
    BY <1>2 DEF CaptureCase
  <2>2. [cap.m EXCEPT !.done = @ + 1] \in Manifests
    BY <1>2, <2>1, CaptureActive, CasesFact DEF CaptureCase, Manifests
  <2>3. PICK a \in Answers(cap.gen, cap.m.image) :
             cap' = [cap EXCEPT !.m = [cap.m EXCEPT !.done = @ + 1], !.got = Append(@, a)]
    BY <1>2 DEF CaptureCase
  <2>4. a \in AllAnswers
    BY <2>1, <2>3, CaptureActive, AnswersFact DEF CaptureShape
  <2>5. Append(cap.got, a) \in Seq(AllAnswers)
    BY <2>1, <2>4, CaptureActive, AppendFact
  <2> QED BY <2>1, <2>2, <2>3, <2>5, CaptureActive DEF Captures
<1>3. CASE CaptureWriteRefs
  <2>1. cap.pc # "idle" /\ cap.m.done = NCases
    BY <1>3 DEF CaptureWriteRefs
  <2>2. cap.got \in Rows
    BY <2>1, CaptureActive, LenProperties, CasesFact DEF CaptureShape, Rows
  <2>3. [cap.m EXCEPT !.status = "COMPLETE", !.refs = cap.got] \in Manifests
    BY <2>1, <2>2, CaptureActive DEF Manifests, Statuses
  <2> QED BY <1>3, <2>1, <2>3, CaptureActive DEF CaptureWriteRefs, Captures
<1>4. CASE CaptureComplete
  <2>1. cap.pc # "idle"
    BY <1>4 DEF CaptureComplete
  <2> QED BY <1>4, <2>1, CaptureActive DEF CaptureComplete, Captures
<1>5. CASE ~(CaptureStart \/ CaptureCase \/ CaptureWriteRefs \/ CaptureComplete)
  <2>1. cap' \in {cap, Idle}
    BY <1>5, StepCases DEF Quiet, Stop, WriteFreshManifest, CaptureFails, ProbStart,
       ProbCase, ProbWriteSidecar, ProbComplete, Prepare, EvaluateCase,
       EvaluationComplete, PairStart, ScoreCase, WriteSummary
  <2> QED BY <2>1 DEF ScriptType
<1> QED BY <1>1, <1>2, <1>3, <1>4, <1>5

LEMMA ProbingStep ==
  ASSUME WorldType, FixtureType, ScriptType, CompleteShape, [Next]_vars
  PROVE  prob' \in {Idle} \cup Probings
<1>1. CASE ProbStart
  <2>1. refs \in Rows
    BY <1>1 DEF ProbStart, CompleteShape
  <2> QED BY <1>1, <2>1, CasesFact DEF ProbStart, WorldType, FixtureType, Probings
<1>2. CASE ProbCase
  <2>1. prob.pc # "idle"
    BY <1>2 DEF ProbCase
  <2>2. prob.done + 1 \in 0 .. NCases
    BY <1>2, <2>1, ProbActive, CasesFact DEF ProbCase
  <2>3. prob' = Idle \/ prob' = [prob EXCEPT !.done = prob.done + 1]
    BY <1>2 DEF ProbCase
  <2> QED BY <2>1, <2>2, <2>3, ProbActive DEF Probings
<1>3. CASE ProbWriteSidecar
  <2>1. prob.pc # "idle"
    BY <1>3 DEF ProbWriteSidecar
  <2>2. starts["prob"] \in Nat
    BY KindFact DEF WorldType
  <2>3. PICK p : /\ p = [rows |-> prob.rows, ids |-> prob.ids]
                 /\ prob' = [prob EXCEPT !.pc = "publish",
                                !.m = [prob.m EXCEPT !.probs = p,
                                                     !.probAttempt = starts["prob"]]]
    BY <1>3 DEF ProbWriteSidecar
  <2>4. p \in Sidecars
    BY <2>1, <2>3, ProbActive DEF Sidecars
  <2>5. [prob.m EXCEPT !.probs = p, !.probAttempt = starts["prob"]] \in Manifests
    BY <2>1, <2>2, <2>4, ProbActive DEF Manifests
  <2> QED BY <2>1, <2>3, <2>5, ProbActive DEF Probings
<1>4. CASE ~(ProbStart \/ ProbCase \/ ProbWriteSidecar)
  <2>1. prob' \in {prob, Idle}
    BY <1>4, StepCases DEF Quiet, Stop, WriteFreshManifest, CaptureStart, CaptureCase,
       CaptureWriteRefs, CaptureComplete, CaptureFails, ProbComplete, Prepare,
       EvaluateCase, EvaluationComplete, PairStart, ScoreCase, WriteSummary
  <2> QED BY <2>1 DEF ScriptType
<1> QED BY <1>1, <1>2, <1>3, <1>4

LEMMA EvaluationStep ==
  ASSUME WorldType, FixtureType, ScriptType, [Next]_vars
  PROVE  vzero' \in {Idle} \cup Evaluations /\ vzeroRuns' \subseteq Evaluated
<1>1. CASE Prepare
  <2> DEFINE meta == [fixture |-> manifest, prompts |-> manifest.gen,
                      refs |-> manifest.refs, probs |-> manifest.probs]
  <2>1. meta \in Metas
    BY DEF FixtureType, Metas, Manifests
  <2>2. vzero' = [pc |-> "cases", done |-> 0, read |-> <<>>, forced |-> <<>>, meta |-> meta]
    BY <1>1 DEF Prepare
  <2> HIDE DEF meta
  <2>3. vzero' \in Evaluations
    BY <2>1, <2>2, CasesFact, EmptySeq DEF Evaluations
  <2> QED BY <1>1, <2>3 DEF Prepare, runs, ScriptType
<1>2. CASE EvaluateCase
  <2>1. vzero.pc # "idle"
    BY <1>2 DEF EvaluateCase
  <2>2. vzero.done + 1 \in Cases /\ vzero.done + 1 \in 0 .. NCases
    BY <1>2, <2>1, VzeroActive, CasesFact DEF EvaluateCase
  <2>3. CASE vzero' = Idle
    BY <1>2, <2>3 DEF EvaluateCase, runs, ScriptType
  <2>4. CASE vzero' # Idle
    <3>1. /\ targets[vzero.done + 1] # None
          /\ vzero' = [vzero EXCEPT !.done = vzero.done + 1,
                                    !.read = Append(@, tokens[vzero.done + 1]),
                                    !.forced = Append(@, targets[vzero.done + 1])]
      BY <1>2, <2>4 DEF EvaluateCase
    <3>2. tokens[vzero.done + 1] \in Gens /\ targets[vzero.done + 1] \in AllAnswers
      BY <2>2, <3>1 DEF WorldType, FixtureType, Ids
    <3>3. /\ Append(vzero.read, tokens[vzero.done + 1]) \in Seq(Gens)
          /\ Append(vzero.forced, targets[vzero.done + 1]) \in Seq(AllAnswers)
      BY <2>1, <3>2, VzeroActive, AppendFact
    <3>4. vzero' \in Evaluations
      BY <2>1, <2>2, <3>1, <3>3, VzeroActive DEF Evaluations
    <3> QED BY <1>2, <3>4 DEF EvaluateCase, runs, ScriptType
  <2> QED BY <2>3, <2>4
<1>3. CASE EvaluationComplete
  <2>1. vzero.pc # "idle" /\ starts["vzero"] \in Nat
    BY <1>3, KindFact DEF EvaluationComplete, WorldType
  <2>2. PICK r \in ReplayStatuses :
             vzeroRuns' = vzeroRuns \cup
                 {[id |-> starts["vzero"], meta |-> vzero.meta, replay |-> r,
                   read |-> vzero.read, forced |-> vzero.forced]}
    BY <1>3 DEF EvaluationComplete
  <2>3. [id |-> starts["vzero"], meta |-> vzero.meta, replay |-> r,
         read |-> vzero.read, forced |-> vzero.forced] \in Evaluated
    BY <2>1, VzeroActive DEF Evaluated
  <2> QED BY <1>3, <2>2, <2>3 DEF EvaluationComplete, ScriptType
<1>4. CASE ~(Prepare \/ EvaluateCase \/ EvaluationComplete)
  <2>1. vzero' \in {vzero, Idle} /\ vzeroRuns' = vzeroRuns
    BY <1>4, StepCases DEF Quiet, Stop, WriteFreshManifest, CaptureStart, CaptureCase,
       CaptureWriteRefs, CaptureComplete, CaptureFails, ProbStart, ProbCase,
       ProbWriteSidecar, ProbComplete, PairStart, ScoreCase, WriteSummary, runs
  <2> QED BY <2>1 DEF ScriptType
<1> QED BY <1>1, <1>2, <1>3, <1>4

\* Run directories are never removed.
LEMMA RunsGrow ==
  ASSUME WorldType, [Next]_vars
  PROVE  llamaRuns \subseteq llamaRuns' /\ vzeroRuns \subseteq vzeroRuns'
  BY StepCases DEF Quiet, Stop, WriteFreshManifest, CaptureStart, CaptureCase,
     CaptureWriteRefs, CaptureComplete, CaptureFails, ProbStart, ProbCase,
     ProbWriteSidecar, ProbComplete, Prepare, EvaluateCase, EvaluationComplete,
     PairStart, ScoreCase, WriteSummary, runs

LEMMA PairingStep ==
  ASSUME WorldType, FixtureType, ScriptType, [Next]_vars
  PROVE  (pair \in {Idle} \cup Pairings)'
<1>1. llamaRuns \subseteq llamaRuns' /\ vzeroRuns \subseteq vzeroRuns'
  BY RunsGrow
<1>2. Pairings \subseteq Pairings'
  <2>1. /\ Ids' = Ids /\ Manifests' = Manifests /\ Policies' = Policies
        /\ AllAnswers' = AllAnswers
    BY DEF Ids, Manifests, Sidecars
  <2> QED BY <1>1, <2>1 DEF Pairings
<1>3. ASSUME NEW l \in llamaRuns, NEW v \in vzeroRuns, PairStart(l, v)
      PROVE  pair' \in {Idle} \cup Pairings
  <2>1. CASE Lineage(l, v)
    <3>1. pair' = [pc |-> "score", m |-> manifest, l |-> l, v |-> v,
                   ids |-> probs.ids, used |-> <<>>, policy |-> policy]
      BY <1>3, <2>1 DEF PairStart
    <3>2. probs \in Sidecars
      BY <2>1 DEF Lineage, FilesBound, FixtureType
    <3> QED BY <3>1, <3>2, EmptySeq DEF Pairings, Sidecars, FixtureType, WorldType
  <2>2. CASE ~Lineage(l, v)
    BY <1>3, <2>2 DEF PairStart
  <2> QED BY <2>1, <2>2
<1>4. ASSUME ScoreCase PROVE pair' \in {Idle} \cup Pairings
  <2>1. pair.pc # "idle"
    BY <1>4 DEF ScoreCase
  <2>2. Len(pair.used) + 1 \in Cases
    BY <1>4, <2>1, PairActive, LenProperties, CasesFact DEF ScoreCase
  <2>3. pair' = Idle \/ pair' = [pair EXCEPT !.used = Append(@, targets[Len(pair.used) + 1])]
    BY <1>4 DEF ScoreCase
  <2>4. Append(pair.used, targets[Len(pair.used) + 1]) \in Seq(AllAnswers \cup {None})
    BY <2>1, <2>2, PairActive, AppendFact DEF FixtureType, Ids
  <2> QED BY <2>1, <2>3, <2>4, PairActive DEF Pairings
<1>5. ASSUME ~(ScoreCase \/ \E l \in llamaRuns, v \in vzeroRuns : PairStart(l, v))
      PROVE  pair' \in {Idle} \cup Pairings
  <2>1. pair' \in {pair, Idle}
    BY <1>5, StepCases DEF Quiet, Stop, WriteFreshManifest, CaptureStart, CaptureCase,
       CaptureWriteRefs, CaptureComplete, CaptureFails, ProbStart, ProbCase,
       ProbWriteSidecar, ProbComplete, Prepare, EvaluateCase, EvaluationComplete,
       WriteSummary
  <2> QED BY <2>1 DEF ScriptType
<1>6. pair' \in {Idle} \cup Pairings
  BY <1>3, <1>4, <1>5
<1>7. Idle' = Idle
  BY DEF Idle
<1> QED BY <1>2, <1>6, <1>7

LEMMA TypeStep ==
  ASSUME WorldType, FixtureType, ScriptType, CaptureShape, CompleteShape, [Next]_vars
  PROVE  WorldType' /\ FixtureType' /\ ScriptType'
<1>1. WorldType' /\ FixtureType'
  BY WorldStep, FixtureStep
<1>2. /\ Idle' = Idle /\ Captures' = Captures /\ Probings' = Probings
      /\ Evaluations' = Evaluations /\ Evaluated' = Evaluated
  BY DEF Idle, Captures, Probings, Evaluations, Evaluated, Metas, Manifests, Sidecars, Ids
<1> QED BY <1>1, <1>2, CaptureStep, ProbingStep, EvaluationStep, PairingStep DEF ScriptType

-----------------------------------------------------------------------------
(* What each step does, field by field.                                      *)

Types == WorldType /\ FixtureType /\ ScriptType

LEMMA IdleFact == Idle.pc = "idle"
  BY DEF Idle

LEMMA FreshEffect ==
  ASSUME Types, WriteFreshManifest
  PROVE  /\ manifest'.status = "NOT_CAPTURED" /\ manifest'.probAttempt = 0
         /\ UNCHANGED <<targets, refs, probs, cap, prob, vzero, vzeroRuns, pair, scored,
                        starts>>
<1>1. mat.gen \in Gens /\ policy \in Policies
  BY DEF Types, WriteFreshManifest, WorldType, Idle
<1> QED BY <1>1, FreshFact DEF WriteFreshManifest, runs

LEMMA CaptureStartEffect ==
  ASSUME Types, CaptureStart
  PROVE  /\ cap.pc = "idle" /\ cap'.pc = "cases" /\ cap'.got = <<>>
         /\ manifest' = cap'.m
         /\ cap'.m.status = "IN_PROGRESS" /\ cap'.m.done = 0
         /\ cap'.m.attempt = starts["cap"] + 1 /\ cap'.m.image \in Images
         /\ cap'.m.probAttempt = manifest.probAttempt
         /\ starts'["cap"] = starts["cap"] + 1 /\ starts'["prob"] = starts["prob"]
         /\ UNCHANGED <<targets, refs, probs, prob, vzero, vzeroRuns, pair, scored>>
<1>1. starts["cap"] + 1 \in Nat /\ image \in Images /\ manifest \in Manifests
  BY KindFact DEF Types, WorldType, FixtureType
<1>2. cap' = [pc |-> "cases", m |-> Opened(manifest, starts["cap"] + 1, image),
              gen |-> prompts, got |-> <<>>]
  BY DEF CaptureStart, Opened
<1>3. manifest' = Opened(manifest, starts["cap"] + 1, image)
  BY DEF CaptureStart, Opened
<1>4. starts'["cap"] = starts["cap"] + 1 /\ starts'["prob"] = starts["prob"]
  BY StartFact, KindFact DEF CaptureStart, Types
<1>5. /\ cap.pc = "idle"
      /\ UNCHANGED <<targets, refs, probs, prob, vzero, vzeroRuns, pair, scored>>
  BY DEF CaptureStart, runs
<1>6. cap'.pc = "cases" /\ cap'.got = <<>> /\ cap'.m = manifest'
  BY <1>2, <1>3
<1>7. /\ manifest'.status = "IN_PROGRESS" /\ manifest'.done = 0
      /\ manifest'.attempt = starts["cap"] + 1 /\ manifest'.image \in Images
      /\ manifest'.probAttempt = manifest.probAttempt
  BY <1>1, <1>3, OpenedFact
<1> QED BY <1>4, <1>5, <1>6, <1>7

LEMMA CaptureCaseEffect ==
  ASSUME Types, CaptureShape, CaptureCase
  PROVE  LET c == cap.m.done + 1
         IN  /\ c \in Cases /\ cap.pc = "cases" /\ cap'.pc = "cases"
             /\ manifest' = cap'.m
             /\ cap'.m.done = c /\ cap'.m.status = cap.m.status
             /\ cap'.m.attempt = cap.m.attempt /\ cap'.m.image = cap.m.image
             /\ cap'.m.probAttempt = cap.m.probAttempt
             /\ \A d \in Cases \ {c} : targets'[d] = targets[d]
             /\ Len(cap'.got) = c /\ cap'.got[c] = targets'[c]
             /\ \A i \in 1 .. cap.m.done : cap'.got[i] = cap.got[i]
             /\ UNCHANGED <<refs, probs, prob, vzero, vzeroRuns, pair, scored, starts>>
<1>1. cap.pc = "cases" /\ cap.pc # "idle"
  BY DEF CaptureCase
<1>2. /\ cap \in Captures /\ cap.m \in Manifests /\ cap.got \in Seq(AllAnswers)
      /\ cap.m.done \in 0 .. NCases /\ cap.gen \in Gens /\ Len(cap.got) = cap.m.done
      /\ cap.m.image \in Images
  BY <1>1, CaptureActive DEF Types, CaptureShape
<1>3. PICK a \in Answers(cap.gen, cap.m.image) :
           /\ targets' = [targets EXCEPT ![cap.m.done + 1] = a]
           /\ manifest' = [cap.m EXCEPT !.done = @ + 1]
           /\ cap' = [cap EXCEPT !.m = [cap.m EXCEPT !.done = @ + 1], !.got = Append(@, a)]
  BY <1>2 DEF CaptureCase, Manifests
<1>4. cap.m.done + 1 \in Cases /\ cap.m.done < NCases
  BY <1>2, CasesFact DEF CaptureCase
<1>5. a \in AllAnswers
  BY <1>2, <1>3, AnswersFact
<1>6. cap'.pc = "cases" /\ cap'.m = [cap.m EXCEPT !.done = @ + 1] /\ cap'.got = Append(cap.got, a)
  BY <1>1, <1>2, <1>3 DEF Captures
<1>7. /\ cap'.m.done = cap.m.done + 1 /\ cap'.m.status = cap.m.status
      /\ cap'.m.attempt = cap.m.attempt /\ cap'.m.image = cap.m.image
      /\ cap'.m.probAttempt = cap.m.probAttempt
  BY <1>2, <1>6 DEF Manifests
<1>8. /\ targets'[cap.m.done + 1] = a
      /\ \A d \in Cases \ {cap.m.done + 1} : targets'[d] = targets[d]
  BY <1>3, <1>4 DEF Types, FixtureType, Ids
<1>9. /\ Len(cap'.got) = cap.m.done + 1 /\ cap'.got[cap.m.done + 1] = a
      /\ \A i \in 1 .. cap.m.done : cap'.got[i] = cap.got[i]
  BY <1>2, <1>5, <1>6, AppendFact
<1> QED BY <1>1, <1>3, <1>4, <1>6, <1>7, <1>8, <1>9 DEF CaptureCase, runs

LEMMA CaptureWriteRefsEffect ==
  ASSUME Types, CaptureShape, CaptureWriteRefs
  PROVE  /\ cap.pc = "cases" /\ cap.m.done = NCases /\ cap'.pc = "publish"
         /\ refs' = cap.got /\ refs' \in Rows
         /\ cap'.m.status = "COMPLETE" /\ cap'.m.refs = cap.got /\ cap'.got = cap.got
         /\ cap'.m.done = cap.m.done
         /\ cap'.m.attempt = cap.m.attempt /\ cap'.m.image = cap.m.image
         /\ cap'.m.probAttempt = cap.m.probAttempt
         /\ UNCHANGED <<targets, probs, manifest, prob, vzero, vzeroRuns, pair, scored, starts>>
<1>1. cap.pc = "cases" /\ cap.pc # "idle" /\ cap.m.done = NCases
  BY DEF CaptureWriteRefs
<1>2. cap \in Captures /\ cap.m \in Manifests /\ cap.got \in Seq(AllAnswers) /\ Len(cap.got) = NCases
  BY <1>1, CaptureActive DEF Types, CaptureShape
<1>3. cap.got \in Rows
  BY <1>2, LenProperties, CasesFact DEF Rows
<1>4. /\ cap'.pc = "publish" /\ cap'.got = cap.got
      /\ cap'.m = [cap.m EXCEPT !.status = "COMPLETE", !.refs = cap.got]
  BY <1>2 DEF CaptureWriteRefs, Captures
<1>5. /\ cap'.m.status = "COMPLETE" /\ cap'.m.refs = cap.got
      /\ cap'.m.done = cap.m.done /\ cap'.m.attempt = cap.m.attempt
      /\ cap'.m.image = cap.m.image /\ cap'.m.probAttempt = cap.m.probAttempt
  BY <1>2, <1>4 DEF Manifests
<1> QED BY <1>1, <1>3, <1>4, <1>5 DEF CaptureWriteRefs, runs

LEMMA CaptureCompleteEffect ==
  ASSUME Types, CaptureComplete
  PROVE  /\ cap.pc = "publish" /\ cap'.pc = "report"
         /\ manifest' = cap.m /\ cap'.m = cap.m /\ cap'.got = cap.got
         /\ UNCHANGED <<targets, refs, probs, prob, vzero, vzeroRuns, pair, scored, starts>>
<1>1. cap.pc # "idle"
  BY DEF CaptureComplete
<1> QED BY <1>1, CaptureActive DEF CaptureComplete, Types, Captures, runs

LEMMA CaptureFailsEffect ==
  ASSUME Types, CaptureFails
  PROVE  /\ cap.pc # "idle" /\ cap' = Idle
         /\ manifest'.status = "INCOMPLETE" /\ manifest'.probAttempt = cap.m.probAttempt
         /\ UNCHANGED <<targets, refs, probs, prob, vzero, vzeroRuns, pair, scored, starts>>
<1>1. cap.pc # "idle"
  BY DEF CaptureFails
<1> QED BY <1>1, CaptureActive DEF CaptureFails, Types, Manifests, runs

LEMMA ProbStartEffect ==
  ASSUME Types, ProbStart
  PROVE  /\ prob.pc = "idle" /\ prob'.pc = "cases" /\ prob'.m = manifest
         /\ manifest.status = "COMPLETE"
         /\ prob'.rows = refs /\ prob'.ids = targets /\ prob'.done = 0
         /\ starts'["prob"] = starts["prob"] + 1 /\ starts'["cap"] = starts["cap"]
         /\ UNCHANGED <<targets, refs, probs, manifest, cap, vzero, vzeroRuns, pair, scored>>
<1>1. starts'["prob"] = starts["prob"] + 1 /\ starts'["cap"] = starts["cap"]
  BY StartFact, KindFact DEF ProbStart, Types
<1> QED BY <1>1 DEF ProbStart, fixtures, runs

LEMMA ProbCaseEffect ==
  ASSUME Types, ProbCase
  PROVE  /\ prob.pc = "cases"
         /\ \/ prob' = Idle
            \/ /\ prob.done + 1 \in Cases /\ prob'.done = prob.done + 1
               /\ targets[prob.done + 1] = prob.rows[prob.done + 1]
               /\ prob'.pc = "cases" /\ prob'.m = prob.m
               /\ prob'.rows = prob.rows /\ prob'.ids = prob.ids
         /\ UNCHANGED <<targets, refs, probs, manifest, cap, vzero, vzeroRuns, pair, scored,
                        starts>>
<1>1. prob.pc = "cases" /\ prob.pc # "idle" /\ prob.done < NCases
  BY DEF ProbCase
<1>2. prob \in Probings /\ prob.done + 1 \in Cases
  BY <1>1, ProbActive, CasesFact DEF Types
<1>3. \/ prob' = Idle
      \/ /\ targets[prob.done + 1] = prob.rows[prob.done + 1]
         /\ prob' = [prob EXCEPT !.done = prob.done + 1]
  BY DEF ProbCase
<1> QED BY <1>1, <1>2, <1>3 DEF ProbCase, Probings, fixtures, runs

LEMMA ProbWriteSidecarEffect ==
  ASSUME Types, ProbWriteSidecar
  PROVE  /\ prob.pc = "cases" /\ prob.done = NCases /\ prob'.pc = "publish"
         /\ probs' \in Sidecars /\ probs'.rows = prob.rows /\ probs'.ids = prob.ids
         /\ prob'.m.status = prob.m.status /\ prob'.m.attempt = prob.m.attempt
         /\ prob'.m.probAttempt = starts["prob"]
         /\ prob'.rows = prob.rows /\ prob'.ids = prob.ids /\ prob'.done = prob.done
         /\ UNCHANGED <<targets, refs, manifest, cap, vzero, vzeroRuns, pair, scored, starts>>
<1>1. prob.pc = "cases" /\ prob.pc # "idle" /\ prob.done = NCases
  BY DEF ProbWriteSidecar
<1>2. prob \in Probings /\ prob.m \in Manifests /\ prob.rows \in Rows /\ prob.ids \in Ids
  BY <1>1, ProbActive DEF Types
<1>3. PICK p : /\ p = [rows |-> prob.rows, ids |-> prob.ids] /\ probs' = p
               /\ prob' = [prob EXCEPT !.pc = "publish",
                              !.m = [prob.m EXCEPT !.probs = p,
                                                   !.probAttempt = starts["prob"]]]
  BY DEF ProbWriteSidecar
<1>4. probs' \in Sidecars /\ probs'.rows = prob.rows /\ probs'.ids = prob.ids
  BY <1>2, <1>3 DEF Sidecars
<1>5. /\ prob'.pc = "publish" /\ prob'.rows = prob.rows /\ prob'.ids = prob.ids
      /\ prob'.done = prob.done
      /\ prob'.m = [prob.m EXCEPT !.probs = p, !.probAttempt = starts["prob"]]
  BY <1>2, <1>3 DEF Probings
<1>6. /\ prob'.m.status = prob.m.status /\ prob'.m.attempt = prob.m.attempt
      /\ prob'.m.probAttempt = starts["prob"]
  BY <1>2, <1>5 DEF Manifests
<1> QED BY <1>1, <1>4, <1>5, <1>6 DEF ProbWriteSidecar, runs

LEMMA ProbCompleteEffect ==
  ASSUME ProbComplete
  PROVE  /\ prob.pc = "publish" /\ manifest' = prob.m /\ prob' = Idle
         /\ UNCHANGED <<targets, refs, probs, cap, vzero, vzeroRuns, pair, scored, starts>>
  BY DEF ProbComplete, runs

LEMMA PrepareEffect ==
  ASSUME Types, Prepare
  PROVE  /\ vzero.pc = "idle" /\ vzero'.pc = "cases" /\ vzero'.done = 0
         /\ vzero'.forced = <<>> /\ vzero'.meta.fixture = manifest
         /\ manifest.status = "COMPLETE"
         /\ starts'["cap"] = starts["cap"] /\ starts'["prob"] = starts["prob"]
         /\ UNCHANGED <<targets, refs, probs, manifest, cap, prob, vzeroRuns, pair, scored>>
<1>1. starts'["cap"] = starts["cap"] /\ starts'["prob"] = starts["prob"]
  BY StartFact, KindFact DEF Prepare, Types
<1> QED BY <1>1 DEF Prepare, fixtures, runs

LEMMA EvaluateCaseEffect ==
  ASSUME Types, EvaluateCase
  PROVE  /\ vzero.pc = "cases"
         /\ \/ vzero' = Idle
            \/ /\ vzero.done + 1 \in Cases /\ vzero'.done = vzero.done + 1
               /\ vzero'.pc = "cases" /\ vzero'.meta = vzero.meta
               /\ Len(vzero'.forced) = Len(vzero.forced) + 1
               /\ vzero'.forced[Len(vzero.forced) + 1] = targets[vzero.done + 1]
               /\ \A i \in 1 .. Len(vzero.forced) : vzero'.forced[i] = vzero.forced[i]
         /\ UNCHANGED <<targets, refs, probs, manifest, cap, prob, vzeroRuns, pair, scored,
                        starts>>
<1>1. vzero.pc = "cases" /\ vzero.pc # "idle" /\ vzero.done < NCases
  BY DEF EvaluateCase
<1>2. /\ vzero \in Evaluations /\ vzero.done + 1 \in Cases
      /\ vzero.forced \in Seq(AllAnswers)
  BY <1>1, VzeroActive, CasesFact DEF Types
<1>3. CASE vzero' # Idle
  <2>1. /\ targets[vzero.done + 1] # None
        /\ vzero' = [vzero EXCEPT !.done = vzero.done + 1,
                                  !.read = Append(@, tokens[vzero.done + 1]),
                                  !.forced = Append(@, targets[vzero.done + 1])]
    BY <1>3 DEF EvaluateCase
  <2>2. targets[vzero.done + 1] \in AllAnswers
    BY <1>2, <2>1 DEF Types, FixtureType, Ids
  <2>3. /\ vzero'.pc = "cases" /\ vzero'.meta = vzero.meta
        /\ vzero'.done = vzero.done + 1
        /\ vzero'.forced = Append(vzero.forced, targets[vzero.done + 1])
    BY <1>1, <1>2, <2>1 DEF Evaluations
  <2> QED BY <1>1, <1>2, <2>2, <2>3, AppendFact DEF EvaluateCase, fixtures, runs
<1>4. CASE vzero' = Idle
  BY <1>1, <1>4 DEF EvaluateCase, fixtures, runs
<1> QED BY <1>3, <1>4

LEMMA EvaluationCompleteEffect ==
  ASSUME Types, EvaluationComplete
  PROVE  /\ vzero.pc = "cases" /\ vzero.done = NCases /\ vzero' = Idle
         /\ \A v \in vzeroRuns' : \/ v \in vzeroRuns
                                  \/ v.meta = vzero.meta /\ v.forced = vzero.forced
         /\ UNCHANGED <<targets, refs, probs, manifest, cap, prob, pair, scored, starts>>
  BY DEF EvaluationComplete, fixtures

LEMMA PairStartEffect ==
  ASSUME Types, NEW l \in llamaRuns, NEW v \in vzeroRuns, PairStart(l, v)
  PROVE  /\ pair.pc = "idle"
         /\ \/ pair' = Idle
            \/ /\ Lineage(l, v)
               /\ pair'.pc = "score" /\ pair'.m = manifest /\ pair'.l = l /\ pair'.v = v
               /\ pair'.ids = probs.ids /\ pair'.used = <<>>
         /\ starts'["cap"] = starts["cap"] /\ starts'["prob"] = starts["prob"]
         /\ UNCHANGED <<targets, refs, probs, manifest, cap, prob, vzero, vzeroRuns, scored>>
<1>1. starts'["cap"] = starts["cap"] /\ starts'["prob"] = starts["prob"]
  BY StartFact, KindFact DEF PairStart, Types
<1> QED BY <1>1 DEF PairStart, fixtures, runs

LEMMA ScoreCaseEffect ==
  ASSUME Types, ScoreCase
  PROVE  /\ pair.pc = "score"
         /\ \/ pair' = Idle
            \/ /\ Len(pair.used) + 1 \in Cases
               /\ targets[Len(pair.used) + 1] = pair.ids[Len(pair.used) + 1]
               /\ pair'.pc = "score" /\ pair'.m = pair.m /\ pair'.l = pair.l
               /\ pair'.v = pair.v /\ pair'.ids = pair.ids
               /\ Len(pair'.used) = Len(pair.used) + 1
               /\ pair'.used[Len(pair.used) + 1] = targets[Len(pair.used) + 1]
               /\ \A i \in 1 .. Len(pair.used) : pair'.used[i] = pair.used[i]
         /\ UNCHANGED <<targets, refs, probs, manifest, cap, prob, vzero, vzeroRuns, scored,
                        starts>>
<1>1. pair.pc = "score" /\ pair.pc # "idle" /\ Len(pair.used) < NCases
  BY DEF ScoreCase
<1>2. pair \in Pairings /\ pair.used \in Seq(AllAnswers \cup {None})
  BY <1>1, PairActive DEF Types
<1>3. Len(pair.used) + 1 \in Cases
  BY <1>1, <1>2, LenProperties, CasesFact
<1>4. CASE pair' # Idle
  <2> DEFINE x == targets[Len(pair.used) + 1]
  <2>1. x = pair.ids[Len(pair.used) + 1] /\ pair' = [pair EXCEPT !.used = Append(@, x)]
    BY <1>4 DEF ScoreCase
  <2>2. x \in AllAnswers \cup {None}
    BY <1>3 DEF Types, FixtureType, Ids
  <2> HIDE DEF x
  <2>3. /\ pair'.pc = "score" /\ pair'.m = pair.m /\ pair'.l = pair.l
        /\ pair'.v = pair.v /\ pair'.ids = pair.ids
        /\ pair'.used = Append(pair.used, x)
    BY <1>1, <1>2, <2>1 DEF Pairings
  <2>4. /\ Len(pair'.used) = Len(pair.used) + 1
        /\ pair'.used[Len(pair.used) + 1] = x
        /\ \A i \in 1 .. Len(pair.used) : pair'.used[i] = pair.used[i]
    BY <1>2, <2>2, <2>3, AppendFact
  <2> QED BY <1>1, <1>3, <2>1, <2>3, <2>4 DEF ScoreCase, fixtures, runs, x
<1>5. CASE pair' = Idle
  BY <1>1, <1>5 DEF ScoreCase, fixtures, runs
<1> QED BY <1>4, <1>5

LEMMA WriteSummaryEffect ==
  ASSUME WriteSummary
  PROVE  /\ pair.pc = "score" /\ Len(pair.used) = NCases /\ pair' = Idle
         /\ \A s \in scored' : \/ s \in scored
                               \/ /\ s.l = pair.l /\ s.v = pair.v
                                  /\ s.used = pair.used /\ s.m = pair.m
         /\ UNCHANGED <<targets, refs, probs, manifest, cap, prob, vzero, vzeroRuns, starts>>
<1>1. PICK r \in ReviewFiles, gate \in GateStatuses :
           scored' = IF ReviewBound(pair.l, pair.v, r)
                     THEN scored \cup
                            {[l |-> pair.l, v |-> pair.v, used |-> pair.used,
                              m |-> pair.m, policy |-> pair.policy, r |-> r,
                              status |-> Overall({gate, pair.v.replay, ReviewStatus(r)})]}
                     ELSE scored
  BY DEF WriteSummary
<1> QED BY <1>1 DEF WriteSummary, fixtures

-----------------------------------------------------------------------------
(* Every step keeps the invariant, one part at a time.                       *)

LEMMA CaptureShapeStep ==
  ASSUME Types, CaptureShape, [Next]_vars
  PROVE  CaptureShape'
<1>1. CASE CaptureStart
  BY <1>1, CaptureStartEffect, KindFact DEF CaptureShape, Types, WorldType
<1>2. CASE CaptureCase
  <2> DEFINE c == cap.m.done + 1
  <2>1. /\ c \in Cases /\ cap'.pc = "cases" /\ cap.pc = "cases" /\ cap.m.done \in Nat
        /\ cap'.m.done = c /\ cap'.m.status = cap.m.status
        /\ cap'.m.attempt = cap.m.attempt /\ cap'.m.image = cap.m.image
        /\ Len(cap'.got) = c /\ cap'.got[c] = targets'[c]
        /\ \A i \in 1 .. cap.m.done : cap'.got[i] = cap.got[i]
        /\ starts' = starts
        /\ \A d \in Cases \ {c} : targets'[d] = targets[d]
    <3>1. cap.m.done \in Nat
      BY <1>2, CaptureActive, CasesFact, CaptureCaseEffect DEF Types
    <3> QED BY <1>2, <3>1, CaptureCaseEffect
  <2>2. \A d \in 1 .. c : targets'[d] = cap'.got[d]
    <3> SUFFICES ASSUME NEW d \in 1 .. cap.m.done PROVE targets'[d] = cap'.got[d]
      BY <2>1
    <3>1. d \in Cases \ {c}
      BY <2>1, CasesFact
    <3>2. targets[d] = cap.got[d]
      BY <2>1 DEF CaptureShape
    <3> QED BY <2>1, <3>1, <3>2
  <2> HIDE DEF c
  <2> QED BY <2>1, <2>2 DEF CaptureShape
<1>3. CASE CaptureWriteRefs
  BY <1>3, CaptureWriteRefsEffect DEF CaptureShape
<1>4. CASE CaptureComplete
  BY <1>4, CaptureCompleteEffect DEF CaptureShape
<1>5. CASE ~(CaptureStart \/ CaptureCase \/ CaptureWriteRefs \/ CaptureComplete)
  <2>1. CASE cap' = Idle
    BY <2>1, IdleFact DEF CaptureShape
  <2>2. CASE cap' # Idle
    <3>1. /\ cap' = cap /\ targets' = targets /\ refs' = refs
          /\ starts'["cap"] = starts["cap"]
      BY <1>5, <2>2, StepCases, FreshEffect, CaptureFailsEffect, ProbStartEffect,
         ProbCaseEffect, ProbWriteSidecarEffect, ProbCompleteEffect, PrepareEffect,
         EvaluateCaseEffect, EvaluationCompleteEffect, PairStartEffect, ScoreCaseEffect,
         WriteSummaryEffect DEF Types, Quiet, Stop
    <3> QED BY <3>1 DEF CaptureShape
  <2> QED BY <2>1, <2>2
<1> QED BY <1>1, <1>2, <1>3, <1>4, <1>5

LEMMA CompleteShapeStep ==
  ASSUME Types, CaptureShape, CompleteShape, [Next]_vars
  PROVE  CompleteShape'
<1> USE DEF CompleteShape
<1>1. CASE Quiet \/ Stop
  BY <1>1, IdleFact DEF Quiet, Stop
<1>2. CASE WriteFreshManifest
  BY <1>2, FreshEffect
<1>3. CASE CaptureStart
  BY <1>3, CaptureStartEffect
<1>4. CASE CaptureCase
  BY <1>4, CaptureCaseEffect DEF CaptureShape
<1>5. CASE CaptureWriteRefs
  BY <1>5, CaptureWriteRefsEffect
<1>6. CASE CaptureComplete
  BY <1>6, CaptureCompleteEffect DEF CaptureShape
<1>7. CASE CaptureFails
  BY <1>7, CaptureFailsEffect
<1>8. CASE ProbStart
  BY <1>8, ProbStartEffect
<1>9. CASE ProbCase
  BY <1>9, ProbCaseEffect, IdleFact
<1>10. CASE ProbWriteSidecar
  BY <1>10, ProbWriteSidecarEffect
<1>11. CASE ProbComplete
  BY <1>11, ProbCompleteEffect, IdleFact
<1>12. CASE \/ Prepare \/ EvaluateCase \/ EvaluationComplete \/ ScoreCase \/ WriteSummary
            \/ \E l \in llamaRuns, v \in vzeroRuns : PairStart(l, v)
  BY <1>12, PrepareEffect, EvaluateCaseEffect, EvaluationCompleteEffect, PairStartEffect,
     ScoreCaseEffect, WriteSummaryEffect
<1> QED BY <1>1, <1>2, <1>3, <1>4, <1>5, <1>6, <1>7, <1>8, <1>9, <1>10, <1>11, <1>12,
           StepCases DEF Types

\* The steps that leave the fixtures, the captures and the summaries alone.
Aside == \/ Prepare \/ EvaluateCase \/ EvaluationComplete \/ ScoreCase \/ WriteSummary
         \/ \E l \in llamaRuns, v \in vzeroRuns : PairStart(l, v)

LEMMA AsideEffect ==
  ASSUME Types, Aside
  PROVE  /\ UNCHANGED <<targets, refs, probs, manifest, cap, prob>>
         /\ starts'["cap"] = starts["cap"] /\ starts'["prob"] = starts["prob"]
  BY PrepareEffect, EvaluateCaseEffect, EvaluationCompleteEffect, PairStartEffect,
     ScoreCaseEffect, WriteSummaryEffect DEF Aside

LEMMA PreparedType ==
  ASSUME Types, NEW f \in Prepared
  PROVE  f \in Manifests /\ f.attempt \in Nat /\ f.probAttempt \in Nat
<1>1. f \in Manifests
  <2>1. CASE \E v \in vzeroRuns : f = v.meta.fixture
    BY <2>1 DEF Types, ScriptType, Evaluated, Metas
  <2>2. CASE vzero.pc # "idle" /\ f = vzero.meta.fixture
    BY <2>2, VzeroActive DEF Types, Metas
  <2> QED BY <2>1, <2>2 DEF Prepared
<1> QED BY <1>1 DEF Manifests

\* Only a preparation adds a manifest that evaluations speak of.
LEMMA PreparedStep ==
  ASSUME Types, [Next]_vars, NEW f \in Prepared'
  PROVE  f \in Prepared \/ (Prepare /\ f = manifest)
<1>1. CASE Prepare
  BY <1>1, PrepareEffect DEF Prepared
<1>2. CASE EvaluateCase
  BY <1>2, EvaluateCaseEffect, IdleFact DEF Prepared
<1>3. CASE EvaluationComplete
  BY <1>3, EvaluationCompleteEffect, IdleFact DEF Prepared
<1>4. CASE ~(Prepare \/ EvaluateCase \/ EvaluationComplete)
  <2>1. vzero' \in {vzero, Idle} /\ vzeroRuns' = vzeroRuns
    BY <1>4, StepCases DEF Types, Quiet, Stop, WriteFreshManifest, CaptureStart,
       CaptureCase, CaptureWriteRefs, CaptureComplete, CaptureFails, ProbStart, ProbCase,
       ProbWriteSidecar, ProbComplete, PairStart, ScoreCase, WriteSummary, runs
  <2> QED BY <2>1, IdleFact DEF Prepared
<1> QED BY <1>1, <1>2, <1>3, <1>4

LEMMA NumberType ==
  ASSUME Types
  PROVE  /\ starts["cap"] \in Nat /\ starts["prob"] \in Nat
         /\ manifest.attempt \in Nat /\ manifest.probAttempt \in Nat
         /\ cap.pc # "idle" => cap.m.attempt \in Nat /\ cap.m.probAttempt \in Nat
         /\ prob.pc # "idle" => prob.m.attempt \in Nat /\ prob.m.probAttempt \in Nat
<1>1. starts["cap"] \in Nat /\ starts["prob"] \in Nat
  BY KindFact DEF Types, WorldType
<1>2. manifest.attempt \in Nat /\ manifest.probAttempt \in Nat
  BY DEF Types, FixtureType, Manifests
<1>3. cap.pc # "idle" => cap.m.attempt \in Nat /\ cap.m.probAttempt \in Nat
  BY CaptureActive DEF Types, Manifests
<1>4. prob.pc # "idle" => prob.m.attempt \in Nat /\ prob.m.probAttempt \in Nat
  BY ProbActive DEF Types, Manifests
<1> QED BY <1>1, <1>2, <1>3, <1>4

LEMMA StampedStep ==
  ASSUME Types, CaptureShape, CompleteShape, Stamped, [Next]_vars
  PROVE  Stamped'
<1> DEFINE Still(f) == f.status = "COMPLETE" /\ CaptureIsOver(f.attempt)
                                             /\ ProbingIsOver(f.probAttempt)
           Newly(f) == f.status = "COMPLETE" /\ CaptureIsOver(f.attempt)'
                                             /\ ProbingIsOver(f.probAttempt)'
           Own == /\ ProbingIsOver(manifest.probAttempt)
                  /\ cap.pc # "idle" => ProbingIsOver(cap.m.probAttempt)
                  /\ manifest.status = "COMPLETE" => CaptureIsOver(manifest.attempt)
                  /\ prob.pc # "idle" => CaptureIsOver(prob.m.attempt)
                  /\ prob.pc = "publish" => prob.m.probAttempt = starts["prob"]
<1>1. SUFFICES /\ Own'
               /\ \A f \in Prepared : Newly(f)
               /\ Prepare => \A f : f = manifest => Newly(f)
  BY PreparedStep DEF Stamped
<1>2. /\ Own /\ \A f \in Prepared : Still(f)
  BY DEF Stamped
<1>3. \A f \in Prepared : f.attempt \in Nat /\ f.probAttempt \in Nat
  BY PreparedType
<1> USE NumberType DEF CaptureIsOver, ProbingIsOver
<1>4. CASE Quiet \/ Stop
  BY <1>2, <1>4, IdleFact, PrepareEffect DEF Quiet, Stop
<1>5. CASE WriteFreshManifest
  BY <1>2, <1>5, FreshEffect, PrepareEffect
<1>6. CASE CaptureStart
  BY <1>2, <1>3, <1>6, CaptureStartEffect, PrepareEffect
<1>7. CASE CaptureCase
  BY <1>2, <1>7, CaptureCaseEffect, PrepareEffect DEF CaptureShape
<1>8. CASE CaptureWriteRefs
  BY <1>2, <1>8, CaptureWriteRefsEffect, PrepareEffect
<1>9. CASE CaptureComplete
  BY <1>2, <1>9, CaptureCompleteEffect, PrepareEffect DEF CaptureShape
<1>10. CASE CaptureFails
  BY <1>2, <1>10, CaptureFailsEffect, IdleFact, PrepareEffect
<1>11. CASE ProbStart
  BY <1>2, <1>3, <1>11, ProbStartEffect, PrepareEffect
<1>12. CASE ProbCase
  BY <1>2, <1>12, ProbCaseEffect, IdleFact, PrepareEffect
<1>13. CASE ProbWriteSidecar
  BY <1>2, <1>13, ProbWriteSidecarEffect, PrepareEffect
<1>14. CASE ProbComplete
  BY <1>2, <1>14, ProbCompleteEffect, IdleFact, PrepareEffect
<1>15. CASE Aside
  BY <1>2, <1>15, AsideEffect, PrepareEffect
<1> QED BY <1>4, <1>5, <1>6, <1>7, <1>8, <1>9, <1>10, <1>11, <1>12, <1>13, <1>14, <1>15,
           StepCases DEF Types, Aside

\* No step writes a manifest that an evaluation was prepared from: those that
\* are not complete are none, and the complete ones carry a number of their own.
LEMMA NeverAgain ==
  ASSUME Types, CaptureShape, CompleteShape, Stamped, [Next]_vars,
         NEW f \in Prepared, manifest' = f
  PROVE  manifest' = manifest /\ targets' = targets
<1>1. /\ f.status = "COMPLETE" /\ CaptureIsOver(f.attempt) /\ ProbingIsOver(f.probAttempt)
      /\ f.attempt \in Nat /\ f.probAttempt \in Nat
  BY PreparedType DEF Stamped
<1>2. ~WriteFreshManifest
  BY <1>1, FreshEffect
<1>3. ~CaptureStart
  BY <1>1, CaptureStartEffect
<1>4. ~CaptureCase
  BY <1>1, CaptureCaseEffect DEF CaptureShape
<1>5. ~CaptureFails
  BY <1>1, CaptureFailsEffect
<1>6. ~CaptureComplete
  BY <1>1, CaptureCompleteEffect, NumberType DEF CaptureShape, CaptureIsOver
<1>7. ~ProbComplete
  BY <1>1, ProbCompleteEffect, NumberType DEF Stamped, ProbingIsOver
<1>8. CASE Quiet \/ Stop \/ CaptureWriteRefs \/ ProbStart \/ ProbCase \/ ProbWriteSidecar \/ Aside
  BY <1>8, CaptureWriteRefsEffect, ProbStartEffect, ProbCaseEffect, ProbWriteSidecarEffect,
     AsideEffect DEF Quiet, Stop
<1> QED BY <1>2, <1>3, <1>4, <1>5, <1>6, <1>7, <1>8, StepCases DEF Types, Aside

LEMMA ForcedStep ==
  ASSUME Types, CaptureShape, CompleteShape, Stamped, Forced, [Next]_vars
  PROVE  Forced'
\* What was true of an evaluation stays true of it.
<1>1. ASSUME NEW f \in Prepared, f = manifest', NEW n, NEW s,
             f = manifest => \A c \in 1 .. n : s[c] = targets[c]
      PROVE  \A c \in 1 .. n : s[c] = targets'[c]
  BY <1>1, NeverAgain
<1>2. vzero.pc # "idle" =>
        /\ vzero.meta.fixture \in Prepared
        /\ Len(vzero.forced) = vzero.done /\ vzero.done \in Nat
        /\ vzero.meta.fixture = manifest' =>
              \A c \in 1 .. vzero.done : vzero.forced[c] = targets'[c]
  <2>1. SUFFICES ASSUME vzero.pc # "idle"
                 PROVE  /\ vzero.meta.fixture \in Prepared
                        /\ Len(vzero.forced) = vzero.done /\ vzero.done \in Nat
                        /\ vzero.meta.fixture = manifest' =>
                              \A c \in 1 .. vzero.done : vzero.forced[c] = targets'[c]
    OBVIOUS
  <2>2. vzero.meta.fixture \in Prepared
    BY <2>1 DEF Prepared
  <2>3. vzero.done \in Nat
    BY <2>1, VzeroActive, CasesFact DEF Types
  <2>4. /\ Len(vzero.forced) = vzero.done
        /\ vzero.meta.fixture = manifest =>
              \A c \in 1 .. vzero.done : vzero.forced[c] = targets[c]
    BY <2>1 DEF Forced
  <2> QED BY <1>1, <2>2, <2>3, <2>4
<1>3. ASSUME NEW v \in vzeroRuns
      PROVE  /\ Len(v.forced) = NCases
             /\ v.meta.fixture = manifest' => \A c \in Cases : v.forced[c] = targets'[c]
  <2>1. v.meta.fixture \in Prepared
    BY DEF Prepared
  <2>2. v.meta.fixture = manifest => \A c \in 1 .. NCases : v.forced[c] = targets[c]
    BY CasesFact DEF Forced
  <2>3. v.meta.fixture = manifest' => \A c \in 1 .. NCases : v.forced[c] = targets'[c]
    BY <1>1, <2>1, <2>2
  <2> QED BY <2>3, CasesFact DEF Forced
<1>4. \A v \in vzeroRuns' :
         /\ Len(v.forced) = NCases
         /\ v.meta.fixture = manifest' => \A c \in Cases : v.forced[c] = targets'[c]
  <2>1. CASE EvaluationComplete
    BY <1>2, <1>3, <2>1, EvaluationCompleteEffect, CasesFact
  <2>2. CASE ~EvaluationComplete
    <3>1. vzeroRuns' = vzeroRuns
      BY <2>2, StepCases DEF Types, Quiet, Stop, WriteFreshManifest, CaptureStart,
         CaptureCase, CaptureWriteRefs, CaptureComplete, CaptureFails, ProbStart,
         ProbCase, ProbWriteSidecar, ProbComplete, Prepare, EvaluateCase, PairStart,
         ScoreCase, WriteSummary, runs
    <3> QED BY <1>3, <3>1
  <2> QED BY <2>1, <2>2
<1>5. vzero'.pc # "idle" =>
         /\ Len(vzero'.forced) = vzero'.done
         /\ vzero'.meta.fixture = manifest' =>
               \A c \in 1 .. vzero'.done : vzero'.forced[c] = targets'[c]
  <2>1. CASE Prepare
    BY <2>1, PrepareEffect
  <2>2. CASE EvaluateCase
    <3>1. CASE vzero' = Idle
      BY <3>1, IdleFact
    <3>2. CASE vzero' # Idle
      <4>1. /\ vzero'.done = vzero.done + 1 /\ vzero'.meta = vzero.meta
            /\ Len(vzero'.forced) = Len(vzero.forced) + 1
            /\ vzero'.forced[Len(vzero.forced) + 1] = targets[vzero.done + 1]
            /\ \A i \in 1 .. Len(vzero.forced) : vzero'.forced[i] = vzero.forced[i]
            /\ vzero.pc # "idle" /\ targets' = targets
        BY <2>2, <3>2, EvaluateCaseEffect
      <4>2. Len(vzero'.forced) = vzero'.done
        BY <1>2, <4>1
      <4>3. ASSUME vzero'.meta.fixture = manifest', NEW c \in 1 .. vzero'.done
            PROVE  vzero'.forced[c] = targets'[c]
        <5>1. CASE c \in 1 .. vzero.done
          <6>1. vzero'.forced[c] = vzero.forced[c]
            BY <1>2, <4>1, <5>1
          <6>2. vzero.meta.fixture = manifest'
            BY <4>1, <4>3
          <6> QED BY <1>2, <4>1, <5>1, <6>1, <6>2
        <5>2. CASE c = vzero.done + 1
          BY <1>2, <4>1, <5>2
        <5>3. c \in 1 .. vzero.done \/ c = vzero.done + 1
          BY <1>2, <4>1, <4>3
        <5> QED BY <5>1, <5>2, <5>3
      <4> QED BY <4>2, <4>3
    <3> QED BY <3>1, <3>2
  <2>3. CASE ~(Prepare \/ EvaluateCase)
    <3>1. vzero' \in {vzero, Idle}
      BY <2>3, StepCases DEF Types, Quiet, Stop, WriteFreshManifest, CaptureStart,
         CaptureCase, CaptureWriteRefs, CaptureComplete, CaptureFails, ProbStart,
         ProbCase, ProbWriteSidecar, ProbComplete, EvaluationComplete, PairStart,
         ScoreCase, WriteSummary
    <3> QED BY <1>2, <3>1, IdleFact
  <2> QED BY <2>1, <2>2, <2>3
<1> QED BY <1>4, <1>5 DEF Forced

\* What a report that starts has checked, with what the candidate was forced on.
LEMMA LineageFact ==
  ASSUME Types, Forced, NEW l \in llamaRuns, NEW v \in vzeroRuns, Lineage(l, v)
  PROVE  /\ manifest.refs \in Rows /\ manifest.probs \in Sidecars
         /\ probs = manifest.probs /\ refs = manifest.refs
         /\ probs.rows = refs /\ l.refs = refs /\ v.forced = refs
         /\ \A c \in Cases : targets[c] = refs[c]
<1>1. /\ manifest.refs # None /\ manifest.probs # None
      /\ refs = manifest.refs /\ probs = manifest.probs
      /\ \A c \in Cases : targets[c] = refs[c] /\ probs.rows[c] = refs[c]
      /\ l.refs = manifest.refs /\ v.meta.fixture = manifest
  BY DEF Lineage, FilesBound, LlamaBound, CoreBound
<1>2. refs \in Rows /\ probs \in Sidecars
  BY <1>1 DEF Types, FixtureType
<1>3. probs.rows = refs
  BY <1>1, <1>2 DEF Sidecars, Rows
<1>4. v.forced = refs
  <2>1. /\ v.forced \in Seq(AllAnswers) /\ Len(v.forced) = NCases
        /\ \A c \in Cases : v.forced[c] = refs[c]
    BY <1>1 DEF Forced, Types, ScriptType, Evaluated
  <2>2. v.forced \in [Cases -> AllAnswers]
    BY <2>1, LenProperties, CasesFact
  <2> QED BY <1>2, <2>1, <2>2 DEF Rows
<1> QED BY <1>1, <1>2, <1>3, <1>4

LEMMA PairedStep ==
  ASSUME Types, Forced, Paired, [Next]_vars
  PROVE  Paired'
<1>1. ASSUME NEW l \in llamaRuns, NEW v \in vzeroRuns, PairStart(l, v) PROVE Paired'
  <2>1. CASE pair' = Idle
    BY <2>1, IdleFact DEF Paired
  <2>2. CASE pair' # Idle
    <3>1. /\ Lineage(l, v) /\ pair'.m = manifest /\ pair'.l = l /\ pair'.v = v
          /\ pair'.ids = probs.ids /\ pair'.used = <<>>
      BY <1>1, <2>2, PairStartEffect
    <3>2. Len(pair'.used) = 0
      BY <3>1
    <3> QED BY <3>1, <3>2, LineageFact, CasesFact DEF Paired
  <2> QED BY <2>1, <2>2
<1>2. CASE ScoreCase
  <2>1. CASE pair' = Idle
    BY <2>1, IdleFact DEF Paired
  <2>2. CASE pair' # Idle
    <3>1. pair.pc # "idle" /\ Len(pair.used) \in Nat
      BY <1>2, ScoreCaseEffect, PairActive, LenProperties DEF Types
    <3> QED BY <1>2, <2>2, <3>1, ScoreCaseEffect, CasesFact DEF Paired
  <2> QED BY <2>1, <2>2
<1>3. CASE ~(ScoreCase \/ \E l \in llamaRuns, v \in vzeroRuns : PairStart(l, v))
  <2>1. pair' \in {pair, Idle}
    BY <1>3, StepCases DEF Types, Quiet, Stop, WriteFreshManifest, CaptureStart,
       CaptureCase, CaptureWriteRefs, CaptureComplete, CaptureFails, ProbStart, ProbCase,
       ProbWriteSidecar, ProbComplete, Prepare, EvaluateCase, EvaluationComplete,
       WriteSummary
  <2> QED BY <2>1, IdleFact DEF Paired
<1> QED BY <1>1, <1>2, <1>3

LEMMA BoundStep ==
  ASSUME Types, Paired, TargetsAreBound, [Next]_vars
  PROVE  TargetsAreBound'
<1>1. CASE WriteSummary
  <2>1. /\ pair.pc # "idle" /\ Len(pair.used) = NCases
        /\ \A s \in scored' : \/ s \in scored
                              \/ /\ s.l = pair.l /\ s.v = pair.v
                                 /\ s.used = pair.used /\ s.m = pair.m
    BY <1>1, WriteSummaryEffect
  <2>2. pair.used = pair.ids
    <3>1. pair.used \in Seq(AllAnswers \cup {None}) /\ pair.ids \in Ids
      BY <2>1, PairActive DEF Types
    <3>2. pair.used \in [Cases -> AllAnswers \cup {None}]
      BY <2>1, <3>1, LenProperties, CasesFact
    <3>3. \A c \in Cases : pair.used[c] = pair.ids[c]
      BY <2>1, CasesFact DEF Paired
    <3> QED BY <3>1, <3>2, <3>3 DEF Ids
  <2> QED BY <2>1, <2>2 DEF TargetsAreBound, Paired
<1>2. CASE ~WriteSummary
  <2>1. scored' = scored
    BY <1>2, StepCases DEF Types, Quiet, Stop, WriteFreshManifest, CaptureStart,
       CaptureCase, CaptureWriteRefs, CaptureComplete, CaptureFails, ProbStart, ProbCase,
       ProbWriteSidecar, ProbComplete, Prepare, EvaluateCase, EvaluationComplete,
       PairStart, ScoreCase, runs
  <2> QED BY <2>1 DEF TargetsAreBound
<1> QED BY <1>1, <1>2

\* A target that changes takes a capture that had not written it yet.
LEMMA WrittenStep ==
  ASSUME Types, CaptureShape, [Next]_vars, NEW c \in Cases
  PROVE  /\ Written(c) \in Int /\ Written(c)' \in Int
         /\ Written(c)' >= Written(c)
         /\ targets'[c] # targets[c] => Written(c)' >= Written(c) + 1
         /\ starts'["cap"] >= starts["cap"]
<1>1. starts["cap"] \in Nat /\ c \in Nat /\ c >= 1 /\ c <= NCases /\ NCases \in Nat
  BY KindFact, CasesFact DEF Types, WorldType
<1> USE DEF Written
<1>2. CASE CaptureStart
  BY <1>1, <1>2, CaptureStartEffect
<1>3. CASE CaptureCase
  <2>1. cap.m.done \in Nat
    BY <1>3, CaptureCaseEffect, CaptureActive, CasesFact DEF Types
  <2>2. /\ cap.pc = "cases" /\ cap'.pc = "cases" /\ starts' = starts
        /\ cap'.m.done = cap.m.done + 1
        /\ c # cap.m.done + 1 => targets'[c] = targets[c]
    BY <1>3, CaptureCaseEffect
  <2> QED BY <1>1, <2>1, <2>2
<1>4. CASE CaptureWriteRefs
  BY <1>1, <1>4, CaptureWriteRefsEffect
<1>5. CASE CaptureComplete
  BY <1>1, <1>5, CaptureCompleteEffect
<1>6. CASE ~(CaptureStart \/ CaptureCase \/ CaptureWriteRefs \/ CaptureComplete)
  <2>1. /\ cap' \in {cap, Idle} /\ targets' = targets
        /\ starts'["cap"] = starts["cap"]
    BY <1>6, StepCases, FreshEffect, CaptureFailsEffect, ProbStartEffect,
       ProbCaseEffect, ProbWriteSidecarEffect, ProbCompleteEffect, AsideEffect
       DEF Types, Quiet, Stop, Aside
  <2> QED BY <1>1, <2>1, IdleFact
<1> QED BY <1>2, <1>3, <1>4, <1>5, <1>6

LEMMA RecapturedStep ==
  ASSUME Types, CaptureShape, CompleteShape, Forced, Paired, Recaptured, [Next]_vars
  PROVE  Recaptured'
<1>1. ASSUME NEW c \in Cases
      PROVE  /\ c \in Nat /\ c >= 1 /\ c <= NCases
             /\ Written(c) \in Int /\ Written(c)' \in Int
             /\ Written(c)' >= Written(c)
             /\ targets'[c] # targets[c] => Written(c)' >= Written(c) + 1
  BY WrittenStep, CasesFact
<1>2. ASSUME refs' \in Rows, NEW c \in Cases
      PROVE  Written(c)' >= 1 /\ (targets'[c] # refs'[c] => Written(c)' >= 2)
  <2>1. CASE CaptureWriteRefs
    <3>1. /\ refs' = cap.got /\ targets' = targets /\ cap.m.done = NCases
          /\ cap'.pc = "publish" /\ starts' = starts /\ cap.pc # "idle"
      BY <2>1, CaptureWriteRefsEffect
    <3>2. targets[c] = cap.got[c] /\ starts["cap"] >= 1 /\ starts["cap"] \in Nat
      BY <1>1, <3>1, CasesFact, NumberType DEF CaptureShape
    <3>3. Written(c)' = starts["cap"]
      BY <3>1, <3>2 DEF Written
    <3> QED BY <3>1, <3>2, <3>3
  <2>2. CASE ~CaptureWriteRefs
    <3>1. refs' = refs
      BY <2>2, StepCases, FreshEffect, CaptureStartEffect, CaptureCaseEffect,
         CaptureCompleteEffect, CaptureFailsEffect, ProbStartEffect, ProbCaseEffect,
         ProbWriteSidecarEffect, ProbCompleteEffect, AsideEffect
         DEF Types, Quiet, Stop, Aside
    <3> QED BY <1>1, <1>2, <3>1 DEF Recaptured
  <2> QED BY <2>1, <2>2
<1>3. ASSUME prob'.pc # "idle", NEW c \in Cases, prob'.ids[c] # prob'.rows[c]
      PROVE  /\ Written(c)' >= 2
             /\ targets'[c] = prob'.rows[c] \/ c <= prob'.done => Written(c)' >= 3
             /\ targets'[c] # prob'.rows[c] /\ c <= prob'.done => Written(c)' >= 4
  <2>1. CASE ProbStart
    <3>1. /\ prob'.rows = refs /\ prob'.ids = targets /\ prob'.done = 0
          /\ targets' = targets /\ refs \in Rows
      BY <2>1, ProbStartEffect DEF CompleteShape
    <3> QED BY <1>1, <1>3, <3>1 DEF Recaptured
  <2>2. CASE ProbCase
    <3>1. /\ prob'.done = prob.done + 1 /\ prob.pc # "idle"
          /\ targets[prob.done + 1] = prob.rows[prob.done + 1]
          /\ prob'.rows = prob.rows /\ prob'.ids = prob.ids /\ targets' = targets
      BY <1>3, <2>2, ProbCaseEffect, IdleFact
    <3>2. prob.done \in Nat
      BY <3>1, ProbActive, CasesFact DEF Types
    <3>3. c <= prob'.done => c <= prob.done \/ c = prob.done + 1
      BY <1>1, <3>1, <3>2
    <3> QED BY <1>1, <1>3, <3>1, <3>2, <3>3 DEF Recaptured
  <2>3. CASE ProbWriteSidecar
    BY <1>1, <1>3, <2>3, ProbWriteSidecarEffect DEF Recaptured
  <2>4. CASE ~(ProbStart \/ ProbCase \/ ProbWriteSidecar)
    <3>1. prob' = prob
      BY <1>3, <2>4, StepCases, IdleFact, FreshEffect, CaptureStartEffect, CaptureCaseEffect,
         CaptureWriteRefsEffect, CaptureCompleteEffect, CaptureFailsEffect,
         ProbCompleteEffect, AsideEffect DEF Types, Quiet, Stop, Aside
    <3>2. prob.done \in Nat
      BY <1>3, <3>1, ProbActive, CasesFact DEF Types
    <3> QED BY <1>1, <1>3, <3>1, <3>2 DEF Recaptured
  <2> QED BY <2>1, <2>2, <2>3, <2>4
<1>4. ASSUME probs' \in Sidecars, NEW c \in Cases, probs'.ids[c] # probs'.rows[c]
      PROVE  Written(c)' >= 3 /\ (targets'[c] # probs'.rows[c] => Written(c)' >= 4)
  <2>1. CASE ProbWriteSidecar
    <3>1. /\ prob.pc # "idle" /\ prob.done = NCases /\ targets' = targets
          /\ probs'.rows = prob.rows /\ probs'.ids = prob.ids
      BY <2>1, ProbWriteSidecarEffect
    <3> QED BY <1>1, <1>4, <3>1 DEF Recaptured
  <2>2. CASE ~ProbWriteSidecar
    <3>1. probs' = probs
      BY <2>2, StepCases, FreshEffect, CaptureStartEffect, CaptureCaseEffect,
         CaptureWriteRefsEffect, CaptureCompleteEffect, CaptureFailsEffect,
         ProbStartEffect, ProbCaseEffect, ProbCompleteEffect, AsideEffect
         DEF Types, Quiet, Stop, Aside
    <3> QED BY <1>1, <1>4, <3>1 DEF Recaptured
  <2> QED BY <2>1, <2>2
<1>5. ASSUME pair'.pc # "idle", NEW c \in Cases, pair'.ids[c] # pair'.m.refs[c]
      PROVE  /\ Written(c)' >= 3
             /\ targets'[c] # pair'.m.refs[c] => Written(c)' >= 4
             /\ c <= Len(pair'.used) => Written(c)' >= 4
  <2>1. ASSUME NEW l \in llamaRuns, NEW v \in vzeroRuns, PairStart(l, v)
        PROVE  /\ Written(c)' >= 3
               /\ targets'[c] # pair'.m.refs[c] => Written(c)' >= 4
               /\ c <= Len(pair'.used) => Written(c)' >= 4
    <3>1. /\ Lineage(l, v) /\ pair'.m = manifest /\ pair'.ids = probs.ids
          /\ pair'.used = <<>> /\ targets' = targets
      BY <1>5, <2>1, PairStartEffect, IdleFact
    <3>2. Len(pair'.used) = 0
      BY <3>1
    <3>3. probs \in Sidecars /\ probs.rows = refs /\ manifest.refs = refs
      BY <3>1, LineageFact
    <3> QED BY <1>1, <1>5, <3>1, <3>2, <3>3 DEF Recaptured
  <2>2. CASE ScoreCase
    <3>1. /\ pair.pc # "idle" /\ targets' = targets
          /\ targets[Len(pair.used) + 1] = pair.ids[Len(pair.used) + 1]
          /\ pair'.m = pair.m /\ pair'.ids = pair.ids
          /\ Len(pair'.used) = Len(pair.used) + 1
      BY <1>5, <2>2, ScoreCaseEffect, IdleFact
    <3>2. Len(pair.used) \in Nat
      BY <3>1, PairActive, LenProperties DEF Types
    <3>3. c <= Len(pair'.used) => c <= Len(pair.used) \/ c = Len(pair.used) + 1
      BY <1>1, <3>1, <3>2
    <3> QED BY <1>1, <1>5, <3>1, <3>2, <3>3 DEF Recaptured
  <2>3. CASE ~(ScoreCase \/ \E l \in llamaRuns, v \in vzeroRuns : PairStart(l, v))
    <3>1. pair' = pair
      BY <1>5, <2>3, StepCases, IdleFact DEF Types, Quiet, Stop, WriteFreshManifest,
         CaptureStart, CaptureCase, CaptureWriteRefs, CaptureComplete, CaptureFails,
         ProbStart, ProbCase, ProbWriteSidecar, ProbComplete, Prepare, EvaluateCase,
         EvaluationComplete, WriteSummary
    <3>2. Len(pair.used) \in Nat
      BY <1>5, <3>1, PairActive, LenProperties DEF Types
    <3> QED BY <1>1, <1>5, <3>1, <3>2 DEF Recaptured
  <2> QED BY <2>1, <2>2, <2>3
<1>6. ASSUME NEW s \in scored', s.used # s.m.refs
      PROVE  starts'["cap"] >= 4
  <2>1. /\ starts["cap"] \in Nat /\ starts'["cap"] >= starts["cap"]
        /\ starts'["cap"] \in Nat
    <3>1. 1 \in Cases
      BY CasesFact
    <3>2. starts'["cap"] \in Nat
      BY WorldStep, KindFact DEF Types, WorldType
    <3> QED BY <3>1, <3>2, WrittenStep, NumberType
  <2>2. CASE s \in scored
    BY <1>6, <2>1, <2>2 DEF Recaptured
  <2>3. CASE s \notin scored
    <3>1. /\ WriteSummary /\ pair.pc # "idle" /\ Len(pair.used) = NCases
          /\ s.used = pair.used /\ s.m = pair.m /\ starts' = starts
      <4>1. CASE WriteSummary
        BY <1>6, <2>3, <4>1, WriteSummaryEffect
      <4>2. CASE ~WriteSummary
        <5>1. scored' = scored
          BY <4>2, StepCases DEF Types, Quiet, Stop, WriteFreshManifest, CaptureStart,
             CaptureCase, CaptureWriteRefs, CaptureComplete, CaptureFails, ProbStart,
             ProbCase, ProbWriteSidecar, ProbComplete, Prepare, EvaluateCase,
             EvaluationComplete, PairStart, ScoreCase, runs
        <5> QED BY <1>6, <2>3, <5>1
      <4> QED BY <4>1, <4>2
    <3>2. /\ pair.used \in [Cases -> AllAnswers \cup {None}] /\ pair.m.refs \in Rows
          /\ \A c \in Cases : pair.used[c] = pair.ids[c]
      BY <3>1, PairActive, LenProperties, CasesFact DEF Types, Paired
    <3>3. PICK c \in Cases : pair.ids[c] # pair.m.refs[c]
      BY <1>6, <3>1, <3>2 DEF Rows
    <3>4. Written(c) >= 4
      BY <1>1, <3>1, <3>3 DEF Recaptured
    <3> QED BY <2>1, <3>1, <3>4 DEF Written
  <2> QED BY <2>2, <2>3
<1> QED BY <1>2, <1>3, <1>4, <1>5, <1>6 DEF Recaptured

-----------------------------------------------------------------------------
(* The theorems.                                                             *)

LEMMA InitIsInductive == Init => Inv
<1> SUFFICES ASSUME Init PROVE Inv
  OBVIOUS
<1>1. PICK g \in Gens, p \in Policies, i \in Images :
          /\ tokens = [c \in Cases |-> g] /\ prompts = g
          /\ targets = [c \in Cases |-> None] /\ refs = None /\ probs = None
          /\ manifest = Fresh(g, p) /\ policy = p /\ image = i
          /\ mat = Idle /\ cap = Idle /\ prob = Idle /\ vzero = Idle /\ pair = Idle
          /\ llamaRuns = {} /\ vzeroRuns = {} /\ scored = {}
          /\ starts = [k \in Kinds |-> 0]
  BY DEF Init
<1>2. None \notin Rows /\ None \notin Sidecars
  BY NoneAssumption DEF Sidecars, Ids
<1>3. /\ Idle.pc = "idle" /\ starts["cap"] = 0 /\ starts["prob"] = 0
      /\ manifest \in Manifests /\ manifest.status = "NOT_CAPTURED"
      /\ manifest.probAttempt = 0
  BY <1>1, KindFact, FreshFact DEF Idle
<1>4. WorldType
  BY <1>1 DEF WorldType
<1>5. FixtureType /\ ScriptType
  BY <1>1, <1>3 DEF FixtureType, ScriptType, Ids
<1>6. CaptureShape /\ CompleteShape /\ Paired /\ TargetsAreBound
  BY <1>1, <1>3 DEF CaptureShape, CompleteShape, Paired, TargetsAreBound
<1>7. Prepared = {}
  BY <1>1, <1>3 DEF Prepared
<1>8. Stamped /\ Forced
  BY <1>1, <1>3, <1>7 DEF Stamped, Forced, ProbingIsOver
<1>9. Recaptured
  BY <1>1, <1>2, <1>3 DEF Recaptured
<1> QED BY <1>4, <1>5, <1>6, <1>8, <1>9 DEF Inv

LEMMA Inductive == Spec => []Inv
<1>1. Inv /\ [Next]_vars => Inv'
  <2> SUFFICES ASSUME Inv, [Next]_vars PROVE Inv'
    OBVIOUS
  <2>1. Types
    BY DEF Inv, Types
  <2>2. Types'
    <3>1. WorldType' /\ FixtureType' /\ ScriptType'
      BY TypeStep DEF Inv
    <3> QED BY <3>1 DEF Types
  <2>3. CaptureShape' /\ CompleteShape'
    BY <2>1, CaptureShapeStep, CompleteShapeStep DEF Inv
  <2>4. Stamped' /\ Forced'
    BY <2>1, StampedStep, ForcedStep DEF Inv
  <2>5. Paired' /\ TargetsAreBound'
    BY <2>1, PairedStep, BoundStep DEF Inv
  <2>6. Recaptured'
    BY <2>1, RecapturedStep DEF Inv
  <2> QED BY <2>2, <2>3, <2>4, <2>5, <2>6 DEF Inv, Types
<1> QED BY InitIsInductive, <1>1, PTL DEF Spec

\* Whatever the scripts did in whatever order, and however often each was started
\* or killed: a paired report scores the ids its probabilities were recorded for,
\* and the rows those were hashed against, the reference run and what the
\* candidate was forced on case by case are all the targets of its manifest
\* (validate_lineage, require_target_alignment and the digests between them).
THEOREM TargetsBound == Spec => []TargetsAreBound
BY Inductive, PTL DEF Inv

\* As long as no more than three captures were ever started, the ids that were
\* scored are the frozen targets as well.  Three is the most for which it holds:
\* the probability capture reads the ids and checks the digests at two times.
THEOREM FrozenUnlessRecaptured ==
  Spec => [](starts["cap"] <= 3 => ScoredTargetsAreFrozen)
<1>1. Inv => (starts["cap"] <= 3 => ScoredTargetsAreFrozen)
  <2> SUFFICES ASSUME Inv, starts["cap"] <= 3, NEW s \in scored
               PROVE  /\ s.used = s.m.refs /\ s.m.probs.rows = s.m.refs
                      /\ s.m.probs.ids = s.m.refs /\ s.l.refs = s.m.refs
                      /\ s.v.forced = s.m.refs
    BY DEF ScoredTargetsAreFrozen
  <2>1. starts["cap"] \in Nat
    BY KindFact DEF Inv, WorldType
  <2>2. s.used = s.m.refs
    BY <2>1 DEF Inv, Recaptured
  <2> QED BY <2>2 DEF Inv, TargetsAreBound
<1> QED BY Inductive, <1>1, PTL

\* overall_status says PASS of nothing but PASS.
LEMMA OverallFact ==
  ASSUME NEW S, Overall(S) = "PASS"
  PROVE  S = {"PASS"}
  BY DEF Overall

\* A review that passes has no open case and no failure of the candidate alone.
LEMMA ReviewFact ==
  ASSUME NEW r \in ReviewFiles, ReviewStatus(r) = "PASS"
  PROVE  /\ r # None /\ r.llama # "unresolved"
         /\ r.vzero = "no_material_failure" \/ r.llama = "confirmed_failure"
<1>1. r # None
  BY DEF ReviewStatus
<1>2. r.llama \in Decisions /\ r.vzero \in Decisions
  BY <1>1 DEF ReviewFiles
<1>3. "unresolved" \notin {r.llama, r.vzero}
  BY <1>1 DEF ReviewStatus
<1>4. ~(r.vzero = "confirmed_failure" /\ r.llama = "no_material_failure")
  BY <1>1, <1>3 DEF ReviewStatus
<1> QED BY <1>1, <1>2, <1>3, <1>4 DEF Decisions

\* No summary ever says PASS without a review of the two outputs it scored, with
\* no open case, no failure of the candidate alone and a replay that passed
\* (review_gate and overall_status of the pair report).
THEOREM PassesAreReviewed == Spec => []PassIsReviewed
<1>1. Init => PassIsReviewed
  BY DEF Init, PassIsReviewed
<1>2. WorldType /\ PassIsReviewed /\ [Next]_vars => PassIsReviewed'
  <2> SUFFICES ASSUME WorldType, PassIsReviewed, [Next]_vars
               PROVE  PassIsReviewed'
    OBVIOUS
  <2>1. CASE WriteSummary
    <3>1. PICK r \in ReviewFiles, gate \in GateStatuses :
              scored' = IF ReviewBound(pair.l, pair.v, r)
                        THEN scored \cup
                               {[l |-> pair.l, v |-> pair.v, used |-> pair.used,
                                 m |-> pair.m, policy |-> pair.policy, r |-> r,
                                 status |-> Overall({gate, pair.v.replay,
                                                     ReviewStatus(r)})]}
                        ELSE scored
      BY <2>1 DEF WriteSummary
    <3>2. CASE scored' = scored
      BY <3>2 DEF PassIsReviewed
    <3>3. ASSUME ReviewBound(pair.l, pair.v, r), NEW s \in scored', s \notin scored,
                 s.status = "PASS"
          PROVE  /\ s.r # None /\ s.r.l = s.l /\ s.r.v = s.v
                 /\ s.r.llama # "unresolved"
                 /\ s.r.vzero = "no_material_failure" \/ s.r.llama = "confirmed_failure"
                 /\ s.v.replay = "PASS"
      <4>1. /\ s.l = pair.l /\ s.v = pair.v /\ s.r = r
            /\ s.status = Overall({gate, pair.v.replay, ReviewStatus(r)})
        BY <3>1, <3>3
      <4>2. {gate, pair.v.replay, ReviewStatus(r)} = {"PASS"}
        BY <3>3, <4>1, OverallFact
      <4>3. pair.v.replay = "PASS" /\ ReviewStatus(r) = "PASS"
        BY <4>2
      <4>4. /\ r # None /\ r.llama # "unresolved"
            /\ r.vzero = "no_material_failure" \/ r.llama = "confirmed_failure"
        BY <4>3, ReviewFact
      <4>5. r.l = pair.l /\ r.v = pair.v
        BY <3>3, <4>4 DEF ReviewBound
      <4> QED BY <4>1, <4>3, <4>4, <4>5
    <3> QED BY <3>1, <3>2, <3>3 DEF PassIsReviewed
  <2>2. CASE ~WriteSummary
    <3>1. scored' = scored
      BY <2>2, StepCases DEF Quiet, Stop, WriteFreshManifest, CaptureStart,
         CaptureCase, CaptureWriteRefs, CaptureComplete, CaptureFails, ProbStart,
         ProbCase, ProbWriteSidecar, ProbComplete, Prepare, EvaluateCase,
         EvaluationComplete, PairStart, ScoreCase, runs
    <3> QED BY <3>1 DEF PassIsReviewed
  <2> QED BY <2>1, <2>2
<1>3. Inv => WorldType
  BY DEF Inv
<1> QED BY Inductive, <1>1, <1>2, <1>3, PTL DEF Spec
=============================================================================
