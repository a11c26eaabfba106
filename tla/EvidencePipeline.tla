--------------------------- MODULE EvidencePipeline ---------------------------
(***************************************************************************)
(* The quality evidence pipeline of src/scripts: one directory of frozen   *)
(* fixtures (prompts, token files, teacher targets, top-20 probabilities   *)
(* and a manifest that names their digests), the scripts that write it,    *)
(* the two evaluation arms that read it, and the paired report that scores *)
(* the arms against each other.                                            *)
(*                                                                         *)
(* Every script is a process of its own: it reads files when it starts,    *)
(* works for hours on what it read, and publishes at the end.  Nothing     *)
(* locks the directory against all of them; three separate lock files only *)
(* keep two runs of one script apart, so each script is one process here.  *)
(* What holds the evidence together are digests, compared by whoever reads *)
(* next.  A digest is modelled as the content it is taken of.              *)
(***************************************************************************)
EXTENDS Naturals, Sequences, FiniteSets

CONSTANTS
    NCases,    \* teacher cases (P100 and C92), numbered in fixture order
    Gens,      \* what a materialization can produce: one tokenizer, one bytes
    SpecGen,   \* the generation eval-core-54.json was drawn from
    Images,    \* images the llama.cpp tag can name
    Variants,  \* greedy answers the GPU can return to one prompt
    Policies,  \* versions of the evaluation policy document
    Scope,     \* "core-54" or "full-216", the scope both arms are run with
    MaxStarts, \* how often each script is started
    MaxActive, \* how many scripts are at work at once
    ReplayStatuses, GateStatuses, \* what the candidate's replay and the
               \* numeric gates can come to: PASS, FAIL or INCONCLUSIVE
    None

Kinds == {"mat", "cap", "prob", "llama", "vzero", "pair", "edit"}
Cases == 1 .. NCases

ASSUME PipelineAssumption ==
    /\ NCases \in Nat \ {0}
    /\ SpecGen \in Gens
    /\ Scope \in {"core-54", "full-216"}
    /\ MaxStarts \in [Kinds -> Nat]

VARIABLES
    tokens,    \* generation of each case's prompt token file
    prompts,   \* generation of prompts.jsonl
    targets,   \* the target token file of each teacher case
    refs,      \* source_refs.jsonl: the target digest of each case
    probs,     \* q4km-top20.jsonl: rows bound to target digests
    manifest,  \* manifest.json
    policy,    \* the policy document in docs/
    rebind,    \* a policy rebind file, or None
    image,     \* the image the tag names
    mat, cap, prob, llama, vzero, pair, \* the scripts: phase and what they read
    llamaRuns, vzeroRuns,               \* complete run directories
    scored,    \* every summary.json ever written, with what it was scored on
    starts     \* starts so far of each script

fixtures == <<tokens, prompts, targets, refs, probs, manifest>>
world == <<policy, rebind, image>>
runs == <<llamaRuns, vzeroRuns, scored>>
vars == <<fixtures, world, mat, cap, prob, llama, vzero, pair, runs, starts>>

\* What the server answers to the prompt of generation g.
Answers(g, i) == {[gen |-> g, image |-> i, v |-> v] : v \in Variants}
AllAnswers == UNION {Answers(g, i) : g \in Gens, i \in Images}
Rows == [Cases -> AllAnswers]

\* None stands for an absent key or file: it is neither rows nor a sidecar.
ASSUME NoneAssumption ==
    None \notin Rows \cup [rows : Rows, ids : [Cases -> AllAnswers \cup {None}]]

\* A freshly materialized manifest; it carries no time, so the same inputs
\* give the same bytes again.
Fresh(g, p) ==
    [gen |-> g, policy |-> p, status |-> "NOT_CAPTURED", done |-> 0,
     attempt |-> 0, image |-> None, refs |-> None, probs |-> None,
     probAttempt |-> 0]

Active == {k \in {"mat", "cap", "prob", "llama", "vzero", "pair"} :
              /\ k = "mat" => mat.pc /= "idle"
              /\ k = "cap" => cap.pc /= "idle"
              /\ k = "prob" => prob.pc /= "idle"
              /\ k = "llama" => llama.pc /= "idle"
              /\ k = "vzero" => vzero.pc /= "idle"
              /\ k = "pair" => pair.pc /= "idle"}

Start(kind) ==
    /\ starts[kind] < MaxStarts[kind]
    /\ Cardinality(Active) < MaxActive
    /\ starts' = [starts EXCEPT ![kind] = @ + 1]

Idle == [pc |-> "idle"]

Init ==
    \E g \in Gens, p \in Policies, i \in Images :
        /\ tokens = [c \in Cases |-> g]
        /\ prompts = g
        /\ targets = [c \in Cases |-> None]
        /\ refs = None
        /\ probs = None
        /\ manifest = Fresh(g, p)
        /\ policy = p
        /\ rebind = None
        /\ image = i
        /\ mat = Idle /\ cap = Idle /\ prob = Idle
        /\ llama = Idle /\ vzero = Idle /\ pair = Idle
        /\ llamaRuns = {} /\ vzeroRuns = {} /\ scored = {}
        /\ starts = [k \in Kinds |-> 0]

-----------------------------------------------------------------------------
(* task018_materialize.py takes no lock: it may run beside everything.      *)

MatStart(g) ==
    /\ mat.pc = "idle"
    /\ Start("mat")
    /\ mat' = [pc |-> "tokens", gen |-> g]
    /\ UNCHANGED <<fixtures, world, cap, prob, llama, vzero, pair, runs>>

\* write_token_files: one file after another; a kill leaves a prefix.
WriteTokenFiles ==
    /\ mat.pc = "tokens"
    /\ \E n \in Cases :
          /\ tokens' = [c \in Cases |-> IF c <= n THEN mat.gen ELSE tokens[c]]
          /\ mat' = IF n = NCases THEN [mat EXCEPT !.pc = "prompts"] ELSE Idle
    /\ UNCHANGED <<prompts, targets, refs, probs, manifest, world,
                   cap, prob, llama, vzero, pair, runs, starts>>

WritePrompts ==
    /\ mat.pc = "prompts"
    /\ prompts' = mat.gen
    /\ mat' = [mat EXCEPT !.pc = "manifest"]
    /\ UNCHANGED <<tokens, targets, refs, probs, manifest, world,
                   cap, prob, llama, vzero, pair, runs, starts>>

WriteFreshManifest ==
    /\ mat.pc = "manifest"
    /\ manifest' = Fresh(mat.gen, policy)
    /\ mat' = Idle
    /\ UNCHANGED <<tokens, prompts, targets, refs, probs, world,
                   cap, prob, llama, vzero, pair, runs, starts>>

-----------------------------------------------------------------------------
(* task018_capture_llama.py: the teacher's continuations.                   *)

\* The manifest copy of the script is the one it writes back for the rest of
\* its life.
CaptureStart ==
    /\ cap.pc = "idle"
    /\ manifest.status /= "COMPLETE"
    /\ \A c \in Cases : tokens[c] = prompts
    /\ Start("cap")
    /\ LET m == [manifest EXCEPT !.status = "IN_PROGRESS", !.done = 0,
                                 !.attempt = starts["cap"] + 1,
                                 !.image = image, !.refs = None]
       IN  /\ manifest' = m
           /\ cap' = [pc |-> "cases", m |-> m, gen |-> prompts, got |-> <<>>]
    /\ UNCHANGED <<tokens, prompts, targets, refs, probs, world,
                   mat, prob, llama, vzero, pair, runs>>

CaptureCase ==
    /\ cap.pc = "cases"
    /\ cap.m.done < NCases
    /\ LET m == [cap.m EXCEPT !.done = @ + 1]
       IN  \E a \in Answers(cap.gen, cap.m.image) :
              /\ targets' = [targets EXCEPT ![m.done] = a]
              /\ manifest' = m
              /\ cap' = [cap EXCEPT !.m = m, !.got = Append(@, a)]
    /\ UNCHANGED <<tokens, prompts, refs, probs, world,
                   mat, prob, llama, vzero, pair, runs, starts>>

CaptureWriteRefs ==
    /\ cap.pc = "cases"
    /\ cap.m.done = NCases
    /\ refs' = cap.got
    /\ cap' = [cap EXCEPT !.pc = "publish",
                          !.m = [@ EXCEPT !.status = "COMPLETE",
                                          !.refs = cap.got]]
    /\ UNCHANGED <<tokens, prompts, targets, probs, manifest, world,
                   mat, prob, llama, vzero, pair, runs, starts>>

CaptureComplete ==
    /\ cap.pc = "publish"
    /\ manifest' = cap.m
    /\ cap' = [cap EXCEPT !.pc = "report"]
    /\ UNCHANGED <<tokens, prompts, targets, refs, probs, world,
                   mat, prob, llama, vzero, pair, runs, starts>>

CaptureExit ==
    /\ cap.pc = "report"
    /\ cap' = Idle
    /\ UNCHANGED <<fixtures, world, mat, prob, llama, vzero, pair, runs, starts>>

\* Any exception of the try block, the final print included, is recorded as
\* INCOMPLETE over whatever this run last wrote.
CaptureFails ==
    /\ cap.pc /= "idle"
    /\ manifest' = [cap.m EXCEPT !.status = "INCOMPLETE"]
    /\ cap' = Idle
    /\ UNCHANGED <<tokens, prompts, targets, refs, probs, world,
                   mat, prob, llama, vzero, pair, runs, starts>>

-----------------------------------------------------------------------------
(* task018_capture_llama_probabilities.py: replays the frozen prompts and   *)
(* annotates the frozen targets; it has a lock of its own.                  *)

ProbStart ==
    /\ prob.pc = "idle"
    /\ manifest.status = "COMPLETE"
    /\ manifest.done = NCases
    /\ image = manifest.image
    /\ \A c \in Cases : tokens[c] = prompts
    /\ Start("prob")
    /\ prob' = [pc |-> "cases", m |-> manifest, gen |-> prompts, done |-> 0,
                rows |-> refs, ids |-> targets]
    /\ UNCHANGED <<fixtures, world, mat, cap, llama, vzero, pair, runs>>

\* The target file is hashed again before its case, and the replay has to
\* return the very ids that were read at the start.
ProbCase ==
    /\ prob.pc = "cases"
    /\ prob.done < NCases
    /\ LET c == prob.done + 1
       IN  \/ /\ targets[c] = prob.rows[c]
              /\ \E a \in Answers(prob.gen, prob.m.image) : a = prob.ids[c]
              /\ prob' = [prob EXCEPT !.done = c]
           \/ prob' = Idle
    /\ UNCHANGED <<fixtures, world, mat, cap, llama, vzero, pair, runs, starts>>

ProbWriteSidecar ==
    /\ prob.pc = "cases"
    /\ prob.done = NCases
    /\ LET p == [rows |-> prob.rows, ids |-> prob.ids]
       IN  /\ probs' = p
           /\ prob' = [prob EXCEPT !.pc = "publish",
                                   !.m = [@ EXCEPT !.probs = p,
                                          !.probAttempt = starts["prob"]]]
    /\ UNCHANGED <<tokens, prompts, targets, refs, manifest, world,
                   mat, cap, llama, vzero, pair, runs, starts>>

\* The copy read at the start is written back whole.
ProbComplete ==
    /\ prob.pc = "publish"
    /\ manifest' = prob.m
    /\ prob' = Idle
    /\ UNCHANGED <<tokens, prompts, targets, refs, probs, world,
                   mat, cap, llama, vzero, pair, runs, starts>>

-----------------------------------------------------------------------------
(* task018_core_selection.py                                                *)

\* select_cases: only the sampled core compares prompts.jsonl to a digest.
SelectCases == Scope = "core-54" => prompts = SpecGen

(* task018_run_llama.py: the reference arm.                                 *)

LlamaStart ==
    /\ llama.pc = "idle"
    /\ manifest.status = "COMPLETE"
    /\ manifest.probs /= None
    /\ SelectCases
    /\ image = manifest.image
    /\ Start("llama")
    /\ llama' = [pc |-> "identify", m |-> manifest, gen |-> prompts,
                 ids |-> tokens]
    /\ UNCHANGED <<fixtures, world, mat, cap, prob, vzero, pair, runs>>

\* The manifest is hashed in a second read.
LlamaIdentify ==
    /\ llama.pc = "identify"
    /\ llama' = [pc |-> "serve", m |-> llama.m, gen |-> llama.gen,
                 ids |-> llama.ids, fixture |-> manifest]
    /\ UNCHANGED <<fixtures, world, mat, cap, prob, vzero, pair, runs, starts>>

\* Prompts and ids were read at the start, the outputs go to a directory of
\* this run alone; a failed request leaves no run manifest.
LlamaComplete ==
    /\ llama.pc = "serve"
    /\ \/ /\ \A c \in Cases : llama.ids[c] = llama.gen
          /\ llamaRuns' = llamaRuns \cup
                {[id |-> starts["llama"], fixture |-> llama.fixture,
                  prompts |-> llama.m.gen, refs |-> llama.m.refs,
                  probs |-> llama.m.probs, policy |-> llama.m.policy,
                  image |-> llama.m.image, read |-> llama.gen]}
       \/ UNCHANGED llamaRuns
    /\ llama' = Idle
    /\ UNCHANGED <<fixtures, world, mat, cap, prob, vzero, pair,
                   vzeroRuns, scored, starts>>

-----------------------------------------------------------------------------
(* run_task018_v0_eval.sh: task018_prepare_core.py, then the evaluator.     *)

\* prepare writes paths, not contents, into core.tsv; the digests of its
\* manifest are those the fixture manifest names.  The script starts only when
\* no server of the probability capture or of the reference arm is up; nothing
\* keeps those from starting later.
Prepare ==
    /\ vzero.pc = "idle"
    /\ prob.pc = "idle" /\ llama.pc /= "serve"
    /\ manifest.status = "COMPLETE"
    /\ manifest.probs /= None
    /\ SelectCases
    /\ Start("vzero")
    /\ vzero' = [pc |-> "cases", done |-> 0, read |-> <<>>, forced |-> <<>>,
                 meta |-> [fixture |-> manifest, prompts |-> manifest.gen,
                           refs |-> manifest.refs, probs |-> manifest.probs]]
    /\ UNCHANGED <<fixtures, world, mat, cap, prob, llama, pair, runs>>

\* The evaluator opens a case's token and target files when it gets there.
EvaluateCase ==
    /\ vzero.pc = "cases"
    /\ vzero.done < NCases
    /\ LET c == vzero.done + 1
       IN  \/ /\ targets[c] /= None
              /\ vzero' = [vzero EXCEPT !.done = c,
                                        !.read = Append(@, tokens[c]),
                                        !.forced = Append(@, targets[c])]
           \/ vzero' = Idle
    /\ UNCHANGED <<fixtures, world, mat, cap, prob, llama, pair, runs, starts>>

\* A state replay follows; its status is part of the run.
EvaluationComplete ==
    /\ vzero.pc = "cases"
    /\ vzero.done = NCases
    /\ \E s \in ReplayStatuses :
          vzeroRuns' = vzeroRuns \cup
             {[id |-> starts["vzero"], meta |-> vzero.meta, replay |-> s,
               read |-> vzero.read, forced |-> vzero.forced]}
    /\ vzero' = Idle
    /\ UNCHANGED <<fixtures, world, mat, cap, prob, llama, pair,
                   llamaRuns, scored, starts>>

-----------------------------------------------------------------------------
(* task018_pair_report.py                                                   *)

\* validate_policy_rebind: the policy in force is the captured one, or a
\* rebind names this very fixture manifest.
PolicyBound ==
    IF policy = manifest.policy
    THEN rebind = None
    ELSE rebind = [fixture |-> manifest, previous |-> manifest.policy,
                   effective |-> policy]

\* validate_lineage for the reference arm.
LlamaBound(l) ==
    /\ l.fixture = manifest
    /\ l.policy = manifest.policy
    /\ l.prompts = manifest.gen
    /\ l.refs = manifest.refs
    /\ l.probs = manifest.probs
    /\ l.image = manifest.image

\* validate_lineage for the candidate arm.
CoreBound(v) ==
    /\ v.meta.fixture = manifest
    /\ v.meta.prompts = manifest.gen
    /\ v.meta.refs = manifest.refs
    /\ v.meta.probs = manifest.probs

\* The files of the fixture directory against the digests that name them.
FilesBound ==
    /\ prompts = manifest.gen
    /\ refs = manifest.refs
    /\ probs = manifest.probs
    /\ \A c \in Cases :
          /\ tokens[c] = prompts
          /\ targets[c] = refs[c]
          /\ probs.rows[c] = refs[c]

Lineage(l, v) ==
    /\ manifest.refs /= None
    /\ manifest.probs /= None
    /\ SelectCases
    /\ PolicyBound
    /\ FilesBound
    /\ LlamaBound(l)
    /\ CoreBound(v)

PairStart(l, v) ==
    /\ pair.pc = "idle"
    /\ Start("pair")
    /\ pair' = IF Lineage(l, v)
               THEN [pc |-> "score", m |-> manifest, l |-> l, v |-> v,
                     ids |-> probs.ids, used |-> <<>>, policy |-> policy]
               ELSE Idle
    /\ UNCHANGED <<fixtures, world, mat, cap, prob, llama, vzero, runs>>

\* Mutant of ScoreCase: the target is scored as it was read, unaligned.
ScoreCaseUnaligned ==
    /\ pair.pc = "score"
    /\ Len(pair.used) < NCases
    /\ LET c == Len(pair.used) + 1
       IN  pair' = [pair EXCEPT !.used = Append(@, targets[c])]
    /\ UNCHANGED <<fixtures, world, mat, cap, prob, llama, vzero, runs, starts>>

\* require_target_alignment: the targets are read again to be scored, and
\* have to be the ids the probabilities were recorded for.
ScoreCase ==
    /\ pair.pc = "score"
    /\ Len(pair.used) < NCases
    /\ LET c == Len(pair.used) + 1
       IN  pair' = IF targets[c] = pair.ids[c]
                   THEN [pair EXCEPT !.used = Append(@, targets[c])]
                   ELSE Idle
    /\ UNCHANGED <<fixtures, world, mat, cap, prob, llama, vzero, runs, starts>>

\* review_gate: PENDING without a file; a file has to name both outputs.
Decisions == {"no_material_failure", "confirmed_failure", "unresolved"}
ReviewFiles ==
    {None} \cup [l : llamaRuns, v : vzeroRuns, llama : Decisions,
                 vzero : Decisions]
ReviewBound(l, v, r) == r = None \/ (r.l = l /\ r.v = v)
ReviewStatus(r) ==
    CASE r = None -> "PENDING"
      [] r /= None /\ "unresolved" \in {r.llama, r.vzero} -> "INCONCLUSIVE"
      [] r /= None /\ r.vzero = "confirmed_failure"
                  /\ r.llama = "no_material_failure" -> "FAIL"
      [] OTHER -> "PASS"

\* Mutant of Overall: a pending review is no obstacle.
OverallIgnoringPending(statuses) ==
    IF "FAIL" \in statuses THEN "FAIL"
    ELSE IF statuses \ {"PENDING"} = {"PASS"} THEN "PASS" ELSE "INCONCLUSIVE"

Overall(statuses) ==
    IF "FAIL" \in statuses THEN "FAIL"
    ELSE IF statuses = {"PASS"} THEN "PASS" ELSE "INCONCLUSIVE"

WriteSummary ==
    /\ pair.pc = "score"
    /\ Len(pair.used) = NCases
    /\ \E r \in ReviewFiles, gate \in GateStatuses :
          scored' = IF ReviewBound(pair.l, pair.v, r)
                    THEN scored \cup
                           {[l |-> pair.l, v |-> pair.v, used |-> pair.used,
                             m |-> pair.m, policy |-> pair.policy, r |-> r,
                             status |-> Overall({gate, pair.v.replay,
                                                 ReviewStatus(r)})]}
                    ELSE scored
    /\ pair' = Idle
    /\ UNCHANGED <<fixtures, world, mat, cap, prob, llama, vzero,
                   llamaRuns, vzeroRuns, starts>>

-----------------------------------------------------------------------------
(* People: the policy is edited, a rebind written, outputs reviewed, the    *)
(* image tag moved.  A tag does not move under a script that has inspected  *)
(* it and is about to start a server from it.                               *)

EditPolicy ==
    /\ Start("edit")
    /\ policy' \in Policies \ {policy}
    /\ UNCHANGED <<fixtures, rebind, image, mat, cap, prob, llama, vzero, pair,
                   runs>>

WriteRebind ==
    /\ policy /= manifest.policy
    /\ rebind' = [fixture |-> manifest, previous |-> manifest.policy,
                  effective |-> policy]
    /\ UNCHANGED <<fixtures, policy, image, mat, cap, prob, llama, vzero, pair,
                   runs, starts>>

Retag ==
    /\ cap.pc = "idle" /\ prob.pc = "idle" /\ llama.pc = "idle"
    /\ Start("edit")
    /\ image' \in Images \ {image}
    /\ UNCHANGED <<fixtures, policy, rebind, mat, cap, prob, llama, vzero, pair,
                   runs>>

\* A killed script leaves its files as they are and writes nothing more.
Kill ==
    /\ \/ mat.pc /= "idle" /\ mat' = Idle /\ UNCHANGED <<cap, prob, vzero>>
       \/ cap.pc /= "idle" /\ cap' = Idle /\ UNCHANGED <<mat, prob, vzero>>
       \/ prob.pc /= "idle" /\ prob' = Idle /\ UNCHANGED <<mat, cap, vzero>>
       \/ vzero.pc /= "idle" /\ vzero' = Idle /\ UNCHANGED <<mat, cap, prob>>
    /\ UNCHANGED <<fixtures, world, llama, pair, runs, starts>>

Next ==
    \/ \E g \in Gens : MatStart(g)
    \/ WriteTokenFiles \/ WritePrompts \/ WriteFreshManifest
    \/ CaptureStart \/ CaptureCase \/ CaptureWriteRefs \/ CaptureComplete
    \/ CaptureExit \/ CaptureFails
    \/ ProbStart \/ ProbCase \/ ProbWriteSidecar \/ ProbComplete
    \/ LlamaStart \/ LlamaIdentify \/ LlamaComplete
    \/ Prepare \/ EvaluateCase \/ EvaluationComplete
    \/ \E l \in llamaRuns, v \in vzeroRuns : PairStart(l, v)
    \/ ScoreCase \/ WriteSummary
    \/ EditPolicy \/ WriteRebind \/ Retag \/ Kill

Spec == Init /\ [][Next]_vars

-----------------------------------------------------------------------------
(* Properties.                                                              *)

\* A paired summary speaks of one frozen set of targets: what it scored, what
\* the probabilities were recorded for, what the reference run was bound to and
\* what the candidate was actually forced on are the targets its manifest
\* names, although each was read at another time by another script while
\* captures, probability captures and materializations came and went.  Only up
\* to three captures: the probability capture reads the target ids once but
\* hashes the files again before each case, so with a fourth the files can have
\* changed before that read, changed back for the hashes and changed once more
\* for the report.
ScoredTargetsAreFrozen ==
    \A s \in scored :
        /\ s.used = s.m.refs
        /\ s.m.probs.rows = s.m.refs
        /\ s.m.probs.ids = s.m.refs
        /\ s.l.refs = s.m.refs
        /\ s.v.forced = s.m.refs

\* A summary that says PASS rests on a review of these very outputs with no
\* open case and no failure of the candidate alone, and on a candidate whose
\* state replay passed.
PassIsReviewed ==
    \A s \in scored :
        s.status = "PASS" =>
            /\ s.r /= None
            /\ s.r.l = s.l /\ s.r.v = s.v
            /\ s.r.llama /= "unresolved"
            /\ \/ s.r.vzero = "no_material_failure"
               \/ s.r.llama = "confirmed_failure"
            /\ s.v.replay = "PASS"

\* Both arms of a paired summary answered the prompts its manifest names: no
\* run on other prompts is scored.
ArmsAnsweredFrozenPrompts ==
    \A s \in scored :
        /\ s.l.read = s.m.gen
        /\ \A c \in Cases : s.v.read[c] = s.m.gen

=============================================================================
