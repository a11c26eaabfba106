------------------------ MODULE ArtifactWriterProofs ------------------------
(* The destination is whole for every number of writers, names and spans.     *)
EXTENDS ArtifactWriter, SequenceTheorems, TLAPS

\* What the caller was told is what the file holds, up to where it is written.
Carries(w) ==
    \A s \in Span :
        /\ Len(accepted[w][s]) = written[w][s]
        /\ \A i \in 1 .. written[w][s] : content[w][s][i] = accepted[w][s][i]

\* Finalize has written the regions that come before its stage, and from its
\* fsync on the file is durable.
Progress(w) ==
    /\ stage[w] = "manifest" => "padding" \in regions[w]
    /\ stage[w] = "header" => {"padding", "manifest"} \subseteq regions[w]
    /\ stage[w] \in {"sync", "close", "rename"} => regions[w] = Region
    /\ stage[w] \in {"close", "rename"} => w \in synced

\* A file under construction holds its spans; a published one is out of reach.
FileShape(w) ==
    /\ stage[w] = "new" => \A s \in Span : written[w][s] = 0 /\ accepted[w][s] = <<>>
    /\ stage[w] \notin {"new", "gone"} => Carries(w)
    /\ stage[w] \in Finalizing => Complete(w)
    /\ Progress(w)
    /\ w \in published => /\ stage[w] \in {"directory", "report", "closed", "gone"}
                          /\ w \in synced /\ Whole(w)

WInv == /\ TypeOK
        /\ \A w \in Writer : FileShape(w)
        /\ destination \in pending /\ pending \subseteq published \cup {Old}

-----------------------------------------------------------------------------
LEMMA ChunkFact ==
  ASSUME NEW s \in Span, NEW chunk \in Chunks(s)
  PROVE  chunk \in Seq(Byte) /\ Len(chunk) \in Nat
         /\ chunk \in [1 .. Len(chunk) -> Byte]
<1>1. PICK n \in 1 .. Length[s] : chunk \in [1 .. n -> Byte]
  BY DEF Chunks
<1>2. n \in Nat
  BY NamesAssumption
<1>3. chunk \in Seq(Byte)
  BY <1>1, <1>2
<1> QED BY <1>3

LEMMA BlankFact == Blank \in [Span -> Seq(Byte \cup {Hole})]
                   /\ \A s \in Span : Len(Blank[s]) = Length[s]
<1> SUFFICES ASSUME NEW s \in Span
             PROVE  /\ [i \in 1 .. Length[s] |-> Hole] \in Seq(Byte \cup {Hole})
                    /\ Len([i \in 1 .. Length[s] |-> Hole]) = Length[s]
  BY DEF Blank
<1>1. Length[s] \in Nat
  BY NamesAssumption
<1> QED BY <1>1

\* What Put leaves in the file of w.
LEMMA PutFact ==
  ASSUME TypeOK, NEW w \in Writer, NEW s \in Span, NEW chunk \in Chunks(s),
         NEW count \in 0 .. Len(chunk), Fits(w, s, chunk), Put(w, s, chunk, count)
  PROVE  /\ content' \in [Writer -> [Span -> Seq(Byte \cup {Hole})]]
         /\ \A v \in Writer, t \in Span :
               /\ Len(content'[v][t]) = Length[t]
               /\ (v # w \/ t # s) => content'[v][t] = content[v][t]
         /\ \A i \in 1 .. Length[s] : content'[w][s][i] =
               IF i > written[w][s] /\ i <= written[w][s] + count
               THEN chunk[i - written[w][s]] ELSE content[w][s][i]
<1> DEFINE new == WriteAt(content[w][s], written[w][s], chunk, count)
<1>1. /\ Length[s] \in Nat /\ written[w][s] \in Nat /\ Len(chunk) \in Nat
      /\ chunk \in [1 .. Len(chunk) -> Byte]
      /\ content[w][s] \in [1 .. Length[s] -> Byte \cup {Hole}]
  BY ChunkFact, NamesAssumption DEF TypeOK
<1>2. /\ new = [i \in 1 .. Length[s] |->
                   IF i > written[w][s] /\ i <= written[w][s] + count
                   THEN chunk[i - written[w][s]] ELSE content[w][s][i]]
      /\ \A i \in 1 .. Length[s] : new[i] \in Byte \cup {Hole}
  BY <1>1 DEF WriteAt, TypeOK
<1> HIDE DEF new
<1>3. new \in Seq(Byte \cup {Hole}) /\ Len(new) = Length[s]
  <2>1. new \in [1 .. Length[s] -> Byte \cup {Hole}]
    BY <1>2
  <2> QED BY <1>1, <2>1
<1>4. content' = [content EXCEPT ![w] = [content[w] EXCEPT ![s] = new]]
  BY DEF Put, new
<1>5. content \in [Writer -> [Span -> Seq(Byte \cup {Hole})]]
      /\ \A v \in Writer, t \in Span : Len(content[v][t]) = Length[t]
  BY DEF TypeOK
<1>6. [content[w] EXCEPT ![s] = new] \in [Span -> Seq(Byte \cup {Hole})]
  BY <1>3, <1>5
<1>7. content' \in [Writer -> [Span -> Seq(Byte \cup {Hole})]]
  BY <1>4, <1>5, <1>6
<1>8. content'[w][s] = new
  BY <1>4, <1>5
<1>9. \A v \in Writer, t \in Span : (v # w \/ t # s) => content'[v][t] = content[v][t]
  BY <1>4, <1>5
<1>10. \A v \in Writer, t \in Span : Len(content'[v][t]) = Length[t]
  BY <1>3, <1>5, <1>8, <1>9
<1> QED BY <1>2, <1>7, <1>8, <1>9, <1>10

-----------------------------------------------------------------------------
LEMMA InitInv == Init => WInv
<1> SUFFICES ASSUME Init PROVE WInv
  OBVIOUS
<1>1. TypeOK
  BY BlankFact, NamesAssumption DEF Init, TypeOK
<1>2. ASSUME NEW w \in Writer PROVE FileShape(w)
  BY DEF Init, FileShape, Progress, Finalizing
<1> QED BY <1>1, <1>2 DEF WInv, Init

\* A writer's file is none of the other writers' business.
LEMMA OtherFile ==
  ASSUME WInv, NEW v \in Writer,
         stage'[v] = stage[v], written'[v] = written[v], accepted'[v] = accepted[v],
         content'[v] = content[v], regions'[v] = regions[v],
         v \in synced' <=> v \in synced, v \in published' <=> v \in published
  PROVE  FileShape(v)'
<1>1. FileShape(v)
  BY DEF WInv
<1>2. Carries(v) <=> Carries(v)'
  BY DEF Carries
<1>3. Complete(v) <=> Complete(v)'
  BY DEF Complete
<1>4. Progress(v) <=> Progress(v)'
  BY DEF Progress
<1>5. Whole(v) <=> Whole(v)'
  BY DEF Whole
<1> QED BY <1>1, <1>2, <1>3, <1>4, <1>5 DEF FileShape

\* Steps that change no file, only what becomes of it.
LEMMA QuietStep ==
  ASSUME WInv, NEW w \in Writer, NEW next, stage' = [stage EXCEPT ![w] = next],
         next \in Finalizing \cup {"open", "directory", "report", "closed", "gone"},
         UNCHANGED <<written, content, regions, accepted>>,
         synced \subseteq synced', synced' \subseteq synced \cup {w},
         published \subseteq published', published' \subseteq published \cup {w},
         stage[w] = "new" => next \in {"open", "gone"},
         next \in Finalizing => Complete(w) /\ w \notin published,
         w \in published => next \in {"report", "closed", "gone"},
         w \in published' =>
              (w \in published) \/ (next = "directory" /\ w \in synced /\ Whole(w)),
         stage[w] = "gone" => next = "gone",
         Progress(w)'
  PROVE  \A v \in Writer : FileShape(v)'
<1> SUFFICES ASSUME NEW v \in Writer PROVE FileShape(v)'
  OBVIOUS
<1>1. stage \in [Writer -> Finalizing \cup
                     {"new", "open", "directory", "report", "closed", "gone"}]
  BY DEF WInv, TypeOK
<1>2. CASE v # w
  BY <1>1, <1>2, OtherFile
<1>3. CASE v = w
  <2>1. stage'[w] = next /\ FileShape(w) /\ next # "new"
    BY <1>1 DEF WInv, Finalizing
  <2>2. next \notin {"new", "gone"} => Carries(w)'
    BY <2>1 DEF FileShape, Carries
  <2>3. next \in Finalizing => Complete(w)'
    BY DEF Complete
  <2>4. Whole(w) <=> Whole(w)'
    BY DEF Whole
  <2> QED BY <1>3, <2>1, <2>2, <2>3, <2>4 DEF FileShape
<1> QED BY <1>2, <1>3

-----------------------------------------------------------------------------
\* At the rename the file is whole: finalize has been through all its steps.
LEMMA WholeAtRename ==
  ASSUME WInv, NEW w \in Writer, stage[w] = "rename"
  PROVE  Whole(w) /\ w \in synced
<1>1. /\ regions[w] = Region /\ w \in synced /\ Complete(w) /\ Carries(w)
  BY DEF WInv, FileShape, Progress, Finalizing
<1>2. ASSUME NEW s \in Span PROVE content[w][s] = accepted[w][s]
  <2>1. /\ content[w][s] \in Seq(Byte \cup {Hole}) /\ accepted[w][s] \in Seq(Byte)
        /\ Len(content[w][s]) = Length[s]
    BY DEF WInv, TypeOK
  <2>2. Len(accepted[w][s]) = Length[s]
        /\ \A i \in 1 .. Length[s] : content[w][s][i] = accepted[w][s][i]
    BY <1>1 DEF Carries, Complete
  <2>3. accepted[w][s] \in Seq(Byte \cup {Hole})
    BY <2>1
  <2> QED BY <2>1, <2>2, <2>3, SeqEqual
<1> QED BY <1>1, <1>2 DEF Whole

\* The steps that change no file preserve the invariant.
LEMMA QuietInv ==
  ASSUME WInv, NEW w \in Writer,
         Create(w) \/ CreateFails(w) \/ WriteAbandons(w) \/ Finalize(w) \/ FinalizeIncomplete(w)
         \/ Sync(w) \/ Close(w) \/ FinalizeFails(w) \/ Rename(w) \/ SyncDirectory(w)
         \/ Report(w) \/ ReportFails(w) \/ Destroy(w)
  PROVE  WInv'
<1>1. /\ TypeOK /\ FileShape(w)
      /\ destination \in pending /\ pending \subseteq published \cup {Old}
  BY DEF WInv
<1>2. CASE Create(w)
  <2>1. TypeOK'
    BY <1>1, <1>2 DEF Create, TypeOK, fileVars, dirVars, callVars, Finalizing
  <2>2. Progress(w)'
    BY <1>1, <1>2 DEF Create, TypeOK, FileShape, Progress, fileVars, Region
  <2>3. \A v \in Writer : FileShape(v)'
    BY <1>1, <1>2, <2>2, QuietStep
       DEF Create, TypeOK, FileShape, Finalizing, fileVars, dirVars, callVars
  <2> QED BY <1>1, <1>2, <2>1, <2>3 DEF Create, dirVars, TypeOK, WInv
<1>3. CASE CreateFails(w)
  <2>1. TypeOK'
    BY <1>1, <1>3 DEF CreateFails, TypeOK, fileVars, dirVars, callVars, Finalizing
  <2>2. Progress(w)'
    BY <1>1, <1>3 DEF CreateFails, TypeOK, FileShape, Progress, fileVars, Region
  <2>3. \A v \in Writer : FileShape(v)'
    BY <1>1, <1>3, <2>2, QuietStep
       DEF CreateFails, TypeOK, FileShape, Finalizing, fileVars, dirVars, callVars
  <2> QED BY <1>1, <1>3, <2>1, <2>3 DEF CreateFails, dirVars, TypeOK, WInv
<1>4. CASE WriteAbandons(w)
  <2>1. TypeOK'
    BY <1>1, <1>4 DEF WriteAbandons, Abandon, Remove, TypeOK, fileVars, dirVars, callVars, Finalizing
  <2>2. Progress(w)'
    BY <1>1, <1>4 DEF WriteAbandons, Abandon, Remove, TypeOK, FileShape, Progress, fileVars, Region
  <2>3. \A v \in Writer : FileShape(v)'
    BY <1>1, <1>4, <2>2, QuietStep
       DEF WriteAbandons, Abandon, Remove, TypeOK, FileShape, Finalizing, fileVars, dirVars, callVars
  <2> QED BY <1>1, <1>4, <2>1, <2>3 DEF WriteAbandons, Abandon, Remove, dirVars, TypeOK, WInv
<1>5. CASE Finalize(w)
  <2>1. TypeOK'
    BY <1>1, <1>5 DEF Finalize, Step, TypeOK, fileVars, dirVars, callVars, Finalizing
  <2>2. Progress(w)'
    BY <1>1, <1>5 DEF Finalize, Step, TypeOK, FileShape, Progress, fileVars, Region
  <2>3. \A v \in Writer : FileShape(v)'
    BY <1>1, <1>5, <2>2, QuietStep
       DEF Finalize, Step, TypeOK, FileShape, Finalizing, fileVars, dirVars, callVars
  <2> QED BY <1>1, <1>5, <2>1, <2>3 DEF Finalize, Step, dirVars, TypeOK, WInv
<1>6. CASE FinalizeIncomplete(w)
  <2>1. TypeOK'
    BY <1>1, <1>6 DEF FinalizeIncomplete, Abandon, Remove, Return, TypeOK, fileVars, dirVars, callVars, Finalizing
  <2>2. Progress(w)'
    BY <1>1, <1>6 DEF FinalizeIncomplete, Abandon, Remove, Return, TypeOK, FileShape, Progress, fileVars, Region
  <2>3. \A v \in Writer : FileShape(v)'
    BY <1>1, <1>6, <2>2, QuietStep
       DEF FinalizeIncomplete, Abandon, Remove, Return, TypeOK, FileShape, Finalizing, fileVars, dirVars, callVars
  <2> QED BY <1>1, <1>6, <2>1, <2>3 DEF FinalizeIncomplete, Abandon, Remove, Return, dirVars, TypeOK, WInv
<1>7. CASE Sync(w)
  <2>1. TypeOK'
    BY <1>1, <1>7 DEF Sync, Step, TypeOK, fileVars, dirVars, callVars, Finalizing
  <2>2. Progress(w)'
    BY <1>1, <1>7 DEF Sync, Step, TypeOK, FileShape, Progress, fileVars, Region
  <2>3. \A v \in Writer : FileShape(v)'
    BY <1>1, <1>7, <2>2, QuietStep
       DEF Sync, Step, TypeOK, FileShape, Finalizing, fileVars, dirVars, callVars
  <2> QED BY <1>1, <1>7, <2>1, <2>3 DEF Sync, Step, dirVars, TypeOK, WInv
<1>8. CASE Close(w)
  <2>1. TypeOK'
    BY <1>1, <1>8 DEF Close, Step, TypeOK, fileVars, dirVars, callVars, Finalizing
  <2>2. Progress(w)'
    BY <1>1, <1>8 DEF Close, Step, TypeOK, FileShape, Progress, fileVars, Region
  <2>3. \A v \in Writer : FileShape(v)'
    BY <1>1, <1>8, <2>2, QuietStep
       DEF Close, Step, TypeOK, FileShape, Finalizing, fileVars, dirVars, callVars
  <2> QED BY <1>1, <1>8, <2>1, <2>3 DEF Close, Step, dirVars, TypeOK, WInv
<1>9. CASE FinalizeFails(w)
  <2>1. TypeOK'
    BY <1>1, <1>9 DEF FinalizeFails, Abandon, Remove, Return, TypeOK, fileVars, dirVars, callVars, Finalizing
  <2>2. Progress(w)'
    BY <1>1, <1>9 DEF FinalizeFails, Abandon, Remove, Return, TypeOK, FileShape, Progress, fileVars, Region
  <2>3. \A v \in Writer : FileShape(v)'
    BY <1>1, <1>9, <2>2, QuietStep
       DEF FinalizeFails, Abandon, Remove, Return, TypeOK, FileShape, Finalizing, fileVars, dirVars, callVars
  <2> QED BY <1>1, <1>9, <2>1, <2>3 DEF FinalizeFails, Abandon, Remove, Return, dirVars, TypeOK, WInv
<1>10. CASE Rename(w)
  <2>1. TypeOK'
    BY <1>1, <1>10 DEF Rename, Step, TypeOK, fileVars, dirVars, callVars, Finalizing
  <2>2. Progress(w)'
    BY <1>1, <1>10 DEF Rename, Step, TypeOK, FileShape, Progress, fileVars, Region
  <2>3. \A v \in Writer : FileShape(v)'
    BY <1>1, <1>10, <2>2, QuietStep, WholeAtRename
       DEF Rename, Step, TypeOK, FileShape, Finalizing, fileVars, dirVars, callVars
  <2> QED BY <1>1, <1>10, <2>1, <2>3 DEF Rename, Step, dirVars, TypeOK, WInv
<1>11. CASE SyncDirectory(w)
  <2>1. TypeOK'
    BY <1>1, <1>11 DEF SyncDirectory, Step, TypeOK, fileVars, dirVars, callVars, Finalizing
  <2>2. Progress(w)'
    BY <1>1, <1>11 DEF SyncDirectory, Step, TypeOK, FileShape, Progress, fileVars, Region
  <2>3. \A v \in Writer : FileShape(v)'
    BY <1>1, <1>11, <2>2, QuietStep
       DEF SyncDirectory, Step, TypeOK, FileShape, Finalizing, fileVars, dirVars, callVars
  <2> QED BY <1>1, <1>11, <2>1, <2>3 DEF SyncDirectory, Step, dirVars, TypeOK, WInv
<1>12. CASE Report(w)
  <2>1. TypeOK'
    BY <1>1, <1>12 DEF Report, Step, Return, TypeOK, fileVars, dirVars, callVars, Finalizing
  <2>2. Progress(w)'
    BY <1>1, <1>12 DEF Report, Step, Return, TypeOK, FileShape, Progress, fileVars, Region
  <2>3. \A v \in Writer : FileShape(v)'
    BY <1>1, <1>12, <2>2, QuietStep
       DEF Report, Step, Return, TypeOK, FileShape, Finalizing, fileVars, dirVars, callVars
  <2> QED BY <1>1, <1>12, <2>1, <2>3 DEF Report, Step, Return, dirVars, TypeOK, WInv
<1>13. CASE ReportFails(w)
  <2>1. TypeOK'
    BY <1>1, <1>13 DEF ReportFails, Return, TypeOK, fileVars, dirVars, callVars, Finalizing
  <2>2. Progress(w)'
    BY <1>1, <1>13 DEF ReportFails, Return, TypeOK, FileShape, Progress, fileVars, Region
  <2>3. \A v \in Writer : FileShape(v)'
    BY <1>1, <1>13, <2>2, QuietStep
       DEF ReportFails, Return, TypeOK, FileShape, Finalizing, fileVars, dirVars, callVars
  <2> QED BY <1>1, <1>13, <2>1, <2>3 DEF ReportFails, Return, dirVars, TypeOK, WInv
<1>14. CASE Destroy(w)
  <2>1. TypeOK'
    BY <1>1, <1>14 DEF Destroy, Remove, TypeOK, fileVars, dirVars, callVars, Finalizing
  <2>2. Progress(w)'
    BY <1>1, <1>14 DEF Destroy, Remove, TypeOK, FileShape, Progress, fileVars, Region
  <2>3. \A v \in Writer : FileShape(v)'
    BY <1>1, <1>14, <2>2, QuietStep
       DEF Destroy, Remove, TypeOK, FileShape, Finalizing, fileVars, dirVars, callVars
  <2> QED BY <1>1, <1>14, <2>1, <2>3 DEF Destroy, Remove, dirVars, TypeOK, WInv
<1> QED BY <1>2, <1>3, <1>4, <1>5, <1>6, <1>7, <1>8, <1>9, <1>10, <1>11, <1>12, <1>13, <1>14

LEMMA RegionInv ==
  ASSUME WInv, NEW w \in Writer, WritePadding(w) \/ WriteManifest(w) \/ WriteHeader(w)
  PROVE  WInv'
<1>1. /\ TypeOK /\ FileShape(w)
      /\ destination \in pending /\ pending \subseteq published \cup {Old}
  BY DEF WInv
<1>2. PICK r \in Region, next \in {"manifest", "header", "sync"} :
          /\ WriteRegion(w, r, next)
          /\ \/ r = "padding" /\ next = "manifest"
             \/ r = "manifest" /\ next = "header"
             \/ r = "header" /\ next = "sync"
  BY DEF WritePadding, WriteManifest, WriteHeader, Region
<1>3. TypeOK'
  BY <1>1, <1>2 DEF WriteRegion, Step, TypeOK, dirVars, callVars, Finalizing
<1>4. ASSUME NEW v \in Writer PROVE FileShape(v)'
  <2>1. CASE v # w
    BY <1>1, <1>2, <2>1, OtherFile DEF WriteRegion, Step, TypeOK, callVars
  <2>2. CASE v = w
    <3>1. stage[w] = r /\ stage'[w] = next /\ regions'[w] = regions[w] \cup {r}
          /\ w \notin published'
      BY <1>1, <1>2 DEF WriteRegion, Step, TypeOK, FileShape, Region
    <3>2. Progress(w)'
      <4>1. regions'[w] \subseteq Region /\ stage'[w] = next
        BY <1>1, <3>1 DEF TypeOK
      <4>2. regions[w] \subseteq regions'[w] /\ r \in regions'[w]
        BY <3>1
      <4>3. CASE r = "padding"
        BY <1>2, <3>1, <4>2, <4>3 DEF Progress
      <4>4. CASE r = "manifest"
        BY <1>1, <1>2, <3>1, <4>2, <4>4 DEF FileShape, Progress
      <4>5. CASE r = "header"
        <5>1. {"padding", "manifest"} \subseteq regions[w]
          BY <1>1, <3>1, <4>5 DEF FileShape, Progress
        <5>2. regions'[w] = Region
          BY <4>1, <4>2, <4>5, <5>1 DEF Region
        <5> QED BY <1>2, <3>1, <4>5, <5>2 DEF Progress
      <4> QED BY <4>3, <4>4, <4>5 DEF Region
    <3>3. Carries(w)' /\ Complete(w)'
      BY <1>1, <1>2, <3>1
         DEF WriteRegion, FileShape, Carries, Complete, callVars, Finalizing, Region
    <3> QED BY <2>2, <3>1, <3>2, <3>3 DEF FileShape, Finalizing
  <2> QED BY <2>1, <2>2
<1> QED BY <1>1, <1>2, <1>3, <1>4 DEF WriteRegion, dirVars, WInv

\* write_span, whether it succeeds or fails, leaves the accepted cells alone.
LEMMA WriteInv ==
  ASSUME WInv, NEW w \in Writer, CallWrite(w)
  PROVE  WInv'
<1>1. /\ TypeOK /\ FileShape(w)
      /\ destination \in pending /\ pending \subseteq published \cup {Old}
  BY DEF WInv
<1>2. PICK name \in Name : \E chunk \in Chunks(Owner[name]) :
          \/ WriteSpan(w, name, chunk)
          \/ \E count \in 0 .. Len(chunk) - 1 : WriteFails(w, name, chunk, count)
  BY DEF CallWrite
<1>3. PICK chunk \in Chunks(Owner[name]) :
          \/ WriteSpan(w, name, chunk)
          \/ \E count \in 0 .. Len(chunk) - 1 : WriteFails(w, name, chunk, count)
  BY <1>2
<1>4. PICK s \in Span : s = Owner[name]
  BY NamesAssumption
<1>5. /\ chunk \in Seq(Byte) /\ Len(chunk) \in Nat
      /\ chunk \in [1 .. Len(chunk) -> Byte]
  BY <1>4, ChunkFact
<1>6. stage[w] = "open" /\ w \notin published /\ Carries(w)
  BY <1>1, <1>3 DEF WriteSpan, WriteFails, FileShape
<1>7. PICK count \in 0 .. Len(chunk) : Fits(w, s, chunk) /\ Put(w, s, chunk, count)
          /\ \/ count = Len(chunk) /\ WriteSpan(w, name, chunk)
             \/ WriteFails(w, name, chunk, count)
  BY <1>3, <1>4, <1>5 DEF WriteSpan, WriteFails
<1>8. /\ content' \in [Writer -> [Span -> Seq(Byte \cup {Hole})]]
      /\ \A v \in Writer, t \in Span :
            /\ Len(content'[v][t]) = Length[t]
            /\ (v # w \/ t # s) => content'[v][t] = content[v][t]
      /\ \A i \in 1 .. Length[s] : content'[w][s][i] =
            IF i > written[w][s] /\ i <= written[w][s] + count
            THEN chunk[i - written[w][s]] ELSE content[w][s][i]
  <2>1. chunk \in Chunks(s)
    BY <1>4
  <2> QED BY <1>1, <1>4, <1>7, <2>1, PutFact
<1>9. /\ written' \in [Writer -> [Span -> Nat]]
      /\ accepted' \in [Writer -> [Span -> Seq(Byte)]]
      /\ \A v \in Writer, t \in Span :
            (v # w \/ t # s) => /\ written'[v][t] = written[v][t]
                               /\ accepted'[v][t] = accepted[v][t]
      /\ \/ /\ count = Len(chunk)
            /\ written'[w][s] = written[w][s] + count
            /\ accepted'[w][s] = accepted[w][s] \o chunk
         \/ written'[w][s] = written[w][s] /\ accepted'[w][s] = accepted[w][s]
  <2>1. written \in [Writer -> [Span -> Nat]] /\ accepted \in [Writer -> [Span -> Seq(Byte)]]
    BY <1>1 DEF TypeOK
  <2>2. CASE count = Len(chunk) /\ WriteSpan(w, name, chunk)
    <3>1. /\ written' = [written EXCEPT ![w] = [written[w] EXCEPT ![s] = written[w][s] + Len(chunk)]]
          /\ accepted' = [accepted EXCEPT ![w] = [accepted[w] EXCEPT ![s] = accepted[w][s] \o chunk]]
      BY <1>4, <2>2 DEF WriteSpan
    <3>2. accepted[w][s] \o chunk \in Seq(Byte) /\ written[w][s] + Len(chunk) \in Nat
      BY <1>4, <1>5, <2>1
    <3> QED BY <1>4, <2>1, <2>2, <3>1, <3>2
  <2>3. CASE WriteFails(w, name, chunk, count)
    BY <2>1, <2>3 DEF WriteFails, callVars
  <2> QED BY <1>7, <2>2, <2>3
<1>10. Length[s] \in Nat /\ written[w][s] \in Nat
      /\ written[w][s] + Len(chunk) <= Length[s]
  <2>1. Length[s] \in Nat /\ written[w][s] \in Nat
    BY <1>1, NamesAssumption DEF TypeOK
  <2>2. Len(chunk) <= Length[s] - written[w][s]
    BY <1>7 DEF Fits
  <2> QED BY <1>5, <2>1, <2>2
<1>11. stage' = stage /\ published' = published /\ synced' = synced \ {w}
       /\ regions' = regions /\ returned' = returned /\ UNCHANGED dirVars
  BY <1>7 DEF WriteSpan, WriteFails, Put, callVars
<1>12. \A t \in Span : t # s => /\ written'[w][t] = written[w][t]
                               /\ accepted'[w][t] = accepted[w][t]
                               /\ content'[w][t] = content[w][t]
  BY <1>8, <1>9
<1>13. TypeOK'
  <2>1. ASSUME NEW v \in Writer, NEW t \in Span PROVE written'[v][t] <= Length[t]
    <3>1. CASE v # w \/ t # s
      <4>1. written'[v][t] = written[v][t]
        BY <1>9, <3>1
      <4> QED BY <1>1, <4>1 DEF TypeOK
    <3>2. CASE v = w /\ t = s
      <4>1. written'[w][s] = written[w][s] + Len(chunk) \/ written'[w][s] = written[w][s]
        BY <1>9
      <4> QED BY <1>5, <1>10, <3>2, <4>1
    <3> QED BY <3>1, <3>2
  <2> QED BY <1>1, <1>8, <1>9, <1>11, <2>1 DEF TypeOK, dirVars
<1>14. Carries(w)'
  <2> SUFFICES ASSUME NEW t \in Span
               PROVE  /\ Len(accepted'[w][t]) = written'[w][t]
                      /\ \A i \in 1 .. written'[w][t] :
                             content'[w][t][i] = accepted'[w][t][i]
    BY DEF Carries
  <2>1. CASE t # s
    <3>1. /\ Len(accepted[w][t]) = written[w][t]
          /\ \A i \in 1 .. written[w][t] : content[w][t][i] = accepted[w][t][i]
      BY <1>6 DEF Carries
    <3> QED BY <1>12, <2>1, <3>1
  <2>2. CASE t = s
    <3>1. /\ accepted[w][s] \in Seq(Byte) /\ Len(accepted[w][s]) = written[w][s]
          /\ \A i \in 1 .. written[w][s] : content[w][s][i] = accepted[w][s][i]
      BY <1>1, <1>6 DEF Carries, TypeOK
    <3>2. \A i \in 1 .. Length[s] : content'[w][s][i] =
             IF i > written[w][s] /\ i <= written[w][s] + count
             THEN chunk[i - written[w][s]] ELSE content[w][s][i]
      BY <1>8
    <3>3. CASE written'[w][s] = written[w][s] /\ accepted'[w][s] = accepted[w][s]
      <4>1. \A i \in 1 .. written[w][s] : content'[w][s][i] = content[w][s][i]
        BY <1>5, <1>10, <3>2
      <4> QED BY <2>2, <3>1, <3>3, <4>1
    <3>4. CASE /\ count = Len(chunk)
               /\ written'[w][s] = written[w][s] + count
               /\ accepted'[w][s] = accepted[w][s] \o chunk
      <4> DEFINE old == accepted[w][s]
                 n == written[w][s] + Len(chunk)
      <4>1. /\ Len(old \o chunk) = Len(old) + Len(chunk)
            /\ \A i \in 1 .. Len(old) + Len(chunk) :
                   (old \o chunk)[i] = IF i <= Len(old) THEN old[i]
                                                       ELSE chunk[i - Len(old)]
        BY <1>5, <3>1, ConcatProperties
      <4>2. ASSUME NEW i \in 1 .. n PROVE content'[w][s][i] = accepted'[w][s][i]
        <5>1. i \in 1 .. Length[s] /\ i \in Nat
          BY <1>5, <1>10
        <5>2. CASE i <= written[w][s]
          <6>1. content'[w][s][i] = content[w][s][i]
            BY <1>10, <3>2, <5>1, <5>2
          <6>2. i \in 1 .. written[w][s]
            BY <1>10, <5>1, <5>2
          <6> QED BY <3>1, <3>4, <4>1, <5>2, <6>1, <6>2
        <5>3. CASE i > written[w][s]
          <6>1. content'[w][s][i] = chunk[i - written[w][s]]
            BY <3>2, <3>4, <5>1, <5>3
          <6> QED BY <1>10, <3>1, <3>4, <4>1, <5>1, <5>3, <6>1
        <5> QED BY <1>10, <5>1, <5>2, <5>3
      <4> QED BY <1>5, <2>2, <3>1, <3>4, <4>1, <4>2
    <3> QED BY <1>9, <3>3, <3>4
  <2> QED BY <2>1, <2>2
<1>15. ASSUME NEW v \in Writer PROVE FileShape(v)'
  <2>1. CASE v # w
    <3>1. written'[v] = written[v] /\ accepted'[v] = accepted[v] /\ content'[v] = content[v]
      <4>1. content'[v] = content[v]
        BY <1>1, <1>7, <2>1 DEF Put, TypeOK
      <4>2. CASE WriteSpan(w, name, chunk)
        BY <1>1, <2>1, <4>1, <4>2 DEF WriteSpan, TypeOK
      <4>3. CASE WriteFails(w, name, chunk, count)
        BY <4>1, <4>3 DEF WriteFails, callVars
      <4> QED BY <1>7, <4>2, <4>3
    <3> QED BY <1>11, <2>1, <3>1, OtherFile
  <2>2. CASE v = w
    BY <1>6, <1>11, <1>14, <2>2 DEF FileShape, Progress, Finalizing
  <2> QED BY <2>1, <2>2
<1> QED BY <1>1, <1>11, <1>13, <1>15 DEF WInv, dirVars

\* A crash can damage no file the destination may name.
LEMMA CrashInv ==
  ASSUME WInv, Crash
  PROVE  WInv'
<1>1. TypeOK /\ destination \in pending /\ pending \subseteq published \cup {Old}
  BY DEF WInv
<1>2. PICK damaged \in SUBSET (Writer \ synced) :
          /\ content' = [w \in Writer |-> IF w \in damaged THEN Blank ELSE content[w]]
          /\ regions' = [w \in Writer |-> IF w \in damaged THEN {} ELSE regions[w]]
  BY DEF Crash
<1>3. TypeOK'
  BY <1>1, <1>2, BlankFact DEF Crash, TypeOK, callVars
<1>4. ASSUME NEW w \in Writer PROVE FileShape(w)'
  <2>1. /\ FileShape(w)
        /\ \/ stage'[w] = "new" /\ stage[w] = "new"
           \/ stage'[w] = "gone"
        /\ (stage'[w] = "new" => stage[w] = "new")
    BY DEF WInv, Crash
  <2>2. w \in published => content'[w] = content[w] /\ regions'[w] = regions[w]
    BY <1>2, <2>1 DEF FileShape
  <2>3. w \in published => Whole(w)'
    BY <2>1, <2>2 DEF FileShape, Whole, Crash, callVars
  <2> QED BY <2>1, <2>3 DEF FileShape, Progress, Crash, callVars, Finalizing
<1> QED BY <1>1, <1>3, <1>4 DEF WInv, Crash

LEMMA StepInv == WInv /\ [Next]_vars => WInv'
<1> SUFFICES ASSUME WInv, [Next]_vars PROVE WInv'
  OBVIOUS
<1>1. ASSUME NEW w \in Writer, CallWrite(w) PROVE WInv'
  BY <1>1, WriteInv
<1>2. ASSUME NEW w \in Writer, CallFinalize(w) PROVE WInv'
  BY <1>2, QuietInv, RegionInv DEF CallFinalize
<1>3. ASSUME NEW w \in Writer,
             Create(w) \/ CreateFails(w) \/ WriteAbandons(w) \/ Destroy(w)
      PROVE  WInv'
  BY <1>3, QuietInv
<1>4. CASE Crash
  BY <1>4, CrashInv
<1>5. CASE UNCHANGED vars
  BY <1>5 DEF vars, fileVars, dirVars, callVars, WInv, TypeOK, FileShape, Carries,
              Progress, Complete, Whole
<1> QED BY <1>1, <1>2, <1>3, <1>4, <1>5 DEF Next

\* The inductive invariant the theorems below rest on holds of every behaviour
\* of the writers (writer.cpp), crashes included.
THEOREM WriterInv == Spec => []WInv
BY InitInv, StepInv, PTL DEF Spec

\* For any number of writers on one destination, any spans and any aliases,
\* through failed and repeated writes and crashes at any step, the destination
\* is the old artifact or a whole new one (ArtifactWriter::finalize).
THEOREM PublicationIsAtomic == Spec => []DestinationIsWhole
<1>1. WInv => DestinationIsWhole
  BY DEF WInv, TypeOK, FileShape, DestinationIsWhole
<1> QED BY <1>1, WriterInv, PTL

\* The variables of the writer have their types and no span overflows its length.
THEOREM WriterTypeCorrect == Spec => []TypeOK
<1>1. WInv => TypeOK
  BY DEF WInv
<1> QED BY <1>1, WriterInv, PTL

-----------------------------------------------------------------------------
(* Temporaries.                                                              *)

TemporaryShape(w) ==
    /\ stage[w] = "new" => w \notin temporary
    /\ w \in published => w \notin temporary /\ stage[w] # "new"
    /\ (stage[w] = "gone" /\ w \in temporary) => w \in unremoved

LEMMA TemporaryInit == Init => \A w \in Writer : TemporaryShape(w)
BY DEF Init, TemporaryShape

\* A step of w leaves the temporaries of the other writers alone, and its own
\* goes with it.
LEMMA TemporaryOfOne ==
  ASSUME TypeOK, \A v \in Writer : TemporaryShape(v), NEW w \in Writer,
         CallWrite(w) \/ CallFinalize(w) \/ Create(w) \/ CreateFails(w)
             \/ WriteAbandons(w) \/ Destroy(w)
  PROVE  \A v \in Writer : TemporaryShape(v)'
<1>1. TemporaryShape(w) /\ stage \in [Writer -> Finalizing \cup
                     {"new", "open", "directory", "report", "closed", "gone"}]
  BY DEF TypeOK
<1>2. /\ \A v \in Writer \ {w} : stage'[v] = stage[v]
      /\ temporary' \ {w} = temporary \ {w} /\ unremoved' \ {w} = unremoved \ {w}
      /\ published' \ {w} = published \ {w}
      /\ TemporaryShape(w)'
  <2>1. CASE CallWrite(w)
    BY <1>1, <2>1 DEF CallWrite, WriteSpan, WriteFails, dirVars, callVars, TemporaryShape
  <2>2. CASE Create(w) \/ CreateFails(w) \/ WriteAbandons(w) \/ Destroy(w)
    BY <1>1, <2>2 DEF Create, CreateFails, WriteAbandons, Destroy, Abandon, Remove,
                      dirVars, callVars, TemporaryShape
  <2>3. CASE \/ Finalize(w) \/ WritePadding(w) \/ WriteManifest(w) \/ WriteHeader(w)
             \/ Sync(w) \/ Close(w) \/ Report(w) \/ ReportFails(w) \/ SyncDirectory(w)
    BY <1>1, <2>3 DEF Finalize, WritePadding, WriteManifest, WriteHeader, WriteRegion,
                      Sync, Close, Report, ReportFails, SyncDirectory, Step, dirVars,
                      TemporaryShape
  <2>4. CASE FinalizeIncomplete(w) \/ FinalizeFails(w) \/ Rename(w)
    BY <1>1, <2>4 DEF FinalizeIncomplete, FinalizeFails, Rename, Step, Abandon, Remove,
                      Finalizing, TemporaryShape
  <2> QED BY <2>1, <2>2, <2>3, <2>4 DEF CallFinalize
<1>3. ASSUME NEW v \in Writer, v # w PROVE TemporaryShape(v)'
  <2>1. /\ stage'[v] = stage[v] /\ (v \in temporary' <=> v \in temporary)
        /\ (v \in unremoved' <=> v \in unremoved) /\ (v \in published' <=> v \in published)
    BY <1>2, <1>3
  <2> QED BY <2>1 DEF TemporaryShape
<1> QED BY <1>2, <1>3

LEMMA TemporaryStep ==
  ASSUME TypeOK, \A w \in Writer : TemporaryShape(w), [Next]_vars
  PROVE  \A w \in Writer : TemporaryShape(w)'
<1>1. CASE Crash
  BY <1>1 DEF Crash, TemporaryShape
<1>2. CASE UNCHANGED vars
  BY <1>2 DEF vars, dirVars, TemporaryShape
<1> QED BY <1>1, <1>2, TemporaryOfOne DEF Next

\* A writer that is gone, in whatever way it went, leaves a temporary only when
\* it could not be removed or the machine had stopped (Impl::abandon).
THEOREM TemporariesAreRemoved == Spec => []NoTemporaryLeft
<1> DEFINE T == \A w \in Writer : TemporaryShape(w)
<1>1. T /\ TypeOK /\ [Next]_vars => T'
  BY TemporaryStep
<1>2. T => NoTemporaryLeft
  BY DEF TemporaryShape, NoTemporaryLeft
<1>3. Init => T
  BY TemporaryInit
<1> QED BY <1>1, <1>2, <1>3, WriterTypeCorrect, PTL DEF Spec
=============================================================================
