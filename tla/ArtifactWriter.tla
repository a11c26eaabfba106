--------------------------- MODULE ArtifactWriter ---------------------------
(* Publication of an artifact (src/format/writer.cpp): a writer streams named *)
(* spans into a temporary file, then finalize lays down padding, manifest and *)
(* header, makes the file durable and renames it over the destination.        *)
(* Several writers may share one destination; the machine may crash between   *)
(* any two system calls.                                                      *)
(*                                                                            *)
(* A file is its spans, cell by cell, and the regions finalize has written.   *)
(* The file system is external: writes not followed by an fsync of the file,  *)
(* and renames not followed by one of the directory, may be lost in a crash.  *)
EXTENDS Integers, Sequences

CONSTANTS Writer,    \* calls of ArtifactWriter::create, each at most once
          Name,      \* logical names with a span kind; aliases among them
          Span,      \* physical spans
          Owner,     \* the span each name writes
          Length,    \* cells of each span
          Byte,      \* what a caller can put in a cell
          Hole,      \* a cell never written, or lost
          Old        \* what the destination held before

ASSUME NamesAssumption == /\ Owner \in [Name -> Span]
                          /\ Length \in [Span -> Nat \ {0}]
ASSUME CellAssumption  == Hole \notin Byte /\ Old \notin Writer

VARIABLES
    stage,       \* what each writer does next
    written,     \* PhysicalSpan::written
    published,   \* writers that have renamed their file
    content,     \* the spans of each writer's file
    regions,     \* which of Region each writer's file has
    synced,      \* writers whose file is durable
    temporary,   \* writers whose temporary name exists
    destination, \* whose file the destination names
    pending,     \* what the destination may name after a crash
    \* history variables
    accepted,    \* what the caller was told is in each span
    returned,    \* what finalize returned
    unremoved    \* writers whose last removal of the temporary failed

fileVars   == <<content, regions, synced>>
dirVars    == <<temporary, destination, pending, unremoved>>
callVars   == <<accepted, returned>>
vars == <<stage, written, published, fileVars, dirVars, callVars>>

Region == {"padding", "manifest", "header"}

\* finalize, one system call after another.
Finalizing == {"padding", "manifest", "header", "sync", "close", "rename"}

Complete(w) == \A s \in Span : written[w][s] = Length[s]

Blank == [s \in Span |-> [i \in 1 .. Length[s] |-> Hole]]

Init == /\ stage = [w \in Writer |-> "new"]
        /\ written = [w \in Writer |-> [s \in Span |-> 0]]
        /\ published = {}
        /\ content = [w \in Writer |-> Blank]
        /\ regions = [w \in Writer |-> {}]
        /\ synced = {}
        /\ temporary = {} /\ unremoved = {}
        /\ destination = Old /\ pending = {Old}
        /\ accepted = [w \in Writer |-> [s \in Span |-> <<>>]]
        /\ returned = [w \in Writer |-> "nothing"]

-----------------------------------------------------------------------------
\* The temporary is removed, or the removal fails and the name stays.
Remove(w) ==
    /\ \/ temporary' = temporary \ {w} /\ unremoved' = unremoved \ {w}
       \/ unremoved' = unremoved \cup {w} /\ UNCHANGED temporary
    /\ UNCHANGED <<destination, pending>>

\* Impl::abandon: close the file, remove the temporary, accept nothing more.
Abandon(w) == stage' = [stage EXCEPT ![w] = "closed"] /\ Remove(w)

\* mkstemp, close-on-exec and a header of zeros.
Create(w) ==
    /\ stage[w] = "new"
    /\ stage' = [stage EXCEPT ![w] = "open"]
    /\ temporary' = temporary \cup {w}
    /\ UNCHANGED <<written, published, fileVars, destination, pending, unremoved,
                   callVars>>

\* Create fails before there is a temporary, or abandons the one there is.
CreateFails(w) ==
    /\ stage[w] = "new"
    /\ stage' = [stage EXCEPT ![w] = "gone"]
    /\ \/ UNCHANGED <<temporary, unremoved>>
       \/ temporary' = temporary \cup {w} /\ unremoved' = unremoved \cup {w}
    /\ UNCHANGED <<written, published, fileVars, destination, pending, callVars>>

\* Mutant: a chunk may run past the end of its span.
Fits_Always(w, s, chunk) == chunk # <<>> /\ written[w][s] < Length[s]

Fits(w, s, chunk) == chunk # <<>> /\ Len(chunk) <= Length[s] - written[w][s]

\* write_at: the first count cells of chunk replace those from position at on.
WriteAt(cells, at, chunk, count) ==
    [i \in 1 .. Len(cells) |->
        IF i > at /\ i <= at + count THEN chunk[i - at] ELSE cells[i]]

\* They go where the span has been written up to.
Put(w, s, chunk, count) ==
    LET cells == WriteAt(content[w][s], written[w][s], chunk, count)
    IN  /\ content' = [content EXCEPT ![w] = [content[w] EXCEPT ![s] = cells]]
        /\ synced' = synced \ {w}
        /\ UNCHANGED regions

\* write_span: the whole chunk is written and counted.
WriteSpan(w, name, chunk) ==
    LET s == Owner[name]
    IN  /\ stage[w] = "open" /\ Fits(w, s, chunk)
        /\ Put(w, s, chunk, Len(chunk))
        /\ written' = [written EXCEPT ![w][s] = @ + Len(chunk)]
        /\ accepted' = [accepted EXCEPT ![w][s] = @ \o chunk]
        /\ UNCHANGED <<stage, published, dirVars, returned>>

\* write_at fails after count cells: the caller may go on, or try again.
WriteFails(w, name, chunk, count) ==
    LET s == Owner[name]
    IN  /\ stage[w] = "open" /\ Fits(w, s, chunk)
        /\ Put(w, s, chunk, count)
        /\ UNCHANGED <<stage, written, published, dirVars, callVars>>

\* write_span runs out of memory.
WriteAbandons(w) ==
    /\ stage[w] = "open" /\ Abandon(w)
    /\ UNCHANGED <<written, published, fileVars, callVars>>

-----------------------------------------------------------------------------
Step(w, from, to) == stage[w] = from /\ stage' = [stage EXCEPT ![w] = to]

Return(w, what) == returned' = [returned EXCEPT ![w] = what]

\* finalize begins: every span is complete.
Finalize(w) ==
    /\ Complete(w)
    /\ Step(w, "open", "padding")
    /\ UNCHANGED <<written, published, fileVars, dirVars, callVars>>

FinalizeIncomplete(w) ==
    /\ stage[w] = "open" /\ ~Complete(w)
    /\ Abandon(w) /\ Return(w, "error")
    /\ UNCHANGED <<written, published, fileVars, accepted>>

WriteRegion(w, region, next) ==
    /\ Step(w, region, next)
    /\ regions' = [regions EXCEPT ![w] = @ \cup {region}]
    /\ synced' = synced \ {w}
    /\ UNCHANGED <<written, published, content, dirVars, callVars>>

WritePadding(w)  == WriteRegion(w, "padding", "manifest")
WriteManifest(w) == WriteRegion(w, "manifest", "header")
WriteHeader(w)   == WriteRegion(w, "header", "sync")

\* Mutant: the file is renamed without having been made durable.
Sync_Skipped(w) ==
    /\ Step(w, "sync", "close")
    /\ UNCHANGED <<written, published, fileVars, dirVars, callVars>>

Sync(w) ==
    /\ Step(w, "sync", "close")
    /\ synced' = synced \cup {w}
    /\ UNCHANGED <<written, published, content, regions, dirVars, callVars>>

Close(w) ==
    /\ Step(w, "close", "rename")
    /\ UNCHANGED <<written, published, fileVars, dirVars, callVars>>

\* Any of these steps fails, or memory runs out; a failed rename too removes
\* the temporary and closes the writer.
FinalizeFails(w) ==
    /\ stage[w] \in Finalizing
    /\ Abandon(w) /\ Return(w, "error")
    /\ UNCHANGED <<written, published, fileVars, accepted>>

Rename(w) ==
    /\ Step(w, "rename", "directory")
    /\ destination' = w /\ pending' = pending \cup {w}
    /\ temporary' = temporary \ {w}
    /\ published' = published \cup {w}
    /\ UNCHANGED <<written, fileVars, unremoved, callVars>>

\* Best effort: neither open nor fsync of the directory is checked.
SyncDirectory(w) ==
    /\ Step(w, "directory", "report")
    /\ pending' \in {pending, {destination}}
    /\ UNCHANGED <<written, published, fileVars, temporary, destination, unremoved,
                   callVars>>

Report(w) ==
    /\ Step(w, "report", "closed") /\ Return(w, "identity")
    /\ UNCHANGED <<written, published, fileVars, dirVars, accepted>>

\* The identity, or the parent path before it, cannot be allocated.
ReportFails(w) ==
    /\ stage[w] \in {"directory", "report"}
    /\ stage' = [stage EXCEPT ![w] = "closed"] /\ Return(w, "error")
    /\ UNCHANGED <<written, published, fileVars, dirVars, accepted>>

\* Mutant: a writer destroyed before it was finalized leaves its temporary.
Destroy_KeepsTemporary(w) ==
    /\ stage[w] \in {"open", "closed"}
    /\ stage' = [stage EXCEPT ![w] = "gone"]
    /\ UNCHANGED <<written, published, fileVars, dirVars, callVars>>

Destroy(w) ==
    /\ stage[w] \in {"open", "closed"}
    /\ stage' = [stage EXCEPT ![w] = "gone"]
    /\ IF w \in published THEN UNCHANGED dirVars ELSE Remove(w)
    /\ UNCHANGED <<written, published, fileVars, callVars>>

-----------------------------------------------------------------------------
\* The machine stops.  Files that were not durable may come back damaged, the
\* destination names any of the files it may name, and no writer survives.
\* (What becomes of the temporary names is not followed.)
Crash ==
    /\ stage' = [w \in Writer |-> IF stage[w] = "new" THEN "new" ELSE "gone"]
    /\ destination' \in pending /\ pending' = {destination'}
    /\ \E damaged \in SUBSET (Writer \ synced) :
          /\ content' = [w \in Writer |-> IF w \in damaged THEN Blank ELSE content[w]]
          /\ regions' = [w \in Writer |-> IF w \in damaged THEN {} ELSE regions[w]]
    /\ unremoved' = unremoved \cup temporary
    /\ UNCHANGED <<written, published, synced, temporary, callVars>>

Chunks(s) == UNION {[1 .. n -> Byte] : n \in 1 .. Length[s]}

CallWrite(w) ==
    \E name \in Name : \E chunk \in Chunks(Owner[name]) :
        \/ WriteSpan(w, name, chunk)
        \/ \E count \in 0 .. Len(chunk) - 1 : WriteFails(w, name, chunk, count)

CallFinalize(w) ==
    \/ Finalize(w) \/ FinalizeIncomplete(w)
    \/ WritePadding(w) \/ WriteManifest(w) \/ WriteHeader(w)
    \/ Sync(w) \/ Close(w) \/ FinalizeFails(w)
    \/ Rename(w) \/ SyncDirectory(w)
    \/ Report(w) \/ ReportFails(w)

Next == \/ \E w \in Writer : \/ Create(w) \/ CreateFails(w)
                             \/ CallWrite(w) \/ WriteAbandons(w)
                             \/ CallFinalize(w)
                             \/ Destroy(w)
        \/ Crash

Spec == Init /\ [][Next]_vars

-----------------------------------------------------------------------------
\* Every variable has its type; no span holds more than its length.
TypeOK ==
    /\ stage \in [Writer -> Finalizing \cup
                     {"new", "open", "directory", "report", "closed", "gone"}]
    /\ written \in [Writer -> [Span -> Nat]]
    /\ content \in [Writer -> [Span -> Seq(Byte \cup {Hole})]]
    /\ accepted \in [Writer -> [Span -> Seq(Byte)]]
    /\ \A w \in Writer, s \in Span :
          /\ written[w][s] <= Length[s]
          /\ Len(content[w][s]) = Length[s]
    /\ regions \in [Writer -> SUBSET Region]
    /\ published \subseteq Writer /\ synced \subseteq Writer
    /\ temporary \subseteq Writer /\ unremoved \subseteq Writer
    /\ destination \in Writer \cup {Old} /\ pending \subseteq Writer \cup {Old}
    /\ returned \in [Writer -> {"nothing", "identity", "error"}]

\* The file of w has every region, and in every span, over its whole length,
\* exactly the bytes the caller was told had been written, in order.
Whole(w) == regions[w] = Region /\ \A s \in Span : content[w][s] = accepted[w][s]

\* The destination is the old artifact or a whole new one, after any failed or
\* repeated write_span, with other writers on the same destination, and after a
\* crash at any point (TASK-003: "Failure cannot publish a partial artifact").
DestinationIsWhole == destination # Old => Whole(destination)

\* A destroyed writer leaves no temporary behind, unless removing it failed.
NoTemporaryLeft ==
    \A w \in Writer : (stage[w] = "gone" /\ w \in temporary) => w \in unremoved

\* writer.hpp: "Failed finalization never publishes a destination file."
FailedFinalizeNeverPublishes ==
    \A w \in Writer : returned[w] = "error" => destination # w
=============================================================================
