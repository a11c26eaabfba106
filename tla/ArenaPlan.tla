------------------------------ MODULE ArenaPlan ------------------------------
(* The scratch arena planner (plan_scratch_arena, src/runtime/arena.cpp):     *)
(* every request names its bytes and the kernel stages in which it is live;   *)
(* requests that are never live together may share bytes.  The planner places *)
(* the largest slot first and moves each next slot up past every live slot it *)
(* meets, looking again from the first one after each move.                   *)
EXTENDS Integers, Sequences, FiniteSets

CONSTANTS Calls,     \* the <<requests, alignment>> a caller may pass
          MaxWord    \* the largest std::uint64_t

\* A request: bytes, a set of intervals of stages, and an exclusive group.
ASSUME ArenaAssumption ==
    /\ MaxWord \in Nat
    /\ \A call \in Calls :
          call \in Seq([bytes : 0 .. MaxWord,
                       live  : SUBSET [first : Nat, last : Nat],
                       group : Nat]) \X (0 .. MaxWord)

VARIABLES requests, alignment,
          planning,    \* "checking", "placing", "planned", "refused"
          placed,      \* slots placed so far, in order: leader, offset, bytes
          candidate,   \* offset tried for the slot at hand
          probe,       \* index into placed of the next slot to compare with
          total
planVars == <<requests, alignment, planning, placed, candidate, probe, total>>

PlanInit == /\ \E call \in Calls : requests = call[1] /\ alignment = call[2]
            /\ planning = "checking"
            /\ placed = <<>>
            /\ candidate = 0
            /\ probe = 1
            /\ total = 0

-----------------------------------------------------------------------------
\* intervals_overlap, live_conflict and ranges_overlap.
IntervalsOverlap(a, b) == ~(a.last < b.first \/ b.last < a.first)

LiveConflict(s, t) == \E a \in s, b \in t : IntervalsOverlap(a, b)

RangesOverlap(a0, a1, b0, b1) == a0 < b1 /\ b0 < a1

\* Unchecked uint64_t addition of two words.
Wrapped(x) == IF x > MaxWord THEN x - MaxWord - 1 ELSE x

\* align_up, before its overflow check.
AlignUp(x) == IF x % alignment = 0 THEN x ELSE x + (alignment - (x % alignment))

-----------------------------------------------------------------------------
\* Requests of one non-zero group share a slot, led by the first of them.
Together(i, j) == \/ i = j
                  \/ /\ requests[i].group # 0
                     /\ requests[i].group = requests[j].group

Leaders == {i \in DOMAIN requests : \A j \in 1 .. i - 1 : ~Together(i, j)}

Members(l) == {i \in DOMAIN requests : Together(l, i)}

\* Mutant: the slot is as large as its leader.
SlotBytes_Leader(l) == requests[l].bytes

SlotBytes(l) == CHOOSE b \in {requests[i].bytes : i \in Members(l)} :
                    \A i \in Members(l) : requests[i].bytes <= b

SlotLive(l) == UNION {requests[i].live : i \in Members(l)}

Unplaced == Leaders \ {placed[k].leader : k \in DOMAIN placed}

\* stable_sort by decreasing bytes: ties keep the order of the requests.
Comes(l) == /\ l \in Unplaced
            /\ \A m \in Unplaced : \/ SlotBytes(m) < SlotBytes(l)
                                   \/ SlotBytes(m) = SlotBytes(l) /\ l <= m

-----------------------------------------------------------------------------
\* v0_scratch_requests: what a session asks for, in the order the units below
\* index it; stages are numbered as in KernelStage (arena.hpp).
Live(first, last) == [first |-> first, last |-> last]

AttentionBytes(capacity) ==
    LET need == 53248 + ((capacity \div 256) + (IF capacity % 256 = 0 THEN 0 ELSE 1)) * 24768
    IN  IF need < 78016 THEN 78016 ELSE need

\* Mutant: the normalized row is declared dead before gate and up read it.
V0Requests_ShortNormalized(tokens, capacity) ==
    << [bytes |-> tokens * 10240, live |-> {Live(1, 2), Live(4, 4), Live(7, 8)}, group |-> 0],
       [bytes |-> tokens * 107264, live |-> {Live(2, 3)}, group |-> 1],
       [bytes |-> AttentionBytes(capacity), live |-> {Live(2, 3)}, group |-> 1],
       [bytes |-> tokens * 34816, live |-> {Live(5, 6)}, group |-> 0],
       [bytes |-> tokens * 993280, live |-> {Live(8, 8)}, group |-> 0] >>

V0Requests(tokens, capacity) ==
    << [bytes |-> tokens * 10240, live |-> {Live(1, 2), Live(4, 5), Live(7, 8)}, group |-> 0],
       [bytes |-> tokens * 107264, live |-> {Live(2, 3)}, group |-> 1],
       [bytes |-> AttentionBytes(capacity), live |-> {Live(2, 3)}, group |-> 1],
       [bytes |-> tokens * 34816, live |-> {Live(5, 6)}, group |-> 0],
       [bytes |-> tokens * 993280, live |-> {Live(8, 8)}, group |-> 0] >>

-----------------------------------------------------------------------------
Valid == /\ alignment # 0
         /\ \A i \in DOMAIN requests :
               /\ requests[i].bytes # 0
               /\ requests[i].live # {}
               /\ \A interval \in requests[i].live : interval.first <= interval.last

Check == /\ planning = "checking"
         /\ planning' = IF Valid THEN "placing" ELSE "refused"
         /\ UNCHANGED <<requests, alignment, placed, candidate, probe, total>>

\* std::bad_alloc or std::length_error from a container.
HostAllocationFails ==
    /\ planning \in {"checking", "placing"}
    /\ planning' = "refused"
    /\ UNCHANGED <<requests, alignment, placed, candidate, probe, total>>

Sized(l) == AlignUp(SlotBytes(l))

\* Slot l at the candidate offset meets the placed slot under the probe.
Meets(l) == /\ LiveConflict(SlotLive(l), SlotLive(placed[probe].leader))
            /\ RangesOverlap(candidate, Wrapped(candidate + Sized(l)),
                             placed[probe].offset,
                             placed[probe].offset + placed[probe].bytes)

SizeOverflows(l) ==
    /\ planning = "placing" /\ Comes(l)
    /\ Sized(l) > MaxWord
    /\ planning' = "refused"
    /\ UNCHANGED <<requests, alignment, placed, candidate, probe, total>>

Pass(l) ==
    /\ planning = "placing" /\ Comes(l)
    /\ Sized(l) <= MaxWord
    /\ probe <= Len(placed)
    /\ ~Meets(l)
    /\ probe' = probe + 1
    /\ UNCHANGED <<requests, alignment, planning, placed, candidate, total>>

\* Mutants: go on from the slot that was met instead of from the first; try the
\* same offset again; never look whether the slot still fits the word.
MoveUp_Unchecked(l) ==
    /\ planning = "placing" /\ Comes(l)
    /\ Sized(l) <= MaxWord
    /\ probe <= Len(placed)
    /\ Meets(l)
    /\ candidate' = AlignUp(placed[probe].offset + placed[probe].bytes)
    /\ probe' = 1
    /\ UNCHANGED <<requests, alignment, planning, placed, total>>

MoveUp_GoOn(l) ==
    LET top == AlignUp(placed[probe].offset + placed[probe].bytes)
    IN  /\ planning = "placing" /\ Comes(l)
        /\ Sized(l) <= MaxWord
        /\ probe <= Len(placed)
        /\ Meets(l)
        /\ IF top > MaxWord - Sized(l)
           THEN planning' = "refused" /\ UNCHANGED <<candidate, probe>>
           ELSE candidate' = top /\ probe' = probe + 1 /\ UNCHANGED planning
        /\ UNCHANGED <<requests, alignment, placed, total>>

MoveUp_Stay(l) ==
    LET top == AlignUp(placed[probe].offset)
    IN  /\ planning = "placing" /\ Comes(l)
        /\ Sized(l) <= MaxWord
        /\ probe <= Len(placed)
        /\ Meets(l)
        /\ IF top > MaxWord - Sized(l)
           THEN planning' = "refused" /\ UNCHANGED <<candidate, probe>>
           ELSE candidate' = top /\ probe' = 1 /\ UNCHANGED planning
        /\ UNCHANGED <<requests, alignment, placed, total>>

\* Past the slot that was met, or out of the word.
MoveUp(l) ==
    LET top == AlignUp(placed[probe].offset + placed[probe].bytes)
    IN  /\ planning = "placing" /\ Comes(l)
        /\ Sized(l) <= MaxWord
        /\ probe <= Len(placed)
        /\ Meets(l)
        /\ IF top > MaxWord - Sized(l)
           THEN planning' = "refused" /\ UNCHANGED <<candidate, probe>>
           ELSE candidate' = top /\ probe' = 1 /\ UNCHANGED planning
        /\ UNCHANGED <<requests, alignment, placed, total>>

\* No live slot is in the way.  The end cannot overflow: MoveUp checked it.
Place(l) ==
    /\ planning = "placing" /\ Comes(l)
    /\ Sized(l) <= MaxWord
    /\ probe > Len(placed)
    /\ placed' = Append(placed, [leader |-> l, offset |-> candidate, bytes |-> Sized(l)])
    /\ total' = IF candidate + Sized(l) > total THEN candidate + Sized(l) ELSE total
    /\ candidate' = 0
    /\ probe' = 1
    /\ UNCHANGED <<requests, alignment, planning>>

Finish == /\ planning = "placing"
          /\ Unplaced = {}
          /\ planning' = "planned"
          /\ UNCHANGED <<requests, alignment, placed, candidate, probe, total>>

PlanStep == \/ Check
            \/ \E l \in DOMAIN requests : \/ SizeOverflows(l)
                                          \/ Pass(l)
                                          \/ MoveUp(l)
                                          \/ Place(l)
            \/ Finish

PlanNext == PlanStep \/ HostAllocationFails

\* One call on one thread: it goes on until it returns.
PlanSpec == PlanInit /\ [][PlanNext]_planVars /\ WF_planVars(PlanStep)

-----------------------------------------------------------------------------
\* Every variable has its type.
PlanTypeOK ==
    /\ <<requests, alignment>> \in Calls
    /\ planning \in {"checking", "placing", "planned", "refused"}
    /\ placed \in Seq([leader : DOMAIN requests, offset : 0 .. MaxWord, bytes : 0 .. MaxWord])
    /\ candidate \in 0 .. MaxWord
    /\ probe \in 1 .. Len(placed) + 1
    /\ total \in 0 .. MaxWord

\* Where a planned request starts (find_placement).
Offset(i) == LET k == CHOOSE k \in DOMAIN placed : Together(placed[k].leader, i)
             IN  placed[k].offset

\* In a finished plan, two requests live in a common stage share no byte, unless
\* their group says they exclude each other; whatever the sizes, the order they
\* are placed in and the moves of the search (plan_scratch_arena).
LiveRequestsKeepApart ==
    planning = "planned" =>
        \A i, j \in DOMAIN requests :
            ~Together(i, j) /\ LiveConflict(requests[i].live, requests[j].live) =>
                ~RangesOverlap(Offset(i), Offset(i) + requests[i].bytes,
                               Offset(j), Offset(j) + requests[j].bytes)

\* The buffer allocated from total_bytes holds every request, at an aligned
\* offset, and no sum has left the word (Session::create allocates total).
PlanFits ==
    planning = "planned" =>
        /\ total <= MaxWord
        /\ \A i \in DOMAIN requests :
              /\ Offset(i) % alignment = 0
              /\ Offset(i) + requests[i].bytes <= total

\* The search for an offset ends: a move never leads back to one already left.
SearchEnds == <>(planning \in {"planned", "refused"})
=============================================================================
