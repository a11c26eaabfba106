--------------------------- MODULE MCKernelFlow ---------------------------
(* Calls of the planner: pairs with every way of being refused, groups with    *)
(* a member larger or longer live than its leader, chains of four whose search *)
(* must look again from the first slot, and what a session asks for, on which  *)
(* the kernels of a decode step or of a prefill chunk then run.                *)
EXTENDS KernelFlow

Pairs == [1 .. 2 -> [bytes : {0, 3, MaxWord},
                     live : {{}, {Live(0, 0)}, {Live(1, 1)}, {Live(2, 1)}},
                     group : {0}]]

Groups == [1 .. 3 -> [bytes : {1, 5},
                      live : {{Live(0, 0)}, {Live(1, 1)}, {Live(0, 0), Live(2, 2)}},
                      group : {0, 1}]]

Chains == {chain \in [1 .. 4 -> [bytes : {3, 4, 5},
                                 live : {{Live(0, 0)}, {Live(1, 1)}, {Live(0, 1)}},
                                 group : {0}]] :
              \A i \in 1 .. 3 : chain[i].bytes >= chain[i + 1].bytes}

MCKvCapacities == {1, 256, 257, 1024}

MCCalls == (Pairs \X {0, 1, 2}) \cup (Groups \X {1, 4}) \cup (Chains \X {2})
             \cup ({V0Requests(tokens, capacity) :
                       tokens \in {1, 512}, capacity \in MCKvCapacities} \X {256})

\* Short of a pack's tile, one over a tile of 128 rows, and a full chunk.
MCRowCounts == {1, 2, 129, 512}
=============================================================================
