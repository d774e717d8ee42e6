-------------------------- MODULE KernelRefinement --------------------------
(***************************************************************************)
(* The stack of programs of a terminal is the child_pcb chain that starts  *)
(* at terminals[t].pid, the one irqh_pit walks; a terminal that is not     *)
(* running has none.                                                       *)
(***************************************************************************)
EXTENDS KernelProperties, Sequences

Chain(t) ==
    LET down[n \in 1 .. MAX_PID_COUNT] ==
          IF n = 1 THEN terminals[t].pid
          ELSE IF down[n - 1] = None THEN None
          ELSE pcb[down[n - 1]].child_pcb
        length == Cardinality({n \in 1 .. MAX_PID_COUNT : down[n] # None})
    IN  IF terminals[t].running = 1 THEN [n \in 1 .. length |-> down[n]]
                                    ELSE <<>>

Stacks == INSTANCE TermStacks WITH
    Pid   <- Pids,
    Term  <- Terms,
    Idle  <- None,
    stack <- [t \in Terms |-> Chain(t)],
    on    <- IF cpu.at \in {"descend", "switch"} THEN None ELSE cpu.proc

(* Through every interleaving of system calls, exceptions, ticks and       *)
(* Alt+Fn, the PCB links, the terminal table and the saved stack pointers  *)
(* together behave as one stack of programs per terminal of which only a   *)
(* top one executes.                                                       *)
ImplementsStacks == Stacks!Spec

=============================================================================
