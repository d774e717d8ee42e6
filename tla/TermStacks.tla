----------------------------- MODULE TermStacks -----------------------------
(***************************************************************************)
(* What the process core promises: every terminal holds a stack of         *)
(* programs, its shell at the bottom; only the program on top of some      *)
(* stack executes; a program that calls execute waits below its child and  *)
(* continues when the child is gone; a shell that exits is replaced.       *)
(***************************************************************************)
EXTENDS Naturals, Sequences

CONSTANTS Pid, Term, Idle

VARIABLES
    stack,  \* for each terminal, its programs, the shell first
    on      \* the program that executes, or Idle inside the scheduler

vars == <<stack, on>>

Used == UNION {{stack[t][i] : i \in 1 .. Len(stack[t])} : t \in Term}

Top(t) == stack[t][Len(stack[t])]

Pop(s) == SubSeq(s, 1, Len(s) - 1)

Init == \E t \in Term, p \in Pid :
          /\ stack = [u \in Term |-> IF u = t THEN <<p>> ELSE <<>>]
          /\ on = p

(* A terminal that had no program gets a shell, which executes next. *)
Open(t, p) ==
    /\ stack[t] = <<>> /\ p \in Pid \ Used
    /\ stack' = [stack EXCEPT ![t] = <<p>>]
    /\ on' = p

(* The executing program on top of t calls a new program p. *)
Call(t, p) ==
    /\ stack[t] # <<>> /\ on = Top(t) /\ p \in Pid \ Used
    /\ stack' = [stack EXCEPT ![t] = Append(@, p)]
    /\ on' = p

(* It ends, and its caller continues. *)
Return(t) ==
    /\ Len(stack[t]) > 1 /\ on = Top(t)
    /\ stack' = [stack EXCEPT ![t] = Pop(@)]
    /\ on' = stack[t][Len(stack[t]) - 1]

(* It was the shell: another shell, perhaps with the same pid, takes over. *)
Replace(t, p) ==
    /\ Len(stack[t]) = 1 /\ on = Top(t)
    /\ p \in (Pid \ Used) \cup {on}
    /\ stack' = [stack EXCEPT ![t] = <<p>>]
    /\ on' = p

Preempt ==
    /\ on # Idle
    /\ on' = Idle
    /\ UNCHANGED stack

Schedule(t) ==
    /\ on = Idle /\ stack[t] # <<>>
    /\ on' = Top(t)
    /\ UNCHANGED stack

Next ==
    \/ Preempt
    \/ \E t \in Term : Return(t) \/ Schedule(t)
    \/ \E t \in Term, p \in Pid : Open(t, p) \/ Call(t, p) \/ Replace(t, p)

Spec == Init /\ [][Next]_vars

=============================================================================
