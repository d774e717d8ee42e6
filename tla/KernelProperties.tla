-------------------------- MODULE KernelProperties --------------------------
(***************************************************************************)
(* What makes the process core correct, and the inductive invariant from   *)
(* which KernelCalmProofs derives it.                                      *)
(***************************************************************************)
EXTENDS Kernel

(* The terminals that have a shell are the first k of the table, and       *)
(* terminal 0 always has one: new_terminal hands them out in order and     *)
(* halt of a shell refills the slot it frees.                              *)
RunningPrefix ==
    /\ 0 \in Terms /\ terminals[0].running = 1
    /\ \A t \in Terms : terminals[t].running = 1 =>
          \A u \in 0 .. t - 1 : terminals[u].running = 1

(* parent_pcb/parent_pid and child_pcb, which halt, execute and irqh_pit   *)
(* maintain separately, describe one forest: a link up is answered by a    *)
(* link down, and both lead to processes that are alive.                   *)
Links ==
    \A p \in procs :
      /\ pcb[p].pid = p
      /\ pcb[p].parent_pcb = pcb[p].parent_pid
      /\ pcb[p].parent_pid # None =>
           /\ pcb[p].parent_pid \in procs
           /\ pcb[pcb[p].parent_pid].child_pcb = p
      /\ pcb[p].child_pcb # None =>
           /\ pcb[p].child_pcb \in procs
           /\ pcb[pcb[p].child_pcb].parent_pid = p

(* The parentless processes are exactly the shells of the running          *)
(* terminals, each of one terminal: no shell is out of the schedule's      *)
(* reach and none is scheduled twice.                                      *)
Roots ==
    /\ \A t \in Terms : terminals[t].running = 1 =>
          /\ terminals[t].pid \in procs
          /\ pcb[terminals[t].pid].parent_pid = None
          /\ \A u \in Terms : terminals[u].running = 1 /\ u # t =>
               terminals[u].pid # terminals[t].pid
    /\ \A p \in procs : pcb[p].parent_pid = None =>
          \E t \in Terms : terminals[t].running = 1 /\ terminals[t].pid = p

(* No process is its own ancestor, so that neither the climb to a terminal *)
(* nor irqh_pit's descent to the lowest child goes round for ever: every   *)
(* set of processes has one whose parent is outside it.                    *)
Acyclic ==
    \A family \in SUBSET procs : family # {} =>
      \E p \in family : pcb[p].parent_pid \notin family

FamilyTree == Links /\ Roots /\ Acyclic

(* get_running_terminal, by which every write, RTC call and halt finds its *)
(* terminal, finds for each process the running terminal whose shell it    *)
(* descends from.                                                          *)
Attributed ==
    \A p \in procs :
      /\ HasTerminal(p)
      /\ LET t == RunningTerminal(p) IN
           /\ terminals[t].running = 1
           /\ pcb[terminals[t].pid].parent_pid = None
           /\ \E n \in 0 .. MAX_PID_COUNT : Ancestors(p)[n] = terminals[t].pid

(* A process that is not executing, and has no child to wait for, can be   *)
(* resumed where it was interrupted: its ksp is its own and no kernel      *)
(* entry has overwritten its frames.  A process with a child has its call  *)
(* of execute to return to.  irqh_pit says that what it saves "is still    *)
(* reachable"; that holds as long as no program's user stack, which        *)
(* syscall_asm.S puts on a kernel stack, grows into these frames (the      *)
(* situation ustack, in which the property fails).                         *)
Reachable ==
    /\ \A p \in procs :
         (pcb[p].child_pcb = None /\ (p = cpu.proc => cpu.at \in {"descend", "switch"}))
         => pcb[p].ksp.at # "dead" /\ pcb[p].ksp.proc = p
    /\ \A p \in procs : pcb[p].parent_pid # None =>
         pcb[p].parent_ksp = Context(pcb[p].parent_pid, pcb[p].parent_pid, "user")

(* What the kernel believes is executing is executing: outside the switch  *)
(* itself, running_pid, the page directory and the TSS stack all are those *)
(* of the program on the CPU, which is alive, has its page and no child.   *)
Coherent ==
    /\ cpu.at \in {"user", "enter", "boot"} =>
         /\ cpu.proc \in procs
         /\ running_pid = cpu.proc
         /\ cr3 = cpu.proc
         /\ esp0 = cpu.proc
         /\ pcb[cpu.proc].child_pcb = None
    /\ procs \subseteq elf_page
    /\ cpu.at # "dead"

(* No program that an exception killed reports the 1 of the handler's      *)
(* halt(1): halt says that it then ignores the status.  The flag it looks  *)
(* at is global, and in the situation bgfault the halt of another program  *)
(* takes it, so that the property fails.  Without that situation handler   *)
(* and halt are one step and there is nothing to show.                     *)
KillReported == \A p \in Pids : pcb[p].child_return # 1

(* A pid is given up only by the program that is executing, and what       *)
(* executes next is the program that called execute.                       *)
HaltReturnsToParent ==
    [][\A p \in procs \ procs' :
         /\ p = cpu.proc
         /\ cpu' = Context(pcb[p].parent_pid, pcb[p].parent_pid, "user")]_vars

(***************************************************************************)
(* The inductive invariant behind the properties above when Env = {}.      *)
(***************************************************************************)
Executing == cpu.at \in {"user", "enter", "boot"}

(* The terminal on display, and terminal 0, are in the schedule: one that  *)
(* is shown is put there and none is ever taken out.                       *)
ScheduleNotEmpty ==
    /\ terminals[0].status = TASK_RUNNING
    /\ terminals[current_terminal].status = TASK_RUNNING

(* Who is on the CPU, and on which stack. *)
CpuInv ==
    /\ cpu.at \in {"user", "enter", "boot", "descend", "switch"}
    /\ Executing => /\ cpu.proc \in procs
                    /\ running_pid = cpu.proc
    /\ cpu.at # "descend" => /\ running_pid \in procs
                             /\ cr3 = running_pid
                             /\ esp0 = running_pid
                             /\ pcb[running_pid].child_pcb = None
    /\ cpu.at = "user" => cpu.stk = cpu.proc
    /\ cpu.at = "enter" => /\ cpu.stk = pcb[cpu.proc].parent_pid
                           /\ cpu.stk # None
    /\ cpu.at = "descend" => next_pcb \in procs

(* A leaf that is not executing was interrupted in its program, on its own *)
(* stack, or just before entering it, on the stack of its parent; a parent *)
(* waits in execute on its own stack.                                      *)
SavedInv ==
    \A p \in procs :
      /\ pcb[p].child_pcb = None /\ ~(Executing /\ p = cpu.proc) =>
           \/ pcb[p].ksp = Context(p, p, "user")
           \/ /\ pcb[p].ksp = Context(p, pcb[p].parent_pid, "enter")
              /\ pcb[p].parent_pid # None
      /\ pcb[p].parent_pid # None =>
           pcb[p].parent_ksp = Context(pcb[p].parent_pid, pcb[p].parent_pid, "user")

(* Only the terminal on display can wait for its shell, and while it does  *)
(* no switch is asked for; the first shell keeps pid 0.                    *)
DisplayInv ==
    /\ \A t \in Terms :
         terminals[t].status = TASK_RUNNING /\ terminals[t].running # 1 =>
           t = current_terminal
    /\ terminal_to_switch_to # None => terminals[current_terminal].running = 1
    /\ terminals[0].pid = 0

(* The flag is up only within the step of an exception. *)
FlagInv == program_exception_occured = 0

CalmInv ==
    /\ FamilyTree
    /\ CpuInv /\ SavedInv
    /\ DisplayInv /\ FlagInv
    /\ procs \subseteq elf_page

(* The program at the end of the chain of terminal t is in user mode. *)
Executes(t) ==
    /\ cpu.at = "user"
    /\ \E n \in 0 .. MAX_PID_COUNT : Ancestors(cpu.proc)[n] = terminals[t].pid

(* A terminal that has a shell and was ever shown gets the CPU again and   *)
(* again, whatever the others do.                                          *)
NoStarvation ==
    \A t \in Terms :
      (terminals[t].running = 1 /\ terminals[t].status = TASK_RUNNING)
        ~> Executes(t)

(* A terminal that is brought on display gets its shell, unless every pid  *)
(* is taken.                                                               *)
ShellArrives ==
    \A t \in Terms :
      current_terminal = t ~> (terminals[t].running = 1 \/ procs = Pids)

=============================================================================
