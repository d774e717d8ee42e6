------------------------------- MODULE Kernel -------------------------------
(***************************************************************************)
(* The process and scheduling core of the kernel: halt and execute         *)
(* (syscall.c), the timer interrupt that is also the scheduler (pit.c),    *)
(* the terminal table (terminal_driver.c) and the Alt+Fn handling of the   *)
(* keyboard interrupt (keyboard.c), with the page-directory and TSS        *)
(* bookkeeping they do.                                                    *)
(*                                                                         *)
(* There is one CPU.  Every gate is an interrupt gate, so a handler runs   *)
(* with interrupts off except where the code turns them on; the actions    *)
(* are the stretches of code between two points where an interrupt can be  *)
(* taken.                                                                  *)
(*                                                                         *)
(* A context stands for a saved esp/ebp pair: whose program continues when *)
(* it is resumed (proc), the kernel stack its frames lie on (stk), and the *)
(* point of the code at which it stands (at):                              *)
(*   user      in the program, or in a system call that blocks with        *)
(*             interrupts on (a read of the terminal or of the RTC)        *)
(*   enter     in execute, called by a program, after its sti and before   *)
(*             the cli of uspace                                           *)
(*   boot      the same point of an execute the kernel itself called       *)
(*   descend   in irqh_pit, following the child_pcb links                  *)
(*   switch    in irqh_pit, after send_eoi and before esp is loaded        *)
(*   printed   in the exception handler of a background program, which     *)
(*             printed its message and so turned interrupts on             *)
(*   flagged   the same, program_exception_occured is set                  *)
(*   unlinked  the same, halt has cleared the parent's child_pcb           *)
(*   dead      the frames are gone: resuming such a context runs garbage   *)
(* Contexts are not program state.  What the code can see of one is only   *)
(* the stack pointer; proc and at say what is found there.                 *)
(*                                                                         *)
(* A program has its user stack where execute stood when it entered it: on *)
(* the kernel stack of the caller, below the caller's frames, for uspace   *)
(* passes its own esp on to the program.  The stack of parent_ksp is       *)
(* therefore also the one on which the program's user stack lies.          *)
(***************************************************************************)
EXTENDS Integers, FiniteSets

CONSTANTS
    MAX_PID_COUNT,  \* entries of the pid table (syscall.h, 8; NUM_PROC)
    TERMINAL_NUM,   \* terminals (terminal_driver.h, 3)
    Env             \* which awkward situations the environment brings about

ASSUME PidCountAssumption == MAX_PID_COUNT \in Nat \ {0}
ASSUME TerminalAssumption == TERMINAL_NUM \in Nat \ {0}

(***************************************************************************)
(* The situations the code does not defend itself against.  With Env = {}  *)
(* none of them happens; a run that admits one shows what it leads to.     *)
(*   startup   a program calls execute, or Alt+Fn is pressed again, while  *)
(*             the terminal on display still waits for its shell           *)
(*   rootexit  a shell exits that is not the displayed one of the terminal *)
(*             booted first, or a shell raises an exception                *)
(*   tick      a timer tick hits the last instructions of irqh_pit, or of  *)
(*             an execute that the kernel called                           *)
(*   badimage  the file system holds a program execute fails to load       *)
(*   bgfault   a program raises an exception in a background terminal      *)
(*   ustack    two programs that have a stack in common, because the timer *)
(*             started the shell of one on it, reach each other's frames   *)
(***************************************************************************)
Situations == {"startup", "rootexit", "tick", "badimage", "bgfault", "ustack"}

ASSUME EnvAssumption == Env \subseteq Situations

None  == -1
Pids  == 0 .. MAX_PID_COUNT - 1
Terms == 0 .. TERMINAL_NUM - 1

PROCESS_KILLED_BY_EXCEPTION == 256
TASK_NOT_RUNNING == 0
TASK_RUNNING     == 1

VARIABLES
    procs,                    \* the pids whose bit is set in procs
    running_pid,
    pcb,                      \* the Pcb at the top of each kernel stack
    terminals,
    current_terminal,         \* the terminal on display
    terminal_to_switch_to,    \* set by the keyboard, consumed by the PIT
    current_schedule,         \* equal to schedule_counter between ticks
    next_pcb,                 \* irqh_pit's local during its descent
    program_exception_occured,
    esp0,                     \* the process whose stack tss.esp0 points to
    cr3,                      \* the process whose page directory is loaded
    elf_page,                 \* processes whose program page is present
    cpu                       \* the context that is executing

tables == <<procs, running_pid, pcb, terminals>>
screen == <<current_terminal, terminal_to_switch_to, current_schedule>>
mmu    == <<esp0, cr3, elf_page>>
vars   == <<tables, screen, mmu, next_pcb, program_exception_occured, cpu>>

-----------------------------------------------------------------------------
(* Contexts and kernel stacks *)

Places == {"user", "enter", "boot", "descend", "switch",
           "printed", "flagged", "unlinked", "dead"}

Owner    == Pids \cup {None}
Contexts == [proc : Owner, stk : Owner, at : Places]

Context(p, s, a) == [proc |-> p, stk |-> s, at |-> a]

(* Frames pushed on stack s overwrite whatever context was parked there. *)
Smash(c, s) == IF c.stk = s THEN Context(None, s, "dead") ELSE c

Wipe(f, s) ==
    [p \in Pids |-> [f[p] EXCEPT !.ksp = Smash(@, s),
                                 !.parent_ksp = Smash(@, s)]]

(* Context c continues, with tss.esp0 on the stack of e and the PCBs as in *)
(* f.  Back in user mode the next kernel entry starts again at the top of  *)
(* stack e, so nothing parked on that stack survives.                      *)
Resume(c, f, e) ==
    IF c.at = "user"
    THEN /\ cpu' = [c EXCEPT !.stk = e]
         /\ pcb' = Wipe(f, e)
    ELSE /\ cpu' = c
         /\ pcb' = f

-----------------------------------------------------------------------------
(* The terminal table *)

(* What get_terminal_from_pid compares with. *)
TerminalPids == {terminals[t].pid : t \in Terms}

(* get_running_terminal climbs from process p to its parents until one has *)
(* a terminal.  The search fails where p and its ancestors are a set       *)
(* without any; it then returns NULL or follows a NULL parent_pcb, and     *)
(* halt faults on the result over and over.                                *)
HasTerminal(p) ==
    ~ \E family \in SUBSET Pids :
        /\ p \in family
        /\ \A q \in family : pcb[q].parent_pid \in family \cup {None}
        /\ family \cap TerminalPids = {}

(* The pids it compares, in turn; None once the parents are exhausted. *)
Ancestors(p) ==
    LET up[n \in 0 .. MAX_PID_COUNT] ==
          IF n = 0 THEN p
          ELSE IF up[n - 1] = None THEN None
          ELSE pcb[up[n - 1]].parent_pid
    IN  up

(* Mutant: the loop of get_terminal_from_pid does not stop at a match. *)
LastTerminal(p) ==
    CHOOSE t \in Terms :
      \E n \in 0 .. MAX_PID_COUNT :
        /\ terminals[t].pid = Ancestors(p)[n]
        /\ \A m \in 0 .. n - 1 : Ancestors(p)[m] \notin TerminalPids
        /\ \A u \in t + 1 .. TERMINAL_NUM - 1 : terminals[u].pid # Ancestors(p)[n]

(* The terminal it returns: the first one with the pid of the nearest      *)
(* ancestor that has one.                                                  *)
RunningTerminal(p) ==
    CHOOSE t \in Terms :
      \E n \in 0 .. MAX_PID_COUNT :
        /\ terminals[t].pid = Ancestors(p)[n]
        /\ \A m \in 0 .. n - 1 : Ancestors(p)[m] \notin TerminalPids
        /\ \A u \in 0 .. t - 1 : terminals[u].pid # Ancestors(p)[n]

(* Mutant: the loop of new_terminal does not stop at a free terminal. *)
LastNewTerminal(ts, t) ==
    /\ ts[t].running = 0
    /\ \A u \in t + 1 .. TERMINAL_NUM - 1 : ts[u].running = 1

(* new_terminal takes the first terminal that is not running. *)
IsNewTerminal(ts, t) ==
    /\ ts[t].running = 0
    /\ \A u \in 0 .. t - 1 : ts[u].running = 1

NewTerminal(ts, t, p) == [ts EXCEPT ![t].pid = p, ![t].running = 1]

-----------------------------------------------------------------------------
(* execute *)

(* Mutant: the loop over the pid table tests one bit too few. *)
OneTooFar(used, p) ==
    /\ p \in Pids
    /\ \A q \in 0 .. p - 1 : q \in used

(* execute takes the first pid whose bit is clear in procs. *)
FirstFree(used, p) ==
    /\ p \in Pids \ used
    /\ \A q \in 0 .. p - 1 : q \in used

(* Mutant: execute does not keep the esp and ebp of its caller. *)
FramelessPcb(f, p, caller, root) ==
    [f[p] EXCEPT !.pid        = p,
                 !.child_pcb  = None,
                 !.parent_pid = IF root THEN None ELSE f[running_pid].pid,
                 !.parent_pcb = IF root THEN None ELSE running_pid]

(* The PCB execute fills in for process p, whose call frame is caller; a   *)
(* root has no parent.                                                     *)
NewPcb(f, p, caller, root) ==
    [f[p] EXCEPT !.pid        = p,
                 !.parent_ksp = caller,
                 !.child_pcb  = None,
                 !.parent_pid = IF root THEN None ELSE f[running_pid].pid,
                 !.parent_pcb = IF root THEN None ELSE running_pid]

Linked(f, p, caller, root) ==
    LET born == [f EXCEPT ![p] = NewPcb(f, p, caller, root)]
    IN  IF root THEN born ELSE [born EXCEPT ![running_pid].child_pcb = p]

(* The part of execute that cannot fail any more: process p is created.    *)
(* used is procs, f the PCBs, ts the terminals and cur the terminal on     *)
(* display at that moment; caller is what would continue if the call       *)
(* returned, and place is where the new context stands.                    *)
(* Whether p is the shell of a terminal is decided by the terminal on      *)
(* display, not by the one the caller runs in.                             *)
Create(p, used, f, ts, cur, caller, place) ==
    /\ \E t \in Terms :
         /\ IF ts[cur].running = 1
            THEN t = cur /\ terminals' = ts
            ELSE IsNewTerminal(ts, t) /\ terminals' = NewTerminal(ts, t, p)
         /\ pcb' = Linked(f, p, caller, terminals'[t].pid = p)
    /\ procs' = used \cup {p}
    /\ running_pid' = p
    /\ esp0' = p
    /\ cr3' = p
    /\ elf_page' = elf_page \cup {p}
    /\ cpu' = Context(p, caller.stk, place)

(* The execute system call.  A call that finds no program, or no free pid, *)
(* returns -1 before it changes anything and is a stuttering step here.    *)
Execute ==
    /\ cpu.at = "user"
    /\ "startup" \in Env \/ terminals[current_terminal].running = 1
    /\ \E p \in Pids : /\ FirstFree(procs, p)
                       /\ Create(p, procs, pcb, terminals, current_terminal,
                                 cpu, "enter")
    /\ UNCHANGED <<screen, next_pcb, program_exception_occured>>

(* execute fails after it took a pid: the file ends before the entry point *)
(* (the page directory is untouched), or its data cannot be read (the new  *)
(* page directory is loaded).  The pid stays taken and running_pid stays   *)
(* at it, while the caller continues.                                      *)
ExecuteBad ==
    /\ cpu.at = "user"
    /\ "badimage" \in Env
    /\ \E p \in Pids :
         /\ FirstFree(procs, p)
         /\ procs' = procs \cup {p}
         /\ running_pid' = p
         /\ \/ UNCHANGED <<cr3, elf_page>>
            \/ cr3' = p /\ elf_page' = elf_page \cup {p}
    /\ UNCHANGED <<pcb, terminals, screen, esp0, next_pcb,
                   program_exception_occured, cpu>>

(* uspace turns interrupts off and irets into the new program.  The user   *)
(* esp it pushes is its own, on the stack of parent_ksp; from here on the  *)
(* kernel frames of the program start at the top of its own stack.         *)
Uspace ==
    /\ cpu.at \in {"enter", "boot"}
    /\ Resume([cpu EXCEPT !.at = "user"], pcb, esp0)
    /\ UNCHANGED <<procs, running_pid, terminals, screen, mmu, next_pcb,
                   program_exception_occured>>

UserStack(p) == pcb[p].parent_ksp.stk

(* Still above the user stack of p are the frames under which it began: of *)
(* its parent, which waits in execute, or of the process the timer         *)
(* interrupted to start p, until that process is resumed.                  *)
Covered(p) ==
    LET c == pcb[p].parent_ksp
    IN  \/ pcb[p].parent_pid # None
        \/ c.at # "dead" /\ c.proc # cpu.proc /\ pcb[c.proc].ksp = c

(* The user stack of p lies on a stack that q uses as well, as its kernel  *)
(* stack or below its user stack.                                          *)
LiesOn(p, q) == ~Covered(p) /\ UserStack(p) # None /\ UserStack(p) \in {q, UserStack(q)}

Spoilt(c, q) == IF c.proc = q THEN Context(None, c.stk, "dead") ELSE c

(* The program that executes, or the kernel on its behalf, grows its stack *)
(* into that of process q, which will find garbage when it is resumed.     *)
(* Whether it does depends on how deep both of them stand.                 *)
Overrun ==
    /\ cpu.at = "user"
    /\ "ustack" \in Env
    /\ \E q \in procs \ {cpu.proc} :
         /\ LiesOn(cpu.proc, q) \/ LiesOn(q, cpu.proc)
         /\ pcb' = [p \in Pids |-> [pcb[p] EXCEPT !.ksp = Spoilt(@, q),
                                                  !.parent_ksp = Spoilt(@, q)]]
    /\ UNCHANGED <<procs, running_pid, terminals, screen, mmu, next_pcb,
                   program_exception_occured, cpu>>

-----------------------------------------------------------------------------
(* halt.  f is the PCBs once the parent's child_pcb link is cleared. *)

(* Mutant: halt leaves the parent's child_pcb as it is. *)
StillLinked == pcb

Unlinked ==
    LET parent == pcb[running_pid].parent_pcb
    IN  IF parent = None THEN pcb
        ELSE [pcb EXCEPT ![parent].child_pcb = None]

(* A program that an exception killed returns 256, whatever the status. *)
ReturnValue(flag, status) ==
    IF flag = 1 THEN PROCESS_KILLED_BY_EXCEPTION ELSE status

(* Where the terminal lookup of halt finds nothing the kernel is lost. *)
Lost(f) ==
    /\ ~HasTerminal(f[running_pid].pid)
    /\ procs' = procs
    /\ pcb' = f
    /\ cpu' = Context(None, None, "dead")
    /\ UNCHANGED <<running_pid, terminals, screen, mmu, next_pcb,
                   program_exception_occured>>

(* halt for a program with a parent: the parent's call of execute returns. *)
HaltChild(f, flag, status) ==
    LET p      == running_pid
        parent == f[p].parent_pid
    IN  /\ parent # None
        /\ HasTerminal(f[p].pid)
        /\ procs' = procs \ {f[p].pid}
        /\ program_exception_occured' = 0
        /\ esp0' = parent
        /\ running_pid' = parent
        /\ elf_page' = elf_page \ {f[p].pid}
        /\ cr3' = f[parent].pid
        /\ Resume(f[p].parent_ksp,
                  [f EXCEPT ![p].child_return = ReturnValue(flag, status)], parent)
        /\ UNCHANGED <<terminals, screen, next_pcb>>

(* halt for a shell: it marks the terminal on display as not running, and  *)
(* calls execute("shell") on the stack, and at the depth, from which the   *)
(* kernel first started this shell.  If that is the stack of another       *)
(* process its frames may be overwritten; whether they are depends on how  *)
(* deep that process stands, so both outcomes are allowed.                 *)
HaltRoot(f, flag) ==
    LET p == running_pid
        s == f[p].parent_ksp.stk
    IN  /\ f[p].parent_pid = None
        /\ HasTerminal(f[p].pid)
        /\ \/ "rootexit" \in Env
           \/ /\ s = None /\ current_terminal = 0
              /\ terminals[0].pid = p /\ terminals[0].running = 1
        /\ program_exception_occured' = flag
        /\ \E q \in Pids, g \in {f, Wipe(f, s)} :
             /\ FirstFree(procs \ {f[p].pid}, q)
             /\ Create(q, procs \ {f[p].pid}, g,
                       [terminals EXCEPT ![current_terminal].running = 0],
                       current_terminal, Context(None, s, "dead"), "boot")
        /\ UNCHANGED <<screen, next_pcb>>

(* The halt system call, with status 0. *)
Halt ==
    /\ cpu.at = "user"
    /\ \/ HaltChild(Unlinked, program_exception_occured, 0)
       \/ HaltRoot(Unlinked, program_exception_occured)
       \/ Lost(Unlinked)

-----------------------------------------------------------------------------
(* Exceptions: print a message, set the flag, halt(1).  Printing from a    *)
(* background terminal remaps video memory, and map_vid_mem returns with   *)
(* interrupts on; on display nothing turns them on.                        *)

OnDisplay == RunningTerminal(pcb[running_pid].pid) = current_terminal

MayFault == "rootexit" \in Env \/ pcb[running_pid].parent_pid # None

Fault ==
    /\ cpu.at = "user"
    /\ MayFault
    /\ \/ /\ HasTerminal(pcb[running_pid].pid) => OnDisplay
          /\ \/ HaltChild(Unlinked, 1, 1)
             \/ HaltRoot(Unlinked, 1)
             \/ Lost(Unlinked)
       \/ /\ "bgfault" \in Env
          /\ HasTerminal(pcb[running_pid].pid) /\ ~OnDisplay
          /\ cpu' = [cpu EXCEPT !.at = "printed"]
          /\ UNCHANGED <<tables, screen, mmu, next_pcb,
                         program_exception_occured>>

FaultFlag ==
    /\ cpu.at = "printed"
    /\ program_exception_occured' = 1
    /\ cpu' = [cpu EXCEPT !.at = "flagged"]
    /\ UNCHANGED <<tables, screen, mmu, next_pcb>>

FaultUnlink ==
    /\ cpu.at = "flagged"
    /\ pcb' = Unlinked
    /\ cpu' = [cpu EXCEPT !.at = "unlinked"]
    /\ UNCHANGED <<procs, running_pid, terminals, screen, mmu, next_pcb,
                   program_exception_occured>>

FaultHalt ==
    /\ cpu.at = "unlinked"
    /\ \/ HaltChild(pcb, program_exception_occured, 1)
       \/ HaltRoot(pcb, program_exception_occured)
       \/ Lost(pcb)

-----------------------------------------------------------------------------
(* The keyboard interrupt, on Alt+F1 ... *)

(* Until send_eoi the PIC holds back every other interrupt. *)
Interruptible ==
    {"user", "enter", "printed", "flagged", "unlinked"} \cup
      (IF "tick" \in Env THEN {"boot", "switch"} ELSE {})

AltFn(t) ==
    /\ cpu.at \in Interruptible
    /\ "startup" \in Env \/ terminals[current_terminal].running = 1
    /\ terminal_to_switch_to' = t
    /\ UNCHANGED <<tables, current_terminal, current_schedule, mmu, next_pcb,
                   program_exception_occured, cpu>>

-----------------------------------------------------------------------------
(* The timer interrupt *)

(* What switch_terminal, the first thing irqh_pit does, leaves on display. *)
Displayed ==
    IF terminal_to_switch_to = None THEN current_terminal
                                    ELSE terminal_to_switch_to

Shown ==
    IF Displayed = current_terminal THEN terminals
    ELSE [terminals EXCEPT ![Displayed].status = TASK_RUNNING]

(* Mutant: it is the page directory of the terminal that is shown. *)
ShownCr3 == IF Displayed = current_terminal THEN cr3
                                            ELSE terminals[Displayed].pid

(* restore_terminal remaps the video page of the interrupted process and   *)
(* so loads its page directory.                                            *)
RemappedCr3 == IF Displayed = current_terminal THEN cr3
                                               ELSE pcb[running_pid].pid

(* Mutant: every tick starts its search at terminal 0. *)
FirstScheduled(t) ==
    /\ Shown[t].status = TASK_RUNNING
    /\ \A u \in 0 .. t - 1 : Shown[u].status # TASK_RUNNING

(* The do-while loop stops at t, the next terminal that was ever shown. *)
NextScheduled(t) ==
    \E d \in 1 .. TERMINAL_NUM :
      /\ t = (current_schedule + d) % TERMINAL_NUM
      /\ Shown[t].status = TASK_RUNNING
      /\ \A e \in 1 .. d - 1 :
           Shown[(current_schedule + e) % TERMINAL_NUM].status # TASK_RUNNING

(* Mutant: they are not saved. *)
NotSaved == pcb

(* Save the ESP and EBP so this process is still reachable. *)
Saved == [pcb EXCEPT ![running_pid].ksp = cpu]

(* Mutant: current_schedule does not follow schedule_counter. *)
TickAgain(t) ==
    /\ cpu.at \in Interruptible
    /\ NextScheduled(t)
    /\ current_terminal' = Displayed
    /\ terminal_to_switch_to' = None
    /\ UNCHANGED current_schedule

Tick(t) ==
    /\ cpu.at \in Interruptible
    /\ NextScheduled(t)
    /\ current_terminal' = Displayed
    /\ terminal_to_switch_to' = None
    /\ current_schedule' = t

(* The schedule comes round to the same terminal: nothing else happens. *)
PitStay(t) ==
    /\ Tick(t)
    /\ t = current_schedule
    /\ terminals' = Shown
    /\ cr3' = RemappedCr3
    /\ UNCHANGED <<procs, running_pid, pcb, esp0, elf_page, next_pcb,
                   program_exception_occured, cpu>>

(* Another terminal's turn: start from the shell of that terminal. *)
PitSwitch(t) ==
    /\ Tick(t)
    /\ t # current_schedule
    /\ Shown[t].running = 1
    /\ terminals' = Shown
    /\ cr3' = RemappedCr3
    /\ pcb' = Saved
    /\ next_pcb' = terminals[t].pid
    /\ cpu' = [cpu EXCEPT !.at = "descend"]
    /\ UNCHANGED <<procs, running_pid, esp0, elf_page,
                   program_exception_occured>>

(* The scheduled terminal has no shell yet: execute one, on the stack that *)
(* was interrupted; with no pid left execute returns and so does the       *)
(* interrupt.                                                              *)
PitShell(t) ==
    /\ Tick(t)
    /\ t # current_schedule
    /\ Shown[t].running # 1
    /\ \/ \E p \in Pids :
            /\ FirstFree(procs, p)
            /\ Create(p, procs, Saved, Shown, Displayed, cpu, "boot")
       \/ /\ procs = Pids
          /\ terminals' = Shown
          /\ pcb' = Saved
          /\ cr3' = RemappedCr3
          /\ UNCHANGED <<procs, running_pid, esp0, elf_page, cpu>>
    /\ UNCHANGED <<next_pcb, program_exception_occured>>

(* Mutant: the loop goes on until the pointer itself is NULL. *)
DescendPastLeaf ==
    /\ cpu.at = "descend"
    /\ next_pcb' = pcb[next_pcb].child_pcb
    /\ UNCHANGED <<tables, screen, mmu, program_exception_occured, cpu>>

(* find the lowest child pcb *)
Descend ==
    /\ cpu.at = "descend"
    /\ pcb[next_pcb].child_pcb # None
    /\ next_pcb' = pcb[next_pcb].child_pcb
    /\ UNCHANGED <<tables, screen, mmu, program_exception_occured, cpu>>

(* Set the TSS, running_pid and the page directory, and end the interrupt. *)
Dispatch ==
    /\ cpu.at = "descend"
    /\ pcb[next_pcb].child_pcb = None
    /\ esp0' = pcb[next_pcb].pid
    /\ running_pid' = pcb[next_pcb].pid
    /\ cr3' = pcb[next_pcb].pid
    /\ cpu' = [cpu EXCEPT !.at = "switch"]
    /\ next_pcb' = None
    /\ UNCHANGED <<procs, pcb, terminals, screen, elf_page,
                   program_exception_occured>>

(* Switch to the next program in the scheduler to run. *)
SwitchStack ==
    /\ cpu.at = "switch"
    /\ Resume(pcb[running_pid].ksp, pcb, esp0)
    /\ UNCHANGED <<procs, running_pid, terminals, screen, mmu, next_pcb,
                   program_exception_occured>>

-----------------------------------------------------------------------------
(* Boot: init_terminals has marked terminal 0 and its execute("shell") has *)
(* entered the shell; the PCBs and the rest of the table are zero.         *)

NoContext == Context(None, None, "dead")

ZeroPcb == [pid |-> 0, parent_pid |-> 0, parent_pcb |-> None,
            child_pcb |-> None, ksp |-> NoContext, parent_ksp |-> NoContext,
            child_return |-> 0]

Init ==
    /\ procs = {0}
    /\ running_pid = 0
    /\ pcb = [p \in Pids |-> IF p = 0
                             THEN [ZeroPcb EXCEPT !.parent_pid = None]
                             ELSE ZeroPcb]
    /\ terminals = [t \in Terms |->
         [pid |-> 0, running |-> IF t = 0 THEN 1 ELSE 0,
          status |-> IF t = 0 THEN TASK_RUNNING ELSE TASK_NOT_RUNNING]]
    /\ current_terminal = 0
    /\ terminal_to_switch_to = None
    /\ current_schedule = 0
    /\ next_pcb = None
    /\ program_exception_occured = 0
    /\ esp0 = 0
    /\ cr3 = 0
    /\ elf_page = {0}
    /\ cpu = Context(0, 0, "user")

Pit == \E t \in Terms : PitStay(t) \/ PitSwitch(t) \/ PitShell(t)

Next ==
    \/ Execute \/ ExecuteBad \/ Uspace \/ Overrun
    \/ Halt \/ Fault \/ FaultFlag \/ FaultUnlink \/ FaultHalt
    \/ \E t \in Terms : AltFn(t)
    \/ Pit
    \/ Descend \/ Dispatch \/ SwitchStack

Spec == Init /\ [][Next]_vars

-----------------------------------------------------------------------------
(* Fairness.  The PIT raises IRQ0 for ever and the 8259 latches the edge    *)
(* while interrupts are off, so a tick that is possible again and again is  *)
(* taken.  Kernel code with interrupts off runs to its end, and the two     *)
(* instructions of execute's window are not hit by every single tick of the *)
(* process in them: ticks are 10 ms apart.                                  *)

Fairness ==
    /\ SF_vars(Pit)
    /\ \A p \in Pids : SF_vars(cpu.proc = p /\ Uspace)
    /\ WF_vars(Descend \/ Dispatch \/ SwitchStack)

FairSpec == Spec /\ Fairness

-----------------------------------------------------------------------------
(* Types *)

Parked == [proc : Owner, stk : Owner, at : Places \ {"descend"}]

Pcb == [pid : Pids, parent_pid : Owner, parent_pcb : Owner,
        child_pcb : Owner, ksp : Parked, parent_ksp : Parked,
        child_return : {0, 1, PROCESS_KILLED_BY_EXCEPTION}]

Terminal == [pid : Pids, running : {0, 1},
             status : {TASK_NOT_RUNNING, TASK_RUNNING}]

(* Every variable has its type; no context is saved in the middle of       *)
(* irqh_pit's descent, during which next_pcb is a PCB and never NULL.      *)
TypeOK ==
    /\ procs \in SUBSET Pids
    /\ running_pid \in Pids
    /\ pcb \in [Pids -> Pcb]
    /\ terminals \in [Terms -> Terminal]
    /\ current_terminal \in Terms
    /\ terminal_to_switch_to \in Terms \cup {None}
    /\ current_schedule \in Terms
    /\ next_pcb \in Owner
    /\ cpu.at = "descend" => next_pcb # None
    /\ program_exception_occured \in {0, 1}
    /\ esp0 \in Pids
    /\ cr3 \in Pids
    /\ elf_page \in SUBSET Pids
    /\ cpu \in Contexts

=============================================================================
