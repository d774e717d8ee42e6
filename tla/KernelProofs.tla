---------------------------- MODULE KernelProofs ----------------------------
(***************************************************************************)
(* Proofs about Kernel, for any number of pids and terminals: what holds   *)
(* in every environment, and the lemmas about walks along the PCB links    *)
(* and about stacks of programs that KernelCalmProofs uses.                *)
(***************************************************************************)
EXTENDS KernelRefinement, FiniteSetTheorems, WellFoundedInduction, TLAPS

-----------------------------------------------------------------------------
(* Lemmas about the operators *)

(* The sets of pids and terminals contain 0, and None is in neither. *)
LEMMA Zero == 0 \in Pids /\ 0 \in Terms /\ None \notin Pids /\ None \notin Terms
  BY PidCountAssumption, TerminalAssumption DEF Pids, Terms, None

(* Overwriting a stack leaves the PCBs well formed. *)
LEMMA WipeType ==
  ASSUME NEW f \in [Pids -> Pcb], NEW s \in Owner
  PROVE  Wipe(f, s) \in [Pids -> Pcb]
  <1>1. ASSUME NEW c \in Parked
        PROVE  Smash(c, s) \in Parked
    BY DEF Smash, Context, Parked, Places, Owner
  <1>2. ASSUME NEW p \in Pids
        PROVE  [f[p] EXCEPT !.ksp = Smash(@, s), !.parent_ksp = Smash(@, s)]
                 \in Pcb
    <2>1. f[p] \in Pcb
      OBVIOUS
    <2>2. /\ Smash(f[p].ksp, s) \in Parked
          /\ Smash(f[p].parent_ksp, s) \in Parked
      BY <2>1, <1>1 DEF Pcb
    <2>3. QED
      BY <2>1, <2>2 DEF Pcb
  <1>3. QED
    BY <1>2 DEF Wipe

(* Resuming a parked context gives a well-formed CPU and PCBs. *)
LEMMA ResumeType ==
  ASSUME NEW c \in Parked, NEW f \in [Pids -> Pcb], NEW e \in Pids,
         Resume(c, f, e)
  PROVE  /\ pcb' \in [Pids -> Pcb]
         /\ cpu' \in Contexts
         /\ cpu'.at # "descend"
  <1>1. e \in Owner
    BY DEF Owner
  <1>2. Wipe(f, e) \in [Pids -> Pcb]
    BY <1>1, WipeType
  <1>3. CASE c.at = "user"
    <2>1. cpu' = [c EXCEPT !.stk = e] /\ pcb' = Wipe(f, e)
      BY <1>3 DEF Resume
    <2>2. QED
      BY <1>1, <1>2, <1>3, <2>1 DEF Parked, Contexts
  <1>4. CASE c.at # "user"
    BY <1>4 DEF Resume, Parked, Contexts
  <1>5. QED
    BY <1>3, <1>4

(* A user stack that grows into another process leaves well-formed PCBs. *)
LEMMA OverrunType ==
  ASSUME pcb \in [Pids -> Pcb], Overrun
  PROVE  pcb' \in [Pids -> Pcb]
  <1>1. PICK q \in procs \ {cpu.proc} :
          pcb' = [p \in Pids |-> [pcb[p] EXCEPT !.ksp = Spoilt(@, q),
                                               !.parent_ksp = Spoilt(@, q)]]
    BY DEF Overrun
  <1>2. ASSUME NEW c \in Parked
        PROVE  Spoilt(c, q) \in Parked
    BY DEF Spoilt, Context, Parked, Places, Owner
  <1>3. ASSUME NEW p \in Pids
        PROVE  [pcb[p] EXCEPT !.ksp = Spoilt(@, q), !.parent_ksp = Spoilt(@, q)] \in Pcb
    <2>1. pcb[p] \in Pcb
      OBVIOUS
    <2>2. /\ Spoilt(pcb[p].ksp, q) \in Parked
          /\ Spoilt(pcb[p].parent_ksp, q) \in Parked
      BY <2>1, <1>2 DEF Pcb
    <2>3. QED
      BY <2>1, <2>2 DEF Pcb
  <1>4. QED
    BY <1>1, <1>3

(* The PCBs stay well formed when execute fills in a new one. *)
LEMMA LinkedType ==
  ASSUME running_pid \in Pids, NEW f \in [Pids -> Pcb], NEW p \in Pids,
         NEW caller \in Parked, NEW root
  PROVE  Linked(f, p, caller, root) \in [Pids -> Pcb]
  <1>1. f[p] \in Pcb /\ f[running_pid].pid \in Pids
    BY DEF Pcb
  <1>2. NewPcb(f, p, caller, root) \in Pcb
    BY <1>1 DEF NewPcb, Pcb, Owner
  <1>3. QED
    BY <1>2 DEF Linked, Pcb, Owner

(* The process that execute creates leaves every table well formed. *)
LEMMA CreateType ==
  ASSUME running_pid \in Pids, elf_page \in SUBSET Pids,
         NEW p \in Pids, NEW used \in SUBSET Pids,
         NEW f \in [Pids -> Pcb], NEW ts \in [Terms -> Terminal],
         NEW cur \in Terms, NEW caller \in Parked,
         NEW place \in {"enter", "boot"},
         Create(p, used, f, ts, cur, caller, place)
  PROVE  /\ procs' \in SUBSET Pids
         /\ running_pid' \in Pids
         /\ pcb' \in [Pids -> Pcb]
         /\ terminals' \in [Terms -> Terminal]
         /\ esp0' \in Pids
         /\ cr3' \in Pids
         /\ elf_page' \in SUBSET Pids
         /\ cpu' \in Contexts
         /\ cpu'.at # "descend"
  <1>1. PICK t \in Terms :
          /\ terminals' = ts \/ terminals' = NewTerminal(ts, t, p)
          /\ pcb' = Linked(f, p, caller, terminals'[t].pid = p)
    BY DEF Create
  <1>2. NewTerminal(ts, t, p) \in [Terms -> Terminal]
    BY DEF NewTerminal, Terminal
  <1>3. pcb' \in [Pids -> Pcb]
    BY <1>1, LinkedType
  <1>4. cpu' \in Contexts /\ cpu'.at # "descend"
    BY DEF Create, Context, Contexts, Parked, Places, Owner
  <1>5. QED
    BY <1>1, <1>2, <1>3, <1>4 DEF Create

(* A PCB array in which halt has cleared a link is one. *)
LEMMA UnlinkedType == TypeOK => Unlinked \in [Pids -> Pcb]
  <1> SUFFICES ASSUME TypeOK PROVE Unlinked \in [Pids -> Pcb]
    OBVIOUS
  <1>1. pcb[running_pid].parent_pcb \in Owner
    BY DEF TypeOK, Pcb
  <1>2. QED
    BY <1>1 DEF TypeOK, Unlinked, Pcb, Owner

-----------------------------------------------------------------------------
(* Type correctness *)

(* halt of a program with a parent keeps the types. *)
LEMMA HaltChildType ==
  ASSUME TypeOK, NEW f \in [Pids -> Pcb], NEW flag \in {0, 1},
         NEW status \in {0, 1}, HaltChild(f, flag, status)
  PROVE  TypeOK'
  <1> DEFINE p      == running_pid
             parent == f[p].parent_pid
             value  == ReturnValue(flag, status)
             g      == [f EXCEPT ![p].child_return = value]
  <1>1. p \in Pids /\ f[p] \in Pcb
    BY DEF TypeOK
  <1>2. parent \in Pids /\ f[p].parent_ksp \in Parked /\ f[parent].pid \in Pids
    BY <1>1 DEF HaltChild, Pcb, Owner
  <1>3. g \in [Pids -> Pcb]
    BY <1>1 DEF Pcb, ReturnValue, PROCESS_KILLED_BY_EXCEPTION
  <1>4. Resume(f[p].parent_ksp, g, parent)
    BY DEF HaltChild
  <1>5. /\ pcb' \in [Pids -> Pcb]
        /\ cpu' \in Contexts
        /\ cpu'.at # "descend"
    BY <1>2, <1>3, <1>4, ResumeType
  <1>6. QED
    BY <1>1, <1>2, <1>5 DEF TypeOK, HaltChild, screen

(* halt of a shell, which executes another one, keeps the types. *)
LEMMA HaltRootType ==
  ASSUME TypeOK, NEW f \in [Pids -> Pcb], NEW flag \in {0, 1},
         HaltRoot(f, flag)
  PROVE  TypeOK'
  <1> DEFINE p  == running_pid
             s  == f[p].parent_ksp.stk
             ts == [terminals EXCEPT ![current_terminal].running = 0]
             c  == Context(None, s, "dead")
  <1>1. p \in Pids /\ f[p] \in Pcb
    BY DEF TypeOK
  <1>2. s \in Owner
    BY <1>1 DEF Pcb, Parked
  <1>3. PICK q \in Pids, g \in {f, Wipe(f, s)} :
          Create(q, procs \ {f[p].pid}, g, ts, current_terminal, c, "boot")
    BY DEF HaltRoot
  <1>4. g \in [Pids -> Pcb]
    BY <1>2, <1>3, WipeType
  <1>5. ts \in [Terms -> Terminal]
    BY DEF TypeOK, Terminal
  <1>6. c \in Parked
    BY <1>2 DEF Context, Parked, Places, Owner
  <1>7. /\ running_pid \in Pids
        /\ elf_page \in SUBSET Pids
        /\ procs \ {f[p].pid} \in SUBSET Pids
        /\ current_terminal \in Terms
    BY DEF TypeOK
  <1>8. /\ procs' \in SUBSET Pids
        /\ running_pid' \in Pids
        /\ pcb' \in [Pids -> Pcb]
        /\ terminals' \in [Terms -> Terminal]
        /\ esp0' \in Pids
        /\ cr3' \in Pids
        /\ elf_page' \in SUBSET Pids
        /\ cpu' \in Contexts
        /\ cpu'.at # "descend"
    BY <1>3, <1>4, <1>5, <1>6, <1>7, CreateType
  <1>9. QED
    BY <1>8 DEF TypeOK, HaltRoot, screen

(* A halt that finds no terminal keeps the types. *)
LEMMA LostType ==
  ASSUME TypeOK, NEW f \in [Pids -> Pcb], Lost(f)
  PROVE  TypeOK'
  BY DEF TypeOK, Lost, Context, Contexts, Places, Owner, screen, mmu

(* What the common prefix of the three outcomes of a tick leaves typed. *)
LEMMA TickType ==
  ASSUME TypeOK, NEW t \in Terms, Tick(t)
  PROVE  /\ current_terminal' \in Terms
         /\ terminal_to_switch_to' \in Terms \cup {None}
         /\ current_schedule' \in Terms
         /\ Shown \in [Terms -> Terminal]
         /\ Displayed \in Terms
         /\ RemappedCr3 \in Pids
         /\ Saved \in [Pids -> Pcb]
         /\ cpu \in Parked
         /\ cpu.at # "descend"
  <1>1. Displayed \in Terms
    BY DEF TypeOK, Displayed
  <1>2. Shown \in [Terms -> Terminal]
    BY <1>1 DEF TypeOK, Shown, Terminal, TASK_RUNNING
  <1>3. RemappedCr3 \in Pids
    BY DEF TypeOK, RemappedCr3, Pcb
  <1>4. cpu \in Contexts /\ cpu.at # "descend"
    BY DEF TypeOK, Tick, Interruptible
  <1>5. cpu \in Parked
    BY <1>4 DEF Contexts, Parked
  <1>6. Saved \in [Pids -> Pcb]
    BY <1>5 DEF TypeOK, Saved, Pcb
  <1>7. QED
    BY <1>1, <1>2, <1>3, <1>4, <1>5, <1>6 DEF Tick

(* A tick that executes a shell keeps the types. *)
LEMMA PitShellType ==
  ASSUME TypeOK, NEW t \in Terms, PitShell(t)
  PROVE  TypeOK'
  <1>1. Tick(t)
    BY DEF PitShell
  <1>2. CASE \E p \in Pids : Create(p, procs, Saved, Shown, Displayed, cpu, "boot")
    <2>1. PICK p \in Pids : Create(p, procs, Saved, Shown, Displayed, cpu, "boot")
      BY <1>2
    <2>2. running_pid \in Pids /\ elf_page \in SUBSET Pids /\ procs \in SUBSET Pids
      BY DEF TypeOK
    <2>3. /\ procs' \in SUBSET Pids
          /\ running_pid' \in Pids
          /\ pcb' \in [Pids -> Pcb]
          /\ terminals' \in [Terms -> Terminal]
          /\ esp0' \in Pids
          /\ cr3' \in Pids
          /\ elf_page' \in SUBSET Pids
          /\ cpu' \in Contexts
          /\ cpu'.at # "descend"
      BY <1>1, <2>1, <2>2, TickType, CreateType
    <2>4. next_pcb' \in Owner /\ program_exception_occured' \in {0, 1}
      BY DEF TypeOK, PitShell
    <2>5. QED
      BY <1>1, <2>3, <2>4, TickType DEF TypeOK
  <1>3. CASE /\ terminals' = Shown
             /\ pcb' = Saved
             /\ cr3' = RemappedCr3
             /\ UNCHANGED <<procs, running_pid, esp0, elf_page, cpu>>
    BY <1>1, <1>3, TickType DEF TypeOK, PitShell
  <1>4. QED
    BY <1>2, <1>3 DEF PitShell

(* Every step of the kernel, in any environment, keeps the types. *)
LEMMA TypeStep == TypeOK /\ [Next]_vars => TypeOK'
  <1> SUFFICES ASSUME TypeOK, [Next]_vars PROVE TypeOK'
    OBVIOUS
  <1> USE DEF screen, mmu, tables
  <1>1. CASE Execute
    <2>1. cpu \in Parked
      BY <1>1 DEF TypeOK, Execute, Contexts, Parked
    <2>2. PICK p \in Pids :
            Create(p, procs, pcb, terminals, current_terminal, cpu, "enter")
      BY <1>1 DEF Execute
    <2>3. /\ running_pid \in Pids /\ elf_page \in SUBSET Pids
          /\ procs \in SUBSET Pids /\ pcb \in [Pids -> Pcb]
          /\ terminals \in [Terms -> Terminal] /\ current_terminal \in Terms
      BY DEF TypeOK
    <2>4. /\ procs' \in SUBSET Pids
          /\ running_pid' \in Pids
          /\ pcb' \in [Pids -> Pcb]
          /\ terminals' \in [Terms -> Terminal]
          /\ esp0' \in Pids
          /\ cr3' \in Pids
          /\ elf_page' \in SUBSET Pids
          /\ cpu' \in Contexts
          /\ cpu'.at # "descend"
      BY <2>1, <2>2, <2>3, CreateType
    <2>5. QED
      BY <1>1, <2>4 DEF TypeOK, Execute
  <1>2. CASE ExecuteBad
    BY <1>2 DEF TypeOK, ExecuteBad
  <1>3. CASE Uspace
    <2>1. [cpu EXCEPT !.at = "user"] \in Parked
      BY DEF TypeOK, Contexts, Parked, Places
    <2>2. pcb \in [Pids -> Pcb] /\ esp0 \in Pids
      BY DEF TypeOK
    <2>3. /\ pcb' \in [Pids -> Pcb]
          /\ cpu' \in Contexts
          /\ cpu'.at # "descend"
      BY <1>3, <2>1, <2>2, ResumeType DEF Uspace
    <2>4. QED
      BY <1>3, <2>3 DEF TypeOK, Uspace
  <1>4. CASE Halt
    <2>1. program_exception_occured \in {0, 1}
      BY DEF TypeOK
    <2>2. QED
      BY <1>4, <2>1, UnlinkedType, HaltChildType, HaltRootType, LostType DEF Halt
  <1>5. CASE Fault
    <2>1. CASE HaltChild(Unlinked, 1, 1) \/ HaltRoot(Unlinked, 1) \/ Lost(Unlinked)
      BY <2>1, UnlinkedType, HaltChildType, HaltRootType, LostType
    <2>2. CASE /\ cpu' = [cpu EXCEPT !.at = "printed"]
               /\ UNCHANGED <<tables, screen, mmu, next_pcb,
                              program_exception_occured>>
      BY <2>2 DEF TypeOK, Contexts, Places
    <2>3. QED
      BY <1>5, <2>1, <2>2 DEF Fault
  <1>6. CASE FaultFlag
    BY <1>6 DEF TypeOK, FaultFlag, Contexts, Places
  <1>7. CASE FaultUnlink
    BY <1>7, UnlinkedType DEF TypeOK, FaultUnlink, Contexts, Places
  <1>8. CASE FaultHalt
    <2>1. program_exception_occured \in {0, 1} /\ pcb \in [Pids -> Pcb]
      BY DEF TypeOK
    <2>2. QED
      BY <1>8, <2>1, HaltChildType, HaltRootType, LostType DEF FaultHalt
  <1>9. ASSUME NEW t \in Terms, AltFn(t) PROVE TypeOK'
    BY <1>9 DEF TypeOK, AltFn
  <1>10. ASSUME NEW t \in Terms, PitStay(t) PROVE TypeOK'
    BY <1>10, TickType DEF TypeOK, PitStay
  <1>11. ASSUME NEW t \in Terms, PitSwitch(t) PROVE TypeOK'
    <2>1. terminals[t].pid \in Pids
      BY DEF TypeOK, Terminal
    <2>2. cpu' \in Contexts
      BY <1>11 DEF TypeOK, PitSwitch, Contexts, Places
    <2>3. next_pcb' \in Pids /\ next_pcb' # None
      BY <1>11, <2>1, Zero DEF PitSwitch
    <2>4. Tick(t)
      BY <1>11 DEF PitSwitch
    <2>5. QED
      BY <1>11, <2>2, <2>3, <2>4, TickType DEF TypeOK, PitSwitch, Owner
  <1>12. ASSUME NEW t \in Terms, PitShell(t) PROVE TypeOK'
    BY <1>12, PitShellType
  <1>13. CASE Descend
    <2>1. next_pcb \in Pids
      BY <1>13 DEF TypeOK, Descend, Owner
    <2>2. QED
      BY <1>13, <2>1 DEF TypeOK, Descend, Pcb
  <1>14. CASE Dispatch
    <2>1. next_pcb \in Pids
      BY <1>14 DEF TypeOK, Dispatch, Owner
    <2>2. QED
      BY <1>14, <2>1 DEF TypeOK, Dispatch, Pcb, Contexts, Places, Owner
  <1>15. CASE SwitchStack
    <2>1. /\ pcb[running_pid].ksp \in Parked
          /\ pcb \in [Pids -> Pcb] /\ esp0 \in Pids
      BY DEF TypeOK, Pcb
    <2>2. /\ pcb' \in [Pids -> Pcb]
          /\ cpu' \in Contexts
          /\ cpu'.at # "descend"
      BY <1>15, <2>1, ResumeType DEF SwitchStack
    <2>3. QED
      BY <1>15, <2>2 DEF TypeOK, SwitchStack
  <1>16. CASE UNCHANGED vars
    BY <1>16 DEF TypeOK, vars
  <1>17. CASE Overrun
    <2>1. pcb' \in [Pids -> Pcb]
      BY <1>17, OverrunType DEF TypeOK
    <2>2. QED
      BY <1>17, <2>1 DEF TypeOK, Overrun
  <1>18. QED
    BY <1>1, <1>2, <1>3, <1>4, <1>5, <1>6, <1>7, <1>8, <1>9, <1>10, <1>11,
       <1>12, <1>13, <1>14, <1>15, <1>16, <1>17 DEF Next, Pit

(* Boot leaves every variable typed. *)
LEMMA TypeInit == Init => TypeOK
  BY Zero DEF Init, TypeOK, Pcb, ZeroPcb, NoContext, Context, Contexts, Parked,
              Places, Terminal, Owner, TASK_RUNNING, TASK_NOT_RUNNING

(* For every number of pids and terminals, and in every environment, the   *)
(* kernel's variables keep their types: no index leaves its table, and the *)
(* descent of irqh_pit never follows a NULL pointer.                       *)
THEOREM TypeCorrect == Spec => []TypeOK
  BY TypeInit, TypeStep, PTL DEF Spec

-----------------------------------------------------------------------------
(* The terminal table *)

(* The running terminals of table ts are its first ones. *)
Prefix(ts) ==
    \A t \in Terms : ts[t].running = 1 =>
      \A u \in 0 .. t - 1 : ts[u].running = 1

(* Starting a program leaves the schedule alone, takes no terminal out of  *)
(* use, and if the terminal on display has no shell gives one to the first *)
(* terminal without.                                                       *)
LEMMA CreateTerminals ==
  ASSUME NEW p \in Pids, NEW used, NEW f, NEW ts \in [Terms -> Terminal],
         NEW cur \in Terms, NEW caller, NEW place,
         Create(p, used, f, ts, cur, caller, place)
  PROVE  /\ \A t \in Terms : terminals'[t].status = ts[t].status
         /\ \A t \in Terms : ts[t].running = 1 => terminals'[t].running = 1
         /\ ts[cur].running = 1 => terminals' = ts
         /\ ts[cur].running # 1 =>
              \E t \in Terms : /\ IsNewTerminal(ts, t)
                               /\ terminals' = NewTerminal(ts, t, p)
  <1>1. PICK t \in Terms :
          IF ts[cur].running = 1
          THEN t = cur /\ terminals' = ts
          ELSE IsNewTerminal(ts, t) /\ terminals' = NewTerminal(ts, t, p)
    BY DEF Create
  <1>2. \A u \in Terms :
          /\ NewTerminal(ts, t, p)[u].status = ts[u].status
          /\ ts[u].running = 1 => NewTerminal(ts, t, p)[u].running = 1
    BY DEF NewTerminal, Terminal
  <1>3. CASE ts[cur].running = 1
    BY <1>1, <1>3
  <1>4. CASE ts[cur].running # 1
    BY <1>1, <1>2, <1>4
  <1>5. QED
    BY <1>3, <1>4

(* If terminal x is taken out of use and a program is started, the running *)
(* terminals are again the first ones: x itself is refilled if it had a    *)
(* shell, for the terminals before it all have one.                        *)
LEMMA RefillPrefix ==
  ASSUME NEW ts \in [Terms -> Terminal], Prefix(ts), NEW p \in Pids,
         NEW x \in Terms, NEW t \in Terms,
         NEW us \in [Terms -> Terminal],
         \A u \in Terms : us[u].running = 1 => ts[u].running = 1,
         \A u \in Terms : u # x => us[u].running = ts[u].running,
         IsNewTerminal(us, t)
  PROVE  /\ Prefix(NewTerminal(us, t, p))
         /\ \A u \in Terms :
              ts[u].running = 1 => NewTerminal(us, t, p)[u].running = 1
  <1> DEFINE vs == NewTerminal(us, t, p)
  <1>1. /\ us \in [Terms -> Terminal]
        /\ \A u \in Terms : us[u].running = 1 => ts[u].running = 1
        /\ \A u \in Terms : u # x => us[u].running = ts[u].running
    OBVIOUS
  <1>2. \A u \in Terms : vs[u].running = IF u = t THEN 1 ELSE us[u].running
    BY <1>1 DEF NewTerminal, Terminal
  <1>3. \A u \in Terms : u \in Int /\ 0 .. u - 1 \subseteq Terms
    BY TerminalAssumption DEF Terms
  <1>4. us[t].running = 0 /\ \A u \in 0 .. t - 1 : us[u].running = 1
    BY DEF IsNewTerminal
  <1>5. \A u, v \in Terms : u \in 0 .. v - 1 \/ v \in 0 .. u - 1 \/ u = v
    BY DEF Terms
  <1>6. CASE ts[t].running = 1
    <2>1. t = x
      BY <1>1, <1>4, <1>6
    <2>2. \A u \in Terms : vs[u].running = ts[u].running
      BY <1>1, <1>2, <1>6, <2>1
    <2>3. QED
      BY <2>2, <1>3 DEF Prefix
  <1>7. CASE ts[t].running # 1
    <2>1. \A u \in Terms : t \in 0 .. u - 1 => ts[u].running # 1
      BY <1>7 DEF Prefix
    <2>2. \A u \in Terms : ts[u].running = 1 => u \in 0 .. t - 1
      BY <2>1, <1>5, <1>7
    <2>3. \A u \in Terms : ts[u].running = 1 => us[u].running = 1
      BY <2>2, <1>4
    <2>4. \A v \in Terms : vs[v].running = 1 => v = t \/ v \in 0 .. t - 1
      BY <1>1, <1>2, <2>2
    <2>5. \A v \in Terms : vs[v].running = 1 => 0 .. v - 1 \subseteq 0 .. t - 1
      BY <2>4, <1>3
    <2>6. \A u \in 0 .. t - 1 : vs[u].running = 1
      BY <1>2, <1>3, <1>4
    <2>7. Prefix(vs)
      BY <2>5, <2>6 DEF Prefix
    <2>8. QED
      BY <2>3, <2>7, <1>2
  <1>8. QED
    BY <1>6, <1>7

TableInv == TypeOK /\ RunningPrefix /\ ScheduleNotEmpty

(* switch_terminal puts the terminal it shows into the schedule. *)
LEMMA ShownTable ==
  ASSUME TableInv
  PROVE  /\ Shown \in [Terms -> Terminal]
         /\ Displayed \in Terms
         /\ \A t \in Terms : /\ Shown[t].running = terminals[t].running
                             /\ Shown[t].pid = terminals[t].pid
         /\ Prefix(Shown) /\ Shown[0].running = 1
         /\ Shown[0].status = TASK_RUNNING
         /\ Shown[Displayed].status = TASK_RUNNING
  <1>1. Displayed \in Terms
    BY DEF TableInv, TypeOK, Displayed
  <1>2. /\ Shown \in [Terms -> Terminal]
        /\ \A t \in Terms : /\ Shown[t].running = terminals[t].running
                            /\ Shown[t].pid = terminals[t].pid
                            /\ terminals[t].status = TASK_RUNNING =>
                                 Shown[t].status = TASK_RUNNING
        /\ Shown[Displayed].status = TASK_RUNNING
    BY <1>1 DEF TableInv, TypeOK, Shown, Terminal, TASK_RUNNING, ScheduleNotEmpty
  <1>3. \A t \in Terms : 0 .. t - 1 \subseteq Terms
    BY TerminalAssumption DEF Terms
  <1>4. QED
    BY <1>1, <1>2, <1>3, Zero DEF Prefix, TableInv, RunningPrefix, ScheduleNotEmpty

(* halt of a shell keeps the terminal table in order: the terminal it      *)
(* frees is filled by the shell it executes.                               *)
LEMMA HaltRootTable ==
  ASSUME TableInv, NEW f, NEW flag, HaltRoot(f, flag)
  PROVE  RunningPrefix' /\ ScheduleNotEmpty'
  <1>0. PICK ts : ts = [terminals EXCEPT ![current_terminal].running = 0]
    OBVIOUS
  <1>1. PICK q, g, used, c :
          q \in Pids /\ Create(q, used, g, ts, current_terminal, c, "boot")
    BY <1>0 DEF HaltRoot
  <1>2. /\ terminals \in [Terms -> Terminal] /\ current_terminal \in Terms
        /\ current_terminal' = current_terminal
        /\ Prefix(terminals) /\ terminals[0].running = 1
    BY DEF TableInv, TypeOK, RunningPrefix, Prefix, HaltRoot, screen
  <1>3. /\ ts \in [Terms -> Terminal]
        /\ ts[current_terminal].running # 1
        /\ \A t \in Terms : /\ ts[t].status = terminals[t].status
                            /\ ts[t].running = 1 => terminals[t].running = 1
                            /\ t # current_terminal =>
                                 ts[t].running = terminals[t].running
    BY <1>0, <1>2 DEF Terminal
  <1>4. /\ \A t \in Terms : terminals'[t].status = ts[t].status
        /\ \E t \in Terms : /\ IsNewTerminal(ts, t)
                            /\ terminals' = NewTerminal(ts, t, q)
    BY <1>1, <1>2, <1>3, CreateTerminals
  <1>5. PICK t \in Terms : /\ IsNewTerminal(ts, t)
                           /\ terminals' = NewTerminal(ts, t, q)
    BY <1>4
  <1>6. /\ Prefix(terminals')
        /\ \A u \in Terms : terminals[u].running = 1 => terminals'[u].running = 1
    <2>1. q \in Pids
      BY <1>1
    <2>2. QED
      BY <1>2, <1>3, <1>5, <2>1, RefillPrefix
  <1>7. QED
    BY <1>2, <1>3, <1>4, <1>6, Zero
       DEF Prefix, RunningPrefix, ScheduleNotEmpty, TableInv

(* No step of the kernel disturbs the terminal table. *)
LEMMA TableStep == TableInv /\ [Next]_vars => TableInv'
  <1> SUFFICES ASSUME TableInv, [Next]_vars PROVE RunningPrefix' /\ ScheduleNotEmpty'
    BY TypeStep DEF TableInv
  <1> USE DEF screen, mmu, tables
  <1>1. CASE UNCHANGED <<terminals, current_terminal>>
    BY <1>1 DEF TableInv, RunningPrefix, ScheduleNotEmpty
  <1>2. CASE Execute
    <2>1. CASE terminals[current_terminal].running = 1
      <3>1. UNCHANGED <<terminals, current_terminal>>
        BY <1>2, <2>1, CreateTerminals DEF Execute, TableInv, TypeOK
      <3>2. QED
        BY <3>1, <1>1
    <2>2. CASE terminals[current_terminal].running # 1
      <3>1. PICK p \in Pids :
              Create(p, procs, pcb, terminals, current_terminal, cpu, "enter")
        BY <1>2 DEF Execute
      <3>2. /\ terminals \in [Terms -> Terminal] /\ current_terminal \in Terms
            /\ current_terminal' = current_terminal
            /\ Prefix(terminals) /\ terminals[0].running = 1
        BY <1>2 DEF TableInv, TypeOK, RunningPrefix, Prefix, Execute
      <3>3. /\ \A t \in Terms : terminals'[t].status = terminals[t].status
            /\ \E t \in Terms : /\ IsNewTerminal(terminals, t)
                                /\ terminals' = NewTerminal(terminals, t, p)
        BY <2>2, <3>1, <3>2, CreateTerminals
      <3>4. PICK t \in Terms : /\ IsNewTerminal(terminals, t)
                               /\ terminals' = NewTerminal(terminals, t, p)
        BY <3>3
      <3>5. /\ Prefix(terminals')
            /\ \A u \in Terms :
                 terminals[u].running = 1 => terminals'[u].running = 1
        BY <3>2, <3>4, RefillPrefix
      <3>6. QED
        BY <3>2, <3>3, <3>5, Zero
           DEF Prefix, RunningPrefix, ScheduleNotEmpty, TableInv
    <2>3. QED
      BY <2>1, <2>2
  <1>3. ASSUME NEW f, NEW flag, HaltRoot(f, flag)
        PROVE  RunningPrefix' /\ ScheduleNotEmpty'
    BY <1>3, HaltRootTable
  <1>4. CASE \/ ExecuteBad \/ Uspace \/ Overrun \/ FaultFlag \/ FaultUnlink
             \/ \E t \in Terms : AltFn(t)
             \/ Descend \/ Dispatch \/ SwitchStack \/ UNCHANGED vars
    BY <1>1, <1>4 DEF ExecuteBad, Uspace, Overrun, FaultFlag, FaultUnlink, AltFn,
                      Descend, Dispatch, SwitchStack, vars
  <1>5. CASE Halt \/ Fault \/ FaultHalt
    BY <1>1, <1>3, <1>5 DEF Halt, Fault, FaultHalt, HaltChild, Lost
  <1>6. ASSUME NEW t \in Terms, Tick(t), terminals' = Shown
        PROVE  RunningPrefix' /\ ScheduleNotEmpty'
    BY <1>6, ShownTable, Zero DEF Tick, Prefix, RunningPrefix, ScheduleNotEmpty
  <1>7. ASSUME NEW t \in Terms, Tick(t), NEW p \in Pids,
               Create(p, procs, Saved, Shown, Displayed, cpu, "boot")
        PROVE  RunningPrefix' /\ ScheduleNotEmpty'
    <2>1. CASE Shown[Displayed].running = 1
      BY <1>6, <1>7, <2>1, CreateTerminals, ShownTable
    <2>2. CASE Shown[Displayed].running # 1
      <3>1. /\ \A u \in Terms : terminals'[u].status = Shown[u].status
            /\ \E u \in Terms : /\ IsNewTerminal(Shown, u)
                                /\ terminals' = NewTerminal(Shown, u, p)
        BY <1>7, <2>2, CreateTerminals, ShownTable
      <3>2. PICK u \in Terms : /\ IsNewTerminal(Shown, u)
                               /\ terminals' = NewTerminal(Shown, u, p)
        BY <3>1
      <3>3. /\ Prefix(terminals')
            /\ \A v \in Terms : Shown[v].running = 1 => terminals'[v].running = 1
        BY <3>2, ShownTable, RefillPrefix
      <3>4. QED
        BY <1>7, <3>1, <3>3, ShownTable, Zero
           DEF Tick, Prefix, RunningPrefix, ScheduleNotEmpty
    <2>3. QED
      BY <2>1, <2>2
  <1>8. CASE Pit
    BY <1>6, <1>7, <1>8 DEF Pit, PitStay, PitSwitch, PitShell
  <1>9. QED
    BY <1>2, <1>4, <1>5, <1>8 DEF Next

(* init_terminals leaves the table in order. *)
LEMMA TableInit == Init => TableInv
  <1> SUFFICES ASSUME Init PROVE RunningPrefix /\ ScheduleNotEmpty
    BY TypeInit DEF TableInv
  <1>1. /\ terminals[0].running = 1 /\ terminals[0].status = TASK_RUNNING
        /\ \A t \in Terms : terminals[t].running = 1 => t = 0
    BY Zero DEF Init
  <1>2. QED
    BY <1>1, Zero DEF RunningPrefix, ScheduleNotEmpty, Init

(* In every environment, the terminals with a shell are the first ones of  *)
(* the table, whichever shells exit and wherever the user switches to.     *)
THEOREM RunningTerminalsFirst == Spec => []RunningPrefix
  <1>1. TableInv => RunningPrefix
    BY DEF TableInv
  <1>2. QED
    BY <1>1, TableInit, TableStep, PTL DEF Spec

-----------------------------------------------------------------------------
(* Walks along the links of the PCBs *)

(* Numbers are well ordered. *)
LEMMA LeastNumber ==
  ASSUME NEW S \in SUBSET Nat, S # {}
  PROVE  \E n \in S : \A m \in S : n <= m
  <1> DEFINE R == OpToRel(<, Nat)
  <1>1. IsWellFoundedOn(R, Nat)
    BY NatLessThanWellFounded, Zenon
  <1> HIDE DEF R
  <1>2. PICK x \in S : \A y \in S : ~(<<y, x>> \in R)
    BY <1>1, WFMin
  <1>3. ASSUME NEW y \in S, ~(x <= y)
        PROVE  FALSE
    <2>1. <<y, x>> \in Nat \X Nat /\ y < x
      BY <1>3
    <2>2. <<y, x>> \in R
      BY <2>1 DEF R, OpToRel
    <2>3. QED
      BY <1>2, <2>2
  <1>4. QED
    BY <1>3

(* A walk along the links of the PCBs f, up to the parents or down to the  *)
(* children: it starts at p with number b, and g is the walk so far.       *)
Along(f, way, q) ==
    IF q = None THEN None ELSE IF way = "up" THEN f[q].parent_pid ELSE f[q].child_pcb

Walk(f, way, b, p, N, g) ==
    [n \in b .. N |-> IF n = b THEN p ELSE Along(f, way, g[n - 1])]

(* The recursive definition of such a walk defines one. *)
LEMMA WalkExists ==
  ASSUME NEW f, NEW way, NEW b \in Nat, NEW p, NEW N \in Nat, b <= N
  PROVE  \E g : g = Walk(f, way, b, p, N, g)
  <1> DEFINE S == {k \in b .. N : ~ \E g : g = Walk(f, way, b, p, k, g)}
  <1>1. SUFFICES ASSUME S # {} PROVE FALSE
    <2>1. N \in b .. N
      OBVIOUS
    <2>2. QED
      BY <2>1
  <1>2. PICK k \in S : \A m \in S : k <= m
    <2>1. S \in SUBSET Nat
      OBVIOUS
    <2> HIDE DEF S
    <2>2. QED
      BY <1>1, <2>1, LeastNumber
  <1>3. k \in b .. N /\ k \in Nat /\ ~ \E g : g = Walk(f, way, b, p, k, g)
    OBVIOUS
  <1>4. CASE k = b
    <2> DEFINE g == [n \in b .. b |-> p]
    <2>1. \A n \in b .. b : n = b
      OBVIOUS
    <2>2. g = Walk(f, way, b, p, b, g)
      BY <2>1 DEF Walk
    <2>3. QED
      BY <1>3, <1>4, <2>2
  <1>5. CASE k # b
    <2>1. k - 1 \in b .. N /\ ~(k <= k - 1)
      BY <1>3, <1>5
    <2>2. k - 1 \notin S
      BY <1>2, <2>1
    <2>3. PICK g : g = Walk(f, way, b, p, k - 1, g)
      BY <2>1, <2>2
    <2> DEFINE h == [n \in b .. k |-> IF n < k THEN g[n] ELSE Along(f, way, g[k - 1])]
    <2>4. ASSUME NEW n \in b .. k
          PROVE  h[n] = IF n = b THEN p ELSE Along(f, way, h[n - 1])
      <3>1. CASE n = b
        <4>1. b \in b .. k - 1 /\ n < k
          BY <2>1, <3>1
        <4>2. g[b] = p
          BY <2>3, <4>1 DEF Walk
        <4>3. QED
          BY <3>1, <4>1, <4>2
      <3>2. CASE n # b
        <4>1. n - 1 \in b .. k /\ n - 1 < k
          BY <1>3, <3>2
        <4>2. h[n - 1] = g[n - 1]
          BY <4>1
        <4>3. CASE n < k
          <5>1. n \in b .. k - 1
            BY <1>3, <4>3
          <5>2. g[n] = Along(f, way, g[n - 1])
            BY <2>3, <3>2, <5>1 DEF Walk
          <5>3. QED
            BY <3>2, <4>2, <4>3, <5>2
        <4>4. CASE ~(n < k)
          <5>1. n = k
            BY <1>3, <4>4
          <5>2. QED
            BY <3>2, <4>2, <4>4, <5>1
        <4>5. QED
          BY <4>3, <4>4
      <3>3. QED
        BY <3>1, <3>2
    <2>5. h = Walk(f, way, b, p, k, h)
      <3>1. h = [n \in b .. k |-> h[n]]
        OBVIOUS
      <3> HIDE DEF h
      <3>2. QED
        BY <2>4, <3>1 DEF Walk
    <2>6. QED
      BY <1>3, <2>5
  <1>6. QED
    BY <1>3, <1>4, <1>5

-----------------------------------------------------------------------------
(* Stacks of programs *)

(* Sequence s leads from the shell r over the child_pcb links of f to a    *)
(* leaf, and back over the parent_pid links.                               *)
IsStack(f, live, r, s) ==
    /\ s \in Seq(live) /\ Len(s) >= 1
    /\ s[1] = r
    /\ f[r].parent_pid = None
    /\ \A i \in 1 .. Len(s) - 1 : /\ f[s[i]].child_pcb = s[i + 1]
                                  /\ f[s[i + 1]].parent_pid = s[i]
    /\ f[s[Len(s)]].child_pcb = None

(* The process at place i of a stack, its parent and its child. *)
Place(f, live, r, s, i) ==
    /\ s[i] \in live /\ s[i] \in Pids /\ s[i] # None
    /\ i = 1 => s[i] = r /\ f[s[i]].parent_pid = None
    /\ i # 1 => i - 1 \in 1 .. Len(s) /\ f[s[i]].parent_pid = s[i - 1]
    /\ i < Len(s) => i + 1 \in 1 .. Len(s) /\ f[s[i]].child_pcb = s[i + 1]
    /\ i = Len(s) => f[s[i]].child_pcb = None

(* Every place of a stack is such a one. *)
LEMMA StackPlaces ==
  ASSUME NEW f, NEW live \in SUBSET Pids, NEW r, NEW s, IsStack(f, live, r, s)
  PROVE  Len(s) \in Nat /\ \A i \in 1 .. Len(s) : Place(f, live, r, s, i)
  <1>0. SUFFICES ASSUME NEW i \in 1 .. Len(s) PROVE Place(f, live, r, s, i)
    BY DEF IsStack
  <1>1. s \in Seq(live) /\ Len(s) \in Nat /\ s[i] \in live
    BY DEF IsStack
  <1>2. s[i] \in Pids /\ s[i] # None
    BY <1>1, Zero
  <1>3. i # 1 => i - 1 \in 1 .. Len(s) - 1 /\ (i - 1) + 1 = i
    BY <1>1
  <1>4. i < Len(s) => i \in 1 .. Len(s) - 1 /\ i + 1 \in 1 .. Len(s)
    BY <1>1
  <1>5. 1 .. Len(s) - 1 \subseteq 1 .. Len(s)
    BY <1>1
  <1>6. QED
    BY <1>1, <1>2, <1>3, <1>4, <1>5 DEF IsStack, Place

(* A process has one place in one stack: the parents of two places are     *)
(* the same as well, down to the shell.                                    *)
LEMMA OnePlace ==
  ASSUME NEW f, NEW live \in SUBSET Pids,
         NEW r, NEW s, IsStack(f, live, r, s),
         NEW q, NEW z, IsStack(f, live, q, z)
  PROVE  \A i \in 1 .. Len(s), j \in 1 .. Len(z) : s[i] = z[j] => r = q /\ i = j
  <1> DEFINE T == {i \in 1 .. Len(s) :
                     \E j \in 1 .. Len(z) : s[i] = z[j] /\ ~(r = q /\ i = j)}
  <1>0. /\ Len(s) \in Nat /\ Len(z) \in Nat
        /\ \A i \in 1 .. Len(s) : Place(f, live, r, s, i)
        /\ \A i \in 1 .. Len(z) : Place(f, live, q, z, i)
    BY StackPlaces
  <1>1. SUFFICES ASSUME T # {} PROVE FALSE
    OBVIOUS
  <1>2. PICK i \in T : \A m \in T : i <= m
    <2>1. T \in SUBSET Nat
      BY <1>0
    <2> HIDE DEF T
    <2>2. QED
      BY <1>1, <2>1, LeastNumber
  <1>3. PICK j \in 1 .. Len(z) : s[i] = z[j] /\ ~(r = q /\ i = j)
    OBVIOUS
  <1>4. i \in 1 .. Len(s)
    OBVIOUS
  <1>5. /\ i = 1 => s[i] = r /\ f[s[i]].parent_pid = None
        /\ i # 1 => /\ i - 1 \in 1 .. Len(s) /\ f[s[i]].parent_pid = s[i - 1]
                    /\ s[i - 1] # None
    BY <1>0, <1>4 DEF Place
  <1>6. /\ j = 1 => z[j] = q /\ f[z[j]].parent_pid = None
        /\ j # 1 => /\ j - 1 \in 1 .. Len(z) /\ f[z[j]].parent_pid = z[j - 1]
                    /\ z[j - 1] # None
    BY <1>0, <1>3 DEF Place
  <1>7. i # 1 /\ j # 1
    BY <1>3, <1>5, <1>6
  <1>8. s[i - 1] = z[j - 1] /\ ~(r = q /\ i - 1 = j - 1)
    BY <1>3, <1>4, <1>5, <1>6, <1>7, <1>0
  <1>9. i - 1 \in T
    BY <1>5, <1>6, <1>7, <1>8
  <1>10. ~(i <= i - 1)
    BY <1>4, <1>0
  <1>11. QED
    BY <1>2, <1>9, <1>10

(* So a stack has no more members than there are pids. *)
LEMMA StackShort ==
  ASSUME NEW f, NEW live \in SUBSET Pids, NEW r, NEW s, IsStack(f, live, r, s)
  PROVE  Len(s) <= MAX_PID_COUNT
  <1>1. PICK n \in Nat : n = Len(s) /\ \A i \in 1 .. n : Place(f, live, r, s, i)
    BY StackPlaces
  <1>2. SUFFICES ASSUME MAX_PID_COUNT < n PROVE FALSE
    BY <1>1, PidCountAssumption
  <1> DEFINE g == [i \in 1 .. n |-> s[i]]
  <1>3. g \in [1 .. n -> Pids]
    BY <1>1 DEF Place
  <1>4. IsFiniteSet(1 .. n) /\ Cardinality(1 .. n) = n
    <2>1. 1 \in Int /\ n \in Int /\ ~(1 > n) /\ n - 1 + 1 = n
      BY <1>2, PidCountAssumption
    <2>2. QED
      BY <2>1, FS_Interval
  <1>5. IsFiniteSet(Pids) /\ Cardinality(Pids) = MAX_PID_COUNT
    BY FS_Interval, PidCountAssumption DEF Pids
  <1> HIDE DEF g
  <1>6. PICK x, y \in 1 .. n : x # y /\ g[x] = g[y]
    BY <1>2, <1>3, <1>4, <1>5, FS_PigeonHole
  <1>7. s[x] = s[y]
    BY <1>6 DEF g
  <1>8. QED
    BY <1>1, <1>6, <1>7, OnePlace

(* The chain irqh_pit walks, from the shell r over the PCBs f. *)
Down(f, r) ==
    CHOOSE g : g = [n \in 1 .. MAX_PID_COUNT |->
                      IF n = 1 THEN r
                      ELSE IF g[n - 1] = None THEN None ELSE f[g[n - 1]].child_pcb]

Path(f, r) ==
    [n \in 1 .. Cardinality({n \in 1 .. MAX_PID_COUNT : Down(f, r)[n] # None})
       |-> Down(f, r)[n]]

(* It follows one link at a time. *)
LEMMA DownSteps ==
  ASSUME NEW f, NEW r, NEW n \in 1 .. MAX_PID_COUNT
  PROVE  Down(f, r)[n] = IF n = 1 THEN r
                         ELSE IF Down(f, r)[n - 1] = None THEN None
                         ELSE f[Down(f, r)[n - 1]].child_pcb
  <1> DEFINE F(g) == [k \in 1 .. MAX_PID_COUNT |->
                        IF k = 1 THEN r
                        ELSE IF g[k - 1] = None THEN None ELSE f[g[k - 1]].child_pcb]
  <1>1. 1 \in Nat /\ MAX_PID_COUNT \in Nat /\ 1 <= MAX_PID_COUNT
    BY PidCountAssumption
  <1>2. PICK g : g = Walk(f, "down", 1, r, MAX_PID_COUNT, g)
    BY <1>1, WalkExists
  <1>3. g = F(g)
    BY <1>2 DEF Walk, Along
  <1>4. Down(f, r) = CHOOSE h : h = F(h)
    BY DEF Down
  <1> HIDE DEF F
  <1>5. Down(f, r) = F(Down(f, r))
    BY <1>3, <1>4, Zenon
  <1>6. PICK d : d = Down(f, r)
    OBVIOUS
  <1>7. d = F(d)
    BY <1>5, <1>6
  <1>8. d[n] = IF n = 1 THEN r
               ELSE IF d[n - 1] = None THEN None ELSE f[d[n - 1]].child_pcb
    BY <1>7 DEF F
  <1>9. QED
    BY <1>6, <1>8

(* A walk from the shell of a stack is that stack. *)
LEMMA PathIs ==
  ASSUME NEW f, NEW live \in SUBSET Pids, NEW r, NEW s, IsStack(f, live, r, s)
  PROVE  Path(f, r) = s
  <1>1. PICK d, N : d = Down(f, r) /\ N = MAX_PID_COUNT
    OBVIOUS
  <1>2. /\ N \in Nat \ {0} /\ Len(s) \in 1 .. N /\ Len(s) \in Nat
        /\ s \in Seq(live) /\ s[1] = r
        /\ \A i \in 1 .. Len(s) : Place(f, live, r, s, i)
    <2>1. Len(s) <= MAX_PID_COUNT
      BY StackShort
    <2>2. \A i \in 1 .. Len(s) : Place(f, live, r, s, i)
      BY StackPlaces
    <2>3. QED
      BY <1>1, <2>1, <2>2, PidCountAssumption DEF IsStack
  <1>3. \A n \in 1 .. N :
          d[n] = IF n = 1 THEN r
                 ELSE IF d[n - 1] = None THEN None ELSE f[d[n - 1]].child_pcb
    BY <1>1, DownSteps
  <1>4. \A n \in 1 .. N : d[n] = IF n <= Len(s) THEN s[n] ELSE None
    <2> DEFINE T == {n \in 1 .. N : d[n] # IF n <= Len(s) THEN s[n] ELSE None}
    <2>1. SUFFICES ASSUME T # {} PROVE FALSE
      OBVIOUS
    <2>2. PICK n \in T : \A m \in T : n <= m
      <3>1. T \in SUBSET Nat
        BY <1>2
      <3> HIDE DEF T
      <3>2. QED
        BY <2>1, <3>1, LeastNumber
    <2>3. n \in 1 .. N /\ d[n] # IF n <= Len(s) THEN s[n] ELSE None
      OBVIOUS
    <2>4. n # 1
      BY <1>2, <1>3, <2>3
    <2>5. n - 1 \in 1 .. N /\ ~(n <= n - 1)
      BY <1>2, <2>3, <2>4
    <2>6. d[n - 1] = IF n - 1 <= Len(s) THEN s[n - 1] ELSE None
      BY <2>2, <2>5
    <2>7. CASE n - 1 <= Len(s)
      <3>1. n - 1 \in 1 .. Len(s)
        BY <1>2, <2>5, <2>7
      <3>2. /\ s[n - 1] # None
            /\ n - 1 < Len(s) => f[s[n - 1]].child_pcb = s[(n - 1) + 1]
            /\ n - 1 = Len(s) => f[s[n - 1]].child_pcb = None
        BY <1>2, <3>1 DEF Place
      <3>3. d[n] = f[s[n - 1]].child_pcb
        BY <1>3, <2>3, <2>4, <2>6, <2>7, <3>2
      <3>4. (n - 1) + 1 = n /\ (n - 1 < Len(s) <=> n <= Len(s))
            /\ (n - 1 < Len(s) \/ n - 1 = Len(s))
        BY <1>2, <2>3, <2>7
      <3>5. QED
        BY <2>3, <3>2, <3>3, <3>4
    <2>8. CASE ~(n - 1 <= Len(s))
      <3>1. ~(n <= Len(s))
        BY <1>2, <2>3, <2>8
      <3>2. d[n] = None
        BY <1>3, <2>3, <2>4, <2>6, <2>8
      <3>3. QED
        BY <2>3, <3>1, <3>2
    <2>9. QED
      BY <2>7, <2>8
  <1>5. {n \in 1 .. N : d[n] # None} = 1 .. Len(s)
    <2>1. \A n \in 1 .. Len(s) : n \in 1 .. N /\ s[n] # None
      BY <1>2 DEF Place
    <2>2. \A n \in 1 .. N : n <= Len(s) => n \in 1 .. Len(s)
      BY <1>2
    <2>3. \A n \in 1 .. Len(s) : n <= Len(s)
      BY <1>2
    <2>4. QED
      BY <1>4, <2>1, <2>2, <2>3
  <1>6. Cardinality(1 .. Len(s)) = Len(s)
    BY <1>2, FS_Interval
  <1>7. Path(f, r) = [n \in 1 .. Len(s) |-> d[n]]
    BY <1>1, <1>5, <1>6 DEF Path
  <1>8. \A n \in 1 .. Len(s) : d[n] = s[n]
    BY <1>2, <1>4
  <1>9. s = [n \in 1 .. Len(s) |-> s[n]]
    BY <1>2
  <1>10. QED
    BY <1>7, <1>8, <1>9

(* The chain of a terminal, before and after a step. *)
LEMMA ChainPath ==
  ASSUME NEW t
  PROVE  /\ Chain(t) = IF terminals[t].running = 1 THEN Path(pcb, terminals[t].pid)
                       ELSE <<>>
         /\ Chain(t)' = IF terminals'[t].running = 1 THEN Path(pcb', terminals'[t].pid)
                        ELSE <<>>
  BY DEF Chain, Path, Down

(* What touches no member of a stack keeps it. *)
LEMMA SameStack ==
  ASSUME NEW f, NEW g, NEW live \in SUBSET Pids, NEW more, NEW r, NEW s,
         IsStack(f, live, r, s),
         \A i \in 1 .. Len(s) : /\ s[i] \in more
                                /\ g[s[i]].child_pcb = f[s[i]].child_pcb
                                /\ g[s[i]].parent_pid = f[s[i]].parent_pid
  PROVE  IsStack(g, more, r, s)
  <1>1. /\ s \in Seq(live) /\ Len(s) \in Nat /\ Len(s) >= 1 /\ s[1] = r
        /\ f[r].parent_pid = None /\ f[s[Len(s)]].child_pcb = None
        /\ \A i \in 1 .. Len(s) - 1 : /\ f[s[i]].child_pcb = s[i + 1]
                                      /\ f[s[i + 1]].parent_pid = s[i]
    BY DEF IsStack
  <1>2. s \in Seq(more)
    BY <1>1
  <1>3. 1 \in 1 .. Len(s) /\ Len(s) \in 1 .. Len(s)
    BY <1>1
  <1>4. g[r].parent_pid = None /\ g[s[Len(s)]].child_pcb = None
    BY <1>1, <1>3
  <1>5. ASSUME NEW i \in 1 .. Len(s) - 1
        PROVE  g[s[i]].child_pcb = s[i + 1] /\ g[s[i + 1]].parent_pid = s[i]
    <2>1. i \in 1 .. Len(s) /\ i + 1 \in 1 .. Len(s)
      BY <1>1
    <2>2. QED
      BY <1>1, <2>1
  <1>6. QED
    BY <1>1, <1>2, <1>4, <1>5 DEF IsStack

(* Calling a program p puts it on top of the caller. *)
Grows(f, g, live, s, p) ==
    /\ p \notin live
    /\ \A q \in live : /\ g[q].parent_pid = f[q].parent_pid
                       /\ q # s[Len(s)] => g[q].child_pcb = f[q].child_pcb
    /\ g[s[Len(s)]].child_pcb = p
    /\ g[p].parent_pid = s[Len(s)]
    /\ g[p].child_pcb = None

(* The caller's stack is longer by p. *)
LEMMA GrowStack ==
  ASSUME NEW f, NEW g, NEW live \in SUBSET Pids, NEW r, NEW s,
         IsStack(f, live, r, s), NEW p, Grows(f, g, live, s, p)
  PROVE  IsStack(g, live \cup {p}, r, Append(s, p))
  <1> USE DEF Grows
  <1>0. PICK n \in Nat : n = Len(s)
    BY DEF IsStack
  <1>1. PICK z : n = Len(s) /\ z = Append(s, p)
    BY <1>0
  <1>2. /\ s \in Seq(live) /\ n >= 1 /\ s[1] = r
        /\ f[r].parent_pid = None
        /\ \A i \in 1 .. n : Place(f, live, r, s, i)
    BY <1>1, StackPlaces DEF IsStack
  <1>3. /\ z \in Seq(live \cup {p}) /\ Len(z) = n + 1
        /\ \A i \in 1 .. n : z[i] = s[i]
        /\ z[n + 1] = p
    BY <1>1, <1>2
  <1>4. z[1] = r /\ g[r].parent_pid = None
    <2>1. 1 \in 1 .. n
      BY <1>2
    <2>2. r \in live
      BY <1>2, <2>1 DEF Place
    <2>3. QED
      BY <1>2, <1>3, <2>1, <2>2
  <1>5. ASSUME NEW i \in 1 .. n
        PROVE  g[z[i]].child_pcb = z[i + 1] /\ g[z[i + 1]].parent_pid = z[i]
    <2>1. CASE i = n
      BY <1>1, <1>3, <2>1
    <2>2. CASE i # n
      <3>1. i < n /\ i + 1 \in 1 .. n /\ i + 1 # 1 /\ (i + 1) - 1 = i
        BY <2>2
      <3>2. /\ s[i] \in live /\ s[i + 1] \in live /\ s[i + 1] # None
            /\ f[s[i]].child_pcb = s[i + 1] /\ f[s[i + 1]].parent_pid = s[i]
        BY <1>1, <1>2, <3>1 DEF Place
      <3>3. f[s[n]].child_pcb = None
        BY <1>1 DEF IsStack
      <3>4. s[i] # s[n]
        BY <3>2, <3>3
      <3>5. QED
        BY <1>1, <1>3, <3>1, <3>2, <3>4
    <2>3. QED
      BY <2>1, <2>2
  <1>6. n + 1 >= 1 /\ (n + 1) - 1 = n /\ g[z[n + 1]].child_pcb = None
    BY <1>3
  <1>7. IsStack(g, live \cup {p}, r, z)
    BY <1>3, <1>4, <1>5, <1>6 DEF IsStack
  <1>8. QED
    BY <1>1, <1>7

(* The end of a program p uncovers its caller. *)
Shrinks(f, g, live, s, p) ==
    /\ p = s[Len(s)] /\ f[p].parent_pid # None
    /\ \A q \in live : /\ g[q].parent_pid = f[q].parent_pid
                       /\ q # f[p].parent_pid => g[q].child_pcb = f[q].child_pcb
    /\ g[f[p].parent_pid].child_pcb = None

(* The stack is shorter by p. *)
LEMMA ShrinkStack ==
  ASSUME NEW f, NEW g, NEW live \in SUBSET Pids, NEW r, NEW s, NEW p,
         IsStack(f, live, r, s), Shrinks(f, g, live, s, p)
  PROVE  IsStack(g, live \ {p}, r, SubSeq(s, 1, Len(s) - 1))
  <1>0. PICK n \in Nat : n = Len(s)
    BY DEF IsStack
  <1>1. PICK z : n = Len(s) /\ z = SubSeq(s, 1, n - 1)
    BY <1>0
  <1>2. /\ s \in Seq(live) /\ n >= 1 /\ s[1] = r
        /\ f[r].parent_pid = None
        /\ \A i \in 1 .. n : Place(f, live, r, s, i)
    BY <1>1, StackPlaces DEF IsStack
  <1>3. n > 1 /\ s[n] = p /\ s[n - 1] = f[p].parent_pid
    <2>1. n \in 1 .. n
      BY <1>2
    <2>2. s[n] = p /\ f[p].parent_pid # None
      BY <1>1 DEF Shrinks
    <2>3. n # 1
      BY <1>2, <2>2
    <2>4. Place(f, live, r, s, n)
      BY <1>2, <2>1
    <2>5. s[n - 1] = f[p].parent_pid
      BY <2>2, <2>3, <2>4 DEF Place
    <2>6. n > 1
      BY <1>2, <2>3
    <2>7. QED
      BY <2>2, <2>5, <2>6
  <1>4. \A i \in 1 .. n - 1 : i \in 1 .. n /\ s[i] \in live /\ s[i] # p
    <2>1. SUFFICES ASSUME NEW i \in 1 .. n - 1
                   PROVE  i \in 1 .. n /\ s[i] \in live /\ s[i] # p
      OBVIOUS
    <2>2. i \in 1 .. n /\ n \in 1 .. n /\ i # n
      BY <1>2
    <2>3. s[i] # s[n]
      BY <1>1, <2>2, OnePlace
    <2>4. QED
      BY <1>2, <1>3, <2>2, <2>3 DEF Place
  <1>5. /\ z \in Seq(live \ {p}) /\ Len(z) = n - 1
        /\ \A i \in 1 .. n - 1 : z[i] = s[i]
    <2>1. n - 1 \in Nat /\ n - 1 <= Len(s)
      BY <1>1, <1>3
    <2>2. z = [i \in 1 .. n - 1 |-> s[i]]
      BY <1>1, <1>2, <2>1
    <2>3. QED
      BY <1>4, <2>1, <2>2
  <1>6. z[1] = r /\ g[r].parent_pid = None
    <2>1. 1 \in 1 .. n - 1
      BY <1>3
    <2>2. QED
      BY <1>2, <1>4, <1>5, <2>1 DEF Shrinks
  <1>7. ASSUME NEW i \in 1 .. (n - 1) - 1
        PROVE  g[z[i]].child_pcb = z[i + 1] /\ g[z[i + 1]].parent_pid = z[i]
    <2>1. /\ i \in 1 .. n - 1 /\ i + 1 \in 1 .. n - 1 /\ i < n /\ i + 1 # 1
          /\ (i + 1) - 1 = i /\ n - 1 \in 1 .. n /\ i # n - 1 /\ i \in 1 .. n
      BY <1>3
    <2>2. s[i] # s[n - 1]
      BY <1>1, <2>1, OnePlace
    <2>3. f[s[i]].child_pcb = s[i + 1] /\ f[s[i + 1]].parent_pid = s[i]
      BY <1>1, <1>2, <1>4, <2>1 DEF Place
    <2>4. /\ z[i] = s[i] /\ z[i + 1] = s[i + 1]
          /\ s[i] \in live /\ s[i + 1] \in live /\ s[i] # f[p].parent_pid
      BY <1>3, <1>4, <1>5, <2>1, <2>2
    <2>5. QED
      BY <2>3, <2>4 DEF Shrinks
  <1>8. n - 1 >= 1 /\ g[z[n - 1]].child_pcb = None
    <2>1. n - 1 \in 1 .. n - 1
      BY <1>3
    <2>2. QED
      BY <1>3, <1>5, <2>1 DEF Shrinks
  <1>9. IsStack(g, live \ {p}, r, z)
    BY <1>5, <1>6, <1>7, <1>8 DEF IsStack
  <1>10. QED
    BY <1>1, <1>9

=============================================================================
