-------------------------- MODULE KernelCalmProofs --------------------------
(***************************************************************************)
(* The safety properties of the process core, for any number of pids and   *)
(* terminals, when none of the situations of Env comes about.              *)
(***************************************************************************)
EXTENDS KernelProofs

-----------------------------------------------------------------------------
(* How the steps change the family tree *)

(* Overwriting a stack changes only saved contexts. *)
LEMMA WipeFields ==
  ASSUME NEW f \in [Pids -> Pcb], NEW s \in Owner, NEW q \in Pids
  PROVE  /\ Wipe(f, s)[q].pid = f[q].pid
         /\ Wipe(f, s)[q].parent_pid = f[q].parent_pid
         /\ Wipe(f, s)[q].parent_pcb = f[q].parent_pcb
         /\ Wipe(f, s)[q].child_pcb = f[q].child_pcb
         /\ Wipe(f, s)[q].child_return = f[q].child_return
         /\ Wipe(f, s)[q].ksp = Smash(f[q].ksp, s)
         /\ Wipe(f, s)[q].parent_ksp = Smash(f[q].parent_ksp, s)
  <1>1. PICK a, b : a = Smash(f[q].ksp, s) /\ b = Smash(f[q].parent_ksp, s)
    OBVIOUS
  <1>2. Wipe(f, s)[q] = [f[q] EXCEPT !.ksp = a, !.parent_ksp = b]
    BY <1>1 DEF Wipe
  <1>3. f[q] \in Pcb
    OBVIOUS
  <1>4. QED
    BY <1>1, <1>2, <1>3 DEF Pcb

(* A step that leaves the links and the terminals' shells alone. *)
SameTree ==
    /\ procs' = procs
    /\ \A q \in Pids : /\ pcb'[q].pid = pcb[q].pid
                       /\ pcb'[q].parent_pid = pcb[q].parent_pid
                       /\ pcb'[q].parent_pcb = pcb[q].parent_pcb
                       /\ pcb'[q].child_pcb = pcb[q].child_pcb
    /\ \A t \in Terms : /\ terminals'[t].pid = terminals[t].pid
                        /\ terminals'[t].running = terminals[t].running

(* A new shell p in terminal t. *)
AddsRoot(p, t) ==
    /\ terminals[t].running # 1
    /\ procs' = procs \cup {p}
    /\ \A q \in procs : /\ pcb'[q].pid = pcb[q].pid
                        /\ pcb'[q].parent_pid = pcb[q].parent_pid
                        /\ pcb'[q].parent_pcb = pcb[q].parent_pcb
                        /\ pcb'[q].child_pcb = pcb[q].child_pcb
    /\ pcb'[p].pid = p
    /\ pcb'[p].parent_pid = None
    /\ pcb'[p].parent_pcb = None
    /\ pcb'[p].child_pcb = None
    /\ \A u \in Terms \ {t} : /\ terminals'[u].pid = terminals[u].pid
                              /\ terminals'[u].running = terminals[u].running
    /\ terminals'[t].pid = p /\ terminals'[t].running = 1

(* A new child p of the leaf r. *)
AddsChild(p, r) ==
    /\ pcb[r].child_pcb = None
    /\ procs' = procs \cup {p}
    /\ \A q \in procs : /\ pcb'[q].pid = pcb[q].pid
                        /\ pcb'[q].parent_pid = pcb[q].parent_pid
                        /\ pcb'[q].parent_pcb = pcb[q].parent_pcb
                        /\ q # r => pcb'[q].child_pcb = pcb[q].child_pcb
    /\ pcb'[r].child_pcb = p
    /\ pcb'[p].pid = p
    /\ pcb'[p].parent_pid = r
    /\ pcb'[p].parent_pcb = r
    /\ pcb'[p].child_pcb = None
    /\ \A u \in Terms : /\ terminals'[u].pid = terminals[u].pid
                        /\ terminals'[u].running = terminals[u].running

(* The leaf p, a child of r, is gone. *)
DropsLeaf(p, r) ==
    /\ pcb[p].child_pcb = None /\ pcb[p].parent_pid = r
    /\ procs' = procs \ {p}
    /\ \A q \in procs : /\ pcb'[q].pid = pcb[q].pid
                        /\ pcb'[q].parent_pid = pcb[q].parent_pid
                        /\ pcb'[q].parent_pcb = pcb[q].parent_pcb
                        /\ q # r => pcb'[q].child_pcb = pcb[q].child_pcb
    /\ pcb'[r].child_pcb = None
    /\ \A u \in Terms : /\ terminals'[u].pid = terminals[u].pid
                        /\ terminals'[u].running = terminals[u].running

(***************************************************************************)
(* What a step does to the programs: nothing; the executing one is         *)
(* interrupted for another terminal; the scheduler enters a leaf; the      *)
(* executing one calls a program; a terminal gets a shell; the executing   *)
(* one ends.                                                               *)
(***************************************************************************)
On == IF cpu.at \in {"descend", "switch"} THEN None ELSE cpu.proc

Moves ==
    \/ SameTree /\ On' = On
    \/ SameTree /\ Executing /\ On' = None
    \/ /\ SameTree /\ On = None
       /\ running_pid \in procs /\ pcb[running_pid].child_pcb = None
       /\ On' = running_pid
    \/ /\ Executing
       /\ \E p \in Pids \ procs : AddsChild(p, cpu.proc) /\ On' = p
    \/ \E p \in Pids \ procs, t \in Terms : AddsRoot(p, t) /\ On' = p
    \/ /\ Executing
       /\ \E r \in procs : DropsLeaf(cpu.proc, r) /\ On' = r

(* A step of the first kind keeps the forest. *)
LEMMA KeepTree ==
  ASSUME TypeOK, FamilyTree, SameTree
  PROVE  FamilyTree'
  <1>1. procs \subseteq Pids
    BY DEF TypeOK
  <1>2. Links'
    <2>1. \A p \in procs :
            /\ pcb[p].parent_pid # None => pcb[p].parent_pid \in procs
            /\ pcb[p].child_pcb # None => pcb[p].child_pcb \in procs
      BY DEF FamilyTree, Links
    <2>2. QED
      BY <1>1, <2>1 DEF FamilyTree, SameTree, Links
  <1>3. Roots'
    <2>1. \A t \in Terms : terminals[t].running = 1 => terminals[t].pid \in procs
      BY DEF FamilyTree, Roots
    <2>2. QED
      BY <1>1, <2>1 DEF FamilyTree, SameTree, Roots
  <1>4. Acyclic'
    BY <1>1 DEF FamilyTree, SameTree, Acyclic
  <1>5. QED
    BY <1>2, <1>3, <1>4 DEF FamilyTree

(* So does a new shell. *)
LEMMA AddRoot ==
  ASSUME TypeOK, FamilyTree, NEW p \in Pids \ procs, NEW t \in Terms, AddsRoot(p, t)
  PROVE  FamilyTree'
  <1> USE DEF AddsRoot
  <1>1. procs \subseteq Pids /\ p \notin procs /\ None \notin Pids
    BY Zero DEF TypeOK
  <1>2. Links'
    <2>1. \A q \in procs :
            /\ pcb[q].parent_pid # None => pcb[q].parent_pid \in procs
            /\ pcb[q].child_pcb # None => pcb[q].child_pcb \in procs
      BY DEF FamilyTree, Links
    <2>2. QED
      BY <1>1, <2>1 DEF FamilyTree, Links
  <1>3. Roots'
    <2>1. \A u \in Terms : terminals[u].running = 1 => terminals[u].pid \in procs
      BY DEF FamilyTree, Roots
    <2>2. QED
      BY <1>1, <2>1 DEF FamilyTree, Roots
  <1>4. Acyclic'
    <2>1. SUFFICES ASSUME NEW family \in SUBSET procs', family # {}
                   PROVE  \E q \in family : pcb'[q].parent_pid \notin family
      BY DEF Acyclic
    <2>2. CASE p \in family
      BY <1>1, <2>2
    <2>3. CASE p \notin family
      BY <2>1, <2>3 DEF FamilyTree, Acyclic
    <2>4. QED
      BY <2>2, <2>3
  <1>5. QED
    BY <1>2, <1>3, <1>4 DEF FamilyTree

(* So does a new child. *)
LEMMA AddChild ==
  ASSUME TypeOK, FamilyTree, NEW p \in Pids \ procs, NEW r \in procs, AddsChild(p, r)
  PROVE  FamilyTree'
  <1> USE DEF AddsChild
  <1>1. procs \subseteq Pids /\ p \notin procs /\ None \notin Pids
    BY Zero DEF TypeOK
  <1>2. \A q \in procs :
          /\ pcb[q].parent_pid # None => pcb[q].parent_pid \in procs
          /\ pcb[q].child_pcb # None => pcb[q].child_pcb \in procs
    BY DEF FamilyTree, Links
  <1>3. Links'
    <2>1. \A q \in procs : pcb[q].parent_pid # r
      BY <1>1 DEF FamilyTree, Links
    <2>2. QED
      BY <1>1, <1>2, <2>1 DEF FamilyTree, Links
  <1>4. Roots'
    <2>1. \A u \in Terms : terminals[u].running = 1 => terminals[u].pid \in procs
      BY DEF FamilyTree, Roots
    <2>2. QED
      BY <1>1, <2>1 DEF FamilyTree, Roots
  <1>5. Acyclic'
    <2>1. SUFFICES ASSUME NEW family \in SUBSET procs', family # {}
                   PROVE  \E q \in family : pcb'[q].parent_pid \notin family
      BY DEF Acyclic
    <2>2. CASE family \ {p} = {}
      BY <1>1, <2>1, <2>2
    <2>3. CASE family \ {p} # {}
      <3>1. PICK q \in family \ {p} : pcb[q].parent_pid \notin family \ {p}
        BY <2>1, <2>3 DEF FamilyTree, Acyclic
      <3>2. q \in procs /\ pcb[q].parent_pid # p
        BY <1>1, <1>2, <3>1
      <3>3. QED
        BY <3>1, <3>2
    <2>4. QED
      BY <2>2, <2>3
  <1>6. QED
    BY <1>3, <1>4, <1>5 DEF FamilyTree

(* So does the end of a leaf. *)
LEMMA DropLeaf ==
  ASSUME TypeOK, FamilyTree, NEW p \in procs, NEW r \in procs, DropsLeaf(p, r)
  PROVE  FamilyTree'
  <1> USE DEF DropsLeaf
  <1>1. procs \subseteq Pids /\ None \notin Pids
    BY Zero DEF TypeOK
  <1>2. \A q \in procs :
          /\ pcb[q].parent_pid # None => pcb[q].parent_pid \in procs
          /\ pcb[q].child_pcb # None => pcb[q].child_pcb \in procs
          /\ pcb[q].parent_pid # p
          /\ q # r => pcb[q].child_pcb # p
          /\ q # p => pcb[q].parent_pid # r
    BY <1>1 DEF FamilyTree, Links
  <1>3. Links'
    BY <1>1, <1>2 DEF FamilyTree, Links
  <1>4. Roots'
    <2>1. \A u \in Terms : terminals[u].running = 1 =>
            terminals[u].pid \in procs \ {p}
      BY <1>1 DEF FamilyTree, Roots
    <2>2. QED
      BY <1>1, <2>1 DEF FamilyTree, Roots
  <1>5. Acyclic'
    BY DEF FamilyTree, Acyclic
  <1>6. QED
    BY <1>3, <1>4, <1>5 DEF FamilyTree

(* Every process finds its terminal: a family without one would contain a  *)
(* process whose parent is outside it, and a shell has a terminal.         *)
LEMMA FindsTerminal ==
  ASSUME TypeOK, FamilyTree, NEW p \in procs
  PROVE  HasTerminal(p)
  <1>1. SUFFICES ASSUME NEW family \in SUBSET Pids, p \in family,
                        \A q \in family : pcb[q].parent_pid \in family \cup {None}
                 PROVE  family \cap TerminalPids # {}
    BY DEF HasTerminal
  <1>2. family \cap procs # {}
    BY <1>1
  <1>3. PICK q \in family \cap procs : pcb[q].parent_pid \notin family \cap procs
    BY <1>2 DEF FamilyTree, Acyclic
  <1>4. pcb[q].parent_pid = None
    BY <1>1, <1>3 DEF FamilyTree, Links
  <1>5. PICK t \in Terms : terminals[t].pid = q
    BY <1>3, <1>4 DEF FamilyTree, Roots
  <1>6. q \in TerminalPids
    BY <1>5 DEF TerminalPids
  <1>7. QED
    BY <1>3, <1>6

-----------------------------------------------------------------------------
(* Saved contexts *)

Inv == TypeOK /\ RunningPrefix /\ ScheduleNotEmpty /\ CalmInv

(* Where process p may be saved. *)
Own(f, p) ==
    \/ f[p].ksp = Context(p, p, "user")
    \/ f[p].ksp = Context(p, f[p].parent_pid, "enter") /\ f[p].parent_pid # None

(* Frames pushed on the stack of e harm no process but e and its child. *)
LEMMA SmashOther ==
  ASSUME NEW a, NEW b, NEW c, NEW e, b # e
  PROVE  Smash(Context(a, b, c), e) = Context(a, b, c)
  BY DEF Smash, Context

(* The parent of p waits in execute, where p left it. *)
Waits(f, p) ==
    f[p].parent_pid # None =>
      f[p].parent_ksp = Context(f[p].parent_pid, f[p].parent_pid, "user")

(* When process e, which has no child, continues in user mode, what the    *)
(* others have saved stays intact.                                         *)
LEMMA WipeSaved ==
  ASSUME NEW f \in [Pids -> Pcb], NEW live \in SUBSET Pids, NEW e \in live,
         \A p \in live : f[p].parent_pid # e,
         \A p \in live : p # e /\ f[p].child_pcb = None => Own(f, p),
         \A p \in live : Waits(f, p)
  PROVE  \A p \in live :
           /\ p # e /\ Wipe(f, e)[p].child_pcb = None => Own(Wipe(f, e), p)
           /\ Waits(Wipe(f, e), p)
  <1>1. e \in Owner
    BY DEF Owner
  <1>2. SUFFICES ASSUME NEW p \in live
                 PROVE  /\ p # e /\ Wipe(f, e)[p].child_pcb = None
                             => Own(Wipe(f, e), p)
                        /\ Waits(Wipe(f, e), p)
    OBVIOUS
  <1>3. /\ Wipe(f, e)[p].parent_pid = f[p].parent_pid
        /\ Wipe(f, e)[p].child_pcb = f[p].child_pcb
        /\ Wipe(f, e)[p].ksp = Smash(f[p].ksp, e)
        /\ Wipe(f, e)[p].parent_ksp = Smash(f[p].parent_ksp, e)
    BY <1>1, WipeFields
  <1>4. QED
    BY <1>3, SmashOther DEF Own, Waits

(* SavedInv in terms of Own. *)
LEMMA SavedInvOwn ==
  SavedInv <=>
    \A p \in procs :
      /\ pcb[p].child_pcb = None /\ ~(Executing /\ p = cpu.proc) => Own(pcb, p)
      /\ Waits(pcb, p)
  BY DEF SavedInv, Own, Waits

(* Resuming a context in user mode, and just before. *)
LEMMA ResumeUser ==
  ASSUME NEW a, NEW b, NEW f, NEW e, Resume(Context(a, b, "user"), f, e)
  PROVE  pcb' = Wipe(f, e) /\ cpu' = Context(a, e, "user")
  BY DEF Resume, Context

(* Resuming execute in its window, on the stack of the parent. *)
LEMMA ResumeEnter ==
  ASSUME NEW a, NEW b, NEW f, NEW e, Resume(Context(a, b, "enter"), f, e)
  PROVE  pcb' = f /\ cpu' = Context(a, b, "enter")
  BY DEF Resume, Context

(* The PCBs after execute started a shell, and after it started a child of *)
(* the running process.                                                    *)
LEMMA LinkedRoot ==
  ASSUME NEW f \in [Pids -> Pcb], NEW p \in Pids, NEW caller, NEW g,
         NEW a, a = p, g = Linked(f, p, caller, a = p)
  PROVE  /\ \A q \in Pids \ {p} : g[q] = f[q]
         /\ g[p].pid = p
         /\ g[p].parent_pid = None
         /\ g[p].parent_pcb = None
         /\ g[p].child_pcb = None
         /\ g[p].child_return = f[p].child_return
  <1>1. f[p] \in Pcb
    OBVIOUS
  <1>2. PICK n : n = NewPcb(f, p, caller, a = p)
    OBVIOUS
  <1>3. /\ n.pid = p /\ n.parent_pid = None /\ n.parent_pcb = None
        /\ n.child_pcb = None /\ n.child_return = f[p].child_return
    BY <1>1, <1>2 DEF NewPcb, Pcb
  <1>4. g = [f EXCEPT ![p] = n]
    BY <1>2 DEF Linked
  <1>5. QED
    BY <1>3, <1>4

(* The same for a child of the running process r. *)
LEMMA LinkedChild ==
  ASSUME NEW f \in [Pids -> Pcb], NEW p \in Pids, NEW caller, NEW g,
         NEW r \in Pids, r = running_pid, r # p,
         NEW a, a # p, g = Linked(f, p, caller, a = p)
  PROVE  /\ \A q \in Pids \ {p, r} : g[q] = f[q]
         /\ g[r] = [f[r] EXCEPT !.child_pcb = p]
         /\ g[p].pid = p
         /\ g[p].parent_pid = f[r].pid
         /\ g[p].parent_pcb = r
         /\ g[p].parent_ksp = caller
         /\ g[p].child_pcb = None
         /\ g[p].child_return = f[p].child_return
  <1>1. f[p] \in Pcb
    OBVIOUS
  <1>2. PICK n : n = NewPcb(f, p, caller, a = p)
    OBVIOUS
  <1>3. /\ n.pid = p /\ n.parent_pid = f[r].pid
        /\ n.parent_pcb = r /\ n.parent_ksp = caller
        /\ n.child_pcb = None /\ n.child_return = f[p].child_return
    BY <1>1, <1>2 DEF NewPcb, Pcb
  <1>4. g = [[f EXCEPT ![p] = n] EXCEPT ![r].child_pcb = p]
    BY <1>2 DEF Linked
  <1>5. QED
    BY <1>3, <1>4

(* A process with no child is nobody's parent. *)
LEMMA LeafHasNoChild ==
  ASSUME TypeOK, FamilyTree, NEW e \in procs, pcb[e].child_pcb = None
  PROVE  \A p \in procs : pcb[p].parent_pid # e
  BY Zero DEF TypeOK, FamilyTree, Links

-----------------------------------------------------------------------------
(* One lemma per action *)

(* Entering the new program: its own stack is empty from now on, and       *)
(* nothing was parked there.                                               *)
LEMMA UspaceCalm == ASSUME Inv, Uspace PROVE CalmInv' /\ Moves
  <1> USE DEF screen, mmu
  <1> DEFINE c == cpu.proc
  <1>1. /\ c \in procs /\ c \in Pids /\ running_pid = c /\ esp0 = c /\ cr3 = c
        /\ pcb[c].child_pcb = None
        /\ pcb \in [Pids -> Pcb] /\ procs \in SUBSET Pids /\ c \in Owner
    BY DEF Inv, TypeOK, CalmInv, CpuInv, Executing, Uspace, Owner
  <1>2. pcb' = Wipe(pcb, c) /\ cpu' = Context(c, c, "user")
    BY <1>1 DEF Uspace, Resume, Inv, TypeOK, Contexts, Context
  <1>3. SameTree
    BY <1>1, <1>2, WipeFields DEF SameTree, Uspace
  <1>4. FamilyTree'
    BY <1>3, KeepTree DEF Inv, CalmInv
  <1>5. CpuInv'
    BY <1>1, <1>2, <1>3 DEF CpuInv, Executing, Uspace, Context, SameTree
  <1>6. SavedInv'
    <2>1. \A p \in procs : pcb[p].parent_pid # c
      BY <1>1, LeafHasNoChild DEF Inv, CalmInv
    <2>2. \A p \in procs : /\ p # c /\ pcb[p].child_pcb = None => Own(pcb, p)
                           /\ Waits(pcb, p)
      BY SavedInvOwn DEF Inv, CalmInv
    <2>3. \A p \in procs : /\ p # c /\ pcb'[p].child_pcb = None => Own(pcb', p)
                           /\ Waits(pcb', p)
      BY <1>1, <1>2, <2>1, <2>2, WipeSaved
    <2>4. Executing' /\ cpu'.proc = c /\ procs' = procs
      BY <1>2 DEF Executing, Context, Uspace
    <2>5. QED
      BY <2>3, <2>4 DEF SavedInv, Own, Waits
  <1>7. DisplayInv'
    BY DEF Inv, CalmInv, DisplayInv, Uspace
  <1>8. FlagInv' /\ procs' \subseteq elf_page'
    BY <1>1, <1>2, WipeFields DEF Inv, CalmInv, FlagInv, Uspace
  <1>9. Moves
    BY <1>2, <1>3 DEF Moves, On, Context, Uspace
  <1>10. QED
    BY <1>4, <1>5, <1>6, <1>7, <1>8, <1>9 DEF CalmInv

(* irqh_pit resumes the leaf it found where that leaf was interrupted. *)
LEMMA SwitchStackCalm == ASSUME Inv, SwitchStack PROVE CalmInv' /\ Moves
  <1> USE DEF screen, mmu
  <1> DEFINE c == running_pid
  <1>1. /\ c \in procs /\ c \in Pids /\ esp0 = c /\ cr3 = c
        /\ pcb[c].child_pcb = None /\ ~Executing
        /\ pcb \in [Pids -> Pcb] /\ procs \in SUBSET Pids /\ c \in Owner
    BY DEF Inv, TypeOK, CalmInv, CpuInv, Executing, SwitchStack, Owner
  <1>2. \A p \in procs : /\ pcb[p].child_pcb = None => Own(pcb, p)
                         /\ Waits(pcb, p)
    BY <1>1, SavedInvOwn DEF Inv, CalmInv
  <1>3. \/ pcb' = Wipe(pcb, c) /\ cpu' = Context(c, c, "user")
        \/ /\ pcb' = pcb /\ cpu' = Context(c, pcb[c].parent_pid, "enter")
           /\ pcb[c].parent_pid # None
    <2>1. Own(pcb, c) /\ Resume(pcb[c].ksp, pcb, c)
      BY <1>1, <1>2 DEF SwitchStack
    <2>2. QED
      BY <2>1, ResumeUser, ResumeEnter DEF Own
  <1>4. SameTree
    BY <1>1, <1>3, WipeFields DEF SameTree, SwitchStack
  <1>5. FamilyTree'
    BY <1>4, KeepTree DEF Inv, CalmInv
  <1>6. CpuInv'
    BY <1>1, <1>3, <1>4 DEF CpuInv, Executing, SwitchStack, Context, SameTree
  <1>7. SavedInv'
    <2>1. \A p \in procs : pcb[p].parent_pid # c
      BY <1>1, LeafHasNoChild DEF Inv, CalmInv
    <2>2. \A p \in procs : /\ p # c /\ pcb'[p].child_pcb = None => Own(pcb', p)
                           /\ Waits(pcb', p)
      BY <1>1, <1>2, <1>3, <2>1, WipeSaved
    <2>3. Executing' /\ cpu'.proc = c /\ procs' = procs
      BY <1>3 DEF Executing, Context, SwitchStack
    <2>4. QED
      BY <2>2, <2>3 DEF SavedInv, Own, Waits
  <1>8. DisplayInv'
    BY DEF Inv, CalmInv, DisplayInv, SwitchStack
  <1>9. FlagInv' /\ procs' \subseteq elf_page'
    BY <1>1, <1>3, WipeFields DEF Inv, CalmInv, FlagInv, SwitchStack
  <1>10. Moves
    BY <1>1, <1>3, <1>4 DEF Moves, On, Context, SwitchStack
  <1>11. QED
    BY <1>5, <1>6, <1>7, <1>8, <1>9, <1>10 DEF CalmInv

(* The walk of irqh_pit stays among the living, and ends at a leaf. *)
LEMMA DescendCalm == ASSUME Inv, Descend \/ Dispatch PROVE CalmInv' /\ Moves
  <1> USE DEF screen, mmu, tables
  <1>1. UNCHANGED <<procs, pcb, terminals>>
    BY DEF Descend, Dispatch
  <1>2. FamilyTree'
    BY <1>1, KeepTree DEF SameTree, Inv, CalmInv
  <1>3. /\ next_pcb \in procs /\ ~Executing
        /\ pcb[next_pcb].pid = next_pcb
        /\ pcb[next_pcb].child_pcb # None => pcb[next_pcb].child_pcb \in procs
    BY DEF Inv, CalmInv, FamilyTree, Links, CpuInv, Executing, Descend, Dispatch
  <1>4. CpuInv'
    <2>1. CASE Descend
      BY <1>1, <1>3, <2>1 DEF Inv, CalmInv, CpuInv, Executing, Descend
    <2>2. CASE Dispatch
      BY <1>1, <1>3, <2>2 DEF Inv, TypeOK, Contexts, CpuInv, Executing, Dispatch
    <2>3. QED
      BY <2>1, <2>2
  <1>5. ~Executing'
    BY DEF Inv, TypeOK, Contexts, Executing, Descend, Dispatch
  <1>6. SavedInv' /\ DisplayInv' /\ FlagInv' /\ procs' \subseteq elf_page'
    BY <1>1, <1>3, <1>5
       DEF Inv, CalmInv, SavedInv, DisplayInv, FlagInv, Descend, Dispatch
  <1>7. On' = On
    BY DEF On, Inv, TypeOK, Contexts, Descend, Dispatch
  <1>8. QED
    BY <1>1, <1>2, <1>4, <1>6, <1>7 DEF CalmInv, Moves, SameTree

(* Alt+Fn only asks for a switch, and not while a shell is awaited. *)
LEMMA AltFnCalm ==
  ASSUME Inv, Env = {}, NEW t \in Terms, AltFn(t) PROVE CalmInv' /\ Moves
  <1> USE DEF screen, mmu, tables
  <1>1. UNCHANGED <<procs, pcb, terminals>>
    BY DEF AltFn
  <1>2. FamilyTree'
    BY <1>1, KeepTree DEF SameTree, Inv, CalmInv
  <1>3. CpuInv' /\ SavedInv' /\ FlagInv' /\ procs' \subseteq elf_page'
    BY DEF Inv, CalmInv, CpuInv, Executing, SavedInv, FlagInv, AltFn
  <1>4. DisplayInv'
    BY DEF Inv, CalmInv, DisplayInv, AltFn
  <1>5. Moves
    BY <1>1 DEF Moves, SameTree, On, AltFn
  <1>6. QED
    BY <1>2, <1>3, <1>4, <1>5 DEF CalmInv

(* execute adds a leaf below its caller, which waits on its own stack. *)
LEMMA ExecuteCalm == ASSUME Inv, Env = {}, Execute PROVE CalmInv' /\ Moves
  <1> USE DEF screen
  <1> DEFINE r == running_pid
  <1>1. /\ cpu.at = "user" /\ cpu.proc = r /\ cpu = Context(r, r, "user")
        /\ r \in procs /\ r \in Pids /\ pcb[r].child_pcb = None
        /\ terminals[current_terminal].running = 1
        /\ pcb \in [Pids -> Pcb] /\ procs \in SUBSET Pids
        /\ terminals \in [Terms -> Terminal] /\ current_terminal \in Terms
    BY DEF Inv, TypeOK, CalmInv, CpuInv, Executing, Execute, Contexts, Context
  <1>2. PICK p \in Pids :
          /\ FirstFree(procs, p)
          /\ Create(p, procs, pcb, terminals, current_terminal, cpu, "enter")
    BY DEF Execute
  <1>3. p \in Pids \ procs /\ p # r
    BY <1>1, <1>2 DEF FirstFree
  <1>4. /\ procs' = procs \cup {p} /\ running_pid' = p /\ esp0' = p /\ cr3' = p
        /\ elf_page' = elf_page \cup {p} /\ cpu' = Context(p, r, "enter")
        /\ terminals' = terminals
        /\ pcb' = Linked(pcb, p, cpu, terminals[current_terminal].pid = p)
    BY <1>1, <1>2 DEF Create, Context
  <1>5. terminals[current_terminal].pid # p
    BY <1>1, <1>3 DEF Inv, CalmInv, FamilyTree, Roots
  <1>6. /\ \A q \in Pids \ {p, r} : pcb'[q] = pcb[q]
        /\ pcb'[r] = [pcb[r] EXCEPT !.child_pcb = p]
        /\ pcb'[p].pid = p
        /\ pcb'[p].parent_pid = pcb[r].pid
        /\ pcb'[p].parent_pcb = r
        /\ pcb'[p].parent_ksp = cpu
        /\ pcb'[p].child_pcb = None
        /\ pcb'[p].child_return = pcb[p].child_return
    BY <1>1, <1>3, <1>4, <1>5, LinkedChild
  <1>7. pcb[r].pid = r
    BY <1>1 DEF Inv, CalmInv, FamilyTree, Links
  <1>8. /\ pcb'[r].child_pcb = p
        /\ \A q \in procs :
             /\ pcb'[q].pid = pcb[q].pid
             /\ pcb'[q].parent_pid = pcb[q].parent_pid
             /\ pcb'[q].parent_pcb = pcb[q].parent_pcb
             /\ pcb'[q].ksp = pcb[q].ksp
             /\ pcb'[q].parent_ksp = pcb[q].parent_ksp
             /\ q # r => pcb'[q].child_pcb = pcb[q].child_pcb
        /\ \A q \in Pids : pcb'[q].child_return = pcb[q].child_return
    BY <1>1, <1>3, <1>6 DEF Pcb
  <1>9. AddsChild(p, r) /\ FamilyTree'
    <2>1. AddsChild(p, r)
      BY <1>1, <1>3, <1>4, <1>6, <1>7, <1>8 DEF AddsChild
    <2>2. QED
      BY <1>1, <1>3, <2>1, AddChild DEF Inv, CalmInv
  <1>10. CpuInv'
    <2>1. r # None
      BY <1>1, Zero
    <2>2. QED
      BY <1>4, <1>6, <1>7, <2>1 DEF CpuInv, Executing, Context
  <1>11. SavedInv'
    <2>1. \A q \in procs : /\ q # r /\ pcb[q].child_pcb = None => Own(pcb, q)
                           /\ Waits(pcb, q)
      BY <1>1, SavedInvOwn DEF Inv, CalmInv
    <2>2. \A q \in procs : /\ pcb'[q].child_pcb = None => Own(pcb', q)
                           /\ Waits(pcb', q)
      BY <1>1, <1>3, <1>8, <2>1, Zero DEF Own, Waits
    <2>3. Waits(pcb', p)
      BY <1>1, <1>6, <1>7 DEF Waits
    <2>4. Executing' /\ cpu'.proc = p
      BY <1>4 DEF Executing, Context
    <2>5. QED
      BY <1>4, <2>2, <2>3, <2>4 DEF SavedInv, Own, Waits
  <1>12. DisplayInv' /\ FlagInv' /\ procs' \subseteq elf_page'
    BY <1>4, <1>8 DEF Inv, CalmInv, DisplayInv, FlagInv, Execute
  <1>13. Moves
    BY <1>1, <1>3, <1>4, <1>9 DEF Moves, On, Executing, Context
  <1>14. QED
    BY <1>9, <1>10, <1>11, <1>12, <1>13 DEF CalmInv

(* halt removes a leaf and returns to the parent's call of execute. *)
LEMMA HaltChildCalm ==
  ASSUME Inv, cpu.at = "user", NEW flag \in {0, 1}, NEW status \in {0, 1},
         flag = 1 \/ status = 0, HaltChild(Unlinked, flag, status)
  PROVE  /\ CalmInv' /\ Moves
         /\ procs' = procs \ {cpu.proc}
         /\ cpu' = Context(pcb[cpu.proc].parent_pid, pcb[cpu.proc].parent_pid, "user")
  <1> USE DEF screen
  <1>0. PICK p, r, value, u, f, live :
          /\ p = running_pid /\ r = pcb[p].parent_pid
          /\ value = ReturnValue(flag, status)
          /\ u = Unlinked /\ f = [u EXCEPT ![p].child_return = value]
          /\ live = procs \ {p}
    OBVIOUS
  <1>1. /\ p \in procs /\ p \in Pids /\ p = cpu.proc /\ pcb[p].child_pcb = None
        /\ pcb \in [Pids -> Pcb] /\ procs \in SUBSET Pids /\ Executing
    BY <1>0 DEF Inv, TypeOK, CalmInv, CpuInv, Executing
  <1>2. u \in [Pids -> Pcb]
    BY <1>0, UnlinkedType DEF Inv
  <1>3. /\ \A q \in Pids : /\ u[q].pid = pcb[q].pid
                           /\ u[q].parent_pid = pcb[q].parent_pid
                           /\ u[q].parent_pcb = pcb[q].parent_pcb
                           /\ u[q].ksp = pcb[q].ksp
                           /\ u[q].parent_ksp = pcb[q].parent_ksp
                           /\ u[q].child_return = pcb[q].child_return
                           /\ q # pcb[p].parent_pcb =>
                                u[q].child_pcb = pcb[q].child_pcb
        /\ pcb[p].parent_pcb \in Pids => u[pcb[p].parent_pcb].child_pcb = None
    <2>1. CASE pcb[p].parent_pcb = None
      BY <1>0, <1>1, <2>1, Zero DEF Unlinked
    <2>2. CASE pcb[p].parent_pcb # None
      <3>1. PICK k : k = pcb[p].parent_pcb
        OBVIOUS
      <3>2. k \in Pids /\ u = [pcb EXCEPT ![k].child_pcb = None]
        BY <1>0, <1>1, <2>2, <3>1 DEF Unlinked, Pcb, Owner
      <3>3. \A q \in Pids : pcb[q] \in Pcb
        BY <1>1
      <3>4. QED
        BY <3>1, <3>2, <3>3, <1>1 DEF Pcb
    <2>3. QED
      BY <2>1, <2>2
  <1>4. r # None
    BY <1>0, <1>1, <1>3 DEF HaltChild
  <1>5. /\ r \in procs /\ r \in Pids /\ pcb[r].pid = r /\ pcb[p].pid = p
        /\ pcb[p].parent_pcb = r /\ pcb[r].child_pcb = p
    BY <1>0, <1>1, <1>4 DEF Inv, CalmInv, FamilyTree, Links
  <1>6. r # p
    BY <1>1, <1>5, Zero
  <1>7. /\ procs' = live /\ running_pid' = r /\ esp0' = r /\ cr3' = r
        /\ elf_page' = elf_page \ {p} /\ program_exception_occured' = 0
        /\ UNCHANGED <<terminals, current_terminal, terminal_to_switch_to>>
        /\ Resume(pcb[p].parent_ksp, f, r)
    <2>1. u[p].parent_pid = r /\ u[p].pid = p /\ u[r].pid = r
          /\ u[p].parent_ksp = pcb[p].parent_ksp
      BY <1>0, <1>1, <1>3, <1>5
    <2>2. QED
      BY <1>0, <2>1 DEF HaltChild
  <1>8. /\ \A q \in Pids : /\ f[q].pid = pcb[q].pid
                           /\ f[q].parent_pid = pcb[q].parent_pid
                           /\ f[q].parent_pcb = pcb[q].parent_pcb
                           /\ f[q].ksp = pcb[q].ksp
                           /\ f[q].parent_ksp = pcb[q].parent_ksp
                           /\ f[q].child_return \in {pcb[q].child_return, value}
                           /\ q # r => f[q].child_pcb = pcb[q].child_pcb
        /\ f[r].child_pcb = None
        /\ f \in [Pids -> Pcb]
    <2>1. \A q \in Pids : /\ f[q].pid = u[q].pid
                          /\ f[q].parent_pid = u[q].parent_pid
                          /\ f[q].parent_pcb = u[q].parent_pcb
                          /\ f[q].ksp = u[q].ksp
                          /\ f[q].parent_ksp = u[q].parent_ksp
                          /\ f[q].child_pcb = u[q].child_pcb
                          /\ f[q].child_return \in {u[q].child_return, value}
      BY <1>0, <1>1, <1>2 DEF Pcb
    <2>2. f \in [Pids -> Pcb]
      BY <1>0, <1>1, <1>2 DEF Pcb, ReturnValue, PROCESS_KILLED_BY_EXCEPTION
    <2>3. QED
      BY <1>3, <1>5, <2>1, <2>2
  <1>9. \A q \in procs : /\ q # p /\ pcb[q].child_pcb = None => Own(pcb, q)
                         /\ Waits(pcb, q)
    BY <1>1, SavedInvOwn DEF Inv, CalmInv
  <1>10. pcb[p].parent_ksp = Context(r, r, "user")
    BY <1>0, <1>1, <1>4, <1>9 DEF Waits
  <1>11. pcb' = Wipe(f, r) /\ cpu' = Context(r, r, "user")
    BY <1>7, <1>10, ResumeUser
  <1>12. /\ \A q \in Pids : /\ pcb'[q].pid = pcb[q].pid
                            /\ pcb'[q].parent_pid = pcb[q].parent_pid
                            /\ pcb'[q].parent_pcb = pcb[q].parent_pcb
                            /\ pcb'[q].child_return \in {pcb[q].child_return, value}
                            /\ q # r => pcb'[q].child_pcb = pcb[q].child_pcb
         /\ pcb'[r].child_pcb = None
    <2>1. r \in Owner
      BY <1>5 DEF Owner
    <2>2. QED
      BY <1>5, <1>8, <1>11, <2>1, WipeFields
  <1>13. DropsLeaf(p, r) /\ FamilyTree'
    <2>1. procs' = procs \ {p} /\ \A q \in procs : q \in Pids
      BY <1>0, <1>1, <1>7
    <2>2. pcb[p].parent_pid = r
      BY <1>0
    <2>3. TypeOK /\ FamilyTree
      BY DEF Inv, CalmInv
    <2>4. DropsLeaf(p, r)
      BY <1>1, <1>7, <1>12, <2>1, <2>2 DEF DropsLeaf
    <2>5. QED
      BY <1>1, <1>5, <2>3, <2>4, DropLeaf
  <1>14. CpuInv'
    BY <1>0, <1>5, <1>6, <1>7, <1>11, <1>12 DEF CpuInv, Executing, Context
  <1>15. SavedInv'
    <2>1. \A q \in live : f[q].parent_pid # r
      <3>1. \A q \in procs : pcb[q].parent_pid # None =>
                               pcb[pcb[q].parent_pid].child_pcb = q
        BY DEF Inv, CalmInv, FamilyTree, Links
      <3>2. QED
        BY <1>0, <1>1, <1>4, <1>5, <1>8, <3>1
    <2>2. \A q \in live : /\ q # r /\ f[q].child_pcb = None => Own(f, q)
                          /\ Waits(f, q)
      BY <1>0, <1>1, <1>8, <1>9 DEF Own, Waits
    <2>3. live \in SUBSET Pids /\ r \in live
      BY <1>0, <1>1, <1>5, <1>6
    <2>4. \A q \in live :
            /\ q # r /\ pcb'[q].child_pcb = None => Own(pcb', q)
            /\ Waits(pcb', q)
      BY <1>8, <1>11, <2>1, <2>2, <2>3, WipeSaved
    <2>5. Executing' /\ cpu'.proc = r
      BY <1>11 DEF Executing, Context
    <2>6. QED
      BY <1>7, <2>4, <2>5 DEF SavedInv, Own, Waits
  <1>16. DisplayInv' /\ procs' \subseteq elf_page'
    BY <1>0, <1>7 DEF Inv, CalmInv, DisplayInv
  <1>17. FlagInv'
    BY <1>7 DEF FlagInv
  <1>18. Moves
    BY <1>1, <1>5, <1>11, <1>13 DEF Moves, On, Context
  <1>19. QED
    BY <1>0, <1>1, <1>7, <1>11, <1>13, <1>14, <1>15, <1>16, <1>17, <1>18 DEF CalmInv

(* Halting the displayed shell of terminal 0 starts it again, with its pid *)
(* and in its place.                                                       *)
LEMMA HaltRootCalm ==
  ASSUME Inv, Env = {}, cpu.at = "user", HaltRoot(Unlinked, 0)
  PROVE  CalmInv' /\ Moves /\ procs' = procs
  <1> USE DEF screen
  <1>1. PICK p : p = running_pid
    OBVIOUS
  <1>2. /\ p \in procs /\ p \in Pids /\ p = cpu.proc /\ pcb[p].pid = p
        /\ pcb \in [Pids -> Pcb] /\ procs \in SUBSET Pids
        /\ terminals \in [Terms -> Terminal]
    BY <1>1 DEF Inv, TypeOK, CalmInv, CpuInv, Executing, FamilyTree, Links
  <1>3. pcb[p].parent_pid = None /\ pcb[p].parent_pcb = None
    <2>1. Unlinked[p].parent_pid = pcb[p].parent_pid
      BY <1>1, <1>2 DEF Unlinked, Pcb
    <2>2. Unlinked[p].parent_pid = None
      BY <1>1 DEF HaltRoot
    <2>3. QED
      BY <1>2, <2>1, <2>2 DEF Inv, CalmInv, FamilyTree, Links
  <1>4. Unlinked = pcb
    BY <1>1, <1>3 DEF Unlinked
  <1>5. /\ pcb[p].parent_ksp.stk = None /\ current_terminal = 0
        /\ terminals[0].pid = p /\ terminals[0].running = 1
    BY <1>1, <1>4 DEF HaltRoot
  <1>6. p = 0 /\ 0 \in Pids /\ 0 \in Terms
    BY <1>5, Zero DEF Inv, CalmInv, DisplayInv
  <1>7. PICK ts : ts = [terminals EXCEPT ![0].running = 0]
    OBVIOUS
  <1>8. PICK q \in Pids, g \in {pcb, Wipe(pcb, None)} :
          /\ FirstFree(procs \ {0}, q)
          /\ Create(q, procs \ {0}, g, ts, 0, Context(None, None, "dead"), "boot")
    BY <1>1, <1>2, <1>4, <1>5, <1>6, <1>7 DEF HaltRoot
  <1>9. q = 0
    BY <1>6, <1>8 DEF FirstFree, Pids
  <1>10. /\ ts[0].running = 0
         /\ \A t \in Terms : t # 0 => ts[t] = terminals[t]
         /\ ts[0].status = terminals[0].status
         /\ ts \in [Terms -> Terminal]
    BY <1>2, <1>6, <1>7 DEF Terminal
  <1>11. /\ terminals' = NewTerminal(ts, 0, 0)
         /\ pcb' = Linked(g, 0, Context(None, None, "dead"), terminals'[0].pid = 0)
         /\ procs' = (procs \ {0}) \cup {0} /\ running_pid' = 0
         /\ esp0' = 0 /\ cr3' = 0 /\ elf_page' = elf_page \cup {0}
         /\ cpu' = Context(0, None, "boot")
    <2>1. PICK t \in Terms :
            /\ IsNewTerminal(ts, t) /\ terminals' = NewTerminal(ts, t, 0)
            /\ pcb' = Linked(g, 0, Context(None, None, "dead"), terminals'[t].pid = 0)
      BY <1>8, <1>9, <1>10 DEF Create
    <2>2. t = 0
      BY <1>6, <1>10, <2>1 DEF IsNewTerminal, Terms
    <2>3. QED
      BY <1>8, <1>9, <2>1, <2>2 DEF Create, Context
  <1>12. \A t \in Terms : /\ terminals'[t].pid = terminals[t].pid
                          /\ terminals'[t].running = terminals[t].running
                          /\ terminals'[t].status = terminals[t].status
    BY <1>5, <1>6, <1>10, <1>11 DEF NewTerminal, Terminal
  <1>13. /\ g \in [Pids -> Pcb]
         /\ \A x \in Pids : /\ g[x].pid = pcb[x].pid
                            /\ g[x].parent_pid = pcb[x].parent_pid
                            /\ g[x].parent_pcb = pcb[x].parent_pcb
                            /\ g[x].child_pcb = pcb[x].child_pcb
                            /\ g[x].child_return = pcb[x].child_return
                            /\ \/ g[x].ksp = pcb[x].ksp /\ g[x].parent_ksp = pcb[x].parent_ksp
                               \/ /\ g[x].ksp = Smash(pcb[x].ksp, None)
                                  /\ g[x].parent_ksp = Smash(pcb[x].parent_ksp, None)
    <2>1. None \in Owner
      BY DEF Owner
    <2>2. QED
      BY <1>2, <1>8, <2>1, WipeFields, WipeType
  <1>14. /\ \A x \in Pids \ {0} : pcb'[x] = g[x]
         /\ pcb'[0].pid = 0 /\ pcb'[0].parent_pid = None
         /\ pcb'[0].parent_pcb = None /\ pcb'[0].child_pcb = None
         /\ pcb'[0].child_return = g[0].child_return
    <2>1. terminals'[0].pid = 0
      BY <1>5, <1>6, <1>12
    <2>2. QED
      BY <1>6, <1>11, <1>13, <2>1, LinkedRoot
  <1>15. procs' = procs
    BY <1>2, <1>6, <1>11
  <1>16. pcb[0].child_pcb = None
    BY <1>1, <1>6 DEF Inv, CalmInv, CpuInv
  <1>17. SameTree
    BY <1>2, <1>3, <1>6, <1>12, <1>13, <1>14, <1>15, <1>16 DEF SameTree
  <1>18. FamilyTree'
    BY <1>17, KeepTree DEF Inv, CalmInv
  <1>19. CpuInv'
    BY <1>2, <1>6, <1>11, <1>14, <1>15 DEF CpuInv, Executing, Context
  <1>20. SavedInv'
    <2>1. Executing /\ \A x \in procs : /\ x # 0 /\ pcb[x].child_pcb = None => Own(pcb, x)
                                       /\ Waits(pcb, x)
      BY <1>2, <1>6, SavedInvOwn DEF Inv, CalmInv, Executing
    <2>2. \A x \in procs : /\ x # 0 /\ g[x].child_pcb = None => Own(g, x)
                           /\ Waits(g, x)
      <3>1. SUFFICES ASSUME NEW x \in procs
                     PROVE  /\ x # 0 /\ g[x].child_pcb = None => Own(g, x)
                            /\ Waits(g, x)
        OBVIOUS
      <3>2. x \in Pids /\ x # None
        BY <1>2, Zero
      <3>3. QED
        BY <1>13, <2>1, <3>2, SmashOther DEF Own, Waits
    <2>3. \A x \in procs : /\ x # 0 /\ pcb'[x].child_pcb = None => Own(pcb', x)
                           /\ Waits(pcb', x)
      BY <1>2, <1>14, <2>2 DEF Own, Waits
    <2>4. Executing' /\ cpu'.proc = 0
      BY <1>11 DEF Executing, Context
    <2>5. QED
      BY <1>15, <2>3, <2>4 DEF SavedInv, Own, Waits
  <1>21. DisplayInv'
    BY <1>6, <1>12 DEF Inv, CalmInv, DisplayInv, HaltRoot
  <1>22. FlagInv'
    BY <1>6, <1>13, <1>14 DEF Inv, CalmInv, FlagInv, HaltRoot
  <1>23. procs' \subseteq elf_page'
    BY <1>11, <1>15 DEF Inv, CalmInv
  <1>24. Moves
    BY <1>2, <1>6, <1>11, <1>17 DEF Moves, On, Context
  <1>25. QED
    BY <1>15, <1>18, <1>19, <1>20, <1>21, <1>22, <1>23, <1>24 DEF CalmInv

(* The lookup of halt never fails, so the kernel is never lost. *)
LEMMA NeverLost ==
  ASSUME Inv, cpu.at = "user"
  PROVE  ~Lost(Unlinked)
  <1>1. running_pid \in procs /\ pcb \in [Pids -> Pcb] /\ procs \in SUBSET Pids
    BY DEF Inv, TypeOK, CalmInv, CpuInv
  <1>2. Unlinked[running_pid].pid = pcb[running_pid].pid
    BY <1>1 DEF Unlinked, Pcb
  <1>3. pcb[running_pid].pid = running_pid
    BY <1>1 DEF Inv, CalmInv, FamilyTree, Links
  <1>4. HasTerminal(running_pid)
    BY <1>1, FindsTerminal DEF Inv, CalmInv
  <1>5. QED
    BY <1>2, <1>3, <1>4 DEF Lost

(* The program that halts, or faults, has given up the CPU to its parent.  *)
GivesUp ==
    \A p \in procs \ procs' :
      /\ p = cpu.proc
      /\ cpu' = Context(pcb[p].parent_pid, pcb[p].parent_pid, "user")

(* The halt system call, in its two forms. *)
LEMMA HaltCalm ==
  ASSUME Inv, Env = {}, Halt PROVE CalmInv' /\ Moves /\ GivesUp
  <1>1. program_exception_occured = 0 /\ cpu.at = "user"
    BY DEF Inv, CalmInv, FlagInv, Halt
  <1>2. \/ HaltChild(Unlinked, 0, 0)
        \/ HaltRoot(Unlinked, 0)
    BY <1>1, NeverLost DEF Halt
  <1>3. CASE HaltChild(Unlinked, 0, 0)
    BY <1>1, <1>3, HaltChildCalm DEF GivesUp
  <1>4. CASE HaltRoot(Unlinked, 0)
    BY <1>1, <1>4, HaltRootCalm DEF GivesUp
  <1>5. QED
    BY <1>2, <1>3, <1>4

(* An exception of a displayed program kills it and tells the parent so. *)
LEMMA FaultCalm ==
  ASSUME Inv, Env = {}, Fault PROVE CalmInv' /\ Moves /\ GivesUp
  <1>1. cpu.at = "user" /\ pcb[running_pid].parent_pid # None
    BY DEF Fault, MayFault
  <1>2. \/ HaltChild(Unlinked, 1, 1)
        \/ HaltRoot(Unlinked, 1)
    BY <1>1, NeverLost DEF Fault
  <1>3. Unlinked[running_pid].parent_pid = pcb[running_pid].parent_pid
    BY DEF Inv, TypeOK, Unlinked, Pcb
  <1>4. HaltChild(Unlinked, 1, 1)
    BY <1>1, <1>2, <1>3 DEF HaltRoot
  <1>5. QED
    BY <1>1, <1>4, HaltChildCalm DEF GivesUp

-----------------------------------------------------------------------------
(* The timer interrupt *)

(* A tick hits a program, or execute just before it enters one. *)
LEMMA TickCalm ==
  ASSUME Inv, Env = {}, NEW t \in Terms, Tick(t)
  PROVE  /\ cpu.at \in {"user", "enter"} /\ Executing
         /\ running_pid = cpu.proc /\ running_pid \in procs
         /\ running_pid \in Pids /\ cpu.proc \in Pids
         /\ RemappedCr3 = cr3
         /\ cpu = Context(running_pid, running_pid, "user")
            \/ (/\ cpu = Context(running_pid, pcb[running_pid].parent_pid, "enter")
                /\ pcb[running_pid].parent_pid # None)
         /\ \A u \in Terms : /\ Shown[u].pid = terminals[u].pid
                             /\ Shown[u].running = terminals[u].running
                             /\ Shown[u].status = TASK_RUNNING /\ Shown[u].running # 1
                                  => u = Displayed
         /\ Displayed \in Terms
         /\ Shown[t].status = TASK_RUNNING
         /\ current_terminal' = Displayed /\ terminal_to_switch_to' = None
  <1>1. cpu.at \in {"user", "enter"}
    BY DEF Tick, Interruptible, Inv, CalmInv, CpuInv
  <1>2. /\ Executing /\ running_pid = cpu.proc /\ running_pid \in procs
        /\ running_pid \in Pids /\ cr3 = running_pid
    BY <1>1 DEF Executing, Inv, TypeOK, CalmInv, CpuInv
  <1>3. RemappedCr3 = cr3
    BY <1>2 DEF RemappedCr3, Inv, CalmInv, FamilyTree, Links
  <1>4. cpu = Context(running_pid, running_pid, "user")
            \/ (/\ cpu = Context(running_pid, pcb[running_pid].parent_pid, "enter")
                /\ pcb[running_pid].parent_pid # None)
    BY <1>1, <1>2 DEF Inv, TypeOK, CalmInv, CpuInv, Contexts, Context
  <1>5. Displayed \in Terms
    BY DEF Displayed, Inv, TypeOK
  <1>6. \A u \in Terms : /\ Shown[u].pid = terminals[u].pid
                         /\ Shown[u].running = terminals[u].running
                         /\ u # Displayed => Shown[u].status = terminals[u].status
                         /\ Displayed = current_terminal =>
                              Shown[u].status = terminals[u].status
    BY <1>5 DEF Shown, Inv, TypeOK, Terminal
  <1>7. \A u \in Terms : Shown[u].status = TASK_RUNNING /\ Shown[u].running # 1
                          => u = Displayed
    <2>1. CASE Displayed = current_terminal
      BY <1>6, <2>1 DEF Inv, CalmInv, DisplayInv
    <2>2. CASE Displayed # current_terminal
      <3>1. terminals[current_terminal].running = 1
        BY <2>2 DEF Displayed, Inv, CalmInv, DisplayInv
      <3>2. QED
        BY <1>6, <3>1 DEF Inv, CalmInv, DisplayInv
    <2>3. QED
      BY <2>1, <2>2
  <1>8. Shown[t].status = TASK_RUNNING
    BY DEF Tick, NextScheduled
  <1>9. current_terminal' = Displayed /\ terminal_to_switch_to' = None
    BY DEF Tick
  <1>10. QED
    BY <1>1, <1>2, <1>3, <1>4, <1>5, <1>6, <1>7, <1>8, <1>9

(* After irqh_pit saved it, the interrupted program is reachable as well. *)
LEMMA SavedCalm ==
  ASSUME Inv, Env = {}, NEW t \in Terms, Tick(t)
  PROVE  /\ Saved \in [Pids -> Pcb]
         /\ \A q \in Pids : /\ Saved[q].pid = pcb[q].pid
                            /\ Saved[q].parent_pid = pcb[q].parent_pid
                            /\ Saved[q].parent_pcb = pcb[q].parent_pcb
                            /\ Saved[q].child_pcb = pcb[q].child_pcb
                            /\ Saved[q].child_return = pcb[q].child_return
         /\ \A q \in procs : /\ Saved[q].child_pcb = None => Own(Saved, q)
                             /\ Waits(Saved, q)
  <1>1. PICK c, g : c = running_pid /\ g = Saved
    OBVIOUS
  <1>2. /\ c \in Pids /\ c = cpu.proc /\ Executing /\ pcb \in [Pids -> Pcb]
        /\ cpu = Context(c, c, "user")
            \/ (cpu = Context(c, pcb[c].parent_pid, "enter") /\ pcb[c].parent_pid # None)
        /\ cpu \in Contexts /\ procs \in SUBSET Pids
        /\ cpu.at # "descend"
    BY <1>1, TickCalm DEF Inv, TypeOK
  <1>3. cpu \in Parked
    BY <1>2 DEF Contexts, Parked
  <1>4. g = [pcb EXCEPT ![c].ksp = cpu]
    BY <1>1 DEF Saved
  <1>5. g \in [Pids -> Pcb]
    BY <1>2, <1>3, <1>4 DEF Pcb
  <1>6. \A q \in Pids : /\ g[q].pid = pcb[q].pid
                        /\ g[q].parent_pid = pcb[q].parent_pid
                        /\ g[q].parent_pcb = pcb[q].parent_pcb
                        /\ g[q].child_pcb = pcb[q].child_pcb
                        /\ g[q].child_return = pcb[q].child_return
                        /\ g[q].parent_ksp = pcb[q].parent_ksp
                        /\ g[q].ksp = IF q = c THEN cpu ELSE pcb[q].ksp
    BY <1>2, <1>4 DEF Pcb
  <1>7. \A q \in procs : /\ q # c /\ pcb[q].child_pcb = None => Own(pcb, q)
                         /\ Waits(pcb, q)
    BY <1>2, SavedInvOwn DEF Inv, CalmInv
  <1>8. \A q \in procs : /\ g[q].child_pcb = None => Own(g, q)
                         /\ Waits(g, q)
    BY <1>2, <1>6, <1>7 DEF Own, Waits
  <1>9. QED
    BY <1>1, <1>5, <1>6, <1>8

(* The display after a tick that leaves the shells where they are. *)
LEMMA ShownCalm ==
  ASSUME Inv, Env = {}, NEW t \in Terms, Tick(t), terminals' = Shown
  PROVE  DisplayInv'
  <1>1. 0 \in Terms
    BY Zero
  <1>2. QED
    BY <1>1, TickCalm DEF DisplayInv, Inv, CalmInv

(* A tick that keeps the schedule. *)
LEMMA PitStayCalm ==
  ASSUME Inv, Env = {}, NEW t \in Terms, PitStay(t) PROVE CalmInv' /\ Moves
  <1>1. Tick(t) /\ terminals' = Shown /\ cr3' = cr3
    BY TickCalm DEF PitStay
  <1>2. DisplayInv'
    BY <1>1, ShownCalm
  <1>3. SameTree
    BY <1>1, TickCalm DEF SameTree, PitStay
  <1>4. FamilyTree'
    BY <1>3, KeepTree DEF Inv, CalmInv
  <1>5. CpuInv' /\ SavedInv' /\ FlagInv' /\ procs' \subseteq elf_page'
    BY <1>1 DEF PitStay, Inv, CalmInv, CpuInv, SavedInv, Executing, FlagInv
  <1>6. Moves
    BY <1>3 DEF Moves, On, PitStay
  <1>7. QED
    BY <1>2, <1>4, <1>5, <1>6 DEF CalmInv

(* A tick that begins a switch: the interrupted leaf is saved. *)
LEMMA PitSwitchCalm ==
  ASSUME Inv, Env = {}, NEW t \in Terms, PitSwitch(t) PROVE CalmInv' /\ Moves
  <1>1. Tick(t) /\ terminals' = Shown /\ pcb' = Saved /\ procs' = procs
    BY DEF PitSwitch
  <1>2. DisplayInv'
    BY <1>1, ShownCalm
  <1>3. SameTree
    BY <1>1, TickCalm, SavedCalm DEF SameTree
  <1>4. FamilyTree'
    BY <1>3, KeepTree DEF Inv, CalmInv
  <1>5. terminals[t].pid \in procs /\ terminals[t].running = 1
    <2>1. terminals[t].running = 1
      BY <1>1, TickCalm DEF PitSwitch
    <2>2. QED
      BY <2>1 DEF Inv, CalmInv, FamilyTree, Roots
  <1>6. cpu'.at = "descend"
    BY DEF PitSwitch, Inv, TypeOK, Contexts
  <1>7. CpuInv'
    BY <1>1, <1>5, <1>6 DEF PitSwitch, CpuInv, Executing
  <1>8. SavedInv'
    <2>1. \A q \in procs : /\ pcb'[q].child_pcb = None => Own(pcb', q)
                           /\ Waits(pcb', q)
      BY <1>1, SavedCalm
    <2>2. QED
      BY <1>1, <2>1 DEF SavedInv, Own, Waits
  <1>9. FlagInv' /\ procs' \subseteq elf_page'
    BY <1>1, SavedCalm DEF PitSwitch, Inv, CalmInv, FlagInv
  <1>10. Moves
    BY <1>1, <1>3, <1>6, TickCalm DEF Moves, On
  <1>11. QED
    BY <1>2, <1>4, <1>7, <1>8, <1>9, <1>10 DEF CalmInv

(* A tick that executes a shell: only the displayed terminal can lack      *)
(* one, and the first free terminal gets it.                               *)
LEMMA PitShellCalm ==
  ASSUME Inv, Env = {}, NEW t \in Terms, PitShell(t) PROVE CalmInv' /\ Moves
  <1>1. Tick(t) /\ Shown[t].running # 1
    BY DEF PitShell
  <1>2. t = Displayed
    BY <1>1, TickCalm
  <1>3. CASE \E p \in Pids : /\ FirstFree(procs, p)
                             /\ Create(p, procs, Saved, Shown, Displayed, cpu, "boot")
    <2>1. PICK p \in Pids : /\ FirstFree(procs, p)
                            /\ Create(p, procs, Saved, Shown, t, cpu, "boot")
      BY <1>2, <1>3
    <2>2. PICK g, ts : g = Saved /\ ts = Shown
      OBVIOUS
    <2>3. /\ g \in [Pids -> Pcb] /\ procs \in SUBSET Pids
          /\ ts \in [Terms -> Terminal] /\ p \in Pids \ procs
      BY <1>1, <2>1, <2>2, SavedCalm, TickType DEF FirstFree, Inv, TypeOK
    <2>4. PICK u \in Terms :
            /\ ts[u].running = 0
            /\ terminals' = NewTerminal(ts, u, p)
            /\ pcb' = Linked(g, p, cpu, terminals'[u].pid = p)
      BY <1>1, <2>1, <2>2 DEF Create, IsNewTerminal
    <2>5. /\ procs' = procs \cup {p} /\ running_pid' = p /\ esp0' = p /\ cr3' = p
          /\ elf_page' = elf_page \cup {p} /\ cpu' = Context(p, cpu.stk, "boot")
      BY <2>1 DEF Create
    <2>6. /\ terminals'[u].pid = p /\ terminals'[u].running = 1
          /\ \A v \in Terms : terminals'[v].status = ts[v].status
          /\ \A v \in Terms \ {u} : terminals'[v] = ts[v]
      BY <2>3, <2>4 DEF NewTerminal, Terminal
    <2>7. /\ \A q \in Pids \ {p} : pcb'[q] = g[q]
          /\ pcb'[p].pid = p /\ pcb'[p].parent_pid = None
          /\ pcb'[p].parent_pcb = None /\ pcb'[p].child_pcb = None
          /\ pcb'[p].child_return = g[p].child_return
      BY <2>3, <2>4, <2>6, LinkedRoot
    <2>8. \A q \in Pids : /\ g[q].pid = pcb[q].pid
                          /\ g[q].parent_pid = pcb[q].parent_pid
                          /\ g[q].parent_pcb = pcb[q].parent_pcb
                          /\ g[q].child_pcb = pcb[q].child_pcb
                          /\ g[q].child_return = pcb[q].child_return
      BY <1>1, <2>2, SavedCalm
    <2>9. \A v \in Terms : /\ ts[v].pid = terminals[v].pid
                           /\ ts[v].running = terminals[v].running
                           /\ ts[v].status = TASK_RUNNING /\ ts[v].running # 1 => v = t
      BY <1>1, <1>2, <2>2, TickCalm
    <2>10. AddsRoot(p, u) /\ FamilyTree'
      <3>1. TypeOK /\ FamilyTree /\ terminals[u].running # 1
        BY <2>4, <2>9 DEF Inv, CalmInv
      <3>2. \A q \in procs : /\ pcb'[q].pid = pcb[q].pid
                             /\ pcb'[q].parent_pid = pcb[q].parent_pid
                             /\ pcb'[q].parent_pcb = pcb[q].parent_pcb
                             /\ pcb'[q].child_pcb = pcb[q].child_pcb
        BY <2>3, <2>7, <2>8
      <3>3. \A v \in Terms \ {u} : /\ terminals'[v].pid = terminals[v].pid
                                   /\ terminals'[v].running = terminals[v].running
        BY <2>6, <2>9
      <3>4. AddsRoot(p, u)
        BY <2>5, <2>6, <2>7, <3>1, <3>2, <3>3 DEF AddsRoot
      <3>5. QED
        BY <2>3, <3>1, <3>4, AddRoot
    <2>11. CpuInv'
      BY <2>5, <2>7 DEF CpuInv, Executing, Context
    <2>12. SavedInv'
      <3>1. \A q \in procs : /\ g[q].child_pcb = None => Own(g, q)
                             /\ Waits(g, q)
        BY <1>1, <2>2, SavedCalm
      <3>2. \A q \in procs : /\ pcb'[q].child_pcb = None => Own(pcb', q)
                             /\ Waits(pcb', q)
        BY <2>3, <2>7, <3>1 DEF Own, Waits
      <3>3. Waits(pcb', p) /\ Executing' /\ cpu'.proc = p
        BY <2>5, <2>7 DEF Waits, Executing, Context
      <3>4. QED
        BY <2>5, <3>2, <3>3 DEF SavedInv, Own, Waits
    <2>13. DisplayInv'
      <3>1. 0 \in Terms /\ u # 0
        BY <2>4, <2>9, Zero DEF Inv, RunningPrefix
      <3>2. current_terminal' = t /\ terminal_to_switch_to' = None
        BY <1>1, <1>2, TickCalm
      <3>3. QED
        BY <2>6, <2>9, <3>1, <3>2 DEF DisplayInv, Inv, CalmInv
    <2>14. FlagInv'
      BY <2>7, <2>8 DEF FlagInv, Inv, CalmInv, PitShell
    <2>15. procs' \subseteq elf_page'
      BY <2>5 DEF Inv, CalmInv
    <2>16. Moves
      BY <2>3, <2>5, <2>10 DEF Moves, On, Context
    <2>17. QED
      BY <2>10, <2>11, <2>12, <2>13, <2>14, <2>15, <2>16 DEF CalmInv
  <1>4. CASE /\ procs = Pids
             /\ terminals' = Shown /\ pcb' = Saved /\ cr3' = RemappedCr3
             /\ UNCHANGED <<procs, running_pid, esp0, elf_page, cpu>>
    <2>1. DisplayInv'
      BY <1>1, <1>4, ShownCalm
    <2>2. SameTree
      BY <1>1, <1>4, TickCalm, SavedCalm DEF SameTree
    <2>3. FamilyTree'
      BY <2>2, KeepTree DEF Inv, CalmInv
    <2>4. cr3' = cr3 /\ running_pid \in Pids /\ cpu.at \in {"user", "enter"}
          /\ cpu.proc \in Pids
      BY <1>1, <1>4, TickCalm
    <2>5. CpuInv'
      BY <1>4, <2>2, <2>4 DEF CpuInv, Executing, Inv, CalmInv, SameTree
    <2>6. SavedInv'
      <3>1. \A q \in procs : /\ pcb'[q].child_pcb = None => Own(pcb', q)
                             /\ Waits(pcb', q)
        BY <1>1, <1>4, SavedCalm
      <3>2. QED
        BY <1>4, <3>1 DEF SavedInv, Own, Waits
    <2>7. FlagInv' /\ procs' \subseteq elf_page'
      BY <1>1, <1>4, SavedCalm DEF PitShell, Inv, CalmInv, FlagInv
    <2>8. Moves
      BY <1>4, <2>2 DEF Moves, On
    <2>9. QED
      BY <2>1, <2>3, <2>5, <2>6, <2>7, <2>8 DEF CalmInv
  <1>5. QED
    BY <1>3, <1>4 DEF PitShell

-----------------------------------------------------------------------------
(* The inductive step, and what follows from it *)

(* Every step keeps the invariant, and only halting gives up a pid. *)
LEMMA CalmStep ==
  ASSUME Inv, Env = {}, [Next]_vars
  PROVE  CalmInv' /\ Moves /\ (UNCHANGED vars \/ GivesUp)
  <1>1. CASE UNCHANGED vars
    BY <1>1 DEF vars, tables, screen, mmu, Inv, CalmInv, FamilyTree, Links, Roots,
                Acyclic, CpuInv, SavedInv, DisplayInv, FlagInv, Executing,
                Moves, SameTree, On
  <1>2. CASE Execute
    <2>1. procs \subseteq procs'
      BY <1>2 DEF Execute, Create
    <2>2. QED
      BY <1>2, <2>1, ExecuteCalm DEF GivesUp
  <1>3. CASE Uspace
    BY <1>3, UspaceCalm DEF GivesUp, Uspace
  <1>4. CASE Halt
    BY <1>4, HaltCalm
  <1>5. CASE Fault
    BY <1>5, FaultCalm
  <1>6. CASE ExecuteBad \/ Overrun \/ FaultFlag \/ FaultUnlink \/ FaultHalt
    BY <1>6 DEF ExecuteBad, Overrun, FaultFlag, FaultUnlink, FaultHalt, Inv, CalmInv, CpuInv
  <1>7. ASSUME NEW t \in Terms, AltFn(t) PROVE CalmInv' /\ Moves /\ GivesUp
    BY <1>7, AltFnCalm DEF GivesUp, AltFn, tables
  <1>8. ASSUME NEW t \in Terms, PitStay(t) \/ PitSwitch(t) \/ PitShell(t)
        PROVE  CalmInv' /\ Moves /\ GivesUp
    <2>1. procs \subseteq procs'
      BY <1>8 DEF PitStay, PitSwitch, PitShell, Create
    <2>2. QED
      BY <1>8, <2>1, PitStayCalm, PitSwitchCalm, PitShellCalm DEF GivesUp
  <1>9. CASE Descend \/ Dispatch
    BY <1>9, DescendCalm DEF GivesUp, Descend, Dispatch, tables
  <1>10. CASE SwitchStack
    BY <1>10, SwitchStackCalm DEF GivesUp, SwitchStack
  <1>11. QED
    BY <1>1, <1>2, <1>3, <1>4, <1>5, <1>6, <1>7, <1>8, <1>9, <1>10 DEF Next, Pit

(* The state in which the first shell starts. *)
LEMMA CalmInit == Init => CalmInv
  <1> SUFFICES ASSUME Init PROVE CalmInv
    OBVIOUS
  <1>1. 0 \in Pids /\ 0 \in Terms /\ None # 0
    BY Zero DEF None
  <1>2. /\ procs = {0} /\ running_pid = 0
        /\ pcb[0].pid = 0 /\ pcb[0].parent_pid = None
        /\ pcb[0].parent_pcb = None /\ pcb[0].child_pcb = None
        /\ \A p \in Pids : pcb[p].child_return = 0
        /\ \A t \in Terms : /\ terminals[t].pid = 0
                            /\ terminals[t].running = 1 => t = 0
                            /\ terminals[t].status = TASK_RUNNING => t = 0
        /\ terminals[0].running = 1
        /\ cpu.at = "user" /\ cpu.proc = 0 /\ cpu.stk = 0
    BY <1>1 DEF Init, ZeroPcb, Context, TASK_RUNNING, TASK_NOT_RUNNING
  <1>3. Links /\ Roots
    BY <1>1, <1>2 DEF Links, Roots
  <1>4. Acyclic
    BY <1>1, <1>2 DEF Acyclic
  <1>5. CpuInv /\ SavedInv
    BY <1>1, <1>2 DEF Init, CpuInv, SavedInv, Executing
  <1>6. DisplayInv /\ FlagInv /\ procs \subseteq elf_page
    BY <1>1, <1>2 DEF Init, DisplayInv, FlagInv
  <1>7. QED
    BY <1>3, <1>4, <1>5, <1>6 DEF CalmInv, FamilyTree

(* The whole inductive invariant holds for ever. *)
LEMMA AlwaysInv ==
  ASSUME Env = {}
  PROVE  Spec => []Inv
  <1>1. Init => Inv
    BY CalmInit, TableInit DEF Inv, TableInv
  <1>2. Inv /\ [Next]_vars => Inv'
    BY CalmStep, TableStep DEF Inv, TableInv
  <1>3. QED
    BY <1>1, <1>2, PTL DEF Spec

(* The family tree that halt, execute and irqh_pit keep in three separate  *)
(* places is one forest, with the terminals' shells as its roots.          *)
THEOREM TreeKept ==
  ASSUME Env = {}
  PROVE  Spec => []FamilyTree
  <1>1. Inv => FamilyTree
    BY DEF Inv, CalmInv
  <1>2. QED
    BY <1>1, AlwaysInv, PTL

(* Whatever is preempted stays resumable: irqh_pit's saved stack pointers, *)
(* and the frames in which parents wait, are not overwritten by any other  *)
(* kernel entry.  That no user stack grows into them is assumed: ustack is *)
(* not in Env.                                                             *)
THEOREM AlwaysReachable ==
  ASSUME Env = {}
  PROVE  Spec => []Reachable
  <1>1. Inv => Reachable
    <2>1. SUFFICES ASSUME Inv PROVE Reachable
      OBVIOUS
    <2>2. \A p \in procs :
            /\ pcb[p].child_pcb = None /\ ~(Executing /\ p = cpu.proc) => Own(pcb, p)
            /\ Waits(pcb, p)
      BY <2>1, SavedInvOwn DEF Inv, CalmInv
    <2>3. cpu.at \in {"user", "enter", "boot", "descend", "switch"}
      BY <2>1 DEF Inv, CalmInv, CpuInv
    <2>4. \A p \in procs : Own(pcb, p) => pcb[p].ksp.at # "dead" /\ pcb[p].ksp.proc = p
      BY DEF Own, Context
    <2>5. QED
      BY <2>2, <2>3, <2>4 DEF Reachable, Executing, Waits
  <1>2. QED
    BY <1>1, AlwaysInv, PTL

(* running_pid, CR3 and the TSS stack are those of the program that runs.  *)
THEOREM AlwaysCoherent ==
  ASSUME Env = {}
  PROVE  Spec => []Coherent
  <1>1. Inv => Coherent
    BY DEF Inv, CalmInv, CpuInv, Executing, Coherent
  <1>2. QED
    BY <1>1, AlwaysInv, PTL

(* Only the executing program gives up a pid, and its parent runs next. *)
THEOREM HaltsToParent ==
  ASSUME Env = {}
  PROVE  Spec => HaltReturnsToParent
  <1>1. Inv /\ [Next]_vars => [GivesUp]_vars
    BY CalmStep
  <1>2. QED
    BY <1>1, AlwaysInv, PTL DEF Spec, HaltReturnsToParent, GivesUp

-----------------------------------------------------------------------------
(* The terminal of a process *)

(* The climb from p through its ancestors. *)
Above(q) == IF q = None THEN None ELSE pcb[q].parent_pid

Climb(p, N, g) == [n \in 0 .. N |-> IF n = 0 THEN p ELSE Above(g[n - 1])]

(* Its recursive definition defines it. *)
LEMMA AncestorsClimb ==
  ASSUME NEW p
  PROVE  Ancestors(p) = Climb(p, MAX_PID_COUNT, Ancestors(p))
  <1> DEFINE f == CHOOSE g : g = Climb(p, MAX_PID_COUNT, g)
  <1>1. Ancestors(p) = f
    BY DEF Ancestors, Climb, Above
  <1>2. \E g : g = Climb(p, MAX_PID_COUNT, g)
    <2>1. 0 \in Nat /\ MAX_PID_COUNT \in Nat /\ 0 <= MAX_PID_COUNT
      BY PidCountAssumption
    <2>2. PICK g : g = Walk(pcb, "up", 0, p, MAX_PID_COUNT, g)
      BY <2>1, WalkExists
    <2>3. g = Climb(p, MAX_PID_COUNT, g)
      BY <2>2 DEF Walk, Climb, Along, Above
    <2>4. QED
      BY <2>3
  <1>3. f = Climb(p, MAX_PID_COUNT, f)
    BY <1>2, Zenon
  <1>4. QED
    BY <1>1, <1>3

(* The climb of a process, step by step. *)
LEMMA AncestorSteps ==
  ASSUME NEW p, NEW n \in 0 .. MAX_PID_COUNT
  PROVE  Ancestors(p)[n] = IF n = 0 THEN p ELSE Above(Ancestors(p)[n - 1])
  <1> DEFINE A == Ancestors(p)
  <1>1. A = Climb(p, MAX_PID_COUNT, A)
    BY AncestorsClimb
  <1> HIDE DEF A
  <1>2. A[n] = IF n = 0 THEN p ELSE Above(A[n - 1])
    BY <1>1 DEF Climb
  <1>3. QED
    BY <1>2 DEF A

(* The climb meets a terminal: otherwise it would run through more         *)
(* processes than there are pids, and one of them would be its own         *)
(* ancestor.                                                               *)
LEMMA ClimbEnds ==
  ASSUME TypeOK, FamilyTree, NEW p \in procs
  PROVE  \E n \in 0 .. MAX_PID_COUNT : Ancestors(p)[n] \in TerminalPids
  <1>1. SUFFICES ASSUME \A n \in 0 .. MAX_PID_COUNT : Ancestors(p)[n] \notin TerminalPids
                 PROVE  FALSE
    OBVIOUS
  <1>2. PICK N \in Nat : N = MAX_PID_COUNT
    BY PidCountAssumption
  <1>3. PICK A : A = Ancestors(p)
    OBVIOUS
  <1>4. \A n \in 0 .. N : /\ A[n] = IF n = 0 THEN p ELSE Above(A[n - 1])
                          /\ A[n] \notin TerminalPids
    BY <1>1, <1>2, <1>3, AncestorSteps
  <1>5. /\ procs \subseteq Pids /\ None \notin Pids
        /\ \A q \in procs : /\ pcb[q].parent_pid # None => pcb[q].parent_pid \in procs
                            /\ pcb[q].parent_pid = None => q \in TerminalPids
    BY Zero DEF TypeOK, FamilyTree, Links, Roots, TerminalPids
  <1>6. \A n \in 0 .. N : A[n] \in procs
    <2> DEFINE S == {n \in 0 .. N : A[n] \notin procs}
    <2>1. SUFFICES ASSUME S # {} PROVE FALSE
      OBVIOUS
    <2>2. PICK k \in S : \A m \in S : k <= m
      <3>1. S \in SUBSET Nat
        OBVIOUS
      <3> HIDE DEF S
      <3>2. QED
        BY <2>1, <3>1, LeastNumber
    <2>3. k # 0
      BY <1>4
    <2>4. k - 1 \in 0 .. N /\ ~(k <= k - 1)
      BY <1>2, <2>3
    <2>5. A[k - 1] \in procs
      BY <2>2, <2>4
    <2>6. A[k] = pcb[A[k - 1]].parent_pid
      BY <1>4, <1>5, <2>3, <2>5 DEF Above
    <2>7. QED
      BY <1>4, <1>5, <2>4, <2>5, <2>6
  <1>7. PICK i \in 0 .. N, j \in 0 .. N : i < j /\ A[i] = A[j]
    <2> DEFINE f == [n \in 0 .. N |-> A[n]]
    <2>1. f \in [0 .. N -> Pids]
      BY <1>5, <1>6
    <2>2. IsFiniteSet(0 .. N) /\ Cardinality(0 .. N) = N + 1
      BY <1>2, FS_Interval
    <2>3. IsFiniteSet(Pids) /\ Cardinality(Pids) = N
      BY <1>2, FS_Interval, PidCountAssumption DEF Pids
    <2>4. N < N + 1
      BY <1>2
    <2> HIDE DEF f
    <2>5. PICK x, y \in 0 .. N : x # y /\ f[x] = f[y]
      BY <2>1, <2>2, <2>3, <2>4, FS_PigeonHole
    <2>6. A[x] = A[y]
      BY <2>5 DEF f
    <2>7. x < y \/ y < x
      BY <2>5
    <2>8. QED
      BY <2>6, <2>7
  <1>8. QED
    <2> DEFINE family == {A[n] : n \in i .. j - 1}
    <2>1. i .. j - 1 \subseteq 0 .. N /\ i \in i .. j - 1
      BY <1>7
    <2>2. family \subseteq procs /\ A[i] \in family
      BY <1>6, <2>1
    <2>3. ASSUME NEW q \in family
          PROVE  pcb[q].parent_pid \in family
      <3>1. PICK n \in i .. j - 1 : q = A[n]
        OBVIOUS
      <3>2. n + 1 \in 0 .. N /\ n + 1 # 0 /\ (n + 1) - 1 = n
        BY <1>7, <3>1
      <3>3. A[n] \in procs
        BY <1>6, <2>1
      <3>4. A[n + 1] = pcb[q].parent_pid
        BY <1>4, <1>5, <3>1, <3>2, <3>3 DEF Above
      <3>5. CASE n + 1 = j
        BY <1>7, <2>2, <3>4, <3>5
      <3>6. CASE n + 1 # j
        <4>1. n + 1 \in i .. j - 1
          BY <1>7, <3>6
        <4>2. QED
          BY <3>4, <4>1
      <3>7. QED
        BY <3>5, <3>6
    <2> HIDE DEF family
    <2>4. family \in SUBSET procs /\ family # {}
      BY <2>2
    <2>5. QED
      BY <2>3, <2>4 DEF FamilyTree, Acyclic

(* So get_running_terminal returns the first terminal with that pid. *)
LEMMA RunningTerminalIs ==
  ASSUME TypeOK, FamilyTree, NEW p \in procs
  PROVE  /\ RunningTerminal(p) \in Terms
         /\ \E n \in 0 .. MAX_PID_COUNT :
              /\ terminals[RunningTerminal(p)].pid = Ancestors(p)[n]
              /\ \A u \in 0 .. RunningTerminal(p) - 1 : terminals[u].pid # Ancestors(p)[n]
  <1> DEFINE Q(t) == \E n \in 0 .. MAX_PID_COUNT :
                       /\ terminals[t].pid = Ancestors(p)[n]
                       /\ \A m \in 0 .. n - 1 : Ancestors(p)[m] \notin TerminalPids
                       /\ \A u \in 0 .. t - 1 : terminals[u].pid # Ancestors(p)[n]
  <1>1. \E t \in Terms : Q(t)
    <2>1. PICK A : A = Ancestors(p)
      OBVIOUS
    <2>2. PICK n \in 0 .. MAX_PID_COUNT :
            A[n] \in TerminalPids /\ \A m \in 0 .. n - 1 : A[m] \notin TerminalPids
      <3> DEFINE S == {n \in 0 .. MAX_PID_COUNT : A[n] \in TerminalPids}
      <3>1. S # {} /\ S \in SUBSET Nat
        BY <2>1, ClimbEnds
      <3>2. PICK k \in S : \A m \in S : k <= m
        <4> HIDE DEF S
        <4>1. QED
          BY <3>1, LeastNumber
      <3>3. \A m \in 0 .. k - 1 : m \in 0 .. MAX_PID_COUNT /\ ~(k <= m)
        BY PidCountAssumption
      <3>4. QED
        BY <3>2, <3>3
    <2>3. PICK t \in Terms : /\ terminals[t].pid = A[n]
                             /\ \A u \in 0 .. t - 1 : terminals[u].pid # A[n]
      <3> DEFINE S == {t \in Terms : terminals[t].pid = A[n]}
      <3>1. S # {} /\ S \in SUBSET Nat
        BY <2>2 DEF TerminalPids, Terms
      <3>2. PICK t \in S : \A u \in S : t <= u
        <4> HIDE DEF S
        <4>1. QED
          BY <3>1, LeastNumber
      <3>3. \A u \in 0 .. t - 1 : u \in Terms /\ ~(t <= u)
        BY TerminalAssumption DEF Terms
      <3>4. QED
        BY <3>2, <3>3
    <2>4. QED
      BY <2>1, <2>2, <2>3
  <1>2. RunningTerminal(p) = CHOOSE t \in Terms : Q(t)
    BY DEF RunningTerminal
  <1> HIDE DEF Q
  <1>3. RunningTerminal(p) \in Terms /\ Q(RunningTerminal(p))
    BY <1>1, <1>2, Zenon
  <1>4. QED
    BY <1>3 DEF Q

(* A terminal without a shell still has the pid it was booted with. *)
UnusedZero == \A t \in Terms : terminals[t].running # 1 => terminals[t].pid = 0

(* Starting a program gives the pid of no other terminal away. *)
LEMMA CreateUnused ==
  ASSUME NEW p \in Pids, NEW used, NEW f, NEW ts \in [Terms -> Terminal],
         NEW cur \in Terms, NEW caller, NEW place,
         Create(p, used, f, ts, cur, caller, place),
         NEW t \in Terms, terminals'[t].running # 1
  PROVE  ts[t].running # 1 /\ terminals'[t].pid = ts[t].pid
  <1>1. CASE ts[cur].running = 1
    BY <1>1, CreateTerminals
  <1>2. CASE ts[cur].running # 1
    <2>1. PICK u \in Terms : terminals' = NewTerminal(ts, u, p)
      BY <1>2, CreateTerminals
    <2>2. t # u
      BY <2>1 DEF NewTerminal, Terminal
    <2>3. terminals'[t] = ts[t]
      BY <2>1, <2>2 DEF NewTerminal
    <2>4. QED
      BY <2>3
  <1>3. QED
    BY <1>1, <1>2

(* The exit of a shell does not either. *)
LEMMA HaltRootUnused ==
  ASSUME Inv, UnusedZero, Env = {}, NEW f, NEW flag, HaltRoot(f, flag)
  PROVE  UnusedZero'
  <1>1. PICK ts : ts = [terminals EXCEPT ![0].running = 0]
    OBVIOUS
  <1>2. PICK q, g, used, c : q \in Pids /\ Create(q, used, g, ts, 0, c, "boot")
    BY <1>1 DEF HaltRoot
  <1>3. /\ terminals \in [Terms -> Terminal] /\ 0 \in Terms
        /\ \A t \in Terms : 0 .. t - 1 \subseteq Terms /\ (t # 0 => 0 \in 0 .. t - 1)
    BY Zero, TerminalAssumption DEF Inv, TypeOK, Terms
  <1>4. /\ ts \in [Terms -> Terminal] /\ ts[0].running = 0
        /\ \A t \in Terms : t # 0 => ts[t] = terminals[t]
    BY <1>1, <1>3 DEF Terminal
  <1>5. terminals'[0].running = 1
    <2>1. PICK t \in Terms : IsNewTerminal(ts, t) /\ terminals' = NewTerminal(ts, t, q)
      BY <1>2, <1>3, <1>4, CreateTerminals
    <2>2. t = 0
      BY <1>3, <1>4, <2>1 DEF IsNewTerminal
    <2>3. QED
      BY <1>4, <2>1, <2>2 DEF NewTerminal, Terminal
  <1>6. ASSUME NEW t \in Terms, terminals'[t].running # 1
        PROVE  terminals'[t].pid = 0
    <2>1. t # 0
      BY <1>5, <1>6
    <2>2. ts[t].running # 1 /\ terminals'[t].pid = ts[t].pid
      BY <1>2, <1>3, <1>4, <1>6, CreateUnused
    <2>3. QED
      BY <1>4, <2>1, <2>2 DEF UnusedZero
  <1>7. QED
    BY <1>6 DEF UnusedZero

(* No step does. *)
LEMMA UnusedStep ==
  ASSUME Inv, UnusedZero, Env = {}, [Next]_vars
  PROVE  UnusedZero'
  <1>1. terminals \in [Terms -> Terminal] /\ current_terminal \in Terms
    BY DEF Inv, TypeOK
  <1>2. /\ Shown \in [Terms -> Terminal] /\ Displayed \in Terms
        /\ \A t \in Terms : /\ Shown[t].running = terminals[t].running
                            /\ Shown[t].pid = terminals[t].pid
    BY ShownTable DEF Inv, TableInv
  <1>3. CASE terminals' = terminals
    BY <1>3 DEF UnusedZero
  <1>4. CASE terminals' = Shown
    BY <1>2, <1>4 DEF UnusedZero
  <1>5. ASSUME NEW f, NEW flag, HaltRoot(f, flag)
        PROVE  UnusedZero'
    BY <1>5, HaltRootUnused
  <1>6. CASE Execute
    <2>1. PICK p \in Pids : Create(p, procs, pcb, terminals, current_terminal, cpu, "enter")
      BY <1>6 DEF Execute
    <2>2. ASSUME NEW t \in Terms, terminals'[t].running # 1
          PROVE  terminals'[t].pid = 0
      BY <1>1, <2>1, <2>2, CreateUnused DEF UnusedZero
    <2>3. QED
      BY <2>2 DEF UnusedZero
  <1>7. ASSUME NEW s \in Terms, PitShell(s)
        PROVE  UnusedZero'
    <2>1. CASE terminals' = Shown
      BY <1>4, <2>1
    <2>2. CASE \E p \in Pids : Create(p, procs, Saved, Shown, Displayed, cpu, "boot")
      <3>1. PICK p \in Pids : Create(p, procs, Saved, Shown, Displayed, cpu, "boot")
        BY <2>2
      <3>2. ASSUME NEW t \in Terms, terminals'[t].running # 1
            PROVE  terminals'[t].pid = 0
        <4>1. Shown[t].running # 1 /\ terminals'[t].pid = Shown[t].pid
          BY <1>2, <3>1, <3>2, CreateUnused
        <4>2. QED
          BY <1>2, <4>1 DEF UnusedZero
      <3>3. QED
        BY <3>2 DEF UnusedZero
    <2>3. QED
      BY <1>7, <2>1, <2>2 DEF PitShell
  <1>8. CASE Halt \/ Fault
    <2>1. \/ terminals' = terminals
          \/ \E f, flag : HaltRoot(f, flag)
      BY <1>8 DEF Halt, Fault, HaltChild, Lost, tables
    <2>2. QED
      BY <1>3, <1>5, <2>1
  <1>9. CASE \E t \in Terms : PitStay(t) \/ PitSwitch(t)
    BY <1>4, <1>9 DEF PitStay, PitSwitch
  <1>10. CASE ExecuteBad \/ Overrun \/ FaultFlag \/ FaultUnlink \/ FaultHalt
    BY <1>10 DEF ExecuteBad, Overrun, FaultFlag, FaultUnlink, FaultHalt, Inv, CalmInv, CpuInv
  <1>11. CASE \/ Uspace \/ Descend \/ Dispatch \/ SwitchStack \/ UNCHANGED vars
              \/ \E t \in Terms : AltFn(t)
    BY <1>3, <1>11 DEF Uspace, Descend, Dispatch, SwitchStack, AltFn, vars, tables
  <1>12. QED
    BY <1>6, <1>7, <1>8, <1>9, <1>10, <1>11 DEF Next, Pit

(* get_running_terminal, by which output, the clock and halt find their    *)
(* terminal, returns for every process the running terminal from whose     *)
(* shell it descends, although unused terminals carry the pid 0 as well.   *)
THEOREM AlwaysAttributed ==
  ASSUME Env = {}
  PROVE  Spec => []Attributed
  <1>1. Inv /\ UnusedZero => Attributed
    <2> SUFFICES ASSUME Inv, UnusedZero, NEW p \in procs
                 PROVE  /\ HasTerminal(p)
                        /\ LET t == RunningTerminal(p) IN
                             /\ terminals[t].running = 1
                             /\ pcb[terminals[t].pid].parent_pid = None
                             /\ \E n \in 0 .. MAX_PID_COUNT :
                                  Ancestors(p)[n] = terminals[t].pid
      BY DEF Attributed
    <2>1. TypeOK /\ FamilyTree /\ RunningPrefix /\ terminals[0].pid = 0
      BY DEF Inv, CalmInv, DisplayInv
    <2>2. PICK t \in Terms, n \in 0 .. MAX_PID_COUNT :
            /\ t = RunningTerminal(p)
            /\ terminals[t].pid = Ancestors(p)[n]
            /\ \A u \in 0 .. t - 1 : terminals[u].pid # Ancestors(p)[n]
      BY <2>1, RunningTerminalIs
    <2>3. terminals[t].running = 1
      <3>1. SUFFICES ASSUME terminals[t].running # 1 PROVE FALSE
        OBVIOUS
      <3>2. t # 0 /\ terminals[t].pid = 0
        BY <2>1, <3>1 DEF UnusedZero, RunningPrefix
      <3>3. 0 \in 0 .. t - 1
        BY <3>2, TerminalAssumption DEF Terms
      <3>4. QED
        BY <2>1, <2>2, <3>2, <3>3
    <2>4. pcb[terminals[t].pid].parent_pid = None
      BY <2>1, <2>3 DEF FamilyTree, Roots
    <2>5. HasTerminal(p)
      BY <2>1, FindsTerminal
    <2>6. QED
      BY <2>2, <2>3, <2>4, <2>5
  <1>2. Init => UnusedZero
    BY DEF Init, UnusedZero
  <1>3. Inv /\ UnusedZero /\ [Next]_vars => UnusedZero'
    BY UnusedStep
  <1>4. QED
    BY <1>1, <1>2, <1>3, AlwaysInv, PTL DEF Spec

-----------------------------------------------------------------------------
(* The stack of programs of a terminal *)

(* Every running terminal has a stack of living processes. *)
StackInv ==
    \A t \in Terms : terminals[t].running = 1 =>
      IsStack(pcb, procs, terminals[t].pid, Chain(t))

(* After a step, whatever is a stack of terminal t is its chain. *)
LEMMA NextChain ==
  ASSUME procs' \in SUBSET Pids, NEW t, terminals'[t].running = 1,
         NEW s, IsStack(pcb', procs', terminals'[t].pid, s)
  PROVE  Chain(t)' = s
  BY PathIs, ChainPath

(* The stack of a terminal of which a step touches no member. *)
LEMMA OtherStack ==
  ASSUME TypeOK, StackInv, procs' \in SUBSET Pids, NEW t \in Terms,
         terminals'[t].pid = terminals[t].pid,
         terminals'[t].running = terminals[t].running,
         \A i \in 1 .. Len(Chain(t)) :
            LET q == Chain(t)[i] IN
            q \in procs => /\ q \in procs'
                           /\ pcb'[q].child_pcb = pcb[q].child_pcb
                           /\ pcb'[q].parent_pid = pcb[q].parent_pid
  PROVE  /\ Chain(t)' = Chain(t)
         /\ terminals'[t].running = 1 =>
              IsStack(pcb', procs', terminals'[t].pid, Chain(t)')
  <1>1. procs \in SUBSET Pids
    BY DEF TypeOK
  <1>2. CASE terminals[t].running = 1
    <2>1. PICK s : s = Chain(t)
      OBVIOUS
    <2>2. IsStack(pcb, procs, terminals[t].pid, s)
      BY <1>2, <2>1 DEF StackInv
    <2>3. \A i \in 1 .. Len(s) : s[i] \in procs
      BY <1>1, <2>2, StackPlaces DEF Place
    <2>4. IsStack(pcb', procs', terminals'[t].pid, s)
      BY <1>1, <2>1, <2>2, <2>3, SameStack
    <2>5. Chain(t)' = s
      BY <1>2, <2>4, NextChain
    <2>6. QED
      BY <2>1, <2>4, <2>5
  <1>3. CASE terminals[t].running # 1
    BY <1>3, ChainPath
  <1>4. QED
    BY <1>2, <1>3

(* A step that leaves the tree alone leaves the stacks alone. *)
LEMMA KeepStacks ==
  ASSUME TypeOK, StackInv, SameTree
  PROVE  StackInv' /\ \A t \in Terms : Chain(t)' = Chain(t)
  <1>1. procs' \in SUBSET Pids /\ procs \in SUBSET Pids
    BY DEF TypeOK, SameTree
  <1>2. ASSUME NEW t \in Terms
        PROVE  /\ Chain(t)' = Chain(t)
               /\ terminals'[t].running = 1 =>
                    IsStack(pcb', procs', terminals'[t].pid, Chain(t)')
    <2>1. \A q \in procs : /\ q \in procs'
                           /\ pcb'[q].child_pcb = pcb[q].child_pcb
                           /\ pcb'[q].parent_pid = pcb[q].parent_pid
      BY <1>1 DEF SameTree
    <2>2. terminals'[t].pid = terminals[t].pid
          /\ terminals'[t].running = terminals[t].running
      BY DEF SameTree
    <2>3. QED
      BY <1>1, <2>1, <2>2, OtherStack
  <1>3. QED
    BY <1>2 DEF StackInv

(* Every process is in the stack of some terminal: of those that are not,  *)
(* one has a parent that is, or is a shell.                                *)
LEMMA EveryoneStacked ==
  ASSUME TypeOK, FamilyTree, StackInv, NEW p \in procs
  PROVE  \E t \in Terms : /\ terminals[t].running = 1
                          /\ \E i \in 1 .. Len(Chain(t)) : Chain(t)[i] = p
  <1> DEFINE In(q) == \E t \in Terms :
                        /\ terminals[t].running = 1
                        /\ \E i \in 1 .. Len(Chain(t)) : Chain(t)[i] = q
             family == {q \in procs : ~In(q)}
  <1>1. SUFFICES ASSUME family # {} PROVE FALSE
    OBVIOUS
  <1>2. PICK q \in family : pcb[q].parent_pid \notin family
    <2>1. family \in SUBSET procs
      OBVIOUS
    <2> HIDE DEF family
    <2>2. QED
      BY <1>1, <2>1 DEF FamilyTree, Acyclic
  <1>3. q \in procs /\ ~In(q)
    OBVIOUS
  <1>4. \A t \in Terms : terminals[t].running = 1 =>
          /\ IsStack(pcb, procs, terminals[t].pid, Chain(t))
          /\ Len(Chain(t)) \in Nat
          /\ \A i \in 1 .. Len(Chain(t)) :
               Place(pcb, procs, terminals[t].pid, Chain(t), i)
    BY StackPlaces DEF StackInv, TypeOK
  <1>5. CASE pcb[q].parent_pid = None
    <2>1. PICK t \in Terms : terminals[t].running = 1 /\ terminals[t].pid = q
      BY <1>3, <1>5 DEF FamilyTree, Roots
    <2>2. Chain(t)[1] = q /\ 1 \in 1 .. Len(Chain(t))
      BY <1>4, <2>1 DEF IsStack
    <2>3. In(q)
      BY <2>1, <2>2
    <2>4. QED
      BY <1>3, <2>3
  <1>6. CASE pcb[q].parent_pid # None
    <2>1. PICK r : r = pcb[q].parent_pid
      OBVIOUS
    <2>2. r \in procs /\ pcb[r].child_pcb = q
      BY <1>3, <1>6, <2>1 DEF FamilyTree, Links
    <2>3. In(r)
      BY <1>2, <2>1, <2>2
    <2>4. PICK t \in Terms : /\ terminals[t].running = 1
                             /\ \E i \in 1 .. Len(Chain(t)) : Chain(t)[i] = r
      BY <2>3
    <2>5. PICK i \in 1 .. Len(Chain(t)) : Chain(t)[i] = r
      BY <2>4
    <2>6. q # None
      BY <1>3, Zero DEF TypeOK
    <2>7. i + 1 \in 1 .. Len(Chain(t)) /\ Chain(t)[i + 1] = q
      <3>1. i = Len(Chain(t)) \/ i < Len(Chain(t))
        BY <1>4, <2>4
      <3>2. QED
        BY <1>4, <2>2, <2>4, <2>5, <2>6, <3>1 DEF Place
    <2>8. In(q)
      BY <2>4, <2>7
    <2>9. QED
      BY <1>3, <2>8
  <1>7. QED
    BY <1>5, <1>6

(* A leaf is on top of it. *)
LEMMA LeafOnTop ==
  ASSUME TypeOK, FamilyTree, StackInv, NEW p \in procs, pcb[p].child_pcb = None
  PROVE  \E t \in Terms : /\ terminals[t].running = 1
                          /\ IsStack(pcb, procs, terminals[t].pid, Chain(t))
                          /\ Chain(t)[Len(Chain(t))] = p
  <1>1. PICK t \in Terms : /\ terminals[t].running = 1
                           /\ \E i \in 1 .. Len(Chain(t)) : Chain(t)[i] = p
    BY EveryoneStacked
  <1>2. PICK i \in 1 .. Len(Chain(t)) : Chain(t)[i] = p
    BY <1>1
  <1>3. /\ IsStack(pcb, procs, terminals[t].pid, Chain(t))
        /\ Len(Chain(t)) \in Nat
        /\ \A j \in 1 .. Len(Chain(t)) :
             Place(pcb, procs, terminals[t].pid, Chain(t), j)
    BY <1>1, StackPlaces DEF StackInv, TypeOK
  <1>4. ASSUME i < Len(Chain(t)) PROVE FALSE
    <2>1. i + 1 \in 1 .. Len(Chain(t)) /\ pcb[p].child_pcb = Chain(t)[i + 1]
      BY <1>2, <1>3, <1>4 DEF Place
    <2>2. Chain(t)[i + 1] # None
      BY <1>3, <2>1 DEF Place
    <2>3. QED
      BY <2>1, <2>2
  <1>5. i = Len(Chain(t))
    BY <1>3, <1>4
  <1>6. QED
    BY <1>1, <1>2, <1>3, <1>5

(* The stacks of two terminals have no process in common. *)
LEMMA StacksApart ==
  ASSUME TypeOK, FamilyTree, StackInv, NEW t \in Terms, NEW u \in Terms, t # u,
         terminals[t].running = 1, terminals[u].running = 1
  PROVE  \A i \in 1 .. Len(Chain(t)), j \in 1 .. Len(Chain(u)) :
           Chain(t)[i] # Chain(u)[j]
  <1>1. procs \in SUBSET Pids
    BY DEF TypeOK
  <1>2. /\ IsStack(pcb, procs, terminals[t].pid, Chain(t))
        /\ IsStack(pcb, procs, terminals[u].pid, Chain(u))
    BY DEF StackInv
  <1>3. terminals[t].pid # terminals[u].pid
    BY DEF FamilyTree, Roots
  <1>4. QED
    BY <1>1, <1>2, <1>3, OnePlace

-----------------------------------------------------------------------------
(* What a step does to the stacks *)

(* Of the living processes only some in the stack of t are touched. *)
Touches(t, touched) ==
    /\ touched # {} => terminals[t].running = 1
    /\ \A x \in touched : \E i \in 1 .. Len(Chain(t)) : Chain(t)[i] = x
    /\ \A x \in procs \ touched : /\ x \in procs'
                                  /\ pcb'[x].child_pcb = pcb[x].child_pcb
                                  /\ pcb'[x].parent_pid = pcb[x].parent_pid
    /\ \A u \in Terms \ {t} : /\ terminals'[u].pid = terminals[u].pid
                              /\ terminals'[u].running = terminals[u].running

(* Then the stacks of the other terminals stay. *)
LEMMA OthersKept ==
  ASSUME TypeOK, FamilyTree, StackInv, procs' \in SUBSET Pids,
         NEW t \in Terms, NEW touched, Touches(t, touched)
  PROVE  \A u \in Terms \ {t} :
           /\ Chain(u)' = Chain(u)
           /\ terminals'[u].running = 1 =>
                IsStack(pcb', procs', terminals'[u].pid, Chain(u)')
  <1> USE DEF Touches
  <1>1. SUFFICES ASSUME NEW u \in Terms \ {t}
                 PROVE  /\ Chain(u)' = Chain(u)
                        /\ terminals'[u].running = 1 =>
                             IsStack(pcb', procs', terminals'[u].pid, Chain(u)')
    OBVIOUS
  <1>2. ASSUME terminals[u].running = 1, NEW j \in 1 .. Len(Chain(u))
        PROVE  Chain(u)[j] \notin touched
    BY <1>1, <1>2, StacksApart
  <1>3. ASSUME NEW j \in 1 .. Len(Chain(u)), Chain(u)[j] \in procs
        PROVE  /\ Chain(u)[j] \in procs'
               /\ pcb'[Chain(u)[j]].child_pcb = pcb[Chain(u)[j]].child_pcb
               /\ pcb'[Chain(u)[j]].parent_pid = pcb[Chain(u)[j]].parent_pid
    <2>1. terminals[u].running = 1
      <3>1. SUFFICES ASSUME terminals[u].running # 1 PROVE FALSE
        OBVIOUS
      <3>2. Chain(u) = <<>>
        BY <3>1, ChainPath
      <3>3. QED
        BY <1>3, <3>2
    <2>2. QED
      BY <1>2, <1>3, <2>1
  <1>4. QED
    BY <1>1, <1>3, OtherStack

(* A call of execute. *)
LEMMA CallStacks ==
  ASSUME TypeOK, FamilyTree, StackInv, NEW p \in Pids \ procs, NEW r \in procs,
         AddsChild(p, r)
  PROVE  /\ StackInv'
         /\ \E t \in Terms : /\ Chain(t) \in Seq(procs) /\ Len(Chain(t)) >= 1
                             /\ Chain(t)[Len(Chain(t))] = r
                             /\ Chain(t)' = Append(Chain(t), p)
                             /\ \A u \in Terms \ {t} : Chain(u)' = Chain(u)
  <1>1. /\ procs \in SUBSET Pids /\ procs' \in SUBSET Pids
        /\ procs' = procs \cup {p} /\ p \notin procs /\ pcb[r].child_pcb = None
        /\ \A q \in procs : /\ pcb'[q].parent_pid = pcb[q].parent_pid
                            /\ q # r => pcb'[q].child_pcb = pcb[q].child_pcb
        /\ pcb'[r].child_pcb = p /\ pcb'[p].parent_pid = r /\ pcb'[p].child_pcb = None
        /\ \A u \in Terms : /\ terminals'[u].pid = terminals[u].pid
                            /\ terminals'[u].running = terminals[u].running
    BY DEF TypeOK, AddsChild
  <1>2. PICK t \in Terms : /\ terminals[t].running = 1
                           /\ IsStack(pcb, procs, terminals[t].pid, Chain(t))
                           /\ Chain(t)[Len(Chain(t))] = r
    BY <1>1, LeafOnTop
  <1>3. PICK s : s = Chain(t)
    OBVIOUS
  <1>4. s \in Seq(procs) /\ Len(s) \in Nat /\ Len(s) >= 1 /\ s[Len(s)] = r
    BY <1>2, <1>3 DEF IsStack
  <1>5. IsStack(pcb', procs', terminals'[t].pid, Append(s, p))
    <2>1. IsStack(pcb', procs \cup {p}, terminals[t].pid, Append(s, p))
      <3>1. IsStack(pcb, procs, terminals[t].pid, s)
        BY <1>2, <1>3
      <3>2. Grows(pcb, pcb', procs, s, p)
        BY <1>1, <1>4 DEF Grows
      <3>3. QED
        BY <1>1, <3>1, <3>2, GrowStack
    <2>2. QED
      BY <1>1, <2>1
  <1>6. Chain(t)' = Append(s, p)
    <2>1. procs' \in SUBSET Pids /\ terminals'[t].running = 1
      BY <1>1, <1>2
    <2>2. QED
      BY <1>5, <2>1, NextChain, Zenon
  <1>7. \A u \in Terms \ {t} :
          /\ Chain(u)' = Chain(u)
          /\ terminals'[u].running = 1 =>
               IsStack(pcb', procs', terminals'[u].pid, Chain(u)')
    <2>1. Len(Chain(t)) \in 1 .. Len(Chain(t))
      BY <1>3, <1>4
    <2>2. \A x \in {r} : \E i \in 1 .. Len(Chain(t)) : Chain(t)[i] = x
      BY <1>2, <2>1
    <2>3. \A x \in procs \ {r} : /\ x \in procs'
                                 /\ pcb'[x].child_pcb = pcb[x].child_pcb
                                 /\ pcb'[x].parent_pid = pcb[x].parent_pid
      BY <1>1
    <2>4. Touches(t, {r})
      BY <1>1, <1>2, <2>2, <2>3 DEF Touches
    <2>5. QED
      BY <1>1, <2>4, OthersKept
  <1>8. StackInv'
    BY <1>5, <1>6, <1>7 DEF StackInv
  <1>9. QED
    BY <1>3, <1>4, <1>6, <1>7, <1>8

(* The end of a program that execute was called for. *)
LEMMA ReturnStacks ==
  ASSUME TypeOK, FamilyTree, StackInv, NEW p \in procs, NEW r \in procs,
         DropsLeaf(p, r)
  PROVE  /\ StackInv'
         /\ \E t \in Terms :
              /\ Chain(t) \in Seq(procs) /\ Len(Chain(t)) > 1
              /\ Chain(t)[Len(Chain(t))] = p
              /\ Chain(t)[Len(Chain(t)) - 1] = r
              /\ Chain(t)' = SubSeq(Chain(t), 1, Len(Chain(t)) - 1)
              /\ \A u \in Terms \ {t} : Chain(u)' = Chain(u)
  <1>1. /\ procs \in SUBSET Pids /\ procs' \in SUBSET Pids
        /\ procs' = procs \ {p} /\ pcb[p].child_pcb = None
        /\ pcb[p].parent_pid = r /\ r # None
        /\ \A q \in procs : /\ pcb'[q].parent_pid = pcb[q].parent_pid
                            /\ q # r => pcb'[q].child_pcb = pcb[q].child_pcb
        /\ pcb'[r].child_pcb = None
        /\ \A u \in Terms : /\ terminals'[u].pid = terminals[u].pid
                            /\ terminals'[u].running = terminals[u].running
    BY Zero DEF TypeOK, DropsLeaf
  <1>2. PICK t \in Terms : /\ terminals[t].running = 1
                           /\ IsStack(pcb, procs, terminals[t].pid, Chain(t))
                           /\ Chain(t)[Len(Chain(t))] = p
    BY <1>1, LeafOnTop
  <1>3. PICK s : s = Chain(t)
    OBVIOUS
  <1>4. /\ s \in Seq(procs) /\ Len(s) \in Nat /\ Len(s) >= 1 /\ s[Len(s)] = p
        /\ IsStack(pcb, procs, terminals[t].pid, s)
    BY <1>2, <1>3 DEF IsStack
  <1>5. /\ Len(s) > 1 /\ s[Len(s) - 1] = r
        /\ IsStack(pcb', procs', terminals'[t].pid, SubSeq(s, 1, Len(s) - 1))
    <2>1. Shrinks(pcb, pcb', procs, s, p)
      BY <1>1, <1>4 DEF Shrinks
    <2>2. procs \in SUBSET Pids /\ IsStack(pcb, procs, terminals[t].pid, s)
      BY <1>1, <1>4
    <2>3. IsStack(pcb', procs \ {p}, terminals[t].pid, SubSeq(s, 1, Len(s) - 1))
      BY <2>1, <2>2, ShrinkStack
    <2>4. PICK n \in Nat : n = Len(s) /\ n >= 1
      BY <1>4
    <2>5. n \in 1 .. n /\ (n # 1 => n > 1)
      BY <2>4
    <2>6. Place(pcb, procs, terminals[t].pid, s, n)
      BY <2>2, <2>4, <2>5, StackPlaces
    <2>7. n # 1 /\ s[n - 1] = r
      BY <1>1, <1>4, <2>4, <2>6 DEF Place
    <2>8. QED
      BY <1>1, <2>3, <2>4, <2>5, <2>7
  <1>6. Chain(t)' = SubSeq(s, 1, Len(s) - 1)
    BY <1>1, <1>2, <1>5, NextChain
  <1>7. \A u \in Terms \ {t} :
          /\ Chain(u)' = Chain(u)
          /\ terminals'[u].running = 1 =>
               IsStack(pcb', procs', terminals'[u].pid, Chain(u)')
    <2>1. Len(Chain(t)) \in 1 .. Len(Chain(t)) /\ Len(Chain(t)) - 1 \in 1 .. Len(Chain(t))
      BY <1>3, <1>4, <1>5
    <2>2. \A x \in {p, r} : \E i \in 1 .. Len(Chain(t)) : Chain(t)[i] = x
      BY <1>2, <1>3, <1>5, <2>1
    <2>3. \A x \in procs \ {p, r} : /\ x \in procs'
                                    /\ pcb'[x].child_pcb = pcb[x].child_pcb
                                    /\ pcb'[x].parent_pid = pcb[x].parent_pid
      BY <1>1
    <2>4. Touches(t, {p, r})
      BY <1>1, <1>2, <2>2, <2>3 DEF Touches
    <2>5. QED
      BY <1>1, <2>4, OthersKept
  <1>8. StackInv'
    BY <1>5, <1>6, <1>7 DEF StackInv
  <1>9. QED
    BY <1>3, <1>4, <1>5, <1>6, <1>7, <1>8

(* A shell that irqh_pit executes for a terminal without one. *)
LEMMA OpenStacks ==
  ASSUME TypeOK, FamilyTree, StackInv, NEW p \in Pids \ procs, NEW t \in Terms,
         AddsRoot(p, t)
  PROVE  /\ StackInv'
         /\ Chain(t) = <<>> /\ Chain(t)' = <<p>>
         /\ \A u \in Terms \ {t} : Chain(u)' = Chain(u)
  <1>1. /\ procs \in SUBSET Pids /\ procs' \in SUBSET Pids
        /\ procs' = procs \cup {p} /\ p \notin procs /\ terminals[t].running # 1
        /\ \A q \in procs : /\ pcb'[q].parent_pid = pcb[q].parent_pid
                            /\ pcb'[q].child_pcb = pcb[q].child_pcb
        /\ pcb'[p].parent_pid = None /\ pcb'[p].child_pcb = None
        /\ terminals'[t].pid = p /\ terminals'[t].running = 1
        /\ \A u \in Terms \ {t} : /\ terminals'[u].pid = terminals[u].pid
                                  /\ terminals'[u].running = terminals[u].running
    BY DEF TypeOK, AddsRoot
  <1>2. Chain(t) = <<>>
    BY <1>1, ChainPath
  <1>3. IsStack(pcb', procs', terminals'[t].pid, <<p>>)
    <2>1. <<p>> \in Seq(procs') /\ Len(<<p>>) = 1 /\ <<p>>[1] = p
      BY <1>1
    <2>2. QED
      BY <1>1, <2>1 DEF IsStack
  <1>4. Chain(t)' = <<p>>
    BY <1>1, <1>3, NextChain
  <1>5. \A u \in Terms \ {t} :
          /\ Chain(u)' = Chain(u)
          /\ terminals'[u].running = 1 =>
               IsStack(pcb', procs', terminals'[u].pid, Chain(u)')
    <2>1. Touches(t, {})
      BY <1>1 DEF Touches
    <2>2. QED
      BY <1>1, <2>1, OthersKept
  <1>6. StackInv'
    BY <1>3, <1>4, <1>5 DEF StackInv
  <1>7. QED
    BY <1>2, <1>4, <1>5, <1>6

-----------------------------------------------------------------------------
(* The refinement *)

(* The terminals' stacks, and how the abstract specification sees a state. *)
Programs == [t \in Terms |-> Chain(t)]

(* Its two variables. *)
LEMMA View ==
  /\ Stacks!vars = <<Programs, On>>
  /\ Stacks!vars' = <<Programs', On'>>
  BY DEF Stacks!vars, Programs, On

(* Pids that are not taken are in no stack. *)
LEMMA FreeUnused ==
  ASSUME TypeOK, StackInv, NEW p \in Pids \ procs
  PROVE  p \in Pids \ Stacks!Used
  <1>1. ASSUME NEW t \in Terms, NEW i \in 1 .. Len(Chain(t))
        PROVE  Chain(t)[i] \in procs
    <2>1. CASE terminals[t].running = 1
      BY <1>1, <2>1, StackPlaces DEF StackInv, TypeOK, Place
    <2>2. CASE terminals[t].running # 1
      <3>1. Chain(t) = <<>>
        BY <2>2, ChainPath
      <3>2. QED
        BY <1>1, <3>1
    <2>3. QED
      BY <2>1, <2>2
  <1>2. SUFFICES ASSUME p \in Stacks!Used PROVE FALSE
    OBVIOUS
  <1>3. PICK t \in Terms : p \in {Programs[t][i] : i \in 1 .. Len(Programs[t])}
    BY <1>2 DEF Stacks!Used, Programs
  <1>4. Programs[t] = Chain(t)
    BY DEF Programs
  <1>5. PICK i \in 1 .. Len(Chain(t)) : p = Chain(t)[i]
    BY <1>3, <1>4
  <1>6. QED
    BY <1>1, <1>5

(* Every move is a step of the stacks. *)
LEMMA MovesImplement ==
  ASSUME Inv, StackInv, Moves
  PROVE  StackInv' /\ [Stacks!Next]_Stacks!vars
  <1>1. TypeOK /\ FamilyTree /\ procs \in SUBSET Pids
    BY DEF Inv, CalmInv, TypeOK
  <1>2. Executing => /\ cpu.proc \in procs /\ On = cpu.proc /\ On # None
                     /\ pcb[cpu.proc].child_pcb = None
    BY <1>1, Zero DEF Inv, CalmInv, CpuInv, Executing, On
  <1>3. \A t \in Terms : Programs[t] = Chain(t) /\ Programs'[t] = Chain(t)'
    BY DEF Programs
  <1>4. CASE /\ SameTree
             /\ \/ On' = On
                \/ Executing /\ On' = None
                \/ /\ On = None
                   /\ running_pid \in procs /\ pcb[running_pid].child_pcb = None
                   /\ On' = running_pid
    <2>1. StackInv' /\ \A t \in Terms : Chain(t)' = Chain(t)
      BY <1>1, <1>4, KeepStacks
    <2>2. Programs' = Programs
      BY <2>1 DEF Programs
    <2>3. CASE On' = On
      BY <2>1, <2>2, <2>3, View
    <2>4. CASE Executing /\ On' = None
      <3>1. Stacks!Preempt
        BY <1>2, <2>2, <2>4 DEF Stacks!Preempt, Programs, On
      <3>2. QED
        BY <2>1, <3>1 DEF Stacks!Next
    <2>5. CASE /\ On = None
               /\ running_pid \in procs /\ pcb[running_pid].child_pcb = None
               /\ On' = running_pid
      <3>1. PICK t \in Terms : /\ terminals[t].running = 1
                               /\ IsStack(pcb, procs, terminals[t].pid, Chain(t))
                               /\ Chain(t)[Len(Chain(t))] = running_pid
        BY <1>1, <2>5, LeafOnTop
      <3>2. Chain(t) # <<>>
        BY <3>1 DEF IsStack
      <3>3. Stacks!Schedule(t)
        BY <1>3, <2>2, <2>5, <3>1, <3>2 DEF Stacks!Schedule, Stacks!Top, Programs, On
      <3>4. QED
        BY <2>1, <3>3 DEF Stacks!Next
    <2>6. QED
      BY <1>4, <2>3, <2>4, <2>5
  <1>5. CASE /\ Executing
             /\ \E p \in Pids \ procs : AddsChild(p, cpu.proc) /\ On' = p
    <2>1. PICK p \in Pids \ procs : AddsChild(p, cpu.proc) /\ On' = p
      BY <1>5
    <2>2. /\ StackInv'
          /\ \E t \in Terms : /\ Chain(t) \in Seq(procs) /\ Len(Chain(t)) >= 1
                              /\ Chain(t)[Len(Chain(t))] = cpu.proc
                              /\ Chain(t)' = Append(Chain(t), p)
                              /\ \A u \in Terms \ {t} : Chain(u)' = Chain(u)
      BY <1>1, <1>2, <1>5, <2>1, CallStacks
    <2>3. PICK t \in Terms : /\ Chain(t) \in Seq(procs) /\ Len(Chain(t)) >= 1
                             /\ Chain(t)[Len(Chain(t))] = cpu.proc
                             /\ Chain(t)' = Append(Chain(t), p)
                             /\ \A u \in Terms \ {t} : Chain(u)' = Chain(u)
      BY <2>2
    <2>4. Chain(t) # <<>>
      BY <2>3
    <2>5. Programs' = [Programs EXCEPT ![t] = Append(@, p)]
      BY <2>3 DEF Programs
    <2>6. p \in Pids \ Stacks!Used
      BY <1>1, FreeUnused
    <2>7. Stacks!Call(t, p)
      BY <1>2, <1>3, <1>5, <2>1, <2>3, <2>4, <2>5, <2>6
         DEF Stacks!Call, Stacks!Top, Programs, On
    <2>8. QED
      BY <2>2, <2>7 DEF Stacks!Next
  <1>6. CASE \E p \in Pids \ procs, t \in Terms : AddsRoot(p, t) /\ On' = p
    <2>1. PICK p \in Pids \ procs, t \in Terms : AddsRoot(p, t) /\ On' = p
      BY <1>6
    <2>2. /\ StackInv' /\ Chain(t) = <<>> /\ Chain(t)' = <<p>>
          /\ \A u \in Terms \ {t} : Chain(u)' = Chain(u)
      BY <1>1, <2>1, OpenStacks
    <2>3. Programs' = [Programs EXCEPT ![t] = <<p>>]
      BY <2>2 DEF Programs
    <2>4. p \in Pids \ Stacks!Used
      BY <1>1, FreeUnused
    <2>5. Stacks!Open(t, p)
      BY <1>3, <2>1, <2>2, <2>3, <2>4 DEF Stacks!Open, Programs, On
    <2>6. QED
      BY <2>2, <2>5 DEF Stacks!Next
  <1>7. CASE /\ Executing
             /\ \E r \in procs : DropsLeaf(cpu.proc, r) /\ On' = r
    <2>1. PICK r \in procs : DropsLeaf(cpu.proc, r) /\ On' = r
      BY <1>7
    <2>2. PICK p \in procs : p = cpu.proc /\ On = p
      BY <1>2, <1>7
    <2>3. /\ StackInv'
          /\ \E t \in Terms :
               /\ Chain(t) \in Seq(procs) /\ Len(Chain(t)) > 1
               /\ Chain(t)[Len(Chain(t))] = p
               /\ Chain(t)[Len(Chain(t)) - 1] = r
               /\ Chain(t)' = SubSeq(Chain(t), 1, Len(Chain(t)) - 1)
               /\ \A u \in Terms \ {t} : Chain(u)' = Chain(u)
      BY <1>1, <2>1, <2>2, ReturnStacks
    <2>4. PICK t \in Terms :
               /\ Chain(t) \in Seq(procs) /\ Len(Chain(t)) > 1
               /\ Chain(t)[Len(Chain(t))] = p
               /\ Chain(t)[Len(Chain(t)) - 1] = r
               /\ Chain(t)' = SubSeq(Chain(t), 1, Len(Chain(t)) - 1)
               /\ \A u \in Terms \ {t} : Chain(u)' = Chain(u)
      BY <2>3
    <2>5. Programs' = [Programs EXCEPT ![t] = SubSeq(@, 1, Len(@) - 1)]
      BY <2>4 DEF Programs
    <2>6. Stacks!Return(t)
      BY <1>3, <2>1, <2>2, <2>4, <2>5
         DEF Stacks!Return, Stacks!Top, Stacks!Pop, Programs, On
    <2>7. QED
      BY <2>3, <2>6 DEF Stacks!Next
  <1>8. QED
    BY <1>4, <1>5, <1>6, <1>7 DEF Moves

(* The first shell is alone on its stack. *)
LEMMA StackInit == Init => StackInv /\ Stacks!Init
  <1> SUFFICES ASSUME Init PROVE StackInv /\ Stacks!Init
    OBVIOUS
  <1>1. 0 \in Pids /\ 0 \in Terms /\ {0} \in SUBSET Pids
    BY Zero
  <1>2. /\ procs = {0} /\ pcb[0].parent_pid = None /\ pcb[0].child_pcb = None
        /\ \A t \in Terms : /\ terminals[t].pid = 0
                            /\ terminals[t].running = 1 <=> t = 0
        /\ On = 0
    BY <1>1 DEF Init, ZeroPcb, Context, On
  <1>3. IsStack(pcb, procs, 0, <<0>>)
    <2>1. <<0>> \in Seq({0}) /\ Len(<<0>>) = 1 /\ <<0>>[1] = 0
      OBVIOUS
    <2>2. QED
      BY <1>2, <2>1 DEF IsStack
  <1>4. Path(pcb, 0) = <<0>>
    BY <1>1, <1>2, <1>3, PathIs
  <1>5. \A t \in Terms : Chain(t) = IF t = 0 THEN <<0>> ELSE <<>>
    BY <1>2, <1>4, ChainPath
  <1>6. StackInv
    BY <1>2, <1>3, <1>5 DEF StackInv
  <1>7. Stacks!Init
    BY <1>1, <1>2, <1>5 DEF Stacks!Init, On
  <1>8. QED
    BY <1>6, <1>7

(* For any number of pids and terminals, as long as none of the awkward    *)
(* situations comes about: the pid table, the PCB links, the terminal      *)
(* table and the saved stack pointers, which execute, halt and irqh_pit    *)
(* change in separate places, implement one stack of programs per terminal *)
(* of which only a top one executes.                                       *)
THEOREM KernelImplementsStacks ==
  ASSUME Env = {}
  PROVE  Spec => ImplementsStacks
  <1>1. Inv /\ StackInv /\ [Next]_vars => StackInv' /\ [Stacks!Next]_Stacks!vars
    BY CalmStep, MovesImplement
  <1>2. QED
    BY <1>1, StackInit, AlwaysInv, PTL DEF Spec, ImplementsStacks, Stacks!Spec

=============================================================================
