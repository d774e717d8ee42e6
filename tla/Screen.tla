------------------------------- MODULE Screen -------------------------------
(***************************************************************************)
(* Screen output (lib.c, terminal_write), terminal switching               *)
(* (terminal_driver.c), the page tables that decide where a write to video *)
(* memory goes (paging.c, vidmap, the scheduler's remapping in pit.c).     *)
(*                                                                         *)
(* Four physical pages matter: the one the VGA shows and a buffer for each *)
(* terminal, on which a terminal not on display is kept.  The kernel       *)
(* writes at the virtual address VIDEO, or straight into a buffer, and a   *)
(* program that called vidmap at an address of its own; what lies behind   *)
(* the virtual addresses depends on the process that is running.           *)
(*                                                                         *)
(* Processes are what Kernel is shown to make of them: a stack of programs *)
(* for each terminal, of which the top one runs.  Kernel shows it without  *)
(* its situations startup and rootexit, in which the links are no stacks   *)
(* any more; so they are outside this model too, whatever Env is: while    *)
(* the terminal on display waits for its shell no program calls execute    *)
(* and no Alt+Fn is pressed (execute, AltFn), and no shell exits but that  *)
(* of terminal 0, on display (HaltRoot).  The timer interrupt is           *)
(* one step: irqh_pit turns interrupts on (map_vid_mem ends with sti), but *)
(* the PIC holds every other interrupt back until send_eoi.                *)
(***************************************************************************)
EXTENDS Integers, FiniteSets

CONSTANTS
    MAX_PID_COUNT,   \* syscall.h, 8
    TERMINAL_NUM,    \* terminal_driver.h, 3
    NUM_ROWS,        \* lib.h, 25
    NUM_COLS,        \* lib.h, 80
    Chars,           \* visible characters
    Blank,           \* the space
    Env,             \* which awkward situations come about
    MaxOutput        \* bound: how many characters are ever put out

(***************************************************************************)
(*   bgcall    a program executes another, or halts, in the background     *)
(*   vidchild  a program that has called vidmap executes another           *)
(*   corner    a background program sends a backspace at the top left      *)
(*   echotick  a timer tick hits the echo of a key that has remapped video *)
(*             memory                                                      *)
(*   skip      Alt+Fn asks for a terminal while a lower one has no shell   *)
(*   full      there is no pid for the shell of a terminal just shown      *)
(***************************************************************************)
Situations == {"bgcall", "vidchild", "corner", "echotick", "skip", "full"}

U16 == 65536                   \* screen_x and screen_y are of this width

ASSUME SizeAssumption ==
    /\ MAX_PID_COUNT \in Nat \ {0} /\ TERMINAL_NUM \in Nat \ {0}
    /\ NUM_ROWS \in Nat \ {0} /\ NUM_COLS \in Nat \ {0} /\ NUM_COLS < U16
    /\ MaxOutput \in Nat
ASSUME CharAssumption ==
    /\ Blank \notin Chars
    /\ (Chars \cup {Blank}) \cap {"newline", "backspace", "clear"} = {}
ASSUME EnvAssumption == Env \subseteq Situations

None  == -1
Pids  == 0 .. MAX_PID_COUNT - 1
Terms == 0 .. TERMINAL_NUM - 1
Cells == 0 .. NUM_ROWS * NUM_COLS - 1

VIDEO  == 0                   \* the page on the screen
Buf(t) == t + 1               \* vid_mem_buf, the pages next to it
Pages  == 0 .. TERMINAL_NUM

VARIABLES
    mem,                      \* the characters on each physical page
    screen,                   \* screen_x and screen_y
    vga,                      \* the cursor the VGA shows
    terminals,                \* screen_x/y, vidmap, status; top program
    current_terminal,         \* the terminal on display
    terminal_to_switch_to,    \* set by the keyboard, consumed by the PIT
    current_schedule,
    running_pid,
    pcb,                      \* the terminal and the parent of a program
    video,                    \* for each process, the page behind VIDEO
    user,                     \* and behind the address vidmap returns
    echo,                     \* the putc or clear that has remapped VIDEO
    output                    \* characters put out so far

display == <<mem, screen, vga>>
process == <<running_pid, pcb>>
paging  == <<video, user>>
control == <<current_terminal, terminal_to_switch_to, current_schedule>>
vars    == <<display, process, paging, control, terminals, echo, output>>

NoEcho == [pid |-> None, c |-> Blank, term |-> None]

Live         == {p \in Pids : pcb[p].term # None}
RunTerm      == pcb[running_pid].term
Started(t)   == terminals[t].top # None

-----------------------------------------------------------------------------
(* Positions and the pages they are on. *)

Origin  == [x |-> 0, y |-> 0]
At(pos) == NUM_COLS * pos.y + pos.x

(* A store past the end of the screen hits no page that is ever shown. *)
Store(m, pg, pos, c) ==
    IF At(pos) \in Cells THEN [m EXCEPT ![pg][At(pos)] = c] ELSE m

scroll_up(m, pg) ==
    [m EXCEPT ![pg] = [n \in Cells |-> IF n + NUM_COLS \in Cells
                                       THEN m[pg][n + NUM_COLS] ELSE Blank]]

(* Mutant: the test of set_terminal_screen_xy. *)
EitherValid(old, new) ==
    IF new.y >= NUM_ROWS /\ new.x >= NUM_COLS THEN old ELSE new

set_screen_xy(old, new) ==
    IF new.y < NUM_ROWS /\ new.x < NUM_COLS THEN new ELSE old

(* The test says "and" where the one above says "or". *)
set_terminal_screen_xy(old, new) ==
    IF new.y >= NUM_ROWS /\ new.x >= NUM_COLS THEN old ELSE new

(* What putc and terminal_putc share: the memory and the position after a  *)
(* newline, with VIDEO on page map; after a character stored on page pg;   *)
(* and the position a backspace goes to.                                   *)
Newline(m, pos, map) ==
    [mem |-> IF pos.y < NUM_ROWS - 1 THEN m ELSE scroll_up(m, map),
     pos |-> [x |-> 0, y |-> IF pos.y < NUM_ROWS - 1 THEN pos.y + 1 ELSE pos.y]]

PutChar(m, pos, map, pg, c) ==
    LET put == Store(m, pg, pos, c)
        x   == (pos.x + 1) % U16
    IN  IF x < NUM_COLS
        THEN [mem |-> put, pos |-> [x |-> x, y |-> pos.y]]
        ELSE IF pos.y = NUM_ROWS - 1
        THEN [mem |-> scroll_up(put, map), pos |-> [x |-> x % NUM_COLS, y |-> pos.y]]
        ELSE [mem |-> put, pos |-> [x |-> x % NUM_COLS,
                                    y |-> (pos.y + x \div NUM_COLS) % NUM_ROWS]]

Back(pos) ==
    IF pos.x = 0 /\ pos.y > 0 THEN [x |-> NUM_COLS - 1, y |-> pos.y - 1]
                              ELSE [x |-> (pos.x - 1) % U16, y |-> pos.y]

(* putc's backspace: the position moves only if the new one is valid.      *)
BackOnDisplay(m, pos, map) ==
    LET new == set_screen_xy(pos, Back(pos))
    IN  [mem |-> Store(m, map, new, Blank), pos |-> new]

BackInBackground(m, pos, map) ==
    LET new == set_terminal_screen_xy(pos, Back(pos))
    IN  [mem |-> Store(m, map, new, Blank), pos |-> new]

(* In page table v, process p gets page pg behind the address. *)
map_vid_mem(v, p, pg) == [v EXCEPT ![p] = pg]

(* clear: every cell of the page behind VIDEO. *)
Cleared(m, map) ==
    [mem |-> [m EXCEPT ![map] = [n \in Cells |-> Blank]], pos |-> Origin]

-----------------------------------------------------------------------------
(* Output on the terminal on display, at screen_x and screen_y. *)

Outputs == Chars \cup {"newline", "backspace"}

OnDisplay(c, map) ==
    CASE c = "newline"   -> Newline(mem, screen, map)
      [] c = "backspace" -> BackOnDisplay(mem, screen, map)
      [] c = "clear"     -> Cleared(mem, map)
      [] OTHER           -> PutChar(mem, screen, map, map, c)

PutOnDisplay(c, map) ==
    /\ mem'    = OnDisplay(c, map).mem
    /\ screen' = OnDisplay(c, map).pos
    /\ vga'    = OnDisplay(c, map).pos

Count ==
    /\ output < MaxOutput
    /\ output' = output + 1

(* The running program executes, rather than an echo it was interrupted by. *)
InProgram == echo.pid # running_pid

(* putc and clear, called for a key; a tab is printed as a space, which is *)
(* a character like the others here, and NUL is ignored.  A process in the *)
(* background is first given the screen behind VIDEO, and map_vid_mem      *)
(* returns with interrupts on.                                             *)
putc(c) ==
    /\ echo = NoEcho
    /\ Count
    /\ IF RunTerm = current_terminal
       THEN /\ PutOnDisplay(c, video[running_pid])
            /\ UNCHANGED <<video, echo>>
       ELSE /\ video' = map_vid_mem(video, running_pid, VIDEO)
            /\ echo' = [pid |-> running_pid, c |-> c, term |-> RunTerm]
            /\ UNCHANGED display
    /\ UNCHANGED <<process, user, control, terminals>>

(* The rest of the call, once the process continues. *)
PutcEnd ==
    /\ echo.pid = running_pid
    /\ PutOnDisplay(echo.c, video[running_pid])
    /\ video' = map_vid_mem(video, running_pid, Buf(echo.term))
    /\ terminals' = IF echo.c = "clear"
                    THEN [terminals EXCEPT ![current_terminal].pos = Origin]
                    ELSE terminals
    /\ echo' = NoEcho
    /\ UNCHANGED <<process, user, control, output>>

(* terminal_write, a character at a time: it runs with interrupts off. *)
InBackground(c) ==
    LET t   == RunTerm
        pos == terminals[t].pos
        map == video[running_pid]
    IN  CASE c = "newline"   -> Newline(mem, pos, map)
          [] c = "backspace" -> BackInBackground(mem, pos, map)
          [] OTHER           -> PutChar(mem, pos, map, Buf(t), c)

terminal_putc(c) ==
    /\ InProgram
    /\ Count
    /\ IF RunTerm = current_terminal
       THEN /\ PutOnDisplay(c, video[running_pid])
            /\ UNCHANGED terminals
       ELSE /\ \/ "corner" \in Env
               \/ ~(c = "backspace" /\ terminals[RunTerm].pos = Origin)
            /\ mem' = InBackground(c).mem
            /\ terminals' = [terminals EXCEPT ![RunTerm].pos =
                               set_terminal_screen_xy(@, InBackground(c).pos)]
            /\ UNCHANGED <<screen, vga>>
    /\ UNCHANGED <<process, paging, control, echo>>

-----------------------------------------------------------------------------
(* vidmap, and a program that draws through what it returned. *)

Place(t, cur) == IF t = cur THEN VIDEO ELSE Buf(t)

vidmap ==
    /\ InProgram
    /\ terminals' = [terminals EXCEPT ![RunTerm].vidmap = 1]
    /\ user' = map_vid_mem(user, running_pid, Place(RunTerm, current_terminal))
    /\ UNCHANGED <<display, process, video, control, echo, output>>

Draw(n, c) ==
    /\ InProgram
    /\ Count
    /\ user[running_pid] # None
    /\ mem' = [mem EXCEPT ![user[running_pid]][n] = c]
    /\ UNCHANGED <<screen, vga, process, paging, control, terminals, echo>>

-----------------------------------------------------------------------------
(* execute and halt: what they do to page tables and to the terminal. *)

FirstFree(used, p) == p \in Pids \ used /\ \A q \in 0 .. p - 1 : q \in used

(* make_task_pgdir: every page behind its own address, page 0 absent. *)
make_task_pgdir(p) ==
    /\ video' = [video EXCEPT ![p] = VIDEO]
    /\ user'  = [user EXCEPT ![p] = None]

Create(f, p, t, parent) ==
    /\ pcb' = [f EXCEPT ![p] = [term |-> t, parent |-> parent]]
    /\ running_pid' = p
    /\ make_task_pgdir(p)

execute ==
    /\ InProgram
    /\ Started(current_terminal)
    /\ "bgcall" \in Env \/ RunTerm = current_terminal
    /\ "vidchild" \in Env \/ user[running_pid] = None
    /\ \E p \in Pids :
         /\ FirstFree(Live, p)
         /\ Create(pcb, p, RunTerm, running_pid)
         /\ terminals' = [terminals EXCEPT ![RunTerm].top = p]
    /\ UNCHANGED <<display, control, echo, output>>

Dead == [term |-> None, parent |-> None]

(* The parent continues with the page table it had when it called execute. *)
HaltChild ==
    /\ InProgram
    /\ pcb[running_pid].parent # None
    /\ "bgcall" \in Env \/ RunTerm = current_terminal
    /\ running_pid' = pcb[running_pid].parent
    /\ pcb' = [pcb EXCEPT ![running_pid] = Dead]
    /\ terminals' = [terminals EXCEPT ![RunTerm].top = pcb[running_pid].parent,
                                      ![RunTerm].vidmap = 0]
    /\ UNCHANGED <<display, paging, control, echo, output>>

(* The shell of the terminal booted first exits and is started again; the  *)
(* exit of another, or in the background, is rootexit of Kernel.           *)
HaltRoot ==
    /\ InProgram
    /\ pcb[running_pid].parent = None
    /\ RunTerm = 0 /\ current_terminal = 0
    /\ \E p \in Pids :
         /\ FirstFree(Live \ {running_pid}, p)
         /\ Create([pcb EXCEPT ![running_pid] = Dead], p, 0, None)
         /\ terminals' = [terminals EXCEPT ![0].top = p]
    /\ UNCHANGED <<display, control, echo, output>>

-----------------------------------------------------------------------------
(* Switching terminals *)

(* Alt+Fn; before the terminal on display has its shell, startup of Kernel. *)
AltFn(t) ==
    /\ echo = NoEcho
    /\ Started(current_terminal)
    /\ "skip" \in Env \/ \A u \in 0 .. t - 1 : Started(u)
    /\ terminal_to_switch_to' = t
    /\ UNCHANGED <<display, process, paging, current_terminal,
                   current_schedule, terminals, echo, output>>

(* What switch_terminal, the first thing irqh_pit does, leaves on display. *)
Displayed == IF terminal_to_switch_to = None THEN current_terminal
                                             ELSE terminal_to_switch_to
Switching == Displayed # current_terminal

(* Mutant: the buffer of the new terminal is copied before the screen is saved. *)
CopyFirst == [mem EXCEPT ![Buf(current_terminal)] = mem[Buf(Displayed)],
                         ![VIDEO] = mem[Buf(Displayed)]]

(* restore_terminal's two copies *)
Copied == [mem EXCEPT ![Buf(current_terminal)] = mem[VIDEO],
                      ![VIDEO] = mem[Buf(Displayed)]]

(* restore_terminal; the interrupted process, whichever terminal it is in, *)
(* gets the buffer of the terminal that was on display behind VIDEO.       *)
SwitchDisplay ==
    IF Switching
    THEN /\ mem' = Copied
         /\ screen' = set_screen_xy(screen, terminals[Displayed].pos)
         /\ vga' = set_screen_xy(vga, terminals[Displayed].pos)
    ELSE UNCHANGED display

Remapped == IF Switching
            THEN map_vid_mem(video, running_pid, Buf(current_terminal))
            ELSE video

Shown == IF Switching
         THEN [terminals EXCEPT ![current_terminal].pos = screen,
                                ![Displayed].status = 1]
         ELSE terminals

(* The do-while loop stops at t, the next terminal that was ever shown. *)
NextScheduled(t) ==
    \E d \in 1 .. TERMINAL_NUM :
      /\ t = (current_schedule + d) % TERMINAL_NUM
      /\ Shown[t].status = 1
      /\ \A e \in 1 .. d - 1 :
           Shown[(current_schedule + e) % TERMINAL_NUM].status # 1

Tick(t) ==
    /\ echo = NoEcho \/ "echotick" \in Env
    /\ NextScheduled(t)
    /\ SwitchDisplay
    /\ current_terminal' = Displayed
    /\ terminal_to_switch_to' = None
    /\ current_schedule' = t
    /\ UNCHANGED <<echo, output>>

PitStay(t) ==
    /\ Tick(t)
    /\ t = current_schedule
    /\ terminals' = Shown
    /\ video' = Remapped
    /\ UNCHANGED <<process, user>>

(* Mutant: the page behind vidmap's address is left alone. *)
NoVidmap(t, p) == user

scheduler_vidmap(t, p) ==
    IF Shown[t].vidmap = 1 THEN map_vid_mem(user, p, Place(t, Displayed)) ELSE user

PitSwitch(t) ==
    /\ Tick(t)
    /\ t # current_schedule
    /\ Started(t)
    /\ terminals' = Shown
    /\ running_pid' = terminals[t].top
    /\ user' = scheduler_vidmap(t, terminals[t].top)
    /\ video' = map_vid_mem(Remapped, terminals[t].top, Place(t, Displayed))
    /\ UNCHANGED pcb

(* The terminal has no shell yet.  execute gives the shell it starts to    *)
(* the first terminal that has none; without a free pid it returns, and    *)
(* the interrupted program continues.                                      *)
PitShell(t) ==
    /\ Tick(t)
    /\ t # current_schedule
    /\ ~Started(t)
    /\ \/ \E p \in Pids, u \in Terms :
            /\ FirstFree(Live, p)
            /\ ~Started(u) /\ \A w \in 0 .. u - 1 : Started(w)
            /\ pcb' = [pcb EXCEPT ![p] = [term |-> u, parent |-> None]]
            /\ running_pid' = p
            /\ video' = [Remapped EXCEPT ![p] = VIDEO]
            /\ user' = [user EXCEPT ![p] = None]
            /\ terminals' = [Shown EXCEPT ![u].top = p]
       \/ /\ Live = Pids
          /\ \/ "full" \in Env \/ ~Switching
             \/ RunTerm = current_terminal /\ user[running_pid] = None
          /\ terminals' = Shown
          /\ video' = Remapped
          /\ UNCHANGED <<process, user>>

-----------------------------------------------------------------------------
(* init_terminals, after main cleared the screen: the buffer of terminal 0 *)
(* is not cleared, its shell runs.                                         *)

Init ==
    /\ mem = [pg \in Pages |-> [n \in Cells |-> Blank]]
    /\ screen = Origin
    /\ vga = Origin
    /\ terminals = [t \in Terms |->
         [pos |-> Origin, vidmap |-> 0, status |-> IF t = 0 THEN 1 ELSE 0,
          top |-> IF t = 0 THEN 0 ELSE None]]
    /\ current_terminal = 0
    /\ terminal_to_switch_to = None
    /\ current_schedule = 0
    /\ running_pid = 0
    /\ pcb = [p \in Pids |-> IF p = 0 THEN [term |-> 0, parent |-> None] ELSE Dead]
    /\ video = [p \in Pids |-> VIDEO]
    /\ user = [p \in Pids |-> None]
    /\ echo = NoEcho
    /\ output = 0

Next ==
    \/ \E c \in Outputs : terminal_putc(c)
    \/ \E c \in Outputs \cup {"clear"} : putc(c)
    \/ PutcEnd
    \/ vidmap
    \/ \E n \in Cells, c \in Chars : Draw(n, c)
    \/ execute \/ HaltChild \/ HaltRoot
    \/ \E t \in Terms : AltFn(t) \/ PitStay(t) \/ PitSwitch(t) \/ PitShell(t)

Spec == Init /\ [][Next]_vars

-----------------------------------------------------------------------------
(* Properties *)

Position == [x : 0 .. U16 - 1, y : 0 .. NUM_ROWS - 1]

(* Every variable has its type; in particular the cursor of the terminal   *)
(* on display never leaves the screen.                                     *)
TypeOK ==
    /\ mem \in [Pages -> [Cells -> Chars \cup {Blank}]]
    /\ screen \in [x : 0 .. NUM_COLS - 1, y : 0 .. NUM_ROWS - 1]
    /\ vga \in [x : 0 .. NUM_COLS - 1, y : 0 .. NUM_ROWS - 1]
    /\ terminals \in [Terms -> [pos : Position, vidmap : {0, 1},
                                status : {0, 1}, top : Pids \cup {None}]]
    /\ current_terminal \in Terms
    /\ terminal_to_switch_to \in Terms \cup {None}
    /\ current_schedule \in Terms
    /\ running_pid \in Pids
    /\ pcb \in [Pids -> [term : Terms \cup {None}, parent : Pids \cup {None}]]
    /\ video \in [Pids -> Pages]
    /\ user \in [Pids -> Pages \cup {None}]
    /\ echo \in [pid : Pids, term : Terms, c : Outputs \cup {"clear"}] \cup {NoEcho}
    /\ output \in 0 .. MaxOutput

(* Whatever programs were started and ended, whichever terminals were      *)
(* shown and whoever was interrupted: while a program runs, VIDEO and the  *)
(* address vidmap returned lead to the screen if its terminal is on        *)
(* display and to its terminal's buffer if it is not.                      *)
Mapped ==
    InProgram => LET here == Place(RunTerm, current_terminal)
                 IN  /\ video[running_pid] = here
                     /\ user[running_pid] \in {None, here}

(* Where the characters of a terminal and its cursor are to be found.      *)
PageOf(t)   == mem[Place(t, current_terminal)]
CursorOf(t) == At(IF t = current_terminal THEN vga ELSE terminals[t].pos)

Separate == INSTANCE Screens WITH
    Term <- Terms, Rows <- NUM_ROWS, Cols <- NUM_COLS, Char <- Chars,
    page <- [t \in Terms |-> PageOf(t)],
    cursor <- [t \in Terms |-> CursorOf(t)],
    shown <- current_terminal, active <- RunTerm

(* The one screen, the buffers, the remapping and the copying implement a  *)
(* separate screen and cursor for every terminal: what a program puts out  *)
(* reaches its own terminal and no other.                                  *)
ImplementsScreens == Separate!Spec

=============================================================================
