--------------------------- MODULE LineDiscipline ---------------------------
(***************************************************************************)
(* The keyboard interrupt (keyboard.c, handle_keypress) and the read of a  *)
(* terminal (get_line_buf), which share a line buffer per terminal without *)
(* a lock.  Each terminal has one program that is not waiting for a child; *)
(* the scheduler lets them run in turn.                                    *)
(*                                                                         *)
(* The interrupt handler runs with interrupts off, on the stack of the     *)
(* program it hit, and is one action, unless that program belongs to a     *)
(* terminal that is not on display: then the echo remaps video memory,     *)
(* map_vid_mem returns with interrupts on, and a tick can take the CPU     *)
(* away inside the handler.  Until the handler comes back to send_eoi no   *)
(* further key gets in.  The read runs with interrupts on throughout.      *)
(*                                                                         *)
(* What the keyboard echoes, Ctrl+L's clearing of the screen and the       *)
(* choice of a character by shift and caps lock are left out.              *)
(***************************************************************************)
EXTENDS Integers, FiniteSets, Sequences

CONSTANTS
    TERMINAL_NUM,
    LINE_BUFFER_SIZE,   \* 128
    Newline,            \* '\n', 10 in the code
    Letters,            \* the other characters that can be typed
    Sizes,              \* the values of nbytes programs ask for
    MAX_HELD,           \* bound: how many modifier keys are down at a time
    Env                 \* which awkward situations come about

ASSUME TermAssumption   == TERMINAL_NUM \in Nat \ {0}
ASSUME BufferAssumption == LINE_BUFFER_SIZE \in Nat \ {0, 1}
ASSUME CharAssumption   ==
    /\ Newline \in 1 .. LINE_BUFFER_SIZE - 1
    /\ Letters \subseteq Nat \ {0, Newline}
ASSUME SizesAssumption  == Sizes \subseteq Nat \ {0}
ASSUME HeldAssumption   == MAX_HELD \in Nat

(***************************************************************************)
(*   typeahead  keys are typed after a newline and before the program has  *)
(*              taken its line                                             *)
(*   bump       a tick falls between the handler's store into the buffer   *)
(*              and its increment of the index                             *)
(***************************************************************************)
ASSUME EnvAssumption == Env \subseteq {"typeahead", "bump"}

Terms == 0 .. TERMINAL_NUM - 1
Cells == 0 .. LINE_BUFFER_SIZE - 1
None  == -1

(* The keys that make a difference: ext stands for the prefix of a         *)
(* multi-byte scancode, fn for the function keys.                          *)
Modifiers == {"bksp", "ctrl", "alt", "fn"}

VARIABLES
    line_buf, line_buf_index, read_flag,    \* of each terminal
    current_terminal, terminal_to_switch_to,
    current_schedule,   \* the terminal whose program has the CPU
    held,               \* the keys of Modifiers that are down in key_state
    multi_byte,
    kbd,                \* the interrupt handler, when it can be preempted
    reader              \* get_line_buf of each terminal, with its buf

buffers == <<line_buf, line_buf_index, read_flag>>
display == <<current_terminal, terminal_to_switch_to, current_schedule>>
keys    == <<held, multi_byte>>
vars    == <<buffers, display, keys, kbd, reader>>

-----------------------------------------------------------------------------
(* The program of terminal t runs, and no interrupt handler is on top. *)
Runs(t) == current_schedule = t /\ kbd.on # t

HasNewline(t) == \E i \in Cells : line_buf[t][i] = Newline

(* The program of terminal t has a line it did not take yet. *)
Answering(t) == HasNewline(t) \/ reader[t].at \notin {"user", "wait"}

Idle == [at |-> "idle", on |-> None, term |-> None, char |-> 0]

(* The handler has echoed, for terminal t: it is done if interrupts stayed *)
(* off, and otherwise stands at place, where a tick can hit it.            *)
Echoed(t, place, c) ==
    IF current_schedule = t THEN Idle
    ELSE [at |-> place, on |-> current_schedule, term |-> t, char |-> c]

(* A store through line_buf[i].  One past the end lies the low byte of     *)
(* line_buf_index, which the character then replaces.                      *)
Store(t, i, c) ==
    IF i \in Cells
    THEN /\ line_buf' = [line_buf EXCEPT ![t][i] = c]
         /\ UNCHANGED line_buf_index
    ELSE /\ line_buf_index' = [line_buf_index EXCEPT ![t] = c]
         /\ UNCHANGED line_buf

(* The same and the increment of line_buf_index in one go. *)
StoreAndBump(t, i, c) ==
    IF i \in Cells
    THEN /\ line_buf' = [line_buf EXCEPT ![t][i] = c]
         /\ line_buf_index' = [line_buf_index EXCEPT ![t] = i + 1]
    ELSE /\ line_buf_index' = [line_buf_index EXCEPT ![t] = c + 1]
         /\ UNCHANGED line_buf

(* Mutant: the test for a full buffer is missing. *)
AcceptsAlways(t, c) == t \in Terms /\ c # 0

(* A letter needs room for a newline after it. *)
Accepts(t, c) == line_buf_index[t] < LINE_BUFFER_SIZE - 1 \/ c = Newline

(* Mutant: backspace moves the index back but leaves the character. *)
BackspaceIndexOnly(t) ==
    /\ line_buf_index' = [line_buf_index EXCEPT ![t] = @ - 1]
    /\ kbd' = Echoed(t, "done", 0)
    /\ UNCHANGED line_buf

(* Backspace: the handler is done with the buffer before it echoes. *)
Backspace(t) ==
    LET i == line_buf_index[t] - 1 IN
    /\ line_buf_index' = [line_buf_index EXCEPT ![t] = i]
    /\ line_buf' = [line_buf EXCEPT ![t] =
                      [j \in Cells |-> IF j = i THEN 0 ELSE @[j]]]
    /\ kbd' = Echoed(t, "done", 0)

(* A character: echo first, then store it. *)
Character(t, c) ==
    /\ Accepts(t, c)
    /\ kbd' = Echoed(t, "echoed", c)
    /\ IF current_schedule = t
       THEN StoreAndBump(t, line_buf_index[t], c)
       ELSE UNCHANGED <<line_buf, line_buf_index>>

(* Mutant: backspace does not look whether there is a character. *)
EditUnguarded(t, c, down) ==
    IF read_flag[t] = 1 /\ "bksp" \in down
    THEN Backspace(t)
    ELSE IF read_flag[t] = 1 /\ c # 0 /\ Accepts(t, c)
    THEN Character(t, c)
    ELSE UNCHANGED <<line_buf, line_buf_index, kbd>>

(* What is left of handle_keypress for a key that is neither part of a     *)
(* switch of terminals nor Ctrl+L; c is its character, 0 if it has none.   *)
Edit(t, c, down) ==
    IF read_flag[t] = 1 /\ "bksp" \in down /\ line_buf_index[t] > 0
    THEN Backspace(t)
    ELSE IF read_flag[t] = 1 /\ "bksp" \notin down /\ c # 0 /\ Accepts(t, c)
    THEN Character(t, c)
    ELSE UNCHANGED <<line_buf, line_buf_index, kbd>>

-----------------------------------------------------------------------------
(* Keys *)

KeyIrq ==
    /\ kbd.at = "idle"
    /\ "typeahead" \in Env \/ ~Answering(current_terminal)

(* The prefix of a multi-byte scancode, and the code that follows it. *)
Prefix ==
    /\ KeyIrq
    /\ multi_byte' = 1 - multi_byte
    /\ UNCHANGED <<buffers, display, held, kbd, reader>>

Down(k) == held \cup ({k} \cap Modifiers)

(* Alt with a function key down asks for a switch on F1, F2 or F3 and      *)
(* otherwise swallows the key.                                             *)
PressSwitch(k) ==
    /\ KeyIrq /\ multi_byte = 0 /\ Cardinality(Down(k)) <= MAX_HELD
    /\ {"alt", "fn"} \subseteq Down(k)
    /\ held' = Down(k)
    /\ IF k = "fn"
       THEN \E t \in Terms \cup {terminal_to_switch_to} : terminal_to_switch_to' = t
       ELSE UNCHANGED terminal_to_switch_to
    /\ UNCHANGED <<buffers, current_terminal, current_schedule, multi_byte, kbd, reader>>

(* Any other modifier, or backspace, goes down. *)
PressModifier(k) ==
    /\ KeyIrq /\ multi_byte = 0 /\ Cardinality(Down(k)) <= MAX_HELD
    /\ ~({"alt", "fn"} \subseteq Down(k))
    /\ held' = Down(k)
    /\ Edit(current_terminal, 0, Down(k))
    /\ UNCHANGED <<read_flag, display, multi_byte, reader>>

(* A key with a character; while Ctrl is down it may be L, which clears the *)
(* screen instead.                                                         *)
PressCharacter(c) ==
    /\ KeyIrq /\ multi_byte = 0
    /\ ~({"alt", "fn"} \subseteq held)
    /\ \/ Edit(current_terminal, c, held)
       \/ /\ "ctrl" \in held /\ c \in Letters
          /\ kbd' = Echoed(current_terminal, "done", 0)
          /\ UNCHANGED <<line_buf, line_buf_index>>
    /\ UNCHANGED <<read_flag, display, keys, reader>>

Release(k) ==
    /\ KeyIrq /\ multi_byte = 0 /\ k \in held
    /\ held' = held \ {k}
    /\ UNCHANGED <<buffers, display, multi_byte, kbd, reader>>

(* The handler goes on after its echo, whenever its program has the CPU. *)
KbdStore ==
    /\ kbd.at = "echoed" /\ current_schedule = kbd.on
    /\ Store(kbd.term, line_buf_index[kbd.term], kbd.char)
    /\ kbd' = [kbd EXCEPT !.at = "stored"]
    /\ UNCHANGED <<read_flag, display, keys, reader>>

(* The increment is a load and a store; char holds the value in between. *)
KbdLoad ==
    /\ kbd.at = "stored" /\ current_schedule = kbd.on
    /\ kbd' = [kbd EXCEPT !.at = "loaded", !.char = line_buf_index[kbd.term]]
    /\ UNCHANGED <<buffers, display, keys, reader>>

KbdBump ==
    /\ kbd.at = "loaded" /\ current_schedule = kbd.on
    /\ line_buf_index' = [line_buf_index EXCEPT ![kbd.term] = kbd.char + 1]
    /\ kbd' = [kbd EXCEPT !.at = "done"]
    /\ UNCHANGED <<line_buf, read_flag, display, keys, reader>>

KbdEoi ==
    /\ kbd.at = "done" /\ current_schedule = kbd.on
    /\ kbd' = Idle
    /\ UNCHANGED <<buffers, display, keys, reader>>

-----------------------------------------------------------------------------
(* The read of a terminal *)

(* The local variables of get_line_buf and the caller's buf. *)
NoRead == [at |-> "user", nbytes |-> 0, nl_idx |-> 0, lenstr |-> 0,
           buf |-> [i \in 0 .. LINE_BUFFER_SIZE |-> 0]]

StartRead(t, n) ==
    /\ Runs(t) /\ reader[t].at = "user"
    /\ reader' = [reader EXCEPT ![t] = [NoRead EXCEPT !.at = "wait", !.nbytes = n]]
    /\ read_flag' = [read_flag EXCEPT ![t] = 1]
    /\ UNCHANGED <<line_buf, line_buf_index, display, keys, kbd>>

(* Mutant: the search stops one cell early. *)
FindNewlineShort(t) ==
    /\ Runs(t) /\ reader[t].at = "wait"
    /\ \E i \in 0 .. LINE_BUFFER_SIZE - 2 :
         /\ line_buf[t][i] = Newline
         /\ \A j \in 0 .. i - 1 : line_buf[t][j] # Newline
         /\ reader' = [reader EXCEPT ![t].at = "found", ![t].nl_idx = i]
    /\ UNCHANGED <<buffers, display, keys, kbd>>

(* contains_newline *)
FindNewline(t) ==
    /\ Runs(t) /\ reader[t].at = "wait"
    /\ \E i \in Cells :
         /\ line_buf[t][i] = Newline
         /\ \A j \in 0 .. i - 1 : line_buf[t][j] # Newline
         /\ reader' = [reader EXCEPT ![t].at = "found", ![t].nl_idx = i]
    /\ UNCHANGED <<buffers, display, keys, kbd>>

MIN(a, b) == IF a < b THEN a ELSE b

(* Mutant: the newline itself is not copied. *)
CopyUpToNewline(t) ==
    LET limit == MIN(reader[t].nl_idx, reader[t].nbytes) IN
    /\ Runs(t) /\ reader[t].at = "found"
    /\ reader' = [reader EXCEPT ![t].at = "copied", ![t].lenstr = limit,
                    ![t].buf = [i \in 0 .. LINE_BUFFER_SIZE |->
                      IF i < limit THEN line_buf[t][i] ELSE @[i]]]
    /\ UNCHANGED <<buffers, display, keys, kbd>>

(* The bytes of the line go to buf, and one newline behind them. *)
CopyLine(t) ==
    LET limit == MIN(reader[t].nl_idx + 1, reader[t].nbytes) IN
    /\ Runs(t) /\ reader[t].at = "found"
    /\ reader' = [reader EXCEPT ![t].at = "copied", ![t].lenstr = limit,
                    ![t].buf = [i \in 0 .. LINE_BUFFER_SIZE |->
                      IF i = MIN(reader[t].nbytes, LINE_BUFFER_SIZE) THEN Newline
                      ELSE IF i < limit THEN line_buf[t][i]
                      ELSE @[i]]]
    /\ UNCHANGED <<buffers, display, keys, kbd>>

(* clear_line_buf: the cells first, the index afterwards. *)
ClearCells(t) ==
    /\ Runs(t) /\ reader[t].at = "copied"
    /\ line_buf' = [line_buf EXCEPT ![t] = [i \in Cells |-> 0]]
    /\ reader' = [reader EXCEPT ![t].at = "zeroed"]
    /\ UNCHANGED <<line_buf_index, read_flag, display, keys, kbd>>

ClearIndex(t) ==
    /\ Runs(t) /\ reader[t].at = "zeroed"
    /\ line_buf_index' = [line_buf_index EXCEPT ![t] = 0]
    /\ reader' = [reader EXCEPT ![t].at = "cleared"]
    /\ UNCHANGED <<line_buf, read_flag, display, keys, kbd>>

EndRead(t) ==
    /\ Runs(t) /\ reader[t].at = "cleared"
    /\ read_flag' = [read_flag EXCEPT ![t] = 0]
    /\ reader' = [reader EXCEPT ![t].at = "user"]
    /\ UNCHANGED <<line_buf, line_buf_index, display, keys, kbd>>

-----------------------------------------------------------------------------
(* Mutant: the timer starts its search at the terminal on display. *)
TickFromDisplay ==
    /\ kbd.at \in {"stored", "loaded"} /\ kbd.on = current_schedule => "bump" \in Env
    /\ current_terminal' = IF terminal_to_switch_to = None
                           THEN current_terminal ELSE terminal_to_switch_to
    /\ terminal_to_switch_to' = None
    /\ current_schedule' = (current_terminal' + 1) % TERMINAL_NUM
    /\ UNCHANGED <<buffers, keys, kbd, reader>>

(* The timer: show the terminal that was asked for, then run the next one. *)
Tick ==
    /\ kbd.at \in {"stored", "loaded"} /\ kbd.on = current_schedule => "bump" \in Env
    /\ current_terminal' = IF terminal_to_switch_to = None
                           THEN current_terminal ELSE terminal_to_switch_to
    /\ terminal_to_switch_to' = None
    /\ current_schedule' = (current_schedule + 1) % TERMINAL_NUM
    /\ UNCHANGED <<buffers, keys, kbd, reader>>

Init ==
    /\ line_buf = [t \in Terms |-> [i \in Cells |-> 0]]
    /\ line_buf_index = [t \in Terms |-> 0]
    /\ read_flag = [t \in Terms |-> 0]
    /\ current_terminal = 0
    /\ terminal_to_switch_to = None
    /\ current_schedule = 0
    /\ held = {} /\ multi_byte = 0
    /\ kbd = Idle
    /\ reader = [t \in Terms |-> NoRead]

Keyboard ==
    \/ Prefix
    \/ \E k \in Modifiers : PressModifier(k) \/ Release(k)
    \/ \E k \in Modifiers \cup {"char"} : PressSwitch(k)
    \/ \E c \in Letters \cup {Newline} : PressCharacter(c)

GetLineBuf(t) ==
    FindNewline(t) \/ CopyLine(t) \/ ClearCells(t) \/ ClearIndex(t) \/ EndRead(t)

Next ==
    \/ Keyboard
    \/ KbdStore \/ KbdLoad \/ KbdBump \/ KbdEoi
    \/ \E t \in Terms : GetLineBuf(t) \/ \E n \in Sizes : StartRead(t, n)
    \/ Tick

Spec == Init /\ [][Next]_vars

(* The timer never stops; a handler, and a program that no handler sits on *)
(* top of, get on if they are given the CPU again and again.               *)
Fairness ==
    /\ SF_vars(Tick)
    /\ SF_vars(KbdStore \/ KbdLoad \/ KbdBump \/ KbdEoi)
    /\ \A t \in Terms : SF_vars(GetLineBuf(t))

FairSpec == Spec /\ Fairness

-----------------------------------------------------------------------------
(* Types *)

Places == {"user", "wait", "found", "copied", "zeroed", "cleared"}
Index  == 0 .. LINE_BUFFER_SIZE
Chars  == Letters \cup {0, Newline}

Reader == [at : Places, nbytes : Sizes \cup {0}, nl_idx : Cells, lenstr : Nat,
           buf : [Index -> Chars]]

Handler == [at : {"idle", "echoed", "stored", "loaded", "done"},
            on : Terms \cup {None}, term : Terms \cup {None},
            char : Chars \cup Index]

(* Every variable has its type: in particular the index of the next        *)
(* character never leaves the buffer by more than the one place past it.   *)
TypeOK ==
    /\ line_buf \in [Terms -> [Cells -> Chars]]
    /\ line_buf_index \in [Terms -> Index]
    /\ read_flag \in [Terms -> {0, 1}]
    /\ current_terminal \in Terms
    /\ terminal_to_switch_to \in Terms \cup {None}
    /\ current_schedule \in Terms
    /\ held \in SUBSET Modifiers
    /\ multi_byte \in {0, 1}
    /\ kbd \in Handler
    /\ reader \in [Terms -> Reader]

=============================================================================
