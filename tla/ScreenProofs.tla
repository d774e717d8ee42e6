---------------------------- MODULE ScreenProofs ----------------------------
(***************************************************************************)
(* Proofs about Screen, for any number of terminals and pids and any size  *)
(* of the screen.                                                          *)
(***************************************************************************)
EXTENDS Screen, TLAPS

(***************************************************************************)
(* The processes of a terminal form a chain from its shell to the program  *)
(* that is its top: a process has at most one child, a top has none, a     *)
(* child is in the terminal of its parent, and the running process is the  *)
(* top of its terminal.  Whatever situations come about.                   *)
(***************************************************************************)
Chain ==
    /\ RunTerm \in Terms
    /\ terminals[RunTerm].top = running_pid
    /\ \A t \in Terms : Started(t) => pcb[terminals[t].top].term = t
    /\ \A p \in Live : pcb[p].parent # None =>
         /\ pcb[p].parent \in Live
         /\ pcb[p].parent # p
         /\ pcb[pcb[p].parent].term = pcb[p].term
         /\ \A t \in Terms : terminals[t].top # pcb[p].parent
    /\ \A p, q \in Live :
         pcb[p].parent # None /\ pcb[p].parent = pcb[q].parent => p = q

TypeInv == TypeOK /\ Chain

-----------------------------------------------------------------------------
(* Lemmas about the operators *)

Contents == [Cells -> Chars \cup {Blank}]
OnScreen == [x : 0 .. NUM_COLS - 1, y : 0 .. NUM_ROWS - 1]

(* The smallest indices, and None is not one. *)
LEMMA Indices ==
  /\ 0 \in Pids /\ 0 \in Terms /\ VIDEO \in Pages
  /\ None \notin Pids /\ None \notin Terms /\ None \notin Pages
  /\ \A t \in Terms : Buf(t) \in Pages /\ Buf(t) # VIDEO
  BY SizeAssumption DEF Pids, Terms, Pages, VIDEO, Buf, None

(* The buffers of different terminals are different pages. *)
LEMMA BufInjective ==
  ASSUME NEW t \in Terms, NEW u \in Terms, Buf(t) = Buf(u)
  PROVE  t = u
  BY DEF Terms, Buf

LEMMA PlaceType ==
  ASSUME NEW t \in Terms, NEW u \in Terms
  PROVE  Place(t, u) \in Pages
  BY Indices DEF Place

(* A column is a word: what is used of U16 from here on. *)
LEMMA WordSize == U16 \in Nat \ {0} /\ NUM_COLS \in 1 .. U16
  <1>1. U16 \in Nat \ {0}
    BY SMT DEF U16
  <1>2. QED
    BY <1>1, SizeAssumption, SMT

(* A remainder is smaller than the divisor; one whole leaves nothing. *)
LEMMA Remainder ==
  ASSUME NEW n \in Nat \ {0}, NEW a \in Int
  PROVE  a % n \in 0 .. n - 1
  OBVIOUS

LEMMA Whole ==
  ASSUME NEW n \in Nat \ {0}
  PROVE  n % n = 0 /\ n \div n = 1
  OBVIOUS

(* The column and the row behind the end of a line. *)
LEMMA NextRow ==
  ASSUME NEW x \in Nat, NEW y \in 0 .. NUM_ROWS - 1
  PROVE  /\ x % NUM_COLS \in 0 .. NUM_COLS - 1
         /\ (y + x \div NUM_COLS) % NUM_ROWS \in 0 .. NUM_ROWS - 1
  <1>1. NUM_COLS \in Nat \ {0} /\ NUM_ROWS \in Nat \ {0} /\ x \in Int /\ y \in Int
    BY SizeAssumption
  <1>2. PICK r \in Int : r = x \div NUM_COLS
    BY <1>1
  <1>3. y + r \in Int
    BY <1>1
  <1>4. QED
    BY <1>1, <1>2, <1>3, Remainder

LEMMA NextColumn ==
  ASSUME NEW a \in Int
  PROVE  a % U16 \in 0 .. U16 - 1
  BY WordSize, Remainder

LEMMA StoreType ==
  ASSUME NEW m \in [Pages -> Contents], NEW pg \in Pages, NEW pos,
         NEW c \in Chars \cup {Blank}
  PROVE  Store(m, pg, pos, c) \in [Pages -> Contents]
  BY DEF Store, Contents

LEMMA ScrollType ==
  ASSUME NEW m \in [Pages -> Contents], NEW pg \in Pages
  PROVE  scroll_up(m, pg) \in [Pages -> Contents]
  <1>1. [n \in Cells |-> IF n + NUM_COLS \in Cells
                         THEN m[pg][n + NUM_COLS] ELSE Blank] \in Contents
    BY DEF Contents
  <1>2. QED
    BY <1>1 DEF scroll_up

(* A newline keeps the position on the screen, if it was there. *)
LEMMA NewlineType ==
  ASSUME NEW m \in [Pages -> Contents], NEW pos \in Position, NEW map \in Pages
  PROVE  /\ Newline(m, pos, map).mem \in [Pages -> Contents]
         /\ Newline(m, pos, map).pos \in OnScreen
         /\ Newline(m, pos, map).pos \in Position
  <1>1. scroll_up(m, map) \in [Pages -> Contents]
    BY ScrollType
  <1>2. QED
    BY <1>1, SizeAssumption, WordSize DEF Newline, Position, OnScreen

(* A character moves the position to a valid row, and from a valid column  *)
(* to a valid column.                                                      *)
LEMMA PutCharType ==
  ASSUME NEW m \in [Pages -> Contents], NEW pos \in Position,
         NEW map \in Pages, NEW pg \in Pages, NEW c \in Chars
  PROVE  /\ PutChar(m, pos, map, pg, c).mem \in [Pages -> Contents]
         /\ PutChar(m, pos, map, pg, c).pos \in Position
         /\ pos \in OnScreen => PutChar(m, pos, map, pg, c).pos \in OnScreen
  <1> DEFINE put == Store(m, pg, pos, c)
  <1>1. put \in [Pages -> Contents] /\ scroll_up(put, map) \in [Pages -> Contents]
    BY StoreType, ScrollType
  <1>2. PICK x \in 0 .. U16 - 1 : x = (pos.x + 1) % U16
    <2>1. pos.x + 1 \in Int
      BY WordSize DEF Position
    <2>2. QED
      BY <2>1, NextColumn
  <1>3. pos.y \in 0 .. NUM_ROWS - 1
    BY DEF Position
  <1> HIDE DEF put
  <1>4. CASE x < NUM_COLS
    <2>1. PutChar(m, pos, map, pg, c) = [mem |-> put, pos |-> [x |-> x, y |-> pos.y]]
      BY <1>2, <1>4 DEF PutChar, put
    <2>2. QED
      BY <1>1, <1>3, <1>4, <2>1, WordSize DEF Position, OnScreen
  <1>5. CASE ~(x < NUM_COLS)
    <2>1. x \in Nat
      BY WordSize
    <2>2. PICK col \in 0 .. NUM_COLS - 1 : col = x % NUM_COLS
      BY <2>1, <1>3, NextRow
    <2>3. PICK row \in 0 .. NUM_ROWS - 1 : row = (pos.y + x \div NUM_COLS) % NUM_ROWS
      BY <2>1, <1>3, NextRow
    <2>4. CASE pos.y = NUM_ROWS - 1
      <3>1. PutChar(m, pos, map, pg, c) =
              [mem |-> scroll_up(put, map), pos |-> [x |-> col, y |-> pos.y]]
        BY <1>2, <1>5, <2>2, <2>4 DEF PutChar, put
      <3>2. QED
        BY <1>1, <1>3, <3>1, WordSize DEF Position, OnScreen
    <2>5. CASE pos.y # NUM_ROWS - 1
      <3>1. PutChar(m, pos, map, pg, c) = [mem |-> put, pos |-> [x |-> col, y |-> row]]
        BY <1>2, <1>5, <2>2, <2>3, <2>5 DEF PutChar, put
      <3>2. QED
        BY <1>1, <3>1, WordSize DEF Position, OnScreen
    <2>6. QED
      BY <2>4, <2>5
  <1>6. QED
    BY <1>4, <1>5

(* Backspace on display: the position stays on the screen. *)
LEMMA BackOnDisplayType ==
  ASSUME NEW m \in [Pages -> Contents], NEW pos \in OnScreen, NEW map \in Pages
  PROVE  /\ BackOnDisplay(m, pos, map).mem \in [Pages -> Contents]
         /\ BackOnDisplay(m, pos, map).pos \in OnScreen
  <1>1. Back(pos) \in [x : 0 .. U16 - 1, y : 0 .. NUM_ROWS - 1]
    <2>0. pos.x - 1 \in Int
      BY WordSize DEF OnScreen
    <2>1. (pos.x - 1) % U16 \in 0 .. U16 - 1
      BY <2>0, NextColumn
    <2>2. QED
      BY <2>1, SizeAssumption, WordSize DEF Back, OnScreen
  <1>2. set_screen_xy(pos, Back(pos)) \in OnScreen
    BY <1>1, SizeAssumption, WordSize DEF set_screen_xy, OnScreen
  <1>3. QED
    BY <1>2, StoreType DEF BackOnDisplay

LEMMA BackInBackgroundType ==
  ASSUME NEW m \in [Pages -> Contents], NEW pos \in Position, NEW map \in Pages
  PROVE  /\ BackInBackground(m, pos, map).mem \in [Pages -> Contents]
         /\ BackInBackground(m, pos, map).pos \in Position
  <1>1. Back(pos) \in Position
    <2>0. pos.x - 1 \in Int
      BY WordSize DEF Position
    <2>1. (pos.x - 1) % U16 \in 0 .. U16 - 1
      BY <2>0, NextColumn
    <2>2. QED
      BY <2>1, SizeAssumption, WordSize DEF Back, Position
  <1>2. set_terminal_screen_xy(pos, Back(pos)) \in Position
    BY <1>1 DEF set_terminal_screen_xy
  <1>3. QED
    BY <1>2, StoreType DEF BackInBackground

LEMMA OnScreenPosition == OnScreen \subseteq Position
  BY SizeAssumption, WordSize DEF OnScreen, Position

(* What is put out on display leaves characters in the cells and the       *)
(* cursor on the screen.                                                   *)
LEMMA OnDisplayType ==
  ASSUME mem \in [Pages -> Contents], screen \in OnScreen,
         NEW c \in Outputs \cup {"clear"}, NEW map \in Pages
  PROVE  /\ OnDisplay(c, map).mem \in [Pages -> Contents]
         /\ OnDisplay(c, map).pos \in OnScreen
  <1>1. screen \in Position
    BY OnScreenPosition
  <1>2. CASE c = "newline"
    BY <1>1, <1>2, NewlineType DEF OnDisplay
  <1>3. CASE c = "backspace"
    <2>1. OnDisplay(c, map) = BackOnDisplay(mem, screen, map)
      BY <1>3 DEF OnDisplay
    <2>2. QED
      BY <2>1, BackOnDisplayType
  <1>4. CASE c = "clear"
    <2>1. OnDisplay(c, map) = Cleared(mem, map)
      BY <1>4 DEF OnDisplay
    <2>2. Cleared(mem, map).mem \in [Pages -> Contents] /\ Cleared(mem, map).pos \in OnScreen
      BY SizeAssumption DEF Cleared, Contents, Origin, OnScreen
    <2>3. QED
      BY <2>1, <2>2
  <1>5. CASE c \notin {"newline", "backspace", "clear"}
    <2>1. OnDisplay(c, map) = PutChar(mem, screen, map, map, c) /\ c \in Chars
      BY <1>5 DEF OnDisplay, Outputs
    <2>2. QED
      BY <1>1, <2>1, PutCharType
  <1>6. QED
    BY <1>2, <1>3, <1>4, <1>5

(* What is put out in the background likewise, except for the column. *)
LEMMA InBackgroundType ==
  ASSUME TypeOK, RunTerm \in Terms, NEW c \in Outputs
  PROVE  /\ InBackground(c).mem \in [Pages -> Contents]
         /\ InBackground(c).pos \in Position
  <1> DEFINE pos == terminals[RunTerm].pos
             map == video[running_pid]
  <1>1. mem \in [Pages -> Contents] /\ pos \in Position /\ map \in Pages
        /\ Buf(RunTerm) \in Pages
    BY Indices DEF TypeOK, Contents
  <1>2. CASE c = "newline"
    BY <1>1, <1>2, NewlineType DEF InBackground
  <1>3. CASE c = "backspace"
    <2>1. InBackground(c) = BackInBackground(mem, pos, map)
      BY <1>3 DEF InBackground
    <2>2. QED
      BY <1>1, <2>1, BackInBackgroundType
  <1>4. CASE c \notin {"newline", "backspace"}
    <2>1. InBackground(c) = PutChar(mem, pos, map, Buf(RunTerm), c) /\ c \in Chars
      BY <1>4 DEF InBackground, Outputs
    <2>2. QED
      BY <1>1, <2>1, PutCharType
  <1>5. QED
    BY <1>2, <1>3, <1>4

-----------------------------------------------------------------------------
(* Type correctness, and the chains of processes *)

Terminal == [pos : Position, vidmap : {0, 1}, status : {0, 1}, top : Pids \cup {None}]
Pcb      == [term : Terms \cup {None}, parent : Pids \cup {None}]

(* Nothing changes in the chains if no process and no top does. *)
LEMMA ChainKept ==
  ASSUME TypeOK, Chain, pcb' = pcb, running_pid' = running_pid,
         \A t \in Terms : terminals'[t].top = terminals[t].top
  PROVE  Chain'
  BY DEF Chain, TypeOK, RunTerm, Started, Live

(* Another terminal's top may run. *)
LEMMA ChainScheduled ==
  ASSUME TypeOK, Chain, NEW u \in Terms, Started(u),
         pcb' = pcb, running_pid' = terminals[u].top,
         \A t \in Terms : terminals'[t].top = terminals[t].top
  PROVE  Chain'
  BY Indices DEF Chain, TypeOK, RunTerm, Started, Live

(* A new process becomes the child of the top of its terminal. *)
LEMMA ChainChild ==
  ASSUME TypeOK, Chain, NEW p \in Pids \ Live,
         pcb' = [pcb EXCEPT ![p] = [term |-> RunTerm, parent |-> running_pid]],
         running_pid' = p,
         \A t \in Terms : terminals'[t].top = IF t = RunTerm THEN p ELSE terminals[t].top
  PROVE  Chain'
  <1> DEFINE r == running_pid
  <1>1. r \in Pids /\ r # p /\ pcb \in [Pids -> Pcb] /\ r # None /\ p # None
        /\ RunTerm # None /\ p \notin Live /\ r \in Live
    BY Indices DEF TypeOK, Chain, Live, RunTerm, Pcb
  <1>2. /\ pcb'[p].term = RunTerm /\ pcb'[p].parent = r
        /\ \A q \in Pids : q # p => pcb'[q] = pcb[q]
        /\ Live' = Live \cup {p}
        /\ RunTerm' = RunTerm
    BY <1>1 DEF Live, RunTerm, Pcb
  <1>3. \A q \in Live : pcb[q].parent # p /\ pcb[q].parent # r
    BY <1>1 DEF Chain
  <1>4. \A t \in Terms : Started(t) => terminals[t].top \in Live
    BY Indices DEF Chain, Started, Live, TypeOK
  <1>5. (RunTerm \in Terms /\ terminals[RunTerm].top = running_pid)'
    BY <1>1, <1>2 DEF Chain
  <1>6. (\A t \in Terms : Started(t) => pcb[terminals[t].top].term = t)'
    <2> SUFFICES ASSUME NEW t \in Terms, terminals'[t].top # None
                 PROVE  pcb'[terminals'[t].top].term = t
      BY DEF Started
    <2>1. CASE t = RunTerm
      BY <1>2, <2>1
    <2>2. CASE t # RunTerm
      BY <1>1, <1>2, <1>4, <2>2 DEF Chain, Started, TypeOK
    <2>3. QED
      BY <2>1, <2>2
  <1>7. (\A q \in Live : pcb[q].parent # None =>
          /\ pcb[q].parent \in Live
          /\ pcb[q].parent # q
          /\ pcb[pcb[q].parent].term = pcb[q].term
          /\ \A t \in Terms : terminals[t].top # pcb[q].parent)'
    <2> SUFFICES ASSUME NEW q \in Live', pcb'[q].parent # None
                 PROVE  /\ pcb'[q].parent \in Live'
                        /\ pcb'[q].parent # q
                        /\ pcb'[pcb'[q].parent].term = pcb'[q].term
                        /\ \A t \in Terms : terminals'[t].top # pcb'[q].parent
      OBVIOUS
    <2>1. CASE q = p
      BY <1>1, <1>2, <2>1 DEF Chain, Started, RunTerm
    <2>2. CASE q # p
      BY <1>1, <1>2, <1>3, <2>2 DEF Chain, Live
    <2>3. QED
      BY <2>1, <2>2
  <1>8. (\A q, s \in Live :
           pcb[q].parent # None /\ pcb[q].parent = pcb[s].parent => q = s)'
    BY <1>1, <1>2, <1>3 DEF Chain, Live
  <1>9. QED
    BY <1>5, <1>6, <1>7, <1>8 DEF Chain

(* A new shell becomes the only process of a terminal that has none, or    *)
(* whose only process ends with the same step.                             *)
LEMMA ChainRoot ==
  ASSUME TypeOK, Chain, NEW u \in Terms, NEW p \in Pids,
         pcb[p].term = None \/ p = terminals[u].top,
         pcb' \in [Pids -> Pcb], pcb'[p] = [term |-> u, parent |-> None],
         \A q \in Pids \ {p} :
             pcb'[q] = pcb[q] \/ (q = terminals[u].top /\ pcb'[q] = Dead),
         running_pid' = p,
         \A t \in Terms : terminals'[t].top = IF t = u THEN p ELSE terminals[t].top
  PROVE  Chain'
  <1> DEFINE Kept == {q \in Pids \ {p} : pcb'[q].term # None}
  <1>1. p # None /\ u # None /\ pcb \in [Pids -> Pcb]
    BY Indices DEF TypeOK, Pcb
  <1>2. Kept \subseteq Live /\ \A q \in Kept : pcb'[q] = pcb[q]
    BY DEF Live, Dead
  <1>3. /\ pcb'[p].term = u /\ pcb'[p].parent = None
        /\ Live' = Kept \cup {p}
        /\ RunTerm' = u
    BY <1>1 DEF Live, RunTerm
  <1>4. \A q \in Live : q # terminals[u].top => q \in Kept
    BY DEF Live, Dead
  <1>5. p \notin Kept
    OBVIOUS
  <1>6. \A q \in Live : pcb[q].parent # None => pcb[q].parent \in Kept
    BY <1>4 DEF Chain
  <1>7. \A t \in Terms : Started(t) /\ t # u => terminals[t].top \in Kept
    <2> SUFFICES ASSUME NEW t \in Terms, Started(t), t # u
                 PROVE  terminals[t].top \in Kept
      OBVIOUS
    <2>1. terminals[t].top \in Live /\ pcb[terminals[t].top].term = t
      BY Indices DEF Chain, Started, Live, TypeOK
    <2>2. terminals[t].top # terminals[u].top
      BY <2>1 DEF Chain, Started
    <2>3. QED
      BY <1>4, <2>1, <2>2
  <1> HIDE DEF Kept
  <1>8. (RunTerm \in Terms /\ terminals[RunTerm].top = running_pid)'
    BY <1>1, <1>3
  <1>9. (\A t \in Terms : Started(t) => pcb[terminals[t].top].term = t)'
    <2> SUFFICES ASSUME NEW t \in Terms, terminals'[t].top # None
                 PROVE  pcb'[terminals'[t].top].term = t
      BY DEF Started
    <2>1. CASE t = u
      BY <1>3, <2>1
    <2>2. CASE t # u
      <3>1. terminals'[t].top = terminals[t].top /\ terminals[t].top \in Kept
        BY <1>7, <2>2 DEF Started
      <3>2. pcb'[terminals[t].top] = pcb[terminals[t].top]
        BY <1>2, <1>3, <1>5, <3>1 DEF Live
      <3>3. QED
        BY <3>1, <3>2 DEF Chain, Started
    <2>3. QED
      BY <2>1, <2>2
  <1>10. \A q \in Kept : pcb'[q] = pcb[q] /\ q # p /\ q \in Live
    BY <1>2, <1>3, <1>5 DEF Live
  <1>11. (\A q \in Live : pcb[q].parent # None =>
           /\ pcb[q].parent \in Live
           /\ pcb[q].parent # q
           /\ pcb[pcb[q].parent].term = pcb[q].term
           /\ \A t \in Terms : terminals[t].top # pcb[q].parent)'
    <2> SUFFICES ASSUME NEW q \in Live', pcb'[q].parent # None
                 PROVE  /\ pcb'[q].parent \in Live'
                        /\ pcb'[q].parent # q
                        /\ pcb'[pcb'[q].parent].term = pcb'[q].term
                        /\ \A t \in Terms : terminals'[t].top # pcb'[q].parent
      OBVIOUS
    <2>1. q \in Kept
      BY <1>3
    <2>2. pcb[q].parent \in Kept
      BY <1>6, <1>10, <2>1
    <2>3. QED
      BY <1>3, <1>10, <2>1, <2>2 DEF Chain
  <1>12. (\A q, s \in Live :
            pcb[q].parent # None /\ pcb[q].parent = pcb[s].parent => q = s)'
    BY <1>3, <1>10 DEF Chain
  <1>13. QED
    BY <1>8, <1>9, <1>11, <1>12 DEF Chain

(* The top ends and its parent becomes the top again. *)
LEMMA ChainHalt ==
  ASSUME TypeOK, Chain, pcb[running_pid].parent # None,
         running_pid' = pcb[running_pid].parent,
         pcb' = [pcb EXCEPT ![running_pid] = Dead],
         \A t \in Terms : terminals'[t].top =
             IF t = RunTerm THEN pcb[running_pid].parent ELSE terminals[t].top
  PROVE  Chain'
  <1> DEFINE r == running_pid
             s == pcb[running_pid].parent
  <1>1. r \in Live /\ s \in Live /\ s # r /\ pcb[s].term = RunTerm /\ s # None
        /\ r \in Pids /\ pcb \in [Pids -> Pcb]
    BY Indices DEF Chain, TypeOK, RunTerm, Live, Pcb
  <1>2. /\ Live' = Live \ {r}
        /\ \A q \in Live \ {r} : pcb'[q] = pcb[q]
        /\ RunTerm' = RunTerm
    BY <1>1 DEF Live, Dead, RunTerm
  <1>3. \A q \in Live \ {r} : pcb[q].parent # r /\ pcb[q].parent # s
    <2>1. r # None /\ RunTerm \in Terms /\ terminals[RunTerm].top = r
      BY <1>1, Indices DEF Chain
    <2>2. QED
      BY <1>1, <2>1 DEF Chain
  <1>4. \A t \in Terms : Started(t) /\ t # RunTerm => terminals[t].top \in Live \ {r}
    <2> SUFFICES ASSUME NEW t \in Terms, Started(t), t # RunTerm
                 PROVE  terminals[t].top \in Live \ {r}
      OBVIOUS
    <2>1. pcb[terminals[t].top].term = t /\ terminals[t].top \in Pids /\ t # None
      BY Indices DEF Chain, Started, TypeOK
    <2>2. QED
      BY <2>1 DEF Live, RunTerm
  <1> HIDE DEF r, s
  <1>5. (RunTerm \in Terms /\ terminals[RunTerm].top = running_pid)'
    BY <1>2 DEF Chain, s
  <1>6. (\A t \in Terms : Started(t) => pcb[terminals[t].top].term = t)'
    <2> SUFFICES ASSUME NEW t \in Terms, terminals'[t].top # None
                 PROVE  pcb'[terminals'[t].top].term = t
      BY DEF Started
    <2>1. CASE t = RunTerm
      BY <1>1, <1>2, <2>1 DEF s
    <2>2. CASE t # RunTerm
      BY <1>2, <1>4, <2>2 DEF Chain, Started
    <2>3. QED
      BY <2>1, <2>2
  <1>7. (\A q \in Live : pcb[q].parent # None =>
           /\ pcb[q].parent \in Live
           /\ pcb[q].parent # q
           /\ pcb[pcb[q].parent].term = pcb[q].term
           /\ \A t \in Terms : terminals[t].top # pcb[q].parent)'
    <2> SUFFICES ASSUME NEW q \in Live \ {r}, pcb[q].parent # None
                 PROVE  /\ pcb[q].parent \in Live'
                        /\ pcb[q].parent # q
                        /\ pcb'[pcb[q].parent].term = pcb[q].term
                        /\ \A t \in Terms : terminals'[t].top # pcb[q].parent
      BY <1>2
    <2>1. QED
      BY <1>1, <1>2, <1>3 DEF Chain, s
  <1>8. (\A q, w \in Live :
           pcb[q].parent # None /\ pcb[q].parent = pcb[w].parent => q = w)'
    BY <1>2 DEF Chain
  <1>9. QED
    BY <1>5, <1>6, <1>7, <1>8 DEF Chain

(* What a switch does to the terminals: their processes stay. *)
LEMMA ShownType ==
  ASSUME TypeOK
  PROVE  /\ Displayed \in Terms
         /\ Shown \in [Terms -> Terminal]
         /\ \A t \in Terms : /\ Shown[t].top = terminals[t].top
                             /\ Shown[t].vidmap = terminals[t].vidmap
  <1>1. Displayed \in Terms
    BY DEF Displayed, TypeOK
  <1>2. terminals \in [Terms -> Terminal] /\ screen \in Position
    BY OnScreenPosition DEF TypeOK, Terminal, OnScreen
  <1>3. CASE ~Switching
    BY <1>1, <1>2, <1>3 DEF Shown
  <1>4. CASE Switching
    <2> DEFINE first == [terminals EXCEPT ![current_terminal].pos = screen]
    <2>1. Shown = [first EXCEPT ![Displayed].status = 1]
      BY <1>4 DEF Shown
    <2>2. /\ first \in [Terms -> Terminal]
          /\ \A t \in Terms : /\ first[t].top = terminals[t].top
                              /\ first[t].vidmap = terminals[t].vidmap
      BY <1>2 DEF Terminal
    <2> HIDE DEF first
    <2>3. QED
      BY <1>1, <2>1, <2>2 DEF Terminal
  <1>5. QED
    BY <1>3, <1>4

(* A switch keeps the pages and the cursor within their types. *)
LEMMA SwitchDisplayType ==
  ASSUME TypeOK, SwitchDisplay
  PROVE  /\ mem' \in [Pages -> Contents]
         /\ screen' \in OnScreen
         /\ vga' \in OnScreen
  <1>1. Displayed \in Terms /\ current_terminal \in Terms
    BY ShownType DEF TypeOK
  <1>2. /\ Buf(current_terminal) \in Pages /\ Buf(Displayed) \in Pages
        /\ mem \in [Pages -> Contents] /\ screen \in OnScreen /\ vga \in OnScreen
        /\ terminals[Displayed].pos \in Position
    BY <1>1, Indices DEF TypeOK, Contents, OnScreen
  <1>3. Copied \in [Pages -> Contents]
    BY <1>2, Indices DEF Copied
  <1>4. ASSUME NEW old \in OnScreen
        PROVE  set_screen_xy(old, terminals[Displayed].pos) \in OnScreen
    BY <1>2, SizeAssumption, WordSize DEF set_screen_xy, Position, OnScreen
  <1>5. QED
    BY <1>2, <1>3, <1>4 DEF SwitchDisplay, display

LEMMA RemappedType ==
  ASSUME TypeOK
  PROVE  Remapped \in [Pids -> Pages]
  BY Indices DEF Remapped, TypeOK, map_vid_mem

-----------------------------------------------------------------------------
(* The actions one by one *)

LEMMA TerminalPutcInv ==
  ASSUME TypeInv, NEW c \in Outputs, terminal_putc(c)
  PROVE  TypeInv'
  <1>1. TypeOK /\ Chain /\ RunTerm \in Terms
    BY DEF TypeInv, Chain
  <1>2. /\ mem \in [Pages -> Contents] /\ screen \in OnScreen
        /\ video[running_pid] \in Pages /\ terminals \in [Terms -> Terminal]
    BY <1>1 DEF TypeOK, Contents, OnScreen, Terminal
  <1>3. UNCHANGED <<process, paging, control, echo>> /\ output' \in 0 .. MaxOutput
    BY <1>1, SizeAssumption DEF terminal_putc, Count, TypeOK
  <1>4. CASE RunTerm = current_terminal
    <2>1. mem' \in [Pages -> Contents] /\ screen' \in OnScreen /\ vga' \in OnScreen
      BY <1>2, <1>4, OnDisplayType DEF terminal_putc, PutOnDisplay
    <2>2. terminals' = terminals
      BY <1>4 DEF terminal_putc
    <2>3. TypeOK'
      BY <1>1, <1>3, <2>1, <2>2
      DEF TypeOK, process, paging, control, Contents, OnScreen
    <2>4. QED
      BY <1>1, <1>3, <2>2, <2>3, ChainKept DEF TypeInv, process
  <1>5. CASE RunTerm # current_terminal
    <2>1. mem' \in [Pages -> Contents] /\ UNCHANGED <<screen, vga>>
      BY <1>1, <1>5, InBackgroundType DEF terminal_putc
    <2>2. PICK pos \in Position : terminals' = [terminals EXCEPT ![RunTerm].pos = pos]
      <3>1. set_terminal_screen_xy(terminals[RunTerm].pos, InBackground(c).pos) \in Position
        BY <1>1, <1>2, InBackgroundType DEF set_terminal_screen_xy, Terminal
      <3>2. QED
        BY <1>5, <3>1 DEF terminal_putc
    <2>3. terminals' \in [Terms -> Terminal]
          /\ \A t \in Terms : terminals'[t].top = terminals[t].top
      BY <1>1, <1>2, <2>2 DEF Terminal
    <2>4. TypeOK'
      BY <1>1, <1>3, <2>1, <2>3
      DEF TypeOK, process, paging, control, Contents, OnScreen, Terminal
    <2>5. QED
      BY <1>1, <1>3, <2>3, <2>4, ChainKept DEF TypeInv, process
  <1>6. QED
    BY <1>4, <1>5

LEMMA PutcInv ==
  ASSUME TypeInv, NEW c \in Outputs \cup {"clear"}, putc(c)
  PROVE  TypeInv'
  <1>1. TypeOK /\ Chain /\ RunTerm \in Terms
    BY DEF TypeInv, Chain
  <1>2. /\ mem \in [Pages -> Contents] /\ screen \in OnScreen
        /\ video[running_pid] \in Pages
    BY <1>1 DEF TypeOK, Contents, OnScreen
  <1>3. /\ UNCHANGED <<process, user, control, terminals>>
        /\ output' \in 0 .. MaxOutput
    BY <1>1, SizeAssumption DEF putc, Count, TypeOK
  <1>4. CASE RunTerm = current_terminal
    <2>1. mem' \in [Pages -> Contents] /\ screen' \in OnScreen /\ vga' \in OnScreen
      BY <1>2, <1>4, OnDisplayType DEF putc, PutOnDisplay
    <2>2. UNCHANGED <<video, echo>>
      BY <1>4 DEF putc
    <2>3. TypeOK'
      BY <1>1, <1>3, <2>1, <2>2
      DEF TypeOK, process, control, Contents, OnScreen
    <2>4. QED
      BY <1>1, <1>3, <2>3, ChainKept DEF TypeInv, process
  <1>5. CASE RunTerm # current_terminal
    <2>1. UNCHANGED display
      BY <1>5 DEF putc
    <2>2. video' \in [Pids -> Pages]
      BY <1>1, <1>5, Indices DEF putc, map_vid_mem, TypeOK
    <2>3. echo' \in [pid : Pids, term : Terms, c : Outputs \cup {"clear"}]
      BY <1>1, <1>5 DEF putc, TypeOK
    <2>4. TypeOK'
      BY <1>1, <1>3, <2>1, <2>2, <2>3
      DEF TypeOK, process, control, display
    <2>5. QED
      BY <1>1, <1>3, <2>4, ChainKept DEF TypeInv, process
  <1>6. QED
    BY <1>4, <1>5

LEMMA PutcEndInv ==
  ASSUME TypeInv, PutcEnd
  PROVE  TypeInv'
  <1>1. TypeOK /\ Chain
    BY DEF TypeInv
  <1>2. /\ mem \in [Pages -> Contents] /\ screen \in OnScreen
        /\ video[running_pid] \in Pages /\ terminals \in [Terms -> Terminal]
    BY <1>1 DEF TypeOK, Contents, OnScreen, Terminal
  <1>3. echo.pid = running_pid /\ running_pid # None
    BY <1>1, Indices DEF PutcEnd, TypeOK
  <1>4. echo \in [pid : Pids, term : Terms, c : Outputs \cup {"clear"}]
    BY <1>1, <1>3 DEF TypeOK, NoEcho
  <1>5. mem' \in [Pages -> Contents] /\ screen' \in OnScreen /\ vga' \in OnScreen
    BY <1>2, <1>4, OnDisplayType DEF PutcEnd, PutOnDisplay
  <1>6. video' \in [Pids -> Pages] /\ echo' = NoEcho
        /\ UNCHANGED <<process, user, control, output>>
    BY <1>1, <1>4, Indices DEF PutcEnd, map_vid_mem, TypeOK
  <1>7. terminals' \in [Terms -> Terminal]
        /\ \A t \in Terms : terminals'[t].top = terminals[t].top
    <2>1. Origin \in Position /\ current_terminal \in Terms
      BY <1>1, SizeAssumption, WordSize DEF Origin, Position, TypeOK
    <2>2. QED
      BY <1>2, <2>1 DEF PutcEnd, Terminal
  <1>8. TypeOK'
    BY <1>1, <1>5, <1>6, <1>7
    DEF TypeOK, process, control, Contents, OnScreen, Terminal
  <1>9. QED
    BY <1>1, <1>6, <1>7, <1>8, ChainKept DEF TypeInv, process

LEMMA VidmapInv ==
  ASSUME TypeInv, vidmap
  PROVE  TypeInv'
  <1>1. TypeOK /\ Chain /\ RunTerm \in Terms /\ terminals \in [Terms -> Terminal]
    BY DEF TypeInv, Chain, TypeOK, Terminal
  <1>2. UNCHANGED <<display, process, video, control, echo, output>>
    BY DEF vidmap
  <1>3. user' \in [Pids -> Pages \cup {None}]
    BY <1>1, PlaceType DEF vidmap, map_vid_mem, TypeOK
  <1>4. terminals' \in [Terms -> Terminal]
        /\ \A t \in Terms : terminals'[t].top = terminals[t].top
    BY <1>1 DEF vidmap, Terminal
  <1>5. TypeOK'
    BY <1>1, <1>2, <1>3, <1>4 DEF TypeOK, display, process, control, Terminal
  <1>6. QED
    BY <1>1, <1>2, <1>4, <1>5, ChainKept DEF TypeInv, process

LEMMA DrawInv ==
  ASSUME TypeInv, NEW n \in Cells, NEW c \in Chars, Draw(n, c)
  PROVE  TypeInv'
  <1>1. TypeOK /\ Chain
    BY DEF TypeInv
  <1>2. /\ UNCHANGED <<screen, vga, process, paging, control, terminals, echo>>
        /\ output' \in 0 .. MaxOutput
    BY <1>1, SizeAssumption DEF Draw, Count, TypeOK
  <1>3. mem' \in [Pages -> Contents]
    BY <1>1 DEF Draw, TypeOK, Contents
  <1>4. TypeOK'
    BY <1>1, <1>2, <1>3 DEF TypeOK, process, paging, control, Contents
  <1>5. QED
    BY <1>1, <1>2, <1>4, ChainKept DEF TypeInv, process

LEMMA ExecuteInv ==
  ASSUME TypeInv, execute
  PROVE  TypeInv'
  <1>1. TypeOK /\ Chain /\ RunTerm \in Terms /\ terminals \in [Terms -> Terminal]
        /\ pcb \in [Pids -> Pcb] /\ running_pid \in Pids
    BY DEF TypeInv, Chain, TypeOK, Terminal, Pcb
  <1>2. UNCHANGED <<display, control, echo, output>>
    BY DEF execute
  <1>3. PICK p \in Pids : /\ FirstFree(Live, p)
                          /\ Create(pcb, p, RunTerm, running_pid)
                          /\ terminals' = [terminals EXCEPT ![RunTerm].top = p]
    BY DEF execute
  <1>4. p \in Pids \ Live
    BY <1>3 DEF FirstFree
  <1>5. /\ pcb' = [pcb EXCEPT ![p] = [term |-> RunTerm, parent |-> running_pid]]
        /\ running_pid' = p
        /\ video' \in [Pids -> Pages] /\ user' \in [Pids -> Pages \cup {None}]
    BY <1>1, <1>3, Indices DEF Create, make_task_pgdir, TypeOK
  <1>6. /\ terminals' \in [Terms -> Terminal]
        /\ \A t \in Terms : terminals'[t].top = IF t = RunTerm THEN p ELSE terminals[t].top
    BY <1>1, <1>3 DEF Terminal
  <1>7. pcb' \in [Pids -> Pcb]
    BY <1>1, <1>5 DEF Pcb
  <1>8. TypeOK'
    BY <1>1, <1>2, <1>5, <1>6, <1>7 DEF TypeOK, display, control, Terminal, Pcb
  <1>9. Chain'
    BY <1>1, <1>4, <1>5, <1>6, ChainChild
  <1>10. QED
    BY <1>8, <1>9 DEF TypeInv

LEMMA HaltChildInv ==
  ASSUME TypeInv, HaltChild
  PROVE  TypeInv'
  <1> DEFINE s == pcb[running_pid].parent
  <1>1. TypeOK /\ Chain /\ RunTerm \in Terms /\ terminals \in [Terms -> Terminal]
        /\ pcb \in [Pids -> Pcb] /\ running_pid \in Pids
    BY DEF TypeInv, Chain, TypeOK, Terminal, Pcb
  <1>2. /\ UNCHANGED <<display, paging, control, echo, output>>
        /\ s # None /\ running_pid' = s
        /\ pcb' = [pcb EXCEPT ![running_pid] = Dead]
    BY DEF HaltChild
  <1>3. s \in Pids
    BY <1>1, <1>2 DEF Pcb
  <1> HIDE DEF s
  <1>4. terminals' = [terminals EXCEPT ![RunTerm] = [@ EXCEPT !.top = s, !.vidmap = 0]]
    BY DEF HaltChild, s
  <1>5. /\ terminals' \in [Terms -> Terminal]
        /\ \A t \in Terms : terminals'[t].top = IF t = RunTerm THEN s ELSE terminals[t].top
    BY <1>1, <1>3, <1>4 DEF Terminal
  <1>6. pcb' \in [Pids -> Pcb]
    BY <1>1, <1>2 DEF Pcb, Dead
  <1>7. TypeOK'
    BY <1>1, <1>2, <1>3, <1>5, <1>6
    DEF TypeOK, display, paging, control, Terminal, Pcb
  <1>8. Chain'
    BY <1>1, <1>2, <1>5, ChainHalt DEF s
  <1>9. QED
    BY <1>7, <1>8 DEF TypeInv

LEMMA HaltRootInv ==
  ASSUME TypeInv, HaltRoot
  PROVE  TypeInv'
  <1> DEFINE f == [pcb EXCEPT ![running_pid] = Dead]
  <1>1. TypeOK /\ Chain /\ terminals \in [Terms -> Terminal]
        /\ pcb \in [Pids -> Pcb] /\ running_pid \in Pids /\ RunTerm = 0
        /\ terminals[0].top = running_pid
    BY DEF TypeInv, Chain, TypeOK, Terminal, Pcb, HaltRoot
  <1>2. UNCHANGED <<display, control, echo, output>>
    BY DEF HaltRoot
  <1>3. PICK p \in Pids : /\ FirstFree(Live \ {running_pid}, p)
                          /\ Create(f, p, 0, None)
                          /\ terminals' = [terminals EXCEPT ![0].top = p]
    BY DEF HaltRoot
  <1>4. /\ f \in [Pids -> Pcb] /\ f[p].term = None
        /\ \A q \in Pids : f[q] = pcb[q] \/ (q = terminals[0].top /\ f[q] = Dead)
    <2>1. Dead \in Pcb /\ Dead.term = None
      BY DEF Dead, Pcb
    <2>2. f \in [Pids -> Pcb] /\ f[running_pid] = Dead
          /\ \A q \in Pids : q # running_pid => f[q] = pcb[q]
      BY <1>1, <2>1
    <2>3. p # running_pid => pcb[p].term = None
      BY <1>3 DEF FirstFree, Live
    <2>4. QED
      BY <1>1, <2>1, <2>2, <2>3
  <1> HIDE DEF f
  <1>5. /\ pcb' = [f EXCEPT ![p] = [term |-> 0, parent |-> None]]
        /\ running_pid' = p
        /\ video' \in [Pids -> Pages] /\ user' \in [Pids -> Pages \cup {None}]
    BY <1>1, <1>3, Indices DEF Create, make_task_pgdir, TypeOK
  <1>6. /\ terminals' \in [Terms -> Terminal]
        /\ \A t \in Terms : terminals'[t].top = IF t = 0 THEN p ELSE terminals[t].top
    BY <1>1, <1>3, Indices DEF Terminal
  <1>7. pcb' \in [Pids -> Pcb]
    BY <1>4, <1>5, Indices DEF Pcb
  <1>8. TypeOK'
    BY <1>1, <1>2, <1>5, <1>6, <1>7 DEF TypeOK, display, control, Terminal, Pcb
  <1>9. Chain'
    <2>1. pcb'[p] = [term |-> 0, parent |-> None] /\ \A q \in Pids \ {p} : pcb'[q] = f[q]
      BY <1>4, <1>5
    <2>2. pcb[p].term = None \/ p = terminals[0].top
      BY <1>4
    <2>3. QED
      BY <1>1, <1>4, <1>5, <1>6, <1>7, <2>1, <2>2, ChainRoot, Indices
  <1>10. QED
    BY <1>8, <1>9 DEF TypeInv

LEMMA AltFnInv ==
  ASSUME TypeInv, NEW t \in Terms, AltFn(t)
  PROVE  TypeInv'
  <1>1. TypeOK /\ Chain
    BY DEF TypeInv
  <1>2. TypeOK'
    BY <1>1 DEF TypeOK, AltFn, display, process, paging
  <1>3. QED
    BY <1>1, <1>2, ChainKept DEF TypeInv, AltFn, process

(* What every tick has in common. *)
LEMMA TickType ==
  ASSUME TypeOK, NEW t \in Terms, Tick(t)
  PROVE  /\ mem' \in [Pages -> Contents]
         /\ screen' \in OnScreen
         /\ vga' \in OnScreen
         /\ current_terminal' = Displayed /\ Displayed \in Terms
         /\ terminal_to_switch_to' = None
         /\ current_schedule' = t
         /\ UNCHANGED <<echo, output>>
  BY SwitchDisplayType, ShownType DEF Tick

(* The interrupted program continues. *)
LEMMA StayInv ==
  ASSUME TypeInv, NEW t \in Terms, Tick(t),
         terminals' = Shown, video' = Remapped, UNCHANGED <<process, user>>
  PROVE  TypeInv'
  <1>1. TypeOK /\ Chain
    BY DEF TypeInv
  <1>2. TypeOK'
    BY <1>1, TickType, ShownType, RemappedType
    DEF TypeOK, process, Contents, OnScreen, Terminal
  <1>3. QED
    BY <1>1, <1>2, ShownType, ChainKept DEF TypeInv, process

LEMMA PitStayInv ==
  ASSUME TypeInv, NEW t \in Terms, PitStay(t)
  PROVE  TypeInv'
  BY StayInv DEF PitStay

LEMMA PitSwitchInv ==
  ASSUME TypeInv, NEW t \in Terms, PitSwitch(t)
  PROVE  TypeInv'
  <1>1. TypeOK /\ Chain /\ Tick(t) /\ Started(t)
    BY DEF TypeInv, PitSwitch
  <1>2. terminals[t].top \in Pids /\ Displayed \in Terms
    BY <1>1, ShownType DEF TypeOK, Started
  <1>3. Place(t, Displayed) \in Pages
    BY <1>2, PlaceType
  <1>4. video' \in [Pids -> Pages]
    BY <1>1, <1>2, <1>3, RemappedType DEF PitSwitch, map_vid_mem
  <1>5. user' \in [Pids -> Pages \cup {None}]
    BY <1>1, <1>2, <1>3 DEF PitSwitch, map_vid_mem, scheduler_vidmap, TypeOK
  <1>6. terminals' = Shown /\ running_pid' = terminals[t].top /\ pcb' = pcb
    BY DEF PitSwitch
  <1>7. TypeOK'
    BY <1>1, <1>2, <1>4, <1>5, <1>6, TickType, ShownType
    DEF TypeOK, Contents, OnScreen, Terminal
  <1>8. Chain'
    BY <1>1, <1>6, ShownType, ChainScheduled
  <1>9. QED
    BY <1>7, <1>8 DEF TypeInv

LEMMA PitShellInv ==
  ASSUME TypeInv, NEW t \in Terms, PitShell(t)
  PROVE  TypeInv'
  <1>1. TypeOK /\ Chain /\ Tick(t) /\ pcb \in [Pids -> Pcb]
    BY DEF TypeInv, PitShell, TypeOK, Pcb
  <1>2. CASE terminals' = Shown /\ video' = Remapped /\ UNCHANGED <<process, user>>
    BY <1>1, <1>2, StayInv
  <1>3. ASSUME NEW p \in Pids, NEW u \in Terms,
               FirstFree(Live, p), ~Started(u),
               pcb' = [pcb EXCEPT ![p] = [term |-> u, parent |-> None]],
               running_pid' = p,
               video' = [Remapped EXCEPT ![p] = VIDEO],
               user' = [user EXCEPT ![p] = None],
               terminals' = [Shown EXCEPT ![u].top = p]
        PROVE  TypeInv'
    <2>1. pcb' \in [Pids -> Pcb]
      BY <1>1, <1>3 DEF Pcb
    <2>2. video' \in [Pids -> Pages] /\ user' \in [Pids -> Pages \cup {None}]
      BY <1>1, <1>3, RemappedType, Indices DEF TypeOK
    <2>3. /\ terminals' \in [Terms -> Terminal]
          /\ \A w \in Terms : terminals'[w].top = IF w = u THEN p ELSE terminals[w].top
      BY <1>1, <1>3, ShownType DEF Terminal
    <2>4. TypeOK'
      BY <1>1, <1>3, <2>1, <2>2, <2>3, TickType
      DEF TypeOK, Contents, OnScreen, Terminal, Pcb
    <2>5. pcb[p].term = None
      BY <1>3 DEF FirstFree, Live
    <2>6. Chain'
      <3>1. pcb'[p] = [term |-> u, parent |-> None] /\ \A q \in Pids \ {p} : pcb'[q] = pcb[q]
        BY <1>1, <1>3
      <3>2. QED
        BY <1>1, <1>3, <2>1, <2>3, <2>5, <3>1, ChainRoot
    <2>7. QED
      BY <2>4, <2>6 DEF TypeInv
  <1>4. QED
    BY <1>2, <1>3 DEF PitShell

LEMMA InitInv == Init => TypeInv
  <1> SUFFICES ASSUME Init PROVE TypeInv
    OBVIOUS
  <1>1. Origin \in OnScreen /\ Origin \in Position
    BY SizeAssumption, WordSize DEF Origin, OnScreen, Position
  <1>2. TypeOK
    <2>1. /\ mem \in [Pages -> Contents]
          /\ terminals \in [Terms -> Terminal]
          /\ pcb \in [Pids -> Pcb]
      BY <1>1, Indices DEF Init, Contents, Terminal, Pcb, Dead
    <2>2. output \in 0 .. MaxOutput
      BY SizeAssumption DEF Init
    <2>3. QED
      BY <1>1, <2>1, <2>2, Indices
      DEF Init, TypeOK, Contents, Terminal, Pcb, OnScreen
  <1>3. Chain
    <2>1. /\ \A p \in Pids : pcb[p].parent = None /\ (pcb[p].term # None => p = 0)
          /\ pcb[0].term = 0 /\ running_pid = 0 /\ terminals[0].top = 0
          /\ \A t \in Terms : t # 0 => terminals[t].top = None
      BY Indices DEF Init, Dead
    <2>2. QED
      BY <2>1, Indices DEF Chain, RunTerm, Started, Live
  <1>4. QED
    BY <1>2, <1>3 DEF TypeInv

LEMMA NextInv == TypeInv /\ [Next]_vars => TypeInv'
  <1> SUFFICES ASSUME TypeInv, [Next]_vars PROVE TypeInv'
    OBVIOUS
  <1>1. CASE UNCHANGED vars
    <2>1. TypeOK /\ Chain
      BY DEF TypeInv
    <2>2. TypeOK'
      BY <1>1, <2>1 DEF vars, display, process, paging, control, TypeOK
    <2>3. QED
      BY <1>1, <2>1, <2>2, ChainKept DEF TypeInv, vars, process
  <1>2. CASE Next
    BY <1>2, TerminalPutcInv, PutcInv, PutcEndInv, VidmapInv, DrawInv, ExecuteInv,
       HaltChildInv, HaltRootInv, AltFnInv, PitStayInv, PitSwitchInv, PitShellInv
    DEF Next
  <1>3. QED
    BY <1>1, <1>2

LEMMA AlwaysTypeInv == Spec => []TypeInv
  BY InitInv, NextInv, PTL DEF Spec

(* Whatever is put out where, executed, halted, switched and scheduled,    *)
(* and whichever of the awkward situations come about, every variable has  *)
(* its type: no store of the kernel leaves the pages of the terminals, and *)
(* the cursor on display stays on the screen.                              *)
THEOREM TypeCorrect == Spec => []TypeOK
  BY AlwaysTypeInv, PTL DEF TypeInv

-----------------------------------------------------------------------------
(* Where the addresses lead *)

(***************************************************************************)
(* Without the awkward situations.  A terminal is shown for the first time *)
(* only when every lower one has its shell, and until its own shell runs   *)
(* it stays on display: execute, which gives a new shell to the first      *)
(* terminal without one, finds the terminal that is on display.            *)
(***************************************************************************)
Sched ==
    /\ terminals[current_terminal].status = 1
    /\ \A t \in Terms : terminals[t].status = 1 /\ ~Started(t) => t = current_terminal
    /\ terminal_to_switch_to # None => Started(current_terminal)
    /\ \A t \in Terms : t < current_terminal => Started(t)
    /\ terminal_to_switch_to # None =>
         \A t \in Terms : t < terminal_to_switch_to => Started(t)

(***************************************************************************)
(* An echo that has remapped video memory belongs to the running process,  *)
(* which is in the background; otherwise the running process is mapped as  *)
(* its terminal is displayed.  A parent waits with the visible screen      *)
(* behind VIDEO and no second mapping, as it was on display when it called *)
(* execute.  A top that is not running may be mapped to anything, but if   *)
(* it has the second mapping then its terminal says so.                    *)
(***************************************************************************)
Maps ==
    /\ IF echo = NoEcho
       THEN video[running_pid] = Place(RunTerm, current_terminal)
       ELSE /\ echo.pid = running_pid /\ echo.term = RunTerm
            /\ RunTerm # current_terminal
    /\ user[running_pid] \in {None, Place(RunTerm, current_terminal)}
    /\ \A p \in Live : (\A t \in Terms : terminals[t].top # p) =>
                         video[p] = VIDEO /\ user[p] = None
    /\ \A t \in Terms : Started(t) /\ user[terminals[t].top] # None =>
                          terminals[t].vidmap = 1

MapInv == TypeInv /\ Sched /\ Maps

(* Going round the terminals from c, one comes to every other terminal     *)
(* before one is back.                                                     *)
LEMMA Wraps ==
  ASSUME NEW n \in Nat \ {0}, NEW w \in 0 .. n - 1
  PROVE  w % n = w /\ (w + n) % n = w
  OBVIOUS

LEMMA Around ==
  ASSUME NEW c \in Terms, NEW w \in Terms, w # c
  PROVE  \E e \in 1 .. TERMINAL_NUM - 1 : w = (c + e) % TERMINAL_NUM
  <1>1. TERMINAL_NUM \in Nat \ {0} /\ c \in 0 .. TERMINAL_NUM - 1
        /\ w \in 0 .. TERMINAL_NUM - 1
    BY SizeAssumption DEF Terms
  <1>2. w % TERMINAL_NUM = w /\ (w + TERMINAL_NUM) % TERMINAL_NUM = w
    BY <1>1, Wraps
  <1>3. CASE c < w
    <2>1. w - c \in 1 .. TERMINAL_NUM - 1 /\ c + (w - c) = w
      BY <1>1, <1>3
    <2>2. QED
      BY <1>2, <2>1
  <1>4. CASE w < c
    <2>1. /\ w - c + TERMINAL_NUM \in 1 .. TERMINAL_NUM - 1
          /\ c + (w - c + TERMINAL_NUM) = w + TERMINAL_NUM
      BY <1>1, <1>4
    <2>2. QED
      BY <1>2, <2>1
  <1>5. QED
    BY <1>1, <1>3, <1>4

(* The scheduler comes back to the terminal it left only if no other was   *)
(* ever shown.                                                             *)
LEMMA AllOthersNew ==
  ASSUME TypeOK, NextScheduled(current_schedule),
         NEW w \in Terms, w # current_schedule
  PROVE  Shown[w].status # 1
  <1> DEFINE c == current_schedule
  <1>1. c \in Terms
    BY DEF TypeOK
  <1>2. PICK d \in 1 .. TERMINAL_NUM :
          /\ c = (c + d) % TERMINAL_NUM
          /\ \A e \in 1 .. d - 1 : Shown[(c + e) % TERMINAL_NUM].status # 1
    BY DEF NextScheduled
  <1>3. TERMINAL_NUM \in Nat \ {0} /\ c \in 0 .. TERMINAL_NUM - 1
        /\ d \in 1 .. TERMINAL_NUM
    BY <1>1, SizeAssumption DEF Terms
  <1> HIDE DEF c
  <1>4. d = TERMINAL_NUM
    <2> SUFFICES ASSUME d # TERMINAL_NUM PROVE FALSE
      OBVIOUS
    <2>1. CASE c + d < TERMINAL_NUM
      <3>1. c + d \in 0 .. TERMINAL_NUM - 1
        BY <1>3, <2>1
      <3>2. (c + d) % TERMINAL_NUM = c + d
        BY <1>3, <3>1, Wraps
      <3>3. QED
        BY <1>2, <1>3, <3>2
    <2>2. CASE c + d >= TERMINAL_NUM
      <3>1. c + d - TERMINAL_NUM \in 0 .. TERMINAL_NUM - 1
            /\ (c + d - TERMINAL_NUM) + TERMINAL_NUM = c + d
        BY <1>3, <2>2
      <3>2. (c + d) % TERMINAL_NUM = c + d - TERMINAL_NUM
        BY <1>3, <3>1, Wraps
      <3>3. QED
        BY <1>2, <1>3, <3>2
    <2>3. QED
      BY <1>3, <2>1, <2>2
  <1>5. PICK e \in 1 .. TERMINAL_NUM - 1 : w = (c + e) % TERMINAL_NUM
    BY <1>1, Around DEF c
  <1>6. QED
    BY <1>2, <1>4, <1>5

(* A step that leaves what is displayed and who has a shell alone. *)
LEMMA SchedKept ==
  ASSUME TypeOK, Sched, UNCHANGED <<current_terminal, terminal_to_switch_to>>,
         \A t \in Terms : /\ terminals'[t].status = terminals[t].status
                          /\ Started(t) => terminals'[t].top # None
  PROVE  Sched'
  BY DEF Sched, Started, TypeOK

(* A tick: the terminal it shows is the only one that may lack a shell. *)
LEMMA SchedTick ==
  ASSUME TypeOK, Sched, NEW s \in Terms, Tick(s),
         \A t \in Terms : /\ terminals'[t].status = Shown[t].status
                          /\ Started(t) => terminals'[t].top # None
  PROVE  Sched'
  <1>1. /\ current_terminal' = Displayed /\ terminal_to_switch_to' = None
        /\ Displayed \in Terms /\ terminals \in [Terms -> Terminal]
        /\ current_terminal \in Terms
    BY TickType DEF TypeOK, Terminal
  <1>2. Switching => /\ terminal_to_switch_to # None
                     /\ Displayed = terminal_to_switch_to
    BY DEF Switching, Displayed
  <1>3. \A t \in Terms : Shown[t].status =
          IF t = Displayed /\ Switching THEN 1 ELSE terminals[t].status
    BY <1>1 DEF Shown, Terminal
  <1>4. Shown[Displayed].status = 1
    BY <1>1, <1>3 DEF Sched, Switching
  <1>5. \A t \in Terms : Shown[t].status = 1 /\ ~Started(t) => t = Displayed
    BY <1>1, <1>2, <1>3 DEF Sched, Switching
  <1>6. \A t \in Terms : t < Displayed => Started(t)
    BY <1>1, <1>2 DEF Sched, Switching
  <1>7. QED
    BY <1>1, <1>4, <1>5, <1>6 DEF Sched, Started

LEMMA SchedStep ==
  ASSUME Env = {}, TypeInv, Sched, [Next]_vars
  PROVE  Sched'
  <1>1. TypeOK /\ Chain /\ RunTerm \in Terms /\ terminals \in [Terms -> Terminal]
        /\ running_pid \in Pids
    BY DEF TypeInv, Chain, TypeOK, Terminal
  <1>2. ASSUME NEW c, terminal_putc(c)
        PROVE  Sched'
    BY <1>1, <1>2, SchedKept DEF terminal_putc, control, Started, Terminal
  <1>3. ASSUME NEW c, putc(c)
        PROVE  Sched'
    BY <1>1, <1>3, SchedKept DEF putc, control, Started
  <1>4. CASE PutcEnd
    BY <1>1, <1>4, SchedKept DEF PutcEnd, control, Started, Terminal
  <1>5. CASE vidmap
    BY <1>1, <1>5, SchedKept DEF vidmap, control, Started, Terminal
  <1>6. ASSUME NEW n, NEW c, Draw(n, c)
        PROVE  Sched'
    BY <1>1, <1>6, SchedKept DEF Draw, control, Started
  <1>7. CASE execute
    BY <1>1, <1>7, Indices, SchedKept DEF execute, control, Started, Terminal
  <1>8. CASE HaltChild
    BY <1>1, <1>8, Indices, SchedKept DEF HaltChild, control, Started, Terminal
  <1>9. CASE HaltRoot
    BY <1>1, <1>9, Indices, SchedKept DEF HaltRoot, control, Started, Terminal
  <1>10. ASSUME NEW t \in Terms, AltFn(t)
         PROVE  Sched'
    <2>1. \A u \in Terms : u < t => Started(u)
      BY <1>10 DEF AltFn, Terms
    <2>2. QED
      BY <1>10, <2>1 DEF AltFn, Sched, Started
  <1>11. ASSUME NEW t \in Terms, Tick(t), terminals' = Shown
         PROVE  Sched'
    BY <1>1, <1>11, ShownType, SchedTick DEF Started
  <1>12. ASSUME NEW t \in Terms, PitShell(t)
         PROVE  Sched'
    <2>1. ASSUME NEW p \in Pids, NEW u \in Terms, terminals' = [Shown EXCEPT ![u].top = p]
          PROVE  Sched'
      <3>1. \A w \in Terms : /\ terminals'[w].status = Shown[w].status
                             /\ Started(w) => terminals'[w].top # None
        BY <1>1, <2>1, ShownType, Indices DEF Terminal, Started
      <3>2. QED
        BY <1>1, <1>12, <3>1, SchedTick DEF PitShell
    <2>2. QED
      BY <1>11, <1>12, <2>1 DEF PitShell
  <1>13. CASE UNCHANGED vars
    BY <1>1, <1>13, SchedKept DEF vars, control, Started
  <1>14. QED
    BY <1>2, <1>3, <1>4, <1>5, <1>6, <1>7, <1>8, <1>9, <1>10, <1>11, <1>12, <1>13
    DEF Next, PitStay, PitSwitch

-----------------------------------------------------------------------------

(* The tops of two terminals are two processes. *)
LEMMA TopsDiffer ==
  ASSUME TypeInv, NEW t \in Terms, NEW u \in Terms, Started(t), t # u
  PROVE  terminals[t].top # terminals[u].top
  BY DEF TypeInv, Chain, Started

(* The running process is no echo: then there is none. *)
LEMMA NoEchoInProgram ==
  ASSUME Maps, InProgram
  PROVE  echo = NoEcho
  BY DEF Maps, InProgram

(* Output and a key pressed do not change how anything is mapped. *)
LEMMA MapsKept ==
  ASSUME TypeInv, Maps, UNCHANGED <<process, paging, current_terminal, echo>>,
         \A t \in Terms : /\ terminals'[t].top = terminals[t].top
                          /\ terminals'[t].vidmap = terminals[t].vidmap
  PROVE  Maps'
  <1>1. RunTerm' = RunTerm /\ Live' = Live /\ running_pid' = running_pid
        /\ video' = video /\ user' = user /\ current_terminal' = current_terminal
        /\ echo' = echo
    BY DEF process, paging, RunTerm, Live
  <1>2. \A t \in Terms : Started(t)' = Started(t)
    BY DEF Started
  <1>3. QED
    BY <1>1, <1>2 DEF Maps

LEMMA MapsPutc ==
  ASSUME TypeInv, Maps, NEW c \in Outputs \cup {"clear"}, putc(c)
  PROVE  Maps'
  <1>1. /\ running_pid \in Pids /\ video \in [Pids -> Pages] /\ RunTerm \in Terms
        /\ terminals[RunTerm].top = running_pid
    BY DEF TypeInv, TypeOK, Chain
  <1>2. UNCHANGED <<process, user, control, terminals>>
    BY DEF putc
  <1>3. CASE RunTerm = current_terminal
    BY <1>2, <1>3, MapsKept DEF putc, paging, control
  <1>4. CASE RunTerm # current_terminal
    <2>1. /\ echo' = [pid |-> running_pid, c |-> c, term |-> RunTerm]
          /\ \A p \in Pids : p # running_pid => video'[p] = video[p]
      BY <1>1, <1>4 DEF putc, map_vid_mem
    <2>2. echo' # NoEcho /\ echo'.pid = running_pid /\ echo'.term = RunTerm
      BY <1>1, <2>1, Indices DEF NoEcho
    <2>3. QED
      BY <1>1, <1>2, <1>4, <2>1, <2>2
      DEF Maps, process, control, RunTerm, Live, Started
  <1>5. QED
    BY <1>3, <1>4

LEMMA MapsPutcEnd ==
  ASSUME TypeInv, Maps, PutcEnd
  PROVE  Maps'
  <1>1. /\ running_pid \in Pids /\ video \in [Pids -> Pages] /\ RunTerm \in Terms
        /\ terminals[RunTerm].top = running_pid /\ terminals \in [Terms -> Terminal]
        /\ running_pid # None
    BY Indices DEF TypeInv, TypeOK, Chain, Terminal
  <1>2. UNCHANGED <<process, user, control>> /\ echo' = NoEcho
    BY DEF PutcEnd
  <1>3. echo # NoEcho
    BY <1>1 DEF PutcEnd, NoEcho
  <1>4. /\ echo.term = RunTerm /\ RunTerm # current_terminal
        /\ video' = [video EXCEPT ![running_pid] = Buf(RunTerm)]
    BY <1>3 DEF Maps, PutcEnd, map_vid_mem
  <1>5. \A t \in Terms : /\ terminals'[t].top = terminals[t].top
                         /\ terminals'[t].vidmap = terminals[t].vidmap
    BY <1>1 DEF PutcEnd, Terminal
  <1>6. /\ video'[running_pid] = Place(RunTerm, current_terminal)
        /\ \A p \in Pids : p # running_pid => video'[p] = video[p]
    BY <1>1, <1>4 DEF Place
  <1>7. QED
    BY <1>1, <1>2, <1>5, <1>6 DEF Maps, process, control, RunTerm, Live, Started

LEMMA MapsVidmap ==
  ASSUME TypeInv, Maps, vidmap
  PROVE  Maps'
  <1>1. /\ running_pid \in Pids /\ user \in [Pids -> Pages \cup {None}]
        /\ RunTerm \in Terms /\ terminals[RunTerm].top = running_pid
        /\ terminals \in [Terms -> Terminal]
    BY DEF TypeInv, TypeOK, Chain, Terminal
  <1>2. UNCHANGED <<process, video, control, echo>>
    BY DEF vidmap
  <1>3. /\ user'[running_pid] = Place(RunTerm, current_terminal)
        /\ \A p \in Pids : p # running_pid => user'[p] = user[p]
    BY <1>1 DEF vidmap, map_vid_mem
  <1>4. \A t \in Terms :
          /\ terminals'[t].top = terminals[t].top
          /\ terminals'[t].vidmap = IF t = RunTerm THEN 1 ELSE terminals[t].vidmap
    BY <1>1 DEF vidmap, Terminal
  <1>5. \A t \in Terms : Started(t) /\ t # RunTerm =>
          terminals[t].top # running_pid /\ terminals[t].top \in Pids
    BY <1>1, TopsDiffer DEF Started, Terminal
  <1>6. QED
    BY <1>1, <1>2, <1>3, <1>4, <1>5
    DEF Maps, process, control, RunTerm, Live, Started

(* A program on display starts another: the parent keeps the visible       *)
(* screen, the child has it from make_task_pgdir.                          *)
LEMMA MapsExecute ==
  ASSUME Env = {}, TypeInv, Maps, execute
  PROVE  Maps'
  <1>1. /\ running_pid \in Pids /\ user \in [Pids -> Pages \cup {None}]
        /\ video \in [Pids -> Pages] /\ pcb \in [Pids -> Pcb]
        /\ RunTerm \in Terms /\ terminals[RunTerm].top = running_pid
        /\ terminals \in [Terms -> Terminal] /\ RunTerm # None
    BY Indices DEF TypeInv, TypeOK, Chain, Terminal, Pcb
  <1>2. /\ RunTerm = current_terminal /\ user[running_pid] = None
        /\ UNCHANGED <<control, echo>>
    BY DEF execute
  <1>3. echo = NoEcho /\ video[running_pid] = VIDEO
    BY <1>2, NoEchoInProgram DEF execute, Maps, Place
  <1>4. PICK p \in Pids : /\ FirstFree(Live, p)
                          /\ Create(pcb, p, RunTerm, running_pid)
                          /\ terminals' = [terminals EXCEPT ![RunTerm].top = p]
    BY DEF execute
  <1>5. p \notin Live /\ p # running_pid
    BY <1>1, <1>4 DEF FirstFree, Live, RunTerm
  <1>6. /\ pcb'[p].term = RunTerm /\ running_pid' = p
        /\ video'[p] = VIDEO /\ user'[p] = None
        /\ \A q \in Pids : q # p => /\ pcb'[q] = pcb[q]
                                    /\ video'[q] = video[q] /\ user'[q] = user[q]
    BY <1>1, <1>4 DEF Create, make_task_pgdir
  <1>7. \A t \in Terms :
          /\ terminals'[t].top = IF t = RunTerm THEN p ELSE terminals[t].top
          /\ terminals'[t].vidmap = terminals[t].vidmap
    BY <1>1, <1>4 DEF Terminal
  <1>8. RunTerm' = RunTerm /\ Live' = Live \cup {p}
    BY <1>1, <1>6 DEF RunTerm, Live
  <1>9. \A t \in Terms : Started(t) => terminals[t].top # p /\ terminals[t].top \in Pids
    BY <1>5, Indices DEF TypeInv, TypeOK, Chain, Live, Started
  <1>10. Place(RunTerm, current_terminal) = VIDEO
    BY <1>2 DEF Place
  <1>11. (\A q \in Live : (\A t \in Terms : terminals[t].top # q) =>
                            video[q] = VIDEO /\ user[q] = None)'
    <2> SUFFICES ASSUME NEW q \in Live', \A t \in Terms : terminals'[t].top # q
                 PROVE  video'[q] = VIDEO /\ user'[q] = None
      OBVIOUS
    <2>1. q # p /\ q \in Live /\ q \in Pids
      BY <1>1, <1>7, <1>8 DEF Live
    <2>2. CASE q = running_pid
      BY <1>2, <1>3, <1>6, <2>1, <2>2
    <2>3. CASE q # running_pid
      <3>1. \A t \in Terms : terminals[t].top # q
        BY <1>1, <1>7, <2>3
      <3>2. QED
        BY <1>6, <2>1, <3>1 DEF Maps
    <2>4. QED
      BY <2>2, <2>3
  <1>12. (\A t \in Terms : Started(t) /\ user[terminals[t].top] # None =>
                             terminals[t].vidmap = 1)'
    BY <1>6, <1>7, <1>9 DEF Maps, Started
  <1>13. QED
    BY <1>2, <1>3, <1>6, <1>8, <1>10, <1>11, <1>12 DEF Maps, control

(* The parent that continues waited with the visible screen, and the       *)
(* terminal is on display.                                                 *)
LEMMA MapsHaltChild ==
  ASSUME Env = {}, TypeInv, Maps, HaltChild
  PROVE  Maps'
  <1> DEFINE s == pcb[running_pid].parent
  <1>1. /\ running_pid \in Pids /\ pcb \in [Pids -> Pcb]
        /\ RunTerm \in Terms /\ terminals[RunTerm].top = running_pid
        /\ terminals \in [Terms -> Terminal] /\ RunTerm # None /\ running_pid \in Live
    BY Indices DEF TypeInv, TypeOK, Chain, Terminal, Pcb, Live, RunTerm
  <1>2. /\ RunTerm = current_terminal /\ s # None
        /\ UNCHANGED <<paging, control, echo>> /\ echo = NoEcho
        /\ running_pid' = s
        /\ pcb' = [pcb EXCEPT ![running_pid] = Dead]
        /\ terminals' = [terminals EXCEPT ![RunTerm] = [@ EXCEPT !.top = s, !.vidmap = 0]]
    BY NoEchoInProgram DEF HaltChild
  <1>3. /\ s \in Live /\ s # running_pid /\ pcb[s].term = RunTerm
        /\ \A t \in Terms : terminals[t].top # s
    BY <1>1, <1>2 DEF TypeInv, Chain, RunTerm
  <1>4. video[s] = VIDEO /\ user[s] = None
    BY <1>3 DEF Maps
  <1> HIDE DEF s
  <1>5. \A t \in Terms :
          /\ terminals'[t].top = IF t = RunTerm THEN s ELSE terminals[t].top
          /\ t # RunTerm => terminals'[t].vidmap = terminals[t].vidmap
    BY <1>1, <1>2 DEF Terminal
  <1>6. RunTerm' = RunTerm /\ Live' = Live \ {running_pid}
    BY <1>1, <1>2, <1>3 DEF RunTerm, Live, Dead
  <1>7. Place(RunTerm, current_terminal) = VIDEO
    BY <1>2 DEF Place
  <1>8. (\A q \in Live : (\A t \in Terms : terminals[t].top # q) =>
                            video[q] = VIDEO /\ user[q] = None)'
    <2> SUFFICES ASSUME NEW q \in Live \ {running_pid}, \A t \in Terms : terminals'[t].top # q
                 PROVE  video[q] = VIDEO /\ user[q] = None
      BY <1>2, <1>6 DEF paging
    <2>1. \A t \in Terms : terminals[t].top # q
      BY <1>1, <1>5
    <2>2. QED
      BY <2>1 DEF Maps
  <1>9. (\A t \in Terms : Started(t) /\ user[terminals[t].top] # None =>
                             terminals[t].vidmap = 1)'
    BY <1>2, <1>4, <1>5 DEF Maps, Started, paging
  <1>10. QED
    BY <1>2, <1>4, <1>6, <1>7, <1>8, <1>9 DEF Maps, control, paging

(* The shell of terminal 0, on display, is replaced by a new one. *)
LEMMA MapsHaltRoot ==
  ASSUME TypeInv, Maps, HaltRoot
  PROVE  Maps'
  <1> DEFINE f == [pcb EXCEPT ![running_pid] = Dead]
  <1>1. /\ running_pid \in Pids /\ user \in [Pids -> Pages \cup {None}]
        /\ video \in [Pids -> Pages] /\ pcb \in [Pids -> Pcb]
        /\ RunTerm = 0 /\ 0 \in Terms /\ terminals[0].top = running_pid
        /\ terminals \in [Terms -> Terminal]
    BY Indices DEF TypeInv, TypeOK, Chain, Terminal, Pcb, HaltRoot
  <1>2. current_terminal = 0 /\ UNCHANGED <<control, echo>> /\ echo = NoEcho
    BY NoEchoInProgram DEF HaltRoot
  <1>3. PICK p \in Pids : /\ FirstFree(Live \ {running_pid}, p)
                          /\ Create(f, p, 0, None)
                          /\ terminals' = [terminals EXCEPT ![0].top = p]
    BY DEF HaltRoot
  <1>4. /\ pcb'[p].term = 0 /\ running_pid' = p
        /\ video'[p] = VIDEO /\ user'[p] = None
        /\ \A q \in Pids : q # p =>
              /\ pcb'[q] = IF q = running_pid THEN Dead ELSE pcb[q]
              /\ video'[q] = video[q] /\ user'[q] = user[q]
    BY <1>1, <1>3 DEF Create, make_task_pgdir
  <1>5. \A t \in Terms : /\ terminals'[t].top = IF t = 0 THEN p ELSE terminals[t].top
                         /\ terminals'[t].vidmap = terminals[t].vidmap
    BY <1>1, <1>3 DEF Terminal
  <1>6. /\ RunTerm' = 0
        /\ \A q \in Live' : q # p => q \in Live \ {running_pid}
    BY <1>4 DEF RunTerm, Live, Dead
  <1>7. \A t \in Terms : Started(t) /\ t # 0 =>
          terminals[t].top # p /\ terminals[t].top \in Pids
    <2> SUFFICES ASSUME NEW t \in Terms, Started(t), t # 0
                 PROVE  terminals[t].top # p /\ terminals[t].top \in Pids
      OBVIOUS
    <2>1. terminals[t].top \in Pids /\ pcb[terminals[t].top].term = t /\ t # None
      BY <1>1, Indices DEF TypeInv, Chain, Started, Terminal
    <2>2. terminals[t].top \in Live \ {running_pid}
      BY <1>1, <2>1 DEF Live, RunTerm
    <2>3. QED
      BY <1>3, <2>1, <2>2 DEF FirstFree
  <1>8. (\A q \in Live : (\A t \in Terms : terminals[t].top # q) =>
                            video[q] = VIDEO /\ user[q] = None)'
    <2> SUFFICES ASSUME NEW q \in Live', \A t \in Terms : terminals'[t].top # q
                 PROVE  video'[q] = VIDEO /\ user'[q] = None
      OBVIOUS
    <2>1. q # p
      BY <1>1, <1>5
    <2>2. q \in Live /\ q # running_pid /\ q \in Pids
      BY <1>6, <2>1 DEF Live
    <2>3. \A t \in Terms : terminals[t].top # q
      BY <1>1, <1>5, <2>2
    <2>4. QED
      BY <1>4, <2>1, <2>2, <2>3 DEF Maps
  <1>9. (\A t \in Terms : Started(t) /\ user[terminals[t].top] # None =>
                             terminals[t].vidmap = 1)'
    BY <1>4, <1>5, <1>7 DEF Maps, Started
  <1>10. Place(0, 0) = VIDEO
    BY DEF Place
  <1>11. QED
    BY <1>2, <1>4, <1>6, <1>8, <1>9, <1>10 DEF Maps, control

(* The interrupted program continues: nothing was switched, or there is no *)
(* pid for the new terminal and its own, now in the background, had no     *)
(* second mapping.                                                         *)
LEMMA MapsStay ==
  ASSUME Env = {}, TypeInv, Maps, NEW t \in Terms, Tick(t),
         ~Switching \/ (RunTerm = current_terminal /\ user[running_pid] = None),
         terminals' = Shown, video' = Remapped, UNCHANGED <<process, user>>
  PROVE  Maps'
  <1>1. /\ TypeOK /\ running_pid \in Pids /\ video \in [Pids -> Pages]
        /\ RunTerm \in Terms /\ terminals[RunTerm].top = running_pid
    BY DEF TypeInv, TypeOK, Chain
  <1>2. \A w \in Terms : /\ terminals'[w].top = terminals[w].top
                         /\ terminals'[w].vidmap = terminals[w].vidmap
    BY <1>1, ShownType
  <1>3. current_terminal' = Displayed /\ echo' = echo /\ echo = NoEcho
    BY DEF Tick
  <1>4. CASE ~Switching
    <2>1. video' = video /\ current_terminal' = current_terminal
      BY <1>3, <1>4 DEF Remapped, Switching
    <2>2. QED
      BY <1>2, <1>3, <2>1, MapsKept DEF paging
  <1>5. CASE Switching
    <2>1. RunTerm = current_terminal /\ user[running_pid] = None
          /\ Displayed # current_terminal
      BY <1>5 DEF Switching
    <2>2. video' = [video EXCEPT ![running_pid] = Buf(RunTerm)]
      BY <1>5, <2>1 DEF Remapped, map_vid_mem
    <2>3. /\ video'[running_pid] = Place(RunTerm, Displayed)
          /\ \A q \in Pids : q # running_pid => video'[q] = video[q]
      BY <1>1, <2>1, <2>2 DEF Place
    <2>4. RunTerm' = RunTerm /\ Live' = Live /\ running_pid' = running_pid
          /\ user' = user /\ Live \subseteq Pids
      BY DEF process, RunTerm, Live
    <2>5. \A w \in Terms : Started(w)' = Started(w)
      BY <1>2 DEF Started
    <2>6. QED
      BY <1>1, <1>2, <1>3, <2>1, <2>3, <2>4, <2>5 DEF Maps
  <1>6. QED
    BY <1>4, <1>5

(* A switch is never followed by the same program: the terminal on display *)
(* before and the one after were both shown, and one of them is next.      *)
LEMMA MapsPitStay ==
  ASSUME Env = {}, TypeInv, Sched, Maps, NEW t \in Terms, PitStay(t)
  PROVE  Maps'
  <1>1. TypeOK /\ Tick(t) /\ NextScheduled(current_schedule)
    BY DEF TypeInv, PitStay, Tick
  <1>2. ~Switching
    <2> SUFFICES ASSUME Switching PROVE FALSE
      OBVIOUS
    <2>1. /\ terminals \in [Terms -> Terminal] /\ Displayed \in Terms
          /\ current_terminal \in Terms /\ Displayed # current_terminal
      BY <1>1, ShownType DEF TypeOK, Terminal, Switching
    <2>2. Shown[Displayed].status = 1 /\ Shown[current_terminal].status = 1
      BY <2>1 DEF Shown, Terminal, Sched
    <2>3. QED
      BY <1>1, <2>1, <2>2, AllOthersNew
  <1>3. QED
    BY <1>1, <1>2, MapsStay DEF PitStay

(* The scheduler maps the program it continues to where its terminal is.   *)
LEMMA MapsPitSwitch ==
  ASSUME Env = {}, TypeInv, Maps, NEW t \in Terms, PitSwitch(t)
  PROVE  Maps'
  <1> DEFINE p == terminals[t].top
  <1>1. /\ TypeOK /\ running_pid \in Pids /\ video \in [Pids -> Pages]
        /\ RunTerm \in Terms /\ terminals[RunTerm].top = running_pid
        /\ user \in [Pids -> Pages \cup {None}] /\ p \in Pids
        /\ pcb[p].term = t /\ Tick(t) /\ Started(t)
    BY DEF TypeInv, TypeOK, Chain, PitSwitch, Started
  <1>2. \A w \in Terms : /\ terminals'[w].top = terminals[w].top
                         /\ terminals'[w].vidmap = terminals[w].vidmap
                         /\ Started(w)' = Started(w)
    BY <1>1, ShownType DEF PitSwitch, Started
  <1>3. /\ current_terminal' = Displayed /\ echo' = echo /\ echo = NoEcho
        /\ running_pid' = p /\ pcb' = pcb
    BY DEF Tick, PitSwitch
  <1>4. RunTerm' = t /\ Live' = Live /\ Live \subseteq Pids
    BY <1>1, <1>3 DEF RunTerm, Live
  <1>5. /\ video'[p] = Place(t, Displayed)
        /\ \A q \in Pids : q # p /\ q # running_pid => video'[q] = video[q]
    <2>1. /\ Remapped \in [Pids -> Pages]
          /\ \A q \in Pids : q # running_pid => Remapped[q] = video[q]
      BY <1>1, RemappedType DEF Remapped, map_vid_mem
    <2>2. QED
      BY <1>1, <2>1 DEF PitSwitch, map_vid_mem
  <1>6. /\ IF terminals[t].vidmap = 1 THEN user'[p] = Place(t, Displayed)
                                      ELSE user'[p] = user[p]
        /\ \A q \in Pids : q # p => user'[q] = user[q]
    BY <1>1, ShownType DEF PitSwitch, scheduler_vidmap, map_vid_mem
  <1>7. terminals[t].vidmap # 1 => user[p] = None
    BY <1>1 DEF Maps
  <1>8. \A w \in Terms : Started(w) /\ w # t => terminals[w].top # p /\ terminals[w].top \in Pids
    BY <1>1, TopsDiffer DEF TypeOK, Started
  <1> HIDE DEF p
  <1>9. (\A q \in Live : (\A w \in Terms : terminals[w].top # q) =>
                            video[q] = VIDEO /\ user[q] = None)'
    <2> SUFFICES ASSUME NEW q \in Live, \A w \in Terms : terminals[w].top # q
                 PROVE  video'[q] = VIDEO /\ user'[q] = None
      BY <1>2, <1>4
    <2>1. q # p /\ q # running_pid /\ q \in Pids
      BY <1>1, <1>4 DEF p
    <2>2. QED
      BY <1>5, <1>6, <2>1 DEF Maps
  <1>10. (\A w \in Terms : Started(w) /\ user[terminals[w].top] # None =>
                              terminals[w].vidmap = 1)'
    <2> SUFFICES ASSUME NEW w \in Terms, Started(w), user'[terminals[w].top] # None
                 PROVE  terminals[w].vidmap = 1
      BY <1>2
    <2>1. CASE w = t
      BY <1>6, <1>7, <2>1 DEF p
    <2>2. CASE w # t
      BY <1>6, <1>8, <2>2 DEF Maps
    <2>3. QED
      BY <2>1, <2>2
  <1>11. QED
    BY <1>3, <1>4, <1>5, <1>6, <1>7, <1>9, <1>10 DEF Maps

(* A new shell: the first terminal without one is the one on display. *)
LEMMA MapsPitShell ==
  ASSUME Env = {}, TypeInv, Sched, Maps, NEW t \in Terms, PitShell(t)
  PROVE  Maps'
  <1>1. /\ TypeOK /\ Chain /\ Tick(t) /\ ~Started(t)
        /\ Displayed \in Terms /\ current_terminal \in Terms
        /\ terminals \in [Terms -> Terminal]
    BY ShownType DEF TypeInv, TypeOK, PitShell, Terminal
  <1>2. CASE terminals' = Shown /\ video' = Remapped /\ UNCHANGED <<process, user>>
             /\ (~Switching \/ (RunTerm = current_terminal /\ user[running_pid] = None))
    BY <1>1, <1>2, MapsStay
  <1>3. ASSUME NEW p \in Pids, NEW u \in Terms,
               FirstFree(Live, p),
               ~Started(u), \A w \in 0 .. u - 1 : Started(w),
               pcb' = [pcb EXCEPT ![p] = [term |-> u, parent |-> None]],
               running_pid' = p,
               video' = [Remapped EXCEPT ![p] = VIDEO],
               user' = [user EXCEPT ![p] = None],
               terminals' = [Shown EXCEPT ![u].top = p]
        PROVE  Maps'
    <2>1. /\ running_pid \in Pids /\ user \in [Pids -> Pages \cup {None}]
          /\ pcb \in [Pids -> Pcb] /\ terminals[RunTerm].top = running_pid
          /\ RunTerm \in Terms /\ RunTerm # None /\ u # None
      BY <1>1, Indices DEF TypeOK, Chain, Pcb
    <2>2. Switching => /\ terminal_to_switch_to # None
                       /\ Displayed = terminal_to_switch_to
      BY DEF Switching, Displayed
    <2>3. t = Displayed
      <3>1. Shown[t].status = 1
        BY <1>1 DEF Tick, NextScheduled
      <3>2. t # Displayed => terminals[t].status = 1
        BY <1>1, <3>1 DEF Shown, Terminal
      <3>3. QED
        BY <1>1, <2>2, <3>2 DEF Sched, Switching
    <2>4. u = Displayed
      <3>1. \A w \in Terms : w < Displayed => Started(w)
        BY <1>1, <2>2 DEF Sched, Switching
      <3>2. ~(u < Displayed)
        BY <1>3, <3>1
      <3>3. ~(Displayed < u)
        BY <1>1, <1>3, <2>3 DEF Terms
      <3>4. QED
        BY <1>1, <3>2, <3>3 DEF Terms
    <2>5. /\ current_terminal' = Displayed /\ echo' = echo /\ echo = NoEcho
      BY <1>1 DEF Tick
    <2>6. p \notin Live
      BY <1>3 DEF FirstFree
    <2>7. /\ video'[p] = VIDEO
          /\ \A q \in Pids : q # p /\ q # running_pid => video'[q] = video[q]
      <3>1. /\ Remapped \in [Pids -> Pages]
            /\ \A q \in Pids : q # running_pid => Remapped[q] = video[q]
        BY <1>1, RemappedType DEF Remapped, map_vid_mem, TypeOK
      <3>2. QED
        BY <1>3, <3>1
    <2>8. user'[p] = None /\ \A q \in Pids : q # p => user'[q] = user[q]
      BY <1>3, <2>1
    <2>9. \A w \in Terms :
            /\ terminals'[w].top = IF w = u THEN p ELSE terminals[w].top
            /\ terminals'[w].vidmap = terminals[w].vidmap
      BY <1>1, <1>3, ShownType DEF Terminal
    <2>10. RunTerm' = u /\ Live' = Live \cup {p} /\ Live \subseteq Pids
      BY <1>3, <2>1 DEF RunTerm, Live
    <2>11. \A w \in Terms : Started(w) => terminals[w].top \in Live
      BY <1>1, Indices DEF Chain, Started, Live, Terminal
    <2>12. (\A q \in Live : (\A w \in Terms : terminals[w].top # q) =>
                               video[q] = VIDEO /\ user[q] = None)'
      <3> SUFFICES ASSUME NEW q \in Live', \A w \in Terms : terminals'[w].top # q
                   PROVE  video'[q] = VIDEO /\ user'[q] = None
        OBVIOUS
      <3>1. q # p /\ q \in Live
        BY <2>9, <2>10
      <3>2. \A w \in Terms : terminals[w].top # q
        <4>1. q # None
          BY <2>10, <3>1, Indices
        <4>2. QED
          BY <1>3, <2>9, <4>1 DEF Started
      <3>3. q # running_pid
        BY <2>1, <3>2
      <3>4. QED
        BY <2>7, <2>8, <2>10, <3>1, <3>2, <3>3 DEF Maps
    <2>13. (\A w \in Terms : Started(w) /\ user[terminals[w].top] # None =>
                                terminals[w].vidmap = 1)'
      <3> SUFFICES ASSUME NEW w \in Terms, terminals'[w].top # None,
                          user'[terminals'[w].top] # None
                   PROVE  terminals'[w].vidmap = 1
        BY DEF Started
      <3>1. w # u /\ terminals'[w].top = terminals[w].top /\ Started(w)
        BY <2>8, <2>9 DEF Started
      <3>2. terminals[w].top # p /\ terminals[w].top \in Pids
        BY <2>6, <2>10, <2>11, <3>1
      <3>3. QED
        BY <2>8, <2>9, <3>1, <3>2 DEF Maps
    <2>14. Place(u, Displayed) = VIDEO
      BY <2>4 DEF Place
    <2>15. QED
      BY <1>3, <2>5, <2>7, <2>8, <2>10, <2>12, <2>13, <2>14 DEF Maps
  <1>4. QED
    BY <1>2, <1>3 DEF PitShell

LEMMA MapsStep ==
  ASSUME Env = {}, MapInv, [Next]_vars
  PROVE  MapInv'
  <1>1. TypeInv /\ Sched /\ Maps /\ TypeInv' /\ Sched'
    BY NextInv, SchedStep DEF MapInv
  <1>2. RunTerm \in Terms /\ terminals \in [Terms -> Terminal]
    BY <1>1 DEF TypeInv, TypeOK, Chain, Terminal
  <1>3. ASSUME NEW c \in Outputs, terminal_putc(c)
        PROVE  Maps'
    <2>1. \A t \in Terms : /\ terminals'[t].top = terminals[t].top
                           /\ terminals'[t].vidmap = terminals[t].vidmap
      BY <1>2, <1>3 DEF terminal_putc, Terminal
    <2>2. QED
      BY <1>1, <1>3, <2>1, MapsKept DEF terminal_putc, control
  <1>4. ASSUME NEW n \in Cells, NEW c \in Chars, Draw(n, c)
        PROVE  Maps'
    BY <1>1, <1>4, MapsKept DEF Draw, control
  <1>5. ASSUME NEW t \in Terms, AltFn(t)
        PROVE  Maps'
    BY <1>1, <1>5, MapsKept DEF AltFn
  <1>6. ASSUME UNCHANGED vars
        PROVE  Maps'
    <2>1. UNCHANGED <<process, paging, current_terminal, echo>> /\ terminals' = terminals
      BY <1>6 DEF vars, control
    <2>2. QED
      BY <1>1, <2>1, MapsKept
  <1>7. Maps'
    <2>1. CASE \E c \in Outputs \cup {"clear"} : putc(c)
      BY <1>1, <2>1, MapsPutc
    <2>2. CASE PutcEnd \/ vidmap
      BY <1>1, <2>2, MapsPutcEnd, MapsVidmap
    <2>3. CASE execute \/ HaltChild \/ HaltRoot
      BY <1>1, <2>3, MapsExecute, MapsHaltChild, MapsHaltRoot
    <2>4. CASE \E t \in Terms : PitStay(t) \/ PitSwitch(t) \/ PitShell(t)
      BY <1>1, <2>4, MapsPitStay, MapsPitSwitch, MapsPitShell
    <2>5. QED
      BY <1>3, <1>4, <1>5, <1>6, <2>1, <2>2, <2>3, <2>4 DEF Next
  <1>8. QED
    BY <1>1, <1>7 DEF MapInv

LEMMA MapsInit == Init => MapInv
  <1> SUFFICES ASSUME Init PROVE MapInv
    OBVIOUS
  <1>1. /\ TypeInv
        /\ terminals[0].top = 0 /\ terminals[0].status = 1
        /\ \A t \in Terms : t # 0 => terminals[t].status = 0
        /\ current_terminal = 0 /\ terminal_to_switch_to = None
    BY InitInv, Indices DEF Init
  <1>2. Sched
    BY <1>1, Indices DEF Sched, Started, Terms
  <1>3. /\ RunTerm = 0 /\ running_pid = 0 /\ echo = NoEcho
        /\ \A p \in Pids : video[p] = VIDEO /\ user[p] = None
    BY Indices DEF Init, RunTerm
  <1>4. Maps
    BY <1>1, <1>3, Indices DEF Maps, Place, TypeInv, TypeOK, Started, Live
  <1>5. QED
    BY <1>1, <1>2, <1>4 DEF MapInv

(* For any number of terminals and processes: as long as none of the six   *)
(* awkward situations comes about, VIDEO and the address vidmap returned   *)
(* always lead the running program to the screen if its terminal is on     *)
(* display and to its terminal's buffer if not, whatever was executed,     *)
(* halted, shown, echoed and scheduled before.                             *)
THEOREM AlwaysMapped ==
  ASSUME Env = {}
  PROVE  Spec => []Mapped
  <1>1. MapInv /\ [Next]_vars => MapInv'
    BY MapsStep
  <1>2. MapInv => Mapped
    BY NoEchoInProgram DEF MapInv, Maps, Mapped
  <1>3. QED
    BY MapsInit, <1>1, <1>2, PTL DEF Spec

-----------------------------------------------------------------------------
(***************************************************************************)
(* The screen, the buffers, the remapping and the copying implement one    *)
(* screen and one cursor per terminal, for any number of terminals and     *)
(* processes and any size of screen, without the awkward situations.       *)
(***************************************************************************)

(***************************************************************************)
(* The inductive invariant.  Beside MapInv: the VGA shows the cursor where *)
(* the driver believes it to be, every cursor that was saved is on the     *)
(* screen, and an echo that interrupted a program has the screen mapped.   *)
(***************************************************************************)
RefInv ==
    /\ MapInv
    /\ vga = screen
    /\ \A t \in Terms : terminals[t].pos \in OnScreen
    /\ echo # NoEcho => video[running_pid] = VIDEO

-----------------------------------------------------------------------------
(* Cells and positions *)

(* The cell of column x in row y, and the row of a cell. *)
LEMMA Grid ==
  ASSUME NEW w \in Nat \ {0}, NEW h \in Nat \ {0}, NEW x \in 0 .. w - 1, NEW y \in 0 .. h - 1
  PROVE  /\ w * y + x \in 0 .. h * w - 1
         /\ (w * y + x) \div w = y
         /\ y < h - 1 => (y + 1) * w \in 0 .. h * w - 1
         /\ (y + 1) * w = w * y + w
         /\ h * w \in Nat /\ w * y \in Nat
  <1>1. w * y \in Nat /\ h * w \in Nat /\ (y + 1) * w \in Nat
    OBVIOUS
  <1>2. (y + 1) * w = w * y + w
    OBVIOUS
  <1>3. ASSUME NEW a \in Nat, NEW b \in Nat, a <= b
        PROVE  a * w <= b * w
    BY <1>3
  <1>4. (y + 1) * w <= h * w
    BY <1>3
  <1>5. y < h - 1 => (y + 2) * w <= h * w
    BY <1>3
  <1>6. (y + 2) * w = (y + 1) * w + w
    OBVIOUS
  <1>7. w * y + x \in 0 .. h * w - 1
    BY <1>1, <1>2, <1>4
  <1>8. y < h - 1 => (y + 1) * w \in 0 .. h * w - 1
    BY <1>1, <1>5, <1>6
  <1>9. (w * y + x) \div w = y
    OBVIOUS
  <1>10. QED
    BY <1>1, <1>2, <1>7, <1>8, <1>9

(* The end of the screen: the row below the last one is outside. *)
LEMMA LastRow ==
  ASSUME NEW pos \in OnScreen
  PROVE  /\ pos.x \in 0 .. NUM_COLS - 1 /\ pos.y \in 0 .. NUM_ROWS - 1
         /\ At(pos) \in Cells /\ At(pos) \div NUM_COLS = pos.y
         /\ At(pos) = NUM_COLS * pos.y + pos.x /\ NUM_COLS * pos.y \in Nat
         /\ (pos.y + 1) * NUM_COLS = NUM_COLS * pos.y + NUM_COLS
         /\ (pos.y + 1) * NUM_COLS \in Cells <=> pos.y < NUM_ROWS - 1
         /\ NUM_COLS \in Nat \ {0} /\ NUM_ROWS \in Nat \ {0}
  <1>1. /\ pos.x \in 0 .. NUM_COLS - 1 /\ pos.y \in 0 .. NUM_ROWS - 1
        /\ NUM_COLS \in Nat \ {0} /\ NUM_ROWS \in Nat \ {0}
    BY SizeAssumption DEF OnScreen
  <1>2. PICK x \in 0 .. NUM_COLS - 1, y \in 0 .. NUM_ROWS - 1 : x = pos.x /\ y = pos.y
    BY <1>1
  <1>3. /\ NUM_COLS * y + x \in 0 .. NUM_ROWS * NUM_COLS - 1
        /\ (NUM_COLS * y + x) \div NUM_COLS = y
        /\ y < NUM_ROWS - 1 => (y + 1) * NUM_COLS \in 0 .. NUM_ROWS * NUM_COLS - 1
        /\ (y + 1) * NUM_COLS = NUM_COLS * y + NUM_COLS
        /\ NUM_ROWS * NUM_COLS \in Nat /\ NUM_COLS * y \in Nat
    BY <1>1, Grid
  <1>4. y = NUM_ROWS - 1 => (y + 1) * NUM_COLS = NUM_ROWS * NUM_COLS
    BY <1>1
  <1>5. (y + 1) * NUM_COLS \in Cells <=> y < NUM_ROWS - 1
    BY <1>1, <1>3, <1>4 DEF Cells
  <1>6. QED
    BY <1>1, <1>2, <1>3, <1>5 DEF At, Cells

-----------------------------------------------------------------------------
(* Output on one page *)

LEMMA CellIs == Separate!Cell = Cells
  BY DEF Separate!Cell, Cells

(* The output r on page pg of memory m stores the page p and moves the     *)
(* cursor to n, or scrolls when n is behind the last row.                  *)
Goes(m, pg, r, p, n) ==
    /\ r.mem = [m EXCEPT ![pg] = IF n \in Cells THEN p ELSE Separate!Scroll(p)]
    /\ r.pos \in OnScreen
    /\ At(r.pos) = IF n \in Cells THEN n ELSE n - NUM_COLS

LEMMA ScrollIs ==
  ASSUME NEW m \in [Pages -> Contents], NEW pg \in Pages
  PROVE  scroll_up(m, pg) = [m EXCEPT ![pg] = Separate!Scroll(m[pg])]
  BY CellIs DEF scroll_up, Separate!Scroll

LEMMA NewlineGoes ==
  ASSUME NEW m \in [Pages -> Contents], NEW pg \in Pages, NEW pos \in OnScreen
  PROVE  Goes(m, pg, Newline(m, pos, pg), m[pg], (At(pos) \div NUM_COLS + 1) * NUM_COLS)
  <1>1. PICK y \in 0 .. NUM_ROWS - 1 : y = pos.y
    BY LastRow
  <1>2. PICK n \in Int : /\ n = (At(pos) \div NUM_COLS + 1) * NUM_COLS
                         /\ n = NUM_COLS * y + NUM_COLS
                         /\ n \in Cells <=> y < NUM_ROWS - 1
    <2>1. (At(pos) \div NUM_COLS + 1) * NUM_COLS = NUM_COLS * y + NUM_COLS
      BY <1>1, LastRow
    <2>2. NUM_COLS * y + NUM_COLS \in Int
      BY <1>1, LastRow
    <2>3. NUM_COLS * y + NUM_COLS \in Cells <=> y < NUM_ROWS - 1
      BY <1>1, LastRow
    <2>4. QED
      BY <2>1, <2>2, <2>3
  <1>3. NUM_COLS \in Nat \ {0} /\ NUM_ROWS \in Nat \ {0} /\ NUM_COLS * y \in Nat
    BY <1>1, LastRow
  <1>4. m = [m EXCEPT ![pg] = m[pg]]
    OBVIOUS
  <1>5. CASE y < NUM_ROWS - 1
    <2>1. Newline(m, pos, pg) = [mem |-> m, pos |-> [x |-> 0, y |-> y + 1]]
      BY <1>1, <1>5 DEF Newline
    <2>2. [x |-> 0, y |-> y + 1] \in OnScreen
      BY <1>3, <1>5 DEF OnScreen
    <2>3. NUM_COLS * (y + 1) + 0 = n
      BY <1>2, <1>3
    <2>4. QED
      BY <1>2, <1>4, <1>5, <2>1, <2>2, <2>3 DEF Goes, At
  <1>6. CASE ~(y < NUM_ROWS - 1)
    <2>1. Newline(m, pos, pg) = [mem |-> scroll_up(m, pg), pos |-> [x |-> 0, y |-> y]]
      BY <1>1, <1>6 DEF Newline
    <2>2. [x |-> 0, y |-> y] \in OnScreen
      BY <1>3 DEF OnScreen
    <2>3. NUM_COLS * y + 0 = n - NUM_COLS
      BY <1>2, <1>3
    <2>4. QED
      BY <1>2, <1>6, <2>1, <2>2, <2>3, ScrollIs DEF Goes, At
  <1>7. QED
    BY <1>5, <1>6

(* A number below the divisor is its own remainder. *)
LEMMA Small ==
  ASSUME NEW n \in Nat \ {0}, NEW a \in 0 .. n - 1
  PROVE  a % n = a /\ a \div n = 0
  OBVIOUS

(* An unsigned number wraps below zero. *)
LEMMA BelowZero ==
  ASSUME NEW n \in Nat \ {0}
  PROVE  (-1) % n = n - 1
  OBVIOUS

LEMMA WordLarger == U16 \in Nat \ {0} /\ NUM_COLS \in 1 .. U16 - 1
  <1>1. U16 \in Nat \ {0}
    BY SMT DEF U16
  <1>2. QED
    BY <1>1, SizeAssumption, SMT

LEMMA CharGoes ==
  ASSUME NEW m \in [Pages -> Contents], NEW pg \in Pages, NEW pos \in OnScreen, NEW c \in Chars
  PROVE  Goes(m, pg, PutChar(m, pos, pg, pg, c), [m[pg] EXCEPT ![At(pos)] = c], At(pos) + 1)
  <1> DEFINE put == Store(m, pg, pos, c)
             p   == [m[pg] EXCEPT ![At(pos)] = c]
  <1>1. PICK x \in 0 .. NUM_COLS - 1, y \in 0 .. NUM_ROWS - 1, n \in Int :
          /\ x = pos.x /\ y = pos.y /\ n = At(pos) + 1 /\ n = NUM_COLS * y + x + 1
          /\ NUM_COLS * y \in Nat
    <2>1. PICK x \in 0 .. NUM_COLS - 1, y \in 0 .. NUM_ROWS - 1 : x = pos.x /\ y = pos.y
      BY LastRow
    <2>2. At(pos) = NUM_COLS * y + x /\ NUM_COLS * y \in Nat
      BY <2>1, LastRow
    <2>3. At(pos) + 1 \in Int /\ At(pos) + 1 = NUM_COLS * y + x + 1
      BY <2>2
    <2>4. QED
      BY <2>1, <2>2, <2>3
  <1>2. put = [m EXCEPT ![pg] = p] /\ put \in [Pages -> Contents] /\ put[pg] = p
    <2>1. At(pos) \in Cells
      BY LastRow
    <2>2. put = [m EXCEPT ![pg] = p]
      BY <2>1 DEF Store
    <2>3. put \in [Pages -> Contents]
      BY StoreType
    <2>4. QED
      BY <2>2, <2>3
  <1> HIDE DEF put, p
  <1>3. NUM_COLS \in Nat \ {0} /\ NUM_ROWS \in Nat \ {0} /\ U16 \in Nat \ {0} /\ NUM_COLS < U16
    BY WordLarger, LastRow
  <1>4. (pos.x + 1) % U16 = x + 1
    <2>1. x + 1 \in 0 .. U16 - 1
      BY <1>3
    <2>2. QED
      BY <1>1, <1>3, <2>1, Small
  <1>5. CASE x + 1 < NUM_COLS
    <2>1. PutChar(m, pos, pg, pg, c) = [mem |-> put, pos |-> [x |-> x + 1, y |-> y]]
      BY <1>1, <1>4, <1>5 DEF PutChar, put
    <2>2. [x |-> x + 1, y |-> y] \in OnScreen
      BY <1>3, <1>5 DEF OnScreen
    <2>3. At([x |-> x + 1, y |-> y]) = n
      BY <1>1 DEF At
    <2>4. n \in Cells
      BY <2>2, <2>3, LastRow
    <2>5. QED
      BY <1>1, <1>2, <2>1, <2>2, <2>3, <2>4 DEF Goes, p
  <1>6. CASE ~(x + 1 < NUM_COLS)
    <2>1. x + 1 = NUM_COLS
      BY <1>3, <1>6
    <2>2. n = NUM_COLS * y + NUM_COLS /\ (n \in Cells <=> y < NUM_ROWS - 1)
      <3>1. n = NUM_COLS * y + NUM_COLS
        BY <1>1, <2>1
      <3>2. (y + 1) * NUM_COLS = NUM_COLS * y + NUM_COLS
            /\ ((y + 1) * NUM_COLS \in Cells <=> y < NUM_ROWS - 1)
        BY <1>1, LastRow
      <3>3. QED
        BY <3>1, <3>2
    <2>3. (x + 1) % NUM_COLS = 0 /\ (x + 1) \div NUM_COLS = 1
      BY <1>3, <2>1, Whole
    <2>4. CASE y = NUM_ROWS - 1
      <3>1. PutChar(m, pos, pg, pg, c) = [mem |-> scroll_up(put, pg), pos |-> [x |-> 0, y |-> y]]
        BY <1>1, <1>4, <1>6, <2>3, <2>4 DEF PutChar, put
      <3>2. [x |-> 0, y |-> y] \in OnScreen
        BY <1>3 DEF OnScreen
      <3>3. At([x |-> 0, y |-> y]) = n - NUM_COLS
        BY <1>1, <1>3, <2>2 DEF At
      <3>4. n \notin Cells
        BY <2>2, <2>4
      <3>5. scroll_up(put, pg) = [m EXCEPT ![pg] = Separate!Scroll(p)]
        BY <1>2, ScrollIs
      <3>6. QED
        BY <1>1, <3>1, <3>2, <3>3, <3>4, <3>5 DEF Goes, p
    <2>5. CASE y # NUM_ROWS - 1
      <3>1. (y + 1) % NUM_ROWS = y + 1
        <4>1. y + 1 \in 0 .. NUM_ROWS - 1
          BY <1>3, <2>5
        <4>2. QED
          BY <1>3, <4>1, Small
      <3>2. PutChar(m, pos, pg, pg, c) = [mem |-> put, pos |-> [x |-> 0, y |-> y + 1]]
        BY <1>1, <1>4, <1>6, <2>3, <2>5, <3>1 DEF PutChar, put
      <3>3. [x |-> 0, y |-> y + 1] \in OnScreen
        BY <1>3, <2>5 DEF OnScreen
      <3>4. NUM_COLS * (y + 1) + 0 = n
        BY <1>1, <1>3, <2>2
      <3>5. n \in Cells
        BY <2>2, <2>5, <1>3
      <3>6. QED
        BY <1>1, <1>2, <3>2, <3>3, <3>4, <3>5 DEF Goes, p, At
    <2>6. QED
      BY <2>4, <2>5
  <1>7. QED
    BY <1>5, <1>6

(* Backspace goes to the cell before, and stays in the first one. *)
LEMMA BackIs ==
  ASSUME NEW pos \in OnScreen
  PROVE  /\ pos = Origin <=> At(pos) = 0
         /\ pos = Origin => Back(pos) = [x |-> U16 - 1, y |-> 0]
         /\ pos # Origin => Back(pos) \in OnScreen /\ At(Back(pos)) = At(pos) - 1
  <1>1. PICK x \in 0 .. NUM_COLS - 1, y \in 0 .. NUM_ROWS - 1 :
          /\ x = pos.x /\ y = pos.y /\ pos = [x |-> x, y |-> y]
          /\ At(pos) = NUM_COLS * y + x /\ NUM_COLS * y \in Nat
    BY LastRow DEF OnScreen
  <1>2. NUM_COLS \in Nat \ {0} /\ NUM_ROWS \in Nat \ {0} /\ U16 \in Nat \ {0} /\ NUM_COLS < U16
    BY WordLarger, LastRow
  <1>3. pos = Origin <=> x = 0 /\ y = 0
    BY <1>1 DEF Origin
  <1>4. NUM_COLS * y = 0 <=> y = 0
    BY <1>2
  <1>5. pos = Origin <=> At(pos) = 0
    BY <1>1, <1>3, <1>4
  <1>6. CASE pos = Origin
    <2>1. (x - 1) % U16 = U16 - 1
      <3>1. x - 1 = -1
        BY <1>3, <1>6
      <3>2. QED
        BY <1>2, <3>1, BelowZero
    <2>2. ~(x = 0 /\ y > 0) /\ y = 0
      BY <1>3, <1>6
    <2>3. Back(pos) = [x |-> (x - 1) % U16, y |-> y]
      BY <1>1, <2>2 DEF Back
    <2>4. QED
      BY <1>5, <1>6, <2>1, <2>2, <2>3
  <1>7. CASE pos # Origin /\ x = 0
    <2>1. y > 0 /\ Back(pos) = [x |-> NUM_COLS - 1, y |-> y - 1]
      BY <1>1, <1>3, <1>7 DEF Back
    <2>2. Back(pos) \in OnScreen
      BY <1>2, <2>1 DEF OnScreen
    <2>3. NUM_COLS * (y - 1) = NUM_COLS * y - NUM_COLS
      BY <1>2
    <2>4. At(Back(pos)) = At(pos) - 1
      BY <1>1, <1>2, <1>7, <2>1, <2>3 DEF At
    <2>5. QED
      BY <1>5, <1>7, <2>2, <2>4
  <1>8. CASE pos # Origin /\ x # 0
    <2>1. (x - 1) % U16 = x - 1
      <3>1. x - 1 \in 0 .. U16 - 1
        BY <1>2, <1>8
      <3>2. QED
        BY <1>2, <3>1, Small
    <2>2. Back(pos) = [x |-> x - 1, y |-> y]
      BY <1>1, <1>8, <2>1 DEF Back
    <2>3. Back(pos) \in OnScreen
      BY <1>2, <1>8, <2>2 DEF OnScreen
    <2>4. At(Back(pos)) = At(pos) - 1
      BY <1>1, <1>2, <2>2 DEF At
    <2>5. QED
      BY <1>5, <1>8, <2>3, <2>4
  <1>9. QED
    BY <1>6, <1>7, <1>8

(* The character before the cursor, or under it in the first cell. *)
Before(n) == IF n = 0 THEN 0 ELSE n - 1

LEMMA StoreIs ==
  ASSUME NEW m \in [Pages -> Contents], NEW pg \in Pages, NEW new \in OnScreen, NEW n, n = At(new)
  PROVE  Goes(m, pg, [mem |-> Store(m, pg, new, Blank), pos |-> new],
              [m[pg] EXCEPT ![n] = Blank], n)
  <1>1. n \in Cells
    BY LastRow
  <1>2. Store(m, pg, new, Blank) = [m EXCEPT ![pg] = [m[pg] EXCEPT ![n] = Blank]]
    BY <1>1 DEF Store
  <1>3. QED
    BY <1>1, <1>2 DEF Goes

LEMMA BackGoes ==
  ASSUME NEW m \in [Pages -> Contents], NEW pg \in Pages, NEW pos \in OnScreen
  PROVE  Goes(m, pg, BackOnDisplay(m, pos, pg), [m[pg] EXCEPT ![Before(At(pos))] = Blank],
              Before(At(pos)))
  <1>1. PICK new \in OnScreen : /\ new = set_screen_xy(pos, Back(pos))
                                /\ At(new) = Before(At(pos))
    <2>1. CASE pos = Origin
      <3>1. ~(U16 - 1 < NUM_COLS)
        BY WordLarger
      <3>2. set_screen_xy(pos, Back(pos)) = pos
        BY <2>1, <3>1, BackIs DEF set_screen_xy
      <3>3. QED
        BY <2>1, <3>2, BackIs DEF Before
    <2>2. CASE pos # Origin
      <3>1. Back(pos) \in OnScreen /\ At(Back(pos)) = At(pos) - 1 /\ At(pos) # 0
        BY <2>2, BackIs
      <3>2. Back(pos).x < NUM_COLS /\ Back(pos).y < NUM_ROWS
        BY <3>1, SizeAssumption DEF OnScreen
      <3>3. set_screen_xy(pos, Back(pos)) = Back(pos)
        BY <3>2 DEF set_screen_xy
      <3>4. QED
        BY <3>1, <3>3 DEF Before
    <2>3. QED
      BY <2>1, <2>2
  <1>2. BackOnDisplay(m, pos, pg) = [mem |-> Store(m, pg, new, Blank), pos |-> new]
    BY <1>1 DEF BackOnDisplay
  <1>3. QED
    BY <1>1, <1>2, StoreIs

LEMMA BackgroundGoes ==
  ASSUME NEW m \in [Pages -> Contents], NEW pg \in Pages, NEW pos \in OnScreen, pos # Origin
  PROVE  Goes(m, pg, BackInBackground(m, pos, pg), [m[pg] EXCEPT ![Before(At(pos))] = Blank],
              Before(At(pos)))
  <1>1. Back(pos) \in OnScreen /\ At(Back(pos)) = At(pos) - 1 /\ At(pos) # 0
    BY BackIs
  <1>2. ~(Back(pos).x >= NUM_COLS)
    BY <1>1, SizeAssumption DEF OnScreen
  <1>3. set_terminal_screen_xy(pos, Back(pos)) = Back(pos)
    BY <1>2 DEF set_terminal_screen_xy
  <1>4. PICK new \in OnScreen : new = Back(pos) /\ At(new) = Before(At(pos))
    BY <1>1 DEF Before
  <1>5. BackInBackground(m, pos, pg) = [mem |-> Store(m, pg, new, Blank), pos |-> new]
    BY <1>3, <1>4 DEF BackInBackground
  <1>6. QED
    BY <1>4, <1>5, StoreIs

LEMMA ClearGoes ==
  ASSUME NEW m \in [Pages -> Contents], NEW pg \in Pages
  PROVE  Goes(m, pg, Cleared(m, pg), [n \in Cells |-> Blank], 0)
  <1>1. Origin \in OnScreen /\ At(Origin) = 0
    BY SizeAssumption DEF Origin, OnScreen, At
  <1>2. 0 \in Cells
    BY <1>1, LastRow
  <1>3. QED
    BY <1>1, <1>2 DEF Goes, Cleared

-----------------------------------------------------------------------------
(* Output as a step of Screens *)

(* Each terminal has a page of its own. *)
LEMMA PlacesDiffer ==
  ASSUME NEW t \in Terms, NEW u \in Terms, NEW c \in Terms, t # u
  PROVE  Place(t, c) # Place(u, c)
  BY Indices, BufInjective DEF Place

LEMMA RefFacts ==
  ASSUME RefInv
  PROVE  /\ TypeOK /\ Chain /\ mem \in [Pages -> Contents] /\ screen \in OnScreen
         /\ terminals \in [Terms -> Terminal] /\ current_terminal \in Terms
         /\ RunTerm \in Terms /\ running_pid \in Pids /\ vga = screen
         /\ \A t \in Terms : /\ terminals[t].pos \in OnScreen
                             /\ Place(t, current_terminal) \in Pages
  BY PlaceType DEF RefInv, MapInv, TypeInv, TypeOK, Chain, Contents, OnScreen, Terminal

LEMMA MoveIs ==
  ASSUME RefInv, NEW t \in Terms, NEW r, NEW p, NEW n,
         Goes(mem, Place(t, current_terminal), r, p, n), mem' = r.mem,
         current_terminal' = current_terminal, RunTerm' = RunTerm,
         \A u \in Terms : CursorOf(u)' = IF u = t THEN At(r.pos) ELSE CursorOf(u)
  PROVE  Separate!Move(t, p, n)
  <1> DEFINE q == IF n \in Cells THEN p ELSE Separate!Scroll(p)
             k == IF n \in Cells THEN n ELSE n - NUM_COLS
  <1>1. mem' = [mem EXCEPT ![Place(t, current_terminal)] = q] /\ At(r.pos) = k
    BY DEF Goes
  <1> HIDE DEF q, k
  <1>2. ASSUME NEW u \in Terms
        PROVE  PageOf(u)' = IF u = t THEN q ELSE PageOf(u)
    <2>1. /\ Place(u, current_terminal) \in Pages /\ mem \in [Pages -> Contents]
          /\ current_terminal \in Terms
      BY RefFacts
    <2>2. u # t => Place(u, current_terminal) # Place(t, current_terminal)
      BY <2>1, PlacesDiffer
    <2>3. QED
      BY <1>1, <2>1, <2>2 DEF PageOf, Place
  <1>3. [u \in Terms |-> PageOf(u)]' = [[u \in Terms |-> PageOf(u)] EXCEPT ![t] = q]
    BY <1>2
  <1>4. [u \in Terms |-> CursorOf(u)]' = [[u \in Terms |-> CursorOf(u)] EXCEPT ![t] = k]
    BY <1>1
  <1>5. QED
    BY <1>3, <1>4, CellIs DEF Separate!Move, q, k

(* The cursor and the page of a terminal, as Screens sees them. *)
LEMMA SeenAs ==
  ASSUME NEW t \in Terms
  PROVE  /\ [u \in Terms |-> PageOf(u)][t] = PageOf(t)
         /\ [u \in Terms |-> CursorOf(u)][t] = CursorOf(t)
  OBVIOUS

LEMMA NewlineStep ==
  ASSUME NEW t \in {current_terminal, RunTerm}, t \in Terms,
         Separate!Move(t, PageOf(t), (CursorOf(t) \div NUM_COLS + 1) * NUM_COLS)
  PROVE  Separate!Next
  <1>1. Separate!Newline(t)
    BY SeenAs DEF Separate!Newline
  <1>2. QED
    BY <1>1 DEF Separate!Next

LEMMA CharStep ==
  ASSUME NEW t \in {current_terminal, RunTerm}, t \in Terms, NEW c \in Chars,
         Separate!Move(t, [PageOf(t) EXCEPT ![CursorOf(t)] = c], CursorOf(t) + 1)
  PROVE  Separate!Next
  <1>1. Separate!Write(t, c)
    BY SeenAs DEF Separate!Write
  <1>2. QED
    BY <1>1 DEF Separate!Next

LEMMA BackStep ==
  ASSUME NEW t \in {current_terminal, RunTerm}, t \in Terms,
         Separate!Move(t, [PageOf(t) EXCEPT ![Before(CursorOf(t))] = Blank], Before(CursorOf(t)))
  PROVE  Separate!Next
  <1>1. Separate!Backspace(t)
    BY SeenAs DEF Separate!Backspace, Before
  <1>2. QED
    BY <1>1 DEF Separate!Next

LEMMA ClearStep ==
  ASSUME Separate!Move(current_terminal, [n \in Cells |-> Blank], 0)
  PROVE  Separate!Next
  <1>1. Separate!Clear(current_terminal)
    BY CellIs DEF Separate!Clear
  <1>2. QED
    BY <1>1 DEF Separate!Next

(* putc and clear on display, or once they have the screen behind VIDEO. *)
LEMMA DisplayStep ==
  ASSUME RefInv, NEW c \in Outputs \cup {"clear"}, PutOnDisplay(c, VIDEO),
         current_terminal' = current_terminal, RunTerm' = RunTerm,
         \A u \in Terms \ {current_terminal} : terminals'[u].pos = terminals[u].pos
  PROVE  Separate!Next /\ vga' = screen' /\ screen' \in OnScreen
  <1> DEFINE t == current_terminal
             r == OnDisplay(c, VIDEO)
  <1>1. /\ t \in Terms /\ mem \in [Pages -> Contents] /\ screen \in OnScreen /\ vga = screen
        /\ VIDEO \in Pages /\ Place(t, t) = VIDEO /\ PageOf(t) = mem[VIDEO]
        /\ CursorOf(t) = At(screen)
    BY RefFacts, Indices DEF Place, PageOf, CursorOf
  <1>2. mem' = r.mem /\ screen' = r.pos /\ vga' = r.pos
    BY DEF PutOnDisplay
  <1>3. \A u \in Terms : CursorOf(u)' = IF u = t THEN At(r.pos) ELSE CursorOf(u)
    BY <1>2 DEF CursorOf
  <1> HIDE DEF r
  <1>4. ASSUME NEW p, NEW n, Goes(mem, VIDEO, r, p, n)
        PROVE  Separate!Move(t, p, n) /\ screen' \in OnScreen
    <2>1. Goes(mem, Place(t, t), r, p, n) /\ screen' \in OnScreen
      BY <1>1, <1>2, <1>4 DEF Goes
    <2>2. QED
      BY <1>1, <1>2, <1>3, <2>1, MoveIs
  <1>5. CASE c = "newline"
    <2>1. r = Newline(mem, screen, VIDEO)
      BY <1>5 DEF OnDisplay, r
    <2>2. Goes(mem, VIDEO, r, mem[VIDEO], (At(screen) \div NUM_COLS + 1) * NUM_COLS)
      BY <1>1, <2>1, NewlineGoes
    <2>3. QED
      BY <1>1, <1>2, <1>4, <2>2, NewlineStep
  <1>6. CASE c = "backspace"
    <2>1. r = BackOnDisplay(mem, screen, VIDEO)
      BY <1>6 DEF OnDisplay, r
    <2>2. Goes(mem, VIDEO, r, [mem[VIDEO] EXCEPT ![Before(At(screen))] = Blank],
               Before(At(screen)))
      BY <1>1, <2>1, BackGoes
    <2>3. QED
      BY <1>1, <1>2, <1>4, <2>2, BackStep
  <1>7. CASE c = "clear"
    <2>1. r = Cleared(mem, VIDEO)
      BY <1>7 DEF OnDisplay, r
    <2>2. Goes(mem, VIDEO, r, [n \in Cells |-> Blank], 0)
      BY <1>1, <2>1, ClearGoes
    <2>3. QED
      BY <1>1, <1>2, <1>4, <2>2, ClearStep
  <1>8. CASE c \notin {"newline", "backspace", "clear"}
    <2>1. r = PutChar(mem, screen, VIDEO, VIDEO, c) /\ c \in Chars
      BY <1>8 DEF OnDisplay, r, Outputs
    <2>2. Goes(mem, VIDEO, r, [mem[VIDEO] EXCEPT ![At(screen)] = c], At(screen) + 1)
      BY <1>1, <2>1, CharGoes
    <2>3. QED
      BY <1>1, <1>2, <1>4, <2>1, <2>2, CharStep
  <1>9. QED
    BY <1>5, <1>6, <1>7, <1>8

(* terminal_write in the background: through VIDEO and the buffer, which   *)
(* are the same page then.                                                 *)
LEMMA BackgroundStep ==
  ASSUME Env = {}, RefInv, NEW c \in Outputs, terminal_putc(c), RunTerm # current_terminal
  PROVE  Separate!Next /\ \A t \in Terms : terminals'[t].pos \in OnScreen
  <1> DEFINE t   == RunTerm
             pos == terminals[t].pos
             r   == InBackground(c)
             pg  == Buf(t)
  <1>1. /\ t \in Terms /\ mem \in [Pages -> Contents] /\ pos \in OnScreen
        /\ pg \in Pages /\ Place(t, current_terminal) = pg /\ PageOf(t) = mem[pg]
        /\ CursorOf(t) = At(pos) /\ terminals \in [Terms -> Terminal]
    BY RefFacts, Indices DEF Place, PageOf, CursorOf
  <1>2. video[running_pid] = pg
    <2>1. InProgram /\ Maps
      BY DEF terminal_putc, RefInv, MapInv
    <2>2. QED
      BY <1>1, <2>1, NoEchoInProgram DEF Maps
  <1>3. /\ mem' = r.mem /\ UNCHANGED <<screen, vga, current_terminal>> /\ RunTerm' = t
        /\ terminals' = [terminals EXCEPT ![t].pos = set_terminal_screen_xy(@, r.pos)]
        /\ ~(c = "backspace" /\ pos = Origin)
    BY DEF terminal_putc, process, control, RunTerm
  <1> HIDE DEF r, pos, pg, t
  <1>4. ASSUME NEW p, NEW n, Goes(mem, pg, r, p, n)
        PROVE  Separate!Move(t, p, n) /\ \A u \in Terms : terminals'[u].pos \in OnScreen
    <2>1. r.pos \in OnScreen
      BY <1>4 DEF Goes
    <2>2. ~(r.pos.x >= NUM_COLS)
      BY <2>1, SizeAssumption DEF OnScreen
    <2>3. set_terminal_screen_xy(pos, r.pos) = r.pos
      BY <2>2 DEF set_terminal_screen_xy
    <2>4. \A u \in Terms : terminals'[u].pos = IF u = t THEN r.pos ELSE terminals[u].pos
      BY <1>1, <1>3, <2>3 DEF Terminal, pos
    <2>5. \A u \in Terms : CursorOf(u)' = IF u = t THEN At(r.pos) ELSE CursorOf(u)
      BY <1>3, <2>4 DEF CursorOf, t
    <2>6. Separate!Move(t, p, n)
      BY <1>1, <1>3, <1>4, <2>5, MoveIs DEF t
    <2>7. QED
      BY <2>1, <2>4, <2>6, RefFacts
  <1>5. CASE c = "newline"
    <2>1. r = Newline(mem, pos, pg)
      BY <1>2, <1>5 DEF InBackground, r, pos, t
    <2>2. Goes(mem, pg, r, mem[pg], (At(pos) \div NUM_COLS + 1) * NUM_COLS)
      BY <1>1, <2>1, NewlineGoes
    <2>3. QED
      BY <1>1, <1>4, <2>2, NewlineStep DEF t
  <1>6. CASE c = "backspace"
    <2>1. r = BackInBackground(mem, pos, pg)
      BY <1>2, <1>6 DEF InBackground, r, pos, t
    <2>2. Goes(mem, pg, r, [mem[pg] EXCEPT ![Before(At(pos))] = Blank], Before(At(pos)))
      BY <1>1, <1>3, <1>6, <2>1, BackgroundGoes
    <2>3. QED
      BY <1>1, <1>4, <2>2, BackStep DEF t
  <1>7. CASE c \notin {"newline", "backspace"}
    <2>1. r = PutChar(mem, pos, pg, pg, c) /\ c \in Chars
      BY <1>2, <1>7 DEF InBackground, r, pos, t, pg, Outputs
    <2>2. Goes(mem, pg, r, [mem[pg] EXCEPT ![At(pos)] = c], At(pos) + 1)
      BY <1>1, <2>1, CharGoes
    <2>3. QED
      BY <1>1, <1>4, <2>1, <2>2, CharStep DEF t
  <1>8. QED
    BY <1>5, <1>6, <1>7

(* A program that draws through the address vidmap returned. *)
LEMMA DrawStep ==
  ASSUME RefInv, NEW n \in Cells, NEW c \in Chars, Draw(n, c)
  PROVE  Separate!Next
  <1> DEFINE t  == RunTerm
             pg == Place(t, current_terminal)
             p  == [PageOf(t) EXCEPT ![n] = c]
             pos == IF t = current_terminal THEN screen ELSE terminals[t].pos
             r  == [mem |-> mem', pos |-> pos]
  <1>1. /\ t \in Terms /\ mem \in [Pages -> Contents] /\ pg \in Pages /\ PageOf(t) = mem[pg]
        /\ pos \in OnScreen /\ CursorOf(t) = At(pos)
    BY RefFacts DEF PageOf, CursorOf
  <1>2. user[running_pid] = pg
    BY DEF Draw, RefInv, MapInv, Maps
  <1>3. /\ mem' = [mem EXCEPT ![pg] = p]
        /\ UNCHANGED <<vga, current_terminal, terminals>> /\ RunTerm' = t
    BY <1>1, <1>2 DEF Draw, process, control, RunTerm
  <1>4. CursorOf(t) \in Cells
    BY <1>1, LastRow
  <1>5. Goes(mem, pg, r, p, CursorOf(t))
    BY <1>1, <1>3, <1>4 DEF Goes
  <1>6. \A u \in Terms : CursorOf(u)' = IF u = t THEN At(r.pos) ELSE CursorOf(u)
    BY <1>1, <1>3 DEF CursorOf
  <1>7. Separate!Move(t, p, CursorOf(t))
    <2> HIDE DEF p, pos
    <2>1. mem' = r.mem
      OBVIOUS
    <2> HIDE DEF r
    <2>2. QED
      BY <1>1, <1>3, <1>5, <1>6, <2>1, MoveIs
  <1>8. Separate!Draw(t, n, c)
    BY <1>1, <1>7, SeenAs DEF Separate!Draw
  <1>9. n \in Separate!Cell
    BY CellIs
  <1>10. QED
    BY <1>8, <1>9 DEF Separate!Next

(* What leaves the pages, the cursors and the terminals in turn alone. *)
LEMMA StillStep ==
  ASSUME UNCHANGED <<mem, vga, current_terminal>>, RunTerm' = RunTerm,
         \A t \in Terms : terminals'[t].pos = terminals[t].pos
  PROVE  UNCHANGED Separate!vars
  <1>1. \A t \in Terms : PageOf(t)' = PageOf(t) /\ CursorOf(t)' = CursorOf(t)
    BY DEF PageOf, CursorOf, Place
  <1>2. QED
    BY <1>1 DEF Separate!vars

-----------------------------------------------------------------------------
(* Switching the display *)

(* The timer interrupt: the page and the cursor of the old terminal are    *)
(* saved and those of the new one fetched, so that every terminal still    *)
(* has its own, and some terminal's program continues.                     *)
LEMMA TickStep ==
  ASSUME RefInv, NEW s \in Terms, Tick(s), RunTerm' \in Terms,
         \A u \in Terms : terminals'[u].pos = Shown[u].pos
  PROVE  /\ Separate!Next /\ vga' = screen'
         /\ \A u \in Terms : terminals'[u].pos \in OnScreen
  <1> DEFINE old == current_terminal
             new == Displayed
  <1>1. /\ old \in Terms /\ new \in Terms /\ mem \in [Pages -> Contents]
        /\ screen \in OnScreen /\ vga = screen /\ terminals \in [Terms -> Terminal]
        /\ \A u \in Terms : terminals[u].pos \in OnScreen
        /\ current_terminal' = new
    BY RefFacts, ShownType DEF Tick
  <1>2. \A u \in Terms : Buf(u) \in Pages /\ Buf(u) # VIDEO /\ VIDEO \in Pages
    BY Indices
  <1>3. CASE ~Switching
    <2>1. new = old /\ UNCHANGED <<mem, screen, vga>>
          /\ \A u \in Terms : terminals'[u].pos = terminals[u].pos
      BY <1>3 DEF Switching, Tick, SwitchDisplay, Shown, display
    <2>2. \A u \in Terms : PageOf(u)' = PageOf(u) /\ CursorOf(u)' = CursorOf(u)
      BY <1>1, <2>1 DEF PageOf, CursorOf, Place
    <2>3. Separate!Switch(new, RunTerm')
      BY <1>1, <2>2 DEF Separate!Switch
    <2>4. QED
      BY <1>1, <2>1, <2>3 DEF Separate!Next
  <1>4. CASE Switching
    <2>1. new # old
      BY <1>4 DEF Switching
    <2>2. set_screen_xy(screen, terminals[new].pos) = terminals[new].pos
      <3>1. terminals[new].pos \in OnScreen
        BY <1>1
      <3>2. terminals[new].pos.x < NUM_COLS /\ terminals[new].pos.y < NUM_ROWS
        BY <3>1, SizeAssumption DEF OnScreen
      <3>3. QED
        BY <3>2 DEF set_screen_xy
    <2>3. screen' = terminals[new].pos /\ vga' = terminals[new].pos
      BY <1>1, <1>4, <2>2 DEF Tick, SwitchDisplay
    <2>4. \A u \in Terms : terminals'[u].pos = IF u = old THEN screen ELSE terminals[u].pos
      BY <1>1, <1>4 DEF Shown, Terminal
    <2>5. ASSUME NEW u \in Terms
          PROVE  PageOf(u)' = PageOf(u)
      <3>1. mem' = [mem EXCEPT ![Buf(old)] = mem[VIDEO], ![VIDEO] = mem[Buf(new)]]
        BY <1>4 DEF Tick, SwitchDisplay, Copied
      <3>2. mem'[VIDEO] = mem[Buf(new)] /\ mem'[Buf(old)] = mem[VIDEO]
        BY <1>1, <1>2, <3>1
      <3>3. u # old => Buf(u) # Buf(old)
        BY <1>1, BufInjective
      <3>4. u # old => mem'[Buf(u)] = mem[Buf(u)]
        BY <1>1, <1>2, <3>1, <3>3
      <3>5. PageOf(u) = mem[IF u = old THEN VIDEO ELSE Buf(u)]
            /\ PageOf(u)' = mem'[IF u = new THEN VIDEO ELSE Buf(u)]
        BY <1>1 DEF PageOf, Place
      <3>6. QED
        BY <2>1, <3>2, <3>4, <3>5
    <2>6. ASSUME NEW u \in Terms
          PROVE  CursorOf(u)' = CursorOf(u)
      BY <1>1, <2>1, <2>3, <2>4 DEF CursorOf
    <2>7. Separate!Switch(new, RunTerm')
      BY <1>1, <2>5, <2>6 DEF Separate!Switch
    <2>8. QED
      BY <1>1, <2>3, <2>4, <2>7 DEF Separate!Next
  <1>5. QED
    BY <1>3, <1>4

(* No step but an echo's leaves an echo behind. *)
LEMMA TickNoEcho ==
  ASSUME Env = {}, NEW s \in Terms, Tick(s)
  PROVE  echo' = NoEcho
  BY DEF Tick

-----------------------------------------------------------------------------
(* The actions one by one: each is a step of Screens or none, and keeps    *)
(* what RefInv adds to MapInv.                                             *)

Kept == /\ vga' = screen'
        /\ \A t \in Terms : terminals'[t].pos \in OnScreen
        /\ echo' # NoEcho => video'[running_pid'] = VIDEO

Implements == Separate!Next \/ UNCHANGED Separate!vars

LEMMA ProgramWrites ==
  ASSUME Env = {}, RefInv, NEW c \in Outputs, terminal_putc(c)
  PROVE  Implements /\ Kept
  <1>1. /\ UNCHANGED <<process, paging, control, echo>> /\ RunTerm' = RunTerm
        /\ current_terminal' = current_terminal /\ running_pid' = running_pid
        /\ echo = NoEcho /\ echo' = NoEcho
    BY NoEchoInProgram DEF terminal_putc, process, paging, control, RunTerm, RefInv, MapInv
  <1>2. CASE RunTerm = current_terminal
    <2>1. video[running_pid] = VIDEO
      BY <1>1, <1>2 DEF RefInv, MapInv, Maps, Place
    <2>2. PutOnDisplay(c, VIDEO) /\ terminals' = terminals
      BY <1>2, <2>1 DEF terminal_putc
    <2>3. Separate!Next /\ vga' = screen'
      BY <1>1, <2>2, DisplayStep
    <2>4. QED
      BY <1>1, <2>2, <2>3, RefFacts DEF Implements, Kept
  <1>3. CASE RunTerm # current_terminal
    <2>1. UNCHANGED <<screen, vga>>
      BY <1>3 DEF terminal_putc
    <2>2. Separate!Next /\ \A t \in Terms : terminals'[t].pos \in OnScreen
      BY <1>3, BackgroundStep
    <2>3. QED
      BY <1>1, <2>1, <2>2, RefFacts DEF Implements, Kept
  <1>4. QED
    BY <1>2, <1>3

LEMMA KeyEchoed ==
  ASSUME RefInv, NEW c \in Outputs \cup {"clear"}, putc(c)
  PROVE  Implements /\ Kept
  <1>1. /\ UNCHANGED <<process, control, terminals>> /\ RunTerm' = RunTerm
        /\ current_terminal' = current_terminal /\ running_pid' = running_pid
        /\ echo = NoEcho /\ terminals' = terminals
    BY DEF putc, process, control, RunTerm
  <1>2. CASE RunTerm = current_terminal
    <2>1. video[running_pid] = VIDEO
      BY <1>1, <1>2 DEF RefInv, MapInv, Maps, Place
    <2>2. PutOnDisplay(c, VIDEO) /\ echo' = NoEcho
      BY <1>1, <1>2, <2>1 DEF putc
    <2>3. Separate!Next /\ vga' = screen'
      BY <1>1, <2>2, DisplayStep
    <2>4. QED
      BY <1>1, <2>2, <2>3, RefFacts DEF Implements, Kept
  <1>3. CASE RunTerm # current_terminal
    <2>1. UNCHANGED <<mem, screen, vga>> /\ video' = map_vid_mem(video, running_pid, VIDEO)
      BY <1>3 DEF putc, display
    <2>2. video'[running_pid] = VIDEO
      <3>1. video \in [Pids -> Pages] /\ running_pid \in Pids
        BY RefFacts DEF TypeOK
      <3>2. QED
        BY <2>1, <3>1 DEF map_vid_mem
    <2>3. UNCHANGED Separate!vars
      BY <1>1, <2>1, StillStep
    <2>4. QED
      BY <1>1, <2>1, <2>2, <2>3, RefFacts DEF Implements, Kept
  <1>4. QED
    BY <1>2, <1>3

LEMMA EchoEnds ==
  ASSUME RefInv, PutcEnd
  PROVE  Implements /\ Kept
  <1>1. /\ UNCHANGED <<process, control>> /\ RunTerm' = RunTerm
        /\ current_terminal' = current_terminal /\ echo' = NoEcho
    BY DEF PutcEnd, process, control, RunTerm
  <1>2. echo # NoEcho /\ echo.c \in Outputs \cup {"clear"}
    <2>1. running_pid \in Pids /\ TypeOK
      BY RefFacts
    <2>2. echo # NoEcho
      BY <2>1, Indices DEF PutcEnd, NoEcho
    <2>3. QED
      BY <2>1, <2>2 DEF TypeOK
  <1>3. PutOnDisplay(echo.c, VIDEO)
    BY <1>2 DEF PutcEnd, RefInv
  <1>4. \A u \in Terms : \/ terminals'[u].pos = terminals[u].pos
                         \/ u = current_terminal /\ terminals'[u].pos = Origin
    BY RefFacts DEF PutcEnd, Terminal
  <1>5. Separate!Next /\ vga' = screen'
    BY <1>1, <1>2, <1>3, <1>4, DisplayStep
  <1>6. Origin \in OnScreen
    BY SizeAssumption DEF Origin, OnScreen
  <1>7. QED
    BY <1>1, <1>4, <1>5, <1>6, RefFacts DEF Implements, Kept

(* Neither vidmap nor the calls that start and end programs on display     *)
(* touch a page or a cursor, and the same terminal stays in turn.          *)
LEMMA CallsStill ==
  ASSUME Env = {}, RefInv, vidmap \/ execute \/ HaltChild \/ HaltRoot \/ \E t \in Terms : AltFn(t)
  PROVE  Implements /\ Kept
  <1>1. /\ UNCHANGED <<mem, screen, vga, current_terminal>>
        /\ \A t \in Terms : terminals'[t].pos = terminals[t].pos
        /\ echo' = echo /\ terminals \in [Terms -> Terminal] /\ pcb \in [Pids -> Pcb]
        /\ running_pid \in Pids
    <2>1. /\ terminals \in [Terms -> Terminal] /\ pcb \in [Pids -> Pcb] /\ running_pid \in Pids
          /\ 0 \in Terms /\ RunTerm \in Terms
      BY RefFacts, Indices DEF TypeOK, Pcb
    <2>2. /\ UNCHANGED <<mem, screen, vga, current_terminal>> /\ echo' = echo
      BY DEF vidmap, execute, HaltChild, HaltRoot, AltFn, display, control
    <2>3. \A t \in Terms : terminals'[t].pos = terminals[t].pos
      <3>1. CASE vidmap
        BY <2>1, <3>1 DEF vidmap, Terminal
      <3>2. CASE execute
        BY <2>1, <3>2 DEF execute, Terminal
      <3>3. CASE HaltChild
        BY <2>1, <3>3 DEF HaltChild, Terminal
      <3>4. CASE HaltRoot
        BY <2>1, <3>4 DEF HaltRoot, Terminal
      <3>5. CASE \E t \in Terms : AltFn(t)
        BY <3>5 DEF AltFn
      <3>6. QED
        BY <3>1, <3>2, <3>3, <3>4, <3>5
    <2>4. QED
      BY <2>1, <2>2, <2>3
  <1>2. RunTerm' = RunTerm
    <2>1. CASE vidmap \/ \E t \in Terms : AltFn(t)
      BY <2>1 DEF vidmap, AltFn, process, RunTerm
    <2>2. CASE execute
      BY <1>1, <2>2 DEF execute, Create, RunTerm, Pcb
    <2>3. CASE HaltChild
      <3>1. /\ pcb[running_pid].parent \in Pids /\ pcb[running_pid].parent # running_pid
            /\ pcb[pcb[running_pid].parent].term = RunTerm
        <4>1. running_pid \in Live /\ pcb[running_pid].parent # None /\ Chain
          BY <1>1, <2>3, RefFacts, Indices DEF HaltChild, Live, RunTerm
        <4>2. QED
          BY <4>1 DEF Chain, Live, RunTerm
      <3>2. QED
        BY <1>1, <2>3, <3>1 DEF HaltChild, RunTerm
    <2>4. CASE HaltRoot
      BY <1>1, <2>4 DEF HaltRoot, Create, RunTerm, Pcb
    <2>5. QED
      BY <2>1, <2>2, <2>3, <2>4
  <1>3. echo = NoEcho
    <2>1. CASE \E t \in Terms : AltFn(t)
      BY <2>1 DEF AltFn
    <2>2. CASE vidmap \/ execute \/ HaltChild \/ HaltRoot
      BY <2>2, NoEchoInProgram DEF vidmap, execute, HaltChild, HaltRoot, RefInv, MapInv
    <2>3. QED
      BY <2>1, <2>2
  <1>4. UNCHANGED Separate!vars
    BY <1>1, <1>2, StillStep
  <1>5. QED
    BY <1>1, <1>3, <1>4, RefFacts DEF Implements, Kept

LEMMA TicksSwitch ==
  ASSUME Env = {}, RefInv, TypeInv', NEW t \in Terms,
         PitStay(t) \/ PitSwitch(t) \/ PitShell(t)
  PROVE  Implements /\ Kept
  <1>1. Tick(t) /\ RunTerm' \in Terms
    BY DEF PitStay, PitSwitch, PitShell, TypeInv, Chain
  <1>2. Shown \in [Terms -> Terminal]
    BY RefFacts, ShownType
  <1>3. \A u \in Terms : terminals'[u].pos = Shown[u].pos
    BY <1>2 DEF PitStay, PitSwitch, PitShell, Terminal
  <1>4. QED
    BY <1>1, <1>3, TickStep, TickNoEcho DEF Implements, Kept

LEMMA RefStep ==
  ASSUME Env = {}, RefInv, [Next]_vars
  PROVE  RefInv' /\ Implements
  <1>1. MapInv'
    BY MapsStep DEF RefInv
  <1>2. TypeInv'
    BY <1>1 DEF MapInv
  <1>3. ASSUME NEW n \in Cells, NEW c \in Chars, Draw(n, c)
        PROVE  Implements /\ Kept
    <2>1. Separate!Next
      BY <1>3, DrawStep
    <2>2. UNCHANGED <<screen, vga, process, paging, terminals, echo>>
      BY <1>3 DEF Draw
    <2>3. QED
      BY <2>1, <2>2, RefFacts DEF Implements, Kept, RefInv, process, paging
  <1>4. CASE UNCHANGED vars
    <2>1. UNCHANGED <<mem, screen, vga, current_terminal, terminals, echo, running_pid, video>>
          /\ RunTerm' = RunTerm
      BY <1>4 DEF vars, display, process, paging, control, RunTerm
    <2>2. UNCHANGED Separate!vars
      BY <2>1, StillStep
    <2>3. QED
      BY <1>1, <2>1, <2>2 DEF Implements, RefInv
  <1>5. CASE Next
    <2>1. Implements /\ Kept
      <3>1. CASE \E c \in Outputs : terminal_putc(c)
        BY <3>1, ProgramWrites
      <3>2. CASE \E c \in Outputs \cup {"clear"} : putc(c)
        BY <3>2, KeyEchoed
      <3>3. CASE PutcEnd
        BY <3>3, EchoEnds
      <3>4. CASE vidmap \/ execute \/ HaltChild \/ HaltRoot \/ \E t \in Terms : AltFn(t)
        BY <3>4, CallsStill
      <3>5. CASE \E t \in Terms : PitStay(t) \/ PitSwitch(t) \/ PitShell(t)
        BY <1>2, <3>5, TicksSwitch
      <3>6. QED
        BY <1>3, <1>5, <3>1, <3>2, <3>3, <3>4, <3>5 DEF Next
    <2>2. QED
      BY <1>1, <2>1 DEF Kept, RefInv
  <1>6. QED
    BY <1>4, <1>5

LEMMA RefInit == Init => RefInv /\ Separate!Init
  <1> SUFFICES ASSUME Init PROVE RefInv /\ Separate!Init
    OBVIOUS
  <1>1. Origin \in OnScreen /\ At(Origin) = 0
    BY SizeAssumption DEF Origin, OnScreen, At
  <1>2. RefInv
    BY <1>1, MapsInit DEF Init, RefInv
  <1>3. RunTerm = 0 /\ current_terminal = 0 /\ 0 \in Terms
    BY Indices DEF Init, RunTerm
  <1>4. \A t \in Terms : PageOf(t) = [n \in Cells |-> Blank] /\ CursorOf(t) = 0
    BY <1>1, <1>2, RefFacts DEF Init, PageOf, CursorOf
  <1>5. QED
    BY <1>2, <1>3, <1>4, CellIs DEF Separate!Init

(* For any number of terminals and processes and any size of screen, as    *)
(* long as none of the awkward situations comes about: putc,               *)
(* terminal_putc, clear, scrolling, drawing through vidmap's address,      *)
(* execute, halt and the switch of the display in irqh_pit implement a     *)
(* screen and a cursor of its own for every terminal.                      *)
THEOREM ScreenImplementsScreens ==
  ASSUME Env = {}
  PROVE  Spec => ImplementsScreens
  <1>1. RefInv /\ [Next]_vars => RefInv' /\ [Separate!Next]_Separate!vars
    BY RefStep DEF Implements
  <1>2. QED
    BY <1>1, RefInit, PTL DEF Spec, ImplementsScreens, Separate!Spec

=============================================================================
