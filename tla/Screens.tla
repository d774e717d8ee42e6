------------------------------ MODULE Screens -------------------------------
(***************************************************************************)
(* What the terminals promise to their users: every terminal has a screen  *)
(* and a cursor of its own.  Output to one terminal never shows on         *)
(* another, whichever is on display, and a terminal that is shown again is *)
(* what its programs made of it meanwhile.                                 *)
(* A position counts the cells from the top left; a screen of Rows rows    *)
(* and Cols columns scrolls when the cursor leaves its last cell.          *)
(***************************************************************************)
EXTENDS Integers

CONSTANTS Term, Rows, Cols, Char, Blank

VARIABLES
    page,    \* for each terminal, the character in each cell
    cursor,  \* for each terminal, the position of the next character
    shown,   \* the terminal on display
    active   \* the terminal whose program runs

vars == <<page, cursor, shown, active>>

Cell == 0 .. Rows * Cols - 1

Scroll(p) == [n \in Cell |-> IF n + Cols \in Cell THEN p[n + Cols] ELSE Blank]

(* The cursor of t moves to position n, which may be one row below the end. *)
Move(t, p, n) ==
    /\ page'   = [page EXCEPT ![t] = IF n \in Cell THEN p ELSE Scroll(p)]
    /\ cursor' = [cursor EXCEPT ![t] = IF n \in Cell THEN n ELSE n - Cols]
    /\ UNCHANGED <<shown, active>>

Init ==
    /\ page = [t \in Term |-> [n \in Cell |-> Blank]]
    /\ cursor = [t \in Term |-> 0]
    /\ shown \in Term
    /\ active = shown

(* A visible character is written at the cursor of t. *)
Write(t, c) == Move(t, [page[t] EXCEPT ![cursor[t]] = c], cursor[t] + 1)

Newline(t) == Move(t, page[t], (cursor[t] \div Cols + 1) * Cols)

(* The cursor goes back one cell, if there is one, and blanks it. *)
Backspace(t) ==
    LET n == IF cursor[t] = 0 THEN 0 ELSE cursor[t] - 1
    IN  Move(t, [page[t] EXCEPT ![n] = Blank], n)

Clear(t) == Move(t, [n \in Cell |-> Blank], 0)

(* A program stores a character in a cell of its terminal's screen. *)
Draw(t, n, c) == Move(t, [page[t] EXCEPT ![n] = c], cursor[t])

(* Another terminal is shown, or another one's program has its turn. *)
Switch(s, a) ==
    /\ shown' = s
    /\ active' = a
    /\ UNCHANGED <<page, cursor>>

(* Keys are echoed on the terminal on display and Ctrl+L clears it; a      *)
(* program writes to its own terminal, and only a program draws.           *)
Next ==
    \/ \E t \in {shown, active} :
         \/ \E c \in Char : Write(t, c)
         \/ Newline(t) \/ Backspace(t)
    \/ Clear(shown)
    \/ \E n \in Cell, c \in Char : Draw(active, n, c)
    \/ \E s, a \in Term : Switch(s, a)

Spec == Init /\ [][Next]_vars

=============================================================================
