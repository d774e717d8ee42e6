--------------------------- MODULE LineProperties ---------------------------
(***************************************************************************)
(* What makes reading from a terminal correct, and the line editor that    *)
(* keyboard interrupts, ticks and reads implement together.                *)
(***************************************************************************)
EXTENDS LineDiscipline

(* The handler is between its two writes, or the reader between its own. *)
Halfway(t) ==
    \/ kbd.at \in {"stored", "loaded"} /\ kbd.term = t
    \/ reader[t].at = "zeroed"

(* The cells below line_buf_index are the ones with a character: no key is *)
(* stored behind a gap, and none is left over from an earlier line.        *)
Contiguous ==
    \A t \in Terms : ~Halfway(t) =>
      \A i \in Cells : line_buf[t][i] # 0 <=> i < line_buf_index[t]

(* A newline in the last place is the end: the keyboard never stores past  *)
(* the buffer, into the index that lies behind it.  So the index leaves    *)
(* its highest value only once the last cell was cleared.                  *)
NoOverflow ==
    [][\A t \in Terms :
         /\ line_buf_index[t] = LINE_BUFFER_SIZE
         /\ line_buf_index'[t] # LINE_BUFFER_SIZE
         => line_buf'[t][LINE_BUFFER_SIZE - 1] = 0]_vars

(* A program that waits for a line gets it once enter was pressed, however *)
(* often the display and the CPU go elsewhere meanwhile.                   *)
LineArrives ==
    \A t \in Terms : (reader[t].at = "wait" /\ HasNewline(t)) ~> reader[t].at = "user"

(* A handler that a tick cut short comes back to its send_eoi, without     *)
(* which no key would ever be seen again.                                  *)
KeyboardReleased == kbd.at # "idle" ~> kbd.at = "idle"

(***************************************************************************)
(* The line of a terminal is what its buffer holds.                        *)
(***************************************************************************)
Content(t) ==
    [i \in 1 .. Cardinality({j \in Cells : line_buf[t][j] # 0}) |-> line_buf[t][i - 1]]

Editor == INSTANCE LineEditor WITH
    Term     <- Terms,
    Letter   <- Letters,
    Capacity <- LINE_BUFFER_SIZE,
    Size     <- Sizes,
    line     <- [t \in Terms |-> Content(t)],
    want     <- [t \in Terms |->
                   IF reader[t].at \in {"wait", "found", "copied"}
                   THEN reader[t].nbytes ELSE 0],
    got      <- [t \in Terms |->
                   IF reader[t].at \in {"wait", "found"} THEN <<>>
                   ELSE [i \in 1 .. reader[t].lenstr |-> reader[t].buf[i - 1]]]

(* Every interleaving of keys, ticks and the steps of get_line_buf looks   *)
(* to the programs like the editor: each read starts with an empty line    *)
(* and returns exactly the line that was typed and edited for it.          *)
ImplementsEditor == Editor!Spec

=============================================================================
