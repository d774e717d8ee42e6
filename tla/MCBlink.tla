------------------------------ MODULE MCBlink ------------------------------
(***************************************************************************)
(* A small instance of the blinking characters: three elements, a word of  *)
(* four values.  The requests include a phase of no ticks, one of the      *)
(* longest a signed word holds and a location past the screen; a location  *)
(* can be asked for several times.                                         *)
(***************************************************************************)
EXTENDS BlinkProperties

Ask(l, c, d, m, n) == [location |-> l, on_char |-> c, off_char |-> d,
                       on_length |-> m, off_length |-> n]
MCRequests == {Ask(1, 1, 2, WORD \div 2, 1), Ask(2, 1, 2, 0, 1),
               Ask(SCREEN, 1, 1, 1, 1)}
=============================================================================
