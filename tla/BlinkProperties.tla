-------------------------- MODULE BlinkProperties ---------------------------
(***************************************************************************)
(* The linked list of blinking characters as a list of characters, and the *)
(* properties that make it one.                                            *)
(***************************************************************************)
EXTENDS Blink

View(e) == [location |-> e.location, on |-> e.on_char, off |-> e.off_char,
            on_for |-> e.on_length, off_for |-> e.off_length,
            left |-> e.countdown, lit |-> e.status = 1]

Abstract == INSTANCE BlinkList WITH
    items  <- [i \in DOMAIN List |-> View(blink_array[List[i]])],
    screen <- video,
    answer <- View(user)

(* The linked list in blink_array behaves like a list of characters: no    *)
(* element is lost, reached twice, reused while it blinks or left behind   *)
(* by a removal, and the 16-bit countdown counts like a number.            *)
ImplementsList == Abstract!Spec

(* Free and listed elements are exactly the two kinds there are: memory is *)
(* neither leaked by mp1_ioctl_remove nor handed out by mp1_malloc while   *)
(* the list still leads to it.                                             *)
NoLeak ==
    /\ Ends
    /\ \A s \in Slots : Contains(List, s) <=> blink_array[s].location # 0

(* Once the program only waits for the clock, every character of the list  *)
(* is lit and dark again and again.                                        *)
Blinks ==
    <>[][mp1_rtc_tasklet]_vars =>
        \A s \in Slots :
            /\ []<>(Contains(List, s) => blink_array[s].status = 1)
            /\ []<>(Contains(List, s) => blink_array[s].status = 0)
=============================================================================
