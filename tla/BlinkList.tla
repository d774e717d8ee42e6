----------------------------- MODULE BlinkList -----------------------------
(***************************************************************************)
(* What fish/blink.S promises: a list of blinking characters, the newest   *)
(* first, each on or off with a number of ticks left in its phase.  There  *)
(* is no memory, no pointer and no word size.                              *)
(***************************************************************************)
EXTENDS Integers, SequencesExt

CONSTANTS
    SLOTS,      \* how many characters blink at most
    SCREEN,     \* how many characters the screen has
    Requests    \* the characters the program asks to add

VARIABLES
    items,      \* the blinking characters
    screen,     \* what is displayed
    result, answer

vars == <<items, screen, result, answer>>

(* The newest character at a location, or 0. *)
At(loc) == SelectInSeq(items, LAMBDA x : x.location = loc)

None == [location |-> 0, on |-> 0, off |-> 0, on_for |-> 0, off_for |-> 0,
         left |-> 0, lit |-> FALSE]

Refused == result' = -1 /\ answer' = None /\ UNCHANGED <<items, screen>>

Accepted(shown) == result' = 0 /\ screen' = shown

Add(r) ==
    \/ /\ r.location < SCREEN /\ Len(items) < SLOTS
       /\ items' = <<[location |-> r.location, on |-> r.on_char,
                      off |-> r.off_char, on_for |-> r.on_length,
                      off_for |-> r.off_length, left |-> r.on_length,
                      lit |-> TRUE]>> \o items
       /\ Accepted([screen EXCEPT ![r.location] = r.on_char])
       /\ answer' = None
    \/ r.location >= SCREEN /\ Refused
    \/ Len(items) = SLOTS /\ Refused

Drop(loc) ==
    \/ /\ At(loc) # 0
       /\ items' = RemoveAt(items, At(loc))
       /\ Accepted(screen)
       /\ answer' = None
    \/ At(loc) = 0 /\ Refused

Find(loc) ==
    \/ /\ At(loc) # 0
       /\ answer' = items[At(loc)]
       /\ Accepted(screen)
       /\ UNCHANGED items
    \/ At(loc) = 0 /\ Refused

(* The character at one location takes over the rhythm of another.  It is  *)
(* dark until its phase changes.                                           *)
Sync(from, to) ==
    \/ /\ At(from) # 0 /\ At(to) # 0
       /\ LET f == items[At(from)]
          IN  items' = [items EXCEPT ![At(to)].on_for = f.on_for,
                                     ![At(to)].off_for = f.off_for,
                                     ![At(to)].left = f.left,
                                     ![At(to)].lit = f.lit]
       /\ Accepted([screen EXCEPT ![to] = items[At(to)].off])
       /\ answer' = None
    \/ (At(from) = 0 \/ At(to) = 0) /\ Refused

(* A phase of n ticks ends with the n-th; a phase of none lasts one. *)
Over(x)  == x.left <= 1
After(x) == IF ~Over(x) THEN [x EXCEPT !.left = @ - 1]
            ELSE [x EXCEPT !.left = IF x.lit THEN x.off_for ELSE x.on_for,
                           !.lit = ~x.lit]

Tick ==
    /\ items' = [i \in DOMAIN items |-> After(items[i])]
    /\ screen' = FoldLeft(LAMBDA v, x : IF ~Over(x) THEN v
                              ELSE [v EXCEPT ![x.location] =
                                        IF x.lit THEN x.off ELSE x.on],
                          screen, items)
    /\ result' = 0 /\ answer' = None

Init ==
    /\ items = <<>>
    /\ screen = [l \in 0 .. SCREEN - 1 |-> 0]
    /\ result = 0
    /\ answer = None

Next ==
    \/ \E r \in Requests : Add(r)
    \/ \E l \in {r.location : r \in Requests} : Drop(l) \/ Find(l)
    \/ \E l, m \in {r.location : r \in Requests} : Sync(l, m)
    \/ Tick

Spec == Init /\ [][Next]_vars
=============================================================================
