------------------------------- MODULE Blink -------------------------------
(***************************************************************************)
(* The blinking characters of the fish program: the linked list, the       *)
(* requests and the timer routine of fish/blink.S, with the allocator of   *)
(* fish/fish.c underneath.  The program calls one routine at a time, so    *)
(* each routine is an action; between two calls it may do anything.        *)
(*                                                                         *)
(* A pointer to an element is its index in blink_array, and NULL is -1.    *)
(* Lengths and countdowns are 16-bit words, here WORD many values, which   *)
(* the timer compares as signed numbers.                                   *)
(***************************************************************************)
EXTENDS Integers, FiniteSetsExt, SequencesExt

CONSTANTS
    SLOTS,      \* elements of blink_array, 80 * 25
    SCREEN,     \* characters on the screen, 80 * 25
    WORD,       \* values of an unsigned short, 2^16
    Requests    \* the structures the program asks to add

ASSUME SlotsAssumption  == SLOTS \in Nat \ {0}
ASSUME ScreenAssumption == SCREEN \in Nat \ {0}
ASSUME WordAssumption   == WORD \in Nat /\ WORD % 2 = 0 /\ WORD > 2

(***************************************************************************)
(* What a program may ask for.  An element at location 0 looks free to     *)
(* mp1_malloc, and a length above half a word looks negative to the timer. *)
(* The fish starts at location 40 and uses lengths up to 15.               *)
(***************************************************************************)
ASSUME RequestsAssumption ==
    \A r \in Requests : /\ r.location \in 1 .. WORD - 1
                        /\ r.on_char \in Nat /\ r.off_char \in Nat
                        /\ r.on_length \in 0 .. WORD \div 2
                        /\ r.off_length \in 0 .. WORD \div 2

Slots     == 0 .. SLOTS - 1
Locations == 0 .. SCREEN - 1
NULL      == -1

VARIABLES
    blink_array, mp1_list_head,
    video,      \* the page vmem_base_addr points to
    result,     \* what the last call returned, 0 for the timer routine
    user        \* what the last request copied to the program

vars == <<blink_array, mp1_list_head, video, result, user>>

(* An element after ece391_memset, and so a free one. *)
Zero == [location |-> 0, on_char |-> 0, off_char |-> 0, on_length |-> 0,
         off_length |-> 0, countdown |-> 0, status |-> 0, next |-> NULL]

-----------------------------------------------------------------------------
(* The list that starts at head, as far as SLOTS + 1 elements: walk[k] is  *)
(* the list of at most k elements from a given one on.                     *)
Linked(array, head) ==
    LET walk[k \in 0 .. SLOTS + 1] ==
          [s \in Slots \cup {NULL} |->
             IF s = NULL \/ k = 0 THEN <<>>
             ELSE <<s>> \o walk[k - 1][array[s].next]]
    IN  walk[SLOTS + 1][head]

List == Linked(blink_array, mp1_list_head)
Ends == Len(List) <= SLOTS

(* The first element at a location, or NULL. *)
mp1_find_helper(loc) ==
    LET i == SelectInSeq(List, LAMBDA s : blink_array[s].location = loc)
    IN  IF i = 0 THEN NULL ELSE List[i]

(* The first element that looks free. *)
mp1_malloc == IF \E s \in Slots : blink_array[s].location = 0
              THEN Min({s \in Slots : blink_array[s].location = 0}) ELSE NULL

(* Mutant: a free that leaves the element as it was. *)
KeepElement(s) == blink_array[s]
mp1_free(s) == Zero

Poke(v, loc, c) == [v EXCEPT ![loc] = c]

Fails == /\ result' = -1
         /\ user' = Zero
         /\ UNCHANGED <<blink_array, mp1_list_head, video>>

-----------------------------------------------------------------------------
(* RTC_ADD: a new element at the front of the list, on display at once. *)
mp1_ioctl_add(r) ==
    LET s   == mp1_malloc
        new == [location |-> r.location, on_char |-> r.on_char,
                off_char |-> r.off_char, on_length |-> r.on_length,
                off_length |-> r.off_length, countdown |-> r.on_length,
                status |-> 1, next |-> mp1_list_head]
    IN  IF r.location >= SCREEN \/ s = NULL THEN Fails
        ELSE /\ blink_array' = [blink_array EXCEPT ![s] = new]
             /\ mp1_list_head' = s
             /\ video' = Poke(video, r.location, r.on_char)
             /\ result' = 0
             /\ user' = Zero

(* The list with element s unlinked, and s then freed.  The search for the *)
(* link to s starts at the head and meets only elements of the list.       *)
(* Mutant: the list is cut instead of joined. *)
Cut(s) ==
    [p \in Slots |-> IF p = s THEN mp1_free(s)
                     ELSE IF Contains(List, p) /\ blink_array[p].next = s
                     THEN [blink_array[p] EXCEPT !.next = NULL]
                     ELSE blink_array[p]]
Unlink(s) ==
    [p \in Slots |-> IF p = s THEN mp1_free(s)
                     ELSE IF Contains(List, p) /\ blink_array[p].next = s
                     THEN [blink_array[p] EXCEPT !.next = blink_array[s].next]
                     ELSE blink_array[p]]

(* RTC_REMOVE.  The screen keeps the last character shown. *)
mp1_ioctl_remove(loc) ==
    LET s == mp1_find_helper(loc)
    IN  IF s = NULL THEN Fails
        ELSE /\ blink_array' = Unlink(s)
             /\ mp1_list_head' = IF mp1_list_head = s THEN blink_array[s].next
                                 ELSE mp1_list_head
             /\ result' = 0
             /\ user' = Zero
             /\ UNCHANGED video

(* RTC_FIND: the element at a location, copied whole to the program. *)
mp1_ioctl_find(loc) ==
    LET s == mp1_find_helper(loc)
    IN  IF s = NULL THEN Fails
        ELSE /\ user' = blink_array[s]
             /\ result' = 0
             /\ UNCHANGED <<blink_array, mp1_list_head, video>>

(* RTC_SYNC: the element at location to takes over the rhythm of the one   *)
(* at location from.  The conditional move after testb tests for "less",   *)
(* which testb never yields, so that the off character is displayed in     *)
(* either status.                                                          *)
mp1_ioctl_sync(from, to) ==
    LET f == mp1_find_helper(from)
        t == mp1_find_helper(to)
        e == [blink_array[t] EXCEPT !.on_length = blink_array[f].on_length,
                                    !.off_length = blink_array[f].off_length,
                                    !.countdown = blink_array[f].countdown,
                                    !.status = blink_array[f].status]
    IN  IF f = NULL \/ t = NULL THEN Fails
        ELSE /\ blink_array' = [blink_array EXCEPT ![t] = e]
             /\ video' = Poke(video, e.location, e.off_char)
             /\ result' = 0
             /\ user' = Zero
             /\ UNCHANGED mp1_list_head

-----------------------------------------------------------------------------
(* decw: the countdown wraps. *)
Down(s) == (blink_array[s].countdown - 1) % WORD

(* cmpw and jg: it is compared as a signed number. *)
Due(s) == Down(s) = 0 \/ Down(s) >= WORD \div 2

(* Mutant: the status is not inverted. *)
TurnOff(s) ==
    LET e == blink_array[s]
    IN  IF ~Due(s) THEN [e EXCEPT !.countdown = Down(s)]
        ELSE [e EXCEPT !.countdown = e.off_length, !.status = 0]
(* One element's turn in the timer routine. *)
Turn(s) ==
    LET e == blink_array[s]
    IN  IF ~Due(s) THEN [e EXCEPT !.countdown = Down(s)]
        ELSE [e EXCEPT !.countdown = IF e.status = 1 THEN e.off_length
                                     ELSE e.on_length,
                       !.status = 1 - e.status]

Flip(v, s) ==
    IF ~Due(s) THEN v
    ELSE Poke(v, blink_array[s].location,
              IF blink_array[s].status = 1 THEN blink_array[s].off_char
              ELSE blink_array[s].on_char)

(* The timer routine goes through the list once; it never comes back from  *)
(* a list that does not end.  The program calls it after each read of the  *)
(* clock.                                                                  *)
mp1_rtc_tasklet ==
    /\ Ends
    /\ blink_array' = [s \in Slots |-> IF Contains(List, s) THEN Turn(s)
                                       ELSE blink_array[s]]
    /\ video' = FoldLeft(Flip, video, List)
    /\ result' = 0 /\ user' = Zero
    /\ UNCHANGED mp1_list_head

-----------------------------------------------------------------------------
Init ==
    /\ blink_array = [s \in Slots |-> Zero]
    /\ mp1_list_head = NULL
    /\ video = [l \in Locations |-> 0]
    /\ result = 0
    /\ user = Zero

Asked == {r.location : r \in Requests} \cap Locations

mp1_ioctl ==
    /\ Ends
    /\ \/ \E r \in Requests : mp1_ioctl_add(r)
       \/ \E l \in Asked : mp1_ioctl_remove(l)
       \/ \E l \in Asked : mp1_ioctl_find(l)
       \/ \E l, m \in Asked : mp1_ioctl_sync(l, m)

Next == mp1_ioctl \/ mp1_rtc_tasklet

Spec == Init /\ [][Next]_vars

(* The program waits for the clock in a loop, and a read of the clock ends *)
(* (module Rtc).                                                           *)
FairSpec == Spec /\ WF_vars(mp1_rtc_tasklet)
=============================================================================
