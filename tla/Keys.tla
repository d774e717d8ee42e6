-------------------------------- MODULE Keys --------------------------------
(***************************************************************************)
(* From scan codes to characters: what handle_keypress remembers of the    *)
(* keys (keyboard.c) and which character handle_disp makes of a key.  What *)
(* happens to the character is in LineDiscipline.                          *)
(*                                                                         *)
(* The keyboard is external.  It sends one byte when a key goes down, or   *)
(* is held long enough to repeat, and one when it goes up.  The keys that  *)
(* are younger than the scan codes send a prefix first, and an arrow key   *)
(* hides the shift keys that are down: prefixed releases of them before    *)
(* it, prefixed presses after it.  Pause sends six bytes when it goes      *)
(* down: control and num lock pressed, then released, with another prefix. *)
(***************************************************************************)
EXTENDS Integers, Sequences

SCS1_PRESSED_1          == 2
SCS1_PRESSED_LEFTCTRL   == 29
SCS1_PRESSED_A          == 30
SCS1_PRESSED_LEFTSHIFT  == 42
SCS1_PRESSED_RIGHTSHIFT == 54
SCS1_PRESSED_SPACE      == 57
SCS1_PRESSED_CAPSLOCK   == 58
SCS1_PRESSED_NUMLOCK    == 69
SCS1_PRESSED_KP8        == 72
SCS1_PRESSED_F12        == 88
SCS1_RELEASED_F12       == 216
SCS1_MULTIBYTE          == 224
SCS1_KEYPRESS_RELEASE_OFFSET == 128

CONSTANT Others     \* more keys of one byte, whatever they are for

(* A letter, a key with a second character, one without, and keys without  *)
(* a character.                                                            *)
Printing == {SCS1_PRESSED_A, SCS1_PRESSED_1, SCS1_PRESSED_SPACE}
Shifts   == {SCS1_PRESSED_LEFTSHIFT, SCS1_PRESSED_RIGHTSHIFT}
Simple   == Printing \cup Shifts \cup {SCS1_PRESSED_CAPSLOCK} \cup Others

(* The arrow that has the scan code of a key of the number pad. *)
Arrow == SCS1_PRESSED_KP8

(* F12 and what follows it are not recorded (keyboard.c:134), pause borrows *)
(* two codes, and the keyboard tells the arrow from its namesake.           *)
ASSUME OthersAssumption ==
    Others \subseteq (1 .. SCS1_PRESSED_F12 - 1)
        \ {SCS1_PRESSED_LEFTCTRL, SCS1_PRESSED_NUMLOCK, Arrow}

VARIABLES
    key_state,          \* the scan codes whose entry is 1
    caps_lock_repeat,
    multi_byte,
    pressed,            \* keyboard: the keys that are down
    locked,             \* keyboard: caps lock has been pressed an odd number of times
    reversed,           \* keyboard: the last press of caps lock that was held
                        \* long enough to repeat was one that clears it
    wire                \* keyboard: bytes the kernel has not read

keyvars == <<key_state, caps_lock_repeat, multi_byte, pressed, locked, reversed, wire>>

-----------------------------------------------------------------------------
shift_pressed    == key_state \cap Shifts # {}
capslock_pressed == SCS1_PRESSED_CAPSLOCK \in key_state

keycodes(scancode) == CASE scancode = SCS1_PRESSED_A     -> "a"
                        [] scancode = SCS1_PRESSED_1     -> "1"
                        [] scancode = SCS1_PRESSED_SPACE -> " "

(* The switch of handle_disp, one case for all. *)
Shifted(disp) == IF disp = "1" THEN "!" ELSE disp

handle_disp(disp) ==
    IF ~(shift_pressed \/ (capslock_pressed /\ disp = "a")) THEN disp
    ELSE IF disp = "a" /\ ~(capslock_pressed /\ shift_pressed) THEN "A"
    ELSE Shifted(disp)

(* Mutant: a prefix is dropped and the byte behind it taken for a key. *)
DropPrefix(scancode) == multi_byte' = 0 /\ UNCHANGED <<key_state, caps_lock_repeat>>
Prefix(scancode) == multi_byte' = 1 /\ UNCHANGED <<key_state, caps_lock_repeat>>

(* The entry of caps lock changes with the first press of several. *)
Press(scancode) ==
    /\ IF scancode = SCS1_PRESSED_CAPSLOCK /\ caps_lock_repeat = 0
       THEN /\ key_state' = IF capslock_pressed THEN key_state \ {scancode}
                            ELSE key_state \cup {scancode}
            /\ caps_lock_repeat' = 1
       ELSE key_state' = key_state \cup {scancode} /\ UNCHANGED caps_lock_repeat
    /\ UNCHANGED multi_byte

LetGo(scancode) ==
    /\ IF scancode = SCS1_PRESSED_CAPSLOCK
       THEN caps_lock_repeat' = 0 /\ UNCHANGED key_state
       ELSE key_state' = key_state \ {scancode} /\ UNCHANGED caps_lock_repeat
    /\ UNCHANGED multi_byte

handle_keypress(scancode) ==
    IF scancode = SCS1_MULTIBYTE THEN Prefix(scancode)
    ELSE IF multi_byte = 1
    THEN multi_byte' = 0 /\ UNCHANGED <<key_state, caps_lock_repeat>>
    ELSE IF scancode \in 1 .. SCS1_PRESSED_F12 - 1 THEN Press(scancode)
    ELSE IF scancode \in SCS1_KEYPRESS_RELEASE_OFFSET + 1 .. SCS1_RELEASED_F12
    THEN LetGo(scancode - SCS1_KEYPRESS_RELEASE_OFFSET)
    ELSE UNCHANGED <<key_state, caps_lock_repeat, multi_byte>>

(* The status port says that there is a byte. *)
irqh_keyboard ==
    /\ wire # <<>>
    /\ handle_keypress(Head(wire))
    /\ wire' = Tail(wire)
    /\ UNCHANGED <<pressed, locked, reversed>>

-----------------------------------------------------------------------------
(* The keyboard *)

Sends(bytes) ==
    /\ wire = <<>>
    /\ wire' = bytes
    /\ UNCHANGED <<key_state, caps_lock_repeat, multi_byte>>

Hide(k, offset) == IF k \in pressed THEN <<SCS1_MULTIBYTE, k + offset>> ELSE <<>>
Hidden(offset)  == Hide(SCS1_PRESSED_LEFTSHIFT, offset)
                       \o Hide(SCS1_PRESSED_RIGHTSHIFT, offset)

KeyDown(k) ==
    /\ k \notin pressed
    /\ pressed' = pressed \cup {k}
    /\ locked' = IF k = SCS1_PRESSED_CAPSLOCK THEN ~locked ELSE locked
    /\ UNCHANGED reversed
    /\ Sends(IF k = Arrow
             THEN Hidden(SCS1_KEYPRESS_RELEASE_OFFSET) \o <<SCS1_MULTIBYTE, k>>
             ELSE <<k>>)

KeyUp(k) ==
    /\ k \in pressed
    /\ pressed' = pressed \ {k}
    /\ UNCHANGED <<locked, reversed>>
    /\ Sends(IF k = Arrow
             THEN <<SCS1_MULTIBYTE, k + SCS1_KEYPRESS_RELEASE_OFFSET>> \o Hidden(0)
             ELSE <<k + SCS1_KEYPRESS_RELEASE_OFFSET>>)

(* A key that is held sends its byte again, caps lock too. *)
KeyRepeats(k) ==
    /\ k \in pressed
    /\ reversed' = IF k = SCS1_PRESSED_CAPSLOCK THEN ~locked ELSE reversed
    /\ UNCHANGED <<pressed, locked>>
    /\ Sends(IF k = Arrow THEN <<SCS1_MULTIBYTE, k>> ELSE <<k>>)

PausePrefix == 225

KeyPause ==
    /\ UNCHANGED <<pressed, locked, reversed>>
    /\ LET up(k) == k + SCS1_KEYPRESS_RELEASE_OFFSET
       IN  Sends(<<PausePrefix, SCS1_PRESSED_LEFTCTRL, SCS1_PRESSED_NUMLOCK,
                   PausePrefix, up(SCS1_PRESSED_LEFTCTRL), up(SCS1_PRESSED_NUMLOCK)>>)

KeysInit ==
    /\ key_state = {} /\ caps_lock_repeat = 0 /\ multi_byte = 0
    /\ pressed = {} /\ locked = FALSE /\ reversed = FALSE /\ wire = <<>>

KeysNext ==
    \/ irqh_keyboard
    \/ KeyPause
    \/ \E k \in Simple \cup {Arrow} : KeyDown(k) \/ KeyUp(k) \/ KeyRepeats(k)

-----------------------------------------------------------------------------
(* The character on the key cap for the keys that are down and the lock. *)
Legend(k, shift, lock) ==
    CASE k = SCS1_PRESSED_A -> IF shift # lock THEN "A" ELSE "a"
      [] k = SCS1_PRESSED_1 -> IF shift THEN "!" ELSE "1"
      [] k = SCS1_PRESSED_SPACE -> " "

(* Whether the kernel takes caps lock for set.  It should as long as the   *)
(* key has been pressed an odd number of times; but the repetition of the  *)
(* press that clears it sets it again (keyboard.c:144, while the comment   *)
(* at keyboard.c:138 means a key that is held down to change nothing), and *)
(* from then on every press does the opposite of what it is meant for,     *)
(* until one that is meant to set it is held.                              *)
Lit == ~(locked <=> reversed)

(* Whatever keys have been pressed, held and released in any order, with   *)
(* the prefixed bytes of other keys in between: once the kernel has read   *)
(* all bytes, key_state says which keys are down, and the next key would   *)
(* give the character on its key cap, caps lock being set as the presses   *)
(* say, or the other way round from a held press that clears it to a held  *)
(* press that sets it.                                                     *)
KeysRight ==
    wire = <<>> =>
      /\ key_state \ {SCS1_PRESSED_CAPSLOCK} =
           pressed \ {SCS1_PRESSED_CAPSLOCK, Arrow}
      /\ capslock_pressed <=> Lit
      /\ \A k \in Printing :
           handle_disp(keycodes(k)) = Legend(k, pressed \cap Shifts # {}, Lit)
=============================================================================
