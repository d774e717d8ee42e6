------------------------------- MODULE Strings ------------------------------
(***************************************************************************)
(* The string routines and number conversions of lib.c and of the user     *)
(* programs' ece391support.c, printf, and how execute and getargs take a   *)
(* command line apart.  A C string is a sequence without its final NUL;    *)
(* where a routine depends on the bytes of a buffer, the NUL is written.   *)
(* A character is a small number, SP the space; a digit stands for itself. *)
(***************************************************************************)
EXTENDS Integers, Sequences, SequencesExt

CONSTANTS
    WIDTH,       \* hexadecimal digits of a machine word (8)
    RADIX,       \* the radix of %x (16)
    ARGS_SIZE    \* syscall.h, 128

ASSUME StringsAssumption ==
    WIDTH \in Nat \ {0} /\ RADIX \in Nat \ {0, 1} /\ ARGS_SIZE \in Nat \ {0}

NUL == 0
SP  == 32
NL  == 110

WORD == RADIX ^ WIDTH

(* Arithmetic: the proof system knows no powers. *)
ASSUME WordAssumption == WORD \in Nat

Least(a, b) == IF a < b THEN a ELSE b

(* What is read outside the lookup table or of a buffer nobody wrote. *)
Garbage == 999

-----------------------------------------------------------------------------
(* Strings *)

(* C strings in a buffer: the characters before the first NUL. *)
strlen(buf) == CHOOSE n \in 0 .. Len(buf) - 1 :
                 buf[n + 1] = NUL /\ \A i \in 1 .. n : buf[i] # NUL

CString(buf) == SubSeq(buf, 1, strlen(buf))

(* Mutant: the loop stops when the two indices are neighbours. *)
strrevEarly(s) ==
    LET swapped[k \in 0 .. Len(s)] ==
          IF k = 0 THEN s
          ELSE LET before == swapped[k - 1]
                   end    == Len(s) + 1 - k
               IN  IF k + 1 < end THEN [before EXCEPT ![k] = before[end], ![end] = before[k]]
                                  ELSE before
    IN  swapped[Len(s)]

(* strrev swaps the outermost pair, then the next, until they meet. *)
strrev(s) ==
    LET swapped[k \in 0 .. Len(s)] ==
          IF k = 0 THEN s
          ELSE LET before == swapped[k - 1]
                   end    == Len(s) + 1 - k
               IN  IF k < end THEN [before EXCEPT ![k] = before[end], ![end] = before[k]]
                              ELSE before
    IN  swapped[Len(s)]

(* The first position where the strings differ or end, within n. *)
strncmp(s1, s2, n) ==
    LET a == Append(s1, NUL)
        b == Append(s2, NUL)
        stop == {i \in 1 .. n : /\ i <= Len(a) /\ i <= Len(b)
                                /\ a[i] # b[i] \/ a[i] = NUL}
    IN  IF stop = {} THEN 0
        ELSE LET i == CHOOSE i \in stop : \A j \in stop : i <= j IN a[i] - b[i]

(* strcpy into a buffer, from offset off (0 is its first byte). *)
strcpy(buf, off, s) ==
    [i \in 1 .. Len(buf) |->
       IF i - off \in 1 .. Len(s) + 1 THEN Append(s, NUL)[i - off] ELSE buf[i]]

(* Mutant: blanks in front are not skipped. *)
NoSkip(s) == 0

strnonspace(s) ==
    LET some == {i \in 1 .. Len(s) : s[i] # SP}
    IN  IF some = {} THEN Len(s) ELSE (CHOOSE i \in some : \A j \in some : i <= j) - 1

-----------------------------------------------------------------------------
(* Numbers *)

(* lookup[(i32)newval % radix]: the remainder of a word whose top bit is   *)
(* set is that of a negative number, and then mostly an index before the   *)
(* table.                                                                  *)
lookup(value, radix) ==
    IF value < WORD \div 2 THEN value % radix
    ELSE IF (WORD - value) % radix = 0 THEN 0 ELSE Garbage

(* itoa: digits from the lowest place value up, reversed in the end. *)
itoa(value, radix) ==
    LET digits[v \in 0 .. value] ==
          IF v = 0 THEN <<>> ELSE <<lookup(v, radix)>> \o digits[v \div radix]
    IN  IF value = 0 THEN <<0>> ELSE strrev(digits[value])

ece391_itoa(value, radix) ==
    LET digits[v \in 0 .. value] ==
          IF v = 0 THEN <<>> ELSE <<v % radix>> \o digits[v \div radix]
    IN  IF value = 0 THEN <<0>> ELSE strrev(digits[value])

(* The number a string of digits stands for. *)
ValueOf(s, radix) ==
    LET value[k \in 0 .. Len(s)] == IF k = 0 THEN 0 ELSE value[k - 1] * radix + s[k]
    IN  value[Len(s)]

(* Mutant: the padding starts one place later. *)
PadLate(s) ==
    LET buf == [i \in 1 .. 2 * WIDTH |->
                  IF i > WIDTH /\ i - WIDTH <= Len(s) THEN s[i - WIDTH]
                  ELSE IF i > Len(s) + 1 THEN 0 ELSE Garbage]
    IN  SubSeq(buf, Len(s) + 1, WIDTH + Len(s))

(* %#x: the digits lie at conv_buf[8], zeros are put from index strlen to  *)
(* there, and printing starts at that index.                               *)
Padded(s) ==
    LET buf == [i \in 1 .. 2 * WIDTH |->
                  IF i > WIDTH /\ i - WIDTH <= Len(s) THEN s[i - WIDTH]
                  ELSE IF i > Len(s) THEN 0 ELSE Garbage]
    IN  SubSeq(buf, Len(s) + 1, WIDTH + Len(s))

-----------------------------------------------------------------------------
(* printf.  The format is a sequence of characters, the arguments a        *)
(* sequence of words, a pointer being the string it points to; the output  *)
(* is what putc is given.                                                  *)

Minus   == 45
Percent == 37
Hash    == 35
Letter  == [x |-> 120, u |-> 117, d |-> 100, c |-> 99, s |-> 115]

(* -value as the 32-bit machine computes it *)
Negated(value) == (WORD - value) % WORD

Convert(letter, alternate, arg) ==
    CASE letter = Letter.x -> IF alternate THEN Padded(itoa(arg, RADIX)) ELSE itoa(arg, RADIX)
      [] letter = Letter.u -> itoa(arg, 10)
      [] letter = Letter.d -> IF arg >= WORD \div 2
                         THEN <<Minus>> \o itoa(Negated(arg), 10)
                         ELSE itoa(arg, 10)
      [] letter = Letter.c -> <<arg % 256>>
      [] letter = Letter.s -> arg

(* buf is the index of the next character; "#" may be repeated; a letter   *)
(* that is no conversion prints nothing and takes no argument.  The NUL of *)
(* a format that ends within a conversion is taken for such a letter, and  *)
(* what lies behind it printed.                                            *)
printf(format, arg) ==
    LET step[buf \in 1 .. Len(format) + 1, used \in 0 .. Len(arg), mode \in {"text", "conv", "alt"}] ==
          IF buf > Len(format) THEN IF mode = "text" THEN <<>> ELSE <<Garbage>>
          ELSE LET c == format[buf] IN
               CASE mode = "text" /\ c = Percent -> step[buf + 1, used, "conv"]
                 [] mode = "text" -> <<c>> \o step[buf + 1, used, "text"]
                 [] mode # "text" /\ c = Hash -> step[buf + 1, used, "alt"]
                 [] mode # "text" /\ c = Percent -> <<Percent>> \o step[buf + 1, used, "text"]
                 [] mode # "text" /\ c \in {Letter[l] : l \in DOMAIN Letter} ->
                      Convert(c, mode = "alt", arg[used + 1]) \o step[buf + 1, used + 1, "text"]
                 [] OTHER -> step[buf + 1, used, "text"]
    IN  step[1, 0, "text"]

-----------------------------------------------------------------------------
(* Command lines *)

(* The index of the last of the blanks that start at index i. *)
LastBlank(ucmd, i) ==
    CHOOSE k \in i .. Len(ucmd) :
      /\ \A j \in i .. k : ucmd[j] = SP
      /\ k < Len(ucmd) => ucmd[k + 1] # SP

(* execute's cmd: leading blanks are dropped; at the first blank after the *)
(* name the last blank of the run and all that follows is copied, and that *)
(* blank becomes the NUL after the name.                                   *)
Cmd(ucmd) ==
    LET zero  == [i \in 1 .. ARGS_SIZE |-> NUL]
        first == strnonspace(ucmd) + 1
        ends  == {i \in first .. Len(ucmd) : ucmd[i] = SP}
        end   == CHOOSE i \in ends : \A j \in ends : i <= j
        name  == IF ends = {} THEN SubSeq(ucmd, first, Len(ucmd))
                              ELSE SubSeq(ucmd, first, end - 1)
        copy  == IF ends = {} THEN zero
                 ELSE strcpy(zero, Len(name),
                             SubSeq(ucmd, LastBlank(ucmd, end), Len(ucmd)))
    IN  [i \in 1 .. ARGS_SIZE |->
           IF i <= Len(name) THEN name[i]
           ELSE IF i = Len(name) + 1 THEN NUL ELSE copy[i]]

(* argv[1], and what getargs copies: as much as fits, without a NUL if the *)
(* buffer is too small; -1 for an empty string.                            *)
Argv1(ucmd) ==
    LET raw == Cmd(ucmd) IN CString(SubSeq(raw, strlen(raw) + 2, ARGS_SIZE))

getargs(ucmd, nbytes) ==
    LET arg == Append(Argv1(ucmd), NUL)
    IN  IF Argv1(ucmd) = <<>> THEN [ret |-> -1, buf |-> <<>>]
        ELSE [ret |-> 0,
              buf |-> SubSeq(arg, 1, IF Len(arg) < nbytes THEN Len(arg) ELSE nbytes)]

=============================================================================
