----------------------------- MODULE StringCalls ----------------------------
(***************************************************************************)
(* Calls of the routines of Strings with every small input, each compared  *)
(* with what the routine is for.                                           *)
(***************************************************************************)
EXTENDS Strings

CONSTANTS
    Alphabet,     \* the visible characters of lines and files
    MaxCommand,   \* bound: characters of a command line
    MaxItems      \* bound: items of a format

(* A line is followed by two NULs in the buffer: behind a name that fills  *)
(* all but one byte (no file has one) there would be no argument to read.  *)
ASSUME CallsAssumption ==
    /\ Alphabet \subseteq Nat \ {NUL, SP}
    /\ MaxCommand \in Nat /\ MaxCommand + 1 < ARGS_SIZE /\ MaxItems \in Nat

VARIABLE call     \* the last call of a routine without state: its
                  \* arguments and its result

Texts(chars, n) == UNION {[1 .. k -> chars] : k \in 0 .. n}

Words == 0 .. WORD - 1

Return(record) ==
    /\ call.op = "none"
    /\ call' = record

Itoa == \E v \in Words, r \in {2, 10, RADIX} :
    Return([op |-> "itoa", value |-> v, radix |-> r,
            kernel |-> itoa(v, r), user |-> ece391_itoa(v, r)])

(* A format is made of items: a plain character, "%%", or a conversion     *)
(* with its argument, written out with or without "#".                     *)
Items == {<<"text", 116, 0>>, <<"percent", Percent, 0>>} \cup
         {<<k, l, v>> : k \in {"plain", "alt"}, l \in {Letter.x, Letter.u, Letter.d},
                        v \in {0, 9, RADIX, WORD \div 2 - 1, WORD \div 2, WORD - 1}} \cup
         {<<k, Letter.c, v>> : k \in {"plain", "alt"}, v \in {Percent, WORD - 1}} \cup
         {<<k, Letter.s, v>> : k \in {"plain", "alt"}, v \in {<<>>, <<Percent, Letter.d>>}}

Written(item) ==
    CASE item[1] = "text"    -> <<item[2]>>
      [] item[1] = "percent" -> <<Percent, Percent>>
      [] item[1] = "plain"   -> <<Percent, item[2]>>
      [] item[1] = "alt"     -> <<Percent, Hash, item[2]>>

Argument(item) == IF item[1] \in {"plain", "alt"} THEN <<item[3]>> ELSE <<>>

Format(items) == FlattenSeq([i \in DOMAIN items |-> Written(items[i])])
Arguments(items) == FlattenSeq([i \in DOMAIN items |-> Argument(items[i])])

Formatted == \E items \in Texts(Items, MaxItems) :
    Return([op |-> "printf", items |-> items,
            out |-> printf(Format(items), Arguments(items))])

Command == \E s \in Texts(Alphabet \cup {SP}, MaxCommand), n \in 0 .. MaxCommand :
    Return([op |-> "execute", line |-> s, nbytes |-> n,
            name |-> CString(Cmd(s)), args |-> getargs(s, n)])

Forget ==
    /\ call.op # "none"
    /\ call' = [op |-> "none"]

CallsInit == call = [op |-> "none"]

StringsNext == Itoa \/ Formatted \/ Command \/ Forget

StringsSpec == CallsInit /\ [][StringsNext]_call

-----------------------------------------------------------------------------
(* Reference definitions and properties *)

Numeral(s, v, radix) ==
    /\ ValueOf(s, radix) = v
    /\ \A i \in DOMAIN s : s[i] \in 0 .. radix - 1
    /\ s[1] = 0 => Len(s) = 1

(* The conversions give the one numeral of a number without leading zeros: *)
(* the user programs' for every word, the kernel's for the words whose top *)
(* bit is clear (itoa takes the remainder of a signed number).             *)
NumbersRight ==
    call.op = "itoa" =>
      /\ Numeral(call.user, call.value, call.radix)
      /\ call.value < WORD \div 2 => Numeral(call.kernel, call.value, call.radix)

Expected(item) ==
    CASE item[1] \in {"text", "percent"} -> <<item[2]>>
      [] item[2] = Letter.s -> item[3]
      [] item[2] = Letter.c -> <<item[3] % 256>>
      [] item[2] = Letter.u -> ece391_itoa(item[3], 10)
      [] item[2] = Letter.d ->
           IF item[3] < WORD \div 2 THEN ece391_itoa(item[3], 10)
           ELSE <<Minus>> \o ece391_itoa(WORD - item[3], 10)
      [] item[1] = "plain" -> ece391_itoa(item[3], RADIX)
      [] item[1] = "alt" ->
           [i \in 1 .. WIDTH |-> (item[3] \div RADIX ^ (WIDTH - i)) % RADIX]

(* The number that printf hands to itoa for the item has its top bit set:  *)
(* %x and %u of such a word, %d only of the most negative one.  The        *)
(* remainders of these are negative (see lookup).                          *)
TopBit(item) ==
    \/ item[2] \in {Letter.x, Letter.u} /\ item[3] >= WORD \div 2
    \/ item[2] = Letter.d /\ item[3] = WORD \div 2

(* printf puts out every item of its format, in order and with its own     *)
(* argument: text, characters and strings as they stand, a "%" in a string *)
(* included, numbers by their sign and numeral, and with "#" exactly as    *)
(* many hexadecimal digits as a word has.  Left out, because the code gets *)
(* them wrong: the numbers of TopBit.                                      *)
FormatRight ==
    call.op = "printf" =>
      \/ \E i \in DOMAIN call.items : TopBit(call.items[i])
      \/ call.out = FlattenSeq([i \in DOMAIN call.items |-> Expected(call.items[i])])

(* A command line is blanks, a name, blanks and the rest; the name is      *)
(* empty only if there is nothing but blanks.                              *)
Splits(line, name, rest) ==
    \E i \in 0 .. Len(line), k \in 0 .. Len(line) - Len(name) - Len(rest) :
      /\ i + Len(name) + k + Len(rest) = Len(line)
      /\ k = 0 => rest = <<>>
      /\ name = <<>> => \A j \in DOMAIN line : line[j] = SP
      /\ line = [j \in 1 .. i |-> SP] \o name \o [j \in 1 .. k |-> SP] \o rest

(* execute finds the name whatever blanks surround it, and getargs gives   *)
(* the program the rest of the line, as much as fits, or fails if there is *)
(* none.                                                                   *)
CommandRight ==
    call.op = "execute" =>
      \E rest \in {SubSeq(call.line, i, Len(call.line)) : i \in 1 .. Len(call.line) + 1} :
        /\ Splits(call.line, call.name, rest)
        /\ \A i \in DOMAIN call.name : call.name[i] # SP
        /\ rest # <<>> => rest[1] # SP
        /\ call.args.ret = IF rest = <<>> THEN -1 ELSE 0
        /\ call.args.buf = IF rest = <<>> THEN <<>>
                           ELSE SubSeq(Append(rest, NUL), 1,
                                       Least(Len(rest) + 1, call.nbytes))
=============================================================================
