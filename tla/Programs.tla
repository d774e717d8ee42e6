------------------------------ MODULE Programs ------------------------------
(***************************************************************************)
(* Two user programs that read files in pieces: grep (ece391grep.c), which *)
(* cuts a file into lines through a buffer, and fish (fish.c), which reads *)
(* two pictures side by side.  A file is a sequence of characters; a read  *)
(* returns as much as was asked for, less only at the end, or fails.       *)
(***************************************************************************)
EXTENDS Strings

CONSTANTS
    BUFSIZE    \* ece391grep.c, 1024

ASSUME ProgramsAssumption == BUFSIZE \in Nat \ {0}

-----------------------------------------------------------------------------
(* grep.  data is the buffer, indexed from 0, last the bytes in it.        *)

RECURSIVE Lines(_, _, _, _, _, _), Chunks(_, _, _, _, _, _, _)

Slice(data, from, to) == [i \in 1 .. to - from |-> data[from + i - 1]]

(* Does the string at data[check], up to its NUL at end, start with s? *)
MatchAt(data, check, end, s) ==
    /\ s[1] = data[check]
    /\ strncmp(Slice(data, check, end), s, Len(s)) = 0

Matches(data, start, end, s) ==
    \E check \in start .. end - 1 : MatchAt(data, check, end, s)

(* Mutant: what is left over is not moved to the start of the buffer. *)
StayThere(data, start, end) == data

(* A NUL behind the unfinished line, and its strcpy to the start. *)
MoveDown(data, start, end) ==
    [i \in DOMAIN data |-> IF i < end - start THEN data[start + i]
                           ELSE IF i \in {end - start, end} THEN NUL ELSE data[i]]

(* The inner loop, from line_start on: the lines printed, and data and     *)
(* last for the next read.  data[line_end] is looked at even where         *)
(* line_end is last, one past what was read.                               *)
Lines(data, last, start, cnt, s, out) ==
    LET end == CHOOSE e \in start .. last :
                 /\ e = last \/ data[e] = NL
                 /\ \A i \in start .. e - 1 : data[i] # NL
    IN  IF data[end] # NL /\ cnt # 0 /\ start # 0
        THEN [out |-> out, data |-> MoveDown(data, start, end), last |-> last - start]
        ELSE LET cut   == [data EXCEPT ![end] = NUL]
                 found == IF Matches(cut, start, end, s)
                          THEN Append(out, Slice(cut, start, end)) ELSE out
             IN  IF end + 1 >= last THEN [out |-> found, data |-> cut, last |-> 0]
                 ELSE Lines(cut, last, end + 1, cnt, s, found)

(* The system call that fails, if one does: open, close or the n-th read. *)
Faults == {[call |-> c, n |-> 0] : c \in {"none", "open", "close"}}
          \cup {[call |-> "read", n |-> k] : k \in 1 .. 4}

Result(ret, out) == [ret |-> ret, out |-> out]

(* The outer loop: read what fits behind the leftover, until a read gives  *)
(* 0 or fails; n counts the reads.                                         *)
Chunks(file, data, last, s, out, n, fault) ==
    LET cnt  == Least(BUFSIZE - last, Len(file))
        read == [i \in 0 .. BUFSIZE |->
                   IF i >= last /\ i < last + cnt THEN file[i - last + 1] ELSE data[i]]
        r    == Lines(read, last + cnt, 0, cnt, s, out)
    IN  IF fault = [call |-> "read", n |-> n] THEN Result(-1, out)
        ELSE IF cnt = 0 THEN Result(IF fault.call = "close" THEN -1 ELSE 0, r.out)
        ELSE Chunks(SubSeq(file, cnt + 1, Len(file)), r.data, r.last, s, r.out, n + 1, fault)

(* do_one_file, with a buffer that holds fill before anything is read. *)
do_one_file(s, file, fill, fault) ==
    IF fault.call = "open" THEN Result(-1, <<>>)
    ELSE Chunks(file, [i \in 0 .. BUFSIZE |-> fill], 0, s, <<>>, 1, fault)

-----------------------------------------------------------------------------
(* fish: add_frames.  c0 and c1 are the last characters, NL from the end   *)
(* of a line until both lines have ended.                                  *)

RECURSIVE Frames(_, _, _, _, _, _, _, _, _)

(* Read a character unless the line has ended; the end of the file is the  *)
(* end of its last line.                                                   *)
Next0(f, c)  == IF c = NL \/ f = <<>> THEN NL ELSE f[1]
Eof(f, c, e)  == e \/ (c # NL /\ f = <<>>)

(* Mutant: a character is read although the line has ended. *)
ReadOn(f, c) == IF f = <<>> THEN f ELSE Tail(f)

Rest(f, c) == IF c = NL \/ f = <<>> THEN f ELSE Tail(f)

Blanked(c) == IF c = NL THEN SP ELSE c
Visible(c) == c # SP /\ c # NL

(* What c0 and c1 are set to for the next row. *)
NextRow(eof) == IF eof THEN NL ELSE SP

Frames(f0, f1, c0, c1, eof0, eof1, row, col, adds) ==
    LET n0 == Next0(f0, c0)
        n1 == Next0(f1, c1)
        r0 == Rest(f0, c0)
        r1 == Rest(f1, c1)
        e0 == Eof(f0, c0, eof0)
        e1 == Eof(f1, c1, eof1)
    IN  IF n0 = NL /\ n1 = NL
        THEN IF e0 /\ e1 THEN adds
             ELSE Frames(r0, r1, NextRow(e0), NextRow(e1), e0, e1, row + 1, 0, adds)
        ELSE Frames(r0, r1, n0, n1, e0, e1, row, col + 1,
                    IF Visible(n0) \/ Visible(n1)
                    THEN Append(adds, <<row, col, Blanked(n0), Blanked(n1)>>)
                    ELSE adds)

add_frames(f0, f1) == Frames(f0, f1, SP, SP, FALSE, FALSE, 0, 0, <<>>)

=============================================================================
