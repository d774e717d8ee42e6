-------------------------------- MODULE Lib ---------------------------------
(***************************************************************************)
(* Calls of the routines of Memory, Strings and Programs with every small  *)
(* input, each compared with what the routine is for, and the keyboard's   *)
(* keys in every order: the parts of the system that need no other.        *)
(***************************************************************************)
EXTENDS Memory, Keys, Programs, StringCalls

CONSTANTS
    MaxFile,      \* bound: characters of a file grep reads
    MaxFrame      \* bound: characters of a frame

ASSUME LibAssumption == NL \notin Alphabet

vars == <<memvars, keyvars, call>>

Ink == CHOOSE c \in Alphabet : TRUE

Patterns == {<<Ink>>} \cup {<<Ink, c>> : c \in Alphabet}

Grep == \E f \in Texts(Alphabet \cup {NL}, MaxFile), s \in Patterns,
           fill \in {NUL, NL, Ink}, fault \in Faults :
    /\ fill = Ink \/ fault.call = "none"
    /\ Return([op |-> "grep", file |-> f, s |-> s, fill |-> fill, fault |-> fault,
               result |-> do_one_file(s, f, fill, fault)])

(* Each picture has a visible character of its own. *)
Fish == \E f0 \in Texts({Ink, SP, NL}, MaxFrame),
           f1 \in Texts((Alphabet \ {Ink}) \cup {SP, NL}, MaxFrame) :
    Return([op |-> "fish", f0 |-> f0, f1 |-> f1, adds |-> add_frames(f0, f1)])

Init == MemInit /\ KeysInit /\ CallsInit

(* One part at a time; they have no state in common. *)
NoKeys == ~locked /\ ~reversed /\ pressed = {} /\ wire = <<>>

Next ==
    \/ /\ call.op = "none" /\ NoKeys
       /\ MemNext
       /\ UNCHANGED <<keyvars, call>>
    \/ /\ call.op = "none" /\ NoKeys /\ at = "done" /\ args = Idle
       /\ Itoa \/ Formatted \/ Command \/ Grep \/ Fish
       /\ UNCHANGED <<memvars, keyvars>>
    \/ Forget /\ UNCHANGED <<memvars, keyvars>>
    \/ /\ call.op = "none" /\ at = "done" /\ args = Idle /\ ~df
       /\ KeysNext
       /\ UNCHANGED <<memvars, call>>

Spec == Init /\ [][Next]_vars

-----------------------------------------------------------------------------
(* Reference definitions and properties *)

(* The lines of a file: a newline ends one and starts another. *)
LinesOf(f) ==
    LET upto[n \in 0 .. Len(f)] ==
          IF n = 0 THEN << <<>> >>
          ELSE LET lines == upto[n - 1]
               IN  IF f[n] = NL THEN Append(lines, <<>>)
                   ELSE [lines EXCEPT ![Len(lines)] = Append(@, f[n])]
    IN  upto[Len(f)]

HasPattern(line, s) ==
    \E i \in 0 .. Len(line) - Len(s) : SubSeq(line, i + 1, i + Len(s)) = s

(* grep prints exactly the lines that contain the pattern, in order, no    *)
(* matter where the buffer cuts the file, if every line is shorter than    *)
(* the buffer and the byte behind the buffer does not happen to be a       *)
(* newline.  If a read fails it has printed the first of them and says so; *)
(* without a failure it says that all went well.                           *)
GrepRight ==
    /\ call.op = "grep"
    /\ call.fill # NL
    => LET lines == LinesOf(call.file)
           found == SelectSeq(lines, LAMBDA l : HasPattern(l, call.s))
       IN  \/ \E i \in DOMAIN lines : Len(lines[i]) >= BUFSIZE
           \/ /\ IsPrefix(call.result.out, found)
              /\ call.fault.call = "none" => call.result.ret = 0
              /\ call.result.ret = 0 \/ call.fault.call = "close"
                   => call.result.out = found

CharAt(lines, p) ==
    IF p[1] + 1 \in DOMAIN lines /\ p[2] + 1 \in DOMAIN lines[p[1] + 1]
    THEN lines[p[1] + 1][p[2] + 1] ELSE SP

(* fish asks for a blinking character exactly where one of the pictures    *)
(* has something to see, once, with the characters of both pictures at     *)
(* that place, however long their lines are and wherever one file ends.    *)
FramesRight ==
    call.op = "fish" =>
      LET l0   == LinesOf(call.f0)
          l1   == LinesOf(call.f1)
          seen == {p \in (0 .. MaxFrame) \X (0 .. MaxFrame) :
                     CharAt(l0, p) # SP \/ CharAt(l1, p) # SP}
      IN  /\ {call.adds[i] : i \in DOMAIN call.adds} =
               {<<p[1], p[2], CharAt(l0, p), CharAt(l1, p)>> : p \in seen}
          /\ Len(call.adds) = Cardinality(seen)

=============================================================================
