------------------------------- MODULE Memory -------------------------------
(***************************************************************************)
(* The memory routines of lib.c, which are x86 loops: one step for each    *)
(* instruction or string operation that stores.  The direction flag        *)
(* outlives a call: memmove returns with it set when it copied backwards,  *)
(* and every routine has to clear it before its own string operation.      *)
(***************************************************************************)
EXTENDS Integers

CONSTANTS
    Size,   \* bytes of memory
    Fill    \* what memset stores, a value no byte of memory has before

ASSUME MemoryAssumption == Size \in Nat \ {0} /\ Fill \notin 0 .. Size - 1

Bytes == 0 .. Size - 1

VARIABLES
    mem,                  \* the bytes
    ecx, edx, esi, edi,   \* the registers of the loops
    df,                   \* the direction flag: FALSE after cld
    at,                   \* the label reached; "done" after the return
    args                  \* the call: routine, dest, src and n

registers == <<ecx, edx, esi, edi>>
memvars   == <<mem, registers, df, at, args>>

(* Before a call every byte is different. *)
Fresh == [b \in Bytes |-> b]

Idle == [routine |-> "none", dest |-> 0, src |-> 0, n |-> 0]

MemInit ==
    /\ mem = Fresh
    /\ ecx = 0 /\ edx = 0 /\ esi = 0 /\ edi = 0
    /\ df = FALSE
    /\ at = "done"
    /\ args = Idle

(* The byte that a step stores at offset i from edi: the one that many     *)
(* bytes from esi, or al.  What lies outside the modelled bytes is Fill.   *)
Source(i) ==
    IF args.routine \in {"memcpy", "memmove"} /\ esi + i \in Bytes
    THEN mem[esi + i] ELSE Fill

(* movs and stos of w bytes, which step esi and edi by the direction flag. *)
StringOp(w) ==
    /\ mem' = [b \in Bytes |-> IF b \in edi .. edi + w - 1 THEN Source(b - edi)
                                                           ELSE mem[b]]
    /\ edi' = IF df THEN edi - w ELSE edi + w
    /\ esi' = IF df THEN esi - w ELSE esi + w

(* A byte at a time, with registers counted by hand. *)
ByteMove ==
    /\ mem' = [mem EXCEPT ![edi] = Source(0)]
    /\ edi' = edi + 1
    /\ esi' = esi + 1

-----------------------------------------------------------------------------
(* memset and memcpy: bytes up to a multiple of four, dwords, the rest. *)

Enter(routine, dest, src, n, label) ==
    /\ at = "done"
    /\ args' = [routine |-> routine, dest |-> dest, src |-> src, n |-> n]
    /\ mem' = Fresh
    /\ edi' = dest /\ esi' = src /\ ecx' = n /\ edx' = 0
    /\ at' = label

memset(dest, n) ==
    Enter("memset", dest, dest, n, "top") /\ UNCHANGED df

memcpy(dest, src, n) ==
    Enter("memcpy", dest, src, n, "top") /\ UNCHANGED df

Top ==
    /\ at = "top"
    /\ ecx # 0 /\ edi % 4 # 0
    /\ ByteMove
    /\ ecx' = ecx - 1
    /\ UNCHANGED <<edx, df, at, args>>

(* Mutant: the direction flag is left as it is. *)
NoCld == df

cld == FALSE

Aligned ==
    /\ at = "top"
    /\ ecx # 0 /\ edi % 4 = 0
    /\ edx' = ecx % 4
    /\ ecx' = ecx \div 4
    /\ df' = cld
    /\ at' = "rep"
    /\ UNCHANGED <<mem, esi, edi, args>>

Rep ==
    /\ at = "rep"
    /\ ecx # 0
    /\ StringOp(4)
    /\ ecx' = ecx - 1
    /\ UNCHANGED <<edx, df, at, args>>

Bottom ==
    /\ at = "rep"
    /\ ecx = 0 /\ edx # 0
    /\ ByteMove
    /\ edx' = edx - 1
    /\ UNCHANGED <<ecx, df, at, args>>

-----------------------------------------------------------------------------
(* memset_word and memset_dword store n times w bytes; memmove copies from *)
(* the end when the destination lies above the source.                     *)

memset_wide(dest, n, w) ==
    /\ Enter(IF w = 2 THEN "memset_word" ELSE "memset_dword", dest, dest, n, "stos")
    /\ df' = FALSE

Stos ==
    /\ at = "stos"
    /\ ecx # 0
    /\ StringOp(IF args.routine = "memset_word" THEN 2 ELSE 4)
    /\ ecx' = ecx - 1
    /\ UNCHANGED <<edx, df, at, args>>

memmove(dest, src, n) ==
    /\ at = "done"
    /\ args' = [routine |-> "memmove", dest |-> dest, src |-> src, n |-> n]
    /\ mem' = Fresh
    /\ ecx' = n /\ edx' = 0
    /\ df' = (src < dest)
    /\ IF src >= dest THEN edi' = dest /\ esi' = src
                      ELSE edi' = dest + n - 1 /\ esi' = src + n - 1
    /\ at' = "movsb"

Movsb ==
    /\ at = "movsb"
    /\ ecx # 0
    /\ StringOp(1)
    /\ ecx' = ecx - 1
    /\ UNCHANGED <<edx, df, at, args>>

Done ==
    /\ \/ at \in {"top", "stos", "movsb"} /\ ecx = 0
       \/ at = "rep" /\ ecx = 0 /\ edx = 0
    /\ at' = "done"
    /\ UNCHANGED <<mem, registers, df, args>>

-----------------------------------------------------------------------------
(* The calls C allows: inside memory, and without overlap for memcpy (the  *)
(* forward copy is also right when the destination lies below).            *)

MemNext ==
    \/ \E d \in Bytes, n \in 0 .. Size :
         \/ d + n <= Size /\ memset(d, n)
         \/ \E w \in {2, 4} : d + n * w <= Size /\ memset_wide(d, n, w)
         \/ \E s \in Bytes :
              /\ d + n <= Size /\ s + n <= Size
              /\ \/ memmove(d, s, n)
                 \/ (d <= s \/ s + n <= d) /\ memcpy(d, s, n)
    \/ Top \/ Aligned \/ Rep \/ Bottom \/ Stos \/ Movsb \/ Done

(* How many bytes a call writes. *)
Extent == CASE args.routine = "memset_word"  -> 2 * args.n
            [] args.routine = "memset_dword" -> 4 * args.n
            [] OTHER                         -> args.n

(* Whatever was called before, a call that returns has written exactly the *)
(* bytes it was asked to write, for every alignment, length and overlap:   *)
(* the fill byte, or what the source held before the call.                 *)
MemoryRight ==
    at = "done" =>
      mem = [b \in Bytes |->
               IF b \notin args.dest .. args.dest + Extent - 1 THEN b
               ELSE IF args.routine \in {"memcpy", "memmove"}
               THEN args.src + b - args.dest
               ELSE Fill]

=============================================================================
