----------------------------- MODULE LineEditor -----------------------------
(***************************************************************************)
(* What reading from a terminal promises: while a program reads, the keys  *)
(* typed on its terminal build up one line, which backspace takes back     *)
(* from its end and a newline completes.  The program is handed a complete *)
(* line, cut off at the size it asked for, and each read starts with an    *)
(* empty one.                                                              *)
(***************************************************************************)
EXTENDS Naturals, Sequences

CONSTANTS Term, Letter, Newline, Capacity, Size

VARIABLES
    line,   \* the line of each terminal, as far as it was typed
    want,   \* how many bytes its program asked for; 0 when it does not read
    got     \* what its last read gave, and <<>> until it is complete

vars == <<line, want, got>>

Complete(t) == line[t] # <<>> /\ line[t][Len(line[t])] = Newline

Cut(s, n) == SubSeq(s, 1, IF n < Len(s) THEN n ELSE Len(s))

Init ==
    /\ line = [t \in Term |-> <<>>]
    /\ want = [t \in Term |-> 0]
    /\ got  = [t \in Term |-> <<>>]

Read(t, n) ==
    /\ want[t] = 0 /\ line[t] = <<>>
    /\ want' = [want EXCEPT ![t] = n]
    /\ got'  = [got EXCEPT ![t] = <<>>]
    /\ UNCHANGED line

(* The last place of the line is kept for the newline. *)
Type(t, c) ==
    /\ want[t] # 0 /\ ~Complete(t)
    /\ c = Newline \/ Len(line[t]) < Capacity - 1
    /\ line' = [line EXCEPT ![t] = Append(@, c)]
    /\ UNCHANGED <<want, got>>

Erase(t) ==
    /\ want[t] # 0 /\ ~Complete(t) /\ line[t] # <<>>
    /\ line' = [line EXCEPT ![t] = SubSeq(@, 1, Len(@) - 1)]
    /\ UNCHANGED <<want, got>>

Take(t) ==
    /\ Complete(t) /\ got[t] = <<>>
    /\ got' = [got EXCEPT ![t] = Cut(line[t], want[t])]
    /\ UNCHANGED <<line, want>>

Finish(t) ==
    /\ got[t] # <<>> /\ want[t] # 0
    /\ line' = [line EXCEPT ![t] = <<>>]
    /\ want' = [want EXCEPT ![t] = 0]
    /\ UNCHANGED got

Next ==
    \E t \in Term :
      \/ \E n \in Size : Read(t, n)
      \/ \E c \in Letter \cup {Newline} : Type(t, c)
      \/ Erase(t) \/ Take(t) \/ Finish(t)

Spec == Init /\ [][Next]_vars

=============================================================================
