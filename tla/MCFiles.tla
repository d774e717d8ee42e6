------------------------------ MODULE MCFiles ------------------------------
(***************************************************************************)
(* An image with a directory, a file of four bytes that fills its two      *)
(* blocks exactly, a clock and a file of one block with no block in the    *)
(* slot behind, with blocks of two bytes, names of up to two characters    *)
(* and an inode more than there are entries; four descriptors per process. *)
(***************************************************************************)
EXTENDS Syserr, TLC

Entry(n, t, i) == [filename |-> n, filetype |-> t, inode_idx |-> i]
MCDot == <<1>>
MCDirentries == 0 :> Entry(MCDot, "dir", 0) @@ 1 :> Entry(<<2, 3>>, "reg", 1)
             @@ 2 :> Entry(<<4>>, "rtc", 0) @@ 3 :> Entry(<<5>>, "reg", 2)
             @@ 4 :> Entry(<<>>, "rtc", 0)
Inode(s, b, c) == [size |-> s, data |-> 0 :> b @@ 1 :> c @@ 2 :> 0]
MCInodes == [i \in 0 .. 5 |-> IF i = 1 THEN Inode(4, 2, 1)
                             ELSE IF i = 2 THEN Inode(2, 0, 3) ELSE Inode(0, 0, 0)]
MCDatablks == 0 :> (0 :> 5 @@ 1 :> 6) @@ 1 :> (0 :> 7 @@ 1 :> 8)
           @@ 2 :> (0 :> 9 @@ 1 :> 4)
MCStats == [direntry_cnt |-> 4, inode_cnt |-> 6, datablk_cnt |-> 3]

ReadCall(fd, n) == [OnFd(SYSC_READ, fd) EXCEPT !.nbytes = n]
MCCalls ==
    {OpenCall(n) : n \in {MCDot, <<2, 3>>, <<4>>, <<5>>}}
    \cup {ReadCall(0, 1), ReadCall(2, 0), ReadCall(2, 3), ReadCall(2, 9)}
    \cup {[OnFd(SYSC_WRITE, fd) EXCEPT !.nbytes = 4] : fd \in {1, 2}}
    \cup {OnFd(SYSC_CLOSE, fd) : fd \in {2, 3}}
    \cup {VidmapCall("user"), OnFd(SYSC_HALT, 0)}
MCLonger  == <<4, 4>>
MCShorter == <<2>>
=============================================================================
