------------------------------- MODULE Syserr -------------------------------
(***************************************************************************)
(* The repository's own test program for system calls, ece391syserr.c, run *)
(* by one process while the others make the calls of Calls in any order.   *)
(* Each test is a sequence of calls of which all must fail, except         *)
(* err_open_lots: it opens the directory once too often, and exactly one   *)
(* of its opens must fail.                                                 *)
(***************************************************************************)
EXTENDS Files

CONSTANTS
    Tester,         \* the process that runs syserr
    Dot, Longer, Shorter    \* the names ".", "helloo" and "shel"

ASSUME TesterAssumption == Tester \in Pids

(* The image has an entry for the directory itself, and none with the      *)
(* names that are one character too long and one too short.                *)
ASSUME NamesAssumption ==
    /\ Dot # <<>>
    /\ \E i \in DOMAIN direntries : direntries[i].filename = Dot
    /\ \A i \in DOMAIN direntries : direntries[i].filename \notin {Longer, Shorter}

VARIABLES
    test,       \* the test that runs, 0 before the first and 9 at the end
    last,       \* the last test asked for
    pc,         \* the calls of the test made so far
    cnt,        \* those that returned -1, without the closes of err_open_lots
    failed      \* the tests that printed FAIL

script == <<test, last, pc, cnt, failed>>

Call(type, fd, name, where) ==
    [type |-> type, fd |-> fd, buf |-> TRUE, nbytes |-> 31, name |-> name,
     where |-> where]
OnFd(type, fd)   == Call(type, fd, <<>>, "user")
OpenCall(name)   == Call(SYSC_OPEN, 0, name, "user")
VidmapCall(at)   == Call(SYSC_VIDMAP, 0, <<>>, at)

ReadWriteClose(fd) == <<OnFd(SYSC_READ, fd), OnFd(SYSC_WRITE, fd), OnFd(SYSC_CLOSE, fd)>>

NEG_FD == -FD_CNT - 1
BIG_FD == FD_CNT + 1

err_neg_fd    == ReadWriteClose(NEG_FD)
err_big_fd    == ReadWriteClose(BIG_FD)
err_open_lots == [i \in 1 .. FD_CNT - 1 |-> OpenCall(Dot)]
                 \o [i \in 1 .. FD_CNT - 2 |-> OnFd(SYSC_CLOSE, i + 1)]
err_open      == <<OpenCall(Longer), OpenCall(Shorter), OpenCall(<<>>)>>
err_unopened  == [i \in 1 .. FD_CNT |-> OnFd(SYSC_CLOSE, i - 1)]
                 \o [i \in 1 .. FD_CNT - 2 |-> OnFd(SYSC_READ, i + 1)]
                 \o [i \in 1 .. FD_CNT - 2 |-> OnFd(SYSC_WRITE, i + 1)]
err_vidmap    == <<VidmapCall("NULL"), VidmapCall("kernel")>>
err_stdin_out == <<OnFd(SYSC_WRITE, 0), OnFd(SYSC_READ, 1)>>
err_syscall_num == <<OnFd(SYSC_SIGRETURN + 1, 0), OnFd(-1, 0), OnFd(0, 0)>>

Tests == <<err_neg_fd, err_big_fd, err_open_lots, err_open, err_unopened,
           err_vidmap, err_stdin_out, err_syscall_num>>

(* What main does with the number it reads: 0 runs all tests, 1 to 8 one   *)
(* of them, and anything else none.                                        *)
Select ==
    /\ test = 0 /\ Tester \in alive
    /\ \E select \in 0 .. 9 :
           /\ test' = IF select = 0 THEN 1 ELSE select
           /\ last' = IF select = 0 THEN 8 ELSE select
    /\ UNCHANGED <<pc, cnt, failed, vars>>

(* One call of the test that runs. *)
MakeCall ==
    /\ test \in 1 .. 8 /\ pc < Len(Tests[test])
    /\ irqh_syscall(Tester, Tests[test][pc + 1])
    /\ pc' = pc + 1
    /\ cnt' = IF ret' = -1 /\ ~(test = 3 /\ pc >= FD_CNT - 1)
              THEN cnt + 1 ELSE cnt
    /\ UNCHANGED <<test, last, failed>>

(* The end of a test: PASS or FAIL, and on to the next one. *)
Passed == cnt = IF test = 3 THEN 1 ELSE Len(Tests[test])
EndTest ==
    /\ test \in 1 .. 8 /\ pc = Len(Tests[test])
    /\ failed' = IF Passed THEN failed ELSE failed \cup {test}
    /\ test' = IF test = last THEN 9 ELSE test + 1
    /\ pc' = 0 /\ cnt' = 0
    /\ UNCHANGED <<last, vars>>

(* The program returns; its process can be used for another run. *)
Finish ==
    /\ test = 9 /\ Tester \in alive
    /\ irqh_syscall(Tester, OnFd(SYSC_HALT, 0))
    /\ test' = 0 /\ last' = 0
    /\ UNCHANGED <<pc, cnt, failed>>

SysInit == Init /\ test = 0 /\ last = 0 /\ pc = 0 /\ cnt = 0 /\ failed = {}

SysNext ==
    \/ Select \/ MakeCall \/ EndTest \/ Finish
    \/ Execute(Tester) /\ UNCHANGED script
    \/ \E p \in Pids \ {Tester} : Step(p) /\ UNCHANGED script

SysSpec == SysInit /\ [][SysNext]_<<vars, script>>

(* The test program reports no failure, whatever the other processes do:   *)
(* descriptors that are negative, too large or not open, names that are    *)
(* nearly right, the wrong direction of a terminal, addresses of the       *)
(* kernel and numbers that are no system call are refused, and exactly     *)
(* FD_CNT - 2 files can be open.                                           *)
SyserrPasses == failed = {}
=============================================================================
