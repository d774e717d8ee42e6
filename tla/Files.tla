------------------------------- MODULE Files -------------------------------
(***************************************************************************)
(* System calls on files: the dispatch of irqh_syscall, the descriptor     *)
(* tables of syscall.c and the read-only file system of fs.c underneath.   *)
(* Each process belongs to a terminal of its own; the scheduler lets them  *)
(* run in turn.                                                            *)
(*                                                                         *)
(* A system call runs with interrupts off and is one action, except read:  *)
(* it turns interrupts on before it looks at the jump table.  All a file   *)
(* read touches is the process's own, but a directory read increments a    *)
(* counter that every process shares, in a load and a store.               *)
(*                                                                         *)
(* set_handler and sigreturn stop the machine and are left out; execute    *)
(* is here the preparation of the descriptors of a new process, vidmap the *)
(* test of its argument.  File names are sequences of characters.          *)
(***************************************************************************)
EXTENDS Integers, Sequences, FiniteSets

CONSTANTS
    Pids,                   \* processes that run side by side
    FD_CNT,                 \* 8
    FS_MAX_DIR_ENTRIES,     \* 63
    FS_FNAME_LEN,           \* 32
    FS_BLK_SIZE,            \* 4096
    direntries, inodes, datablks, fs_stats,     \* the file system image
    Calls,                  \* the system calls programs make
    MAX_READS               \* bound: reads of a directory since it was opened

FD_START == 2
NULL     == -1
Fds      == 0 .. FD_CNT - 1
Types    == {"rtc", "dir", "reg"}

ASSUME FdAssumption == FD_CNT \in Nat /\ FD_CNT > FD_START
ASSUME SizeAssumption ==
    /\ FS_MAX_DIR_ENTRIES \in Nat \ {0} /\ FS_FNAME_LEN \in Nat
    /\ FS_BLK_SIZE \in Nat \ {0} /\ MAX_READS \in Nat
ASSUME PidAssumption  == Pids \subseteq Nat
ASSUME CallAssumption == \A c \in Calls : c.fd \in Int /\ c.nbytes \in Int

(***************************************************************************)
(* What the code takes for granted of the image: there are fewer entries   *)
(* than the boot block has room for, which is all that open_fs checks      *)
(* (fs.c:25), an inode for each of them, the entries that are not used     *)
(* have no name, and the blocks an inode lists for its bytes are blocks of *)
(* the image.  The slot behind them may hold any number.  The name at an   *)
(* index past the entries is taken from the first inode (fs.c:193): it is  *)
(* empty, as no index is more than one past and that inode has size zero.  *)
(* Bytes are not negative.                                                 *)
(***************************************************************************)
ASSUME ImageAssumption ==
    /\ fs_stats.direntry_cnt \in 0 .. FS_MAX_DIR_ENTRIES - 1
    /\ fs_stats.inode_cnt \in Nat /\ fs_stats.inode_cnt >= fs_stats.direntry_cnt
    /\ fs_stats.inode_cnt <= FS_MAX_DIR_ENTRIES + 1 /\ inodes[0].size = 0
    /\ direntries \in [0 .. FS_MAX_DIR_ENTRIES - 1 ->
           [filename : Seq(Nat), filetype : Types, inode_idx : Nat]]
    /\ \A i \in 0 .. FS_MAX_DIR_ENTRIES - 1 :
           /\ direntries[i].inode_idx < fs_stats.inode_cnt
           /\ Len(direntries[i].filename) <= FS_FNAME_LEN
           /\ direntries[i].filename = <<>> <=> i >= fs_stats.direntry_cnt
    /\ \A i \in 0 .. fs_stats.inode_cnt - 1 :
           /\ inodes[i].size \in Nat
           /\ \A b \in 0 .. inodes[i].size \div FS_BLK_SIZE :
                  /\ inodes[i].data[b] \in Nat
                  /\ b * FS_BLK_SIZE < inodes[i].size =>
                         inodes[i].data[b] < fs_stats.datablk_cnt
    /\ fs_stats.datablk_cnt \in Nat
    /\ \A b \in 0 .. fs_stats.datablk_cnt - 1, k \in 0 .. FS_BLK_SIZE - 1 :
           datablks[b][k] \in Nat

VARIABLES
    alive,          \* the processes that run
    fds,            \* the descriptors in the PCB of each process
    dir_read_count,
    reading,        \* the directory read of each process, between load and store
    ret,            \* what the last system call returned
    got,            \* history: the bytes read through each descriptor
    alone,          \* history: who opened the directory, if no other process
                    \* has used it since, or NULL
    listed          \* history: the entries that process has read

file == <<alive, fds>>
dir  == <<dir_read_count, reading, listed, alone>>
vars == <<file, dir, ret, got>>

Unused == [jumptable |-> "NULL", inode |-> 0, file_position |-> 0, flags |-> 0]
NoRead == [idx |-> NULL, nbytes |-> 0]

-----------------------------------------------------------------------------
(* The file system. *)

(* Mutant: a prefix of a name is enough. *)
ByPrefix(name) ==
    LET found == {i \in 0 .. FS_MAX_DIR_ENTRIES - 1 :
                     /\ Len(name) <= Len(direntries[i].filename)
                     /\ name = SubSeq(direntries[i].filename, 1, Len(name))}
    IN  IF found = {} THEN NULL
        ELSE CHOOSE i \in found : \A j \in found : i <= j

(* The first entry of that name, or NULL.  All entries are looked at, the  *)
(* unused ones too.                                                        *)
read_dentry_by_name(name) ==
    LET found == {i \in 0 .. FS_MAX_DIR_ENTRIES - 1 :
                     /\ Len(name) <= FS_FNAME_LEN
                     /\ name = direntries[i].filename}
    IN  IF found = {} THEN NULL
        ELSE CHOOSE i \in found : \A j \in found : i <= j

(* The name at an index below inode_cnt.  Past the entries lies the first  *)
(* inode, whose size of zero makes an empty name (ImageAssumption).        *)
read_dentry_by_index(idx) ==
    IF idx < FS_MAX_DIR_ENTRIES THEN direntries[idx].filename ELSE <<>>

Error == <<NULL>>

(* Mutant: the offset into the block is not reset. *)
CopyLate(inode, offset, length) ==
    LET n == inodes[inode]
        Copy[reads \in 0 .. length] ==
            LET at == offset + reads
            IN  IF reads = length \/ at >= n.size THEN <<>>
                ELSE <<datablks[n.data[at \div FS_BLK_SIZE]]
                               [IF at < FS_BLK_SIZE THEN at
                                ELSE FS_BLK_SIZE - 1]>> \o Copy[reads + 1]
    IN  Copy[0]
(* Mutant: a read ends with the block. *)
CopyBlock(inode, offset, length) ==
    LET n == inodes[inode]
        Copy[reads \in 0 .. length] ==
            LET at == offset + reads
            IN  IF reads = length \/ at >= n.size
                   \/ (reads > 0 /\ at % FS_BLK_SIZE = 0) THEN <<>>
                ELSE <<datablks[n.data[at \div FS_BLK_SIZE]][at % FS_BLK_SIZE]>>
                         \o Copy[reads + 1]
    IN  Copy[0]
(* The loop of read_data, which goes on until length bytes are read or the *)
(* file ends.  At the end of a block it looks up the next one even if it   *)
(* is not going to read it, and fails if that is not a block.              *)
CopyBytes(inode, offset, length) ==
    LET n == inodes[inode]
        Copy[reads \in 0 .. length] ==
            LET at   == offset + reads
                byte == datablks[n.data[at \div FS_BLK_SIZE]][at % FS_BLK_SIZE]
            IN  IF reads = length \/ at >= n.size THEN <<>>
                ELSE IF /\ (at + 1) % FS_BLK_SIZE = 0
                        /\ n.data[(at + 1) \div FS_BLK_SIZE] >= fs_stats.datablk_cnt
                THEN Error
                ELSE IF Copy[reads + 1] = Error THEN Error
                ELSE <<byte>> \o Copy[reads + 1]
    IN  Copy[0]

(* The bytes read, or Error.  The end of the request is compared with the  *)
(* number of directory entries times the block size.                       *)
read_data(inode, offset, length) ==
    IF inode >= fs_stats.inode_cnt THEN Error
    ELSE IF offset >= inodes[inode].size THEN <<>>
    ELSE IF offset + length >= fs_stats.direntry_cnt * FS_BLK_SIZE THEN Error
    ELSE IF inodes[inode].data[offset \div FS_BLK_SIZE] >= fs_stats.datablk_cnt
    THEN Error
    ELSE CopyBytes(inode, offset, length)

-----------------------------------------------------------------------------
Return(r) == ret' = r

Fail == Return(-1) /\ UNCHANGED <<file, dir, got>>

(* The descriptor can be read, written or closed. *)
InUse(p, fd) ==
    fd \in Fds /\ fds[p][fd].flags = 1 /\ fds[p][fd].jumptable # "NULL"

(* Mutant: the result is added to the position, failure or not. *)
AddAnyway(p, fd, nbytes) ==
    LET f  == fds[p][fd]
        in == read_data(f.inode, f.file_position, nbytes)
    IN  /\ fds' = [fds EXCEPT ![p][fd].file_position =
                                 IF in = Error THEN @ - 1 ELSE @ + Len(in)]
        /\ Return(0)
        /\ UNCHANGED <<alive, dir, got>>
(* file_read: no bytes asked for means all there are. *)
file_read(p, fd, nbytes) ==
    LET f   == fds[p][fd]
        len == IF nbytes = 0 THEN inodes[f.inode].size ELSE nbytes
        in  == read_data(f.inode, f.file_position, len)
    IN  IF in = Error THEN Fail
        ELSE /\ fds' = [fds EXCEPT ![p][fd].file_position = @ + Len(in)]
             /\ got' = [got EXCEPT ![p][fd] = @ \o in]
             /\ Return(Len(in))
             /\ UNCHANGED <<alive, dir>>

(* Process p reads the directory and gets more entries. *)
Touch(p, more) ==
    /\ alone' = IF alone = p THEN p ELSE NULL
    /\ listed' = IF alone = p THEN listed \o more ELSE <<>>

(* dir_read, first the load of the counter ... *)
DirLoad(p, nbytes) ==
    /\ dir_read_count < MAX_READS
    /\ reading' = [reading EXCEPT ![p] = [idx |-> dir_read_count, nbytes |-> nbytes]]
    /\ Touch(p, <<>>)
    /\ UNCHANGED <<file, dir_read_count, ret, got>>

(* Mutant: the counter is not advanced past the last entry. *)
StoreSame(p) == dir_read_count' = IF reading[p].idx + 1 = fs_stats.direntry_cnt
                                  THEN reading[p].idx ELSE reading[p].idx + 1
Advance(p) == dir_read_count' = reading[p].idx + 1

Least(a, b) == IF a < b THEN a ELSE b

(* ... then the store, and the name at the index that was loaded.  Past    *)
(* the last index the result is 0, whatever is copied.                     *)
DirStore(p) ==
    LET idx  == reading[p].idx
        name == read_dentry_by_index(idx)
        more == idx < fs_stats.inode_cnt
    IN  /\ idx # NULL
        /\ Advance(p)
        /\ reading' = [reading EXCEPT ![p] = NoRead]
        /\ Return(IF more THEN Least(Least(reading[p].nbytes, FS_FNAME_LEN), Len(name))
                  ELSE 0)
        /\ Touch(p, IF more /\ name # <<>> THEN <<name>> ELSE <<>>)
        /\ UNCHANGED <<file, got>>

-----------------------------------------------------------------------------
(* The system calls.  The line that terminal_read returns (module          *)
(* LineDiscipline) has at least a newline.                                 *)
Read(p, c) ==
    LET ops == fds[p][c.fd].jumptable
    IN  IF ~c.buf \/ c.nbytes < 0 \/ ~InUse(p, c.fd) THEN Fail
        ELSE \/ /\ ops = "std_in_fops"
                /\ \/ c.nbytes = 0 /\ Fail
                   \/ /\ \E n \in 1 .. c.nbytes : Return(n)
                      /\ UNCHANGED <<file, dir, got>>
             \/ ops = "std_out_fops" /\ Fail
             \/ ops = "rtc_fops" /\ Return(0) /\ UNCHANGED <<file, dir, got>>
             \/ ops = "fs_fops" /\ file_read(p, c.fd, c.nbytes)
             \/ ops = "dir_fops" /\ DirLoad(p, c.nbytes)

(* Only the screen and the clock can be written; the clock takes a number  *)
(* of four bytes that is a frequency, or not (module Rtc).                 *)
Write(p, c) ==
    LET ops == fds[p][c.fd].jumptable
    IN  IF ~c.buf \/ c.nbytes < 0 \/ ~InUse(p, c.fd) THEN Fail
        ELSE \/ /\ ops = "std_out_fops" /\ c.nbytes > 0
                /\ Return(c.nbytes)
                /\ UNCHANGED <<file, dir, got>>
             \/ /\ ops = "rtc_fops" /\ c.nbytes = 4
                /\ Return(4)
                /\ UNCHANGED <<file, dir, got>>
             \/ ~(ops = "std_out_fops" /\ c.nbytes > 0) /\ Fail

Jumptable(type) == CASE type = "rtc" -> "rtc_fops"
                     [] type = "dir" -> "dir_fops"
                     [] type = "reg" -> "fs_fops"

Free(p) == {fd \in Fds : fd >= 2 /\ fds[p][fd].flags = 0}

Opened(e) ==
    [jumptable |-> Jumptable(e.filetype), flags |-> 1, file_position |-> 0,
     inode |-> IF e.filetype = "reg" THEN e.inode_idx ELSE 0]

(* The lowest free descriptor.  dir_open sets the shared counter to zero;  *)
(* no open function fails.                                                 *)
Open(p, c) ==
    LET i  == read_dentry_by_name(c.name)
        e  == direntries[i]
        fd == CHOOSE f \in Free(p) : \A g \in Free(p) : f <= g
    IN  IF c.name = <<>> \/ i = NULL \/ Free(p) = {} THEN Fail
        ELSE /\ fds' = [fds EXCEPT ![p][fd] = Opened(e)]
             /\ got' = [got EXCEPT ![p][fd] = <<>>]
             /\ Return(fd)
             /\ IF e.filetype # "dir" THEN UNCHANGED dir
                ELSE /\ dir_read_count' = 0
                     /\ alone' = IF \A q \in Pids : reading[q] = NoRead
                                 THEN p ELSE NULL
                     /\ listed' = <<>>
                     /\ UNCHANGED reading
             /\ UNCHANGED alive

(* Mutant: the flag is cleared and nothing else. *)
FlagOnly(p, fd) == [fds[p][fd] EXCEPT !.flags = 0]
Closed(p, fd) == Unused

Close(p, c) ==
    IF c.fd \notin FD_START .. FD_CNT - 1 \/ ~InUse(p, c.fd) THEN Fail
    ELSE /\ fds' = [fds EXCEPT ![p][c.fd] = Closed(p, c.fd)]
         /\ got' = [got EXCEPT ![p][c.fd] = <<>>]
         /\ Return(0)
         /\ UNCHANGED <<alive, dir>>

(* An address below 8 MB is NULL or the kernel's. *)
Vidmap(p, c) ==
    \/ c.where # "user" /\ Fail
    \/ c.where = "user" /\ Return(0) /\ UNCHANGED <<file, dir, got>>

(* The process ends and its descriptors are closed. *)
Halt(p) ==
    /\ fds' = [fds EXCEPT ![p] = [fd \in Fds |->
                   IF fd >= FD_START /\ InUse(p, fd) THEN Closed(p, fd)
                   ELSE fds[p][fd]]]
    /\ alive' = alive \ {p}
    /\ got' = [got EXCEPT ![p] = [i \in Fds |-> <<>>]]
    /\ alone' = IF alone = p THEN NULL ELSE alone
    /\ listed' = IF alone = p THEN <<>> ELSE listed
    /\ UNCHANGED <<dir_read_count, reading, ret>>

SYSC_HALT   == 1
SYSC_READ   == 3
SYSC_WRITE  == 4
SYSC_OPEN   == 5
SYSC_CLOSE  == 6
SYSC_VIDMAP == 8
SYSC_SIGRETURN == 10

(* int 0x80 in process p. *)
irqh_syscall(p, c) ==
    /\ p \in alive /\ reading[p] = NoRead
    /\ \/ ~(c.type \in 1 .. SYSC_SIGRETURN) /\ Fail
       \/ c.type = SYSC_HALT /\ Halt(p)
       \/ c.type = SYSC_READ /\ Read(p, c)
       \/ c.type = SYSC_WRITE /\ Write(p, c)
       \/ c.type = SYSC_OPEN /\ Open(p, c)
       \/ c.type = SYSC_CLOSE /\ Close(p, c)
       \/ c.type = SYSC_VIDMAP /\ Vidmap(p, c)

(* execute prepares the descriptors of a new process: standard input and   *)
(* output, and the others not in use.                                      *)
Std(i) == [Unused EXCEPT !.flags = 1,
                         !.jumptable = IF i = 0 THEN "std_in_fops" ELSE "std_out_fops"]
Execute(p) ==
    /\ p \notin alive
    /\ alive' = alive \cup {p}
    /\ fds' = [fds EXCEPT ![p] = [i \in Fds |-> IF i < FD_START THEN Std(i) ELSE Unused]]
    /\ UNCHANGED <<dir, got, ret>>

Init ==
    /\ alive = {}
    /\ fds = [p \in Pids |-> [i \in Fds |-> Unused]]
    /\ dir_read_count = 0
    /\ reading = [p \in Pids |-> NoRead]
    /\ ret = 0
    /\ got = [p \in Pids |-> [i \in Fds |-> <<>>]]
    /\ alone = NULL
    /\ listed = <<>>

Step(p) == Execute(p) \/ DirStore(p) \/ \E c \in Calls : irqh_syscall(p, c)

Next == \E p \in Pids : Step(p)

Spec == Init /\ [][Next]_vars

-----------------------------------------------------------------------------
Jumptables == {"NULL", "std_in_fops", "std_out_fops", "rtc_fops", "dir_fops", "fs_fops"}

TypeOK ==
    /\ alive \subseteq Pids
    /\ fds \in [Pids -> [Fds -> [jumptable : Jumptables, inode : Nat,
                                file_position : Nat, flags : {0, 1}]]]
    /\ dir_read_count \in Nat
    /\ reading \in [Pids -> [idx : Nat \cup {NULL}, nbytes : Int]]
    /\ ret \in Int

(* A descriptor that is not in use holds nothing of the file it was open   *)
(* for, a used one has its operations and an inode of the image, and       *)
(* descriptors 0 and 1 of a process are its terminal for as long as it     *)
(* lives: no order of open, close, halt and execute breaks the table.      *)
CleanTable ==
    \A p \in Pids :
        /\ p \in alive => fds[p][0] = Std(0) /\ fds[p][1] = Std(1)
        /\ \A fd \in Fds :
               /\ fds[p][fd].flags = 0 => fds[p][fd] = Unused
               /\ fds[p][fd].flags = 1 => fds[p][fd].jumptable # "NULL"
               /\ fds[p][fd].inode < fs_stats.inode_cnt
               /\ fd >= FD_START => fds[p][fd].jumptable \notin
                                         {"std_in_fops", "std_out_fops"}
               /\ p \notin alive /\ fd >= FD_START => fds[p][fd] = Unused

(* The bytes of a file in order, from the image. *)
Content(i) == [k \in 1 .. inodes[i].size |->
    datablks[inodes[i].data[(k - 1) \div FS_BLK_SIZE]][(k - 1) % FS_BLK_SIZE]]

(* What a process has read through a descriptor since it opened the file   *)
(* is the file up to file_position, however the reads were cut and         *)
(* whatever else the process and the others did in between.                *)
SequentialRead ==
    \A p \in alive, fd \in Fds :
        fds[p][fd].jumptable = "fs_fops" =>
            got[p][fd] = SubSeq(Content(fds[p][fd].inode), 1, fds[p][fd].file_position)

(* The read goes to the end of a file that fills its last block, and the   *)
(* slot behind is no block of the image.                                   *)
Stumbles(inode, offset, length) ==
    LET n == inodes[inode]
    IN  /\ offset < n.size /\ offset + length >= n.size
        /\ n.size % FS_BLK_SIZE = 0
        /\ n.data[n.size \div FS_BLK_SIZE] >= fs_stats.datablk_cnt

(* A read that stays in the span read_data accepts returns as many bytes   *)
(* as were asked for, or all that are left of the file: it is short only   *)
(* at the end, and fails at a block boundary only if it is the last one    *)
(* and the slot behind it is not a block, which nobody is going to read    *)
(* (fs.c:255).                                                             *)
ReadsAll ==
    [][\A p \in Pids, c \in Calls :
          LET f    == fds[p][c.fd]
              size == inodes[f.inode].size
          IN  /\ c.type = SYSC_READ /\ c.buf /\ c.nbytes > 0
              /\ InUse(p, c.fd) /\ f.jumptable = "fs_fops"
              /\ f.file_position + c.nbytes < fs_stats.direntry_cnt * FS_BLK_SIZE
              /\ irqh_syscall(p, c)
              => ret' = IF Stumbles(f.inode, f.file_position, c.nbytes) THEN -1
                        ELSE Least(c.nbytes, size - f.file_position)]_vars

(* A process that is the only one to use the directory since it opened it  *)
(* gets every entry once and in order.  dir_read_count belongs to no       *)
(* process: once another opens or reads the directory, nothing is promised *)
(* to either.                                                              *)
ListingComplete ==
    alone \in Pids /\ reading[alone] = NoRead =>
        listed = [i \in 1 .. Least(dir_read_count, fs_stats.direntry_cnt) |->
                     direntries[i - 1].filename]
=============================================================================
