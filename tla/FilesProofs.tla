---------------------------- MODULE FilesProofs -----------------------------
(***************************************************************************)
(* Proofs about Files, for any image that ImageAssumption describes, any   *)
(* number of processes and any system calls, and about the test program    *)
(* Syserr.                                                                 *)
(***************************************************************************)
EXTENDS Syserr, SequenceTheorems, WellFoundedInduction, TLAPS

-----------------------------------------------------------------------------
(* Induction and division *)

(* Numbers are well ordered.  Proofs by induction take the least           *)
(* counterexample.                                                         *)
LEMMA LeastElement ==
  ASSUME NEW S \in SUBSET Nat, S # {}
  PROVE  \E n \in S : \A m \in S : n <= m
  <1> DEFINE R == OpToRel(<, Nat)
  <1>1. IsWellFoundedOn(R, Nat)
    BY NatLessThanWellFounded, Zenon
  <1> HIDE DEF R
  <1>2. PICK x \in S : \A y \in S : ~(<<y, x>> \in R)
    BY <1>1, WFMin
  <1>3. ASSUME NEW y \in S, ~(x <= y)
        PROVE  FALSE
    <2>1. <<y, x>> \in Nat \X Nat /\ y < x
      BY <1>3
    <2>2. <<y, x>> \in R
      BY <2>1 DEF R, OpToRel
    <2>3. QED
      BY <1>2, <2>2
  <1>4. QED
    BY <1>3

(* A number consists of whole blocks and a rest. *)
LEMMA Division ==
  ASSUME NEW n \in Nat \ {0}, NEW a \in Nat
  PROVE  /\ a \div n \in Nat /\ a % n \in 0 .. n - 1
         /\ a = n * (a \div n) + (a % n)
  OBVIOUS

(* More bytes do not need fewer blocks. *)
LEMMA DivisionGrows ==
  ASSUME NEW n \in Nat \ {0}, NEW a \in Nat, NEW b \in Nat, a <= b
  PROVE  a \div n <= b \div n
  <1>1. PICK q \in Nat, r \in 0 .. n - 1 : q = a \div n /\ a = n * q + r
    BY Division
  <1>2. PICK w \in Nat, s \in 0 .. n - 1 : w = b \div n /\ b = n * w + s
    BY Division
  <1>3. ASSUME w < q
        PROVE  FALSE
    <2>1. PICK k \in Nat : q = w + 1 + k
      <3>1. q - w - 1 \in Nat /\ q = w + 1 + (q - w - 1)
        BY <1>3
      <3>2. QED
        BY <3>1
    <2>2. n * q = n * w + n + n * k /\ n * k \in Nat /\ n * w \in Nat /\ n * q \in Nat
      BY <2>1
    <2>3. QED
      BY <1>1, <1>2, <2>2
  <1>4. QED
    BY <1>1, <1>2, <1>3

-----------------------------------------------------------------------------
(* What the loop of read_data computes *)

InodeIndices == 0 .. fs_stats.inode_cnt - 1

Byte(n, at) == datablks[n.data[at \div FS_BLK_SIZE]][at % FS_BLK_SIZE]

(* One turn of the loop, if f is the rest of it. *)
Turn(n, offset, length, f) ==
    [reads \in 0 .. length |->
       IF reads = length \/ offset + reads >= n.size THEN <<>>
       ELSE IF /\ (offset + reads + 1) % FS_BLK_SIZE = 0
               /\ n.data[(offset + reads + 1) \div FS_BLK_SIZE] >= fs_stats.datablk_cnt
       THEN Error
       ELSE IF f[reads + 1] = Error THEN Error
       ELSE <<Byte(n, offset + reads)>> \o f[reads + 1]]

LEMMA CopyIsLoop ==
  ASSUME NEW inode, NEW offset, NEW length
  PROVE  CopyBytes(inode, offset, length) =
           (CHOOSE f : f = Turn(inodes[inode], offset, length, f))[0]
  BY DEF CopyBytes, Turn, Byte

(* The bytes of a file from a position on, length of them or up to its end. *)
Count(n, at, length) == IF at >= n.size THEN 0 ELSE Least(length, n.size - at)
Segment(n, at, length) == [i \in 1 .. Count(n, at, length) |-> Byte(n, at + i - 1)]

(* What is used of the image, for the inode of a file. *)
LEMMA InodeFacts ==
  ASSUME NEW i \in InodeIndices
  PROVE  /\ inodes[i].size \in Nat
         /\ \A b \in 0 .. inodes[i].size \div FS_BLK_SIZE :
                /\ inodes[i].data[b] \in Nat
                /\ b * FS_BLK_SIZE < inodes[i].size =>
                       inodes[i].data[b] < fs_stats.datablk_cnt
  BY ImageAssumption, Zenon DEF InodeIndices

LEMMA BlockFacts ==
  /\ FS_BLK_SIZE \in Nat \ {0} /\ fs_stats.datablk_cnt \in Nat
  /\ \A b \in 0 .. fs_stats.datablk_cnt - 1, k \in 0 .. FS_BLK_SIZE - 1 :
        datablks[b][k] \in Nat
  BY ImageAssumption, SizeAssumption, Zenon

LEMMA CountType ==
  ASSUME NEW i \in InodeIndices, NEW at \in Nat, NEW length \in Nat
  PROVE  /\ Count(inodes[i], at, length) \in 0 .. length
         /\ at <= inodes[i].size => at + Count(inodes[i], at, length) <= inodes[i].size
         /\ inodes[i].size \in Nat
  BY InodeFacts DEF Count, Least

LEMMA CountNone ==
  ASSUME NEW n, n.size \in Nat, NEW at \in Nat, NEW k \in Nat, k = 0 \/ at >= n.size
  PROVE  Count(n, at, k) = 0
  BY DEF Count, Least

(* Every byte of a file is in a block of the image; the slot of the byte   *)
(* behind holds a number.                                                  *)
LEMMA BlocksExist ==
  ASSUME NEW i \in InodeIndices, NEW at \in Nat, at < inodes[i].size
  PROVE  /\ Byte(inodes[i], at) \in Nat
         /\ inodes[i].data[(at + 1) \div FS_BLK_SIZE] \in Nat
         /\ inodes[i].data[at \div FS_BLK_SIZE] \in 0 .. fs_stats.datablk_cnt - 1
  <1> DEFINE size == inodes[i].size
  <1>1. /\ size \in Nat /\ FS_BLK_SIZE \in Nat \ {0} /\ at + 1 \in Nat
        /\ at <= size /\ at + 1 <= size /\ fs_stats.datablk_cnt \in Nat
    BY InodeFacts, BlockFacts
  <1>2. PICK blk \in Nat : blk = size \div FS_BLK_SIZE
    BY <1>1, Division
  <1>3. PICK b \in Nat : b = at \div FS_BLK_SIZE /\ b <= blk
    BY <1>1, <1>2, Division, DivisionGrows
  <1>4. PICK c \in Nat : c = (at + 1) \div FS_BLK_SIZE /\ c <= blk
    BY <1>1, <1>2, Division, DivisionGrows
  <1>5. PICK k \in 0 .. FS_BLK_SIZE - 1 : k = at % FS_BLK_SIZE
    BY <1>1, Division
  <1>6. \A d \in 0 .. blk :
           /\ inodes[i].data[d] \in Nat
           /\ d * FS_BLK_SIZE < size => inodes[i].data[d] < fs_stats.datablk_cnt
    BY <1>2, InodeFacts
  <1>7. b \in 0 .. blk /\ c \in 0 .. blk
    BY <1>3, <1>4
  <1>8. b * FS_BLK_SIZE < size
    <2>1. at = FS_BLK_SIZE * b + k
      BY <1>1, <1>3, <1>5, Division
    <2>2. PICK m \in Nat : m = FS_BLK_SIZE * b /\ m = b * FS_BLK_SIZE
      BY <1>1
    <2>3. QED
      BY <1>1, <2>1, <2>2
  <1>9. inodes[i].data[b] \in 0 .. fs_stats.datablk_cnt - 1 /\ inodes[i].data[c] \in Nat
    <2>1. inodes[i].data[b] \in Nat /\ inodes[i].data[c] \in Nat
      BY <1>6, <1>7
    <2>2. b * FS_BLK_SIZE < size => inodes[i].data[b] < fs_stats.datablk_cnt
      BY <1>6, <1>7, Zenon
    <2>3. inodes[i].data[b] < fs_stats.datablk_cnt
      BY <1>8, <2>2, Zenon
    <2>4. QED
      BY <1>1, <2>1, <2>3
  <1>10. datablks[inodes[i].data[b]][k] \in Nat
    BY <1>9, BlockFacts
  <1>11. QED
    BY <1>1, <1>3, <1>4, <1>5, <1>9, <1>10 DEF Byte

LEMMA SegmentType ==
  ASSUME NEW i \in InodeIndices, NEW at \in Nat, NEW length \in Nat
  PROVE  /\ Segment(inodes[i], at, length) \in Seq(Nat)
         /\ Len(Segment(inodes[i], at, length)) = Count(inodes[i], at, length)
         /\ Segment(inodes[i], at, length) # Error
  <1>1. PICK bytes \in Nat : /\ bytes = Count(inodes[i], at, length)
                             /\ bytes > 0 => at + bytes <= inodes[i].size
                             /\ inodes[i].size \in Nat
    <2>1. inodes[i].size \in Nat
      BY InodeFacts
    <2>2. QED
      BY <2>1 DEF Count, Least
  <1> DEFINE s == Segment(inodes[i], at, length)
  <1>2. s = [k \in 1 .. bytes |-> Byte(inodes[i], at + k - 1)]
    BY <1>1, Zenon DEF Segment
  <1>3. \A k \in 1 .. bytes : Byte(inodes[i], at + k - 1) \in Nat
    <2> SUFFICES ASSUME NEW k \in 1 .. bytes
                 PROVE  Byte(inodes[i], at + k - 1) \in Nat
      OBVIOUS
    <2>1. at + k - 1 \in Nat /\ at + k - 1 < inodes[i].size
      BY <1>1
    <2>2. QED
      BY <2>1, BlocksExist
  <1> HIDE DEF s
  <1>4. s \in Seq(Nat) /\ Len(s) = bytes
    BY <1>2, <1>3
  <1>5. s # Error
    <2>1. s = Error => s[1] = NULL /\ Len(s) = 1
      BY DEF Error
    <2>2. bytes = 1 => s[1] \in Nat
      BY <1>2, <1>3
    <2>3. QED
      BY <1>4, <2>1, <2>2 DEF NULL
  <1>6. QED
    BY <1>1, <1>4, <1>5 DEF s

(* A segment is its first byte and the rest. *)
LEMMA SegmentStep ==
  ASSUME NEW i \in InodeIndices, NEW at \in Nat, NEW k \in Nat, at < inodes[i].size
  PROVE  Segment(inodes[i], at, k + 1) =
           <<Byte(inodes[i], at)>> \o Segment(inodes[i], at + 1, k)
  <1> DEFINE n == inodes[i]
             s == Segment(n, at + 1, k)
  <1>1. n.size \in Nat
    BY InodeFacts
  <1>2. PICK m \in Nat : m = Count(n, at + 1, k)
    BY <1>1 DEF Count, Least
  <1>3. Count(n, at, k + 1) = m + 1
    BY <1>1, <1>2 DEF Count, Least
  <1>4. s \in Seq(Nat) /\ Len(s) = m
    <2>1. at + 1 \in Nat
      OBVIOUS
    <2>2. QED
      BY <1>2, <2>1, SegmentType
  <1>5. \A j \in 1 .. m : s[j] = Byte(n, at + 1 + j - 1)
    BY <1>2 DEF Segment
  <1> DEFINE l == Segment(n, at, k + 1)
  <1>6. l \in Seq(Nat) /\ Len(l) = m + 1
    <2>1. k + 1 \in Nat
      OBVIOUS
    <2>2. QED
      BY <1>3, <2>1, SegmentType
  <1>7. \A j \in 1 .. m + 1 : l[j] = Byte(n, at + j - 1)
    BY <1>3 DEF Segment
  <1>8. Byte(n, at) \in Nat
    BY BlocksExist
  <1> HIDE DEF n, s, l
  <1>9. /\ <<Byte(n, at)>> \o s \in Seq(Nat) /\ Len(<<Byte(n, at)>> \o s) = m + 1
        /\ \A j \in 1 .. m + 1 :
              (<<Byte(n, at)>> \o s)[j] = IF j = 1 THEN Byte(n, at) ELSE s[j - 1]
    BY <1>4, <1>8
  <1>10. \A j \in 1 .. m + 1 : l[j] = (<<Byte(n, at)>> \o s)[j]
    <2> SUFFICES ASSUME NEW j \in 1 .. m + 1
                 PROVE  l[j] = (<<Byte(n, at)>> \o s)[j]
      OBVIOUS
    <2>1. CASE j = 1
      <3>1. at + j - 1 = at
        BY <2>1
      <3>2. QED
        BY <1>7, <1>9, <2>1, <3>1
    <2>2. CASE j # 1
      <3>1. j - 1 \in 1 .. m /\ at + 1 + (j - 1) - 1 = at + j - 1
        BY <2>2
      <3>2. QED
        BY <1>5, <1>7, <1>9, <2>2, <3>1
    <2>3. QED
      BY <2>1, <2>2
  <1>11. l = <<Byte(n, at)>> \o s
    BY <1>6, <1>9, <1>10, SeqEqual
  <1>12. QED
    BY <1>11 DEF l, s, n

(* The next bytes of the file, unless the look-up behind its end fails. *)
Outcome(i, at, length) ==
    IF Stumbles(i, at, length) THEN Error ELSE Segment(inodes[i], at, length)

NoBlockAfter(i, at) ==
    /\ (at + 1) % FS_BLK_SIZE = 0
    /\ inodes[i].data[(at + 1) \div FS_BLK_SIZE] >= fs_stats.datablk_cnt

(* The outcome of nothing to read, and of one byte more. *)
LEMMA OutcomeEnd ==
  ASSUME NEW i \in InodeIndices, NEW at \in Nat, NEW k \in Nat,
         k = 0 \/ at >= inodes[i].size
  PROVE  Outcome(i, at, k) = <<>>
  <1>1. inodes[i].size \in Nat
    BY InodeFacts
  <1>2. Count(inodes[i], at, k) = 0
    BY <1>1, CountNone
  <1>3. Segment(inodes[i], at, k) = <<>>
    BY <1>2 DEF Segment
  <1>4. ~Stumbles(i, at, k)
    BY <1>1 DEF Stumbles
  <1>5. QED
    BY <1>3, <1>4 DEF Outcome

LEMMA OutcomeStep ==
  ASSUME NEW i \in InodeIndices, NEW at \in Nat, NEW k \in Nat, at < inodes[i].size
  PROVE  Outcome(i, at, k + 1) =
           IF NoBlockAfter(i, at) \/ Outcome(i, at + 1, k) = Error THEN Error
           ELSE <<Byte(inodes[i], at)>> \o Outcome(i, at + 1, k)
  <1> DEFINE n == inodes[i]
  <1>1. n.size \in Nat /\ at + 1 \in Nat /\ k + 1 \in Nat
    BY InodeFacts
  <1>2. Outcome(i, at + 1, k) = Error <=> Stumbles(i, at + 1, k)
    BY <1>1, SegmentType DEF Outcome
  <1>3. CASE at + 1 = n.size
    <2>1. Stumbles(i, at, k + 1) <=> NoBlockAfter(i, at)
      <3>1. at + (k + 1) >= n.size
        BY <1>1, <1>3
      <3>2. QED
        BY <1>3, <3>1 DEF Stumbles, NoBlockAfter
    <2>2. ~Stumbles(i, at + 1, k)
      BY <1>1, <1>3 DEF Stumbles
    <2>3. QED
      BY <1>2, <2>1, <2>2, SegmentStep DEF Outcome
  <1>4. CASE at + 1 # n.size
    <2>1. at + 1 < n.size /\ at + (k + 1) = (at + 1) + k
      BY <1>1, <1>4
    <2>2. Stumbles(i, at, k + 1) <=> Stumbles(i, at + 1, k)
      BY <2>1 DEF Stumbles
    <2>3. ~NoBlockAfter(i, at)
      <3>1. n.data[(at + 1) \div FS_BLK_SIZE] \in 0 .. fs_stats.datablk_cnt - 1
        BY <1>1, <2>1, BlocksExist
      <3>2. QED
        BY <3>1, BlockFacts DEF NoBlockAfter
    <2>4. QED
      BY <1>2, <2>2, <2>3, SegmentStep DEF Outcome
  <1>5. QED
    BY <1>3, <1>4

(* The outcomes satisfy the equation of the loop ... *)
LEMMA LoopHasSolution ==
  ASSUME NEW i \in InodeIndices, NEW offset \in Nat, NEW length \in Nat
  PROVE  \E f : f = Turn(inodes[i], offset, length, f)
  <1> DEFINE n == inodes[i]
             g == [r \in 0 .. length |-> Outcome(i, offset + r, length - r)]
  <1>1. n.size \in Nat
    BY InodeFacts
  <1>2. ASSUME NEW r \in 0 .. length
        PROVE  g[r] = Turn(n, offset, length, g)[r]
    <2>1. CASE r = length \/ offset + r >= n.size
      <3>1. Turn(n, offset, length, g)[r] = <<>>
        BY <2>1 DEF Turn
      <3>2. offset + r \in Nat /\ length - r \in Nat /\ (length - r = 0 \/ offset + r >= n.size)
        BY <1>1, <2>1
      <3>3. g[r] = <<>>
        BY <3>2, OutcomeEnd
      <3>4. QED
        BY <3>1, <3>3
    <2>2. CASE ~(r = length \/ offset + r >= n.size)
      <3>1. /\ offset + r \in Nat /\ offset + r < n.size /\ length - (r + 1) \in Nat
            /\ r + 1 \in 0 .. length /\ offset + (r + 1) \in Nat
            /\ length - r = (length - (r + 1)) + 1
            /\ offset + (r + 1) = (offset + r) + 1
        BY <1>1, <2>2
      <3>2. g[r + 1] = Outcome(i, (offset + r) + 1, length - (r + 1))
        BY <3>1
      <3>3. g[r] = Outcome(i, offset + r, (length - (r + 1)) + 1)
        BY <3>1
      <3>4. Turn(n, offset, length, g)[r] =
              IF NoBlockAfter(i, offset + r) \/ g[r + 1] = Error THEN Error
              ELSE <<Byte(n, offset + r)>> \o g[r + 1]
        BY <2>2 DEF Turn, NoBlockAfter
      <3> HIDE DEF g
      <3>5. QED
        BY <3>1, <3>2, <3>3, <3>4, OutcomeStep
    <2>3. QED
      BY <2>1, <2>2
  <1>3. g = Turn(n, offset, length, g)
    BY <1>2 DEF Turn
  <1>4. QED
    BY <1>3

(* ... and nothing else does: by induction on the bytes still to be read.  *)
LEMMA LoopUnique ==
  ASSUME NEW i \in InodeIndices, NEW offset \in Nat, NEW length \in Nat,
         NEW f, f = Turn(inodes[i], offset, length, f)
  PROVE  f[0] = Outcome(i, offset, length)
  <1> DEFINE n == inodes[i]
             S == {k \in 0 .. length : f[length - k] # Outcome(i, offset + (length - k), k)}
  <1>1. n.size \in Nat
    BY InodeFacts
  <1>2. SUFFICES ASSUME S # {} PROVE FALSE
    <2>1. length \notin S /\ length - length = 0 /\ length \in 0 .. length
          /\ offset + 0 = offset
      BY <1>2
    <2>2. QED
      BY <2>1
  <1>3. S \in SUBSET Nat
    OBVIOUS
  <1>4. PICK k \in S : \A m \in S : k <= m
    BY <1>2, <1>3, LeastElement
  <1>5. PICK r \in 0 .. length : r = length - k /\ k = length - r
    BY <1>4
  <1>6. f[r] # Outcome(i, offset + r, k)
    BY <1>4, <1>5
  <1>7. f[r] = Turn(n, offset, length, f)[r]
    OBVIOUS
  <1>8. CASE r = length \/ offset + r >= n.size
    <2>1. Turn(n, offset, length, f)[r] = <<>>
      BY <1>8 DEF Turn
    <2>2. offset + r \in Nat /\ k \in Nat /\ (k = 0 \/ offset + r >= n.size)
      BY <1>5, <1>8
    <2>3. Outcome(i, offset + r, k) = <<>>
      BY <2>2, OutcomeEnd
    <2>4. QED
      BY <1>6, <1>7, <2>1, <2>3
  <1>9. CASE ~(r = length \/ offset + r >= n.size)
    <2>1. /\ offset + r \in Nat /\ offset + r < n.size /\ k - 1 \in 0 .. length
          /\ k - 1 \in Nat /\ r + 1 = length - (k - 1) /\ k = (k - 1) + 1
          /\ ~(k <= k - 1) /\ offset + (r + 1) = (offset + r) + 1
      BY <1>1, <1>5, <1>9
    <2>2. k - 1 \notin S
      BY <1>4, <2>1
    <2>3. f[r + 1] = Outcome(i, (offset + r) + 1, k - 1)
      BY <2>1, <2>2
    <2>4. Turn(n, offset, length, f)[r] =
            IF NoBlockAfter(i, offset + r) \/ f[r + 1] = Error THEN Error
            ELSE <<Byte(n, offset + r)>> \o f[r + 1]
      BY <1>9 DEF Turn, NoBlockAfter
    <2>5. Outcome(i, offset + r, (k - 1) + 1) =
            IF NoBlockAfter(i, offset + r) \/ f[r + 1] = Error THEN Error
            ELSE <<Byte(n, offset + r)>> \o f[r + 1]
      <3> HIDE DEF S
      <3>1. QED
        BY <2>1, <2>3, OutcomeStep
    <2>6. QED
      BY <1>6, <1>7, <2>1, <2>4, <2>5
  <1>10. QED
    BY <1>8, <1>9

(* So the loop of read_data copies the bytes of the file from the offset   *)
(* on, as many as were asked for or up to the end, whatever the boundaries *)
(* of blocks are, for every file and every length, and fails in one case   *)
(* only: it gets to the end of a file that fills its last block, and the   *)
(* slot behind holds no block of the image.                                *)
THEOREM CopyRight ==
  ASSUME NEW i \in InodeIndices, NEW offset \in Nat, NEW length \in Nat
  PROVE  CopyBytes(i, offset, length) =
           IF Stumbles(i, offset, length) THEN Error ELSE Segment(inodes[i], offset, length)
  <1> DEFINE f == CHOOSE g : g = Turn(inodes[i], offset, length, g)
  <1>1. CopyBytes(i, offset, length) = f[0]
    BY CopyIsLoop
  <1>2. f = Turn(inodes[i], offset, length, f)
    BY LoopHasSolution, Zenon
  <1> HIDE DEF f
  <1>3. QED
    BY <1>1, <1>2, LoopUnique DEF Outcome

-----------------------------------------------------------------------------
(* Descriptors *)

Descriptor == [jumptable : Jumptables, inode : Nat, file_position : Nat, flags : {0, 1}]

(* What descriptor fd may hold, in a process that is live or not, when g   *)
(* was read through it.                                                    *)
Clean(fd, d, live) ==
    /\ d.flags = 0 => d = Unused
    /\ d.flags = 1 => d.jumptable # "NULL"
    /\ d.inode < fs_stats.inode_cnt
    /\ fd >= FD_START => d.jumptable \notin {"std_in_fops", "std_out_fops"}
    /\ ~live /\ fd >= FD_START => d = Unused

InOrder(d, g) ==
    d.jumptable = "fs_fops" =>
      /\ d.inode \in InodeIndices
      /\ d.file_position <= inodes[d.inode].size
      /\ g = Segment(inodes[d.inode], 0, d.file_position)

(* The inductive invariant of the descriptor tables: a position never goes *)
(* past the end of its file, so that the next read continues there.        *)
FileInv ==
    /\ alive \subseteq Pids
    /\ fds \in [Pids -> [Fds -> Descriptor]]
    /\ got \in [Pids -> [Fds -> Seq(Nat)]]
    /\ \A p \in alive : fds[p][0] = Std(0) /\ fds[p][1] = Std(1)
    /\ \A p \in Pids, fd \in Fds : /\ Clean(fd, fds[p][fd], p \in alive)
                                   /\ InOrder(fds[p][fd], got[p][fd])

(* The first descriptors and the first inode are always there. *)
LEMMA Indices ==
  /\ 0 \in Fds /\ 1 \in Fds /\ FD_START = 2
  /\ fs_stats.inode_cnt \in Nat /\ 0 < fs_stats.inode_cnt
  /\ NULL \notin Pids /\ NULL \notin Nat
  <1>1. 0 \in 0 .. FS_MAX_DIR_ENTRIES - 1
    BY SizeAssumption
  <1>2. direntries[0].inode_idx \in Nat /\ direntries[0].inode_idx < fs_stats.inode_cnt
        /\ fs_stats.inode_cnt \in Nat
    BY <1>1, ImageAssumption
  <1>3. QED
    BY <1>2, FdAssumption, PidAssumption DEF Fds, FD_START, NULL

LEMMA UnusedClean ==
  /\ Unused \in Descriptor
  /\ \A fd \in Fds : Clean(fd, Unused, TRUE) /\ Clean(fd, Unused, FALSE)
  /\ \A g : InOrder(Unused, g)
  BY Indices DEF Unused, Descriptor, Jumptables, Clean, InOrder

(* Nothing but one descriptor of a live process changes. *)
LEMMA OneDescriptor ==
  ASSUME FileInv, NEW p \in alive, NEW fd \in Fds, fd >= FD_START,
         NEW d \in Descriptor, NEW g \in Seq(Nat),
         Clean(fd, d, TRUE), InOrder(d, g),
         fds' = [fds EXCEPT ![p][fd] = d],
         got' = [got EXCEPT ![p][fd] = g],
         alive' = alive
  PROVE  FileInv'
  <1>1. p \in Pids /\ alive \subseteq Pids
    BY DEF FileInv
  <1>2. /\ fds' \in [Pids -> [Fds -> Descriptor]]
        /\ got' \in [Pids -> [Fds -> Seq(Nat)]]
    BY <1>1 DEF FileInv
  <1>3. \A q \in Pids, k \in Fds :
          /\ fds'[q][k] = IF q = p /\ k = fd THEN d ELSE fds[q][k]
          /\ got'[q][k] = IF q = p /\ k = fd THEN g ELSE got[q][k]
    BY <1>1 DEF FileInv
  <1>4. fd # 0 /\ fd # 1
    BY Indices
  <1>5. \A q \in alive : fds'[q][0] = Std(0) /\ fds'[q][1] = Std(1)
    BY <1>1, <1>3, <1>4, Indices DEF FileInv
  <1>6. \A q \in Pids, k \in Fds : /\ Clean(k, fds'[q][k], q \in alive)
                                   /\ InOrder(fds'[q][k], got'[q][k])
    <2> SUFFICES ASSUME NEW q \in Pids, NEW k \in Fds
                 PROVE  /\ Clean(k, fds'[q][k], q \in alive)
                        /\ InOrder(fds'[q][k], got'[q][k])
      OBVIOUS
    <2>1. CASE q = p /\ k = fd
      <3>1. (q \in alive) = TRUE
        BY <2>1
      <3>2. QED
        BY <1>3, <2>1, <3>1
    <2>2. CASE ~(q = p /\ k = fd)
      BY <1>3, <2>2 DEF FileInv
    <2>3. QED
      BY <2>1, <2>2
  <1>7. QED
    BY <1>1, <1>2, <1>5, <1>6 DEF FileInv

LEMMA FileKept ==
  ASSUME FileInv, UNCHANGED <<alive, fds, got>>
  PROVE  FileInv'
  BY DEF FileInv

(* Two segments that meet are one. *)
LEMMA SegmentsMeet ==
  ASSUME NEW i \in InodeIndices, NEW pos \in Nat, NEW length \in Nat,
         pos <= inodes[i].size
  PROVE  /\ pos + Count(inodes[i], pos, length) <= inodes[i].size
         /\ pos + Count(inodes[i], pos, length) \in Nat
         /\ Segment(inodes[i], 0, pos) \o Segment(inodes[i], pos, length) =
              Segment(inodes[i], 0, pos + Count(inodes[i], pos, length))
  <1> DEFINE n == inodes[i]
             s == Segment(n, 0, pos)
             t == Segment(n, pos, length)
  <1>1. PICK m \in Nat : m = Count(n, pos, length) /\ pos + m <= n.size /\ n.size \in Nat
    BY CountType
  <1>2. PICK e \in Nat : e = pos + m
    OBVIOUS
  <1> DEFINE u == Segment(n, 0, e)
  <1>3. Count(n, 0, pos) = pos /\ Count(n, 0, e) = e
    BY <1>1, <1>2 DEF Count, Least
  <1>4. /\ s \in Seq(Nat) /\ Len(s) = pos
        /\ t \in Seq(Nat) /\ Len(t) = m
        /\ u \in Seq(Nat) /\ Len(u) = e
    BY <1>1, <1>3, SegmentType
  <1>5. /\ \A j \in 1 .. pos : s[j] = Byte(n, 0 + j - 1)
        /\ \A j \in 1 .. m : t[j] = Byte(n, pos + j - 1)
        /\ \A j \in 1 .. e : u[j] = Byte(n, 0 + j - 1)
    BY <1>1, <1>3 DEF Segment
  <1> HIDE DEF n, s, t, u
  <1>6. /\ s \o t \in Seq(Nat) /\ Len(s \o t) = e
        /\ \A j \in 1 .. e : (s \o t)[j] = IF j <= pos THEN s[j] ELSE t[j - pos]
    BY <1>2, <1>4, ConcatProperties
  <1>7. \A j \in 1 .. e : (s \o t)[j] = u[j]
    <2> SUFFICES ASSUME NEW j \in 1 .. e
                 PROVE  (s \o t)[j] = u[j]
      OBVIOUS
    <2>1. CASE j <= pos
      BY <1>5, <1>6, <2>1
    <2>2. CASE ~(j <= pos)
      <3>1. j - pos \in 1 .. m /\ pos + (j - pos) - 1 = 0 + j - 1
        BY <1>2, <2>2
      <3>2. QED
        BY <1>5, <1>6, <2>2, <3>1
    <2>3. QED
      BY <2>1, <2>2
  <1>8. s \o t = u
    BY <1>4, <1>6, <1>7, SeqEqual
  <1>9. QED
    BY <1>1, <1>2, <1>8 DEF n, s, t, u

(* What read_data returns: an error, or the next bytes of the file. *)
LEMMA ReadData ==
  ASSUME NEW i \in InodeIndices, NEW offset \in Nat, NEW length \in Nat
  PROVE  /\ read_data(i, offset, length) \in {Error, Segment(inodes[i], offset, length)}
         /\ offset + length < fs_stats.direntry_cnt * FS_BLK_SIZE =>
              read_data(i, offset, length) =
                IF Stumbles(i, offset, length) THEN Error
                ELSE Segment(inodes[i], offset, length)
  <1>1. /\ inodes[i].size \in Nat /\ fs_stats.direntry_cnt \in Nat /\ ~(i >= fs_stats.inode_cnt)
        /\ fs_stats.direntry_cnt * FS_BLK_SIZE \in Nat
    <2>1. fs_stats.direntry_cnt \in Nat
      BY ImageAssumption, SizeAssumption
    <2>2. fs_stats.direntry_cnt * FS_BLK_SIZE \in Nat
      BY <2>1, BlockFacts
    <2>3. QED
      BY <2>1, <2>2, InodeFacts, Indices DEF InodeIndices
  <1>2. CASE offset >= inodes[i].size
    <2>1. Segment(inodes[i], offset, length) = <<>>
      <3>1. Count(inodes[i], offset, length) = 0
        BY <1>2 DEF Count
      <3>2. QED
        BY <3>1 DEF Segment
    <2>2. read_data(i, offset, length) = <<>>
      BY <1>1, <1>2 DEF read_data
    <2>3. ~Stumbles(i, offset, length)
      BY <1>1, <1>2 DEF Stumbles
    <2>4. QED
      BY <2>1, <2>2, <2>3
  <1>3. CASE ~(offset >= inodes[i].size)
    <2>1. inodes[i].data[offset \div FS_BLK_SIZE] \in 0 .. fs_stats.datablk_cnt - 1
      BY <1>1, <1>3, BlocksExist
    <2>2. ~(inodes[i].data[offset \div FS_BLK_SIZE] >= fs_stats.datablk_cnt)
      BY <2>1, BlockFacts
    <2>3. read_data(i, offset, length) =
            IF offset + length >= fs_stats.direntry_cnt * FS_BLK_SIZE THEN Error
            ELSE CopyBytes(i, offset, length)
      BY <1>1, <1>3, <2>2 DEF read_data
    <2>4. CopyBytes(i, offset, length) =
            IF Stumbles(i, offset, length) THEN Error ELSE Segment(inodes[i], offset, length)
      BY CopyRight
    <2>5. QED
      BY <1>1, <2>3, <2>4
  <1>4. QED
    BY <1>2, <1>3

-----------------------------------------------------------------------------
(* The system calls on descriptors *)

LEMMA FileReadStep ==
  ASSUME FileInv, NEW p \in alive, NEW fd, NEW nbytes \in Nat, InUse(p, fd),
         fds[p][fd].jumptable = "fs_fops", file_read(p, fd, nbytes)
  PROVE  FileInv'
  <1> DEFINE f   == fds[p][fd]
             len == IF nbytes = 0 THEN inodes[f.inode].size ELSE nbytes
             in  == read_data(f.inode, f.file_position, len)
  <1>1. /\ fd \in Fds /\ p \in Pids /\ f \in Descriptor /\ f.flags = 1
        /\ Clean(fd, f, TRUE) /\ InOrder(f, got[p][fd])
    <2>1. fd \in Fds /\ p \in Pids /\ (p \in alive) = TRUE /\ f.flags = 1
      BY DEF FileInv, InUse
    <2>2. f \in Descriptor
      BY <2>1 DEF FileInv
    <2>3. Clean(fd, f, p \in alive) /\ InOrder(f, got[p][fd])
      BY <2>1 DEF FileInv
    <2>4. QED
      BY <2>1, <2>2, <2>3
  <1>2. fd >= FD_START
    <2>1. Std(0).jumptable # "fs_fops" /\ Std(1).jumptable # "fs_fops"
      BY DEF Std, Unused
    <2>2. fd # 0 /\ fd # 1
      BY <2>1 DEF FileInv
    <2>3. QED
      BY <1>1, <2>2, FdAssumption DEF Fds, FD_START
  <1>3. /\ f.inode \in InodeIndices /\ f.file_position \in Nat
        /\ f.file_position <= inodes[f.inode].size
        /\ got[p][fd] = Segment(inodes[f.inode], 0, f.file_position)
    BY <1>1 DEF InOrder, Descriptor
  <1>4. len \in Nat
    BY <1>3, InodeFacts
  <1>5. CASE in = Error
    BY <1>5, FileKept DEF file_read, Fail, file
  <1>6. CASE in # Error
    <2>0. PICK i \in InodeIndices, pos \in Nat, l \in Nat :
            i = f.inode /\ pos = f.file_position /\ l = len /\ pos <= inodes[i].size
      BY <1>3, <1>4
    <2>1. in = Segment(inodes[i], pos, l)
      <3>1. in = read_data(i, pos, l)
        BY <2>0
      <3>2. QED
        BY <1>6, <3>1, ReadData
    <2>10. /\ fds' = [fds EXCEPT ![p][fd].file_position = @ + Len(in)]
           /\ got' = [got EXCEPT ![p][fd] = @ \o in]
           /\ alive' = alive
      BY <1>6 DEF file_read
    <2> HIDE DEF in, len
    <2>2. PICK m \in Nat : m = Count(inodes[i], pos, l)
      BY CountType
    <2>3. in \in Seq(Nat) /\ Len(in) = m
      BY <2>1, <2>2, SegmentType
    <2>4. PICK d : d = [f EXCEPT !.file_position = pos + m]
      OBVIOUS
    <2>5. PICK g : g = got[p][fd] \o in
      OBVIOUS
    <2>6. d \in Descriptor /\ d.jumptable = f.jumptable /\ d.inode = i
          /\ d.flags = 1 /\ d.file_position = pos + m
      BY <1>1, <2>0, <2>4 DEF Descriptor
    <2>7. g = Segment(inodes[i], 0, pos + m) /\ pos + m <= inodes[i].size
          /\ pos + m \in Nat
      <3>1. got[p][fd] = Segment(inodes[i], 0, pos)
        BY <1>3, <2>0
      <3>2. QED
        <4>1. /\ pos + Count(inodes[i], pos, l) <= inodes[i].size
              /\ pos + Count(inodes[i], pos, l) \in Nat
              /\ Segment(inodes[i], 0, pos) \o Segment(inodes[i], pos, l) =
                   Segment(inodes[i], 0, pos + Count(inodes[i], pos, l))
          BY <2>0, SegmentsMeet
        <4>2. QED
          BY <2>1, <2>2, <2>5, <3>1, <4>1
    <2>8. g \in Seq(Nat)
      BY <2>7, SegmentType
    <2>9. Clean(fd, d, TRUE) /\ InOrder(d, g)
      BY <1>1, <2>0, <2>6, <2>7 DEF Clean, InOrder
    <2>11. fds \in [Pids -> [Fds -> Descriptor]] /\ got \in [Pids -> [Fds -> Seq(Nat)]]
      BY DEF FileInv
    <2>12. fds' = [fds EXCEPT ![p][fd] = d]
      BY <1>1, <2>0, <2>3, <2>4, <2>10, <2>11
    <2>13. got' = [got EXCEPT ![p][fd] = g]
      BY <1>1, <2>5, <2>10, <2>11
    <2>14. QED
      BY <1>1, <1>2, <2>6, <2>8, <2>9, <2>10, <2>12, <2>13, OneDescriptor
  <1>7. QED
    BY <1>5, <1>6

(* A name is found at an index of the directory, or not at all. *)
LEMMA FoundByName ==
  ASSUME NEW name
  PROVE  read_dentry_by_name(name) \in (0 .. FS_MAX_DIR_ENTRIES - 1) \cup {NULL}
  <1> DEFINE found == {i \in 0 .. FS_MAX_DIR_ENTRIES - 1 :
                         /\ Len(name) <= FS_FNAME_LEN
                         /\ name = direntries[i].filename}
  <1>1. CASE found = {}
    BY <1>1 DEF read_dentry_by_name
  <1>2. CASE found # {}
    <2>1. found \in SUBSET Nat
      BY SizeAssumption
    <2>2. \E i \in found : \A j \in found : i <= j
      BY <1>2, <2>1, LeastElement
    <2>3. read_dentry_by_name(name) = CHOOSE i \in found : \A j \in found : i <= j
      BY <1>2 DEF read_dentry_by_name
    <2>4. read_dentry_by_name(name) \in found
      BY <2>2, <2>3
    <2>5. QED
      BY <2>4
  <1>3. QED
    BY <1>1, <1>2

LEMMA OpenedClean ==
  ASSUME NEW i \in 0 .. FS_MAX_DIR_ENTRIES - 1, NEW fd \in Fds
  PROVE  /\ Opened(direntries[i]) \in Descriptor
         /\ Clean(fd, Opened(direntries[i]), TRUE)
         /\ InOrder(Opened(direntries[i]), <<>>)
  <1> DEFINE e == direntries[i]
             d == Opened(e)
  <1>1. e.filetype \in Types /\ e.inode_idx \in Nat /\ e.inode_idx < fs_stats.inode_cnt
    BY ImageAssumption
  <1>2. PICK k \in Nat : k = (IF e.filetype = "reg" THEN e.inode_idx ELSE 0)
                         /\ k < fs_stats.inode_cnt
    BY <1>1, Indices
  <1>3. PICK j \in {"rtc_fops", "dir_fops", "fs_fops"} : j = Jumptable(e.filetype)
    BY <1>1 DEF Jumptable, Types
  <1>4. d = [jumptable |-> j, flags |-> 1, file_position |-> 0, inode |-> k]
    BY <1>2, <1>3 DEF Opened
  <1> HIDE DEF d
  <1>5. d \in Descriptor
    BY <1>4 DEF Descriptor, Jumptables
  <1>6. Clean(fd, d, TRUE)
    BY <1>2, <1>3, <1>4 DEF Clean
  <1>7. InOrder(d, <<>>)
    <2>1. k \in InodeIndices
      BY <1>2, Indices DEF InodeIndices
    <2>2. 0 <= inodes[k].size /\ Segment(inodes[k], 0, 0) = <<>>
      <3>1. inodes[k].size \in Nat
        BY <2>1, InodeFacts
      <3>2. Count(inodes[k], 0, 0) = 0
        BY <3>1 DEF Count, Least
      <3>3. QED
        BY <3>1, <3>2 DEF Segment
    <2>3. QED
      BY <1>4, <2>1, <2>2 DEF InOrder
  <1>8. QED
    BY <1>5, <1>6, <1>7 DEF d

LEMMA OpenStep ==
  ASSUME FileInv, NEW p \in alive, NEW c, Open(p, c)
  PROVE  FileInv'
  <1> DEFINE i  == read_dentry_by_name(c.name)
             fd == CHOOSE k \in Free(p) : \A g \in Free(p) : k <= g
  <1>1. CASE c.name = <<>> \/ i = NULL \/ Free(p) = {}
    BY <1>1, FileKept DEF Open, Fail, file
  <1>2. CASE ~(c.name = <<>> \/ i = NULL \/ Free(p) = {})
    <2>1. i \in 0 .. FS_MAX_DIR_ENTRIES - 1
      BY <1>2, FoundByName
    <2>2. Free(p) # {} /\ Free(p) \in SUBSET Nat
      BY <1>2, FdAssumption DEF Free, Fds
    <2>3. fd \in Free(p)
      BY <2>2, LeastElement
    <2>4. fd \in Fds /\ fd >= FD_START
      BY <2>3 DEF Free, FD_START
    <2>5. /\ fds' = [fds EXCEPT ![p][fd] = Opened(direntries[i])]
          /\ got' = [got EXCEPT ![p][fd] = <<>>]
          /\ alive' = alive
      BY <1>2 DEF Open
    <2> HIDE DEF i, fd
    <2>6. /\ Opened(direntries[i]) \in Descriptor
          /\ Clean(fd, Opened(direntries[i]), TRUE)
          /\ InOrder(Opened(direntries[i]), <<>>)
      BY <2>1, <2>4, OpenedClean
    <2>7. <<>> \in Seq(Nat)
      OBVIOUS
    <2>8. QED
      BY <2>4, <2>5, <2>6, <2>7, OneDescriptor
  <1>3. QED
    BY <1>1, <1>2

LEMMA CloseStep ==
  ASSUME FileInv, NEW p \in alive, NEW c, Close(p, c)
  PROVE  FileInv'
  <1>1. CASE c.fd \notin FD_START .. FD_CNT - 1 \/ ~InUse(p, c.fd)
    BY <1>1, FileKept DEF Close, Fail, file
  <1>2. CASE ~(c.fd \notin FD_START .. FD_CNT - 1 \/ ~InUse(p, c.fd))
    <2>1. c.fd \in Fds /\ c.fd >= FD_START
      BY <1>2 DEF InUse, FD_START
    <2>2. /\ fds' = [fds EXCEPT ![p][c.fd] = Unused]
          /\ got' = [got EXCEPT ![p][c.fd] = <<>>]
          /\ alive' = alive
      BY <1>2 DEF Close, Closed
    <2>3. Unused \in Descriptor /\ Clean(c.fd, Unused, TRUE) /\ InOrder(Unused, <<>>)
      BY <2>1, UnusedClean, Zenon
    <2>5. <<>> \in Seq(Nat)
      OBVIOUS
    <2>4. QED
      BY <2>1, <2>2, <2>3, <2>5, OneDescriptor
  <1>3. QED
    BY <1>1, <1>2

(* Nothing but the table of one process changes, and whether it lives. *)
LEMMA OneTable ==
  ASSUME FileInv, NEW p \in Pids,
         NEW T \in [Fds -> Descriptor], NEW G \in [Fds -> Seq(Nat)],
         \A k \in Fds : Clean(k, T[k], p \in alive') /\ InOrder(T[k], G[k]),
         p \in alive' => T[0] = Std(0) /\ T[1] = Std(1),
         \A q \in Pids : q # p => (q \in alive' <=> q \in alive),
         alive' \subseteq Pids,
         fds' = [fds EXCEPT ![p] = T],
         got' = [got EXCEPT ![p] = G]
  PROVE  FileInv'
  <1>1. /\ fds' \in [Pids -> [Fds -> Descriptor]]
        /\ got' \in [Pids -> [Fds -> Seq(Nat)]]
    BY DEF FileInv
  <1>2. \A q \in Pids : /\ fds'[q] = IF q = p THEN T ELSE fds[q]
                        /\ got'[q] = IF q = p THEN G ELSE got[q]
    BY DEF FileInv
  <1>3. \A q \in alive' : fds'[q][0] = Std(0) /\ fds'[q][1] = Std(1)
    BY <1>2 DEF FileInv
  <1>4. ASSUME NEW q \in Pids, NEW k \in Fds
        PROVE  Clean(k, fds'[q][k], q \in alive') /\ InOrder(fds'[q][k], got'[q][k])
    <2>1. CASE q = p
      BY <1>2, <2>1
    <2>2. CASE q # p
      <3>1. Clean(k, fds[q][k], q \in alive) /\ InOrder(fds[q][k], got[q][k])
        BY DEF FileInv
      <3>2. fds'[q] = fds[q] /\ got'[q] = got[q] /\ (q \in alive' <=> q \in alive)
        BY <1>2, <2>2
      <3>3. QED
        BY <3>1, <3>2 DEF Clean
    <2>3. QED
      BY <2>1, <2>2
  <1>5. QED
    BY <1>1, <1>3, <1>4 DEF FileInv

(* A process that ends leaves an empty table: what is not in use was empty. *)
LEMMA HaltStep ==
  ASSUME FileInv, NEW p \in alive, Halt(p)
  PROVE  FileInv'
  <1>1. p \in Pids /\ fds[p] \in [Fds -> Descriptor] /\ alive \subseteq Pids
    BY DEF FileInv
  <1>2. PICK T : T = [fd \in Fds |-> IF fd >= FD_START /\ InUse(p, fd) THEN Closed(p, fd)
                                     ELSE fds[p][fd]]
    OBVIOUS
  <1>3. PICK G : G = [i \in Fds |-> <<>>]
    OBVIOUS
  <1>4. fds' = [fds EXCEPT ![p] = T] /\ got' = [got EXCEPT ![p] = G] /\ alive' = alive \ {p}
    BY <1>2, <1>3 DEF Halt
  <1>5. T \in [Fds -> Descriptor] /\ G \in [Fds -> Seq(Nat)]
    <2>1. G \in [Fds -> Seq(Nat)]
      BY <1>3
    <2>2. \A fd \in Fds : Closed(p, fd) \in Descriptor /\ fds[p][fd] \in Descriptor
      BY <1>1, UnusedClean DEF Closed
    <2>3. QED
      BY <1>2, <2>1, <2>2
  <1>6. ASSUME NEW k \in Fds
        PROVE  Clean(k, T[k], FALSE) /\ InOrder(T[k], G[k])
    <2>1. Clean(k, fds[p][k], p \in alive) /\ fds[p][k] \in Descriptor
      BY <1>1 DEF FileInv
    <2>2. CASE k >= FD_START
      <3>1. CASE InUse(p, k)
        BY <1>2, <2>2, <3>1, UnusedClean DEF Closed
      <3>2. CASE ~InUse(p, k)
        <4>1. fds[p][k] = Unused
          BY <2>1, <3>2 DEF Clean, InUse, Descriptor
        <4>2. QED
          BY <1>2, <3>2, <4>1, UnusedClean
      <3>3. QED
        BY <3>1, <3>2
    <2>3. CASE ~(k >= FD_START)
      <3>1. T[k] = fds[p][k]
        BY <1>2, <2>3
      <3>2. k = 0 \/ k = 1
        BY <2>3, FdAssumption DEF Fds, FD_START
      <3>3. T[k] = Std(0) \/ T[k] = Std(1)
        BY <3>1, <3>2 DEF FileInv
      <3>4. T[k].jumptable # "fs_fops"
        BY <3>3 DEF Std, Unused
      <3>5. QED
        BY <2>1, <2>3, <3>1, <3>4 DEF Clean, InOrder
    <2>4. QED
      BY <2>2, <2>3
  <1>7. (p \in alive') = FALSE
    BY <1>4
  <1>8. /\ \A k \in Fds : Clean(k, T[k], p \in alive') /\ InOrder(T[k], G[k])
        /\ \A q \in Pids : q # p => (q \in alive' <=> q \in alive)
        /\ alive' \subseteq Pids
    BY <1>1, <1>4, <1>6, <1>7
  <1>9. QED
    BY <1>1, <1>4, <1>5, <1>7, <1>8, OneTable

LEMMA ExecuteStep ==
  ASSUME FileInv, NEW p \in Pids, Execute(p)
  PROVE  FileInv'
  <1>1. PICK T : T = [i \in Fds |-> IF i < FD_START THEN Std(i) ELSE Unused]
    OBVIOUS
  <1>2. PICK G : G = got[p]
    OBVIOUS
  <1>3. /\ fds' = [fds EXCEPT ![p] = T] /\ got' = [got EXCEPT ![p] = G]
        /\ alive' = alive \cup {p} /\ G \in [Fds -> Seq(Nat)]
    BY <1>1, <1>2 DEF Execute, FileInv
  <1>4. \A i \in Fds : /\ Std(i) \in Descriptor /\ Std(i).jumptable # "fs_fops"
                       /\ Std(i).flags = 1 /\ Std(i).jumptable # "NULL" /\ Std(i).inode = 0
    BY DEF Std, Unused, Descriptor, Jumptables
  <1>5. T \in [Fds -> Descriptor]
    BY <1>1, <1>4, UnusedClean
  <1>6. ASSUME NEW k \in Fds
        PROVE  Clean(k, T[k], TRUE) /\ InOrder(T[k], G[k])
    <2>1. CASE k < FD_START
      <3>1. T[k] = Std(k) /\ ~(k >= FD_START)
        BY <1>1, <2>1 DEF Fds, FD_START
      <3>2. QED
        BY <1>4, <3>1, Indices DEF Clean, InOrder
    <2>2. CASE ~(k < FD_START)
      BY <1>1, <2>2, UnusedClean
    <2>3. QED
      BY <2>1, <2>2
  <1>7. (p \in alive') = TRUE
    BY <1>3
  <1>8. T[0] = Std(0) /\ T[1] = Std(1)
    BY <1>1, Indices
  <1>9. /\ \A k \in Fds : Clean(k, T[k], p \in alive') /\ InOrder(T[k], G[k])
        /\ \A q \in Pids : q # p => (q \in alive' <=> q \in alive)
        /\ alive' \subseteq Pids
    BY <1>3, <1>6, <1>7 DEF FileInv
  <1>10. QED
    BY <1>3, <1>5, <1>8, <1>9, OneTable

LEMMA FileInvInit == Init => FileInv
  <1> SUFFICES ASSUME Init PROVE FileInv
    OBVIOUS
  <1>1. /\ alive = {} /\ fds = [p \in Pids |-> [i \in Fds |-> Unused]]
        /\ got = [p \in Pids |-> [i \in Fds |-> <<>>]]
    BY DEF Init
  <1>2. /\ fds \in [Pids -> [Fds -> Descriptor]]
        /\ got \in [Pids -> [Fds -> Seq(Nat)]]
    <2>1. <<>> \in Seq(Nat)
      OBVIOUS
    <2>2. QED
      BY <1>1, <2>1, UnusedClean
  <1>3. ASSUME NEW p \in Pids, NEW fd \in Fds
        PROVE  Clean(fd, fds[p][fd], p \in alive) /\ InOrder(fds[p][fd], got[p][fd])
    <2>1. fds[p][fd] = Unused /\ (p \in alive) = FALSE
      BY <1>1
    <2>2. QED
      BY <2>1, UnusedClean
  <1>4. QED
    BY <1>1, <1>2, <1>3 DEF FileInv

(* A read of a file moves a position; no other read changes a table. *)
LEMMA ReadStep ==
  ASSUME FileInv, NEW p \in alive, NEW c \in Calls, Read(p, c)
  PROVE  FileInv'
  <1>1. CASE ~c.buf \/ c.nbytes < 0 \/ ~InUse(p, c.fd)
    BY <1>1, FileKept DEF Read, Fail, file
  <1>2. CASE ~(~c.buf \/ c.nbytes < 0 \/ ~InUse(p, c.fd))
    <2>1. InUse(p, c.fd) /\ c.nbytes \in Nat
      BY <1>2, CallAssumption
    <2>2. CASE fds[p][c.fd].jumptable = "fs_fops"
      <3>1. file_read(p, c.fd, c.nbytes)
        BY <1>2, <2>2 DEF Read
      <3>2. QED
        BY <2>1, <2>2, <3>1, FileReadStep
    <2>3. CASE fds[p][c.fd].jumptable # "fs_fops"
      <3>1. UNCHANGED <<alive, fds, got>>
        BY <1>2, <2>3 DEF Read, Fail, file, DirLoad
      <3>2. QED
        BY <3>1, FileKept
    <2>4. QED
      BY <2>2, <2>3
  <1>3. QED
    BY <1>1, <1>2

LEMMA FileInvStep == FileInv /\ [Next]_vars => FileInv'
  <1> SUFFICES ASSUME FileInv, [Next]_vars
               PROVE  FileInv'
    OBVIOUS
  <1>1. CASE UNCHANGED vars
    BY <1>1, FileKept DEF vars, file
  <1>2. ASSUME NEW p \in Pids, Execute(p)
        PROVE  FileInv'
    BY <1>2, ExecuteStep
  <1>3. ASSUME NEW p \in Pids, DirStore(p)
        PROVE  FileInv'
    BY <1>3, FileKept DEF DirStore, file
  <1>4. ASSUME NEW p \in Pids, NEW c \in Calls, irqh_syscall(p, c)
        PROVE  FileInv'
    <2>1. p \in alive
      BY <1>4 DEF irqh_syscall
    <2>2. CASE Fail
      BY <2>2, FileKept DEF Fail, file
    <2>3. CASE Halt(p)
      BY <2>1, <2>3, HaltStep
    <2>4. CASE Read(p, c)
      BY <2>1, <2>4, ReadStep
    <2>5. CASE Write(p, c)
      BY <2>5, FileKept DEF Write, Fail, file
    <2>6. CASE Open(p, c)
      BY <2>1, <2>6, OpenStep
    <2>7. CASE Close(p, c)
      BY <2>1, <2>7, CloseStep
    <2>8. CASE Vidmap(p, c)
      BY <2>8, FileKept DEF Vidmap, Fail, file
    <2>9. QED
      BY <1>4, <2>2, <2>3, <2>4, <2>5, <2>6, <2>7, <2>8 DEF irqh_syscall
  <1>5. QED
    BY <1>1, <1>2, <1>3, <1>4 DEF Next, Step

LEMMA FileInvAlways == Spec => []FileInv
  BY FileInvInit, FileInvStep, PTL DEF Spec

(* No order of open, close, halt and execute breaks a descriptor table:    *)
(* what is not in use holds nothing, what is in use has its operations and *)
(* an inode of the image, and descriptors 0 and 1 stay the terminal.       *)
THEOREM TableClean == Spec => []CleanTable
  <1>1. FileInv => CleanTable
    BY DEF FileInv, CleanTable, Clean
  <1>2. QED
    BY <1>1, FileInvAlways, PTL

(* The file up to a position, in the words of the property. *)
LEMMA SegmentIsContent ==
  ASSUME NEW i \in InodeIndices, NEW pos \in Nat, pos <= inodes[i].size
  PROVE  Segment(inodes[i], 0, pos) = SubSeq(Content(i), 1, pos)
  <1>1. PICK size \in Nat : size = inodes[i].size /\ pos <= size
    BY InodeFacts
  <1>2. Content(i) = [k \in 1 .. size |-> Byte(inodes[i], k - 1)]
    BY <1>1 DEF Content, Byte
  <1>3. Segment(inodes[i], 0, pos) = [k \in 1 .. pos |-> Byte(inodes[i], 0 + k - 1)]
    <2>1. Count(inodes[i], 0, pos) = pos
      BY <1>1 DEF Count, Least
    <2>2. QED
      BY <2>1 DEF Segment
  <1>4. Segment(inodes[i], 0, pos) = [k \in 1 .. pos |-> Byte(inodes[i], k - 1)]
    <2>1. \A k \in 1 .. pos : 0 + k - 1 = k - 1
      OBVIOUS
    <2>2. QED
      BY <1>3, <2>1
  <1>5. SubSeq(Content(i), 1, pos) = [k \in 1 .. pos |-> Content(i)[k]]
    <2>1. SubSeq(Content(i), 1, pos) = [k \in 1 .. (1 + pos - 1) |-> Content(i)[k + 1 - 1]]
      OBVIOUS
    <2>2. 1 + pos - 1 = pos /\ \A k \in 1 .. pos : k + 1 - 1 = k
      OBVIOUS
    <2>3. QED
      BY <2>1, <2>2
  <1>6. \A k \in 1 .. pos : Content(i)[k] = Byte(inodes[i], k - 1)
    BY <1>1, <1>2
  <1>7. QED
    BY <1>4, <1>5, <1>6

(* What a process has read through a descriptor since it opened the file   *)
(* is the file up to file_position, for every image, every set of          *)
(* processes and every sequence of calls.                                  *)
THEOREM ReadInOrder == Spec => []SequentialRead
  <1>1. FileInv => SequentialRead
    <2> SUFFICES ASSUME FileInv, NEW p \in alive, NEW fd \in Fds,
                        fds[p][fd].jumptable = "fs_fops"
                 PROVE  got[p][fd] = SubSeq(Content(fds[p][fd].inode), 1, fds[p][fd].file_position)
      BY DEF SequentialRead
    <2>1. InOrder(fds[p][fd], got[p][fd]) /\ fds[p][fd] \in Descriptor
      BY DEF FileInv
    <2>2. PICK i \in InodeIndices, pos \in Nat :
            /\ i = fds[p][fd].inode
            /\ pos = fds[p][fd].file_position
            /\ pos <= inodes[i].size
            /\ got[p][fd] = Segment(inodes[i], 0, pos)
      BY <2>1 DEF InOrder, Descriptor
    <2>3. QED
      BY <2>2, SegmentIsContent
  <1>2. QED
    BY <1>1, FileInvAlways, PTL

(* What a read of an open file returns: -1, or the bytes that follow the   *)
(* position, and these if the request is in the span read_data accepts.    *)
LEMMA FileReadResult ==
  ASSUME FileInv, NEW p \in alive, NEW fd, NEW nbytes \in Nat, InUse(p, fd),
         fds[p][fd].jumptable = "fs_fops", file_read(p, fd, nbytes)
  PROVE  /\ ret' \in Int /\ UNCHANGED dir
         /\ LET f == fds[p][fd]
            IN  nbytes > 0 /\ f.file_position + nbytes < fs_stats.direntry_cnt * FS_BLK_SIZE
                  => ret' = IF Stumbles(f.inode, f.file_position, nbytes) THEN -1
                            ELSE Least(nbytes, inodes[f.inode].size - f.file_position)
  <1> DEFINE f   == fds[p][fd]
             len == IF nbytes = 0 THEN inodes[f.inode].size ELSE nbytes
             in  == read_data(f.inode, f.file_position, len)
  <1>1. f \in Descriptor /\ InOrder(f, got[p][fd])
    BY DEF FileInv, InUse
  <1>2. PICK i \in InodeIndices, pos \in Nat, size \in Nat :
          i = f.inode /\ pos = f.file_position /\ size = inodes[i].size /\ pos <= size
    BY <1>1, InodeFacts DEF InOrder, Descriptor
  <1>3. PICK l \in Nat : l = len /\ (nbytes > 0 => l = nbytes)
    BY <1>2
  <1>4. in = read_data(i, pos, l)
    BY <1>2, <1>3
  <1>5. /\ in \in {Error, Segment(inodes[i], pos, l)}
        /\ pos + l < fs_stats.direntry_cnt * FS_BLK_SIZE =>
             in = IF Stumbles(i, pos, l) THEN Error ELSE Segment(inodes[i], pos, l)
    BY <1>4, ReadData
  <1>6. PICK m \in Nat : m = Count(inodes[i], pos, l)
    BY CountType
  <1>7. /\ Segment(inodes[i], pos, l) \in Seq(Nat) /\ Len(Segment(inodes[i], pos, l)) = m
        /\ Segment(inodes[i], pos, l) # Error
    BY <1>6, SegmentType DEF Error, NULL
  <1>8. /\ in = Error => ret' = -1
        /\ in # Error => ret' = Len(in)
        /\ UNCHANGED dir
    BY DEF file_read, Fail, Return
  <1> HIDE DEF in, len
  <1>9. ret' \in Int
    BY <1>5, <1>7, <1>8
  <1>10. ASSUME nbytes > 0, pos + nbytes < fs_stats.direntry_cnt * FS_BLK_SIZE
         PROVE  ret' = IF Stumbles(i, pos, nbytes) THEN -1 ELSE Least(nbytes, size - pos)
    <2>1. ret' = IF Stumbles(i, pos, nbytes) THEN -1 ELSE m
      BY <1>3, <1>5, <1>7, <1>8, <1>10
    <2>2. m = Least(nbytes, size - pos)
      BY <1>2, <1>3, <1>6, <1>10 DEF Count, Least
    <2>3. QED
      BY <2>1, <2>2
  <1>11. QED
    BY <1>2, <1>8, <1>9, <1>10

(* A read in the span that read_data accepts is short only at the end of   *)
(* the file, and fails at the boundary of a block only where Stumbles says *)
(* so.                                                                     *)
THEOREM ReadsComplete == Spec => ReadsAll
  <1> DEFINE A == \A p \in Pids, c \in Calls :
          LET f    == fds[p][c.fd]
              size == inodes[f.inode].size
          IN  /\ c.type = SYSC_READ /\ c.buf /\ c.nbytes > 0
              /\ InUse(p, c.fd) /\ f.jumptable = "fs_fops"
              /\ f.file_position + c.nbytes < fs_stats.direntry_cnt * FS_BLK_SIZE
              /\ irqh_syscall(p, c)
              => ret' = IF Stumbles(f.inode, f.file_position, c.nbytes) THEN -1
                        ELSE Least(c.nbytes, size - f.file_position)
  <1>1. FileInv => [A]_vars
    <2> SUFFICES ASSUME FileInv, NEW p \in Pids, NEW c \in Calls,
                        c.type = SYSC_READ, c.buf, c.nbytes > 0,
                        InUse(p, c.fd), fds[p][c.fd].jumptable = "fs_fops",
                        fds[p][c.fd].file_position + c.nbytes
                          < fs_stats.direntry_cnt * FS_BLK_SIZE,
                        irqh_syscall(p, c)
                 PROVE  ret' = IF Stumbles(fds[p][c.fd].inode,
                                           fds[p][c.fd].file_position, c.nbytes) THEN -1
                               ELSE Least(c.nbytes, inodes[fds[p][c.fd].inode].size
                                                      - fds[p][c.fd].file_position)
      BY Zenon
    <2>1. p \in alive /\ Read(p, c)
      BY DEF irqh_syscall, SYSC_READ, SYSC_SIGRETURN, SYSC_HALT, SYSC_WRITE, SYSC_OPEN,
             SYSC_CLOSE, SYSC_VIDMAP
    <2>2. c.nbytes \in Nat /\ ~(c.nbytes < 0)
      BY CallAssumption
    <2>3. file_read(p, c.fd, c.nbytes)
      BY <2>1, <2>2 DEF Read
    <2>4. QED
      BY <2>1, <2>2, <2>3, FileReadResult
  <1>2. QED
    BY <1>1, FileInvAlways, PTL DEF ReadsAll

-----------------------------------------------------------------------------
(* The directory *)

Listing(k) == [i \in 1 .. Least(k, fs_stats.direntry_cnt) |-> direntries[i - 1].filename]

More(k) == IF k < fs_stats.inode_cnt /\ read_dentry_by_index(k) # <<>>
           THEN <<read_dentry_by_index(k)>> ELSE <<>>

(* The inductive invariant of the directory: while one process is alone    *)
(* with it, nobody else is between the load and the store of the counter,  *)
(* and the index that this process has loaded is the counter still.        *)
DirInv ==
    /\ dir_read_count \in Nat
    /\ reading \in [Pids -> [idx : Nat \cup {NULL}, nbytes : Int]]
    /\ alone \in Pids \cup {NULL}
    /\ alone \in Pids =>
         /\ \A q \in Pids : q # alone => reading[q] = NoRead
         /\ reading[alone] # NoRead => reading[alone].idx = dir_read_count
         /\ listed = Listing(dir_read_count)

LEMMA EntryFacts ==
  /\ fs_stats.direntry_cnt \in Nat /\ fs_stats.direntry_cnt < FS_MAX_DIR_ENTRIES
  /\ fs_stats.inode_cnt \in Nat /\ fs_stats.direntry_cnt <= fs_stats.inode_cnt
  /\ FS_MAX_DIR_ENTRIES \in Nat
  /\ \A i \in Nat : i < FS_MAX_DIR_ENTRIES =>
       /\ direntries[i].filename \in Seq(Nat)
       /\ direntries[i].filename = <<>> <=> i >= fs_stats.direntry_cnt
  <1>1. FS_MAX_DIR_ENTRIES \in Nat
    BY SizeAssumption
  <1>2. /\ fs_stats.direntry_cnt \in 0 .. FS_MAX_DIR_ENTRIES - 1
        /\ fs_stats.inode_cnt \in Nat /\ fs_stats.inode_cnt >= fs_stats.direntry_cnt
        /\ direntries \in [0 .. FS_MAX_DIR_ENTRIES - 1 ->
              [filename : Seq(Nat), filetype : Types, inode_idx : Nat]]
        /\ \A i \in 0 .. FS_MAX_DIR_ENTRIES - 1 :
             direntries[i].filename = <<>> <=> i >= fs_stats.direntry_cnt
    BY ImageAssumption
  <1>3. QED
    BY <1>1, <1>2

(* What the next entry adds to the listing. *)
LEMMA MoreIs ==
  ASSUME NEW k \in Nat
  PROVE  More(k) = IF k < fs_stats.direntry_cnt THEN <<direntries[k].filename>> ELSE <<>>
  <1>1. CASE k < FS_MAX_DIR_ENTRIES
    <2>1. read_dentry_by_index(k) = direntries[k].filename
      BY <1>1 DEF read_dentry_by_index
    <2>2. QED
      BY <1>1, <2>1, EntryFacts DEF More
  <1>2. CASE ~(k < FS_MAX_DIR_ENTRIES)
    BY <1>2, EntryFacts DEF More, read_dentry_by_index
  <1>3. QED
    BY <1>1, <1>2

LEMMA ListingType ==
  ASSUME NEW k \in Nat
  PROVE  /\ Listing(k) \in Seq(Seq(Nat))
         /\ Len(Listing(k)) = Least(k, fs_stats.direntry_cnt)
         /\ \A i \in 1 .. Least(k, fs_stats.direntry_cnt) :
              Listing(k)[i] = direntries[i - 1].filename
  <1>1. PICK m \in Nat : m = Least(k, fs_stats.direntry_cnt) /\ m <= fs_stats.direntry_cnt
    BY EntryFacts DEF Least
  <1>2. \A i \in 1 .. m : direntries[i - 1].filename \in Seq(Nat)
    BY <1>1, EntryFacts
  <1>3. QED
    BY <1>1, <1>2 DEF Listing

LEMMA ListingStep ==
  ASSUME NEW k \in Nat
  PROVE  Listing(k + 1) = Listing(k) \o More(k)
  <1>1. Listing(k) \in Seq(Seq(Nat)) /\ Listing(k + 1) \in Seq(Seq(Nat))
    BY ListingType
  <1>2. CASE k < fs_stats.direntry_cnt
    <2>1. PICK e \in Seq(Nat) : e = direntries[k].filename
      BY <1>2, EntryFacts
    <2>2. More(k) = <<e>>
      BY <1>2, <2>1, MoreIs
    <2>3. Least(k, fs_stats.direntry_cnt) = k /\ Least(k + 1, fs_stats.direntry_cnt) = k + 1
      BY <1>2, EntryFacts DEF Least
    <2>4. /\ Len(Listing(k)) = k /\ Len(Listing(k + 1)) = k + 1
          /\ \A i \in 1 .. k : Listing(k)[i] = direntries[i - 1].filename
          /\ \A i \in 1 .. k + 1 : Listing(k + 1)[i] = direntries[i - 1].filename
      <3>1. k + 1 \in Nat
        OBVIOUS
      <3>2. /\ Len(Listing(k + 1)) = Least(k + 1, fs_stats.direntry_cnt)
            /\ \A i \in 1 .. Least(k + 1, fs_stats.direntry_cnt) :
                 Listing(k + 1)[i] = direntries[i - 1].filename
        BY <3>1, ListingType
      <3>3. QED
        BY <2>3, <3>2, ListingType
    <2>5. PICK s \in Seq(Seq(Nat)), t \in Seq(Seq(Nat)) : s = Listing(k) /\ t = Listing(k + 1)
      BY <1>1
    <2>6. /\ s \o <<e>> \in Seq(Seq(Nat)) /\ Len(s \o <<e>>) = k + 1
          /\ \A i \in 1 .. k + 1 : (s \o <<e>>)[i] = IF i <= k THEN s[i] ELSE e
      BY <2>4, <2>5
    <2>7. \A i \in 1 .. k + 1 : (s \o <<e>>)[i] = t[i]
      <3> SUFFICES ASSUME NEW i \in 1 .. k + 1
                   PROVE  (s \o <<e>>)[i] = t[i]
        OBVIOUS
      <3>1. CASE i <= k
        <4>1. i \in 1 .. k
          BY <3>1
        <4>2. QED
          BY <2>4, <2>5, <2>6, <3>1, <4>1
      <3>2. CASE ~(i <= k)
        <4>1. i = k + 1 /\ i - 1 = k
          BY <3>2
        <4>2. QED
          BY <2>1, <2>4, <2>5, <2>6, <3>2, <4>1
      <3>3. QED
        BY <3>1, <3>2
    <2>8. s \o <<e>> = t
      BY <2>4, <2>5, <2>6, <2>7, SeqEqual
    <2>9. QED
      BY <2>2, <2>5, <2>8
  <1>3. CASE ~(k < fs_stats.direntry_cnt)
    <2>1. More(k) = <<>>
      BY <1>3, MoreIs
    <2>2. Least(k, fs_stats.direntry_cnt) = Least(k + 1, fs_stats.direntry_cnt)
      BY <1>3, EntryFacts DEF Least
    <2>3. QED
      BY <1>1, <2>1, <2>2, ConcatEmptySeq DEF Listing
  <1>4. QED
    BY <1>2, <1>3

LEMMA DirKept ==
  ASSUME DirInv, UNCHANGED dir
  PROVE  DirInv'
  BY DEF DirInv, dir

LEMMA DirInvInit == Init => DirInv
  BY Indices DEF Init, DirInv, NoRead

(* The reader that is alone has loaded the counter as it is now. *)
LEMMA LoadStep ==
  ASSUME DirInv, NEW p \in Pids, NEW nbytes \in Int, DirLoad(p, nbytes)
  PROVE  DirInv'
  <1>1. /\ dir_read_count' = dir_read_count /\ dir_read_count \in Nat
        /\ reading' = [reading EXCEPT ![p] = [idx |-> dir_read_count, nbytes |-> nbytes]]
        /\ reading \in [Pids -> [idx : Nat \cup {NULL}, nbytes : Int]]
        /\ alone' = IF alone = p THEN p ELSE NULL
        /\ listed' = IF alone = p THEN listed \o <<>> ELSE <<>>
    BY DEF DirLoad, Touch, DirInv
  <1>2. reading' \in [Pids -> [idx : Nat \cup {NULL}, nbytes : Int]]
    BY <1>1
  <1>3. CASE alone = p
    <2>1. listed = Listing(dir_read_count) /\ listed \in Seq(Seq(Nat))
      BY <1>1, <1>3, ListingType DEF DirInv
    <2>2. listed' = Listing(dir_read_count)
      BY <1>1, <1>3, <2>1, ConcatEmptySeq
    <2>3. /\ reading'[p].idx = dir_read_count
          /\ \A q \in Pids : q # p => reading'[q] = reading[q]
      BY <1>1
    <2>4. \A q \in Pids : q # p => reading[q] = NoRead
      BY <1>3 DEF DirInv
    <2>5. QED
      BY <1>1, <1>2, <1>3, <2>2, <2>3, <2>4 DEF DirInv
  <1>4. CASE alone # p
    BY <1>1, <1>2, <1>4, Indices DEF DirInv
  <1>5. QED
    BY <1>3, <1>4

LEMMA StoreStep ==
  ASSUME DirInv, NEW p \in Pids, DirStore(p)
  PROVE  DirInv' /\ ret' \in Int
  <1>0. PICK k \in Nat : k = reading[p].idx /\ reading[p].nbytes \in Int
    BY DEF DirInv, DirStore
  <1>1. /\ dir_read_count' = k + 1
        /\ reading' = [reading EXCEPT ![p] = NoRead]
        /\ reading \in [Pids -> [idx : Nat \cup {NULL}, nbytes : Int]]
        /\ alone' = IF alone = p THEN p ELSE NULL
        /\ listed' = IF alone = p THEN listed \o More(k) ELSE <<>>
    BY <1>0 DEF DirStore, Advance, Touch, More, DirInv
  <1>2. reading' \in [Pids -> [idx : Nat \cup {NULL}, nbytes : Int]]
    BY <1>1 DEF NoRead
  <1>3. ASSUME alone = p PROVE DirInv'
    <2>1. reading[p] # NoRead
      BY <1>0, Indices DEF NoRead
    <2>2. k = dir_read_count /\ listed = Listing(k)
      BY <1>0, <1>3, <2>1 DEF DirInv
    <2>3. listed' = Listing(k + 1)
      BY <1>1, <1>3, <2>2, ListingStep
    <2>4. \A q \in Pids : reading'[q] = NoRead
      BY <1>1, <1>3 DEF DirInv
    <2>5. QED
      BY <1>1, <1>2, <1>3, <2>3, <2>4 DEF DirInv
  <1>4. ASSUME alone # p PROVE DirInv'
    BY <1>1, <1>2, <1>4, Indices DEF DirInv
  <1>5. ret' \in Int
    <2>1. Len(read_dentry_by_index(k)) \in Nat
      BY EntryFacts DEF read_dentry_by_index
    <2>2. PICK n \in Int : n = reading[p].nbytes
      BY <1>0
    <2>3. Least(Least(n, FS_FNAME_LEN), Len(read_dentry_by_index(k))) \in Int
      BY <2>1, SizeAssumption DEF Least
    <2>4. QED
      BY <1>0, <2>2, <2>3 DEF DirStore, Return
  <1>6. QED
    BY <1>3, <1>4, <1>5

(* dir_open sets the counter to zero, for whoever is reading. *)
LEMMA OpenDirStep ==
  ASSUME DirInv, NEW p \in Pids, NEW c, Open(p, c)
  PROVE  DirInv' /\ ret' \in Int
  <1> DEFINE i  == read_dentry_by_name(c.name)
             fd == CHOOSE k \in Free(p) : \A g \in Free(p) : k <= g
  <1>1. CASE c.name = <<>> \/ i = NULL \/ Free(p) = {}
    BY <1>1, DirKept DEF Open, Fail, Return
  <1>2. CASE ~(c.name = <<>> \/ i = NULL \/ Free(p) = {})
    <2>1. Free(p) # {} /\ Free(p) \in SUBSET Nat
      BY <1>2, FdAssumption DEF Free, Fds
    <2>2. fd \in Nat
      BY <2>1, LeastElement
    <2>3. ret' \in Int
      <3>1. ret' = fd
        BY <1>2 DEF Open, Return
      <3>2. QED
        BY <2>2, <3>1
    <2>4. CASE direntries[i].filetype # "dir"
      BY <1>2, <2>3, <2>4, DirKept DEF Open
    <2>5. CASE direntries[i].filetype = "dir"
      <3>1. /\ dir_read_count' = 0 /\ listed' = <<>> /\ reading' = reading
            /\ alone' = IF \A q \in Pids : reading[q] = NoRead THEN p ELSE NULL
        BY <1>2, <2>5 DEF Open
      <3>2. Listing(0) = <<>>
        <4>1. Least(0, fs_stats.direntry_cnt) = 0
          BY EntryFacts DEF Least
        <4>2. QED
          BY <4>1 DEF Listing
      <3>3. DirInv'
        BY <3>1, <3>2, Indices DEF DirInv
      <3>4. QED
        BY <2>3, <3>3
    <2>6. QED
      BY <2>4, <2>5
  <1>3. QED
    BY <1>1, <1>2

LEMMA ReadDirStep ==
  ASSUME FileInv, DirInv, ret \in Int, NEW p \in alive, NEW c \in Calls, Read(p, c)
  PROVE  DirInv' /\ ret' \in Int
  <1>0. c.nbytes \in Int /\ p \in Pids
    BY CallAssumption DEF FileInv
  <1>1. CASE ~c.buf \/ c.nbytes < 0 \/ ~InUse(p, c.fd)
    BY <1>1, DirKept DEF Read, Fail, Return
  <1>2. CASE ~(~c.buf \/ c.nbytes < 0 \/ ~InUse(p, c.fd))
    <2>1. InUse(p, c.fd) /\ c.nbytes \in Nat
      BY <1>0, <1>2
    <2>2. CASE fds[p][c.fd].jumptable = "fs_fops"
      <3>1. file_read(p, c.fd, c.nbytes)
        BY <1>2, <2>2 DEF Read
      <3>2. QED
        BY <2>1, <2>2, <3>1, FileReadResult, DirKept
    <2>3. CASE fds[p][c.fd].jumptable = "dir_fops"
      <3>1. DirLoad(p, c.nbytes)
        BY <1>2, <2>3 DEF Read
      <3>2. ret' = ret
        BY <3>1 DEF DirLoad
      <3>3. QED
        BY <1>0, <3>1, <3>2, LoadStep
    <2>4. CASE fds[p][c.fd].jumptable \notin {"fs_fops", "dir_fops"}
      <3>1. UNCHANGED dir /\ ret' \in Int
        BY <1>0, <1>2, <2>4 DEF Read, Fail, Return
      <3>2. QED
        BY <3>1, DirKept
    <2>5. QED
      BY <2>2, <2>3, <2>4
  <1>3. QED
    BY <1>1, <1>2

LEMMA DirInvStep ==
  FileInv /\ DirInv /\ ret \in Int /\ [Next]_vars => DirInv' /\ ret' \in Int
  <1> SUFFICES ASSUME FileInv, DirInv, ret \in Int, [Next]_vars
               PROVE  DirInv' /\ ret' \in Int
    OBVIOUS
  <1>1. CASE UNCHANGED vars
    BY <1>1, DirKept DEF vars
  <1>2. ASSUME NEW p \in Pids, Execute(p)
        PROVE  DirInv' /\ ret' \in Int
    BY <1>2, DirKept DEF Execute
  <1>3. ASSUME NEW p \in Pids, DirStore(p)
        PROVE  DirInv' /\ ret' \in Int
    BY <1>3, StoreStep
  <1>4. ASSUME NEW p \in Pids, NEW c \in Calls, irqh_syscall(p, c)
        PROVE  DirInv' /\ ret' \in Int
    <2>1. p \in alive /\ reading[p] = NoRead /\ c.nbytes \in Int
      BY <1>4, CallAssumption DEF irqh_syscall
    <2>2. CASE Fail
      BY <2>2, DirKept DEF Fail, Return
    <2>3. CASE Halt(p)
      BY <2>1, <2>3, Indices DEF Halt, DirInv
    <2>4. CASE Read(p, c)
      BY <2>1, <2>4, ReadDirStep
    <2>5. CASE Write(p, c)
      <3>1. UNCHANGED dir /\ ret' \in Int
        BY <2>1, <2>5 DEF Write, Fail, Return
      <3>2. QED
        BY <3>1, DirKept
    <2>6. CASE Open(p, c)
      BY <2>6, OpenDirStep
    <2>7. CASE Close(p, c)
      <3>1. UNCHANGED dir /\ ret' \in Int
        BY <2>7 DEF Close, Fail, Return
      <3>2. QED
        BY <3>1, DirKept
    <2>8. CASE Vidmap(p, c)
      <3>1. UNCHANGED dir /\ ret' \in Int
        BY <2>8 DEF Vidmap, Fail, Return
      <3>2. QED
        BY <3>1, DirKept
    <2>9. QED
      BY <1>4, <2>2, <2>3, <2>4, <2>5, <2>6, <2>7, <2>8 DEF irqh_syscall
  <1>5. QED
    BY <1>1, <1>2, <1>3, <1>4 DEF Next, Step

LEMMA DirInvAlways == Spec => [](FileInv /\ DirInv /\ ret \in Int)
  <1>1. Init => FileInv /\ DirInv /\ ret \in Int
    BY FileInvInit, DirInvInit DEF Init
  <1>2. (FileInv /\ DirInv /\ ret \in Int) /\ [Next]_vars
          => (FileInv /\ DirInv /\ ret \in Int)'
    BY FileInvStep, DirInvStep
  <1>3. QED
    BY <1>1, <1>2, PTL DEF Spec

(* The tables, the counter and the results keep their types under every    *)
(* sequence of system calls.                                               *)
THEOREM FilesTyped == Spec => []TypeOK
  <1>1. FileInv /\ DirInv /\ ret \in Int => TypeOK
    BY DEF FileInv, DirInv, TypeOK, Descriptor
  <1>2. QED
    BY <1>1, DirInvAlways, PTL

(* The process that opened the directory and has it to itself gets every   *)
(* entry once and in order, although the counter belongs to nobody.        *)
THEOREM ListsAll == Spec => []ListingComplete
  <1>1. DirInv => ListingComplete
    BY DEF DirInv, ListingComplete, Listing
  <1>2. QED
    BY <1>1, DirInvAlways, PTL
-----------------------------------------------------------------------------
(* The test program *)

(* The descriptors that err_open_lots has opened and not yet closed. *)
Held(fd) == test = 3 /\ fd <= pc + 1 /\ fd > pc - FD_CNT + 2

TestTable ==
    /\ fds[Tester][0] = Std(0) /\ fds[Tester][1] = Std(1)
    /\ \A fd \in Fds : fd >= FD_START =>
         IF Held(fd) THEN fds[Tester][fd].flags = 1 /\ fds[Tester][fd].jumptable # "NULL"
         ELSE fds[Tester][fd].flags = 0

(* The inductive invariant of the test program: whichever test runs, the   *)
(* process has its standard descriptors and those err_open_lots holds, and *)
(* every call made so far has failed but for the opens that must not.      *)
SysInv ==
    /\ DOMAIN fds = Pids /\ DOMAIN fds[Tester] = Fds
    /\ DOMAIN reading = Pids /\ reading[Tester] = NoRead
    /\ test \in 0 .. 9 /\ pc \in Nat /\ failed = {}
    /\ test # 0 => Tester \in alive
    /\ Tester \in alive => TestTable
    /\ test \in {0, 9} => pc = 0
    /\ test \in 1 .. 8 => pc <= Len(Tests[test])
    /\ cnt = IF test = 3 THEN IF pc >= FD_CNT - 1 THEN 1 ELSE 0 ELSE pc

(* Nothing another process does reaches the descriptors of this one. *)
LEMMA Elsewhere ==
  ASSUME SysInv, NEW p \in Pids \ {Tester}, Step(p)
  PROVE  /\ DOMAIN fds' = Pids /\ fds'[Tester] = fds[Tester]
         /\ DOMAIN reading' = Pids /\ reading'[Tester] = NoRead
         /\ Tester \in alive' <=> Tester \in alive
  <1>1. p # Tester /\ p \in Pids /\ Tester \in Pids
    BY TesterAssumption
  <1>2. DOMAIN fds = Pids /\ DOMAIN reading = Pids /\ reading[Tester] = NoRead
    BY DEF SysInv
  <1>3. CASE Execute(p)
    BY <1>1, <1>2, <1>3 DEF Execute, dir
  <1>4. CASE DirStore(p)
    BY <1>1, <1>2, <1>4 DEF DirStore, file
  <1>5. ASSUME NEW c \in Calls, irqh_syscall(p, c)
        PROVE  /\ DOMAIN fds' = Pids /\ fds'[Tester] = fds[Tester]
               /\ DOMAIN reading' = Pids /\ reading'[Tester] = NoRead
               /\ Tester \in alive' <=> Tester \in alive
    <2>1. CASE Fail
      BY <1>2, <2>1 DEF Fail, file, dir
    <2>2. CASE Halt(p)
      BY <1>1, <1>2, <2>2 DEF Halt
    <2>3. CASE Read(p, c)
      <3>1. CASE UNCHANGED <<file, dir>>
        BY <1>2, <3>1 DEF file, dir
      <3>2. CASE file_read(p, c.fd, c.nbytes)
        <4>1. CASE Fail
          BY <2>1, <4>1
        <4>2. CASE ~Fail
          BY <1>1, <1>2, <3>2, <4>2 DEF file_read, dir
        <4>3. QED
          BY <4>1, <4>2
      <3>3. CASE DirLoad(p, c.nbytes)
        BY <1>1, <1>2, <3>3 DEF DirLoad, file
      <3>4. QED
        BY <2>3, <3>1, <3>2, <3>3 DEF Read, Fail
    <2>4. CASE Write(p, c)
      BY <1>2, <2>4 DEF Write, Fail, file, dir
    <2>5. CASE Open(p, c)
      <3>1. CASE Fail
        BY <2>1, <3>1
      <3>2. CASE ~Fail
        <4>1. /\ UNCHANGED <<alive, reading>>
              /\ \E fd, d : fds' = [fds EXCEPT ![p][fd] = d]
          BY <2>5, <3>2 DEF Open, dir
        <4>2. QED
          BY <1>1, <1>2, <4>1
      <3>3. QED
        BY <3>1, <3>2
    <2>6. CASE Close(p, c)
      <3>1. CASE Fail
        BY <2>1, <3>1
      <3>2. CASE ~Fail
        BY <1>1, <1>2, <2>6, <3>2 DEF Close, dir
      <3>3. QED
        BY <3>1, <3>2
    <2>7. CASE Vidmap(p, c)
      BY <1>2, <2>7 DEF Vidmap, Fail, file, dir
    <2>8. QED
      BY <1>5, <2>1, <2>2, <2>3, <2>4, <2>5, <2>6, <2>7 DEF irqh_syscall
  <1>6. QED
    BY <1>3, <1>4, <1>5 DEF Step

(* A call that must fail. *)
Refused(c) ==
    \/ c.type \notin 1 .. SYSC_SIGRETURN
    \/ c.type \in {SYSC_READ, SYSC_WRITE} /\ ~InUse(Tester, c.fd)
    \/ c.type = SYSC_WRITE /\ c.fd = 0
    \/ c.type = SYSC_READ /\ c.fd = 1
    \/ c.type = SYSC_CLOSE /\ (c.fd < FD_START \/ ~InUse(Tester, c.fd))
    \/ c.type = SYSC_OPEN /\ c.name \in {<<>>, Longer, Shorter}
    \/ c.type = SYSC_VIDMAP /\ c.where # "user"

(* A name is found exactly if an entry has it. *)
LEMMA NameFound ==
  ASSUME NEW name
  PROVE  /\ name \in {Longer, Shorter} => read_dentry_by_name(name) = NULL
         /\ read_dentry_by_name(Dot) \in 0 .. FS_MAX_DIR_ENTRIES - 1
  <1>1. DOMAIN direntries = 0 .. FS_MAX_DIR_ENTRIES - 1
    BY ImageAssumption
  <1>2. ASSUME name \in {Longer, Shorter}
        PROVE  read_dentry_by_name(name) = NULL
    <2>1. \A i \in 0 .. FS_MAX_DIR_ENTRIES - 1 : direntries[i].filename # name
      BY <1>1, <1>2, NamesAssumption
    <2>2. {i \in 0 .. FS_MAX_DIR_ENTRIES - 1 :
             Len(name) <= FS_FNAME_LEN /\ name = direntries[i].filename} = {}
      BY <2>1
    <2>3. QED
      BY <2>2 DEF read_dentry_by_name
  <1>3. read_dentry_by_name(Dot) \in 0 .. FS_MAX_DIR_ENTRIES - 1
    <2> DEFINE found == {i \in 0 .. FS_MAX_DIR_ENTRIES - 1 :
                           Len(Dot) <= FS_FNAME_LEN /\ Dot = direntries[i].filename}
    <2>1. PICK i \in 0 .. FS_MAX_DIR_ENTRIES - 1 : direntries[i].filename = Dot
      BY <1>1, NamesAssumption
    <2>2. Len(direntries[i].filename) <= FS_FNAME_LEN
      BY <2>1, ImageAssumption
    <2>3. found # {} /\ found \in SUBSET Nat
      BY <2>1, <2>2, SizeAssumption
    <2>4. \E k \in found : \A j \in found : k <= j
      BY <2>3, LeastElement
    <2>5. read_dentry_by_name(Dot) = CHOOSE k \in found : \A j \in found : k <= j
      BY <2>3 DEF read_dentry_by_name
    <2>6. read_dentry_by_name(Dot) \in found
      BY <2>4, <2>5
    <2>7. QED
      BY <2>6
  <1>4. QED
    BY <1>2, <1>3

LEMMA RefusedFails ==
  ASSUME SysInv, TestTable, NEW c, c.buf = TRUE, c.nbytes = 31, Refused(c),
         irqh_syscall(Tester, c)
  PROVE  Fail
  <1> USE DEF SYSC_HALT, SYSC_READ, SYSC_WRITE, SYSC_OPEN, SYSC_CLOSE, SYSC_VIDMAP,
              SYSC_SIGRETURN
  <1>1. fds[Tester][0].jumptable = "std_in_fops" /\ fds[Tester][1].jumptable = "std_out_fops"
    BY DEF TestTable, Std, Unused
  <1>2. CASE c.type \notin 1 .. SYSC_SIGRETURN
    BY <1>2 DEF irqh_syscall
  <1>3. CASE c.type = SYSC_READ
    <2>1. Read(Tester, c)
      BY <1>3 DEF irqh_syscall
    <2>2. ~InUse(Tester, c.fd) \/ fds[Tester][c.fd].jumptable = "std_out_fops"
      BY <1>1, <1>3 DEF Refused
    <2>3. QED
      BY <2>1, <2>2 DEF Read
  <1>4. CASE c.type = SYSC_WRITE
    <2>1. Write(Tester, c)
      BY <1>4 DEF irqh_syscall
    <2>2. ~InUse(Tester, c.fd) \/ fds[Tester][c.fd].jumptable = "std_in_fops"
      BY <1>1, <1>4 DEF Refused
    <2>3. QED
      BY <2>1, <2>2 DEF Write
  <1>5. CASE c.type = SYSC_CLOSE
    BY <1>5, FdAssumption DEF irqh_syscall, Close, Refused, FD_START
  <1>6. CASE c.type = SYSC_OPEN
    <2>1. Open(Tester, c) /\ c.name \in {<<>>, Longer, Shorter}
      BY <1>6 DEF irqh_syscall, Refused
    <2>2. c.name = <<>> \/ read_dentry_by_name(c.name) = NULL
      BY <2>1, NameFound
    <2>3. QED
      BY <2>1, <2>2 DEF Open
  <1>7. CASE c.type = SYSC_VIDMAP
    BY <1>7 DEF irqh_syscall, Vidmap, Refused
  <1>8. QED
    BY <1>2, <1>3, <1>4, <1>5, <1>6, <1>7 DEF Refused

(* The scripts, call by call. *)
LEMMA OpenLots ==
  /\ Tests[3] = err_open_lots /\ Len(err_open_lots) = 2 * FD_CNT - 3
  /\ \A k \in 1 .. 2 * FD_CNT - 3 :
       err_open_lots[k] = IF k <= FD_CNT - 1 THEN OpenCall(Dot)
                          ELSE OnFd(SYSC_CLOSE, k - FD_CNT + 2)
  <1>1. Tests[3] = err_open_lots
    BY DEF Tests
  <1>2. QED
    BY <1>1, FdAssumption DEF FD_START, err_open_lots

LEMMA Unopened ==
  /\ Tests[5] = err_unopened /\ Len(err_unopened) = 3 * FD_CNT - 4
  /\ \A k \in 1 .. 3 * FD_CNT - 4 :
       err_unopened[k] = IF k <= FD_CNT THEN OnFd(SYSC_CLOSE, k - 1)
                         ELSE IF k <= 2 * FD_CNT - 2
                         THEN OnFd(SYSC_READ, k - FD_CNT + 1)
                         ELSE OnFd(SYSC_WRITE, k - 2 * FD_CNT + 3)
  <1> DEFINE a == [i \in 1 .. FD_CNT |-> OnFd(SYSC_CLOSE, i - 1)]
             b == [i \in 1 .. FD_CNT - 2 |-> OnFd(SYSC_READ, i + 1)]
             c == [i \in 1 .. FD_CNT - 2 |-> OnFd(SYSC_WRITE, i + 1)]
  <1>1. Tests[5] = err_unopened
    BY DEF Tests
  <1>2. /\ Len(a \o b) = 2 * FD_CNT - 2
        /\ \A k \in 1 .. 2 * FD_CNT - 2 :
             (a \o b)[k] = IF k <= FD_CNT THEN OnFd(SYSC_CLOSE, k - 1)
                           ELSE OnFd(SYSC_READ, k - FD_CNT + 1)
    BY FdAssumption DEF FD_START
  <1>3. /\ Len(c) = FD_CNT - 2
        /\ \A k \in 1 .. FD_CNT - 2 : c[k] = OnFd(SYSC_WRITE, k + 1)
    BY FdAssumption DEF FD_START
  <1>4. (a \o b) \o c = err_unopened
    BY DEF err_unopened
  <1>5. QED
    BY <1>1, FdAssumption DEF FD_START, err_unopened

LEMMA ShortScripts ==
  /\ Tests[1] = ReadWriteClose(NEG_FD) /\ Tests[2] = ReadWriteClose(BIG_FD)
  /\ Tests[4] = err_open /\ Tests[6] = err_vidmap
  /\ Tests[7] = err_stdin_out /\ Tests[8] = err_syscall_num
  BY DEF Tests, err_neg_fd, err_big_fd

LEMMA Lengths == \A t \in 1 .. 8 : Len(Tests[t]) \in Nat
  <1>1. /\ Len(Tests[1]) = 3 /\ Len(Tests[2]) = 3 /\ Len(Tests[4]) = 3
        /\ Len(Tests[6]) = 2 /\ Len(Tests[7]) = 2 /\ Len(Tests[8]) = 3
    BY ShortScripts DEF ReadWriteClose, err_open, err_vidmap, err_stdin_out, err_syscall_num
  <1>2. Len(Tests[3]) \in Nat /\ Len(Tests[5]) \in Nat
    BY OpenLots, Unopened, FdAssumption DEF FD_START
  <1>3. \A t \in 1 .. 8 : t \in {1, 2, 3, 4, 5, 6, 7, 8}
    OBVIOUS
  <1>4. QED
    BY <1>1, <1>2, <1>3

(* The fields of a call. *)
LEMMA CallFields ==
  /\ \A type, fd : /\ OnFd(type, fd).type = type /\ OnFd(type, fd).fd = fd
                   /\ OnFd(type, fd).buf = TRUE /\ OnFd(type, fd).nbytes = 31
  /\ \A name : /\ OpenCall(name).type = SYSC_OPEN /\ OpenCall(name).name = name
               /\ OpenCall(name).buf = TRUE /\ OpenCall(name).nbytes = 31
  /\ \A where : /\ VidmapCall(where).type = SYSC_VIDMAP
                /\ VidmapCall(where).where = where
                /\ VidmapCall(where).buf = TRUE /\ VidmapCall(where).nbytes = 31
  BY DEF OnFd, OpenCall, VidmapCall, Call

(* In every test but err_open_lots every call must fail. *)
LEMMA ScriptRefused ==
  ASSUME SysInv, TestTable, test \in 1 .. 8, test # 3, pc < Len(Tests[test])
  PROVE  /\ Tests[test][pc + 1].buf = TRUE /\ Tests[test][pc + 1].nbytes = 31
         /\ Refused(Tests[test][pc + 1])
  <1> DEFINE c == Tests[test][pc + 1]
  <1> USE DEF SYSC_HALT, SYSC_READ, SYSC_WRITE, SYSC_OPEN, SYSC_CLOSE, SYSC_VIDMAP,
              SYSC_SIGRETURN
  <1>1. pc \in Nat /\ FD_CNT \in Nat /\ FD_CNT > 2 /\ FD_START = 2
    BY FdAssumption DEF SysInv, FD_START
  <1>2. ASSUME NEW fd \in {NEG_FD, BIG_FD}, Tests[test] = ReadWriteClose(fd)
        PROVE  c.buf = TRUE /\ c.nbytes = 31 /\ Refused(c)
    <2>1. ~InUse(Tester, fd)
      BY <1>1, <1>2 DEF InUse, Fds, NEG_FD, BIG_FD
    <2>2. pc \in {0, 1, 2}
      BY <1>1, <1>2 DEF ReadWriteClose
    <2>3. c \in {OnFd(SYSC_READ, fd), OnFd(SYSC_WRITE, fd), OnFd(SYSC_CLOSE, fd)}
      BY <1>2, <2>2 DEF ReadWriteClose
    <2>4. QED
      BY <2>1, <2>3, CallFields DEF Refused
  <1>3. CASE test = 1
    BY <1>2, <1>3, ShortScripts
  <1>4. CASE test = 2
    BY <1>2, <1>4, ShortScripts
  <1>5. CASE test = 4
    <2>1. pc \in {0, 1, 2} /\ Tests[test] = err_open
      BY <1>1, <1>5, ShortScripts DEF err_open
    <2>2. c \in {OpenCall(Longer), OpenCall(Shorter), OpenCall(<<>>)}
      BY <2>1 DEF err_open
    <2>3. QED
      BY <2>2, CallFields DEF Refused
  <1>6. CASE test = 5
    <2>1. \A fd \in Fds : fd >= 2 => ~InUse(Tester, fd)
      BY <1>1, <1>6 DEF TestTable, Held, InUse
    <2>2. pc + 1 \in 1 .. 3 * FD_CNT - 4
      BY <1>1, <1>6, Unopened
    <2>3. \/ \E fd \in Fds : c = OnFd(SYSC_CLOSE, fd)
          \/ \E fd \in Fds : fd >= 2 /\ c \in {OnFd(SYSC_READ, fd), OnFd(SYSC_WRITE, fd)}
      <3>1. CASE pc + 1 <= FD_CNT
        <4>1. pc + 1 - 1 \in Fds /\ c = OnFd(SYSC_CLOSE, pc + 1 - 1)
          BY <1>1, <1>6, <2>2, <3>1, Unopened DEF Fds
        <4>2. QED
          BY <4>1
      <3>2. CASE ~(pc + 1 <= FD_CNT) /\ pc + 1 <= 2 * FD_CNT - 2
        <4>1. /\ pc + 1 - FD_CNT + 1 \in Fds /\ pc + 1 - FD_CNT + 1 >= 2
              /\ c = OnFd(SYSC_READ, pc + 1 - FD_CNT + 1)
          BY <1>1, <1>6, <2>2, <3>2, Unopened DEF Fds
        <4>2. QED
          BY <4>1
      <3>3. CASE ~(pc + 1 <= 2 * FD_CNT - 2)
        <4>1. /\ pc + 1 - 2 * FD_CNT + 3 \in Fds /\ pc + 1 - 2 * FD_CNT + 3 >= 2
              /\ c = OnFd(SYSC_WRITE, pc + 1 - 2 * FD_CNT + 3)
          BY <1>1, <1>6, <2>2, <3>3, Unopened DEF Fds
        <4>2. QED
          BY <4>1
      <3>4. QED
        BY <3>1, <3>2, <3>3
    <2>4. QED
      BY <1>1, <2>1, <2>3, CallFields DEF Refused, Fds
  <1>7. CASE test = 6
    <2>1. pc \in {0, 1} /\ Tests[test] = err_vidmap
      BY <1>1, <1>7, ShortScripts DEF err_vidmap
    <2>2. c \in {VidmapCall("NULL"), VidmapCall("kernel")}
      BY <2>1 DEF err_vidmap
    <2>3. QED
      BY <2>2, CallFields DEF Refused
  <1>8. CASE test = 7
    <2>1. pc \in {0, 1} /\ Tests[test] = err_stdin_out
      BY <1>1, <1>8, ShortScripts DEF err_stdin_out
    <2>2. c \in {OnFd(SYSC_WRITE, 0), OnFd(SYSC_READ, 1)}
      BY <2>1 DEF err_stdin_out
    <2>3. QED
      BY <2>2, CallFields DEF Refused
  <1>9. CASE test = 8
    <2>1. pc \in {0, 1, 2} /\ Tests[test] = err_syscall_num
      BY <1>1, <1>9, ShortScripts DEF err_syscall_num
    <2>2. c \in {OnFd(SYSC_SIGRETURN + 1, 0), OnFd(-1, 0), OnFd(0, 0)}
      BY <2>1 DEF err_syscall_num
    <2>3. c.type \in {11, -1, 0} /\ c.buf = TRUE /\ c.nbytes = 31
      BY <2>2, CallFields
    <2> HIDE DEF c
    <2>4. c.type \notin 1 .. SYSC_SIGRETURN
      BY <2>3
    <2>5. QED
      BY <2>3, <2>4 DEF Refused, c
  <1>10. test \in {1, 2, 4, 5, 6, 7, 8}
    OBVIOUS
  <1>11. QED
    BY <1>10, <1>3, <1>4, <1>5, <1>6, <1>7, <1>8, <1>9

(* err_open_lots takes the descriptors from below, one for each open, and  *)
(* is refused the last one.                                                *)
LEMMA OpenLotsOpens ==
  ASSUME SysInv, TestTable, test = 3, pc < FD_CNT - 1,
         irqh_syscall(Tester, OpenCall(Dot))
  PROVE  /\ UNCHANGED <<alive, reading>> /\ DOMAIN fds' = Pids
         /\ IF pc = FD_CNT - 2 THEN ret' = -1 /\ UNCHANGED fds
            ELSE /\ ret' # -1 /\ DOMAIN fds'[Tester] = Fds
                 /\ fds'[Tester][pc + 2].flags = 1
                 /\ fds'[Tester][pc + 2].jumptable # "NULL"
                 /\ \A fd \in Fds \ {pc + 2} : fds'[Tester][fd] = fds[Tester][fd]
  <1> DEFINE i  == read_dentry_by_name(Dot)
             fd == CHOOSE f \in Free(Tester) : \A g \in Free(Tester) : f <= g
  <1>1. /\ pc \in Nat /\ FD_CNT \in Nat /\ FD_CNT > 2 /\ FD_START = 2
        /\ Tester \in Pids /\ DOMAIN fds = Pids /\ DOMAIN fds[Tester] = Fds
    BY FdAssumption, TesterAssumption DEF SysInv, FD_START
  <1>2. Open(Tester, OpenCall(Dot))
    BY CallFields DEF irqh_syscall, SYSC_HALT, SYSC_READ, SYSC_WRITE, SYSC_OPEN,
                      SYSC_CLOSE, SYSC_VIDMAP, SYSC_SIGRETURN
  <1>3. OpenCall(Dot).name = Dot /\ Dot # <<>> /\ i \in 0 .. FS_MAX_DIR_ENTRIES - 1
    BY CallFields, NameFound, NamesAssumption
  <1>4. i # NULL
    BY <1>3, SizeAssumption DEF NULL
  <1>5. \A f \in Fds : f \in Free(Tester) <=> f >= pc + 2
    BY <1>1 DEF Free, TestTable, Held, Fds
  <1>6. Free(Tester) \subseteq Fds
    BY DEF Free
  <1>7. CASE pc = FD_CNT - 2
    <2>1. Free(Tester) = {}
      BY <1>1, <1>5, <1>6, <1>7 DEF Fds
    <2>2. Fail
      BY <1>2, <2>1 DEF Open
    <2>3. QED
      BY <1>1, <1>7, <2>2 DEF Fail, Return, file, dir
  <1>8. CASE pc # FD_CNT - 2
    <2>1. pc + 2 \in Fds
      BY <1>1, <1>8 DEF Fds
    <2>2. pc + 2 \in Free(Tester) /\ \A g \in Free(Tester) : pc + 2 <= g
      BY <1>5, <1>6, <2>1, <1>1
    <2>3. fd \in Free(Tester) /\ \A g \in Free(Tester) : fd <= g
      BY <2>2
    <2>4. fd = pc + 2
      <3>1. fd \in Int
        BY <1>6, <2>3, <1>1 DEF Fds
      <3> HIDE DEF fd
      <3>2. QED
        BY <1>1, <2>2, <2>3, <3>1
    <2>5. /\ fds' = [fds EXCEPT ![Tester][fd] = Opened(direntries[i])]
          /\ ret' = fd /\ UNCHANGED <<alive, reading>>
      BY <1>2, <1>3, <1>4, <2>2 DEF Open, Return, dir
    <2>6. Opened(direntries[i]).flags = 1 /\ Opened(direntries[i]).jumptable # "NULL"
      <3>1. direntries[i].filetype \in Types
        BY <1>3, ImageAssumption
      <3>2. QED
        BY <3>1 DEF Opened, Jumptable, Types
    <2> HIDE DEF fd, i
    <2>7. QED
      BY <1>1, <1>8, <2>1, <2>4, <2>5, <2>6
  <1>9. QED
    BY <1>7, <1>8

(* Then it gives them back, from below too. *)
LEMMA OpenLotsCloses ==
  ASSUME SysInv, TestTable, test = 3, pc >= FD_CNT - 1, pc < 2 * FD_CNT - 3,
         irqh_syscall(Tester, OnFd(SYSC_CLOSE, pc - FD_CNT + 3))
  PROVE  /\ UNCHANGED <<alive, reading>> /\ DOMAIN fds' = Pids
         /\ DOMAIN fds'[Tester] = Fds
         /\ fds'[Tester][pc - FD_CNT + 3].flags = 0
         /\ \A fd \in Fds \ {pc - FD_CNT + 3} : fds'[Tester][fd] = fds[Tester][fd]
  <1> DEFINE fd == pc - FD_CNT + 3
             c  == OnFd(SYSC_CLOSE, fd)
  <1>1. /\ pc \in Nat /\ FD_CNT \in Nat /\ FD_CNT > 2 /\ FD_START = 2
        /\ Tester \in Pids /\ DOMAIN fds = Pids /\ DOMAIN fds[Tester] = Fds
    BY FdAssumption, TesterAssumption DEF SysInv, FD_START
  <1>2. Close(Tester, c) /\ c.fd = fd
    BY CallFields DEF irqh_syscall, SYSC_HALT, SYSC_READ, SYSC_WRITE, SYSC_OPEN,
                      SYSC_CLOSE, SYSC_VIDMAP, SYSC_SIGRETURN
  <1>3. fd \in FD_START .. FD_CNT - 1 /\ fd \in Fds /\ fd >= FD_START /\ Held(fd)
    BY <1>1 DEF Fds, Held
  <1> HIDE DEF fd
  <1>4. InUse(Tester, fd)
    BY <1>3 DEF TestTable, InUse
  <1> HIDE DEF c
  <1>5. fds' = [fds EXCEPT ![Tester][fd] = Unused] /\ UNCHANGED <<alive, reading>>
    BY <1>2, <1>3, <1>4 DEF Close, Closed, dir
  <1>6. QED
    BY <1>1, <1>3, <1>5 DEF Unused, fd

LEMMA SysInvInit == SysInit => SysInv
  BY TesterAssumption, FdAssumption DEF SysInit, Init, SysInv, FD_START

(* A call of a test does what the test expects of it. *)
LEMMA MakeCallStep ==
  ASSUME SysInv, MakeCall
  PROVE  SysInv'
  <1>1. /\ test \in 1 .. 8 /\ pc < Len(Tests[test]) /\ Tester \in alive /\ TestTable
        /\ irqh_syscall(Tester, Tests[test][pc + 1])
        /\ pc' = pc + 1 /\ test' = test /\ failed' = failed
    BY DEF MakeCall, SysInv
  <1>2. /\ pc \in Nat /\ FD_CNT \in Nat /\ FD_CNT > 2 /\ FD_START = 2 /\ Tester \in Pids
    BY FdAssumption, TesterAssumption DEF SysInv, FD_START
  <1>3. Len(Tests[test]) \in Nat
    BY <1>1, Lengths
  <1>4. test' \in 0 .. 9 /\ pc' \in Nat /\ failed' = {} /\ pc' <= Len(Tests[test'])
        /\ test' \notin {0, 9}
    BY <1>1, <1>2, <1>3 DEF SysInv
  <1>5. CASE test # 3
    <2>1. Fail
      BY <1>1, <1>5, ScriptRefused, RefusedFails
    <2>2. ret' = -1 /\ UNCHANGED <<alive, fds, reading>>
      BY <2>1 DEF Fail, Return, file, dir
    <2>3. cnt' = cnt + 1 /\ cnt = pc
      BY <1>5, <2>2 DEF MakeCall, SysInv
    <2>4. TestTable'
      BY <1>1, <1>5, <2>2 DEF TestTable, Held
    <2>5. QED
      BY <1>1, <1>4, <1>5, <2>2, <2>3, <2>4 DEF SysInv
  <1>6. CASE test = 3 /\ pc < FD_CNT - 1
    <2> PICK k \in Nat : k = pc + 2
      BY <1>2
    <2>1. Tests[test][pc + 1] = OpenCall(Dot)
      BY <1>2, <1>6, OpenLots
    <2>2. /\ UNCHANGED <<alive, reading>> /\ DOMAIN fds' = Pids
          /\ IF pc = FD_CNT - 2 THEN ret' = -1 /\ UNCHANGED fds
             ELSE /\ ret' # -1 /\ DOMAIN fds'[Tester] = Fds
                  /\ fds'[Tester][k].flags = 1
                  /\ fds'[Tester][k].jumptable # "NULL"
                  /\ \A fd \in Fds \ {k} : fds'[Tester][fd] = fds[Tester][fd]
      BY <1>1, <1>6, <2>1, OpenLotsOpens
    <2>3. cnt = 0 /\ cnt' = IF ret' = -1 THEN 1 ELSE 0
      BY <1>2, <1>6 DEF MakeCall, SysInv
    <2>4. cnt' = IF pc' >= FD_CNT - 1 THEN 1 ELSE 0
      BY <1>1, <1>2, <1>6, <2>2, <2>3
    <2>5. DOMAIN fds'[Tester] = Fds
      BY <2>2 DEF SysInv
    <2>6. \A fd \in Fds : fd >= FD_START /\ fd # k => (Held(fd)' <=> Held(fd))
      BY <1>1, <1>2, <1>6 DEF Held, Fds
    <2>7. pc # FD_CNT - 2 => Held(k)'
      BY <1>1, <1>2, <1>6 DEF Held
    <2>8. pc = FD_CNT - 2 => k \notin Fds
      BY <1>2 DEF Fds
    <2>9. 0 # k /\ 1 # k /\ 0 \in Fds /\ 1 \in Fds
      BY <1>2 DEF Fds
    <2>10. TestTable'
      BY <1>1, <2>2, <2>6, <2>7, <2>8, <2>9 DEF TestTable
    <2>11. QED
      BY <1>1, <1>4, <1>6, <2>2, <2>4, <2>5, <2>10 DEF SysInv
  <1>7. CASE test = 3 /\ ~(pc < FD_CNT - 1)
    <2> PICK k \in Int : k = pc - FD_CNT + 3
      BY <1>2
    <2>1. pc < 2 * FD_CNT - 3 /\ pc >= FD_CNT - 1
      BY <1>1, <1>2, <1>7, OpenLots
    <2>2. Tests[test][pc + 1] = OnFd(SYSC_CLOSE, k)
      <3>1. PICK j \in 1 .. 2 * FD_CNT - 3 : j = pc + 1
        BY <1>2, <2>1
      <3>2. ~(j <= FD_CNT - 1) /\ j - FD_CNT + 2 = k
        BY <1>2, <2>1, <3>1
      <3>3. err_open_lots[j] = OnFd(SYSC_CLOSE, j - FD_CNT + 2)
        BY <3>2, OpenLots
      <3>4. Tests[test] = err_open_lots
        BY <1>7, OpenLots
      <3>5. QED
        BY <3>1, <3>2, <3>3, <3>4
    <2>3. /\ UNCHANGED <<alive, reading>> /\ DOMAIN fds' = Pids
          /\ DOMAIN fds'[Tester] = Fds
          /\ fds'[Tester][k].flags = 0
          /\ \A fd \in Fds \ {k} : fds'[Tester][fd] = fds[Tester][fd]
      BY <1>1, <1>7, <2>1, <2>2, OpenLotsCloses
    <2>4. cnt = 1 /\ cnt' = 1
      BY <1>2, <1>7, <2>1 DEF MakeCall, SysInv
    <2>5. pc' >= FD_CNT - 1
      BY <1>1, <1>2, <2>1
    <2>6. \A fd \in Fds : fd >= FD_START /\ fd # k => (Held(fd)' <=> Held(fd))
      BY <1>1, <1>2, <1>7, <2>1 DEF Held, Fds
    <2>7. ~Held(k)'
      BY <1>1, <1>2 DEF Held
    <2>8. 0 # k /\ 1 # k /\ 0 \in Fds /\ 1 \in Fds
      BY <1>2, <2>1 DEF Fds
    <2>9. TestTable'
      BY <1>1, <2>3, <2>6, <2>7, <2>8 DEF TestTable
    <2>10. QED
      BY <1>1, <1>4, <1>7, <2>3, <2>4, <2>5, <2>9 DEF SysInv
  <1>8. QED
    BY <1>5, <1>6, <1>7

LEMMA EndTestStep ==
  ASSUME SysInv, EndTest
  PROVE  SysInv'
  <1>1. /\ test \in 1 .. 8 /\ pc = Len(Tests[test]) /\ pc \in Nat
        /\ pc' = 0 /\ cnt' = 0 /\ test' \in 1 .. 9 /\ UNCHANGED <<alive, fds, reading>>
        /\ Tester \in alive /\ TestTable
    BY DEF EndTest, SysInv, vars, file, dir
  <1>2. FD_CNT \in Nat /\ FD_CNT > 2 /\ FD_START = 2
    BY FdAssumption DEF FD_START
  <1>3. Passed
    <2>1. CASE test = 3
      <3>1. pc >= FD_CNT - 1
        BY <1>1, <1>2, <2>1, OpenLots
      <3>2. QED
        BY <2>1, <3>1 DEF Passed, SysInv
    <2>2. CASE test # 3
      BY <1>1, <2>2 DEF Passed, SysInv
    <2>3. QED
      BY <2>1, <2>2
  <1>4. failed' = {}
    BY <1>3 DEF EndTest, SysInv
  <1>5. \A fd \in Fds : fd >= FD_START => ~Held(fd) /\ ~Held(fd)'
    BY <1>1, <1>2, OpenLots DEF Held, Fds
  <1>6. TestTable'
    BY <1>1, <1>5 DEF TestTable
  <1>7. \A t \in 1 .. 8 : 0 <= Len(Tests[t])
    BY Lengths
  <1>8. cnt' = IF test' = 3 THEN IF pc' >= FD_CNT - 1 THEN 1 ELSE 0 ELSE pc'
    BY <1>1, <1>2
  <1>9. /\ test' \in {0, 9} => pc' = 0
        /\ test' \in 1 .. 8 => pc' <= Len(Tests[test'])
    BY <1>1, <1>7
  <1>10. QED
    BY <1>1, <1>4, <1>6, <1>8, <1>9 DEF SysInv

LEMMA SysInvStep == SysInv /\ [SysNext]_<<vars, script>> => SysInv'
  <1> SUFFICES ASSUME SysInv, [SysNext]_<<vars, script>>
               PROVE  SysInv'
    OBVIOUS
  <1>1. FD_CNT \in Nat /\ FD_CNT > 2 /\ FD_START = 2 /\ Tester \in Pids
    BY FdAssumption, TesterAssumption DEF FD_START
  <1>2. ASSUME UNCHANGED script, DOMAIN fds' = Pids, fds'[Tester] = fds[Tester],
               DOMAIN reading' = Pids, reading'[Tester] = NoRead,
               Tester \in alive' <=> Tester \in alive
        PROVE  SysInv'
    BY <1>2 DEF SysInv, TestTable, Held, script
  <1>3. CASE UNCHANGED <<vars, script>>
    BY <1>2, <1>3 DEF SysInv, vars, file, dir
  <1>4. CASE Select
    <2>1. /\ test = 0 /\ test' \in 1 .. 9 /\ pc = 0 /\ pc' = 0 /\ cnt' = cnt /\ cnt = 0
          /\ failed' = {} /\ Tester \in alive /\ TestTable
          /\ UNCHANGED <<alive, fds, reading>>
      BY <1>4 DEF Select, SysInv, vars, file, dir
    <2>2. \A fd \in Fds : fd >= FD_START => ~Held(fd) /\ ~Held(fd)'
      BY <1>1, <2>1 DEF Held, Fds
    <2>3. TestTable'
      BY <2>1, <2>2 DEF TestTable
    <2>4. \A t \in 1 .. 8 : 0 <= Len(Tests[t])
      BY Lengths
    <2>5. cnt' = IF test' = 3 THEN IF pc' >= FD_CNT - 1 THEN 1 ELSE 0 ELSE pc'
      BY <1>1, <2>1
    <2>6. /\ test' \in 0 .. 9 /\ pc' \in Nat
          /\ test' \in {0, 9} => pc' = 0
          /\ test' \in 1 .. 8 => pc' <= Len(Tests[test'])
      BY <2>1, <2>4
    <2>7. /\ (DOMAIN fds = Pids /\ DOMAIN fds[Tester] = Fds)'
          /\ (DOMAIN reading = Pids /\ reading[Tester] = NoRead)'
      BY <2>1 DEF SysInv
    <2>8. Tester \in alive' /\ failed' = {}
      BY <2>1
    <2>9. QED
      BY <2>3, <2>5, <2>6, <2>7, <2>8 DEF SysInv
  <1>5. CASE MakeCall
    BY <1>5, MakeCallStep
  <1>6. CASE EndTest
    BY <1>6, EndTestStep
  <1>7. CASE Finish
    <2>1. Halt(Tester)
      <3>1. irqh_syscall(Tester, OnFd(SYSC_HALT, 0))
        BY <1>7 DEF Finish
      <3>2. QED
        BY <3>1, CallFields DEF irqh_syscall, SYSC_HALT, SYSC_READ, SYSC_WRITE, SYSC_OPEN,
                                SYSC_CLOSE, SYSC_VIDMAP, SYSC_SIGRETURN
    <2>2. /\ DOMAIN fds' = Pids /\ DOMAIN fds'[Tester] = Fds /\ UNCHANGED reading
          /\ Tester \notin alive'
      BY <1>1, <2>1 DEF Halt, SysInv
    <2>3. test' = 0 /\ pc' = 0 /\ cnt' = 0 /\ failed' = {}
      BY <1>7 DEF Finish, SysInv
    <2>4. QED
      BY <2>2, <2>3 DEF SysInv
  <1>8. CASE Execute(Tester) /\ UNCHANGED script
    <2>1. /\ DOMAIN fds' = Pids /\ UNCHANGED reading /\ test = 0
          /\ fds'[Tester] = [i \in Fds |-> IF i < FD_START THEN Std(i) ELSE Unused]
          /\ UNCHANGED <<test, pc, cnt, failed>>
      BY <1>1, <1>8 DEF Execute, SysInv, dir, script
    <2>2. TestTable'
      BY <1>1, <2>1 DEF TestTable, Held, Fds, Unused
    <2>3. QED
      BY <2>1, <2>2 DEF SysInv
  <1>9. ASSUME NEW p \in Pids \ {Tester}, Step(p), UNCHANGED script
        PROVE  SysInv'
    BY <1>2, <1>9, Elsewhere
  <1>10. QED
    BY <1>3, <1>4, <1>5, <1>6, <1>7, <1>8, <1>9 DEF SysNext

(* ece391syserr.c reports no failure: with any number of descriptors, on   *)
(* any image that has "." and not the two names that are nearly right, and *)
(* whatever the other processes do between its calls, every wrong call is  *)
(* refused and exactly FD_CNT - 2 files can be opened.                     *)
THEOREM TestsPass == SysSpec => []SyserrPasses
  <1>1. SysInv => SyserrPasses
    BY DEF SysInv, SyserrPasses
  <1>2. QED
    BY <1>1, SysInvInit, SysInvStep, PTL DEF SysSpec
=============================================================================
