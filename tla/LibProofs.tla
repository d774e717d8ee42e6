------------------------------ MODULE LibProofs -----------------------------
(***************************************************************************)
(* Proofs about three of the parts that Lib calls: the memory routines,    *)
(* for a memory of any size (what each loop has written so far, and what   *)
(* it still finds at its source), the keys, for any set of them, and the   *)
(* routines that take command lines apart and write numbers.               *)
(***************************************************************************)
EXTENDS Memory, Keys, StringCalls, SequenceTheorems, WellFoundedInduction, TLAPS

MemSpec == MemInit /\ [][MemNext]_memvars

Copies == {"memcpy", "memmove"}
Calls  == [routine : {"none", "memset", "memset_word", "memset_dword"} \cup Copies,
           dest : Nat, src : Nat, n : Nat]

(* The bytes in one place of a memset that stores w of them at a time. *)
Width(a) == CASE a.routine = "memset_word"  -> 2
              [] a.routine = "memset_dword" -> 4
              [] OTHER                      -> 1

(* What the call a has to store at address b. *)
Wanted(a, b) == IF a.routine \in Copies THEN a.src + b - a.dest ELSE Fill

(* Memory when the addresses from lo up to hi are written and no others. *)
Image(a, lo, hi) == [b \in Bytes |-> IF b \in lo .. hi - 1 THEN Wanted(a, b) ELSE b]

(* The calls C allows. *)
Allowed(a) ==
    /\ a \in Calls
    /\ a.dest + Width(a) * a.n <= Size
    /\ a.routine \in Copies => a.src + a.n <= Size
    /\ a.routine = "memcpy" => a.dest <= a.src \/ a.src + a.n <= a.dest

(* edi bytes are written from the start of the destination on. *)
Upwards(a) == /\ edi \in Nat /\ edi >= a.dest
              /\ a.routine \in Copies => esi = a.src + edi - a.dest
              /\ mem = Image(a, a.dest, edi)

(* The inductive invariant: one clause for each loop. *)
MemInv ==
    /\ Allowed(args) /\ df \in BOOLEAN /\ ecx \in Nat /\ edx \in Nat
    /\ at \in {"top", "rep", "stos", "movsb", "done"}
    /\ at = "top" => /\ args.routine \in {"memset", "memcpy"}
                     /\ Upwards(args) /\ edi + ecx = args.dest + args.n
    /\ at = "rep" => /\ args.routine \in {"memset", "memcpy"} /\ df = FALSE
                     /\ Upwards(args) /\ edi + 4 * ecx + edx = args.dest + args.n
    /\ at = "stos" => /\ args.routine \in {"memset_word", "memset_dword"} /\ df = FALSE
                      /\ Upwards(args)
                      /\ edi + Width(args) * ecx = args.dest + Width(args) * args.n
    /\ at = "movsb" /\ ~df =>
         /\ args.routine = "memmove" /\ args.dest <= args.src
         /\ Upwards(args) /\ edi + ecx = args.dest + args.n
    /\ at = "movsb" /\ df =>
         /\ args.routine = "memmove" /\ args.src < args.dest /\ ecx <= args.n
         /\ edi = args.dest + ecx - 1 /\ esi = args.src + ecx - 1
         /\ mem = Image(args, args.dest + ecx, args.dest + args.n)
    /\ at = "done" => mem = Image(args, args.dest, args.dest + Width(args) * args.n)

-----------------------------------------------------------------------------
LEMMA Sizes == Size \in Nat /\ \A b : b \in Bytes <=> b \in Nat /\ b < Size
  BY MemoryAssumption DEF Bytes

(* The bytes from low to high join the ones that were written before, above *)
(* or below them.                                                          *)
LEMMA Grows ==
  ASSUME NEW a, NEW lo \in Int, NEW hi \in Int, NEW low \in Int, NEW high \in Int,
         NEW newlo \in Int, NEW newhi \in Int, lo <= hi, low <= high,
         \/ low = hi /\ newlo = lo /\ newhi = high
         \/ high = lo /\ newlo = low /\ newhi = hi,
         mem = Image(a, lo, hi),
         \A b \in Bytes : mem'[b] = IF b \in low .. high - 1 THEN Wanted(a, b) ELSE mem[b],
         mem' = [b \in Bytes |-> mem'[b]]
  PROVE  mem' = Image(a, newlo, newhi)
  <1>1. ASSUME NEW b \in Bytes
        PROVE  mem'[b] = IF b \in newlo .. newhi - 1 THEN Wanted(a, b) ELSE b
    <2>1. b \in Int
      BY Sizes
    <2>2. b \in newlo .. newhi - 1 <=> b \in lo .. hi - 1 \/ b \in low .. high - 1
      BY <2>1
    <2>3. mem[b] = IF b \in lo .. hi - 1 THEN Wanted(a, b) ELSE b
      BY DEF Image
    <2>4. QED
      BY <2>2, <2>3
  <1>2. QED
    BY <1>1 DEF Image

(* A source that nothing was written to still holds what it held. *)
LEMMA SourceIs ==
  ASSUME NEW lo, NEW hi, mem = Image(args, lo, hi), NEW i \in Int, NEW b \in Int,
         args.routine \in Copies =>
           /\ esi + i \in Bytes /\ esi + i \notin lo .. hi - 1
           /\ esi + i = args.src + b - args.dest
  PROVE  Source(i) = Wanted(args, b)
  <1>1. CASE args.routine \in Copies
    <2>1. mem[esi + i] = esi + i
      BY <1>1 DEF Image
    <2>2. QED
      BY <1>1, <2>1 DEF Source, Wanted, Copies
  <1>2. CASE args.routine \notin Copies
    BY <1>2 DEF Source, Wanted, Copies
  <1>3. QED
    BY <1>1, <1>2

(* A step upwards of w bytes, which fit. *)
LEMMA UpStep ==
  ASSUME MemInv, Upwards(args), args' = args, NEW w \in Nat, w > 0,
         edi + w <= args.dest + Width(args) * args.n,
         args.routine = "memmove" => args.dest <= args.src,
         \A b \in Bytes : mem'[b] = IF b \in edi .. edi + w - 1 THEN Source(b - edi) ELSE mem[b],
         mem' = [b \in Bytes |-> mem'[b]],
         edi' = edi + w, esi' = esi + w
  PROVE  Upwards(args)'
  <1>1. PICK d \in Nat, s \in Nat, n \in Nat : d = args.dest /\ s = args.src /\ n = args.n
    BY DEF MemInv, Allowed, Calls
  <1>2. PICK e \in Nat : e = edi /\ e >= d
    BY <1>1 DEF Upwards
  <1>3. mem = Image(args, d, e) /\ (args.routine \in Copies => esi = s + e - d)
    BY <1>1, <1>2 DEF Upwards
  <1>4. ASSUME NEW b \in Bytes, b \in e .. e + w - 1
        PROVE  Source(b - e) = Wanted(args, b)
    <2>1. b \in Nat /\ b < Size /\ b - e \in Int
      BY Sizes
    <2>2. ASSUME args.routine \in Copies
          PROVE  /\ esi + (b - e) \in Bytes /\ esi + (b - e) \notin d .. e - 1
                 /\ esi + (b - e) = s + b - d
      <3>1. /\ s + n <= Size /\ e + w <= d + n
            /\ d <= s \/ s + n <= d
        <4>1. Width(args) = 1
          BY <2>2 DEF Width, Copies
        <4>2. e + w <= d + n
          BY <1>1, <1>2, <4>1
        <4>3. QED
          BY <1>1, <2>2, <4>2 DEF MemInv, Allowed, Copies
      <3>2. esi = s + e - d
        BY <1>3, <2>2
      <3>3. PICK x \in Int : x = s + b - d
        BY <2>1
      <3>4. esi + (b - e) = x
        BY <2>1, <3>2, <3>3
      <3>5. x \in Nat /\ x < Size /\ x \notin d .. e - 1
        BY <1>2, <1>4, <2>1, <3>1, <3>3, Sizes
      <3>6. QED
        BY <3>3, <3>4, <3>5, Sizes
    <2>3. QED
      BY <1>1, <1>3, <2>1, <2>2, SourceIs
  <1>5. mem' = Image(args, d, e + w)
    <2>1. \A b \in Bytes : mem'[b] = IF b \in e .. (e + w) - 1 THEN Wanted(args, b) ELSE mem[b]
      BY <1>2, <1>4
    <2>2. d \in Int /\ e \in Int /\ e + w \in Int /\ d <= e /\ e <= e + w
      BY <1>2
    <2>3. QED
      BY <1>3, <2>1, <2>2, Grows
  <1>6. args.routine \in Copies => esi' = s + (e + w) - d
    BY <1>3
  <1>7. edi' = e + w /\ e + w \in Nat /\ e + w >= d
    BY <1>2
  <1>8. QED
    BY <1>1, <1>5, <1>6, <1>7 DEF Upwards

(* The two ways a step stores. *)
LEMMA StringStores ==
  ASSUME NEW w, StringOp(w)
  PROVE  /\ mem' = [b \in Bytes |-> mem'[b]]
         /\ \A b \in Bytes : mem'[b] = IF b \in edi .. edi + w - 1 THEN Source(b - edi) ELSE mem[b]
  BY DEF StringOp

LEMMA ByteStores ==
  ASSUME NEW a, NEW lo, NEW hi, mem = Image(a, lo, hi), edi \in Bytes, ByteMove
  PROVE  /\ mem' = [b \in Bytes |-> mem'[b]]
         /\ \A b \in Bytes : mem'[b] = IF b \in edi .. edi + 1 - 1 THEN Source(b - edi) ELSE mem[b]
  <1>1. mem = [b \in Bytes |-> mem[b]]
    BY DEF Image
  <1>2. mem' = [b \in Bytes |-> IF b = edi THEN Source(0) ELSE mem[b]]
    BY <1>1 DEF ByteMove
  <1>3. ASSUME NEW b \in Bytes
        PROVE  b \in edi .. edi + 1 - 1 <=> b = edi
    BY Sizes
  <1>4. edi - edi = 0
    BY Sizes
  <1>5. QED
    BY <1>2, <1>3, <1>4

LEMMA MemInvInit == MemInit => MemInv
  <1> SUFFICES ASSUME MemInit PROVE MemInv
    OBVIOUS
  <1>1. args \in Calls /\ args.routine = "none" /\ args.dest = 0 /\ args.n = 0 /\ args.src = 0
    BY DEF MemInit, Idle, Calls
  <1>2. Width(args) = 1
    BY <1>1 DEF Width
  <1>3. Allowed(args)
    BY <1>1, <1>2, Sizes DEF Allowed, Copies
  <1>4. mem = Image(args, 0, 0)
    BY DEF MemInit, Fresh, Image
  <1>5. args.dest + Width(args) * args.n = 0
    BY <1>1, <1>2
  <1>6. at = "done" /\ df \in BOOLEAN /\ ecx = 0 /\ edx = 0
    BY DEF MemInit
  <1>7. mem = Image(args, args.dest, args.dest + Width(args) * args.n)
    BY <1>1, <1>4, <1>5
  <1>8. QED
    BY <1>3, <1>6, <1>7 DEF MemInv

(* Before its first step a call has written nothing. *)
LEMMA FreshImage ==
  ASSUME NEW a, NEW d \in Int
  PROVE  Fresh = Image(a, d, d)
  <1>1. d .. d - 1 = {}
    OBVIOUS
  <1>2. QED
    BY <1>1 DEF Fresh, Image

LEMMA TopCall ==
  ASSUME MemInv, NEW d \in Bytes, NEW s \in Bytes, NEW n \in 0 .. Size, d + n <= Size,
         NEW r \in {"memset", "memcpy"}, Enter(r, d, s, n, "top"), df' = df,
         r = "memcpy" => s + n <= Size /\ (d <= s \/ s + n <= d)
  PROVE  MemInv'
  <1>1. d \in Nat /\ s \in Nat /\ n \in Nat
    BY Sizes
  <1>2. args' = [routine |-> r, dest |-> d, src |-> s, n |-> n]
    BY DEF Enter
  <1>3. args' \in Calls /\ Width(args)' = 1
    BY <1>1, <1>2 DEF Calls, Copies, Width
  <1>4. Allowed(args)'
    BY <1>1, <1>2, <1>3 DEF Allowed, Copies
  <1>5. mem' = Image(args', d, d)
    BY <1>1, FreshImage DEF Enter
  <1>6. edi' = d /\ esi' = s /\ ecx' = n /\ edx' = 0 /\ at' = "top"
    BY DEF Enter
  <1>7. Upwards(args)'
    BY <1>1, <1>2, <1>5, <1>6 DEF Upwards
  <1>8. QED
    BY <1>1, <1>2, <1>4, <1>6, <1>7 DEF MemInv

LEMMA WideCall ==
  ASSUME MemInv, NEW d \in Bytes, NEW n \in 0 .. Size, NEW w \in {2, 4}, d + n * w <= Size,
         memset_wide(d, n, w)
  PROVE  MemInv'
  <1>1. d \in Nat /\ n \in Nat
    BY Sizes
  <1>2. PICK r : r = IF w = 2 THEN "memset_word" ELSE "memset_dword"
    OBVIOUS
  <1>3. args' = [routine |-> r, dest |-> d, src |-> d, n |-> n]
    BY <1>2 DEF memset_wide, Enter
  <1>4. args' \in Calls /\ Width(args)' = w /\ args'.routine \notin Copies
    BY <1>1, <1>2, <1>3 DEF Calls, Copies, Width
  <1>5. d + w * n <= Size
    BY <1>1
  <1>6. Allowed(args)'
    BY <1>3, <1>4, <1>5 DEF Allowed, Copies
  <1>7. mem' = Image(args', d, d)
    BY <1>1, FreshImage DEF memset_wide, Enter
  <1>8. edi' = d /\ ecx' = n /\ edx' = 0 /\ at' = "stos" /\ df' = FALSE
    BY DEF memset_wide, Enter
  <1>9. Upwards(args)'
    BY <1>1, <1>3, <1>4, <1>7, <1>8 DEF Upwards
  <1>10. edi' + Width(args)' * ecx' = args'.dest + Width(args)' * args'.n
    BY <1>1, <1>3, <1>4, <1>8
  <1>11. QED
    BY <1>1, <1>2, <1>3, <1>6, <1>8, <1>9, <1>10 DEF MemInv

LEMMA MoveCall ==
  ASSUME MemInv, NEW d \in Bytes, NEW s \in Bytes, NEW n \in 0 .. Size,
         d + n <= Size, s + n <= Size, memmove(d, s, n)
  PROVE  MemInv'
  <1>1. d \in Nat /\ s \in Nat /\ n \in Nat
    BY Sizes
  <1>2. args' = [routine |-> "memmove", dest |-> d, src |-> s, n |-> n]
    BY DEF memmove
  <1>3. args' \in Calls /\ Width(args)' = 1
    BY <1>1, <1>2 DEF Calls, Copies, Width
  <1>4. Allowed(args)'
    BY <1>1, <1>2, <1>3 DEF Allowed, Copies
  <1>5. ecx' = n /\ edx' = 0 /\ at' = "movsb" /\ df' = (s < d) /\ df' \in BOOLEAN /\ mem' = Fresh
    BY DEF memmove
  <1>6. CASE s >= d
    <2>1. edi' = d /\ esi' = s /\ df' = FALSE
      <3>1. ~(s < d)
        BY <1>1, <1>6
      <3>2. edi' = d /\ esi' = s
        BY <1>6 DEF memmove
      <3>3. df' = FALSE
        BY <1>5, <3>1, Zenon
      <3>4. QED
        BY <3>2, <3>3
    <2>2. mem' = Image(args', d, d)
      BY <1>1, <1>5, FreshImage
    <2>3. Upwards(args)'
      BY <1>1, <1>2, <2>1, <2>2 DEF Upwards
    <2>4. QED
      BY <1>1, <1>2, <1>4, <1>5, <1>6, <2>1, <2>3 DEF MemInv
  <1>7. CASE ~(s >= d)
    <2>1. edi' = d + n - 1 /\ esi' = s + n - 1 /\ df' = TRUE
      <3>1. s < d
        BY <1>1, <1>7
      <3>2. edi' = d + n - 1 /\ esi' = s + n - 1
        BY <1>7 DEF memmove
      <3>3. df' = TRUE
        BY <1>5, <3>1, Zenon
      <3>4. QED
        BY <3>2, <3>3
    <2>2. mem' = Image(args', d + n, d + n)
      BY <1>1, <1>5, FreshImage
    <2>3. QED
      BY <1>1, <1>2, <1>4, <1>5, <1>7, <2>1, <2>2 DEF MemInv
  <1>8. QED
    BY <1>6, <1>7

-----------------------------------------------------------------------------
(* The numbers of a call. *)
LEMMA CallFacts ==
  ASSUME MemInv
  PROVE  /\ args.dest \in Nat /\ args.src \in Nat /\ args.n \in Nat
         /\ Width(args) \in {1, 2, 4} /\ ecx \in Nat /\ edx \in Nat
         /\ args.routine \in {"memset", "memcpy", "memmove"} => Width(args) = 1
         /\ args.dest + Width(args) * args.n <= Size
  BY DEF MemInv, Allowed, Calls, Width

LEMMA TopStep ==
  ASSUME MemInv, Top
  PROVE  MemInv'
  <1>1. PICK d \in Nat, n \in Nat, c \in Nat : d = args.dest /\ n = args.n /\ c = ecx
    BY CallFacts
  <1>2. /\ args.routine \in {"memset", "memcpy"} /\ Upwards(args) /\ c # 0 /\ edi + c = d + n
        /\ at = "top" /\ Width(args) = 1
    BY <1>1, CallFacts DEF Top, MemInv
  <1>3. /\ UNCHANGED <<edx, df, at, args>> /\ ecx' = c - 1
        /\ edi' = edi + 1 /\ esi' = esi + 1 /\ ByteMove
    BY <1>1 DEF Top, ByteMove
  <1>4. PICK e \in Nat : e = edi /\ e + c = d + n /\ e < Size
    <2>1. d + n <= Size
      BY <1>1, <1>2, CallFacts
    <2>2. PICK e \in Nat : e = edi
      BY <1>2 DEF Upwards
    <2>3. e + c = d + n
      BY <1>2, <2>2
    <2>4. e < Size
      BY <1>2, <2>1, <2>3, Sizes
    <2>5. QED
      BY <2>2, <2>3, <2>4
  <1>5. edi \in Bytes /\ edi + 1 <= args.dest + Width(args) * args.n
    BY <1>1, <1>2, <1>4, Sizes
  <1>6. /\ mem' = [b \in Bytes |-> mem'[b]]
        /\ \A b \in Bytes : mem'[b] = IF b \in edi .. edi + 1 - 1 THEN Source(b - edi) ELSE mem[b]
    BY <1>2, <1>3, <1>5, ByteStores DEF Upwards
  <1>7. Upwards(args)'
    BY <1>2, <1>3, <1>5, <1>6, UpStep
  <1>8. c - 1 \in Nat /\ edi' + ecx' = d + n
    BY <1>2, <1>3, <1>4
  <1>9. Allowed(args)' /\ df' \in BOOLEAN /\ edx' \in Nat
    BY <1>3 DEF MemInv
  <1>10. QED
    BY <1>1, <1>2, <1>3, <1>7, <1>8, <1>9 DEF MemInv

LEMMA Fourths ==
  ASSUME NEW c \in Nat
  PROVE  c \div 4 \in Nat /\ c % 4 \in Nat /\ 4 * (c \div 4) + (c % 4) = c
  OBVIOUS

LEMMA AlignedStep ==
  ASSUME MemInv, Aligned
  PROVE  MemInv'
  <1>1. PICK c \in Nat, q \in Nat, r \in Nat : c = ecx /\ q = c \div 4 /\ r = c % 4 /\ 4 * q + r = c
    BY CallFacts, Fourths
  <1>2. /\ args.routine \in {"memset", "memcpy"} /\ Upwards(args)
        /\ edi + c = args.dest + args.n /\ at = "top" /\ edi \in Nat
    BY <1>1 DEF Aligned, MemInv, Upwards
  <1>3. /\ UNCHANGED <<mem, esi, edi, args>> /\ ecx' = q /\ edx' = r /\ df' = FALSE /\ at' = "rep"
    BY <1>1 DEF Aligned, cld
  <1>4. Upwards(args)' /\ Allowed(args)'
    BY <1>2, <1>3 DEF Upwards, MemInv
  <1>5. edi + 4 * q + r = args.dest + args.n
    BY <1>1, <1>2
  <1>6. QED
    BY <1>2, <1>3, <1>4, <1>5 DEF MemInv

LEMMA RepStep ==
  ASSUME MemInv, Rep
  PROVE  MemInv'
  <1>1. PICK d \in Nat, n \in Nat, c \in Nat, x \in Nat :
          d = args.dest /\ n = args.n /\ c = ecx /\ x = edx
    BY CallFacts
  <1>2. /\ args.routine \in {"memset", "memcpy"} /\ Upwards(args) /\ c # 0
        /\ edi + 4 * c + x = d + n
        /\ at = "rep" /\ Width(args) = 1 /\ df = FALSE
    BY <1>1, CallFacts DEF Rep, MemInv
  <1>3. /\ UNCHANGED <<edx, df, at, args>> /\ ecx' = c - 1 /\ StringOp(4)
        /\ edi' = edi + 4 /\ esi' = esi + 4
    BY <1>1, <1>2 DEF Rep, StringOp
  <1>4. PICK e \in Nat : e = edi /\ e + 4 * c + x = d + n
    BY <1>2 DEF Upwards
  <1>5. edi + 4 <= args.dest + Width(args) * args.n
    BY <1>1, <1>2, <1>4
  <1>6. Upwards(args)'
    BY <1>2, <1>3, <1>5, StringStores, UpStep
  <1>7. c - 1 \in Nat /\ edi' + 4 * ecx' + edx' = d + n
    BY <1>1, <1>2, <1>3, <1>4
  <1>8. Allowed(args)' /\ edx' \in Nat
    BY <1>1, <1>3 DEF MemInv
  <1>9. QED
    BY <1>1, <1>2, <1>3, <1>6, <1>7, <1>8 DEF MemInv

LEMMA BottomStep ==
  ASSUME MemInv, Bottom
  PROVE  MemInv'
  <1>1. PICK d \in Nat, n \in Nat, x \in Nat : d = args.dest /\ n = args.n /\ x = edx
    BY CallFacts
  <1>2. /\ args.routine \in {"memset", "memcpy"} /\ Upwards(args) /\ ecx = 0 /\ x # 0
        /\ at = "rep" /\ Width(args) = 1 /\ df = FALSE
        /\ edi + 4 * 0 + x = d + n
    BY <1>1, CallFacts DEF Bottom, MemInv
  <1>3. /\ UNCHANGED <<ecx, df, at, args>> /\ edx' = x - 1 /\ ByteMove
        /\ edi' = edi + 1 /\ esi' = esi + 1
    BY <1>1 DEF Bottom, ByteMove
  <1>4. PICK e \in Nat : e = edi /\ e + x = d + n /\ e < Size
    <2>1. d + n <= Size
      BY <1>1, <1>2, CallFacts
    <2>2. PICK e \in Nat : e = edi
      BY <1>2 DEF Upwards
    <2>3. e + x = d + n
      BY <1>2, <2>2
    <2>4. e < Size
      BY <1>2, <2>1, <2>3, Sizes
    <2>5. QED
      BY <2>2, <2>3, <2>4
  <1>5. edi \in Bytes /\ edi + 1 <= args.dest + Width(args) * args.n
    BY <1>1, <1>2, <1>4, Sizes
  <1>6. /\ mem' = [b \in Bytes |-> mem'[b]]
        /\ \A b \in Bytes : mem'[b] = IF b \in edi .. edi + 1 - 1 THEN Source(b - edi) ELSE mem[b]
    BY <1>2, <1>3, <1>5, ByteStores DEF Upwards
  <1>7. Upwards(args)'
    BY <1>2, <1>3, <1>5, <1>6, UpStep
  <1>8. x - 1 \in Nat /\ edi' + 4 * ecx' + edx' = d + n
    BY <1>2, <1>3, <1>4
  <1>9. Allowed(args)'
    BY <1>3 DEF MemInv
  <1>10. QED
    BY <1>1, <1>2, <1>3, <1>7, <1>8, <1>9 DEF MemInv

LEMMA StosStep ==
  ASSUME MemInv, Stos
  PROVE  MemInv'
  <1>1. PICK d \in Nat, n \in Nat, c \in Nat : d = args.dest /\ n = args.n /\ c = ecx
    BY CallFacts
  <1>2. PICK w \in {2, 4} : w = Width(args)
                            /\ w = IF args.routine = "memset_word" THEN 2 ELSE 4
    BY DEF Stos, MemInv, Width
  <1>3. /\ args.routine \in {"memset_word", "memset_dword"} /\ Upwards(args) /\ c # 0
        /\ edi + w * c = d + w * n /\ at = "stos" /\ df = FALSE
    BY <1>1, <1>2 DEF Stos, MemInv
  <1>4. /\ UNCHANGED <<edx, df, at, args>> /\ ecx' = c - 1 /\ StringOp(w)
        /\ edi' = edi + w /\ esi' = esi + w
    BY <1>1, <1>2, <1>3 DEF Stos, StringOp
  <1>5. PICK e \in Nat : e = edi /\ e + w * c = d + w * n
    BY <1>3 DEF Upwards
  <1>6. edi + w <= args.dest + Width(args) * args.n
    BY <1>1, <1>2, <1>3, <1>5
  <1>7. Upwards(args)'
    BY <1>3, <1>4, <1>6, StringStores, UpStep
  <1>8. c - 1 \in Nat /\ edi' + w * ecx' = d + w * n
    BY <1>3, <1>4, <1>5
  <1>9. Allowed(args)' /\ edx' \in Nat /\ Width(args)' = w
    BY <1>2, <1>4 DEF MemInv
  <1>10. QED
    BY <1>1, <1>3, <1>4, <1>7, <1>8, <1>9 DEF MemInv

(* movsb with the flag clear goes up, with the flag set down from the end. *)
LEMMA MovsbStep ==
  ASSUME MemInv, Movsb
  PROVE  MemInv'
  <1>1. PICK d \in Nat, s \in Nat, n \in Nat, c \in Nat :
          d = args.dest /\ s = args.src /\ n = args.n /\ c = ecx
    BY CallFacts
  <1>2. /\ UNCHANGED <<edx, df, at, args>> /\ ecx' = c - 1 /\ StringOp(1)
        /\ c # 0 /\ at = "movsb"
    BY <1>1 DEF Movsb
  <1>3. c - 1 \in Nat
    BY <1>2
  <1>4. Allowed(args)' /\ edx' \in Nat /\ df' \in BOOLEAN
    BY <1>2 DEF MemInv
  <1>5. CASE ~df
    <2>1. /\ args.routine = "memmove" /\ args.dest <= args.src
          /\ Upwards(args) /\ edi + c = d + n /\ Width(args) = 1
      BY <1>1, <1>2, <1>5, CallFacts DEF MemInv
    <2>2. edi' = edi + 1 /\ esi' = esi + 1
      BY <1>2, <1>5 DEF StringOp
    <2>3. PICK e \in Nat : e = edi /\ e + c = d + n
      BY <2>1 DEF Upwards
    <2>4. edi + 1 <= args.dest + Width(args) * args.n
      BY <1>1, <1>2, <2>1, <2>3
    <2>5. Upwards(args)'
      BY <1>2, <2>1, <2>2, <2>4, StringStores, UpStep
    <2>6. edi' + ecx' = d + n
      BY <1>2, <2>2, <2>3
    <2>7. QED
      BY <1>1, <1>2, <1>3, <1>4, <1>5, <2>1, <2>5, <2>6 DEF MemInv
  <1>6. CASE df
    <2>1. /\ args.routine = "memmove" /\ s < d /\ c <= n /\ edi = d + c - 1 /\ esi = s + c - 1
          /\ mem = Image(args, d + c, d + n) /\ Width(args) = 1
      BY <1>1, <1>2, <1>6, CallFacts DEF MemInv
    <2>2. d + n <= Size
      BY <1>1, <2>1, CallFacts
    <2>3. edi' = edi - 1 /\ esi' = esi - 1
      BY <1>2, <1>6 DEF StringOp
    <2>4. ASSUME NEW b \in Bytes, b \in d + c - 1 .. (d + c) - 1
          PROVE  Source(b - edi) = Wanted(args, b)
      <3>1. b = d + c - 1 /\ b \in Int /\ b - edi \in Int /\ b - edi = 0
        BY <2>1, <2>4, Sizes
      <3>2. PICK y \in Int : y = s + c - 1
        OBVIOUS
      <3>3. y \in Bytes /\ y \notin d + c .. d + n - 1
        BY <1>2, <2>1, <2>2, <3>2, Sizes
      <3>4. esi + (b - edi) = y /\ y = s + b - d
        BY <2>1, <3>1, <3>2
      <3>5. PICK i \in Int : i = b - edi /\ esi + i = y
        BY <3>1, <3>4
      <3>6. /\ esi + i \in Bytes /\ esi + i \notin (d + c) .. (d + n) - 1
            /\ esi + i = args.src + b - args.dest
        BY <1>1, <3>3, <3>4, <3>5
      <3>7. Source(i) = Wanted(args, b)
        BY <2>1, <3>1, <3>6, SourceIs
      <3>8. QED
        BY <3>5, <3>7
    <2>5. \A b \in Bytes : mem'[b] = IF b \in d + c - 1 .. (d + c) - 1 THEN Wanted(args, b)
                                                                       ELSE mem[b]
      <3>1. edi .. edi + 1 - 1 = d + c - 1 .. (d + c) - 1
        BY <2>1
      <3>2. QED
        BY <1>2, <2>4, <3>1, StringStores
    <2>6. mem' = Image(args, d + c - 1, d + n)
      <3>1. /\ d + c - 1 \in Int /\ d + c \in Int /\ d + n \in Int
            /\ d + c <= d + n /\ d + c - 1 <= d + c
        BY <2>1
      <3>2. mem' = [b \in Bytes |-> mem'[b]]
        BY <1>2, StringStores
      <3>3. QED
        BY <2>1, <2>5, <3>1, <3>2, Grows
    <2>7. d + (c - 1) = d + c - 1 /\ c - 1 <= n
      BY <2>1
    <2>8. edi' = d + (c - 1) - 1 /\ esi' = s + (c - 1) - 1
      BY <2>1, <2>3
    <2>9. mem' = Image(args', args'.dest + ecx', args'.dest + args'.n)
      BY <1>1, <1>2, <2>6, <2>7
    <2>10. QED
      BY <1>1, <1>2, <1>3, <1>4, <1>6, <2>1, <2>7, <2>8, <2>9 DEF MemInv
  <1>7. QED
    BY <1>5, <1>6

(* Every loop that has nothing left has reached the end of the call. *)
LEMMA DoneStep ==
  ASSUME MemInv, Done
  PROVE  MemInv'
  <1>1. PICK d \in Nat, n \in Nat, c \in Nat, w \in {1, 2, 4} :
          d = args.dest /\ n = args.n /\ c = ecx /\ w = Width(args)
    BY CallFacts
  <1>2. UNCHANGED <<mem, ecx, edx, df, args>> /\ at' = "done" /\ c = 0
    BY <1>1 DEF Done, registers
  <1>3. mem = Image(args, d, d + w * n)
    <2>1. CASE at = "top"
      <3>1. Upwards(args) /\ edi + c = d + n /\ w = 1
        BY <1>1, <2>1, CallFacts DEF MemInv
      <3>2. edi = d + w * n
        BY <1>2, <3>1 DEF Upwards
      <3>3. QED
        BY <1>1, <3>1, <3>2 DEF Upwards
    <2>2. CASE at = "rep"
      <3>1. Upwards(args) /\ edi + 4 * c + edx = d + n /\ w = 1 /\ edx = 0
        BY <1>1, <2>2, CallFacts DEF MemInv, Done
      <3>2. edi = d + w * n
        BY <1>2, <3>1 DEF Upwards
      <3>3. QED
        BY <1>1, <3>1, <3>2 DEF Upwards
    <2>3. CASE at = "stos"
      <3>1. Upwards(args) /\ edi + w * c = d + w * n
        BY <1>1, <2>3 DEF MemInv
      <3>2. edi = d + w * n
        BY <1>2, <3>1 DEF Upwards
      <3>3. QED
        BY <1>1, <3>1, <3>2 DEF Upwards
    <2>4. CASE at = "movsb" /\ ~df
      <3>1. Upwards(args) /\ edi + c = d + n /\ w = 1
        BY <1>1, <2>4, CallFacts DEF MemInv
      <3>2. edi = d + w * n
        BY <1>2, <3>1 DEF Upwards
      <3>3. QED
        BY <1>1, <3>1, <3>2 DEF Upwards
    <2>5. CASE at = "movsb" /\ df
      <3>1. mem = Image(args, d + c, d + n) /\ w = 1
        BY <1>1, <2>5, CallFacts DEF MemInv
      <3>2. d + c = d /\ d + n = d + w * n
        BY <1>2, <3>1
      <3>3. QED
        BY <3>1, <3>2
    <2>6. QED
      BY <2>1, <2>2, <2>3, <2>4, <2>5 DEF Done
  <1>4. Allowed(args)' /\ df' \in BOOLEAN /\ ecx' \in Nat /\ edx' \in Nat
    BY <1>2 DEF MemInv
  <1>5. mem' = Image(args', args'.dest, args'.dest + Width(args') * args'.n)
    BY <1>1, <1>2, <1>3
  <1>6. QED
    BY <1>2, <1>4, <1>5 DEF MemInv

LEMMA MemInvNext == MemInv /\ [MemNext]_memvars => MemInv'
  <1> SUFFICES ASSUME MemInv, [MemNext]_memvars PROVE MemInv'
    OBVIOUS
  <1>1. ASSUME NEW d \in Bytes, NEW n \in 0 .. Size, d + n <= Size, memset(d, n)
        PROVE  MemInv'
    BY <1>1, TopCall DEF memset
  <1>2. ASSUME NEW d \in Bytes, NEW n \in 0 .. Size, NEW w \in {2, 4}, d + n * w <= Size,
               memset_wide(d, n, w)
        PROVE  MemInv'
    BY <1>2, WideCall
  <1>3. ASSUME NEW d \in Bytes, NEW n \in 0 .. Size, NEW s \in Bytes,
               d + n <= Size, s + n <= Size, memmove(d, s, n)
        PROVE  MemInv'
    BY <1>3, MoveCall
  <1>4. ASSUME NEW d \in Bytes, NEW n \in 0 .. Size, NEW s \in Bytes,
               d + n <= Size, s + n <= Size, d <= s \/ s + n <= d, memcpy(d, s, n)
        PROVE  MemInv'
    BY <1>4, TopCall DEF memcpy
  <1>5. CASE UNCHANGED memvars
    BY <1>5 DEF memvars, registers, MemInv, Upwards
  <1>6. QED
    BY <1>1, <1>2, <1>3, <1>4, <1>5, TopStep, AlignedStep, RepStep, BottomStep, StosStep,
       MovsbStep, DoneStep DEF MemNext

(* memset, memset_word, memset_dword, memcpy and memmove of lib.c: in a    *)
(* memory of any size, whatever was called before and however it left the  *)
(* direction flag, a call that returns has written exactly the bytes it    *)
(* was asked to write, with the fill byte or with what the source held     *)
(* before the call, for every alignment, length and overlap C allows.      *)
THEOREM MemoryCorrect == MemSpec => []MemoryRight
  <1>1. MemInv => MemoryRight
    <2> SUFFICES ASSUME MemInv, at = "done" PROVE MemoryRight
      BY DEF MemoryRight
    <2>1. PICK d \in Nat, n \in Nat, w \in {1, 2, 4} :
            d = args.dest /\ n = args.n /\ w = Width(args)
      BY CallFacts
    <2>2. Extent = w * n
      <3>1. CASE args.routine = "memset_word"
        BY <2>1, <3>1 DEF Extent, Width
      <3>2. CASE args.routine = "memset_dword"
        BY <2>1, <3>2 DEF Extent, Width
      <3>3. CASE args.routine \notin {"memset_word", "memset_dword"}
        BY <2>1, <3>3 DEF Extent, Width
      <3>4. QED
        BY <3>1, <3>2, <3>3
    <2>3. mem = Image(args, d, d + w * n)
      BY <2>1 DEF MemInv
    <2>4. QED
      BY <2>1, <2>2, <2>3 DEF MemoryRight, Image, Wanted, Copies
  <1>2. QED
    BY <1>1, MemInvInit, MemInvNext, PTL DEF MemSpec

-----------------------------------------------------------------------------
(* Keys *)

KeysSpec == KeysInit /\ [][KeysNext]_keyvars

CAPS   == SCS1_PRESSED_CAPSLOCK
CTRL   == SCS1_PRESSED_LEFTCTRL
NUM    == SCS1_PRESSED_NUMLOCK
PREFIX == SCS1_MULTIBYTE
UP     == SCS1_KEYPRESS_RELEASE_OFFSET

(* The kernel has recorded the keys that are down, and extra ones. *)
Recorded(extra) == key_state \ {CAPS} = (pressed \ {CAPS, Arrow}) \cup extra
LockRecorded ==
    /\ CAPS \in key_state <=> Lit
    /\ caps_lock_repeat = IF CAPS \in pressed THEN 1 ELSE 0

(* Prefixed bytes, before a prefix and behind one. *)
Second == 0 .. 223
Paired(w) ==
    /\ w \in Seq(0 .. 255)
    /\ \E n \in Nat : /\ Len(w) = 2 * n
                      /\ \A j \in 1 .. n : w[2 * j - 1] = PREFIX /\ w[2 * j] \in Second
Halved(w) ==
    /\ w \in Seq(0 .. 255)
    /\ \E n \in Nat : /\ Len(w) = 2 * n + 1 /\ w[1] \in Second
                      /\ \A j \in 1 .. n : w[2 * j] = PREFIX /\ w[2 * j + 1] \in Second

(* What is left of the bytes of pause, and the keys it holds meanwhile. *)
Pausing(w, extra) ==
    \/ w = <<PausePrefix, CTRL, NUM, PausePrefix, CTRL + UP, NUM + UP>> /\ extra = {}
    \/ w = <<CTRL, NUM, PausePrefix, CTRL + UP, NUM + UP>> /\ extra = {}
    \/ w = <<NUM, PausePrefix, CTRL + UP, NUM + UP>> /\ extra = {CTRL}
    \/ w = <<PausePrefix, CTRL + UP, NUM + UP>> /\ extra = {CTRL, NUM}
    \/ w = <<CTRL + UP, NUM + UP>> /\ extra = {CTRL, NUM}
    \/ w = <<NUM + UP>> /\ extra = {NUM}

(* A press or a release is on its way, and all else is recorded. *)
Pressing(k) ==
    /\ k \in pressed
    /\ key_state \ {CAPS, k} = pressed \ {CAPS, Arrow, k}
    /\ k # CAPS => LockRecorded
    /\ k = CAPS => \/ caps_lock_repeat = 0 /\ (CAPS \in key_state <=> ~Lit)
                   \/ caps_lock_repeat = 1 /\ Lit

Releasing(k) ==
    /\ k \notin pressed
    /\ key_state \ {CAPS, k} = pressed \ {CAPS, Arrow}
    /\ CAPS \in key_state <=> Lit
    /\ k # CAPS => LockRecorded

(* The inductive invariant: what the bytes on the wire still have to tell  *)
(* is all that the kernel does not know of the keys.                       *)
KeysInv ==
    /\ pressed \subseteq Simple \cup {Arrow} /\ locked \in BOOLEAN /\ reversed \in BOOLEAN
    /\ \/ Recorded({}) /\ LockRecorded /\ multi_byte = 0 /\ Paired(wire)
       \/ Recorded({}) /\ LockRecorded /\ multi_byte = 1 /\ Halved(wire)
       \/ multi_byte = 0 /\ \E k \in Simple : wire = <<k>> /\ Pressing(k)
       \/ multi_byte = 0 /\ \E k \in Simple : wire = <<k + UP>> /\ Releasing(k)
       \/ /\ multi_byte = 0 /\ LockRecorded
          /\ \E extra : Pausing(wire, extra) /\ Recorded(extra)

LEMMA Codes ==
  /\ CAPS = 58 /\ CTRL = 29 /\ NUM = 69 /\ PREFIX = 224 /\ UP = 128 /\ Arrow = 72
  /\ SCS1_PRESSED_A = 30 /\ SCS1_PRESSED_1 = 2 /\ SCS1_PRESSED_SPACE = 57
  /\ SCS1_PRESSED_LEFTSHIFT = 42 /\ SCS1_PRESSED_RIGHTSHIFT = 54 /\ PausePrefix = 225
  /\ \A k \in Simple : k \in 1 .. 87 /\ k # CTRL /\ k # NUM /\ k # Arrow
  /\ CAPS \in Simple
  <1> USE DEF SCS1_PRESSED_CAPSLOCK, SCS1_PRESSED_LEFTCTRL, SCS1_PRESSED_NUMLOCK,
              SCS1_MULTIBYTE, SCS1_KEYPRESS_RELEASE_OFFSET, SCS1_PRESSED_KP8,
              SCS1_PRESSED_A, SCS1_PRESSED_1, SCS1_PRESSED_SPACE, SCS1_PRESSED_F12,
              SCS1_PRESSED_LEFTSHIFT, SCS1_PRESSED_RIGHTSHIFT, PausePrefix
  <1>1. \A k \in Others : k \in 1 .. 87 /\ k # CTRL /\ k # NUM /\ k # Arrow
    BY OthersAssumption DEF CTRL, NUM, Arrow
  <1>2. QED
    BY <1>1 DEF CAPS, CTRL, NUM, PREFIX, UP, Arrow, Simple, Printing, Shifts

(* What a byte does, by its value. *)
LEMMA ByteEffect ==
  ASSUME NEW b \in 0 .. 255, handle_keypress(b)
  PROVE  /\ b = PREFIX => multi_byte' = 1 /\ UNCHANGED <<key_state, caps_lock_repeat>>
         /\ b # PREFIX /\ multi_byte = 1 =>
              multi_byte' = 0 /\ UNCHANGED <<key_state, caps_lock_repeat>>
         /\ multi_byte = 0 /\ b \in 1 .. 87 => Press(b)
         /\ multi_byte = 0 /\ b \in 129 .. 216 => LetGo(b - UP)
         /\ multi_byte = 0 /\ b = PausePrefix =>
              UNCHANGED <<key_state, caps_lock_repeat, multi_byte>>
  <1> USE DEF SCS1_PRESSED_F12, SCS1_RELEASED_F12
  <1>1. /\ SCS1_MULTIBYTE = PREFIX /\ SCS1_KEYPRESS_RELEASE_OFFSET = UP
        /\ PREFIX = 224 /\ UP = 128 /\ PausePrefix = 225
    BY Codes DEF PREFIX, UP
  <1>2. QED
    BY <1>1 DEF handle_keypress, Prefix

LEMMA NoBytes == Paired(<<>>)
  <1>1. <<>> \in Seq(0 .. 255) /\ 0 \in Nat /\ Len(<<>>) = 2 * 0
    OBVIOUS
  <1>2. QED
    BY <1>1 DEF Paired

LEMMA OnePair ==
  ASSUME NEW a \in Second
  PROVE  Paired(<<PREFIX, a>>)
  <1> DEFINE w == <<PREFIX, a>>
  <1>1. w \in Seq(0 .. 255) /\ Len(w) = 2 /\ w[1] = PREFIX /\ w[2] = a
    BY Codes DEF Second
  <1>2. \A j \in 1 .. 1 : 2 * j - 1 = 1 /\ 2 * j = 2
    OBVIOUS
  <1> HIDE DEF w
  <1>3. \A j \in 1 .. 1 : w[2 * j - 1] = PREFIX /\ w[2 * j] \in Second
    BY <1>1, <1>2
  <1>4. Len(w) = 2 * 1 /\ 1 \in Nat
    BY <1>1
  <1>5. Paired(w)
    BY <1>1, <1>3, <1>4 DEF Paired
  <1>6. QED
    BY <1>5 DEF w

LEMMA PairsJoin ==
  ASSUME NEW s, NEW t, Paired(s), Paired(t)
  PROVE  Paired(s \o t)
  <1>1. PICK m \in Nat : /\ Len(s) = 2 * m
                         /\ \A j \in 1 .. m : s[2 * j - 1] = PREFIX /\ s[2 * j] \in Second
    BY DEF Paired
  <1>2. PICK n \in Nat : /\ Len(t) = 2 * n
                         /\ \A j \in 1 .. n : t[2 * j - 1] = PREFIX /\ t[2 * j] \in Second
    BY DEF Paired
  <1>3. s \in Seq(0 .. 255) /\ t \in Seq(0 .. 255)
    BY DEF Paired
  <1>4. /\ s \o t \in Seq(0 .. 255) /\ Len(s \o t) = Len(s) + Len(t)
        /\ \A i \in 1 .. Len(s) + Len(t) :
             (s \o t)[i] = IF i <= Len(s) THEN s[i] ELSE t[i - Len(s)]
    BY <1>3, ConcatProperties
  <1>5. m + n \in Nat /\ Len(s \o t) = 2 * (m + n)
    BY <1>1, <1>2, <1>4
  <1>6. ASSUME NEW j \in 1 .. m + n
        PROVE  (s \o t)[2 * j - 1] = PREFIX /\ (s \o t)[2 * j] \in Second
    <2>1. CASE j <= m
      <3>1. /\ j \in 1 .. m
            /\ 2 * j \in 1 .. 2 * m + 2 * n /\ 2 * j <= 2 * m
            /\ 2 * j - 1 \in 1 .. 2 * m + 2 * n /\ 2 * j - 1 <= 2 * m
        BY <2>1
      <3>2. (s \o t)[2 * j - 1] = s[2 * j - 1] /\ (s \o t)[2 * j] = s[2 * j]
        BY <1>1, <1>2, <1>4, <3>1
      <3>3. QED
        BY <1>1, <3>1, <3>2
    <2>2. CASE ~(j <= m)
      <3>1. PICK k \in 1 .. n : k = j - m
        BY <2>2
      <3>2. /\ 2 * j \in 1 .. 2 * m + 2 * n /\ ~(2 * j <= 2 * m)
            /\ 2 * j - 1 \in 1 .. 2 * m + 2 * n /\ ~(2 * j - 1 <= 2 * m)
            /\ 2 * j - 2 * m = 2 * k /\ 2 * j - 1 - 2 * m = 2 * k - 1
        BY <2>2, <3>1
      <3>3. (s \o t)[2 * j - 1] = t[2 * k - 1] /\ (s \o t)[2 * j] = t[2 * k]
        BY <1>1, <1>2, <1>4, <3>2
      <3>4. QED
        BY <1>2, <3>1, <3>3
    <2>3. QED
      BY <2>1, <2>2
  <1>7. QED
    BY <1>4, <1>5, <1>6 DEF Paired

(* What an arrow key sends, with the shift keys hidden. *)
LEMMA ArrowBytes ==
  ASSUME NEW a \in Second
  PROVE  /\ Paired(Hidden(UP) \o <<PREFIX, a>>)
         /\ Paired(<<PREFIX, a>> \o Hidden(0))
         /\ Paired(<<PREFIX, a>>)
  <1>1. ASSUME NEW offset \in {0, UP}
        PROVE  Paired(Hidden(offset))
    <2>1. ASSUME NEW k \in {SCS1_PRESSED_LEFTSHIFT, SCS1_PRESSED_RIGHTSHIFT}
          PROVE  Paired(Hide(k, offset))
      <3>1. k + offset \in Second
        BY Codes DEF Second
      <3>2. QED
        BY <3>1, NoBytes, OnePair DEF Hide, PREFIX
    <2>2. QED
      BY <2>1, PairsJoin DEF Hidden
  <1>2. QED
    BY <1>1, OnePair, PairsJoin

(* Reading a prefix, and the byte behind it. *)
LEMMA PrefixRead ==
  ASSUME NEW w, Paired(w), w # <<>>
  PROVE  Head(w) = PREFIX /\ Halved(Tail(w))
  <1>1. PICK n \in Nat : /\ Len(w) = 2 * n
                         /\ \A j \in 1 .. n : w[2 * j - 1] = PREFIX /\ w[2 * j] \in Second
    BY DEF Paired
  <1>2. w \in Seq(0 .. 255)
    BY DEF Paired
  <1>3. n >= 1
    BY <1>1, <1>2
  <1>4. /\ Head(w) = w[1] /\ Tail(w) \in Seq(0 .. 255) /\ Len(Tail(w)) = Len(w) - 1
        /\ \A i \in 1 .. Len(w) - 1 : Tail(w)[i] = w[i + 1]
    BY <1>2, <1>1, <1>3
  <1>5. 1 \in 1 .. n /\ 2 * 1 - 1 = 1 /\ 2 * 1 = 2
    BY <1>3
  <1>6. w[1] = PREFIX /\ w[2] \in Second
    BY <1>1, <1>5
  <1>7. n - 1 \in Nat /\ Len(Tail(w)) = 2 * (n - 1) + 1 /\ Tail(w)[1] = w[2]
    BY <1>1, <1>3, <1>4
  <1>8. ASSUME NEW j \in 1 .. n - 1
        PROVE  Tail(w)[2 * j] = PREFIX /\ Tail(w)[2 * j + 1] \in Second
    <2>1. PICK k \in 1 .. n : k = j + 1
      BY <1>3
    <2>2. /\ 2 * j \in 1 .. Len(w) - 1 /\ 2 * j + 1 \in 1 .. Len(w) - 1
          /\ 2 * j + 1 = 2 * k - 1 /\ 2 * j + 1 + 1 = 2 * k
      BY <1>1, <2>1
    <2>3. QED
      BY <1>1, <1>4, <2>1, <2>2
  <1>9. QED
    BY <1>4, <1>6, <1>7, <1>8 DEF Halved

LEMMA SecondRead ==
  ASSUME NEW w, Halved(w)
  PROVE  w # <<>> /\ Head(w) \in Second /\ Paired(Tail(w))
  <1>1. PICK n \in Nat : /\ Len(w) = 2 * n + 1 /\ w[1] \in Second
                         /\ \A j \in 1 .. n : w[2 * j] = PREFIX /\ w[2 * j + 1] \in Second
    BY DEF Halved
  <1>2. w \in Seq(0 .. 255) /\ w # <<>>
    BY <1>1 DEF Halved
  <1>3. /\ Head(w) = w[1] /\ Tail(w) \in Seq(0 .. 255) /\ Len(Tail(w)) = 2 * n
        /\ \A i \in 1 .. 2 * n : Tail(w)[i] = w[i + 1]
    BY <1>1, <1>2
  <1>4. ASSUME NEW j \in 1 .. n
        PROVE  Tail(w)[2 * j - 1] = PREFIX /\ Tail(w)[2 * j] \in Second
    <2>1. /\ 2 * j - 1 \in 1 .. 2 * n /\ 2 * j \in 1 .. 2 * n
          /\ 2 * j - 1 + 1 = 2 * j
      OBVIOUS
    <2>2. QED
      BY <1>1, <1>3, <2>1
  <1>5. QED
    BY <1>1, <1>2, <1>3, <1>4 DEF Paired

(* The keyboard sends only when the kernel has read everything. *)
LEMMA Quiet ==
  ASSUME KeysInv, wire = <<>>
  PROVE  Recorded({}) /\ LockRecorded /\ multi_byte = 0
  <1>1. ~Halved(wire)
    BY SecondRead
  <1>2. \A k : wire # <<k>>
    OBVIOUS
  <1>3. \A extra : ~Pausing(wire, extra)
    BY DEF Pausing
  <1>4. QED
    BY <1>1, <1>2, <1>3 DEF KeysInv

(* Most steps leave the lock as it is. *)
LEMMA LitKept ==
  ASSUME UNCHANGED <<locked, reversed>>
  PROVE  Lit' <=> Lit
  BY DEF Lit

LEMMA KeysInvInit == KeysInit => KeysInv
  BY NoBytes DEF KeysInit, KeysInv, Recorded, LockRecorded, Lit

LEMMA KeyDownStep ==
  ASSUME KeysInv, NEW k \in Simple \cup {Arrow}, KeyDown(k)
  PROVE  KeysInv'
  <1>1. /\ wire = <<>> /\ UNCHANGED <<key_state, caps_lock_repeat, multi_byte>>
        /\ k \notin pressed /\ pressed' = pressed \cup {k}
        /\ locked' = (IF k = CAPS THEN ~locked ELSE locked) /\ reversed' = reversed
    BY DEF KeyDown, Sends, CAPS
  <1>2. Recorded({}) /\ LockRecorded /\ multi_byte = 0
    BY <1>1, Quiet
  <1>3. /\ pressed' \subseteq Simple \cup {Arrow}
        /\ locked' \in BOOLEAN /\ reversed' \in BOOLEAN /\ locked \in BOOLEAN
    BY <1>1 DEF KeysInv
  <1>7. IF k = CAPS THEN Lit' <=> ~Lit ELSE Lit' <=> Lit
    BY <1>1, <1>3 DEF Lit
  <1>4. CASE k = Arrow
    <2>1. k # CAPS /\ k \in Second
      BY <1>4, Codes DEF Second
    <2>2. wire' = Hidden(UP) \o <<PREFIX, k>>
      BY <1>4 DEF KeyDown, Sends, UP, PREFIX
    <2>3. Paired(wire')
      BY <2>1, <2>2, ArrowBytes
    <2>4. Recorded({})'
      BY <1>1, <1>2, <1>4 DEF Recorded
    <2>5. LockRecorded'
      BY <1>1, <1>2, <1>7, <2>1 DEF LockRecorded
    <2>6. QED
      BY <1>1, <1>2, <1>3, <2>3, <2>4, <2>5 DEF KeysInv
  <1>5. CASE k # Arrow
    <2>1. k \in Simple /\ wire' = <<k>>
      BY <1>5 DEF KeyDown, Sends
    <2>2. key_state' \ {CAPS, k} = pressed' \ {CAPS, Arrow, k}
      BY <1>1, <1>2 DEF Recorded
    <2>3. k # CAPS => LockRecorded'
      BY <1>1, <1>2, <1>7 DEF LockRecorded
    <2>4. k = CAPS => caps_lock_repeat' = 0 /\ (CAPS \in key_state' <=> ~Lit')
      BY <1>1, <1>2, <1>7 DEF LockRecorded
    <2>5. Pressing(k)'
      BY <1>1, <2>2, <2>3, <2>4 DEF Pressing
    <2>6. QED
      BY <1>1, <1>2, <1>3, <2>1, <2>5 DEF KeysInv
  <1>6. QED
    BY <1>4, <1>5

LEMMA KeyUpStep ==
  ASSUME KeysInv, NEW k \in Simple \cup {Arrow}, KeyUp(k)
  PROVE  KeysInv'
  <1>1. /\ wire = <<>> /\ UNCHANGED <<key_state, caps_lock_repeat, multi_byte, locked, reversed>>
        /\ k \in pressed /\ pressed' = pressed \ {k}
    BY DEF KeyUp, Sends
  <1>7. Lit' <=> Lit
    BY <1>1, LitKept
  <1>2. Recorded({}) /\ LockRecorded /\ multi_byte = 0
    BY <1>1, Quiet
  <1>3. pressed' \subseteq Simple \cup {Arrow} /\ locked' \in BOOLEAN /\ reversed' \in BOOLEAN
    BY <1>1 DEF KeysInv
  <1>4. CASE k = Arrow
    <2>1. k # CAPS /\ k + UP \in Second
      BY <1>4, Codes DEF Second
    <2>2. wire' = <<PREFIX, k + UP>> \o Hidden(0)
      BY <1>4 DEF KeyUp, Sends, UP, PREFIX
    <2>3. Paired(wire')
      BY <2>1, <2>2, ArrowBytes
    <2>4. Recorded({})'
      BY <1>1, <1>2, <1>4 DEF Recorded
    <2>5. LockRecorded'
      BY <1>1, <1>2, <1>7, <2>1 DEF LockRecorded
    <2>6. QED
      BY <1>1, <1>2, <1>3, <2>3, <2>4, <2>5 DEF KeysInv
  <1>5. CASE k # Arrow
    <2>1. k \in Simple /\ wire' = <<k + UP>>
      BY <1>5 DEF KeyUp, Sends, UP
    <2>2. key_state' \ {CAPS, k} = pressed' \ {CAPS, Arrow}
      BY <1>1, <1>2, <1>5 DEF Recorded
    <2>3. k # CAPS => LockRecorded'
      BY <1>1, <1>2, <1>7 DEF LockRecorded
    <2>4. CAPS \in key_state' <=> Lit'
      BY <1>1, <1>2, <1>7 DEF LockRecorded
    <2>5. Releasing(k)'
      BY <1>1, <2>2, <2>3, <2>4 DEF Releasing
    <2>6. QED
      BY <1>1, <1>2, <1>3, <2>1, <2>5 DEF KeysInv
  <1>6. QED
    BY <1>4, <1>5

LEMMA KeyRepeatsStep ==
  ASSUME KeysInv, NEW k \in Simple \cup {Arrow}, KeyRepeats(k)
  PROVE  KeysInv'
  <1>1. /\ wire = <<>> /\ UNCHANGED <<key_state, caps_lock_repeat, multi_byte, locked, pressed>>
        /\ k \in pressed /\ reversed' = IF k = CAPS THEN ~locked ELSE reversed
    BY DEF KeyRepeats, Sends, CAPS
  <1>2. Recorded({}) /\ LockRecorded /\ multi_byte = 0
    BY <1>1, Quiet
  <1>3. pressed' \subseteq Simple \cup {Arrow} /\ locked' \in BOOLEAN /\ reversed' \in BOOLEAN
    BY <1>1 DEF KeysInv
  <1>7. IF k = CAPS THEN Lit' ELSE Lit' <=> Lit
    BY <1>1, <1>3 DEF Lit
  <1>4. CASE k = Arrow
    <2>1. k \in Second
      BY <1>4, Codes DEF Second
    <2>2. wire' = <<PREFIX, k>>
      BY <1>4 DEF KeyRepeats, Sends, PREFIX
    <2>3. Paired(wire')
      BY <2>1, <2>2, ArrowBytes
    <2>4. Recorded({})' /\ LockRecorded'
      BY <1>1, <1>2, <1>4, <1>7, Codes DEF Recorded, LockRecorded
    <2>5. QED
      BY <1>1, <1>2, <1>3, <2>3, <2>4 DEF KeysInv
  <1>5. CASE k # Arrow
    <2>1. k \in Simple /\ wire' = <<k>>
      BY <1>5 DEF KeyRepeats, Sends
    <2>2. key_state' \ {CAPS, k} = pressed' \ {CAPS, Arrow, k}
      BY <1>1, <1>2 DEF Recorded
    <2>3. k # CAPS => LockRecorded'
      BY <1>1, <1>2, <1>7 DEF LockRecorded
    <2>4. k = CAPS => caps_lock_repeat' = 1 /\ Lit'
      BY <1>1, <1>2, <1>7 DEF LockRecorded
    <2>5. Pressing(k)'
      BY <1>1, <2>2, <2>3, <2>4 DEF Pressing
    <2>6. QED
      BY <1>1, <1>2, <1>3, <2>1, <2>5 DEF KeysInv
  <1>6. QED
    BY <1>4, <1>5

LEMMA KeyPauseStep ==
  ASSUME KeysInv, KeyPause
  PROVE  KeysInv'
  <1>1. /\ wire = <<>> /\ UNCHANGED <<key_state, caps_lock_repeat, multi_byte, locked, reversed, pressed>>
        /\ wire' = <<PausePrefix, CTRL, NUM, PausePrefix, CTRL + UP, NUM + UP>>
    BY DEF KeyPause, Sends, CTRL, NUM, UP
  <1>2. Recorded({}) /\ LockRecorded /\ multi_byte = 0
    BY <1>1, Quiet
  <1>3. Recorded({})' /\ LockRecorded'
    BY <1>1, <1>2, LitKept DEF Recorded, LockRecorded
  <1>4. Pausing(wire', {})
    BY <1>1 DEF Pausing
  <1>5. pressed' \subseteq Simple \cup {Arrow} /\ locked' \in BOOLEAN /\ reversed' \in BOOLEAN
    BY <1>1 DEF KeysInv
  <1>6. multi_byte' = 0 /\ \E extra : Pausing(wire, extra)' /\ Recorded(extra)'
    BY <1>1, <1>2, <1>3, <1>4 
  <1>7. QED
    BY <1>3, <1>5, <1>6 DEF KeysInv

(* The last byte of a key tells the kernel what it did not know. *)
LEMMA PressStep ==
  ASSUME NEW k \in Simple, Pressing(k), Press(k), UNCHANGED <<pressed, locked, reversed>>
  PROVE  Recorded({})' /\ LockRecorded'
  <1>1. k # Arrow /\ Arrow # CAPS
    BY Codes
  <1>2. CASE k # CAPS
    <2>1. key_state' = key_state \cup {k} /\ UNCHANGED caps_lock_repeat
      BY <1>2 DEF Press, CAPS
    <2>2. Recorded({})'
      BY <1>1, <1>2, <2>1 DEF Recorded, Pressing
    <2>3. LockRecorded'
      BY <1>2, <2>1, LitKept DEF Pressing, LockRecorded
    <2>4. QED
      BY <2>2, <2>3
  <1>3. CASE k = CAPS /\ caps_lock_repeat = 0
    <2>1. /\ key_state' = IF CAPS \in key_state THEN key_state \ {CAPS}
                          ELSE key_state \cup {CAPS}
          /\ caps_lock_repeat' = 1
      BY <1>3 DEF Press, CAPS, capslock_pressed
    <2>2. CAPS \in key_state <=> ~Lit
      BY <1>3 DEF Pressing
    <2>3. Recorded({})'
      BY <1>3, <2>1 DEF Recorded, Pressing
    <2>4. LockRecorded'
      BY <1>3, <2>1, <2>2, LitKept DEF Pressing, LockRecorded
    <2>5. QED
      BY <2>3, <2>4
  <1>4. CASE k = CAPS /\ caps_lock_repeat # 0
    <2>1. key_state' = key_state \cup {CAPS} /\ UNCHANGED caps_lock_repeat
      BY <1>4 DEF Press, CAPS
    <2>2. Recorded({})'
      BY <1>4, <2>1 DEF Recorded, Pressing
    <2>3. LockRecorded'
      BY <1>4, <2>1, LitKept DEF Pressing, LockRecorded
    <2>4. QED
      BY <2>2, <2>3
  <1>5. QED
    BY <1>2, <1>3, <1>4

LEMMA ReleaseStep ==
  ASSUME NEW k \in Simple, Releasing(k), LetGo(k), UNCHANGED <<pressed, locked, reversed>>
  PROVE  Recorded({})' /\ LockRecorded'
  <1>1. CASE k = CAPS
    <2>1. caps_lock_repeat' = 0 /\ UNCHANGED key_state
      BY <1>1 DEF LetGo, CAPS
    <2>2. QED
      BY <1>1, <2>1, LitKept DEF Releasing, Recorded, LockRecorded
  <1>2. CASE k # CAPS
    <2>1. key_state' = key_state \ {k} /\ UNCHANGED caps_lock_repeat
      BY <1>2 DEF LetGo, CAPS
    <2>2. Recorded({})'
      BY <1>2, <2>1 DEF Releasing, Recorded
    <2>3. LockRecorded'
      BY <1>2, <2>1, LitKept DEF Releasing, LockRecorded
    <2>4. QED
      BY <2>2, <2>3
  <1>3. QED
    BY <1>1, <1>2

(* Each byte of pause borrows a key, gives it back, or is ignored. *)
LEMMA PauseStep ==
  ASSUME KeysInv, NEW extra, Pausing(wire, extra), Recorded(extra), LockRecorded,
         multi_byte = 0, irqh_keyboard
  PROVE  KeysInv'
  <1>1. /\ handle_keypress(Head(wire)) /\ wire' = Tail(wire)
        /\ UNCHANGED <<pressed, locked, reversed>>
    BY DEF irqh_keyboard
  <1>2. /\ CTRL \notin pressed /\ NUM \notin pressed /\ CTRL # NUM /\ CTRL # CAPS
        /\ NUM # CAPS /\ CTRL \in 1 .. 87 /\ NUM \in 1 .. 87
        /\ CTRL + UP \in 129 .. 216 /\ NUM + UP \in 129 .. 216
        /\ CTRL + UP - UP = CTRL /\ NUM + UP - UP = NUM
        /\ PausePrefix \in 0 .. 255 /\ PausePrefix \notin 1 .. 87
    BY Codes DEF KeysInv
  <1>3. pressed' \subseteq Simple \cup {Arrow} /\ locked' \in BOOLEAN /\ reversed' \in BOOLEAN
    BY <1>1 DEF KeysInv
  <1>4. ASSUME NEW rest, Pausing(wire', rest), Recorded(rest)', LockRecorded',
               multi_byte' = 0
        PROVE  KeysInv'
    <2>1. \E e : Pausing(wire, e)' /\ Recorded(e)'
      BY <1>4
    <2>2. QED
      BY <1>3, <1>4, <2>1 DEF KeysInv
  <1>5. ASSUME Head(wire) = PausePrefix
        PROVE  multi_byte' = 0 /\ Recorded(extra)' /\ LockRecorded'
    <2>1. UNCHANGED <<key_state, caps_lock_repeat, multi_byte>>
      <3>1. handle_keypress(PausePrefix) /\ PausePrefix \in 0 .. 255
        BY <1>1, <1>2, <1>5
      <3>2. QED
        BY <3>1, ByteEffect
    <2>2. QED
      BY <1>1, <2>1, LitKept DEF Recorded, LockRecorded
  <1>6. ASSUME NEW k \in {CTRL, NUM}, Head(wire) = k
        PROVE  multi_byte' = 0 /\ Recorded(extra \cup {k})' /\ LockRecorded'
    <2>1. k \in 1 .. 87 /\ k \in 0 .. 255 /\ k # CAPS
      BY <1>2
    <2>2. Press(k)
      BY <1>1, <1>6, <2>1, ByteEffect
    <2>3. key_state' = key_state \cup {k} /\ UNCHANGED <<caps_lock_repeat, multi_byte>>
      BY <2>1, <2>2 DEF Press, CAPS
    <2>4. Recorded(extra \cup {k})'
      BY <1>1, <2>1, <2>3 DEF Recorded
    <2>5. LockRecorded'
      BY <1>1, <2>1, <2>3, LitKept DEF LockRecorded
    <2>6. QED
      BY <2>3, <2>4, <2>5
  <1>7. ASSUME NEW k \in {CTRL, NUM}, Head(wire) = k + UP
        PROVE  multi_byte' = 0 /\ Recorded(extra \ {k})' /\ LockRecorded'
    <2>1. k + UP \in 129 .. 216 /\ k + UP \in 0 .. 255 /\ k + UP - UP = k /\ k # CAPS
          /\ k \notin pressed
      BY <1>2
    <2>2. LetGo(k)
      <3>1. PICK b \in 0 .. 255 : b = k + UP
        BY <2>1
      <3>2. b \in 129 .. 216 /\ b - UP = k /\ handle_keypress(b)
        <4>1. b \in 129 .. 216 /\ b - UP = k
          BY <2>1, <3>1, Codes
        <4>2. b = Head(wire)
          BY <1>7, <2>1, <3>1
        <4>3. handle_keypress(b)
          BY <1>1, <4>2
        <4>4. QED
          BY <4>1, <4>3
      <3>3. LetGo(b - UP)
        BY <3>2, ByteEffect
      <3>4. QED
        BY <3>2, <3>3
    <2>3. key_state' = key_state \ {k} /\ UNCHANGED <<caps_lock_repeat, multi_byte>>
      BY <2>1, <2>2 DEF LetGo, CAPS
    <2>4. Recorded(extra \ {k})'
      BY <1>1, <2>1, <2>3 DEF Recorded
    <2>5. LockRecorded'
      BY <1>1, <2>1, <2>3, LitKept DEF LockRecorded
    <2>6. QED
      BY <2>3, <2>4, <2>5
  <1>8. CASE /\ wire = <<PausePrefix, CTRL, NUM, PausePrefix, CTRL + UP, NUM + UP>>
             /\ extra = {}
    <2>1. /\ Head(wire) = PausePrefix
          /\ wire' = <<CTRL, NUM, PausePrefix, CTRL + UP, NUM + UP>>
      BY <1>1, <1>8
    <2>2. Pausing(wire', extra)
      BY <1>8, <2>1 DEF Pausing
    <2>3. QED
      BY <1>4, <1>5, <2>1, <2>2
  <1>9. CASE wire = <<CTRL, NUM, PausePrefix, CTRL + UP, NUM + UP>> /\ extra = {}
    <2>1. Head(wire) = CTRL /\ wire' = <<NUM, PausePrefix, CTRL + UP, NUM + UP>>
      BY <1>1, <1>9
    <2>2. extra \cup {CTRL} = {CTRL}
      BY <1>9
    <2>3. Pausing(wire', extra \cup {CTRL})
      BY <2>1, <2>2 DEF Pausing
    <2>4. QED
      BY <1>4, <1>6, <2>1, <2>3
  <1>10. CASE wire = <<NUM, PausePrefix, CTRL + UP, NUM + UP>> /\ extra = {CTRL}
    <2>1. Head(wire) = NUM /\ wire' = <<PausePrefix, CTRL + UP, NUM + UP>>
      BY <1>1, <1>10
    <2>2. extra \cup {NUM} = {CTRL, NUM}
      BY <1>10
    <2>3. Pausing(wire', extra \cup {NUM})
      BY <2>1, <2>2 DEF Pausing
    <2>4. QED
      BY <1>4, <1>6, <2>1, <2>3
  <1>11. CASE wire = <<PausePrefix, CTRL + UP, NUM + UP>> /\ extra = {CTRL, NUM}
    <2>1. Head(wire) = PausePrefix /\ wire' = <<CTRL + UP, NUM + UP>>
      BY <1>1, <1>11
    <2>2. Pausing(wire', extra)
      BY <1>11, <2>1 DEF Pausing
    <2>3. QED
      BY <1>4, <1>5, <2>1, <2>2
  <1>12. CASE wire = <<CTRL + UP, NUM + UP>> /\ extra = {CTRL, NUM}
    <2>1. Head(wire) = CTRL + UP /\ wire' = <<NUM + UP>>
      BY <1>1, <1>12
    <2>2. extra \ {CTRL} = {NUM}
      BY <1>2, <1>12
    <2>3. Pausing(wire', extra \ {CTRL})
      BY <2>1, <2>2 DEF Pausing
    <2>4. QED
      BY <1>4, <1>7, <2>1, <2>3
  <1>13. CASE wire = <<NUM + UP>> /\ extra = {NUM}
    <2>1. Head(wire) = NUM + UP /\ wire' = <<>>
      BY <1>1, <1>13
    <2>2. extra \ {NUM} = {}
      BY <1>13
    <2>3. multi_byte' = 0 /\ Recorded({})' /\ LockRecorded'
      BY <1>7, <2>1, <2>2
    <2>4. Paired(wire')
      BY <2>1, NoBytes
    <2>5. QED
      BY <1>3, <2>3, <2>4 DEF KeysInv
  <1>14. QED
    BY <1>8, <1>9, <1>10, <1>11, <1>12, <1>13 DEF Pausing

LEMMA IrqStep ==
  ASSUME KeysInv, irqh_keyboard
  PROVE  KeysInv'
  <1>1. /\ wire # <<>> /\ handle_keypress(Head(wire)) /\ wire' = Tail(wire)
        /\ UNCHANGED <<pressed, locked, reversed>>
    BY DEF irqh_keyboard
  <1>2. /\ pressed' \subseteq Simple \cup {Arrow} /\ locked' \in BOOLEAN /\ reversed' \in BOOLEAN
        /\ locked \in BOOLEAN /\ reversed \in BOOLEAN
    BY <1>1 DEF KeysInv
  <1>3. CASE Recorded({}) /\ LockRecorded /\ multi_byte = 0 /\ Paired(wire)
    <2>1. Head(wire) = PREFIX /\ Halved(wire') /\ PREFIX \in 0 .. 255
      BY <1>1, <1>3, PrefixRead, Codes
    <2>2. multi_byte' = 1 /\ UNCHANGED <<key_state, caps_lock_repeat>>
      BY <1>1, <2>1, ByteEffect
    <2>3. Recorded({})' /\ LockRecorded'
      BY <1>1, <1>3, <2>2, LitKept DEF Recorded, LockRecorded
    <2>4. QED
      BY <1>2, <2>1, <2>2, <2>3 DEF KeysInv
  <1>4. CASE Recorded({}) /\ LockRecorded /\ multi_byte = 1 /\ Halved(wire)
    <2>1. Head(wire) \in Second /\ Paired(wire')
      BY <1>1, <1>4, SecondRead
    <2>2. Head(wire) \in 0 .. 255 /\ Head(wire) # PREFIX
      BY <2>1, Codes DEF Second
    <2>3. multi_byte' = 0 /\ UNCHANGED <<key_state, caps_lock_repeat>>
      BY <1>1, <1>4, <2>2, ByteEffect
    <2>4. Recorded({})' /\ LockRecorded'
      BY <1>1, <1>4, <2>3, LitKept DEF Recorded, LockRecorded
    <2>5. QED
      BY <1>2, <2>1, <2>3, <2>4 DEF KeysInv
  <1>5. ASSUME multi_byte = 0, NEW k \in Simple, wire = <<k>>, Pressing(k)
        PROVE  KeysInv'
    <2>1. Head(wire) = k /\ wire' = <<>> /\ k \in 1 .. 87 /\ k \in 0 .. 255
      BY <1>1, <1>5, Codes
    <2>2. Press(k)
      BY <1>1, <1>5, <2>1, ByteEffect
    <2>3. Recorded({})' /\ LockRecorded' /\ multi_byte' = 0
      BY <1>1, <1>2, <1>5, <2>2, PressStep DEF Press
    <2>4. QED
      BY <1>2, <2>1, <2>3, NoBytes DEF KeysInv
  <1>6. ASSUME multi_byte = 0, NEW k \in Simple, wire = <<k + UP>>, Releasing(k)
        PROVE  KeysInv'
    <2>1. /\ Head(wire) = k + UP /\ wire' = <<>> /\ k + UP \in 129 .. 216
          /\ k + UP \in 0 .. 255 /\ k + UP - UP = k
      BY <1>1, <1>6, Codes
    <2>2. LetGo(k)
      <3>1. PICK b \in 0 .. 255 : b = k + UP
        BY <2>1
      <3>2. b \in 129 .. 216 /\ b - UP = k /\ handle_keypress(b)
        <4>1. b \in 129 .. 216 /\ b - UP = k
          BY <2>1, <3>1, Codes
        <4>2. b = Head(wire)
          BY <1>6, <2>1, <3>1
        <4>3. handle_keypress(b)
          BY <1>1, <4>2
        <4>4. QED
          BY <4>1, <4>3
      <3>3. LetGo(b - UP)
        BY <1>6, <3>2, ByteEffect
      <3>4. QED
        BY <3>2, <3>3
    <2>3. Recorded({})' /\ LockRecorded' /\ multi_byte' = 0
      BY <1>1, <1>6, <2>2, ReleaseStep DEF LetGo
    <2>4. QED
      BY <1>2, <2>1, <2>3, NoBytes DEF KeysInv
  <1>7. ASSUME multi_byte = 0, LockRecorded, NEW extra, Pausing(wire, extra),
               Recorded(extra)
        PROVE  KeysInv'
    BY <1>7, PauseStep
  <1>8. QED
    BY <1>3, <1>4, <1>5, <1>6, <1>7 DEF KeysInv

LEMMA KeysInvStep == KeysInv /\ [KeysNext]_keyvars => KeysInv'
  <1>1. ASSUME KeysInv, UNCHANGED keyvars
        PROVE  KeysInv'
    <2>1. Lit' <=> Lit
      BY <1>1, LitKept DEF keyvars
    <2>2. QED
      BY <1>1, <2>1 DEF KeysInv, keyvars, Recorded, LockRecorded, Pressing, Releasing
  <1>2. QED
    BY <1>1, IrqStep, KeyPauseStep, KeyDownStep, KeyUpStep, KeyRepeatsStep DEF KeysNext

(* The character of a key depends on the shift keys and the lock only. *)
LEMMA CharacterRight ==
  ASSUME NEW k \in Printing, NEW shift \in BOOLEAN, NEW lock \in BOOLEAN,
         shift_pressed <=> shift, capslock_pressed <=> lock
  PROVE  handle_disp(keycodes(k)) = Legend(k, shift, lock)
  <1>1. /\ SCS1_PRESSED_A # SCS1_PRESSED_1 /\ SCS1_PRESSED_A # SCS1_PRESSED_SPACE
        /\ SCS1_PRESSED_1 # SCS1_PRESSED_SPACE
    BY Codes
  <1>2. CASE k = SCS1_PRESSED_A
    <2>1. keycodes(k) = "a" /\ Legend(k, shift, lock) = IF shift # lock THEN "A" ELSE "a"
      BY <1>1, <1>2 DEF keycodes, Legend
    <2>2. QED
      BY <2>1 DEF handle_disp, Shifted
  <1>3. CASE k = SCS1_PRESSED_1
    <2>1. keycodes(k) = "1" /\ Legend(k, shift, lock) = IF shift THEN "!" ELSE "1"
      BY <1>1, <1>3 DEF keycodes, Legend
    <2>2. QED
      BY <2>1 DEF handle_disp, Shifted
  <1>4. CASE k = SCS1_PRESSED_SPACE
    <2>1. keycodes(k) = " " /\ Legend(k, shift, lock) = " "
      BY <1>1, <1>4 DEF keycodes, Legend
    <2>2. QED
      BY <2>1 DEF handle_disp, Shifted
  <1>5. QED
    BY <1>2, <1>3, <1>4 DEF Printing

(* Whatever keys are pressed, held and released in whatever order, with    *)
(* prefixed bytes and pause in between, handle_keypress knows which are    *)
(* down and handle_disp picks the character on the key cap; caps lock is   *)
(* the wrong way round from a held press that clears it to a held press    *)
(* that sets it, and right otherwise.                                      *)
THEOREM KeysCorrect == KeysSpec => []KeysRight
  <1>1. KeysInv => KeysRight
    <2> SUFFICES ASSUME KeysInv, wire = <<>>
                 PROVE  /\ key_state \ {CAPS} = pressed \ {CAPS, Arrow}
                        /\ capslock_pressed <=> Lit
                        /\ \A k \in Printing : handle_disp(keycodes(k)) =
                             Legend(k, pressed \cap Shifts # {}, Lit)
      BY DEF KeysRight, CAPS
    <2>1. Recorded({}) /\ LockRecorded /\ Lit \in BOOLEAN
      BY Quiet DEF KeysInv, Lit
    <2>2. key_state \ {CAPS} = pressed \ {CAPS, Arrow} /\ (capslock_pressed <=> Lit)
      BY <2>1 DEF Recorded, LockRecorded, capslock_pressed, CAPS
    <2>3. CAPS \notin Shifts /\ Arrow \notin Shifts
      BY Codes DEF Shifts
    <2>4. shift_pressed <=> (pressed \cap Shifts # {})
      BY <2>2, <2>3 DEF shift_pressed
    <2>5. QED
      BY <2>1, <2>2, <2>4, CharacterRight
  <1>2. QED
    BY <1>1, KeysInvInit, KeysInvStep, PTL DEF KeysSpec

-----------------------------------------------------------------------------
(* Command lines *)

(* Numbers are well ordered. *)
LEMMA LeastIndex ==
  ASSUME NEW S \in SUBSET Nat, S # {}
  PROVE  \E n \in S : \A m \in S : n <= m
  <1> DEFINE R == OpToRel(<, Nat)
  <1>1. IsWellFoundedOn(R, Nat)
    BY NatLessThanWellFounded, Zenon
  <1> HIDE DEF R
  <1>2. PICK x \in S : \A y \in S : ~(<<y, x>> \in R)
    BY <1>1, WFMin
  <1>3. ASSUME NEW y \in S, ~(x <= y)
        PROVE  FALSE
    <2>1. <<y, x>> \in Nat \X Nat /\ y < x
      BY <1>3
    <2>2. <<y, x>> \in R
      BY <2>1 DEF R, OpToRel
    <2>3. QED
      BY <1>2, <2>2
  <1>4. QED
    BY <1>3

(* Facts about texts that the provers find only for simple names. *)
LEMMA IsText ==
  ASSUME NEW n \in Nat, NEW u \in [1 .. n -> Nat]
  PROVE  u \in Seq(Nat) /\ Len(u) = n
  OBVIOUS

LEMMA SameText ==
  ASSUME NEW u \in Seq(Nat), NEW v \in Seq(Nat), Len(u) = Len(v),
         \A i \in 1 .. Len(u) : u[i] = v[i]
  PROVE  u = v
  BY SeqEqual

LEMMA Piece ==
  ASSUME NEW s \in Seq(Nat), NEW i \in Nat, NEW j \in Nat,
         1 <= i, i <= j + 1, j <= Len(s)
  PROVE  /\ SubSeq(s, i, j) \in Seq(Nat) /\ Len(SubSeq(s, i, j)) = j - i + 1
         /\ \A x \in 1 .. j - i + 1 : SubSeq(s, i, j)[x] = s[i + x - 1]
  <1>1. i \in 1 .. Len(s) + 1 /\ j \in i - 1 .. Len(s)
    OBVIOUS
  <1>2. QED
    BY <1>1, SubSeqProperties

LEMMA FirstPiece ==
  ASSUME NEW s \in Seq(Nat), NEW n \in Nat, n <= Len(s)
  PROVE  /\ SubSeq(s, 1, n) \in Seq(Nat) /\ Len(SubSeq(s, 1, n)) = n
         /\ \A x \in 1 .. n : SubSeq(s, 1, n)[x] = s[x]
  <1>1. 1 \in Nat /\ 1 <= n + 1 /\ n - 1 + 1 = n
    OBVIOUS
  <1>2. /\ SubSeq(s, 1, n) \in Seq(Nat) /\ Len(SubSeq(s, 1, n)) = n - 1 + 1
        /\ \A x \in 1 .. n - 1 + 1 : SubSeq(s, 1, n)[x] = s[1 + x - 1]
    BY <1>1, Piece
  <1>3. \A x \in 1 .. n : 1 + x - 1 = x
    OBVIOUS
  <1>4. QED
    BY <1>1, <1>2, <1>3

(* Two pieces of a text that follow each other. *)
LEMMA Joined ==
  ASSUME NEW s \in Seq(Nat), NEW u \in Seq(Nat), NEW v \in Seq(Nat),
         \A j \in 1 .. Len(u) : u[j] = s[j],
         \A j \in 1 .. Len(v) : v[j] = s[Len(u) + j]
  PROVE  /\ u \o v \in Seq(Nat) /\ Len(u \o v) = Len(u) + Len(v)
         /\ \A j \in 1 .. Len(u \o v) : (u \o v)[j] = s[j]
  <1>1. Len(u) \in Nat /\ Len(v) \in Nat
    OBVIOUS
  <1>2. u \o v \in Seq(Nat) /\ Len(u \o v) = Len(u) + Len(v)
    BY ConcatProperties
  <1>3. ASSUME NEW j \in 1 .. Len(u) + Len(v)
        PROVE  (u \o v)[j] = s[j]
    <2>1. (u \o v)[j] = IF j <= Len(u) THEN u[j] ELSE v[j - Len(u)]
      BY ConcatProperties
    <2>2. CASE j <= Len(u)
      BY <1>1, <2>1, <2>2
    <2>3. CASE j > Len(u)
      <3>1. j - Len(u) \in 1 .. Len(v) /\ Len(u) + (j - Len(u)) = j
        BY <1>1, <2>3
      <3>2. (u \o v)[j] = v[j - Len(u)]
        BY <1>1, <2>1, <2>3
      <3>3. QED
        BY <3>1, <3>2
    <2>4. QED
      BY <1>1, <2>2, <2>3
  <1>4. QED
    BY <1>2, <1>3

(* The line as Cmd takes it apart: a name from f up to e, blanks from e up *)
(* to k, and the rest.                                                     *)
Cut(s, f, e, k) ==
    /\ f \in 1 .. Len(s) + 1 /\ e \in f .. Len(s) + 1 /\ k \in e - 1 .. Len(s)
    /\ \A j \in 1 .. f - 1 : s[j] = SP
    /\ \A j \in f .. e - 1 : s[j] # SP
    /\ e = f => f = Len(s) + 1
    /\ \A j \in e .. k : s[j] = SP
    /\ k < Len(s) => s[k + 1] # SP
    /\ k = e - 1 => k = Len(s)

(* The buffer: the name, a NUL, the rest and nothing but NULs behind it. *)
Buffer(s, f, e, k) ==
    [i \in 1 .. ARGS_SIZE |->
       IF i <= e - f THEN s[f + i - 1]
       ELSE IF i - (e - f) \in 2 .. Len(s) - k + 1 THEN s[k + (i - (e - f)) - 1]
       ELSE NUL]

(* strnonspace finds the first character of the name. *)
LEMMA NonSpace ==
  ASSUME NEW s \in Seq(Nat)
  PROVE  /\ strnonspace(s) \in 0 .. Len(s)
         /\ \A j \in 1 .. strnonspace(s) : s[j] = SP
         /\ strnonspace(s) < Len(s) => s[strnonspace(s) + 1] # SP
  <1> DEFINE some == {i \in 1 .. Len(s) : s[i] # SP}
  <1>1. Len(s) \in Nat
    OBVIOUS
  <1>2. CASE some = {}
    <2>1. strnonspace(s) = Len(s)
      BY <1>2 DEF strnonspace
    <2>2. \A j \in 1 .. Len(s) : s[j] = SP
      BY <1>2
    <2>3. QED
      BY <1>1, <2>1, <2>2
  <1>3. CASE some # {}
    <2>1. some \in SUBSET Nat
      OBVIOUS
    <2>2. PICK m : m = CHOOSE i \in some : \A j \in some : i <= j
      OBVIOUS
    <2>3. m \in some /\ \A j \in some : m <= j
      BY <1>3, <2>1, <2>2, LeastIndex
    <2>4. strnonspace(s) = m - 1
      BY <1>3, <2>2 DEF strnonspace
    <2>5. m \in 1 .. Len(s) /\ s[m] # SP
      BY <2>3
    <2>6. \A j \in 1 .. m - 1 : s[j] = SP
      BY <2>3, <2>5, <1>1
    <2> HIDE DEF some
    <2>7. QED
      BY <1>1, <2>4, <2>5, <2>6
  <1>4. QED
    BY <1>2, <1>3

(* LastBlank finds the end of the blanks. *)
LEMMA BlanksEnd ==
  ASSUME NEW s \in Seq(Nat), NEW e \in 1 .. Len(s), s[e] = SP
  PROVE  /\ LastBlank(s, e) \in e .. Len(s)
         /\ \A j \in e .. LastBlank(s, e) : s[j] = SP
         /\ LastBlank(s, e) < Len(s) => s[LastBlank(s, e) + 1] # SP
  <1> DEFINE stop == {i \in e .. Len(s) + 1 : i = Len(s) + 1 \/ s[i] # SP}
  <1>1. Len(s) \in Nat
    OBVIOUS
  <1>2. Len(s) + 1 \in stop /\ stop \in SUBSET Nat
    BY <1>1
  <1>3. PICK m \in stop : \A j \in stop : m <= j
    BY <1>2, LeastIndex
  <1>4. m \in e .. Len(s) + 1 /\ (m = Len(s) + 1 \/ s[m] # SP)
    OBVIOUS
  <1>5. m # e
    BY <1>1, <1>4
  <1>6. \A j \in e .. m - 1 : s[j] = SP
    BY <1>1, <1>3, <1>4
  <1> HIDE DEF stop
  <1>7. PICK k \in e .. Len(s) : k = m - 1
    BY <1>1, <1>4, <1>5
  <1>8. /\ \A j \in e .. k : s[j] = SP
        /\ k < Len(s) => s[k + 1] # SP
    BY <1>1, <1>4, <1>6, <1>7
  <1>9. QED
    BY <1>8 DEF LastBlank

LEMMA Lines ==
  ASSUME NEW s \in Texts(Alphabet \cup {SP}, MaxCommand)
  PROVE  /\ s \in Seq(Nat) /\ Len(s) \in Nat /\ Len(s) + 1 < ARGS_SIZE
         /\ \A i \in 1 .. Len(s) : s[i] # NUL
  <1>1. PICK n \in 0 .. MaxCommand : s \in [1 .. n -> Alphabet \cup {SP}]
    BY DEF Texts
  <1>2. SP \in Nat /\ SP # NUL
    BY DEF SP, NUL
  <1>3. n \in Nat /\ n <= MaxCommand /\ MaxCommand \in Nat
    BY <1>1, CallsAssumption
  <1>6. s \in [1 .. n -> Nat]
    BY <1>1, <1>2, CallsAssumption
  <1>7. s \in Seq(Nat) /\ Len(s) = n
    BY <1>3, <1>6
  <1>4. ARGS_SIZE \in Nat /\ n + 1 < ARGS_SIZE
    BY <1>3, CallsAssumption, StringsAssumption
  <1>5. QED
    BY <1>1, <1>2, <1>3, <1>4, <1>7, CallsAssumption

(* What execute makes of a line. *)
LEMMA CommandCut ==
  ASSUME NEW s \in Seq(Nat), Len(s) + 1 < ARGS_SIZE
  PROVE  \E f, e, k : Cut(s, f, e, k) /\ Cmd(s) = Buffer(s, f, e, k)
  <1> DEFINE zero  == [i \in 1 .. ARGS_SIZE |-> NUL]
             f     == strnonspace(s) + 1
             ends  == {i \in f .. Len(s) : s[i] = SP}
             end   == CHOOSE i \in ends : \A j \in ends : i <= j
             name  == IF ends = {} THEN SubSeq(s, f, Len(s)) ELSE SubSeq(s, f, end - 1)
             copy  == IF ends = {} THEN zero
                      ELSE strcpy(zero, Len(name), SubSeq(s, LastBlank(s, end), Len(s)))
  <1>1. /\ Len(s) \in Nat /\ ARGS_SIZE \in Nat
    BY StringsAssumption
  <1>2. /\ f \in 1 .. Len(s) + 1
        /\ \A j \in 1 .. f - 1 : s[j] = SP
        /\ f <= Len(s) => s[f] # SP
    <2>1. strnonspace(s) \in Int /\ f - 1 = strnonspace(s)
      BY NonSpace
    <2>2. QED
      BY <1>1, <2>1, NonSpace
  <1>3. Cmd(s) = [i \in 1 .. ARGS_SIZE |->
                    IF i <= Len(name) THEN name[i]
                    ELSE IF i = Len(name) + 1 THEN NUL ELSE copy[i]]
    BY DEF Cmd
  <1>4. CASE ends = {}
    <2> DEFINE e == Len(s) + 1
               k == Len(s)
    <2>1. Cut(s, f, e, k)
      <3> HIDE DEF f
      <3>1. \A j \in f .. Len(s) : s[j] # SP
        BY <1>4
      <3>2. QED
        BY <1>1, <1>2, <3>1 DEF Cut
    <2>2. Len(name) = e - f /\ \A i \in 1 .. e - f : name[i] = s[f + i - 1]
      <3> HIDE DEF f
      <3>1. name = SubSeq(s, f, Len(s))
        BY <1>4
      <3> HIDE DEF name
      <3>2. f \in Nat /\ 1 <= f /\ f <= Len(s) + 1 /\ Len(s) - f + 1 = (Len(s) + 1) - f
        BY <1>1, <1>2
      <3>3. QED
        BY <1>1, <3>1, <3>2, Piece
    <2>3. \A i \in 1 .. ARGS_SIZE : copy[i] = NUL
      BY <1>4
    <2>4. ASSUME NEW i \in 1 .. ARGS_SIZE
          PROVE  ~(i - (e - f) \in 2 .. Len(s) - k + 1)
      <3> HIDE DEF f
      <3>1. QED
        BY <1>1, <1>2
    <2> HIDE DEF f, name, copy, e, k
    <2>5. Cmd(s) = Buffer(s, f, e, k)
      BY <1>3, <2>2, <2>3, <2>4 DEF Buffer
    <2>6. QED
      BY <2>1, <2>5
  <1>5. CASE ends # {}
    <2>1. ends \in SUBSET Nat
      BY <1>2
    <2>2. PICK e : e = end
      OBVIOUS
    <2>3. e \in ends /\ \A j \in ends : e <= j
      BY <1>5, <2>1, <2>2, LeastIndex
    <2>4. e \in f .. Len(s) /\ s[e] = SP
      BY <2>3
    <2>5. \A j \in f .. e - 1 : s[j] # SP
      <3> HIDE DEF f
      <3>1. QED
        BY <1>1, <1>2, <2>3, <2>4
    <2>6. PICK k : k = LastBlank(s, e)
      OBVIOUS
    <2>71. name = SubSeq(s, f, end - 1)
      BY <1>5
    <2>72. copy = strcpy(zero, Len(name), SubSeq(s, LastBlank(s, end), Len(s)))
      BY <1>5
    <2> HIDE DEF f, ends, end, name, copy
    <2>7. name = SubSeq(s, f, e - 1) /\ copy = strcpy(zero, Len(name), SubSeq(s, k, Len(s)))
      BY <2>71, <2>72, <2>2, <2>6
    <2> HIDE DEF f, ends, end, name, copy
    <2>8. e \in 1 .. Len(s)
      BY <1>1, <1>2, <2>4
    <2>9. /\ k \in e .. Len(s) /\ \A j \in e .. k : s[j] = SP
          /\ k < Len(s) => s[k + 1] # SP
      BY <2>4, <2>6, <2>8, BlanksEnd
    <2>10. Cut(s, f, e, k)
      <3>1. e # f
        BY <1>1, <1>2, <2>4
      <3>2. QED
        BY <1>1, <1>2, <2>4, <2>5, <2>8, <2>9, <3>1 DEF Cut
    <2>11. PICK n \in Nat : n = e - f
      BY <1>1, <1>2, <2>4
    <2>12. Len(name) = n /\ \A i \in 1 .. n : name[i] = s[f + i - 1]
      <3>1. /\ f \in Nat /\ e - 1 \in Nat /\ 1 <= f /\ f <= (e - 1) + 1
            /\ e - 1 <= Len(s) /\ (e - 1) - f + 1 = n
        BY <1>1, <1>2, <2>4, <2>11
      <3>2. QED
        BY <2>7, <3>1, Piece
    <2> DEFINE t == SubSeq(s, k, Len(s))
    <2>13. /\ t \in Seq(Nat) /\ Len(t) = Len(s) - k + 1
           /\ \A j \in 1 .. Len(s) - k + 1 : t[j] = s[k + j - 1]
      <3>1. k \in Nat /\ 1 <= k /\ k <= Len(s) + 1
        BY <1>1, <2>8, <2>9
      <3>2. QED
        BY <1>1, <3>1, Piece
    <2>14. copy = [i \in 1 .. ARGS_SIZE |->
                     IF i - n \in 1 .. Len(t) + 1 THEN Append(t, NUL)[i - n] ELSE NUL]
      <3>1. copy = strcpy(zero, n, t)
        BY <2>7, <2>12
      <3>2. zero \in Seq(Nat) /\ Len(zero) = ARGS_SIZE /\ \A i \in 1 .. ARGS_SIZE : zero[i] = NUL
        BY <1>1 DEF NUL
      <3> HIDE DEF zero, t
      <3>3. copy = [i \in 1 .. Len(zero) |->
                      IF i - n \in 1 .. Len(t) + 1 THEN Append(t, NUL)[i - n] ELSE zero[i]]
        BY <3>1 DEF strcpy
      <3>4. QED
        BY <3>2, <3>3
    <2> HIDE DEF t, zero
    <2>15. \A j \in 1 .. Len(t) : Append(t, NUL)[j] = t[j]
      BY <2>13
    <2>16. Append(t, NUL)[Len(t) + 1] = NUL
      BY <2>13
    <2>17. ASSUME NEW i \in 1 .. ARGS_SIZE, i > n + 1
           PROVE  copy[i] = IF i - n \in 2 .. Len(s) - k + 1 THEN s[k + (i - n) - 1] ELSE NUL
      <3>1. PICK j \in Nat : j = i - n /\ j >= 2
        BY <2>11, <2>17
      <3>2. copy[i] = IF j \in 1 .. Len(t) + 1 THEN Append(t, NUL)[j] ELSE NUL
        BY <2>14, <3>1
      <3>3. PICK m \in Nat : m = Len(t) /\ m = Len(s) - k + 1
        <4>1. Len(s) - k + 1 \in Nat
          BY <1>1, <2>8, <2>9
        <4>2. QED
          BY <2>13, <4>1
      <3>4. CASE j \in 2 .. m
        BY <2>13, <2>15, <3>1, <3>2, <3>3, <3>4
      <3>5. CASE j = m + 1
        <4>1. copy[i] = NUL
          BY <2>16, <3>2, <3>3, <3>5
        <4>2. ~(i - n \in 2 .. Len(s) - k + 1)
          BY <3>1, <3>3, <3>5
        <4>3. QED
          BY <4>1, <4>2
      <3>6. CASE j > m + 1
        BY <3>1, <3>2, <3>3, <3>6
      <3>7. QED
        BY <3>1, <3>3, <3>4, <3>5, <3>6
    <2>18. ASSUME NEW i \in 1 .. ARGS_SIZE
           PROVE  (IF i <= Len(name) THEN name[i]
                   ELSE IF i = Len(name) + 1 THEN NUL ELSE copy[i]) =
                  (IF i <= e - f THEN s[f + i - 1]
                   ELSE IF i - (e - f) \in 2 .. Len(s) - k + 1
                   THEN s[k + (i - (e - f)) - 1] ELSE NUL)
      <3>1. CASE i <= n
        BY <2>11, <2>12, <3>1
      <3>2. CASE i = n + 1
        BY <1>1, <2>11, <2>12, <3>2
      <3>3. CASE i > n + 1
        BY <2>11, <2>12, <2>17, <3>3
      <3>4. QED
        BY <2>11, <3>1, <3>2, <3>3
    <2>19. Cmd(s) = Buffer(s, f, e, k)
      BY <1>3, <2>18 DEF Buffer
    <2>20. QED
      BY <2>10, <2>19
  <1>6. QED
    BY <1>4, <1>5

(* The length of a string is where its first NUL stands. *)
LEMMA StrlenIs ==
  ASSUME NEW buf \in Seq(Nat), NEW n \in Nat, n < Len(buf),
         buf[n + 1] = NUL, \A i \in 1 .. n : buf[i] # NUL
  PROVE  strlen(buf) = n
  <1> DEFINE P(m) == buf[m + 1] = NUL /\ \A i \in 1 .. m : buf[i] # NUL
  <1>1. Len(buf) \in Nat
    OBVIOUS
  <1>2. n \in 0 .. Len(buf) - 1 /\ P(n)
    BY <1>1
  <1>3. ASSUME NEW m \in 0 .. Len(buf) - 1, P(m)
        PROVE  m = n
    <2>1. CASE m < n
      <3>1. m + 1 \in 1 .. n
        BY <1>1, <2>1
      <3>2. QED
        BY <1>2, <1>3, <3>1
    <2>2. CASE n < m
      <3>1. n + 1 \in 1 .. m
        BY <1>1, <2>2
      <3>2. QED
        BY <1>2, <1>3, <3>1
    <2>3. QED
      BY <1>1, <2>1, <2>2
  <1>4. strlen(buf) = CHOOSE m \in 0 .. Len(buf) - 1 : P(m)
    BY DEF strlen
  <1> HIDE DEF P
  <1>5. QED
    BY <1>2, <1>3, <1>4

(* The name and the rest as the program and getargs read them from the     *)
(* buffer.                                                                 *)
LEMMA BufferRead ==
  ASSUME NEW s \in Seq(Nat), Len(s) + 1 < ARGS_SIZE, \A i \in 1 .. Len(s) : s[i] # NUL,
         NEW f, NEW e, NEW k, Cut(s, f, e, k), Cmd(s) = Buffer(s, f, e, k)
  PROVE  /\ CString(Cmd(s)) = SubSeq(s, f, e - 1)
         /\ Argv1(s) = SubSeq(s, k + 1, Len(s))
  <1> DEFINE B == Buffer(s, f, e, k)
  <1>1. /\ Len(s) \in Nat /\ ARGS_SIZE \in Nat
        /\ f \in Nat /\ e \in Nat /\ k \in Nat
        /\ 1 <= f /\ f <= e /\ e <= Len(s) + 1 /\ e - 1 <= k /\ k <= Len(s)
    BY StringsAssumption DEF Cut
  <1>2. PICK n \in Nat : n = e - f
    BY <1>1
  <1>3. PICK r \in Nat : r = Len(s) - k
    BY <1>1
  <1>4. n <= Len(s) /\ n + r + 1 < ARGS_SIZE
    BY <1>1, <1>2, <1>3
  <1>5. ASSUME NEW i \in 1 .. ARGS_SIZE
        PROVE  /\ B[i] = IF i <= n THEN s[f + i - 1]
                         ELSE IF i - n \in 2 .. r + 1 THEN s[k + (i - n) - 1]
                         ELSE NUL
               /\ B[i] \in Nat
    <2>1. B[i] = IF i <= n THEN s[f + i - 1]
                 ELSE IF i - n \in 2 .. r + 1 THEN s[k + (i - n) - 1]
                 ELSE NUL
      BY <1>2, <1>3 DEF Buffer
    <2>2. CASE i <= n
      <3>1. f + i - 1 \in 1 .. Len(s)
        BY <1>1, <1>2, <2>2
      <3>2. QED
        BY <2>1, <2>2, <3>1
    <2>3. CASE ~(i <= n) /\ i - n \in 2 .. r + 1
      <3>1. k + (i - n) - 1 \in 1 .. Len(s)
        BY <1>1, <1>3, <2>3
      <3>2. QED
        BY <2>1, <2>3, <3>1
    <2>4. CASE ~(i <= n) /\ ~(i - n \in 2 .. r + 1)
      BY <2>1, <2>4 DEF NUL
    <2>5. QED
      BY <2>1, <2>2, <2>3, <2>4
  <1>6. B \in Seq(Nat) /\ Len(B) = ARGS_SIZE
    <2>1. B \in [1 .. ARGS_SIZE -> Nat]
      BY <1>5 DEF Buffer
    <2> HIDE DEF B
    <2>2. QED
      BY <1>1, <2>1, IsText
  <1> HIDE DEF B
  <1>7. strlen(B) = n
    <2>1. n < Len(B) /\ n + 1 \in 1 .. ARGS_SIZE
      BY <1>1, <1>4, <1>6
    <2>2. B[n + 1] = NUL
      BY <1>5, <2>1
    <2>3. ASSUME NEW i \in 1 .. n
          PROVE  B[i] # NUL
      <3>1. f + i - 1 \in 1 .. Len(s) /\ i \in 1 .. ARGS_SIZE /\ i <= n
        BY <1>1, <1>2, <1>4
      <3>2. QED
        BY <1>5, <3>1
    <2>4. QED
      BY <1>6, <2>1, <2>2, <2>3, StrlenIs
  <1>8. CString(B) = SubSeq(s, f, e - 1)
    <2>1. CString(B) = SubSeq(B, 1, n)
      BY <1>7 DEF CString
    <2>2. /\ SubSeq(B, 1, n) \in Seq(Nat) /\ Len(SubSeq(B, 1, n)) = n
          /\ \A i \in 1 .. n : SubSeq(B, 1, n)[i] = B[i]
      <3>1. n <= Len(B)
        BY <1>1, <1>4, <1>6
      <3>2. QED
        BY <1>6, <3>1, FirstPiece
    <2>3. /\ SubSeq(s, f, e - 1) \in Seq(Nat) /\ Len(SubSeq(s, f, e - 1)) = n
          /\ \A i \in 1 .. n : SubSeq(s, f, e - 1)[i] = s[f + i - 1]
      <3>1. e - 1 \in Nat /\ f <= (e - 1) + 1 /\ e - 1 <= Len(s) /\ (e - 1) - f + 1 = n
        BY <1>1, <1>2
      <3>2. QED
        BY <1>1, <3>1, Piece
    <2>4. \A i \in 1 .. n : B[i] = s[f + i - 1]
      BY <1>1, <1>4, <1>5
    <2>5. SubSeq(B, 1, n) = SubSeq(s, f, e - 1)
      <3>1. PICK u, v : u = SubSeq(B, 1, n) /\ v = SubSeq(s, f, e - 1)
        OBVIOUS
      <3>2. u \in Seq(Nat) /\ v \in Seq(Nat) /\ Len(u) = n /\ Len(v) = n
        BY <2>2, <2>3, <3>1
      <3>3. \A i \in 1 .. n : u[i] = v[i]
        BY <2>2, <2>3, <2>4, <3>1
      <3>4. u = v
        BY <3>2, <3>3, SameText
      <3>5. QED
        BY <3>1, <3>4
    <2>6. QED
      BY <2>1, <2>5
  <1>9. Argv1(s) = SubSeq(s, k + 1, Len(s))
    <2> DEFINE T == SubSeq(B, n + 2, ARGS_SIZE)
               R == SubSeq(s, k + 1, Len(s))
    <2>1. Argv1(s) = SubSeq(T, 1, strlen(T))
      BY <1>7 DEF Argv1, CString, B
    <2>2. PICK l \in Nat : l = ARGS_SIZE - n - 1 /\ r < l
      BY <1>1, <1>4
    <2>3. /\ T \in Seq(Nat) /\ Len(T) = l
          /\ \A j \in 1 .. l : T[j] = B[n + 1 + j]
      <3>1. /\ n + 2 \in Nat /\ 1 <= n + 2 /\ n + 2 <= ARGS_SIZE + 1 /\ ARGS_SIZE <= Len(B)
            /\ ARGS_SIZE - (n + 2) + 1 = l
            /\ \A j \in 1 .. l : (n + 2) + j - 1 = n + 1 + j
        BY <1>1, <1>6, <2>2
      <3>2. QED
        BY <1>1, <1>6, <3>1, Piece
    <2>4. /\ R \in Seq(Nat) /\ Len(R) = r
          /\ \A j \in 1 .. r : R[j] = s[k + j]
      <3>1. /\ k + 1 \in Nat /\ 1 <= k + 1 /\ k + 1 <= Len(s) + 1
            /\ Len(s) - (k + 1) + 1 = r
            /\ \A j \in 1 .. r : (k + 1) + j - 1 = k + j
        BY <1>1, <1>3
      <3>2. QED
        BY <1>1, <3>1, Piece
    <2> HIDE DEF T, R
    <2>5. \A j \in 1 .. r : T[j] = s[k + j]
      <3>1. TAKE j \in 1 .. r
      <3>2. /\ j \in 1 .. l /\ n + 1 + j \in 1 .. ARGS_SIZE /\ ~(n + 1 + j <= n)
            /\ (n + 1 + j) - n \in 2 .. r + 1
            /\ k + ((n + 1 + j) - n) - 1 = k + j
        BY <1>1, <2>2
      <3>3. B[n + 1 + j] = s[k + j]
        BY <1>5, <3>2
      <3>4. QED
        BY <2>3, <3>2, <3>3
    <2>6. T[r + 1] = NUL
      <3>1. /\ r + 1 \in 1 .. l /\ n + 1 + (r + 1) \in 1 .. ARGS_SIZE
            /\ ~(n + 1 + (r + 1) <= n) /\ ~((n + 1 + (r + 1)) - n \in 2 .. r + 1)
        BY <1>1, <2>2
      <3>2. B[n + 1 + (r + 1)] = NUL
        BY <1>5, <3>1
      <3>3. QED
        BY <2>3, <3>1, <3>2
    <2>7. strlen(T) = r
      <3>1. ASSUME NEW i \in 1 .. r
            PROVE  T[i] # NUL
        <4>1. k + i \in 1 .. Len(s)
          BY <1>1, <1>3
        <4>2. QED
          BY <2>5, <4>1
      <3>2. QED
        BY <2>2, <2>3, <2>6, <3>1, StrlenIs
    <2>8. /\ SubSeq(T, 1, r) \in Seq(Nat) /\ Len(SubSeq(T, 1, r)) = r
          /\ \A j \in 1 .. r : SubSeq(T, 1, r)[j] = T[j]
      <3>1. r <= Len(T)
        BY <2>2, <2>3
      <3>2. QED
        BY <2>3, <3>1, FirstPiece
    <2>9. SubSeq(T, 1, r) = R
      <3>1. PICK u : u = SubSeq(T, 1, r)
        OBVIOUS
      <3>2. u \in Seq(Nat) /\ Len(u) = r
        BY <2>8, <3>1
      <3>3. \A i \in 1 .. r : u[i] = R[i]
        BY <2>4, <2>5, <2>8, <3>1
      <3>4. u = R
        BY <2>4, <3>2, <3>3, SameText
      <3>5. QED
        BY <3>1, <3>4
    <2>10. QED
      BY <2>1, <2>7, <2>9 DEF R
  <1>10. QED
    BY <1>8, <1>9 DEF B

(* A line that is cut so is blanks, name, blanks and rest. *)
LEMMA CutSplits ==
  ASSUME NEW s \in Seq(Nat), NEW f, NEW e, NEW k, Cut(s, f, e, k)
  PROVE  Splits(s, SubSeq(s, f, e - 1), SubSeq(s, k + 1, Len(s)))
  <1> DEFINE name == SubSeq(s, f, e - 1)
             rest == SubSeq(s, k + 1, Len(s))
             lead == [j \in 1 .. f - 1 |-> SP]
             gap  == [j \in 1 .. k - e + 1 |-> SP]
  <1>1. /\ Len(s) \in Nat /\ f \in Nat /\ e \in Nat /\ k \in Nat
        /\ 1 <= f /\ f <= e /\ e <= Len(s) + 1 /\ e - 1 <= k /\ k <= Len(s)
    BY DEF Cut
  <1>a. PICK a \in Nat : a = f - 1
    BY <1>1
  <1>b. PICK b \in Nat : b = e - f
    BY <1>1
  <1>c. PICK c \in Nat : c = k - e + 1
    BY <1>1
  <1>d. PICK d \in Nat : d = Len(s) - k
    <2>1. Len(s) - k \in Nat
      BY <1>1
    <2>2. QED
      BY <2>1
  <1>2. a = f - 1 /\ b = e - f /\ c = k - e + 1 /\ d = Len(s) - k
    BY <1>a, <1>b, <1>c, <1>d
  <1>3. a + b + c + d = Len(s)
    BY <1>1, <1>2
  <1>4. lead \in Seq(Nat) /\ Len(lead) = a /\ \A j \in 1 .. a : lead[j] = SP
    BY <1>2 DEF SP
  <1>5. gap \in Seq(Nat) /\ Len(gap) = c /\ \A j \in 1 .. c : gap[j] = SP
    BY <1>2 DEF SP
  <1>6. name \in Seq(Nat) /\ Len(name) = b /\ \A j \in 1 .. b : name[j] = s[a + j]
    <2>1. /\ e - 1 \in Nat /\ f <= (e - 1) + 1 /\ e - 1 <= Len(s) /\ (e - 1) - f + 1 = b
      BY <1>1, <1>2
    <2>2. /\ name \in Seq(Nat) /\ Len(name) = b
          /\ \A j \in 1 .. b : name[j] = s[f + j - 1]
      BY <1>1, <2>1, Piece
    <2>3. \A j \in 1 .. b : f + j - 1 = a + j
      BY <1>1, <1>2
    <2> HIDE DEF name
    <2>4. QED
      BY <2>2, <2>3
  <1>7. rest \in Seq(Nat) /\ Len(rest) = d /\ \A j \in 1 .. d : rest[j] = s[k + j]
    <2>1. /\ k + 1 \in Nat /\ 1 <= k + 1 /\ k + 1 <= Len(s) + 1
          /\ Len(s) - (k + 1) + 1 = d
      BY <1>1, <1>2
    <2>2. /\ rest \in Seq(Nat) /\ Len(rest) = d
          /\ \A j \in 1 .. d : rest[j] = s[(k + 1) + j - 1]
      BY <1>1, <2>1, Piece
    <2>3. \A j \in 1 .. d : (k + 1) + j - 1 = k + j
      BY <1>1, <1>2
    <2> HIDE DEF rest
    <2>4. QED
      BY <2>2, <2>3
  <1>8. (\A j \in 1 .. a : s[j] = SP) /\ (\A j \in e .. k : s[j] = SP)
    BY <1>2 DEF Cut
  <1>9. c = 0 => rest = <<>>
    <2>1. c = 0 => d = 0
      BY <1>1, <1>2 DEF Cut
    <2> HIDE DEF rest
    <2>2. QED
      BY <1>7, <2>1, EmptySeq
  <1> HIDE DEF name, rest, lead, gap
  <1> DEFINE p == lead \o name
             q == p \o gap
             t == q \o rest
  <1>10. p \in Seq(Nat) /\ Len(p) = a + b /\ \A j \in 1 .. Len(p) : p[j] = s[j]
    <2>1. \A j \in 1 .. Len(lead) : lead[j] = s[j]
      BY <1>4, <1>8
    <2>2. \A j \in 1 .. Len(name) : name[j] = s[Len(lead) + j]
      BY <1>4, <1>6
    <2>3. p \in Seq(Nat) /\ Len(p) = Len(lead) + Len(name) /\ \A j \in 1 .. Len(p) : p[j] = s[j]
      BY <1>4, <1>6, <2>1, <2>2, Joined
    <2>4. QED
      BY <1>4, <1>6, <2>3
  <1> HIDE DEF p
  <1>11. q \in Seq(Nat) /\ Len(q) = a + b + c /\ \A j \in 1 .. Len(q) : q[j] = s[j]
    <2>1. \A j \in 1 .. c : a + b + j \in e .. k
      BY <1>1, <1>2
    <2>2. \A j \in 1 .. Len(gap) : gap[j] = s[Len(p) + j]
      BY <1>5, <1>8, <1>10, <2>1
    <2>3. q \in Seq(Nat) /\ Len(q) = Len(p) + Len(gap) /\ \A j \in 1 .. Len(q) : q[j] = s[j]
      BY <1>5, <1>10, <2>2, Joined
    <2>4. QED
      BY <1>5, <1>10, <2>3
  <1> HIDE DEF q
  <1>12. t = s
    <2>1. k = a + b + c
      BY <1>1, <1>2
    <2>2. \A j \in 1 .. Len(rest) : rest[j] = s[Len(q) + j]
      BY <1>7, <1>11, <2>1
    <2>3. t \in Seq(Nat) /\ Len(t) = Len(q) + Len(rest) /\ \A j \in 1 .. Len(t) : t[j] = s[j]
      BY <1>7, <1>11, <2>2, Joined
    <2> HIDE DEF t
    <2>4. Len(t) = Len(s)
      BY <1>3, <1>7, <1>11, <2>3
    <2>5. QED
      BY <2>3, <2>4, SameText
  <1>13. s = [j \in 1 .. a |-> SP] \o name \o [j \in 1 .. c |-> SP] \o rest
    BY <1>2, <1>12 DEF t, q, p, lead, gap
  <1>14. a \in 0 .. Len(s) /\ c \in 0 .. Len(s) - Len(name) - Len(rest)
    BY <1>1, <1>3, <1>6, <1>7
  <1>15. a + Len(name) + c + Len(rest) = Len(s)
    BY <1>3, <1>6, <1>7
  <1>16. name = <<>> => \A j \in DOMAIN s : s[j] = SP
    <2>1. name = <<>> => b = 0
      BY <1>6, EmptySeq
    <2>2. b = 0 => a = Len(s)
      BY <1>1, <1>2 DEF Cut
    <2>3. DOMAIN s = 1 .. Len(s)
      OBVIOUS
    <2>4. QED
      BY <1>8, <2>1, <2>2, <2>3
  <1>17. Splits(s, name, rest)
    BY <1>9, <1>13, <1>14, <1>15, <1>16 DEF Splits
  <1>18. QED
    BY <1>17 DEF name, rest

(* The call that Command returns is as CommandRight says. *)
LEMMA CommandFound ==
  ASSUME NEW s \in Texts(Alphabet \cup {SP}, MaxCommand), NEW n \in 0 .. MaxCommand
  PROVE  \E rest \in {SubSeq(s, i, Len(s)) : i \in 1 .. Len(s) + 1} :
           /\ Splits(s, CString(Cmd(s)), rest)
           /\ \A i \in DOMAIN CString(Cmd(s)) : CString(Cmd(s))[i] # SP
           /\ rest # <<>> => rest[1] # SP
           /\ getargs(s, n).ret = IF rest = <<>> THEN -1 ELSE 0
           /\ getargs(s, n).buf = IF rest = <<>> THEN <<>>
                                  ELSE SubSeq(Append(rest, NUL), 1, Least(Len(rest) + 1, n))
  <1>1. /\ s \in Seq(Nat) /\ Len(s) \in Nat /\ Len(s) + 1 < ARGS_SIZE
        /\ \A i \in 1 .. Len(s) : s[i] # NUL
    BY Lines
  <1>2. PICK f, e, k : Cut(s, f, e, k) /\ Cmd(s) = Buffer(s, f, e, k)
    BY <1>1, CommandCut
  <1> DEFINE name == SubSeq(s, f, e - 1)
             rest == SubSeq(s, k + 1, Len(s))
  <1>3. CString(Cmd(s)) = name /\ Argv1(s) = rest
    BY <1>1, <1>2, BufferRead
  <1>4. Splits(s, name, rest)
    BY <1>1, <1>2, CutSplits
  <1>5. /\ f \in Nat /\ e \in Nat /\ k \in Nat
        /\ 1 <= f /\ f <= e /\ e <= Len(s) + 1 /\ e - 1 <= k /\ k <= Len(s)
    BY <1>1, <1>2 DEF Cut
  <1>6. rest \in {SubSeq(s, i, Len(s)) : i \in 1 .. Len(s) + 1}
    <2>1. k + 1 \in 1 .. Len(s) + 1
      BY <1>1, <1>5
    <2>2. QED
      BY <2>1, Zenon
  <1>7. \A i \in DOMAIN name : name[i] # SP
    <2>a. e - 1 \in Nat /\ f <= (e - 1) + 1 /\ e - 1 <= Len(s) /\ (e - 1) - f + 1 = e - f
      BY <1>1, <1>5
    <2>b. name \in Seq(Nat) /\ Len(name) = e - f
      BY <1>1, <1>5, <2>a, Piece
    <2>1. DOMAIN name = 1 .. e - f
      <3> HIDE DEF name
      <3>1. QED
        BY <2>b
    <2>2. \A i \in 1 .. e - f : name[i] = s[f + i - 1]
      BY <1>1, <1>5, <2>a, Piece
    <2>3. \A i \in 1 .. e - f : f + i - 1 \in f .. e - 1
      BY <1>5
    <2>4. \A j \in f .. e - 1 : s[j] # SP
      BY <1>2 DEF Cut
    <2> HIDE DEF name
    <2>5. QED
      BY <2>1, <2>2, <2>3, <2>4
  <1>8. rest \in Seq(Nat) /\ Len(rest) = Len(s) - k /\ (k < Len(s) => rest[1] = s[k + 1])
    <2>1. /\ k + 1 \in Nat /\ 1 <= k + 1 /\ k + 1 <= Len(s) + 1
          /\ Len(s) - (k + 1) + 1 = Len(s) - k /\ (k + 1) + 1 - 1 = k + 1
          /\ k < Len(s) => 1 \in 1 .. Len(s) - k
      BY <1>1, <1>5
    <2>2. QED
      BY <1>1, <2>1, Piece
  <1>9. rest # <<>> => rest[1] # SP
    <2>1. k < Len(s) => s[k + 1] # SP
      BY <1>2 DEF Cut
    <2> HIDE DEF rest
    <2>2. rest # <<>> => k < Len(s)
      BY <1>1, <1>5, <1>8, EmptySeq
    <2>3. QED
      BY <1>8, <2>1, <2>2
  <1> HIDE DEF name, rest
  <1>10. Len(Append(rest, NUL)) = Len(rest) + 1
    BY <1>8
  <1>11. getargs(s, n).ret = IF rest = <<>> THEN -1 ELSE 0
    BY <1>3 DEF getargs
  <1>12. getargs(s, n).buf = IF rest = <<>> THEN <<>>
                             ELSE SubSeq(Append(rest, NUL), 1, Least(Len(rest) + 1, n))
    BY <1>3, <1>10 DEF getargs, Least
  <1>13. QED
    BY <1>3, <1>4, <1>6, <1>7, <1>9, <1>11, <1>12

(* execute and getargs take every command line apart as CommandRight says, *)
(* whatever the alphabet and however long the line, as long as its         *)
(* characters and two NULs fit into the buffer (syscall.c:182-198,         *)
(* 275-279 and 460-471).                                                   *)
THEOREM CommandCorrect == StringsSpec => []CommandRight
  <1>1. CallsInit => CommandRight
    BY DEF CallsInit, CommandRight
  <1>2. CommandRight /\ [StringsNext]_call => CommandRight'
    <2> SUFFICES ASSUME CommandRight, [StringsNext]_call
                 PROVE  CommandRight'
      OBVIOUS
    <2>1. CASE Itoa
      BY <2>1 DEF Itoa, Return, CommandRight
    <2>2. CASE Formatted
      BY <2>2 DEF Formatted, Return, CommandRight
    <2>3. CASE Command
      <3>1. PICK s \in Texts(Alphabet \cup {SP}, MaxCommand), n \in 0 .. MaxCommand :
              call' = [op |-> "execute", line |-> s, nbytes |-> n,
                       name |-> CString(Cmd(s)), args |-> getargs(s, n)]
        BY <2>3 DEF Command, Return
      <3>2. /\ call'.line = s /\ call'.nbytes = n
            /\ call'.name = CString(Cmd(s)) /\ call'.args = getargs(s, n)
        BY <3>1
      <3>3. PICK rest \in {SubSeq(s, i, Len(s)) : i \in 1 .. Len(s) + 1} :
              /\ Splits(s, CString(Cmd(s)), rest)
              /\ \A i \in DOMAIN CString(Cmd(s)) : CString(Cmd(s))[i] # SP
              /\ rest # <<>> => rest[1] # SP
              /\ getargs(s, n).ret = IF rest = <<>> THEN -1 ELSE 0
              /\ getargs(s, n).buf =
                   IF rest = <<>> THEN <<>>
                   ELSE SubSeq(Append(rest, NUL), 1, Least(Len(rest) + 1, n))
        BY CommandFound, Zenon
      <3>4. QED
        BY <3>2, <3>3, Zenon DEF CommandRight
    <2>4. CASE Forget
      BY <2>4 DEF Forget, CommandRight
    <2>5. CASE UNCHANGED call
      BY <2>5 DEF CommandRight
    <2>6. QED
      BY <2>1, <2>2, <2>3, <2>4, <2>5 DEF StringsNext
  <1>3. QED
    BY <1>1, <1>2, PTL DEF StringsSpec

-----------------------------------------------------------------------------
(* Numbers *)

(* Induction over the numbers below each, and the functions that are       *)
(* defined by it.                                                          *)
LEMMA StrongInduction ==
  ASSUME NEW S, \A n \in Nat : (\A m \in 0 .. n - 1 : m \in S) => n \in S
  PROVE  \A n \in Nat : n \in S
  <1> SUFFICES ASSUME Nat \ S # {}
               PROVE  FALSE
    BY Zenon
  <1>1. PICK n \in Nat \ S : \A m \in Nat \ S : n <= m
    <2>1. Nat \ S \in SUBSET Nat
      OBVIOUS
    <2>2. QED
      BY <2>1, LeastIndex
  <1>2. \A m \in 0 .. n - 1 : m \in Nat /\ ~(n <= m)
    BY <1>1
  <1>3. QED
    BY <1>1, <1>2, Zenon

LEMMA SimpleInduction ==
  ASSUME NEW S, 0 \in S, \A n \in Nat : n \in S => n + 1 \in S
  PROVE  \A n \in Nat : n \in S
  <1>1. ASSUME NEW n \in Nat, \A m \in 0 .. n - 1 : m \in S
        PROVE  n \in S
    <2>1. CASE n = 0
      BY <2>1
    <2>2. CASE n # 0
      <3>1. n - 1 \in Nat /\ n - 1 \in 0 .. n - 1 /\ (n - 1) + 1 = n
        BY <2>2
      <3>2. (n - 1) + 1 \in S
        BY <1>1, <3>1
      <3>3. QED
        BY <3>1, <3>2
    <2>3. QED
      BY <2>1, <2>2
  <1>2. QED
    BY <1>1, StrongInduction

Iterates(g, n, X, x, F) ==
    /\ g \in [0 .. n -> X] /\ g[0] = x
    /\ \A k \in 1 .. n : g[k] = F[k][g[k - 1]]

LEMMA Recursion ==
  ASSUME NEW X, NEW x \in X, NEW F \in [Nat -> [X -> X]], NEW n \in Nat
  PROVE  \E g : Iterates(g, n, X, x, F)
  <1> DEFINE P(m, g) == g[0] = x /\ \A k \in 1 .. m : g[k] = F[k][g[k - 1]]
             S == {m \in Nat : \E g \in [0 .. m -> X] : P(m, g)}
  <1>1. 0 \in S
    <2> DEFINE g == [k \in 0 .. 0 |-> x]
    <2>1. g \in [0 .. 0 -> X] /\ g[0] = x /\ 1 .. 0 = {}
      OBVIOUS
    <2>2. P(0, g)
      BY <2>1
    <2> HIDE DEF g, P
    <2>3. QED
      BY <2>1, <2>2
  <1>2. ASSUME NEW m \in Nat, m \in S
        PROVE  m + 1 \in S
    <2>1. PICK g \in [0 .. m -> X] : P(m, g)
      BY <1>2
    <2> DEFINE h == [k \in 0 .. m + 1 |-> IF k <= m THEN g[k] ELSE F[m + 1][g[m]]]
    <2>2. F[m + 1][g[m]] \in X
      <3>1. m + 1 \in Nat /\ g[m] \in X
        OBVIOUS
      <3>2. QED
        BY <3>1
    <2>3. h \in [0 .. m + 1 -> X]
      BY <2>2
    <2>4. (\A k \in 0 .. m : h[k] = g[k]) /\ h[m + 1] = F[m + 1][g[m]]
      OBVIOUS
    <2> HIDE DEF h
    <2>5. h[0] = x
      BY <2>1, <2>4
    <2>6. ASSUME NEW k \in 1 .. m + 1
          PROVE  h[k] = F[k][h[k - 1]]
      <3>1. CASE k <= m
        <4>1. k \in 0 .. m /\ k \in 1 .. m /\ k - 1 \in 0 .. m
          BY <3>1
        <4>2. QED
          BY <2>1, <2>4, <4>1
      <3>2. CASE k = m + 1
        <4>1. m \in 0 .. m /\ k - 1 = m
          BY <3>2
        <4>2. QED
          BY <2>4, <3>2, <4>1
      <3>3. QED
        BY <3>1, <3>2
    <2>7. P(m + 1, h)
      BY <2>5, <2>6
    <2> HIDE DEF P
    <2>8. QED
      BY <2>3, <2>7
  <1> HIDE DEF S
  <1>3. \A m \in Nat : m \in S
    BY <1>1, <1>2, SimpleInduction
  <1>4. QED
    BY <1>3 DEF S, Iterates

(* Division takes a number apart and makes it smaller. *)
LEMMA Division ==
  ASSUME NEW u \in Nat, NEW r \in Nat, r >= 2
  PROVE  /\ u \div r \in Nat /\ u % r \in 0 .. r - 1
         /\ u = (u \div r) * r + (u % r)
         /\ u > 0 => u \div r < u
  <1>1. u \div r \in Nat /\ u % r \in 0 .. r - 1
    OBVIOUS
  <1>2. u = (u \div r) * r + (u % r)
    OBVIOUS
  <1>3. u > 0 => u \div r < u
    OBVIOUS
  <1>4. QED
    BY <1>1, <1>2, <1>3

(* One exchange of strrev. *)
Swap(s, before, k) ==
    LET end == Len(s) + 1 - k
    IN  IF k < end THEN [before EXCEPT ![k] = before[end], ![end] = before[k]] ELSE before

SwapsOf(s, g) == g = [k \in 0 .. Len(s) |-> IF k = 0 THEN s ELSE Swap(s, g[k - 1], k)]

LEMMA StrrevIs ==
  ASSUME NEW s \in Seq(Nat)
  PROVE  \E g : SwapsOf(s, g) /\ strrev(s) = g[Len(s)]
  <1> DEFINE L == Len(s)
             X == [1 .. L -> Nat]
             F == [k \in Nat |-> [b \in X |-> IF k \in 1 .. L THEN Swap(s, b, k) ELSE b]]
  <1>1. L \in Nat /\ s \in X
    OBVIOUS
  <1>2. F \in [Nat -> [X -> X]]
    <2> HIDE DEF L
    <2> SUFFICES ASSUME NEW k \in Nat, NEW b \in X
                 PROVE  (IF k \in 1 .. L THEN Swap(s, b, k) ELSE b) \in X
      BY Zenon
    <2>1. CASE k \in 1 .. L /\ k < L + 1 - k
      <3>1. k \in 1 .. L /\ L + 1 - k \in 1 .. L
        BY <1>1, <2>1
      <3>2. Swap(s, b, k) = [b EXCEPT ![k] = b[L + 1 - k], ![L + 1 - k] = b[k]]
        BY <2>1 DEF Swap, L
      <3>3. QED
        BY <3>1, <3>2
    <2>2. CASE k \in 1 .. L /\ ~(k < L + 1 - k)
      BY <2>2 DEF Swap, L
    <2>3. QED
      BY <2>1, <2>2
  <1> HIDE DEF F, X
  <1>3. PICK g \in [0 .. L -> X] : g[0] = s /\ \A k \in 1 .. L : g[k] = F[k][g[k - 1]]
    <2> HIDE DEF L
    <2>1. \E g : Iterates(g, L, X, s, F)
      BY <1>1, <1>2, Recursion
    <2>2. QED
      BY <2>1 DEF Iterates
  <1>4. ASSUME NEW k \in 1 .. L
        PROVE  g[k] = Swap(s, g[k - 1], k)
    <2>1. k - 1 \in 0 .. L /\ k \in Nat
      BY <1>1
    <2>2. g[k - 1] \in X
      BY <2>1
    <2>3. QED
      BY <1>3, <2>1, <2>2 DEF F
  <1>5. SwapsOf(s, g)
    <2>1. \A k \in 0 .. L : g[k] = IF k = 0 THEN s ELSE Swap(s, g[k - 1], k)
      BY <1>1, <1>3, <1>4
    <2>2. QED
      BY <2>1 DEF SwapsOf
  <1>6. strrev(s) = (CHOOSE f : SwapsOf(s, f))[Len(s)]
    BY DEF strrev, SwapsOf, Swap
  <1>7. SwapsOf(s, CHOOSE f : SwapsOf(s, f))
    BY <1>5
  <1>8. QED
    BY <1>6, <1>7

(* strrev reverses. *)
LEMMA Reversed ==
  ASSUME NEW s \in Seq(Nat)
  PROVE  /\ strrev(s) \in Seq(Nat) /\ Len(strrev(s)) = Len(s)
         /\ \A i \in 1 .. Len(s) : strrev(s)[i] = s[Len(s) + 1 - i]
  <1>1. PICK g : SwapsOf(s, g) /\ strrev(s) = g[Len(s)]
    BY StrrevIs
  <1>2. PICK L \in Nat : L = Len(s)
    OBVIOUS
  <1>3. s \in [1 .. L -> Nat]
    BY <1>2
  <1>4. g[0] = s
    BY <1>1, <1>2 DEF SwapsOf
  <1>5. ASSUME NEW k \in 1 .. L
        PROVE  g[k] = Swap(s, g[k - 1], k)
    <2>1. g = [j \in 0 .. L |-> IF j = 0 THEN s ELSE Swap(s, g[j - 1], j)]
      BY <1>1, <1>2 DEF SwapsOf
    <2>2. k \in 0 .. L /\ k # 0
      BY <1>2
    <2>3. \A j \in 0 .. L : g[j] = IF j = 0 THEN s ELSE Swap(s, g[j - 1], j)
      BY <2>1, Zenon
    <2>4. QED
      BY <2>2, <2>3, Zenon
  <1> DEFINE P(k) == /\ g[k] \in [1 .. L -> Nat]
                     /\ \A i \in 1 .. L : g[k][i] = IF i <= k \/ i >= L + 1 - k
                                                    THEN s[L + 1 - i] ELSE s[i]
             S == {k \in Nat : k <= L => P(k)}
  <1>6. 0 \in S
    BY <1>3, <1>4
  <1>7. ASSUME NEW m \in Nat, m \in S
        PROVE  m + 1 \in S
    <2>s. SUFFICES ASSUME m + 1 <= L
                   PROVE  P(m + 1)
      <3> HIDE DEF P
      <3>1. m + 1 \in Nat
        OBVIOUS
      <3>2. QED
        BY <3>1
    <2>1. PICK k \in 1 .. L : k = m + 1 /\ k - 1 = m
      BY <2>s
    <2>2. P(m)
      <3> HIDE DEF P
      <3>1. m <= L
        BY <2>s
      <3>2. QED
        BY <1>7, <3>1
    <2>3. g[k] = Swap(s, g[m], k)
      BY <1>5, <2>1
    <2>4. CASE k < L + 1 - k
      <3>1. PICK e \in 1 .. L : e = L + 1 - k
        BY <2>1, <2>4
      <3>2. g[k] = [g[m] EXCEPT ![k] = g[m][e], ![e] = g[m][k]]
        BY <1>2, <2>3, <2>4, <3>1 DEF Swap
      <3>3. g[k] \in [1 .. L -> Nat]
        BY <2>2, <3>1, <3>2
      <3>4. ASSUME NEW i \in 1 .. L
            PROVE  g[k][i] = IF i <= k \/ i >= L + 1 - k THEN s[L + 1 - i] ELSE s[i]
        <4>1. CASE i = k
          <5>1. g[k][i] = g[m][e]
            BY <2>2, <2>4, <3>1, <3>2, <4>1
          <5>2. ~(e <= m) /\ ~(e >= L + 1 - m) /\ L + 1 - i = e
            BY <2>1, <2>4, <3>1, <4>1
          <5>3. g[m][e] = s[e]
            BY <2>2, <5>2
          <5>4. QED
            BY <5>1, <5>2, <5>3, <4>1
        <4>2. CASE i = e
          <5>1. g[k][i] = g[m][k]
            BY <2>2, <2>4, <3>1, <3>2, <4>2
          <5>2. ~(k <= m) /\ ~(k >= L + 1 - m) /\ L + 1 - i = k
            BY <2>1, <2>4, <3>1, <4>2
          <5>3. g[m][k] = s[k]
            BY <2>2, <5>2
          <5>4. QED
            BY <5>1, <5>2, <5>3, <4>2, <3>1
        <4>3. CASE i # k /\ i # e
          <5>1. g[k][i] = g[m][i]
            BY <2>2, <3>2, <4>3
          <5>2. (i <= k \/ i >= L + 1 - k) <=> (i <= m \/ i >= L + 1 - m)
            BY <2>1, <3>1, <4>3
          <5>3. QED
            BY <2>2, <5>1, <5>2
        <4>4. QED
          BY <4>1, <4>2, <4>3
      <3>5. QED
        BY <2>1, <3>3, <3>4
    <2>5. CASE ~(k < L + 1 - k)
      <3>1. g[k] = g[m]
        BY <1>2, <2>3, <2>5 DEF Swap
      <3>2. ASSUME NEW i \in 1 .. L
            PROVE  g[k][i] = IF i <= k \/ i >= L + 1 - k THEN s[L + 1 - i] ELSE s[i]
        <4>1. i <= k \/ i >= L + 1 - k
          BY <2>1, <2>5
        <4>2. CASE i <= m \/ i >= L + 1 - m
          BY <2>2, <3>1, <4>1, <4>2
        <4>3. CASE ~(i <= m \/ i >= L + 1 - m)
          <5>1. L + 1 - i = i
            BY <2>1, <2>5, <4>1, <4>3
          <5>2. g[m][i] = s[i]
            BY <2>2, <4>3
          <5>3. QED
            BY <3>1, <5>1, <5>2
        <4>4. QED
          BY <4>2, <4>3
      <3>3. QED
        BY <2>1, <2>2, <3>1, <3>2
    <2>6. QED
      BY <2>4, <2>5
  <1> HIDE DEF S
  <1>8. \A k \in Nat : k \in S
    BY <1>6, <1>7, SimpleInduction
  <1>9. P(L)
    BY <1>8 DEF S
  <1>10. strrev(s) \in [1 .. L -> Nat]
    BY <1>1, <1>2, <1>9
  <1>11. \A i \in 1 .. L : strrev(s)[i] = s[L + 1 - i]
    BY <1>1, <1>2, <1>9
  <1>12. QED
    BY <1>2, <1>10, <1>11, IsText

(* ValueOf reads from the first digit on. *)
ValuesOf(s, radix, g) ==
    g = [k \in 0 .. Len(s) |-> IF k = 0 THEN 0 ELSE g[k - 1] * radix + s[k]]

LEMMA ValueIs ==
  ASSUME NEW s \in Seq(Nat), NEW radix \in Nat
  PROVE  \E g : /\ ValueOf(s, radix) = g[Len(s)] /\ g[0] = 0
                /\ \A k \in 1 .. Len(s) : g[k] = g[k - 1] * radix + s[k]
  <1> DEFINE F == [k \in Nat |-> [b \in Nat |-> IF k \in 1 .. Len(s) THEN b * radix + s[k] ELSE b]]
  <1>1. Len(s) \in Nat
    OBVIOUS
  <1>2. F \in [Nat -> [Nat -> Nat]]
    <2>1. ASSUME NEW k \in Nat, NEW b \in Nat
          PROVE  (IF k \in 1 .. Len(s) THEN b * radix + s[k] ELSE b) \in Nat
      <3>1. CASE k \in 1 .. Len(s)
        <4>1. s[k] \in Nat /\ b * radix \in Nat
          BY <3>1
        <4>2. b * radix + s[k] \in Nat
          BY <4>1
        <4>3. QED
          BY <3>1, <4>2
      <3>2. QED
        BY <3>1
    <2>2. QED
      BY <2>1, Zenon
  <1> HIDE DEF F
  <1>3. PICK g : Iterates(g, Len(s), Nat, 0, F)
    <2>1. 0 \in Nat
      OBVIOUS
    <2>2. QED
      BY <1>1, <1>2, <2>1, Recursion
  <1>4. g \in [0 .. Len(s) -> Nat] /\ g[0] = 0
    BY <1>3 DEF Iterates
  <1>5. ASSUME NEW k \in 1 .. Len(s)
        PROVE  g[k] = g[k - 1] * radix + s[k]
    <2>1. k \in Nat /\ k - 1 \in 0 .. Len(s)
      BY <1>1
    <2>2. g[k - 1] \in Nat
      BY <1>4, <2>1
    <2>3. g[k] = F[k][g[k - 1]]
      BY <1>3 DEF Iterates
    <2>4. QED
      BY <2>1, <2>2, <2>3 DEF F
  <1>6. ValuesOf(s, radix, g)
    <2>1. \A k \in 0 .. Len(s) : g[k] = IF k = 0 THEN 0 ELSE g[k - 1] * radix + s[k]
      BY <1>1, <1>4, <1>5
    <2>2. QED
      BY <1>4, <2>1 DEF ValuesOf
  <1>7. PICK h : h = CHOOSE f : ValuesOf(s, radix, f)
    OBVIOUS
  <1>8. ValueOf(s, radix) = h[Len(s)]
    BY <1>7 DEF ValueOf, ValuesOf
  <1>9. ValuesOf(s, radix, h)
    BY <1>6, <1>7
  <1>10. \A k \in 0 .. Len(s) : h[k] = IF k = 0 THEN 0 ELSE h[k - 1] * radix + s[k]
    <2>1. h = [k \in 0 .. Len(s) |-> IF k = 0 THEN 0 ELSE h[k - 1] * radix + s[k]]
      BY <1>9 DEF ValuesOf
    <2>2. QED
      BY <2>1, Zenon
  <1>11. h[0] = 0
    BY <1>1, <1>10
  <1>12. \A k \in 1 .. Len(s) : h[k] = h[k - 1] * radix + s[k]
    <2>1. TAKE k \in 1 .. Len(s)
    <2>2. k \in 0 .. Len(s) /\ k # 0
      BY <1>1
    <2>3. QED
      BY <1>10, <2>2, Zenon
  <1>13. QED
    BY <1>8, <1>11, <1>12

(* The digits of the numbers up to n, lowest first. *)
DigitsOf(d, n, r) ==
    d = [v \in 0 .. n |-> IF v = 0 THEN <<>> ELSE <<v % r>> \o d[v \div r]]

LEMMA DigitsStep ==
  ASSUME NEW n \in Nat, NEW r, NEW d, DigitsOf(d, n, r)
  PROVE  d[0] = <<>> /\ \A v \in 1 .. n : d[v] = <<v % r>> \o d[v \div r]
  <1>1. \A v \in 0 .. n : d[v] = IF v = 0 THEN <<>> ELSE <<v % r>> \o d[v \div r]
    <2>1. d = [v \in 0 .. n |-> IF v = 0 THEN <<>> ELSE <<v % r>> \o d[v \div r]]
      BY DEF DigitsOf
    <2>2. QED
      BY <2>1, Zenon
  <1>2. d[0] = <<>>
    <2>1. 0 \in 0 .. n
      OBVIOUS
    <2>2. QED
      BY <1>1, <2>1, Zenon
  <1>3. \A v \in 1 .. n : d[v] = <<v % r>> \o d[v \div r]
    <2>1. TAKE v \in 1 .. n
    <2>2. v \in 0 .. n /\ v # 0
      OBVIOUS
    <2>3. QED
      BY <1>1, <2>2, Zenon
  <1>4. QED
    BY <1>2, <1>3

LEMMA DigitsExist ==
  ASSUME NEW r \in Nat, r >= 2, NEW n \in Nat
  PROVE  \E d : DigitsOf(d, n, r)
  <1> DEFINE S == {m \in Nat : \E d : DigitsOf(d, m, r)}
  <1>1. 0 \in S
    <2> DEFINE d == [v \in 0 .. 0 |-> <<>>]
    <2>1. d = [v \in 0 .. 0 |-> IF v = 0 THEN <<>> ELSE <<v % r>> \o d[v \div r]]
      <3>1. \A v \in 0 .. 0 : v = 0
        OBVIOUS
      <3>2. QED
        BY <3>1
    <2> HIDE DEF d
    <2>2. DigitsOf(d, 0, r)
      BY <2>1 DEF DigitsOf
    <2>3. QED
      BY <2>2
  <1>2. ASSUME NEW m \in Nat, m \in S
        PROVE  m + 1 \in S
    <2>1. PICK d : DigitsOf(d, m, r)
      BY <1>2
    <2>2. d[0] = <<>> /\ \A v \in 1 .. m : d[v] = <<v % r>> \o d[v \div r]
      BY <2>1, DigitsStep
    <2> DEFINE h == [v \in 0 .. m + 1 |->
                       IF v <= m THEN d[v] ELSE <<v % r>> \o d[v \div r]]
    <2>3. \A v \in 0 .. m : h[v] = d[v]
      OBVIOUS
    <2>4. \A v \in 1 .. m + 1 : v \div r \in 0 .. m
      <3>1. TAKE v \in 1 .. m + 1
      <3>2. v \div r \in Nat /\ v \div r < v
        BY Division
      <3>3. QED
        BY <3>2
    <2>5. \A v \in 0 .. m + 1 : h[v] = IF v = 0 THEN <<>> ELSE <<v % r>> \o h[v \div r]
      <3>1. TAKE v \in 0 .. m + 1
      <3>2. CASE v = 0
        BY <2>2, <3>2
      <3>3. CASE v \in 1 .. m
        <4>1. h[v] = <<v % r>> \o d[v \div r]
          BY <2>2, <3>3
        <4>2. h[v \div r] = d[v \div r]
          <5>1. v \in 1 .. m + 1
            BY <3>3
          <5>2. QED
            BY <2>3, <2>4, <5>1, Zenon
        <4> HIDE DEF h
        <4>3. QED
          BY <3>3, <4>1, <4>2
      <3>4. CASE v = m + 1
        <4>1. h[v] = <<v % r>> \o d[v \div r]
          BY <3>4
        <4>2. h[v \div r] = d[v \div r]
          <5>1. v \in 1 .. m + 1
            BY <3>4
          <5>2. QED
            BY <2>3, <2>4, <5>1, Zenon
        <4> HIDE DEF h
        <4>3. QED
          BY <3>4, <4>1, <4>2
      <3>5. QED
        BY <3>2, <3>3, <3>4
    <2>6. DOMAIN h = 0 .. m + 1 /\ h = [v \in DOMAIN h |-> h[v]]
      OBVIOUS
    <2> HIDE DEF h
    <2>7. DigitsOf(h, m + 1, r)
      BY <2>5, <2>6 DEF DigitsOf
    <2>8. QED
      BY <2>7
  <1> HIDE DEF S
  <1>3. \A m \in Nat : m \in S
    BY <1>1, <1>2, SimpleInduction
  <1>4. QED
    BY <1>3 DEF S

(* The quotients that the digits of u are the remainders of. *)
Quotients(t, w, u, r) ==
    /\ t \in Seq(Nat) /\ w \in [0 .. Len(t) -> Nat]
    /\ w[0] = u /\ w[Len(t)] = 0
    /\ \A j \in 1 .. Len(t) : /\ w[j - 1] > 0
                              /\ w[j] = w[j - 1] \div r
                              /\ t[j] = w[j - 1] % r

LEMMA DigitsQuotients ==
  ASSUME NEW r \in Nat, r >= 2, NEW n \in Nat, NEW d, DigitsOf(d, n, r), NEW u \in 0 .. n
  PROVE  \E w : Quotients(d[u], w, u, r)
  <1>1. d[0] = <<>> /\ \A v \in 1 .. n : d[v] = <<v % r>> \o d[v \div r]
    BY DigitsStep
  <1> DEFINE S == {v \in Nat : v <= n => \E w : Quotients(d[v], w, v, r)}
  <1>2. ASSUME NEW v \in Nat, \A m \in 0 .. v - 1 : m \in S
        PROVE  v \in S
    <2>1. CASE v = 0
      <3> DEFINE w == [j \in 0 .. 0 |-> 0]
      <3>1. d[v] = <<>> /\ d[v] \in Seq(Nat) /\ Len(d[v]) = 0
        <4>1. d[v] = <<>>
          BY <1>1, <2>1, Zenon
        <4>2. QED
          BY <4>1
      <3>2. w \in [0 .. 0 -> Nat] /\ w[0] = 0 /\ 1 .. 0 = {}
        OBVIOUS
      <3> HIDE DEF w
      <3>3. Quotients(d[v], w, v, r)
        BY <2>1, <3>1, <3>2 DEF Quotients
      <3>4. QED
        BY <3>3
    <2>2. CASE v > 0 /\ v <= n
      <3>1. PICK q \in 0 .. v - 1 : q = v \div r
        <4>1. v \div r \in Nat /\ v \div r < v
          BY <2>2, Division
        <4>2. QED
          BY <4>1
      <3>2. PICK w : Quotients(d[q], w, q, r)
        BY <1>2, <2>2, <3>1
      <3>3. PICK t : t = d[q]
        OBVIOUS
      <3>4. PICK L \in Nat : L = Len(t)
        BY <3>2, <3>3 DEF Quotients
      <3>5. /\ t \in Seq(Nat) /\ w \in [0 .. L -> Nat]
            /\ w[0] = q /\ w[L] = 0
            /\ \A j \in 1 .. L : w[j - 1] > 0 /\ w[j] = w[j - 1] \div r /\ t[j] = w[j - 1] % r
        BY <3>2, <3>3, <3>4 DEF Quotients
      <3>6. PICK x \in Nat : x = v % r
        <4>1. v % r \in 0 .. r - 1
          BY Division
        <4>2. v % r \in Nat
          BY <4>1
        <4>3. QED
          BY <4>2
      <3>7. d[v] = <<x>> \o t
        <4>1. v \in 1 .. n
          BY <2>2
        <4>2. d[v] = <<v % r>> \o d[v \div r]
          BY <1>1, <4>1, Zenon
        <4>3. QED
          BY <3>1, <3>3, <3>6, <4>2, Zenon
      <3>8. /\ d[v] \in Seq(Nat) /\ Len(d[v]) = L + 1
            /\ d[v][1] = x
            /\ \A j \in 2 .. L + 1 : d[v][j] = t[j - 1]
        <4>1. <<x>> \in Seq(Nat) /\ Len(<<x>>) = 1 /\ <<x>>[1] = x
          OBVIOUS
        <4>2. /\ <<x>> \o t \in Seq(Nat) /\ Len(<<x>> \o t) = 1 + L
              /\ \A j \in 1 .. 1 + L : (<<x>> \o t)[j] = IF j <= 1 THEN <<x>>[j] ELSE t[j - 1]
          BY <3>4, <3>5, <4>1, ConcatProperties
        <4>3. QED
          BY <3>7, <4>1, <4>2
      <3> DEFINE y == [j \in 0 .. L + 1 |-> IF j = 0 THEN v ELSE w[j - 1]]
      <3>9. /\ y \in [0 .. L + 1 -> Nat] /\ y[0] = v
            /\ \A j \in 1 .. L + 1 : y[j] = w[j - 1]
        BY <3>5
      <3> HIDE DEF y
      <3>10. y[L + 1] = 0
        BY <3>5, <3>9
      <3>11. ASSUME NEW j \in 1 .. L + 1
             PROVE  y[j - 1] > 0 /\ y[j] = y[j - 1] \div r /\ d[v][j] = y[j - 1] % r
        <4>1. CASE j = 1
          BY <2>2, <3>1, <3>5, <3>6, <3>8, <3>9, <4>1
        <4>2. CASE j # 1
          <5>1. PICK i \in 1 .. L : i = j - 1
            BY <4>2
          <5>a. i \in 1 .. L + 1 /\ j \in 2 .. L + 1 /\ j - 1 = i
            BY <4>2, <5>1
          <5>2. y[j - 1] = w[i - 1] /\ y[j] = w[i] /\ d[v][j] = t[i]
            BY <3>8, <3>9, <5>a
          <5>3. QED
            BY <3>5, <5>2
        <4>3. QED
          BY <4>1, <4>2
      <3>12. Quotients(d[v], y, v, r)
        BY <3>8, <3>9, <3>10, <3>11 DEF Quotients
      <3>13. QED
        BY <3>12
    <2>3. CASE v > n
      BY <2>3
    <2>4. QED
      BY <2>1, <2>2, <2>3
  <1> HIDE DEF S
  <1>3. \A v \in Nat : v \in S
    BY <1>2, StrongInduction
  <1>4. u \in Nat /\ u <= n
    OBVIOUS
  <1>5. QED
    BY <1>3, <1>4 DEF S

(* What both conversions compute is the numeral. *)
LEMMA DigitsNumeral ==
  ASSUME NEW r \in Nat, r >= 2, NEW u \in Nat \ {0}, NEW d, DigitsOf(d, u, r)
  PROVE  Numeral(strrev(d[u]), u, r)
  <1>1. PICK w : Quotients(d[u], w, u, r)
    BY DigitsQuotients
  <1>2. PICK t : t = d[u]
    OBVIOUS
  <1>3. PICK L \in Nat : L = Len(t)
    BY <1>1, <1>2 DEF Quotients
  <1>4. /\ t \in Seq(Nat) /\ w \in [0 .. L -> Nat]
        /\ w[0] = u /\ w[L] = 0
        /\ \A j \in 1 .. L : w[j - 1] > 0 /\ w[j] = w[j - 1] \div r /\ t[j] = w[j - 1] % r
    BY <1>1, <1>2, <1>3 DEF Quotients
  <1>5. PICK s : s = strrev(t)
    OBVIOUS
  <1>6. /\ s \in Seq(Nat) /\ Len(s) = L
        /\ \A i \in 1 .. L : s[i] = t[L + 1 - i]
    BY <1>3, <1>4, <1>5, Reversed
  <1>7. \A i \in 1 .. L : s[i] = w[L - i] % r /\ w[L - i] > 0 /\ w[L - i] \in Nat
    <2>1. TAKE i \in 1 .. L
    <2>2. PICK j \in 1 .. L : j = L + 1 - i /\ j - 1 = L - i /\ j - 1 \in 0 .. L
      OBVIOUS
    <2>3. s[i] = t[j]
      BY <1>6, <2>2
    <2>4. QED
      BY <1>4, <2>2, <2>3
  <1>8. L > 0
    <2>1. L # 0
      BY <1>4
    <2>2. QED
      BY <2>1
  <1>9. ValueOf(s, r) = u
    <2>1. PICK g : /\ ValueOf(s, r) = g[L] /\ g[0] = 0
                   /\ \A k \in 1 .. L : g[k] = g[k - 1] * r + s[k]
      <3>1. \E g : /\ ValueOf(s, r) = g[Len(s)] /\ g[0] = 0
                   /\ \A k \in 1 .. Len(s) : g[k] = g[k - 1] * r + s[k]
        BY <1>6, ValueIs, Zenon
      <3>2. QED
        BY <1>6, <3>1, Zenon
    <2> DEFINE S == {k \in Nat : k <= L => g[k] = w[L - k]}
    <2>2. 0 \in S
      BY <1>4, <2>1
    <2>3. ASSUME NEW m \in Nat, m \in S
          PROVE  m + 1 \in S
      <3>1. SUFFICES ASSUME m + 1 <= L
                     PROVE  g[m + 1] = w[L - (m + 1)]
        OBVIOUS
      <3>2. PICK k \in 1 .. L : k = m + 1 /\ k - 1 = m
        BY <3>1
      <3>3. PICK j \in 1 .. L : j = L - m /\ j - 1 = L - k /\ j - 1 \in 0 .. L
        BY <3>1, <3>2
      <3>4. g[m] = w[j]
        BY <2>3, <3>1, <3>3
      <3>5. w[j] = w[j - 1] \div r /\ w[j - 1] \in Nat
        BY <1>4, <3>3
      <3>6. s[k] = w[j - 1] % r
        BY <1>7, <3>3
      <3>7. g[k] = (w[j - 1] \div r) * r + (w[j - 1] % r)
        BY <2>1, <3>2, <3>4, <3>5, <3>6
      <3>8. g[k] = w[j - 1]
        BY <3>5, <3>7, Division
      <3>9. QED
        BY <3>2, <3>3, <3>8
    <2> HIDE DEF S
    <2>4. \A m \in Nat : m \in S
      BY <2>2, <2>3, SimpleInduction
    <2>5. g[L] = w[0]
      BY <2>4 DEF S
    <2>6. QED
      BY <1>4, <2>1, <2>5
  <1>10. \A i \in DOMAIN s : s[i] \in 0 .. r - 1
    <2>1. DOMAIN s = 1 .. L
      BY <1>6
    <2>2. ASSUME NEW i \in 1 .. L
          PROVE  s[i] \in 0 .. r - 1
      <3>1. PICK x \in Nat : s[i] = x % r
        BY <1>7
      <3>2. QED
        BY <3>1, Division
    <2>3. QED
      BY <2>1, <2>2
  <1>11. s[1] # 0
    <2>1. PICK x \in Nat : x = w[L - 1] /\ x > 0
      BY <1>7, <1>8
    <2>2. x \div r = 0
      <3>1. L \in 1 .. L
        BY <1>8
      <3>2. QED
        BY <1>4, <2>1, <3>1
    <2>3. x = 0 * r + (x % r)
      BY <2>2, Division
    <2>4. s[1] = x % r
      BY <1>7, <1>8, <2>1
    <2>5. x % r \in Nat
      BY Division
    <2>6. QED
      BY <2>1, <2>3, <2>4, <2>5
  <1>12. QED
    BY <1>2, <1>5, <1>9, <1>10, <1>11 DEF Numeral

LEMMA ZeroNumeral ==
  ASSUME NEW r \in Nat, r >= 2
  PROVE  Numeral(<<0>>, 0, r)
  <1> DEFINE s == <<0>>
  <1>1. s \in Seq(Nat) /\ Len(s) = 1 /\ s[1] = 0 /\ DOMAIN s = 1 .. 1
    OBVIOUS
  <1> HIDE DEF s
  <1>2. PICK g : /\ ValueOf(s, r) = g[1] /\ g[0] = 0
                 /\ \A k \in 1 .. 1 : g[k] = g[k - 1] * r + s[k]
    BY <1>1, ValueIs
  <1>3. ValueOf(s, r) = 0
    <2>1. g[1] = g[1 - 1] * r + s[1]
      BY <1>2
    <2>2. g[1] = 0 * r + 0
      BY <1>1, <1>2, <2>1
    <2>3. QED
      BY <1>2, <2>2
  <1>4. Numeral(s, 0, r)
    BY <1>1, <1>3 DEF Numeral
  <1>5. QED
    BY <1>4 DEF s

LEMMA UserNumeral ==
  ASSUME NEW r \in Nat, r >= 2, NEW u \in Nat
  PROVE  Numeral(ece391_itoa(u, r), u, r)
  <1>1. CASE u = 0
    BY <1>1, ZeroNumeral DEF ece391_itoa
  <1>2. CASE u # 0
    <2>1. PICK d : d = CHOOSE f : DigitsOf(f, u, r)
      OBVIOUS
    <2>2. DigitsOf(d, u, r)
      BY <2>1, DigitsExist
    <2>3. ece391_itoa(u, r) = strrev(d[u])
      BY <1>2, <2>1 DEF ece391_itoa, DigitsOf
    <2>4. QED
      BY <1>2, <2>2, <2>3, DigitsNumeral
  <1>3. QED
    BY <1>1, <1>2

(* The digits itoa looks up are remainders where no number is negative. *)
KernelDigits(d, n, r) ==
    d = [v \in 0 .. n |-> IF v = 0 THEN <<>> ELSE <<lookup(v, r)>> \o d[v \div r]]

LEMMA KernelNumeral ==
  ASSUME NEW r \in Nat, r >= 2, NEW u \in Nat, u < WORD \div 2
  PROVE  Numeral(itoa(u, r), u, r)
  <1>1. CASE u = 0
    BY <1>1, ZeroNumeral DEF itoa
  <1>2. CASE u # 0
    <2>1. \A v \in 0 .. u : lookup(v, r) = v % r
      <3>1. PICK h \in Int : h = WORD \div 2
        BY WordAssumption
      <3>2. \A v \in 0 .. u : v < h
        BY <3>1
      <3>3. QED
        BY <3>1, <3>2 DEF lookup
    <2>2. ASSUME NEW f
          PROVE  KernelDigits(f, u, r) <=> DigitsOf(f, u, r)
      <3>1. [v \in 0 .. u |-> IF v = 0 THEN <<>> ELSE <<lookup(v, r)>> \o f[v \div r]] =
            [v \in 0 .. u |-> IF v = 0 THEN <<>> ELSE <<v % r>> \o f[v \div r]]
        BY <2>1
      <3>2. QED
        BY <3>1 DEF KernelDigits, DigitsOf
    <2>3. PICK d : d = CHOOSE f : KernelDigits(f, u, r)
      OBVIOUS
    <2>4. \E f : KernelDigits(f, u, r)
      BY <2>2, DigitsExist
    <2>5. KernelDigits(d, u, r)
      BY <2>3, <2>4
    <2>6. DigitsOf(d, u, r)
      BY <2>2, <2>5
    <2>7. itoa(u, r) = strrev(d[u])
      BY <1>2, <2>3 DEF itoa, KernelDigits
    <2>8. QED
      BY <1>2, <2>6, <2>7, DigitsNumeral
  <1>3. QED
    BY <1>1, <1>2

(* The conversions of the kernel and of the user programs give the numeral *)
(* of every number, for words of any width and every radix of the code.    *)
(* (lib.c: itoa, strrev; ece391support.c: ece391_itoa)                     *)
THEOREM NumbersCorrect == StringsSpec => []NumbersRight
  <1>1. CallsInit => NumbersRight
    BY DEF CallsInit, NumbersRight
  <1>2. NumbersRight /\ [StringsNext]_call => NumbersRight'
    <2> SUFFICES ASSUME NumbersRight, [StringsNext]_call
                 PROVE  NumbersRight'
      OBVIOUS
    <2>1. CASE Itoa
      <3>1. PICK v \in Words, r \in {2, 10, RADIX} :
              call' = [op |-> "itoa", value |-> v, radix |-> r,
                       kernel |-> itoa(v, r), user |-> ece391_itoa(v, r)]
        BY <2>1 DEF Itoa, Return
      <3>2. r \in Nat /\ r >= 2
        BY StringsAssumption
      <3>3. v \in Nat
        BY WordAssumption DEF Words
      <3>4. /\ call'.value = v /\ call'.radix = r
            /\ call'.kernel = itoa(v, r) /\ call'.user = ece391_itoa(v, r)
        BY <3>1
      <3>5. Numeral(ece391_itoa(v, r), v, r)
        BY <3>2, <3>3, UserNumeral
      <3>6. v < WORD \div 2 => Numeral(itoa(v, r), v, r)
        BY <3>2, <3>3, KernelNumeral
      <3>7. QED
        BY <3>4, <3>5, <3>6, Zenon DEF NumbersRight
    <2>2. CASE Formatted
      BY <2>2 DEF Formatted, Return, NumbersRight
    <2>3. CASE Command
      BY <2>3 DEF Command, Return, NumbersRight
    <2>4. CASE Forget
      BY <2>4 DEF Forget, NumbersRight
    <2>5. CASE UNCHANGED call
      BY <2>5 DEF NumbersRight
    <2>6. QED
      BY <2>1, <2>2, <2>3, <2>4, <2>5 DEF StringsNext
  <1>3. QED
    BY <1>1, <1>2, PTL DEF StringsSpec

=============================================================================
