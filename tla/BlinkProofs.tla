---------------------------- MODULE BlinkProofs ----------------------------
(***************************************************************************)
(* Proofs about the blinking characters, for every size of the pool, the   *)
(* screen and the word and every set of requests.                          *)
(***************************************************************************)
EXTENDS BlinkProperties, FiniteSetTheorems, WellFoundedInduction, TLAPS

(* Numbers are well ordered. *)
LEMMA LeastNumber ==
  ASSUME NEW S \in SUBSET Nat, S # {}
  PROVE  \E n \in S : \A m \in S : n <= m
  <1> DEFINE R == OpToRel(<, Nat)
  <1>1. IsWellFoundedOn(R, Nat)
    BY NatLessThanWellFounded, Zenon
  <1> HIDE DEF R
  <1>2. PICK x \in S : \A y \in S : ~(<<y, x>> \in R)
    BY <1>1, WFMin
  <1>3. ASSUME NEW y \in S, ~(x <= y)
        PROVE  FALSE
    <2>1. <<y, x>> \in Nat \X Nat /\ y < x
      BY <1>3
    <2>2. <<y, x>> \in R
      BY <2>1 DEF R, OpToRel
    <2>3. QED
      BY <1>2, <2>2
  <1>4. QED
    BY <1>3

-----------------------------------------------------------------------------
(* The walk along the list *)

Pointers == Slots \cup {NULL}

(* The walks of at most N elements through array, if g holds the shorter   *)
(* ones.                                                                   *)
Row(array, k, before) ==
    [s \in Pointers |-> IF s = NULL \/ k = 0 THEN <<>>
                        ELSE <<s>> \o before[array[s].next]]

Walks(array, N, g) == [k \in 0 .. N |-> Row(array, k, g[k - 1])]

(* The recursive definition of the walks defines them. *)
LEMMA WalksExist ==
  ASSUME NEW array, NEW N \in Nat
  PROVE  \E g : g = Walks(array, N, g)
  <1> DEFINE S == {k \in 0 .. N : ~ \E g : g = Walks(array, k, g)}
  <1>1. SUFFICES ASSUME S # {} PROVE FALSE
    <2>1. N \in 0 .. N
      OBVIOUS
    <2>2. QED
      BY <2>1
  <1>2. PICK k \in S : \A m \in S : k <= m
    <2>1. S \in SUBSET Nat
      OBVIOUS
    <2> HIDE DEF S
    <2>2. QED
      BY <1>1, <2>1, LeastNumber
  <1>3. k \in 0 .. N /\ k \in Nat /\ ~ \E g : g = Walks(array, k, g)
    OBVIOUS
  <1>4. CASE k = 0
    <2> DEFINE g == [n \in 0 .. 0 |-> Row(array, 0, 0)]
    <2>1. \A n \in 0 .. 0 : n = 0
      OBVIOUS
    <2>2. \A b, c : Row(array, 0, b) = Row(array, 0, c)
      BY DEF Row
    <2>3. \A n \in 0 .. 0 : g[n] = Row(array, n, g[n - 1])
      BY <2>1, <2>2
    <2>4. g = [n \in 0 .. 0 |-> g[n]]
      OBVIOUS
    <2> HIDE DEF g
    <2>5. g = Walks(array, 0, g)
      BY <2>3, <2>4 DEF Walks
    <2>6. QED
      BY <1>3, <1>4, <2>5
  <1>5. CASE k # 0
    <2>1. k - 1 \in 0 .. N /\ ~(k <= k - 1)
      BY <1>3, <1>5
    <2>2. k - 1 \notin S
      BY <1>2, <2>1
    <2>3. PICK g : g = Walks(array, k - 1, g)
      BY <2>1, <2>2
    <2> DEFINE h == [n \in 0 .. k |-> IF n < k THEN g[n] ELSE Row(array, k, g[k - 1])]
    <2>4. \A n \in 0 .. k - 1 : n \in 0 .. k /\ h[n] = g[n]
      BY <1>3
    <2>5. h[k] = Row(array, k, g[k - 1])
      BY <1>3
    <2>6. h = [n \in 0 .. k |-> h[n]]
      OBVIOUS
    <2> HIDE DEF h
    <2>7. ASSUME NEW n \in 0 .. k
          PROVE  h[n] = Row(array, n, h[n - 1])
      <3>1. CASE n = 0
        <4>1. h[n] = g[0] /\ 0 \in 0 .. k - 1
          BY <1>3, <1>5, <2>4, <3>1
        <4>2. g[0] = Row(array, 0, g[0 - 1])
          BY <2>3, <4>1 DEF Walks
        <4>3. Row(array, 0, g[0 - 1]) = Row(array, 0, h[n - 1])
          BY DEF Row
        <4>4. QED
          BY <3>1, <4>1, <4>2, <4>3
      <3>2. CASE n # 0 /\ n < k
        <4>1. n \in 0 .. k - 1 /\ n - 1 \in 0 .. k - 1
          BY <1>3, <3>2
        <4>2. g[n] = Row(array, n, g[n - 1])
          BY <2>3, <4>1 DEF Walks
        <4>3. QED
          BY <2>4, <4>1, <4>2
      <3>3. CASE n # 0 /\ n = k
        <4>1. k - 1 \in 0 .. k - 1
          BY <1>3, <3>3
        <4>2. QED
          BY <2>4, <2>5, <3>3, <4>1
      <3>4. QED
        BY <1>3, <3>1, <3>2, <3>3
    <2>8. h = Walks(array, k, h)
      BY <2>6, <2>7 DEF Walks
    <2>9. QED
      BY <1>3, <2>8
  <1>6. QED
    BY <1>4, <1>5

(* An element in front of a list. *)
LEMMA InFront ==
  ASSUME NEW S, NEW x \in S, NEW t \in Seq(S)
  PROVE  /\ <<x>> \o t \in Seq(S)
         /\ Len(<<x>> \o t) = Len(t) + 1
         /\ (<<x>> \o t)[1] = x
         /\ \A i \in 1 .. Len(t) : (<<x>> \o t)[i + 1] = t[i]
  OBVIOUS

(* Two sequences with the same elements are the same. *)
LEMMA SameSeq ==
  ASSUME NEW S, NEW s \in Seq(S), NEW t \in Seq(S), Len(s) = Len(t),
         \A i \in 1 .. Len(s) : s[i] = t[i]
  PROVE  s = t
  OBVIOUS

(* s is the list that starts at head: its elements are linked in order,    *)
(* and none comes twice.                                                   *)
IsList(array, head, s) ==
    /\ s \in Seq(Slots)
    /\ head = IF Len(s) = 0 THEN NULL ELSE s[1]
    /\ \A i \in 1 .. Len(s) :
         array[s[i]].next = IF i = Len(s) THEN NULL ELSE s[i + 1]
    /\ \A i, j \in 1 .. Len(s) : s[i] = s[j] => i = j

Members(s) == {s[i] : i \in 1 .. Len(s)}

(* There are as many elements as the list is long. *)
LEMMA Counted ==
  ASSUME NEW array, NEW head, NEW s, IsList(array, head, s)
  PROVE  /\ Members(s) \subseteq Slots
         /\ IsFiniteSet(Slots) /\ Cardinality(Slots) = SLOTS
         /\ IsFiniteSet(Members(s)) /\ Cardinality(Members(s)) = Len(s)
         /\ Len(s) <= SLOTS
  <1>1. /\ s \in Seq(Slots) /\ Len(s) \in Nat
        /\ \A i \in 1 .. Len(s) : s[i] \in Slots
        /\ \A i, j \in 1 .. Len(s) : s[i] = s[j] => i = j
    BY DEF IsList
  <1>2. Members(s) \subseteq Slots
    BY <1>1 DEF Members
  <1>3. IsFiniteSet(Slots) /\ Cardinality(Slots) = SLOTS
    BY FS_Interval, SlotsAssumption DEF Slots
  <1>4. s \in Bijection(1 .. Len(s), Members(s))
    <2>1. s = [i \in 1 .. Len(s) |-> s[i]]
      BY <1>1
    <2>2. s \in [1 .. Len(s) -> Members(s)]
      BY <2>1 DEF Members
    <2>3. \A x \in Members(s) : \E i \in 1 .. Len(s) : s[i] = x
      BY DEF Members
    <2>4. s \in Injection(1 .. Len(s), Members(s))
      BY <1>1, <2>2 DEF Injection, IsInjective
    <2>5. s \in Surjection(1 .. Len(s), Members(s))
      BY <2>2, <2>3 DEF Surjection
    <2>6. QED
      BY <2>4, <2>5 DEF Bijection
  <1>5. ExistsBijection(1 .. Len(s), Members(s))
    BY <1>4 DEF ExistsBijection
  <1>6. Cardinality(Members(s)) = Len(s) /\ IsFiniteSet(Members(s))
    BY <1>1, <1>2, <1>3, <1>5, FS_CountingElements, FS_Subset
  <1>7. QED
    BY <1>1, <1>2, <1>3, <1>6, FS_Subset

(* The walk from the head finds the list. *)
LEMMA LinkedIs ==
  ASSUME NEW array, NEW head, NEW s, IsList(array, head, s)
  PROVE  Linked(array, head) = s
  <1>1. PICK N \in Nat : N = SLOTS + 1
    BY SlotsAssumption
  <1>2. PICK g : g = Walks(array, N, g)
    BY WalksExist
  <1>3. PICK w : /\ w = [k \in 0 .. SLOTS + 1 |->
                           [p \in Slots \cup {NULL} |->
                              IF p = NULL \/ k = 0 THEN <<>>
                              ELSE <<p>> \o w[k - 1][array[p].next]]]
                 /\ Linked(array, head) = w[SLOTS + 1][head]
    <2> DEFINE W(w) == w = [k \in 0 .. SLOTS + 1 |->
                             [p \in Slots \cup {NULL} |->
                                IF p = NULL \/ k = 0 THEN <<>>
                                ELSE <<p>> \o w[k - 1][array[p].next]]]
    <2>1. W(g)
      BY <1>1, <1>2 DEF Walks, Row, Pointers
    <2>2. W(CHOOSE w : W(w))
      <3> HIDE DEF W
      <3>1. QED
        BY <2>1
    <2>3. Linked(array, head) = (CHOOSE w : W(w))[SLOTS + 1][head]
      BY DEF Linked
    <2>4. QED
      BY <2>2, <2>3
  <1>4. PICK n \in Nat : n = Len(s) /\ n <= SLOTS
    BY Counted DEF IsList
  <1>5. /\ s \in Seq(Slots) /\ NULL \notin Slots
        /\ \A i \in 1 .. n : s[i] \in Slots
        /\ \A i \in 1 .. n : array[s[i]].next = IF i = n THEN NULL ELSE s[i + 1]
        /\ head = IF n = 0 THEN NULL ELSE s[1]
    <2>1. NULL \notin Slots
      BY DEF Slots, NULL
    <2>2. s \in Seq(Slots) /\ \A i \in 1 .. Len(s) : s[i] \in Slots
      BY DEF IsList
    <2>3. QED
      BY <1>4, <2>1, <2>2 DEF IsList
  <1>6. \A k \in 0 .. N, p \in Pointers :
          w[k][p] = IF p = NULL \/ k = 0 THEN <<>> ELSE <<p>> \o w[k - 1][array[p].next]
    <2>1. SUFFICES ASSUME NEW k \in 0 .. N, NEW p \in Pointers
                   PROVE  w[k][p] = IF p = NULL \/ k = 0 THEN <<>>
                                    ELSE <<p>> \o w[k - 1][array[p].next]
      OBVIOUS
    <2>2. w[k] = [q \in Slots \cup {NULL} |->
                    IF q = NULL \/ k = 0 THEN <<>>
                    ELSE <<q>> \o w[k - 1][array[q].next]]
      <3>1. k \in 0 .. SLOTS + 1
        BY <1>1
      <3>2. QED
        BY <1>3, <3>1
    <2>3. QED
      BY <2>2 DEF Pointers
  <1> DEFINE From(m) == IF m = 0 THEN NULL ELSE s[n - m + 1]
             Good(m) == \A k \in m .. N :
                          /\ w[k][From(m)] \in Seq(Slots)
                          /\ Len(w[k][From(m)]) = m
                          /\ \A j \in 1 .. m : w[k][From(m)][j] = s[n - m + j]
             Bad     == {m \in 0 .. n : ~Good(m)}
  <1>7. Good(0)
    <2>1. \A k \in 0 .. N : w[k][NULL] = <<>>
      BY <1>6 DEF Pointers
    <2>2. <<>> \in Seq(Slots) /\ Len(<<>>) = 0 /\ 1 .. 0 = {}
      OBVIOUS
    <2>3. From(0) = NULL
      OBVIOUS
    <2> HIDE DEF From
    <2>4. QED
      BY <2>1, <2>2, <2>3
  <1>8. ASSUME NEW m \in 1 .. n, Good(m - 1)
        PROVE  Good(m)
    <2>1. SUFFICES ASSUME NEW k \in m .. N
                   PROVE  /\ w[k][From(m)] \in Seq(Slots)
                          /\ Len(w[k][From(m)]) = m
                          /\ \A j \in 1 .. m : w[k][From(m)][j] = s[n - m + j]
      OBVIOUS
    <2>2. PICK i \in 1 .. n : i = n - m + 1
      <3> HIDE DEF Good
      <3>1. n - m + 1 \in 1 .. n
        OBVIOUS
      <3>2. QED
        BY <3>1
    <2>3. /\ From(m) = s[i] /\ s[i] \in Slots /\ s[i] \in Pointers /\ s[i] # NULL
          /\ k \in 0 .. N /\ k # 0 /\ k - 1 \in m - 1 .. N
      BY <1>5, <2>2 DEF Pointers
    <2>4. array[s[i]].next = From(m - 1)
      BY <1>5, <2>2
    <2>5. PICK t \in Seq(Slots) : /\ t = w[k - 1][From(m - 1)]
                                  /\ Len(t) = m - 1
                                  /\ \A j \in 1 .. m - 1 : t[j] = s[n - (m - 1) + j]
      BY <1>8, <2>3
    <2>6. w[k][From(m)] = <<s[i]>> \o t
      BY <1>6, <2>3, <2>4, <2>5
    <2>7. /\ <<s[i]>> \o t \in Seq(Slots) /\ Len(<<s[i]>> \o t) = Len(t) + 1
          /\ (<<s[i]>> \o t)[1] = s[i]
          /\ \A j \in 1 .. Len(t) : (<<s[i]>> \o t)[j + 1] = t[j]
      BY <2>3, InFront
    <2>8. ASSUME NEW j \in 1 .. m
          PROVE  (<<s[i]>> \o t)[j] = s[n - m + j]
      <3>1. CASE j = 1
        BY <2>2, <2>7, <3>1
      <3>2. CASE j # 1
        <4>1. j - 1 \in 1 .. m - 1 /\ (j - 1) + 1 = j /\ n - (m - 1) + (j - 1) = n - m + j
          BY <3>2
        <4>2. QED
          BY <2>5, <2>7, <4>1
      <3>3. QED
        BY <3>1, <3>2
    <2> HIDE DEF From, Good
    <2>9. Len(<<s[i]>> \o t) = m
      BY <2>5, <2>7
    <2>10. \A j \in 1 .. m : w[k][From(m)][j] = s[n - m + j]
      BY <2>6, <2>8
    <2>11. QED
      BY <2>6, <2>7, <2>9, <2>10, Zenon
  <1>9. Good(n)
    <2>1. SUFFICES ASSUME Bad # {} PROVE FALSE
      <3>1. n \in 0 .. n
        BY <1>4
      <3>2. QED
        BY <3>1
    <2>2. Bad \in SUBSET Nat
      OBVIOUS
    <2>3. PICK m \in Bad : \A l \in Bad : m <= l
      <3> HIDE DEF Bad
      <3>1. QED
        BY <2>1, <2>2, LeastNumber
    <2>4. m \in 0 .. n /\ ~Good(m)
      OBVIOUS
    <2> HIDE DEF Good
    <2>5. m # 0 /\ m \in 1 .. n /\ m - 1 \in 0 .. n /\ ~(m <= m - 1)
      BY <1>7, <2>4
    <2>6. Good(m - 1)
      BY <2>3, <2>5
    <2>7. QED
      BY <1>8, <2>4, <2>5, <2>6
  <1>10. From(n) = head
    BY <1>5, <1>4
  <1>11. /\ w[N][head] \in Seq(Slots) /\ Len(w[N][head]) = n
         /\ \A j \in 1 .. n : w[N][head][j] = s[j]
    <2> HIDE DEF From
    <2>0. Good(n)
      BY <1>9
    <2>1. N \in n .. N /\ \A j \in 1 .. n : n - n + j = j
      <3> HIDE DEF Good
      <3>1. QED
        BY <1>1, <1>4, SlotsAssumption
    <2>2. QED
      BY <2>0, <1>10, <2>1
  <1>12. w[N][head] = s
    BY <1>4, <1>5, <1>11, SameSeq
  <1>13. QED
    BY <1>1, <1>3, <1>12

-----------------------------------------------------------------------------
(* What the operations do to the list *)

(* A list whose links nobody touches stays. *)
LEMMA KeepList ==
  ASSUME NEW f, NEW h, NEW head, NEW s, IsList(f, head, s),
         \A p \in Members(s) : h[p].next = f[p].next
  PROVE  IsList(h, head, s)
  <1>1. \A i \in 1 .. Len(s) : s[i] \in Members(s)
    BY DEF Members
  <1>2. QED
    BY <1>1 DEF IsList

(* A new element in front. *)
LEMMA AddList ==
  ASSUME NEW f, NEW h, NEW head, NEW s, IsList(f, head, s),
         NEW x \in Slots \ Members(s),
         h[x].next = head, \A p \in Slots \ {x} : h[p] = f[p]
  PROVE  IsList(h, x, <<x>> \o s) /\ Members(<<x>> \o s) = Members(s) \cup {x}
  <1>1. PICK n \in Nat : n = Len(s)
    BY DEF IsList
  <1>2. /\ s \in Seq(Slots)
        /\ \A i \in 1 .. n : s[i] \in Slots /\ s[i] \in Members(s) /\ s[i] # x
        /\ \A i \in 1 .. n : f[s[i]].next = IF i = n THEN NULL ELSE s[i + 1]
        /\ \A i, j \in 1 .. n : s[i] = s[j] => i = j
        /\ head = IF n = 0 THEN NULL ELSE s[1]
    BY <1>1 DEF IsList, Members
  <1>3. PICK z : z = <<x>> \o s
    OBVIOUS
  <1>4. /\ z \in Seq(Slots) /\ Len(z) = n + 1 /\ z[1] = x
        /\ \A i \in 1 .. n : z[i + 1] = s[i]
    BY <1>1, <1>2, <1>3, InFront
  <1>5. \A i \in 2 .. n + 1 : i - 1 \in 1 .. n /\ (i - 1) + 1 = i /\ z[i] = s[i - 1]
    <2>1. \A i \in 2 .. n + 1 : i - 1 \in 1 .. n /\ (i - 1) + 1 = i
      OBVIOUS
    <2>2. QED
      BY <1>4, <2>1
  <1>6. ASSUME NEW i \in 1 .. n + 1
        PROVE  h[z[i]].next = IF i = n + 1 THEN NULL ELSE z[i + 1]
    <2>1. CASE i = 1
      <3>1. n # 0 => 1 \in 1 .. n /\ z[1 + 1] = s[1]
        BY <1>4
      <3>2. h[z[i]].next = IF n = 0 THEN NULL ELSE s[1]
        BY <1>2, <1>4, <2>1
      <3>3. QED
        BY <2>1, <3>1, <3>2
    <2>2. CASE i # 1
      <3>1. i \in 2 .. n + 1
        BY <2>2
      <3>2. /\ i - 1 \in 1 .. n /\ z[i] = s[i - 1]
            /\ (i = n + 1 <=> i - 1 = n) /\ (i - 1) + 1 = i
            /\ i # n + 1 => i \in 1 .. n
        BY <1>5, <3>1
      <3>3. h[z[i]] = f[s[i - 1]]
        BY <1>2, <3>2
      <3>4. QED
        BY <1>2, <1>4, <3>2, <3>3
    <2>3. QED
      BY <2>1, <2>2
  <1>7. ASSUME NEW i \in 1 .. n + 1, NEW j \in 1 .. n + 1, z[i] = z[j]
        PROVE  i = j
    <2>1. CASE i = 1 /\ j = 1
      BY <2>1
    <2>2. CASE i = 1 /\ j # 1
      <3>1. j \in 2 .. n + 1
        BY <2>2
      <3>2. QED
        BY <1>2, <1>4, <1>5, <1>7, <2>2, <3>1
    <2>3. CASE i # 1 /\ j = 1
      <3>1. i \in 2 .. n + 1
        BY <2>3
      <3>2. QED
        BY <1>2, <1>4, <1>5, <1>7, <2>3, <3>1
    <2>4. CASE i # 1 /\ j # 1
      <3>1. i \in 2 .. n + 1 /\ j \in 2 .. n + 1
        BY <2>4
      <3>2. i - 1 = j - 1
        BY <1>2, <1>5, <1>7, <3>1
      <3>3. QED
        BY <3>2
    <2>5. QED
      BY <2>1, <2>2, <2>3, <2>4
  <1>8. IsList(h, x, z)
    BY <1>4, <1>6, <1>7 DEF IsList
  <1>9. Members(z) = Members(s) \cup {x}
    <2>1. ASSUME NEW y \in Members(z) PROVE y \in Members(s) \cup {x}
      <3>1. PICK i \in 1 .. n + 1 : y = z[i]
        BY <1>4 DEF Members
      <3>2. CASE i = 1
        BY <1>4, <3>1, <3>2
      <3>3. CASE i # 1
        <4>1. i \in 2 .. n + 1
          BY <3>3
        <4>2. QED
          BY <1>2, <1>5, <3>1, <4>1
      <3>4. QED
        BY <3>2, <3>3
    <2>2. ASSUME NEW y \in Members(s) PROVE y \in Members(z)
      <3>1. PICK i \in 1 .. n : y = s[i]
        BY <1>1 DEF Members
      <3>2. y = z[i + 1] /\ i + 1 \in 1 .. n + 1
        BY <1>4, <3>1
      <3>3. QED
        BY <1>4, <3>2 DEF Members
    <2>3. x \in Members(z)
      <3>1. 1 \in 1 .. n + 1
        OBVIOUS
      <3>2. QED
        BY <1>4, <3>1 DEF Members
    <2>4. QED
      BY <2>1, <2>2, <2>3
  <1>10. QED
    BY <1>3, <1>8, <1>9

(* The list without its i-th element. *)
Without(s, i) == [j \in 1 .. Len(s) - 1 |-> IF j < i THEN s[j] ELSE s[j + 1]]

LEMMA WithoutIs ==
  ASSUME NEW S, NEW s \in Seq(S), NEW i \in 1 .. Len(s)
  PROVE  /\ Without(s, i) \in Seq(S)
         /\ Len(Without(s, i)) = Len(s) - 1
         /\ RemoveAt(s, i) = Without(s, i)
  <1>1. PICK n \in Nat : n = Len(s) /\ n >= 1
    OBVIOUS
  <1>2. \A j \in 1 .. n - 1 : j \in 1 .. n /\ j + 1 \in 1 .. n
    OBVIOUS
  <1>3. \A j \in 1 .. n : s[j] \in S
    BY <1>1
  <1>4. Without(s, i) \in [1 .. n - 1 -> S]
    BY <1>1, <1>2, <1>3 DEF Without
  <1>5. Without(s, i) \in Seq(S) /\ Len(Without(s, i)) = n - 1
    BY <1>1, <1>4
  <1>6. PICK a, b : a = SubSeq(s, 1, i - 1) /\ b = SubSeq(s, i + 1, n)
    OBVIOUS
  <1>7. /\ a \in Seq(S) /\ Len(a) = i - 1
        /\ \A j \in 1 .. i - 1 : a[j] = s[j]
    BY <1>1, <1>6
  <1>8. /\ b \in Seq(S) /\ Len(b) = n - i
        /\ \A j \in 1 .. n - i : b[j] = s[i + j]
    BY <1>1, <1>6
  <1>9. PICK r : r = a \o b
    OBVIOUS
  <1>10. /\ r \in Seq(S) /\ Len(r) = n - 1
         /\ \A j \in 1 .. i - 1 : r[j] = a[j]
         /\ \A j \in i .. n - 1 : r[j] = b[j - (i - 1)]
    BY <1>1, <1>7, <1>8, <1>9
  <1>11. ASSUME NEW j \in 1 .. n - 1
         PROVE  r[j] = Without(s, i)[j]
    <2>1. CASE j < i
      <3>1. j \in 1 .. i - 1
        BY <2>1
      <3>2. QED
        BY <1>1, <1>7, <1>10, <2>1, <3>1 DEF Without
    <2>2. CASE ~(j < i)
      <3>1. j \in i .. n - 1 /\ j - (i - 1) \in 1 .. n - i /\ i + (j - (i - 1)) = j + 1
        BY <1>1, <2>2
      <3>2. QED
        BY <1>1, <1>8, <1>10, <2>2, <3>1 DEF Without
    <2>3. QED
      BY <2>1, <2>2
  <1>12. r = Without(s, i)
    BY <1>5, <1>10, <1>11, SameSeq
  <1>13. QED
    BY <1>1, <1>5, <1>6, <1>9, <1>12 DEF RemoveAt

(* The i-th element leaves: the one before it leads to the one after it.   *)
LEMMA DropList ==
  ASSUME NEW f, NEW h, NEW head, NEW s, IsList(f, head, s),
         NEW i \in 1 .. Len(s),
         \A p \in Slots \ {s[i]} :
           h[p].next = IF p \in Members(s) /\ f[p].next = s[i] THEN f[s[i]].next
                       ELSE f[p].next
  PROVE  /\ IsList(h, IF head = s[i] THEN f[s[i]].next ELSE head, Without(s, i))
         /\ Members(Without(s, i)) = Members(s) \ {s[i]}
  <1>1. PICK n \in Nat : n = Len(s) /\ n >= 1
    BY DEF IsList
  <1>2. /\ s \in Seq(Slots) /\ NULL \notin Slots
        /\ \A j \in 1 .. n : s[j] \in Slots /\ s[j] \in Members(s)
        /\ \A j \in 1 .. n : f[s[j]].next = IF j = n THEN NULL ELSE s[j + 1]
        /\ \A j, k \in 1 .. n : s[j] = s[k] => j = k
        /\ head = s[1]
    <2>1. NULL \notin Slots
      BY DEF NULL, Slots
    <2>2. QED
      BY <1>1, <2>1 DEF IsList, Members
  <1>3. PICK z : z = Without(s, i)
    OBVIOUS
  <1>4. z \in Seq(Slots) /\ Len(z) = n - 1
    BY <1>1, <1>2, <1>3, WithoutIs
  <1>5. \A j \in 1 .. n - 1 : z[j] = IF j < i THEN s[j] ELSE s[j + 1]
    BY <1>1, <1>3 DEF Without
  <1>6. ASSUME NEW j \in 1 .. n, j # i
        PROVE  /\ s[j] # s[i]
               /\ h[s[j]].next = IF j + 1 = i THEN f[s[i]].next ELSE f[s[j]].next
    <2>1. i \in 1 .. n
      BY <1>1
    <2>2. s[j] # s[i] /\ s[j] \in Slots \ {s[i]} /\ s[j] \in Members(s)
      BY <1>2, <1>6, <2>1
    <2>3. f[s[j]].next = s[i] <=> j + 1 = i
      <3>1. CASE j = n
        BY <1>2, <2>1, <3>1
      <3>2. CASE j # n
        <4>1. j + 1 \in 1 .. n /\ f[s[j]].next = s[j + 1]
          BY <1>2, <3>2
        <4>2. QED
          BY <1>2, <2>1, <4>1
      <3>3. QED
        BY <3>1, <3>2
    <2>4. QED
      BY <2>2, <2>3
  <1>7. ASSUME NEW j \in 1 .. n - 1
        PROVE  h[z[j]].next = IF j = n - 1 THEN NULL ELSE z[j + 1]
    <2>0. i \in 1 .. n
      BY <1>1
    <2>1. CASE j < i /\ j + 1 # i
      <3>1. j \in 1 .. n /\ j # i /\ j # n /\ j # n - 1 /\ j + 1 < i /\ j + 1 \in 1 .. n - 1
        BY <2>0, <2>1
      <3>2. h[s[j]].next = f[s[j]].next /\ f[s[j]].next = s[j + 1]
        BY <1>2, <1>6, <2>1, <3>1
      <3>3. z[j] = s[j] /\ z[j + 1] = s[j + 1]
        BY <1>5, <2>1, <3>1
      <3>4. QED
        BY <3>1, <3>2, <3>3
    <2>2. CASE j < i /\ j + 1 = i
      <3>1. j \in 1 .. n /\ j # i /\ i = j + 1
        BY <2>0, <2>2
      <3>2. h[s[j]].next = f[s[i]].next
        BY <1>6, <2>2, <3>1
      <3>3. f[s[i]].next = IF j = n - 1 THEN NULL ELSE s[i + 1]
        BY <1>2, <2>0, <3>1
      <3>4. z[j] = s[j]
        BY <1>5, <2>2
      <3>5. j # n - 1 => j + 1 \in 1 .. n - 1 /\ ~(j + 1 < i) /\ (j + 1) + 1 = i + 1
        BY <3>1
      <3>6. j # n - 1 => z[j + 1] = s[i + 1]
        BY <1>5, <3>5
      <3>7. QED
        BY <3>2, <3>3, <3>4, <3>6
    <2>3. CASE ~(j < i)
      <3>1. /\ j + 1 \in 1 .. n /\ j + 1 # i /\ (j + 1) + 1 # i
            /\ j = n - 1 <=> j + 1 = n
            /\ j # n - 1 => j + 1 \in 1 .. n - 1 /\ ~(j + 1 < i)
        BY <2>0, <2>3
      <3>2. h[s[j + 1]].next = f[s[j + 1]].next
        BY <1>6, <3>1
      <3>3. f[s[j + 1]].next = IF j + 1 = n THEN NULL ELSE s[(j + 1) + 1]
        BY <1>2, <3>1
      <3>4. z[j] = s[j + 1] /\ (j # n - 1 => z[j + 1] = s[(j + 1) + 1])
        BY <1>5, <2>3, <3>1
      <3>5. QED
        BY <3>1, <3>2, <3>3, <3>4
    <2>4. QED
      BY <2>1, <2>2, <2>3
  <1>8. ASSUME NEW j \in 1 .. n - 1, NEW k \in 1 .. n - 1, z[j] = z[k]
        PROVE  j = k
    <2>1. PICK a \in 1 .. n : a = (IF j < i THEN j ELSE j + 1) /\ z[j] = s[a]
      <3>1. (IF j < i THEN j ELSE j + 1) \in 1 .. n
        BY <1>1
      <3>2. QED
        BY <1>5, <3>1
    <2>2. PICK b \in 1 .. n : b = (IF k < i THEN k ELSE k + 1) /\ z[k] = s[b]
      <3>1. (IF k < i THEN k ELSE k + 1) \in 1 .. n
        BY <1>1
      <3>2. QED
        BY <1>5, <3>1
    <2>3. a = b
      BY <1>2, <1>8, <2>1, <2>2
    <2>4. QED
      BY <2>1, <2>2, <2>3, <1>1
  <1>9. (IF head = s[i] THEN f[s[i]].next ELSE head) = IF n - 1 = 0 THEN NULL ELSE z[1]
    <2>0. i \in 1 .. n /\ 1 \in 1 .. n
      BY <1>1
    <2>1. head = s[i] <=> i = 1
      BY <1>2, <2>0
    <2>2. CASE i = 1
      <3>1. f[s[i]].next = IF n = 1 THEN NULL ELSE s[2]
        BY <1>2, <2>0, <2>2
      <3>2. n # 1 => 1 \in 1 .. n - 1 /\ z[1] = s[2]
        BY <1>5, <2>2, <1>1
      <3>3. QED
        BY <2>1, <2>2, <3>1, <3>2
    <2>3. CASE i # 1
      <3>1. 1 \in 1 .. n - 1 /\ 1 < i /\ n - 1 # 0
        BY <2>0, <2>3
      <3>2. z[1] = s[1]
        BY <1>5, <3>1
      <3>3. QED
        BY <1>2, <2>1, <2>3, <3>1, <3>2
    <2>4. QED
      BY <2>2, <2>3
  <1>10. IsList(h, IF head = s[i] THEN f[s[i]].next ELSE head, z)
    BY <1>4, <1>7, <1>8, <1>9 DEF IsList
  <1>11. Members(z) = Members(s) \ {s[i]}
    <2>0. i \in 1 .. n
      BY <1>1
    <2>1. ASSUME NEW y \in Members(z) PROVE y \in Members(s) \ {s[i]}
      <3>1. PICK j \in 1 .. n - 1 : y = z[j]
        BY <1>4 DEF Members
      <3>2. PICK a \in 1 .. n : a # i /\ y = s[a]
        <4>1. (IF j < i THEN j ELSE j + 1) \in 1 .. n /\ (IF j < i THEN j ELSE j + 1) # i
          BY <2>0
        <4>2. QED
          BY <1>5, <3>1, <4>1
      <3>3. QED
        BY <1>2, <2>0, <3>2
    <2>2. ASSUME NEW y \in Members(s) \ {s[i]} PROVE y \in Members(z)
      <3>1. PICK a \in 1 .. n : y = s[a] /\ a # i
        BY <1>1 DEF Members
      <3>2. PICK j \in 1 .. n - 1 : z[j] = s[a]
        <4>1. CASE a < i
          <5>1. a \in 1 .. n - 1
            BY <2>0, <4>1
          <5>2. QED
            BY <1>5, <4>1, <5>1
        <4>2. CASE ~(a < i)
          <5>1. a - 1 \in 1 .. n - 1 /\ ~(a - 1 < i) /\ (a - 1) + 1 = a
            BY <2>0, <3>1, <4>2
          <5>2. z[a - 1] = s[a]
            BY <1>5, <5>1
          <5>3. QED
            BY <5>1, <5>2
        <4>3. QED
          BY <4>1, <4>2
      <3>3. QED
        BY <1>4, <3>1, <3>2 DEF Members
    <2>3. QED
      BY <2>1, <2>2
  <1>12. QED
    BY <1>3, <1>10, <1>11

-----------------------------------------------------------------------------
(* The invariant *)

Half == WORD \div 2

Element == [location : Locations, on_char : Nat, off_char : Nat,
            on_length : 0 .. Half, off_length : 0 .. Half,
            countdown : 0 .. Half, status : {0, 1}, next : Pointers]

(* The array holds one list from mp1_list_head on, made of exactly the     *)
(* elements that mp1_malloc does not take for free; no countdown looks     *)
(* negative to the timer and every location is on the screen.              *)
BlinkInv ==
    /\ blink_array \in [Slots -> Element]
    /\ IsList(blink_array, mp1_list_head, List)
    /\ \A s \in Slots : s \in Members(List) <=> blink_array[s].location # 0

Items == [i \in DOMAIN List |-> View(blink_array[List[i]])]

LEMMA Sizes ==
  /\ SLOTS \in Nat /\ SLOTS > 0 /\ SCREEN \in Nat /\ 0 \in Locations
  /\ WORD \in Nat /\ Half \in Nat /\ Half >= 1 /\ WORD = Half + Half
  /\ NULL \notin Slots
  <1>1. WORD \in Nat /\ WORD % 2 = 0 /\ WORD > 2
    BY WordAssumption
  <1>2. Half \in Nat /\ Half >= 1 /\ WORD = Half + Half
    BY <1>1 DEF Half
  <1>3. QED
    BY <1>1, <1>2, SlotsAssumption, ScreenAssumption DEF Locations, Slots, NULL

LEMMA ZeroElement == Zero \in Element
  BY Sizes DEF Zero, Element, Pointers

(* What the abstract list has of an element. *)
LEMMA ViewFields ==
  ASSUME NEW e
  PROVE  /\ View(e).location = e.location /\ View(e).on = e.on_char
         /\ View(e).off = e.off_char /\ View(e).on_for = e.on_length
         /\ View(e).off_for = e.off_length /\ View(e).left = e.countdown
         /\ View(e).lit = (e.status = 1)
  BY DEF View

Character(location, on, off, on_for, off_for, left, lit) ==
    [location |-> location, on |-> on, off |-> off, on_for |-> on_for,
     off_for |-> off_for, left |-> left, lit |-> lit]

(* A character with the rhythm of another. *)
Retimed(v, m, n, k, lit) ==
    [v EXCEPT !.on_for = m, !.off_for = n, !.left = k, !.lit = lit]

LEMMA NewRhythm ==
  ASSUME NEW l, NEW c, NEW d, NEW m, NEW n, NEW k, NEW lit,
         NEW m2, NEW n2, NEW k2, NEW lit2, NEW r, r = Character(l, c, d, m, n, k, lit)
  PROVE  Retimed(r, m2, n2, k2, lit2) = Character(l, c, d, m2, n2, k2, lit2)
  <1>1. PICK r1 : r1 = [r EXCEPT !.on_for = m2]
    OBVIOUS
  <1>2. PICK r2 : r2 = [r1 EXCEPT !.off_for = n2]
    OBVIOUS
  <1>3. PICK r3 : r3 = [r2 EXCEPT !.left = k2]
    OBVIOUS
  <1>4. PICK r4 : r4 = [r3 EXCEPT !.lit = lit2]
    OBVIOUS
  <1>5. r1 = Character(l, c, d, m2, n, k, lit)
    BY <1>1 DEF Character
  <1>6. r2 = Character(l, c, d, m2, n2, k, lit)
    BY <1>2, <1>5 DEF Character
  <1>7. r3 = Character(l, c, d, m2, n2, k2, lit)
    BY <1>3, <1>6 DEF Character
  <1>8. r4 = Character(l, c, d, m2, n2, k2, lit2)
    BY <1>4, <1>7 DEF Character
  <1>9. Retimed(r, m2, n2, k2, lit2) = r4
    BY <1>1, <1>2, <1>3, <1>4 DEF Retimed
  <1>10. QED
    BY <1>8, <1>9

(* What the program sees of an element that is not there. *)
LEMMA ZeroView == View(Zero) = Abstract!None
  <1>1. (Zero.status = 1) = FALSE
    BY DEF Zero
  <1>2. View(Zero) = [location |-> 0, on |-> 0, off |-> 0, on_for |-> 0, off_for |-> 0,
                      left |-> 0, lit |-> Zero.status = 1]
    BY DEF View, Zero
  <1>3. QED
    BY <1>1, <1>2 DEF Abstract!None

LEMMA InvInit == Init => BlinkInv /\ List = <<>>
  <1> SUFFICES ASSUME Init PROVE BlinkInv /\ List = <<>>
    OBVIOUS
  <1>1. blink_array \in [Slots -> Element] /\ \A s \in Slots : blink_array[s].location = 0
    BY ZeroElement DEF Init, Zero
  <1>2. IsList(blink_array, mp1_list_head, <<>>)
    BY DEF IsList, Init
  <1>3. List = <<>>
    BY <1>2, LinkedIs DEF List
  <1>4. Members(<<>>) = {}
    BY DEF Members
  <1>5. QED
    BY <1>1, <1>2, <1>3, <1>4 DEF BlinkInv

(* The list, its elements and their number. *)
LEMMA ListFacts ==
  ASSUME BlinkInv
  PROVE  /\ List \in Seq(Slots) /\ Len(List) \in Nat /\ Len(List) <= SLOTS
         /\ DOMAIN List = 1 .. Len(List)
         /\ \A i \in 1 .. Len(List) : /\ List[i] \in Slots /\ List[i] \in Members(List)
                                      /\ blink_array[List[i]] \in Element
         /\ \A i, j \in 1 .. Len(List) : List[i] = List[j] => i = j
         /\ Members(List) \subseteq Slots
         /\ Members(List) = Slots => Len(List) = SLOTS
         /\ Members(List) # Slots => Len(List) < SLOTS
         /\ \A s : Contains(List, s) <=> s \in Members(List)
  <1>1. IsList(blink_array, mp1_list_head, List)
    BY DEF BlinkInv
  <1>2. /\ Members(List) \subseteq Slots
        /\ IsFiniteSet(Slots) /\ Cardinality(Slots) = SLOTS
        /\ IsFiniteSet(Members(List)) /\ Cardinality(Members(List)) = Len(List)
        /\ Len(List) <= SLOTS
    BY <1>1, Counted
  <1>3. /\ List \in Seq(Slots) /\ Len(List) \in Nat
        /\ \A i, j \in 1 .. Len(List) : List[i] = List[j] => i = j
    BY <1>1 DEF IsList
  <1>4. Members(List) # Slots => Len(List) < SLOTS
    <2>1. Members(List) # Slots => Cardinality(Members(List)) # Cardinality(Slots)
      BY <1>2, FS_Subset
    <2>2. QED
      BY <1>2, <1>3, <2>1, Sizes
  <1>5. \A i \in 1 .. Len(List) : /\ List[i] \in Slots /\ List[i] \in Members(List)
                                  /\ blink_array[List[i]] \in Element
    BY <1>3 DEF Members, BlinkInv
  <1>6. \A s : Contains(List, s) <=> s \in Members(List)
    BY DEF Contains, Members
  <1>7. DOMAIN List = 1 .. Len(List)
    BY <1>3
  <1>8. QED
    BY <1>2, <1>3, <1>4, <1>5, <1>6, <1>7

(* The new state keeps the invariant and its list is z. *)
LEMMA NewList ==
  ASSUME NEW z, blink_array' \in [Slots -> Element],
         IsList(blink_array', mp1_list_head', z),
         \A s \in Slots : s \in Members(z) <=> blink_array'[s].location # 0
  PROVE  BlinkInv' /\ List' = z
  <1>1. List' = z
    BY LinkedIs DEF List
  <1>2. QED
    BY <1>1 DEF BlinkInv

(* The search by location finds what the abstract list has first. *)
LEMMA Search ==
  ASSUME BlinkInv, NEW loc
  PROVE  \/ Abstract!At(loc) = 0 /\ mp1_find_helper(loc) = NULL
         \/ \E i \in 1 .. Len(List) :
              /\ Abstract!At(loc) = i /\ mp1_find_helper(loc) = List[i]
              /\ blink_array[List[i]].location = loc
  <1> DEFINE I == {i \in 1 .. Len(List) : blink_array[List[i]].location = loc}
  <1>1. mp1_find_helper(loc) = LET i == IF I # {} THEN Min(I) ELSE 0
                               IN  IF i = 0 THEN NULL ELSE List[i]
    BY DEF mp1_find_helper, SelectInSeq
  <1>2. Len(Items) = Len(List) /\ \A i \in 1 .. Len(List) : Items[i] = View(blink_array[List[i]])
    BY ListFacts DEF Items
  <1>3. Abstract!At(loc) = IF I # {} THEN Min(I) ELSE 0
    <2>0. \A i \in 1 .. Len(List) : Items[i].location = blink_array[List[i]].location
      BY <1>2, ViewFields
    <2>1. {i \in 1 .. Len(Items) : Items[i].location = loc} = I
      BY <1>2, <2>0
    <2>2. Abstract!At(loc) = LET J == {i \in 1 .. Len(Items) : Items[i].location = loc}
                             IN  IF J # {} THEN Min(J) ELSE 0
      BY DEF Abstract!At, Abstract!SelectInSeq, Abstract!Min, Min, Items
    <2>3. QED
      BY <2>1, <2>2
  <1>4. I # {} => Min(I) \in I
    <2>1. I \in SUBSET Nat
      OBVIOUS
    <2> HIDE DEF I
    <2>2. I # {} => \E n \in I : \A m \in I : n <= m
      BY <2>1, LeastNumber
    <2>3. QED
      BY <2>2 DEF Min
  <1>5. CASE I = {}
    BY <1>1, <1>3, <1>5
  <1>6. CASE I # {}
    <2>1. PICK i \in 1 .. Len(List) : i = Min(I) /\ blink_array[List[i]].location = loc
      BY <1>4, <1>6
    <2>2. i # 0
      OBVIOUS
    <2> HIDE DEF I
    <2>3. QED
      BY <1>1, <1>3, <1>6, <2>1, <2>2
  <1>7. QED
    BY <1>5, <1>6

(* A call that fails changes nothing. *)
LEMMA FailStep ==
  ASSUME BlinkInv, Fails
  PROVE  BlinkInv' /\ Abstract!Refused
  <1>1. List' = List
    BY DEF Fails, List
  <1>2. BlinkInv'
    BY <1>1 DEF Fails, BlinkInv
  <1>3. View(user)' = Abstract!None
    <2>1. user' = Zero
      BY DEF Fails
    <2>2. QED
      BY <2>1, ZeroView DEF View
  <1>4. QED
    BY <1>1, <1>2, <1>3 DEF Fails, Abstract!Refused

-----------------------------------------------------------------------------
(* The requests *)

(* The characters of a list. *)
Shown(f, s) == [i \in DOMAIN s |-> View(f[s[i]])]

Views(f) == {View(f[s]) : s \in Slots}

LEMMA ShownFacts ==
  ASSUME NEW f, NEW s \in Seq(Slots)
  PROVE  /\ Shown(f, s) \in Seq(Views(f)) /\ Len(Shown(f, s)) = Len(s)
         /\ DOMAIN Shown(f, s) = 1 .. Len(s)
         /\ \A i \in 1 .. Len(s) : Shown(f, s)[i] = View(f[s[i]])
  <1>1. DOMAIN s = 1 .. Len(s) /\ Len(s) \in Nat /\ \A i \in 1 .. Len(s) : s[i] \in Slots
    OBVIOUS
  <1>2. \A i \in 1 .. Len(s) : View(f[s[i]]) \in Views(f)
    BY <1>1 DEF Views
  <1>3. Shown(f, s) \in [1 .. Len(s) -> Views(f)]
    BY <1>1, <1>2 DEF Shown
  <1>4. QED
    BY <1>1, <1>3 DEF Shown

LEMMA AddShown ==
  ASSUME NEW f, NEW h, NEW s \in Seq(Slots), NEW x \in Slots,
         \A p \in Members(s) : View(h[p]) = View(f[p])
  PROVE  Shown(h, <<x>> \o s) = <<View(h[x])>> \o Shown(f, s)
  <1> DEFINE C == Views(f) \cup Views(h)
             z == <<x>> \o s
             a == Shown(h, z)
             b == <<View(h[x])>> \o Shown(f, s)
  <1>1. PICK n \in Nat : n = Len(s)
    OBVIOUS
  <1>2. z \in Seq(Slots) /\ Len(z) = n + 1 /\ z[1] = x /\ \A i \in 1 .. n : z[i + 1] = s[i]
    BY <1>1, InFront
  <1>3. /\ Shown(f, s) \in Seq(Views(f)) /\ Len(Shown(f, s)) = n
        /\ \A i \in 1 .. n : Shown(f, s)[i] = View(f[s[i]])
    BY <1>1, ShownFacts
  <1>4. Shown(f, s) \in Seq(C) /\ View(h[x]) \in C
    <2>1. View(h[x]) \in Views(h)
      BY DEF Views
    <2>2. QED
      BY <1>3, <2>1
  <1> HIDE DEF z, C
  <1>5. a \in Seq(Views(h)) /\ Len(a) = n + 1 /\ \A i \in 1 .. n + 1 : a[i] = View(h[z[i]])
    BY <1>2, ShownFacts
  <1>6. a \in Seq(C)
    BY <1>5 DEF C
  <1>7. /\ b \in Seq(C) /\ Len(b) = n + 1 /\ b[1] = View(h[x])
        /\ \A i \in 1 .. n : b[i + 1] = Shown(f, s)[i]
    BY <1>3, <1>4, InFront
  <1> HIDE DEF a, b
  <1>8. ASSUME NEW i \in 1 .. n + 1
        PROVE  a[i] = b[i]
    <2>1. CASE i = 1
      BY <1>2, <1>5, <1>7, <2>1
    <2>2. CASE i # 1
      <3>1. i - 1 \in 1 .. n /\ (i - 1) + 1 = i
        BY <2>2
      <3>2. s[i - 1] \in Members(s)
        BY <1>1, <3>1 DEF Members
      <3>3. a[i] = View(h[s[i - 1]]) /\ b[i] = View(f[s[i - 1]])
        BY <1>2, <1>3, <1>5, <1>7, <3>1
      <3>4. QED
        BY <3>2, <3>3
    <2>3. QED
      BY <2>1, <2>2
  <1>9. a = b
    BY <1>5, <1>6, <1>7, <1>8, SameSeq
  <1>10. QED
    BY <1>9 DEF a, b, z

LEMMA DropShown ==
  ASSUME NEW f, NEW h, NEW s \in Seq(Slots), NEW i \in 1 .. Len(s),
         \A p \in Members(Without(s, i)) : View(h[p]) = View(f[p])
  PROVE  Shown(h, Without(s, i)) = RemoveAt(Shown(f, s), i)
  <1>1. PICK n \in Nat : n = Len(s)
    OBVIOUS
  <1>2. PICK z : z = Without(s, i)
    OBVIOUS
  <1>3. z \in Seq(Slots) /\ Len(z) = n - 1
    BY <1>1, <1>2, WithoutIs
  <1>4. \A j \in 1 .. n - 1 : z[j] = IF j < i THEN s[j] ELSE s[j + 1]
    BY <1>1, <1>2 DEF Without
  <1>5. PICK c : c = Shown(f, s)
    OBVIOUS
  <1>6. c \in Seq(Views(f)) /\ Len(c) = n /\ \A j \in 1 .. n : c[j] = View(f[s[j]])
    BY <1>1, <1>5, ShownFacts
  <1>7. RemoveAt(c, i) = Without(c, i)
    BY <1>1, <1>6, WithoutIs
  <1>8. Without(c, i) = [j \in 1 .. n - 1 |-> IF j < i THEN c[j] ELSE c[j + 1]]
    BY <1>6 DEF Without
  <1>9. Shown(h, z) = [j \in 1 .. n - 1 |-> View(h[z[j]])]
    BY <1>3 DEF Shown
  <1>10. ASSUME NEW j \in 1 .. n - 1
         PROVE  View(h[z[j]]) = IF j < i THEN c[j] ELSE c[j + 1]
    <2>1. z[j] \in Members(z)
      BY <1>3 DEF Members
    <2>2. View(h[z[j]]) = View(f[z[j]])
      BY <1>2, <2>1
    <2>3. j \in 1 .. n /\ j + 1 \in 1 .. n
      OBVIOUS
    <2>4. QED
      BY <1>4, <1>6, <2>2, <2>3
  <1>11. QED
    BY <1>2, <1>5, <1>7, <1>8, <1>9, <1>10

(* What mp1_malloc finds. *)
LEMMA Malloc ==
  ASSUME BlinkInv
  PROVE  /\ mp1_malloc # NULL => /\ mp1_malloc \in Slots \ Members(List)
                                 /\ Len(List) < SLOTS
         /\ mp1_malloc = NULL => Len(List) = SLOTS
  <1> DEFINE Free == {s \in Slots : blink_array[s].location = 0}
  <1>1. mp1_malloc = IF Free # {} THEN Min(Free) ELSE NULL
    BY DEF mp1_malloc
  <1>2. Free \in SUBSET Nat /\ Free \subseteq Slots /\ NULL \notin Slots
    BY Sizes DEF Slots
  <1>3. Free \cap Members(List) = {} /\ (Free = {} => Members(List) = Slots)
    BY ListFacts DEF BlinkInv
  <1> HIDE DEF Free
  <1>4. Free # {} => Min(Free) \in Free
    <2>1. Free # {} => \E n \in Free : \A m \in Free : n <= m
      BY <1>2, LeastNumber
    <2>2. QED
      BY <2>1 DEF Min
  <1>5. CASE Free = {}
    BY <1>1, <1>3, <1>5, ListFacts
  <1>6. CASE Free # {}
    <2>1. mp1_malloc \in Slots \ Members(List) /\ mp1_malloc # NULL
      BY <1>1, <1>2, <1>3, <1>4, <1>6
    <2>2. QED
      BY <2>1, ListFacts
  <1>7. QED
    BY <1>5, <1>6

LEMMA AddStep ==
  ASSUME BlinkInv, NEW r \in Requests, mp1_ioctl_add(r)
  PROVE  BlinkInv' /\ Abstract!Add(r)
  <1>0. /\ r.location \in Nat /\ r.location # 0
        /\ r.on_char \in Nat /\ r.off_char \in Nat
        /\ r.on_length \in 0 .. Half /\ r.off_length \in 0 .. Half
    BY RequestsAssumption DEF Half
  <1>1. Items = Shown(blink_array, List) /\ Items' = Shown(blink_array', List')
    BY DEF Items, Shown
  <1>2. Len(Items) = Len(List) /\ Len(List) \in Nat
    BY <1>1, ListFacts, ShownFacts
  <1>3. CASE r.location >= SCREEN
    <2>1. Fails
      BY <1>3 DEF mp1_ioctl_add
    <2>2. QED
      BY <1>3, <2>1, FailStep DEF Abstract!Add
  <1>4. CASE ~(r.location >= SCREEN) /\ mp1_malloc = NULL
    <2>1. Fails
      BY <1>4 DEF mp1_ioctl_add
    <2>2. Len(Items) = SLOTS
      BY <1>2, <1>4, Malloc
    <2>3. QED
      BY <2>1, <2>2, FailStep DEF Abstract!Add, Items
  <1>5. CASE ~(r.location >= SCREEN) /\ mp1_malloc # NULL
    <2>1. PICK x \in Slots \ Members(List) : x = mp1_malloc
      BY <1>5, Malloc
    <2>2. PICK e : e = [location |-> r.location, on_char |-> r.on_char,
                        off_char |-> r.off_char, on_length |-> r.on_length,
                        off_length |-> r.off_length, countdown |-> r.on_length,
                        status |-> 1, next |-> mp1_list_head]
      OBVIOUS
    <2>3. /\ blink_array' = [blink_array EXCEPT ![x] = e] /\ mp1_list_head' = x
          /\ video' = Poke(video, r.location, r.on_char)
          /\ result' = 0 /\ user' = Zero
      BY <1>5, <2>1, <2>2 DEF mp1_ioctl_add
    <2>4. mp1_list_head \in Pointers
      <3>1. \A i \in 1 .. Len(List) : List[i] \in Slots
        BY ListFacts
      <3>2. Len(List) # 0 => 1 \in 1 .. Len(List)
        BY ListFacts
      <3>3. QED
        BY <3>1, <3>2 DEF BlinkInv, IsList, Pointers
    <2>5. e \in Element
      <3>1. r.location \in Locations
        BY <1>0, <1>5, Sizes DEF Locations
      <3>2. QED
        BY <1>0, <2>2, <2>4, <3>1 DEF Element
    <2>6. /\ blink_array \in [Slots -> Element] /\ blink_array' \in [Slots -> Element]
          /\ blink_array'[x] = e /\ \A p \in Slots \ {x} : blink_array'[p] = blink_array[p]
      BY <2>3, <2>5 DEF BlinkInv
    <2>7. /\ IsList(blink_array', mp1_list_head', <<x>> \o List)
          /\ Members(<<x>> \o List) = Members(List) \cup {x}
      <3>1. e.next = mp1_list_head
        BY <2>2
      <3>2. IsList(blink_array, mp1_list_head, List)
        BY DEF BlinkInv
      <3>3. blink_array'[x].next = mp1_list_head
        BY <2>6, <3>1
      <3>4. /\ IsList(blink_array', x, <<x>> \o List)
            /\ Members(<<x>> \o List) = Members(List) \cup {x}
        BY <2>6, <3>2, <3>3, AddList
      <3>5. QED
        BY <2>3, <3>4
    <2>8. \A s \in Slots : s \in Members(<<x>> \o List) <=> blink_array'[s].location # 0
      <3>1. e.location # 0
        BY <1>0, <2>2
      <3>2. QED
        BY <2>6, <2>7, <3>1 DEF BlinkInv
    <2>9. BlinkInv' /\ List' = <<x>> \o List
      BY <2>6, <2>7, <2>8, NewList
    <2>10. Items' = <<View(e)>> \o Items
      <3>1. \A p \in Members(List) : View(blink_array'[p]) = View(blink_array[p])
        BY <2>6, ListFacts
      <3>2. Shown(blink_array', <<x>> \o List) = <<View(blink_array'[x])>> \o Shown(blink_array, List)
        BY <3>1, ListFacts, AddShown
      <3>3. QED
        BY <1>1, <2>6, <2>9, <3>2
    <2>11. View(e) = [location |-> r.location, on |-> r.on_char,
                      off |-> r.off_char, on_for |-> r.on_length,
                      off_for |-> r.off_length, left |-> r.on_length,
                      lit |-> TRUE]
      <3>1. (e.status = 1) = TRUE
        BY <2>2
      <3>2. View(e) = [location |-> r.location, on |-> r.on_char,
                      off |-> r.off_char, on_for |-> r.on_length,
                      off_for |-> r.off_length, left |-> r.on_length,
                      lit |-> e.status = 1]
        BY <2>2 DEF View
      <3>3. QED
        BY <3>1, <3>2
    <2>12. View(user)' = Abstract!None
      BY <2>3, ZeroView DEF View
    <2>13. r.location < SCREEN /\ Len(Items) < SLOTS
      BY <1>0, <1>2, <1>5, Malloc, Sizes
    <2>14. Abstract!Add(r)
      BY <2>3, <2>10, <2>11, <2>12, <2>13 DEF Abstract!Add, Abstract!Accepted, Items, Poke
    <2>15. QED
      BY <2>9, <2>14
  <1>6. QED
    BY <1>3, <1>4, <1>5

LEMMA RemoveStep ==
  ASSUME BlinkInv, NEW loc, mp1_ioctl_remove(loc)
  PROVE  BlinkInv' /\ Abstract!Drop(loc)
  <1>1. Items = Shown(blink_array, List) /\ Items' = Shown(blink_array', List')
    BY DEF Items, Shown
  <1>2. NULL \notin Slots
    BY Sizes
  <1>3. CASE Abstract!At(loc) = 0 /\ mp1_find_helper(loc) = NULL
    <2>1. Fails
      BY <1>3 DEF mp1_ioctl_remove
    <2>2. QED
      BY <1>3, <2>1, FailStep DEF Abstract!Drop
  <1>4. ASSUME NEW i \in 1 .. Len(List),
               Abstract!At(loc) = i, mp1_find_helper(loc) = List[i]
        PROVE  BlinkInv' /\ Abstract!Drop(loc)
    <2>1. PICK x \in Slots : x = List[i] /\ x # NULL /\ x \in Members(List)
      BY <1>2, ListFacts
    <2>2. /\ blink_array' = Unlink(x)
          /\ mp1_list_head' = IF mp1_list_head = x THEN blink_array[x].next ELSE mp1_list_head
          /\ result' = 0 /\ user' = Zero /\ video' = video
      BY <1>4, <2>1 DEF mp1_ioctl_remove
    <2>3. blink_array' = [p \in Slots |->
             IF p = x THEN Zero
             ELSE IF p \in Members(List) /\ blink_array[p].next = x
             THEN [blink_array[p] EXCEPT !.next = blink_array[x].next]
             ELSE blink_array[p]]
      BY <2>2, ListFacts DEF Unlink, mp1_free
    <2>4. \A p \in Slots : blink_array[p] \in Element
      BY DEF BlinkInv
    <2>5. ASSUME NEW p \in Slots \ {x}
          PROVE  /\ blink_array'[p] \in Element
                 /\ blink_array'[p].location = blink_array[p].location
                 /\ View(blink_array'[p]) = View(blink_array[p])
                 /\ blink_array'[p].next =
                      IF p \in Members(List) /\ blink_array[p].next = x
                      THEN blink_array[x].next ELSE blink_array[p].next
      <3>1. CASE p \in Members(List) /\ blink_array[p].next = x
        <4>1. blink_array'[p] = [blink_array[p] EXCEPT !.next = blink_array[x].next]
          BY <2>3, <3>1
        <4>2. blink_array[p] \in Element /\ blink_array[x] \in Element
          BY <2>4
        <4>3. QED
          BY <3>1, <4>1, <4>2 DEF Element, View
      <3>2. CASE ~(p \in Members(List) /\ blink_array[p].next = x)
        <4>1. blink_array'[p] = blink_array[p]
          BY <2>3, <3>2
        <4>2. QED
          BY <2>4, <3>2, <4>1
      <3>3. QED
        BY <3>1, <3>2
    <2>6. blink_array'[x] = Zero /\ Zero.location = 0
      BY <2>3 DEF Zero
    <2>7. blink_array' \in [Slots -> Element]
      <3>1. \A p \in Slots : blink_array'[p] \in Element
        BY <2>5, <2>6, ZeroElement
      <3>2. blink_array' = [p \in Slots |-> blink_array'[p]]
        BY <2>3
      <3>3. QED
        BY <3>1, <3>2
    <2>8. /\ IsList(blink_array', mp1_list_head', Without(List, i))
          /\ Members(Without(List, i)) = Members(List) \ {x}
      <3>1. IsList(blink_array, mp1_list_head, List)
        BY DEF BlinkInv
      <3>2. \A p \in Slots \ {List[i]} :
              blink_array'[p].next =
                IF p \in Members(List) /\ blink_array[p].next = List[i]
                THEN blink_array[List[i]].next ELSE blink_array[p].next
        BY <2>1, <2>5
      <3>3. /\ IsList(blink_array', IF mp1_list_head = List[i] THEN blink_array[List[i]].next
                                    ELSE mp1_list_head, Without(List, i))
            /\ Members(Without(List, i)) = Members(List) \ {List[i]}
        BY <3>1, <3>2, DropList
      <3>4. QED
        BY <2>1, <2>2, <3>3
    <2>9. \A s \in Slots : s \in Members(Without(List, i)) <=> blink_array'[s].location # 0
      BY <2>5, <2>6, <2>8 DEF BlinkInv
    <2>10. BlinkInv' /\ List' = Without(List, i)
      BY <2>7, <2>8, <2>9, NewList
    <2>11. Items' = RemoveAt(Items, i)
      <3>1. \A p \in Members(Without(List, i)) : View(blink_array'[p]) = View(blink_array[p])
        BY <2>5, <2>8, ListFacts
      <3>2. Shown(blink_array', Without(List, i)) = RemoveAt(Shown(blink_array, List), i)
        BY <3>1, ListFacts, DropShown
      <3>3. QED
        BY <1>1, <2>10, <3>2
    <2>12. View(user)' = Abstract!None
      BY <2>2, ZeroView DEF View
    <2>13. i # 0 /\ Abstract!RemoveAt(Items, i) = RemoveAt(Items, i)
      BY DEF Abstract!RemoveAt, RemoveAt
    <2>14. Abstract!Drop(loc)
      BY <1>4, <2>2, <2>11, <2>12, <2>13 DEF Abstract!Drop, Abstract!Accepted, Items
    <2>15. QED
      BY <2>10, <2>14
  <1>5. QED
    BY <1>3, <1>4, Search

LEMMA FindStep ==
  ASSUME BlinkInv, NEW loc, mp1_ioctl_find(loc)
  PROVE  BlinkInv' /\ Abstract!Find(loc)
  <1>1. NULL \notin Slots
    BY Sizes
  <1>2. CASE Abstract!At(loc) = 0 /\ mp1_find_helper(loc) = NULL
    <2>1. Fails
      BY <1>2 DEF mp1_ioctl_find
    <2>2. QED
      BY <1>2, <2>1, FailStep DEF Abstract!Find
  <1>3. ASSUME NEW i \in 1 .. Len(List),
               Abstract!At(loc) = i, mp1_find_helper(loc) = List[i]
        PROVE  BlinkInv' /\ Abstract!Find(loc)
    <2>1. List[i] # NULL /\ i # 0
      BY <1>1, ListFacts
    <2>2. /\ user' = blink_array[List[i]] /\ result' = 0
          /\ UNCHANGED <<blink_array, mp1_list_head, video>>
      BY <1>3, <2>1 DEF mp1_ioctl_find
    <2>3. List' = List
      BY <2>2 DEF List
    <2>4. BlinkInv'
      BY <2>2, <2>3 DEF BlinkInv
    <2>5. View(user)' = Items[i] /\ Items' = Items
      <3>1. i \in DOMAIN List
        BY ListFacts
      <3>2. QED
        BY <2>2, <2>3, <3>1 DEF Items, View
    <2>6. Abstract!Find(loc)
      BY <1>3, <2>1, <2>2, <2>5 DEF Abstract!Find, Abstract!Accepted, Items
    <2>7. QED
      BY <2>4, <2>6
  <1>4. QED
    BY <1>2, <1>3, Search

LEMMA SyncStep ==
  ASSUME BlinkInv, NEW from, NEW to, mp1_ioctl_sync(from, to)
  PROVE  BlinkInv' /\ Abstract!Sync(from, to)
  <1>1. NULL \notin Slots
    BY Sizes
  <1>2. CASE \/ Abstract!At(from) = 0 /\ mp1_find_helper(from) = NULL
             \/ Abstract!At(to) = 0 /\ mp1_find_helper(to) = NULL
    <2>1. Fails
      BY <1>2 DEF mp1_ioctl_sync
    <2>2. QED
      BY <1>2, <2>1, FailStep DEF Abstract!Sync
  <1>3. ASSUME NEW i \in 1 .. Len(List), NEW j \in 1 .. Len(List),
               Abstract!At(from) = i, mp1_find_helper(from) = List[i],
               Abstract!At(to) = j, mp1_find_helper(to) = List[j],
               blink_array[List[j]].location = to
        PROVE  BlinkInv' /\ Abstract!Sync(from, to)
    <2>1. /\ List[i] # NULL /\ List[j] # NULL /\ i # 0 /\ j # 0
          /\ List[i] \in Slots /\ List[j] \in Slots
          /\ DOMAIN List = 1 .. Len(List)
      BY <1>1, ListFacts
    <2>2. PICK a, b : a = blink_array[List[i]] /\ b = blink_array[List[j]]
      OBVIOUS
    <2>3. PICK e : e = [b EXCEPT !.on_length = a.on_length, !.off_length = a.off_length,
                                 !.countdown = a.countdown, !.status = a.status]
      OBVIOUS
    <2>4. /\ blink_array' = [blink_array EXCEPT ![List[j]] = e]
          /\ video' = Poke(video, e.location, e.off_char)
          /\ result' = 0 /\ user' = Zero /\ mp1_list_head' = mp1_list_head
      BY <1>3, <2>1, <2>2, <2>3 DEF mp1_ioctl_sync
    <2>5. a \in Element /\ b \in Element
      BY <2>2, ListFacts
    <2>6. /\ e \in Element /\ e.location = to /\ e.off_char = b.off_char
          /\ e.on_char = b.on_char /\ e.next = b.next
          /\ e.on_length = a.on_length /\ e.off_length = a.off_length
          /\ e.countdown = a.countdown /\ e.status = a.status
      <3>1. b.location = to
        BY <1>3, <2>2
      <3>2. b = [location |-> b.location, on_char |-> b.on_char, off_char |-> b.off_char,
                 on_length |-> b.on_length, off_length |-> b.off_length,
                 countdown |-> b.countdown, status |-> b.status, next |-> b.next]
        BY <2>5 DEF Element
      <3>3. e = [location |-> b.location, on_char |-> b.on_char, off_char |-> b.off_char,
                 on_length |-> a.on_length, off_length |-> a.off_length,
                 countdown |-> a.countdown, status |-> a.status, next |-> b.next]
        BY <2>3, <3>2
      <3>4. e \in Element
        BY <2>5, <3>3 DEF Element
      <3>5. QED
        BY <3>1, <3>3, <3>4
    <2>7. /\ blink_array' \in [Slots -> Element]
          /\ \A p \in Slots : /\ blink_array'[p] = IF p = List[j] THEN e ELSE blink_array[p]
                              /\ blink_array'[p].next = blink_array[p].next
                              /\ blink_array'[p].location = blink_array[p].location
      <3>1. blink_array \in [Slots -> Element]
        BY DEF BlinkInv
      <3>2. b.location = to
        BY <1>3, <2>2
      <3>3. QED
        BY <2>1, <2>2, <2>4, <2>6, <3>1, <3>2
    <2>8. IsList(blink_array', mp1_list_head', List)
      <3>1. \A p \in Members(List) : blink_array'[p].next = blink_array[p].next
        BY <2>7, ListFacts
      <3>2. QED
        BY <2>4, <3>1, KeepList DEF BlinkInv
    <2>9. BlinkInv' /\ List' = List
      <3>1. \A s \in Slots : s \in Members(List) <=> blink_array'[s].location # 0
        BY <2>7 DEF BlinkInv
      <3>2. QED
        BY <2>7, <2>8, <3>1, NewList
    <2>10. \A k \in 1 .. Len(List) : Items[k] = View(blink_array[List[k]])
      BY <2>1 DEF Items
    <2>11. Items' = [Items EXCEPT ![j].on_for = Items[i].on_for,
                                  ![j].off_for = Items[i].off_for,
                                  ![j].left = Items[i].left,
                                  ![j].lit = Items[i].lit]
      <3>1. Items' = [k \in 1 .. Len(List) |-> View(blink_array'[List[k]])]
        BY <2>1, <2>9 DEF Items
      <3>2. \A k \in 1 .. Len(List) :
              View(blink_array'[List[k]]) = IF k = j THEN View(e) ELSE Items[k]
        <4>1. \A k \in 1 .. Len(List) : List[k] \in Slots /\ (List[k] = List[j] <=> k = j)
          BY ListFacts
        <4>2. QED
          BY <2>7, <2>10, <4>1
      <3>3. Items = [k \in 1 .. Len(List) |-> Items[k]]
        BY <2>1 DEF Items
      <3>4. View(e) = [Items[j] EXCEPT !.on_for = Items[i].on_for,
                                       !.off_for = Items[i].off_for,
                                       !.left = Items[i].left,
                                       !.lit = Items[i].lit]
        <4>1. Items[j] = View(b) /\ Items[i] = View(a)
          BY <2>2, <2>10
        <4>2. PICK on, off : on = (a.status = 1) /\ off = (b.status = 1)
          OBVIOUS
        <4>3. (e.status = 1) = on
          BY <2>6, <4>2
        <4>4. View(b) = Character(b.location, b.on_char, b.off_char, b.on_length,
                                  b.off_length, b.countdown, off)
          BY <4>2 DEF View, Character
        <4>5. View(e) = Character(e.location, e.on_char, e.off_char, e.on_length,
                                  e.off_length, e.countdown, on)
          BY <4>3 DEF View, Character
        <4>6. b.location = to
          BY <1>3, <2>2
        <4>7. View(e) = [View(b) EXCEPT !.on_for = a.on_length,
                                        !.off_for = a.off_length,
                                        !.left = a.countdown, !.lit = on]
          <5>1. View(e) = Character(b.location, b.on_char, b.off_char, a.on_length,
                                    a.off_length, a.countdown, on)
            BY <2>6, <4>5, <4>6
          <5>2. Retimed(View(b), a.on_length, a.off_length, a.countdown, on)
                  = Character(b.location, b.on_char, b.off_char, a.on_length,
                              a.off_length, a.countdown, on)
            BY <4>4, NewRhythm
          <5>3. QED
            BY <5>1, <5>2 DEF Retimed
        <4>8. /\ View(a).on_for = a.on_length /\ View(a).off_for = a.off_length
              /\ View(a).left = a.countdown /\ View(a).lit = on
          BY <4>2, ViewFields
        <4>9. QED
          BY <4>1, <4>7, <4>8
      <3> DEFINE New == [Items EXCEPT ![j].on_for = Items[i].on_for,
                                      ![j].off_for = Items[i].off_for,
                                      ![j].left = Items[i].left,
                                      ![j].lit = Items[i].lit]
      <3>5. New = [k \in 1 .. Len(List) |-> IF k = j THEN View(e) ELSE Items[k]]
        BY <3>3, <3>4
      <3>6. QED
        BY <3>1, <3>2, <3>5
    <2>12. View(user)' = Abstract!None
      BY <2>4, ZeroView DEF View
    <2>13. video' = [video EXCEPT ![to] = Items[j].off]
      <3>1. Items[j].off = b.off_char
        BY <2>2, <2>10, ViewFields
      <3>2. QED
        BY <2>4, <2>6, <3>1 DEF Poke
    <2>14. Abstract!Sync(from, to)
      BY <1>3, <2>1, <2>4, <2>11, <2>12, <2>13 DEF Abstract!Sync, Abstract!Accepted, Items
    <2>15. QED
      BY <2>9, <2>14
  <1>4. QED
    BY <1>2, <1>3, Search

-----------------------------------------------------------------------------
(* The timer *)

LEMMA Mod ==
  ASSUME NEW w \in Nat, NEW h \in Nat, h >= 1, w = h + h, NEW c \in 0 .. h
  PROVE  (c - 1) % w = IF c = 0 THEN w - 1 ELSE c - 1
  <1>1. CASE c = 0
    <2>1. (0 - 1) % w = w - 1
      OBVIOUS
    <2>2. QED
      BY <1>1, <2>1
  <1>2. CASE c # 0
    <2>1. c - 1 \in 0 .. w - 1
      BY <1>2
    <2>2. \A n \in 0 .. w - 1 : n % w = n
      OBVIOUS
    <2>3. QED
      BY <1>2, <2>1, <2>2
  <1>3. QED
    BY <1>1, <1>2

(* The signed comparison of the wrapped countdown is the end of a phase. *)
LEMMA DueIsOver ==
  ASSUME BlinkInv, NEW s \in Slots
  PROVE  /\ Due(s) <=> blink_array[s].countdown <= 1
         /\ ~Due(s) => Down(s) = blink_array[s].countdown - 1 /\ Down(s) \in 0 .. Half
  <1>1. PICK c \in 0 .. Half : c = blink_array[s].countdown
    BY DEF BlinkInv, Element
  <1>2. Down(s) = IF c = 0 THEN WORD - 1 ELSE c - 1
    BY <1>1, Sizes, Mod DEF Down
  <1>3. WORD \div 2 = Half
    BY DEF Half
  <1>4. QED
    BY <1>1, <1>2, <1>3, Sizes DEF Due

(* An element's turn is the abstract one. *)
LEMMA TurnIs ==
  ASSUME BlinkInv, NEW s \in Slots
  PROVE  /\ Turn(s) \in Element
         /\ Turn(s).next = blink_array[s].next
         /\ Turn(s).location = blink_array[s].location
         /\ View(Turn(s)) = Abstract!After(View(blink_array[s]))
  <1>1. PICK e \in Element : e = blink_array[s]
    BY DEF BlinkInv
  <1>2. Due(s) <=> e.countdown <= 1
    BY <1>1, DueIsOver
  <1>3. PICK v : v = View(e)
    OBVIOUS
  <1>4. PICK lit : lit = (e.status = 1) /\ lit \in BOOLEAN
    OBVIOUS
  <1>5. v = Character(e.location, e.on_char, e.off_char, e.on_length, e.off_length,
                      e.countdown, lit)
    BY <1>3, <1>4 DEF View, Character
  <1>6. /\ v.left = e.countdown /\ v.lit = lit /\ v.off_for = e.off_length
        /\ v.on_for = e.on_length
    BY <1>3, <1>4, ViewFields
  <1>7. Abstract!Over(v) <=> Due(s)
    BY <1>2, <1>6 DEF Abstract!Over
  <1>8. CASE ~Due(s)
    <2>1. PICK d \in 0 .. Half : d = Down(s) /\ d = e.countdown - 1
      BY <1>1, <1>8, DueIsOver
    <2>2. Turn(s) = [e EXCEPT !.countdown = d]
      BY <1>1, <1>8, <2>1 DEF Turn
    <2>3. PICK t : t = Turn(s)
      OBVIOUS
    <2>4. /\ t \in Element /\ t.next = e.next /\ t.location = e.location
          /\ t.on_char = e.on_char /\ t.off_char = e.off_char
          /\ t.on_length = e.on_length /\ t.off_length = e.off_length
          /\ t.countdown = d /\ t.status = e.status
      BY <2>2, <2>3 DEF Element
    <2>5. (t.status = 1) = lit
      BY <1>4, <2>4
    <2>6. View(t) = Character(t.location, t.on_char, t.off_char, t.on_length,
                              t.off_length, t.countdown, lit)
      BY <2>5 DEF View, Character
    <2>7. Abstract!After(v) = [v EXCEPT !.left = v.left - 1]
      BY <1>7, <1>8 DEF Abstract!After
    <2>8. v.left - 1 = d
      BY <1>6, <2>1
    <2>9. Abstract!After(v) = Character(e.location, e.on_char, e.off_char,
                                        e.on_length, e.off_length, d, lit)
      BY <1>5, <2>7, <2>8 DEF Character
    <2>10. QED
      BY <1>1, <1>3, <2>3, <2>4, <2>6, <2>9
  <1>9. CASE Due(s)
    <2>1. PICK n \in 0 .. Half : n = IF e.status = 1 THEN e.off_length ELSE e.on_length
      BY DEF Element
    <2>2. PICK k \in {0, 1} : k = 1 - e.status
      BY DEF Element
    <2>3. Turn(s) = [e EXCEPT !.countdown = n, !.status = k]
      BY <1>1, <1>9, <2>1, <2>2 DEF Turn
    <2>4. PICK t : t = Turn(s)
      OBVIOUS
    <2>5. /\ t \in Element /\ t.next = e.next /\ t.location = e.location
          /\ t.on_char = e.on_char /\ t.off_char = e.off_char
          /\ t.on_length = e.on_length /\ t.off_length = e.off_length
          /\ t.countdown = n /\ t.status = k
      BY <2>3, <2>4 DEF Element
    <2>6. (t.status = 1) = ~lit
      <3>1. k = 1 <=> ~(e.status = 1)
        BY <2>2 DEF Element
      <3>2. QED
        BY <1>4, <2>5, <3>1
    <2>7. View(t) = Character(t.location, t.on_char, t.off_char, t.on_length,
                              t.off_length, t.countdown, ~lit)
      BY <2>6 DEF View, Character
    <2>8. Abstract!After(v) = [v EXCEPT !.left = n, !.lit = ~lit]
      <3>1. (IF v.lit THEN v.off_for ELSE v.on_for) = n
        BY <1>4, <1>6, <2>1
      <3>2. QED
        BY <1>6, <1>7, <1>9, <3>1 DEF Abstract!After
    <2>9. Abstract!After(v) = Character(e.location, e.on_char, e.off_char,
                                        e.on_length, e.off_length, n, ~lit)
      <3>1. PICK dark : dark = ~lit
        OBVIOUS
      <3>2. PICK r1 : r1 = [v EXCEPT !.left = n]
        OBVIOUS
      <3>3. PICK r2 : r2 = [r1 EXCEPT !.lit = dark]
        OBVIOUS
      <3>4. r1 = Character(e.location, e.on_char, e.off_char,
                           e.on_length, e.off_length, n, lit)
        BY <1>5, <3>2 DEF Character
      <3>5. r2 = Character(e.location, e.on_char, e.off_char,
                           e.on_length, e.off_length, n, dark)
        BY <3>3, <3>4 DEF Character
      <3>6. Abstract!After(v) = r2
        BY <2>8, <3>1, <3>2, <3>3
      <3>7. QED
        BY <3>1, <3>5, <3>6
    <2>10. QED
      BY <1>1, <1>3, <2>4, <2>5, <2>7, <2>9
  <1>10. QED
    BY <1>8, <1>9

(* The timer pokes the screen in the order of the list, as the abstract    *)
(* list does: the two folds are defined by the same recursion.             *)
LEMMA SameScreen ==
  ASSUME BlinkInv
  PROVE  FoldLeft(Flip, video, List) =
           Abstract!FoldLeft(LAMBDA v, x : IF ~Abstract!Over(x) THEN v
                                 ELSE [v EXCEPT ![x.location] =
                                           IF x.lit THEN x.off ELSE x.on],
                             video, Items)
  <1> DEFINE D == 1 .. Len(List)
             Draw(v, x) == IF ~Abstract!Over(x) THEN v
                           ELSE [v EXCEPT ![x.location] = IF x.lit THEN x.off ELSE x.on]
             A(it, S) == IF S = {} THEN video
                         ELSE Flip(it[S \ {Max(S)}], List[Max(S)])
             B(it, S) == IF S = {} THEN video
                         ELSE Draw(it[S \ {Max(S)}], Items[Max(S)])
  <1>1. DOMAIN List = D /\ DOMAIN Items = D /\ Len(List) \in Nat
    BY ListFacts DEF Items
  <1>2. ASSUME NEW S \in SUBSET D, S # {}
        PROVE  Max(S) \in D
    <2>1. PICK n \in Nat : n = Len(List) /\ D = 1 .. n
      BY <1>1
    <2> DEFINE R == {n - i : i \in S}
    <2>2. R \in SUBSET Nat /\ R # {}
      <3>1. \A i \in S : n - i \in Nat
        <4>1. \A i \in 1 .. n : n - i \in Nat
          OBVIOUS
        <4>2. QED
          BY <2>1, <4>1
      <3>2. QED
        BY <1>2, <3>1
    <2>3. PICK r \in R : \A m \in R : r <= m
      <3> HIDE DEF R
      <3>1. QED
        BY <2>2, LeastNumber
    <2>4. PICK i \in S : r = n - i
      OBVIOUS
    <2>5. \A j \in S : i >= j
      <3>1. SUFFICES ASSUME NEW j \in S PROVE i >= j
        OBVIOUS
      <3>2. n - j \in R
        OBVIOUS
      <3>3. n - i <= n - j /\ i \in 1 .. n /\ j \in 1 .. n
        BY <2>1, <2>3, <2>4, <3>2
      <3>4. QED
        BY <3>3
    <2>6. \E x \in S : \A y \in S : x >= y
      BY <2>5
    <2>7. Max(S) \in S
      BY <2>6 DEF Max
    <2>8. QED
      BY <2>7
  <1>3. ASSUME NEW v, NEW i \in D
        PROVE  Flip(v, List[i]) = Draw(v, Items[i])
    <2>1. PICK s \in Slots : s = List[i]
      BY ListFacts
    <2>2. PICK e : e = blink_array[s]
      OBVIOUS
    <2>3. Items[i] = View(e)
      BY <1>1, <2>1, <2>2 DEF Items
    <2>4. PICK x : x = View(e)
      OBVIOUS
    <2>5. /\ x.location = e.location /\ x.left = e.countdown
          /\ x.on = e.on_char /\ x.off = e.off_char /\ (x.lit <=> e.status = 1)
      BY <2>4, ViewFields
    <2>6. Due(s) <=> Abstract!Over(x)
      BY <2>2, <2>5, DueIsOver DEF Abstract!Over
    <2>7. (IF e.status = 1 THEN e.off_char ELSE e.on_char) = IF x.lit THEN x.off ELSE x.on
      BY <2>5
    <2>8. Flip(v, s) = Draw(v, x)
      BY <2>2, <2>5, <2>6, <2>7 DEF Flip, Poke
    <2>9. QED
      BY <2>1, <2>3, <2>4, <2>8
  <1>4. ASSUME NEW it, NEW S \in SUBSET D
        PROVE  A(it, S) = B(it, S)
    <2>1. CASE S = {}
      BY <2>1
    <2>2. CASE S # {}
      <3> HIDE DEF Draw
      <3>1. Max(S) \in D
        BY <1>2, <2>2
      <3>2. Flip(it[S \ {Max(S)}], List[Max(S)]) = Draw(it[S \ {Max(S)}], Items[Max(S)])
        BY <1>3, <3>1
      <3>3. QED
        BY <2>2, <3>2
    <2>3. QED
      BY <2>1, <2>2
  <1>5. FoldLeft(Flip, video, List) = (CHOOSE it : it = [S \in SUBSET D |-> A(it, S)])[D]
    <2>1. FoldLeft(Flip, video, List) =
            (CHOOSE it : it = [S \in SUBSET (DOMAIN List) |-> A(it, S)])[DOMAIN List]
      BY DEF FoldLeft, MapThenFoldSet
    <2> HIDE DEF A
    <2>2. QED
      BY <1>1, <2>1
  <1>6. Abstract!FoldLeft(LAMBDA v, x : IF ~Abstract!Over(x) THEN v
                                 ELSE [v EXCEPT ![x.location] =
                                           IF x.lit THEN x.off ELSE x.on],
                          video, Items)
          = (CHOOSE it : it = [S \in SUBSET D |-> B(it, S)])[D]
    <2>1. Abstract!FoldLeft(LAMBDA v, x : IF ~Abstract!Over(x) THEN v
                                 ELSE [v EXCEPT ![x.location] =
                                           IF x.lit THEN x.off ELSE x.on],
                            video, Items)
            = (CHOOSE it : it = [S \in SUBSET (DOMAIN Items) |-> B(it, S)])[DOMAIN Items]
      BY DEF Abstract!FoldLeft, Abstract!MapThenFoldSet, Abstract!Max, Max
    <2> HIDE DEF B
    <2>2. QED
      BY <1>1, <2>1
  <1>7. (CHOOSE it : it = [S \in SUBSET D |-> A(it, S)]) =
          (CHOOSE it : it = [S \in SUBSET D |-> B(it, S)])
    <2> HIDE DEF A, B, D
    <2>1. \A it : [S \in SUBSET D |-> A(it, S)] = [S \in SUBSET D |-> B(it, S)]
      BY <1>4
    <2>2. QED
      BY <2>1
  <1>8. QED
    BY <1>5, <1>6, <1>7

LEMMA TickStep ==
  ASSUME BlinkInv, mp1_rtc_tasklet
  PROVE  BlinkInv' /\ Abstract!Tick
  <1>1. /\ blink_array' = [s \in Slots |-> IF s \in Members(List) THEN Turn(s)
                                           ELSE blink_array[s]]
        /\ video' = FoldLeft(Flip, video, List)
        /\ result' = 0 /\ user' = Zero /\ mp1_list_head' = mp1_list_head
    BY ListFacts DEF mp1_rtc_tasklet
  <1>2. ASSUME NEW s \in Slots
        PROVE  /\ blink_array'[s] \in Element
               /\ blink_array'[s].next = blink_array[s].next
               /\ blink_array'[s].location = blink_array[s].location
    <2>1. CASE s \in Members(List)
      BY <1>1, <2>1, TurnIs
    <2>2. CASE s \notin Members(List)
      BY <1>1, <2>2 DEF BlinkInv
    <2>3. QED
      BY <2>1, <2>2
  <1>3. blink_array' \in [Slots -> Element]
    <2>1. blink_array' = [s \in Slots |-> blink_array'[s]]
      BY <1>1
    <2>2. QED
      BY <1>2, <2>1
  <1>4. IsList(blink_array', mp1_list_head', List)
    <2>1. \A p \in Members(List) : blink_array'[p].next = blink_array[p].next
      BY <1>2, ListFacts
    <2>2. QED
      BY <1>1, <2>1, KeepList DEF BlinkInv
  <1>5. BlinkInv' /\ List' = List
    <2>1. \A s \in Slots : s \in Members(List) <=> blink_array'[s].location # 0
      BY <1>2 DEF BlinkInv
    <2>2. QED
      BY <1>3, <1>4, <2>1, NewList
  <1>6. Items' = [i \in DOMAIN Items |-> Abstract!After(Items[i])]
    <2>1. DOMAIN List = 1 .. Len(List) /\ DOMAIN Items = DOMAIN List
      BY ListFacts DEF Items
    <2>2. \A i \in 1 .. Len(List) :
            View(blink_array'[List[i]]) = Abstract!After(View(blink_array[List[i]]))
      <3>1. SUFFICES ASSUME NEW i \in 1 .. Len(List)
                     PROVE  View(blink_array'[List[i]]) =
                              Abstract!After(View(blink_array[List[i]]))
        OBVIOUS
      <3>2. List[i] \in Slots /\ List[i] \in Members(List)
        BY ListFacts
      <3>3. blink_array'[List[i]] = Turn(List[i])
        BY <1>1, <3>2
      <3>4. QED
        BY <3>2, <3>3, TurnIs
    <2>3. Items' = [i \in 1 .. Len(List) |-> View(blink_array'[List[i]])]
      BY <1>5, <2>1 DEF Items
    <2>4. \A i \in 1 .. Len(List) : Items[i] = View(blink_array[List[i]])
      BY <2>1 DEF Items
    <2>5. QED
      BY <2>1, <2>2, <2>3, <2>4
  <1>7. View(user)' = Abstract!None
    BY <1>1, ZeroView DEF View
  <1>8. Abstract!Tick
    BY <1>1, <1>6, <1>7, SameScreen DEF Abstract!Tick, Items
  <1>9. QED
    BY <1>5, <1>8

-----------------------------------------------------------------------------
(* The theorems *)

(* Every step keeps the invariant and is one of the abstract list's. *)
LEMMA BlinkStep ==
  ASSUME BlinkInv, [Next]_vars
  PROVE  BlinkInv' /\ [Abstract!Next]_(Abstract!vars)
  <1> DEFINE At == {r.location : r \in Requests}
  <1>0. Asked \subseteq At
    BY DEF Asked
  <1>1. ASSUME NEW r \in Requests, mp1_ioctl_add(r)
        PROVE  BlinkInv' /\ Abstract!Next
    BY <1>1, AddStep DEF Abstract!Next
  <1>2. ASSUME NEW l \in Asked, mp1_ioctl_remove(l)
        PROVE  BlinkInv' /\ Abstract!Next
    <2>1. BlinkInv' /\ Abstract!Drop(l)
      BY <1>2, RemoveStep
    <2>2. QED
      BY <1>0, <2>1 DEF Abstract!Next
  <1>3. ASSUME NEW l \in Asked, mp1_ioctl_find(l)
        PROVE  BlinkInv' /\ Abstract!Next
    <2>1. BlinkInv' /\ Abstract!Find(l)
      BY <1>3, FindStep
    <2>2. QED
      BY <1>0, <2>1 DEF Abstract!Next
  <1>4. ASSUME NEW l \in Asked, NEW m \in Asked, mp1_ioctl_sync(l, m)
        PROVE  BlinkInv' /\ Abstract!Next
    <2>1. BlinkInv' /\ Abstract!Sync(l, m)
      BY <1>4, SyncStep
    <2>2. QED
      BY <1>0, <2>1 DEF Abstract!Next
  <1>5. CASE mp1_rtc_tasklet
    BY <1>5, TickStep DEF Abstract!Next
  <1>6. CASE UNCHANGED vars
    <2>1. List' = List
      BY <1>6 DEF vars, List
    <2>2. BlinkInv'
      BY <1>6, <2>1 DEF vars, BlinkInv
    <2>3. UNCHANGED Abstract!vars
      BY <1>6, <2>1 DEF vars, Abstract!vars, View
    <2>4. QED
      BY <2>2, <2>3
  <1>7. QED
    BY <1>1, <1>2, <1>3, <1>4, <1>5, <1>6 DEF Next, mp1_ioctl

(* Memory is neither leaked nor handed out twice, and the list ends, with  *)
(* a pool and a screen of any size and whatever is added, removed and      *)
(* synchronised between the ticks (mp1_malloc, mp1_free and the links).    *)
THEOREM MemoryNeverLeaks == Spec => []NoLeak
  <1>1. Init => BlinkInv
    BY InvInit
  <1>2. BlinkInv /\ [Next]_vars => BlinkInv'
    BY BlinkStep
  <1>3. BlinkInv => NoLeak
    BY ListFacts DEF NoLeak, Ends, BlinkInv
  <1>4. QED
    BY <1>1, <1>2, <1>3, PTL DEF Spec

(* The linked list of blink.S, its allocator and the 16-bit countdowns     *)
(* together are the abstract list of characters: every request answers and *)
(* every tick draws as that list does.                                     *)
THEOREM BlinkImplementsList == Spec => ImplementsList
  <1>1. Init => BlinkInv /\ Abstract!Init
    <2> SUFFICES ASSUME Init PROVE BlinkInv /\ Abstract!Init
      OBVIOUS
    <2>1. BlinkInv /\ List = <<>>
      BY InvInit
    <2>2. [i \in DOMAIN List |-> View(blink_array[List[i]])] = <<>>
      BY <2>1
    <2>3. View(user) = Abstract!None
      BY ZeroView DEF Init
    <2>4. QED
      BY <2>1, <2>2, <2>3 DEF Init, Abstract!Init, Locations
  <1>2. BlinkInv /\ [Next]_vars => BlinkInv' /\ [Abstract!Next]_(Abstract!vars)
    BY BlinkStep
  <1>3. QED
    BY <1>1, <1>2, PTL DEF Spec, ImplementsList, Abstract!Spec

=============================================================================
