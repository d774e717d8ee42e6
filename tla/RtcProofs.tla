----------------------------- MODULE RtcProofs -----------------------------
(***************************************************************************)
(* Proofs about the virtual clocks, for any number of terminals, any real  *)
(* frequency and any requests.                                             *)
(***************************************************************************)
EXTENDS Rtc, TLAPS

USE DEF Terms, Pids

(* The assumptions on the constants, together. *)
LEMMA Constants ==
    /\ TERMINAL_NUM \in Nat \ {0}
    /\ PID_COUNT \in Nat \ {0}
    /\ REAL_FREQ \in Nat /\ MAX_COUNT \in Nat /\ MAX_COUNT >= REAL_FREQ
    /\ RTC_DEFAULT_VIRT_FREQ \in 1 .. REAL_FREQ
    /\ Requests \subseteq Nat
BY TermAssumption, PidAssumption, FreqAssumption, CountAssumption

(* A count that is cut off at the bound stays within it. *)
LEMMA CappedType ==
    ASSUME NEW n \in Nat
    PROVE  Capped(n) \in 0 .. MAX_COUNT
BY Constants DEF Capped

(* A count within the bound can be counted up. *)
LEMMA CountUp ==
    ASSUME NEW n \in 0 .. MAX_COUNT
    PROVE  n \in Nat /\ n + 1 \in Nat
BY Constants

(* Cutting counts off keeps their order. *)
LEMMA CappedMonotone ==
    ASSUME NEW n \in Nat, NEW k \in Nat, n <= k
    PROVE  Capped(n) <= Capped(k)
BY Constants DEF Capped

(* Every step keeps the types: set_virtual_freq_rtc refuses frequencies    *)
(* above the real one.                                                     *)
LEMMA TypeStep ==
    ASSUME TypeOK, [Next]_vars
    PROVE  TypeOK'
<1> USE Constants DEF TypeOK
<1>1. CASE Irq
  <2>1. ASSUME NEW t \in Terms
        PROVE  /\ Capped(int_count[t] + 1) \in 0 .. MAX_COUNT
               /\ Capped(seen[t] + 1) \in 0 .. MAX_COUNT
    <3>1. int_count[t] \in 0 .. MAX_COUNT /\ seen[t] \in 0 .. MAX_COUNT
      OBVIOUS
    <3>2. int_count[t] + 1 \in Nat /\ seen[t] + 1 \in Nat
      BY <3>1, CountUp
    <3> QED BY <3>2, CappedType
  <2> QED BY <1>1, <2>1 DEF Irq
<1>2. CASE Tick
  <2>1. (current_schedule + 1) % TERMINAL_NUM \in Terms
    OBVIOUS
  <2> QED BY <1>2, <2>1 DEF Tick, clocks
<1>3. ASSUME NEW t \in Terms, ReadFlag(t)
      PROVE  TypeOK'
  <2>1. 0 \in 0 .. MAX_COUNT
    OBVIOUS
  <2>2. seen' \in [Terms -> 0 .. MAX_COUNT]
    BY <1>3, <2>1 DEF ReadFlag
  <2>3. at' \in [Terms -> {"user", "half", "spin"}] /\ flag' \in [Terms -> {0, 1}]
    BY <1>3 DEF ReadFlag
  <2> QED BY <1>3, <2>2, <2>3 DEF ReadFlag
<1>4. ASSUME NEW t \in Terms, ReadCount(t)
      PROVE  TypeOK'
  <2>1. 0 \in 0 .. MAX_COUNT
    OBVIOUS
  <2>2. int_count' \in [Terms -> 0 .. MAX_COUNT]
    BY <1>4, <2>1 DEF ReadCount
  <2>3. at' \in [Terms -> {"user", "half", "spin"}]
    BY <1>4 DEF ReadCount
  <2> QED BY <1>4, <2>2, <2>3 DEF ReadCount
<1>5. ASSUME NEW t \in Terms, ReadReturn(t)
      PROVE  TypeOK'
  BY <1>5 DEF ReadReturn, clocks
<1>6. ASSUME NEW t \in Terms, NEW f \in Requests \cup {RTC_DEFAULT_VIRT_FREQ},
             SetVirtualFreq(t, f)
      PROVE  TypeOK'
  <2>1. f \in 1 .. REAL_FREQ
    BY <1>6 DEF SetVirtualFreq, Valid
  <2>2. int_count' \in [Terms -> 0 .. MAX_COUNT]
    <3>1. 0 \in 0 .. MAX_COUNT
      OBVIOUS
    <3> QED BY <1>6, <3>1 DEF SetVirtualFreq
  <2>3. virt_freq' \in [Terms -> 1 .. REAL_FREQ]
    BY <1>6, <2>1 DEF SetVirtualFreq
  <2> QED BY <1>6, <2>2, <2>3 DEF SetVirtualFreq
<1>7. ASSUME NEW t \in Terms, NEW p \in Pids, Start(t, p)
      PROVE  TypeOK'
  BY <1>7 DEF Start, clocks
<1>8. CASE UNCHANGED vars
  BY <1>8 DEF vars, clocks
<1> QED
  BY <1>1, <1>2, <1>3, <1>4, <1>5, <1>6, <1>7, <1>8 DEF Next, Read, RtcWrite, RtcOpen

(* Whatever the environment does, every variable of the clocks keeps its   *)
(* type; the virtual frequency stays between 1 and the real one.           *)
THEOREM TypeCorrect == Spec => []TypeOK
<1>1. Init => TypeOK
  BY Constants DEF Init, TypeOK
<1>2. TypeOK /\ [Next]_vars => TypeOK'
  BY TypeStep
<1> QED BY <1>1, <1>2, PTL DEF Spec

-----------------------------------------------------------------------------
(* Once a period is over it stays over, also at the bound of the count. *)
LEMMA PeriodGrows ==
    ASSUME NEW v \in 1 .. REAL_FREQ, NEW n \in Nat, NEW k \in Nat,
           REAL_FREQ <= v * n, n <= k
    PROVE  REAL_FREQ <= v * Capped(k)
<1>1. v \in Nat /\ v >= 1
  BY Constants
<1>2. CASE k < MAX_COUNT
  <2>1. v * n <= v * k
    BY <1>1, SMT
  <2>2. v * n \in Nat /\ v * k \in Nat
    BY <1>1, SMT
  <2>3. Capped(k) = k
    BY <1>2 DEF Capped
  <2> QED BY <2>1, <2>2, <2>3, Constants
<1>3. CASE ~(k < MAX_COUNT)
  <2>1. Capped(k) = MAX_COUNT
    BY <1>3 DEF Capped
  <2>2. v * MAX_COUNT >= MAX_COUNT
    BY <1>1, Constants, SMT
  <2>3. v * MAX_COUNT \in Nat
    BY <1>1, Constants, SMT
  <2> QED BY <2>1, <2>2, <2>3, Constants
<1> QED BY <1>2, <1>3

(* In the loop of rtc_read the count is at most the interrupts since the   *)
(* call, and a flag that is up was put up by one of them.                  *)
Waiting(t) ==
    /\ at[t] = "half" => flag[t] = 0
    /\ at[t] = "spin" =>
         /\ int_count[t] <= seen[t]
         /\ flag[t] = 1 => REAL_FREQ <= virt_freq[t] * seen[t]

Inv == TypeOK /\ \A t \in Terms : Waiting(t)

(* irqh_rtc keeps Waiting when it does not fall between the two resets. *)
LEMMA IrqStep ==
    ASSUME Env = {}, Inv, Irq, NEW t \in Terms
    PROVE  Waiting(t)'
<1> USE Constants DEF Inv, TypeOK
<1>1. at[t] # "half" /\ at' = at /\ virt_freq' = virt_freq
  BY DEF Irq
<1> SUFFICES ASSUME at[t] = "spin"
             PROVE  /\ int_count'[t] <= seen'[t]
                    /\ flag'[t] = 1 => REAL_FREQ <= virt_freq[t] * seen'[t]
  BY <1>1 DEF Waiting
<1>2. int_count[t] <= seen[t] /\ (flag[t] = 1 => REAL_FREQ <= virt_freq[t] * seen[t])
  BY DEF Waiting
<1>3. seen'[t] = Capped(seen[t] + 1)
  BY DEF Irq
<1>4. /\ virt_freq[t] \in 1 .. REAL_FREQ
      /\ seen[t] \in Nat /\ seen[t] + 1 \in Nat
      /\ int_count[t] \in 0 .. MAX_COUNT /\ int_count[t] + 1 \in Nat
  <2>1. /\ virt_freq[t] \in 1 .. REAL_FREQ
        /\ seen[t] \in 0 .. MAX_COUNT
        /\ int_count[t] \in 0 .. MAX_COUNT
    OBVIOUS
  <2> QED BY <2>1, CountUp
<1>5. CASE Found(t)
  <2>1. /\ int_count'[t] = Capped(int_count[t] + 1)
        /\ flag'[t] = 1 => REAL_FREQ <= virt_freq[t] * (int_count[t] + 1)
    BY <1>5 DEF Irq, PeriodOver
  <2>2. int_count[t] + 1 <= seen[t] + 1
    BY <1>2, <1>4
  <2>3. flag'[t] = 1 => REAL_FREQ <= virt_freq[t] * Capped(seen[t] + 1)
    BY <1>4, <2>1, <2>2, PeriodGrows
  <2>4. Capped(int_count[t] + 1) <= Capped(seen[t] + 1)
    BY <1>4, <2>2, CappedMonotone
  <2> QED BY <1>3, <2>1, <2>3, <2>4
<1>6. CASE ~Found(t)
  <2>1. int_count'[t] = int_count[t] /\ flag'[t] = flag[t]
    BY <1>6 DEF Irq
  <2>2. seen[t] <= seen[t] + 1
    BY <1>4
  <2>3. flag[t] = 1 => REAL_FREQ <= virt_freq[t] * Capped(seen[t] + 1)
    BY <1>2, <1>4, <2>2, PeriodGrows
  <2>4. int_count[t] <= Capped(seen[t] + 1)
    BY <1>2, <1>4 DEF Capped
  <2> QED BY <1>3, <2>1, <2>3, <2>4
<1> QED BY <1>5, <1>6

(* Every other step keeps Waiting too. *)
LEMMA InvStep ==
    ASSUME Env = {}, Inv, [Next]_vars
    PROVE  Inv'
<1>1. TypeOK'
  BY TypeStep DEF Inv
<1> SUFFICES ASSUME NEW t \in Terms PROVE Waiting(t)'
  BY <1>1 DEF Inv
<1>w. Waiting(t) /\ TypeOK
  BY DEF Inv
<1> USE Constants DEF TypeOK
<1>2. CASE Irq
  BY <1>2, IrqStep
<1>3. CASE Tick
  BY <1>3, <1>w DEF Tick, clocks, Waiting
<1>4. ASSUME NEW u \in Terms, ReadFlag(u)
      PROVE  Waiting(t)'
  BY <1>4, <1>w DEF ReadFlag, Waiting
<1>5. ASSUME NEW u \in Terms, ReadCount(u)
      PROVE  Waiting(t)'
  BY <1>5, <1>w DEF ReadCount, Waiting
<1>6. ASSUME NEW u \in Terms, ReadReturn(u)
      PROVE  Waiting(t)'
  BY <1>6, <1>w DEF ReadReturn, clocks, Waiting
<1>7. ASSUME NEW u \in Terms, NEW f \in Requests \cup {RTC_DEFAULT_VIRT_FREQ},
             SetVirtualFreq(u, f)
      PROVE  Waiting(t)'
  BY <1>7, <1>w DEF SetVirtualFreq, Waiting
<1>8. ASSUME NEW u \in Terms, NEW p \in Pids, Start(u, p)
      PROVE  Waiting(t)'
  BY <1>8, <1>w DEF Start, clocks, Waiting
<1>9. CASE UNCHANGED vars
  BY <1>9, <1>w DEF vars, clocks, Waiting
<1> QED
  BY <1>2, <1>3, <1>4, <1>5, <1>6, <1>7, <1>8, <1>9 DEF Next, Read, RtcWrite, RtcOpen

(* If no interrupt falls between the two resets of rtc_read, no rtc_read   *)
(* returns before a whole virtual period has passed, for any frequencies   *)
(* and any number of terminals.                                            *)
THEOREM NeverEarly ==
    ASSUME Env = {}
    PROVE  Spec => NotEarly
<1>1. Init => Inv
  BY Constants DEF Init, Inv, TypeOK, Waiting
<1>2. Inv /\ [Next]_vars => Inv'
  BY InvStep
<1>3. Inv /\ [Next]_vars =>
        [\A t \in Terms :
           at[t] = "spin" /\ at'[t] = "user" => REAL_FREQ <= virt_freq[t] * seen[t]]_vars
  <2> SUFFICES ASSUME Inv, [Next]_vars, NEW t \in Terms,
                      at[t] = "spin", at'[t] = "user"
               PROVE  REAL_FREQ <= virt_freq[t] * seen[t]
    OBVIOUS
  <2>1. ReadReturn(t)
    BY DEF Next, Read, RtcWrite, RtcOpen, Irq, Tick, ReadFlag, ReadCount, ReadReturn,
           SetVirtualFreq, Start, vars, Inv, TypeOK
  <2>2. flag[t] = 1 /\ Waiting(t)
    BY <2>1 DEF ReadReturn, Inv
  <2> QED BY <2>2 DEF Waiting
<1> QED BY <1>1, <1>2, <1>3, PTL DEF Spec, NotEarly

=============================================================================
