-------------------------------- MODULE Rtc --------------------------------
(***************************************************************************)
(* The virtual clocks of the terminals (rtc.c).  One hardware clock ticks  *)
(* at real_freq; its interrupt counts for every terminal and raises the    *)
(* terminal's flag once its virtual period is over.  rtc_read resets flag  *)
(* and count and spins on the flag, with interrupts on.                    *)
(*                                                                         *)
(* int_count stops at MAX_COUNT instead of running on: the flag is the     *)
(* same for every count from real_freq up to the point where the product   *)
(* with virt_freq exceeds 32 bits, after 2^22 interrupts, more than an     *)
(* hour, at the highest virtual frequency.                                 *)
(***************************************************************************)
EXTENDS Integers, FiniteSets

CONSTANTS
    TERMINAL_NUM,
    PID_COUNT,              \* 8
    REAL_FREQ,              \* 1024
    RTC_DEFAULT_VIRT_FREQ,  \* 2
    Requests,               \* the frequencies programs ask for
    MAX_COUNT,              \* bound: where int_count stops
    Env                     \* {"race"}: an interrupt hits between the resets

ASSUME TermAssumption  == TERMINAL_NUM \in Nat \ {0}
ASSUME PidAssumption   == PID_COUNT \in Nat /\ PID_COUNT > TERMINAL_NUM
ASSUME FreqAssumption  ==
    /\ REAL_FREQ \in Nat /\ RTC_DEFAULT_VIRT_FREQ \in 1 .. REAL_FREQ
    /\ Requests \subseteq Nat
ASSUME CountAssumption == MAX_COUNT \in Nat /\ MAX_COUNT >= REAL_FREQ
ASSUME EnvAssumption   == Env \subseteq {"race"}

Terms == 0 .. TERMINAL_NUM - 1
Pids  == 0 .. PID_COUNT - 1

VARIABLES
    pid, running,                   \* of each terminal
    flag, int_count, virt_freq,     \* its virtual_rtc
    at,                             \* where its program is in rtc_read
    seen,                           \* history: interrupts since that read began
    current_schedule                \* the terminal that has the CPU

clocks == <<flag, int_count, virt_freq>>
vars   == <<pid, running, clocks, at, seen, current_schedule>>

-----------------------------------------------------------------------------
(* get_terminal_from_pid finds the first terminal with a pid; those that   *)
(* never had a program hold pid 0 as well, and are never found.            *)
Found(t) == \A u \in 0 .. t - 1 : pid[u] # pid[t]

(* Mutant: the flag is up only in the interrupt that ends the period. *)
PeriodOverExactly(t, n) == REAL_FREQ = virt_freq[t] * n

PeriodOver(t, n) == REAL_FREQ <= virt_freq[t] * n

Capped(n) == IF n < MAX_COUNT THEN n ELSE MAX_COUNT

(* irqh_rtc.  It runs with interrupts off, whatever runs in front. *)
Irq ==
    /\ (\E t \in Terms : at[t] = "half") => "race" \in Env
    /\ int_count' = [t \in Terms |->
                       IF Found(t) THEN Capped(int_count[t] + 1) ELSE int_count[t]]
    /\ flag' = [t \in Terms |->
                  IF Found(t)
                  THEN IF PeriodOver(t, int_count[t] + 1) THEN 1 ELSE 0
                  ELSE flag[t]]
    /\ seen' = [t \in Terms |->
                  IF at[t] = "user" THEN seen[t] ELSE Capped(seen[t] + 1)]
    /\ UNCHANGED <<pid, running, virt_freq, at, current_schedule>>

-----------------------------------------------------------------------------
(* System calls of the program that runs in terminal t *)

Runs(t) == current_schedule = t /\ running[t]

ReadFlag(t) ==
    /\ Runs(t) /\ at[t] = "user"
    /\ flag' = [flag EXCEPT ![t] = 0]
    /\ at'   = [at EXCEPT ![t] = "half"]
    /\ seen' = [seen EXCEPT ![t] = 0]
    /\ UNCHANGED <<pid, running, int_count, virt_freq, current_schedule>>

(* Mutant: the count goes on from the read before. *)
KeepCount(t) ==
    /\ Runs(t) /\ at[t] = "half"
    /\ at' = [at EXCEPT ![t] = "spin"]
    /\ UNCHANGED <<pid, running, clocks, seen, current_schedule>>

ReadCount(t) ==
    /\ Runs(t) /\ at[t] = "half"
    /\ int_count' = [int_count EXCEPT ![t] = 0]
    /\ at' = [at EXCEPT ![t] = "spin"]
    /\ UNCHANGED <<pid, running, flag, virt_freq, seen, current_schedule>>

ReadReturn(t) ==
    /\ Runs(t) /\ at[t] = "spin" /\ flag[t] = 1
    /\ at' = [at EXCEPT ![t] = "user"]
    /\ UNCHANGED <<pid, running, clocks, seen, current_schedule>>

PowerOfTwo(f) == \E k \in 0 .. f : 2 ^ k = f

(* Mutant: the requested frequency is not compared with the real one. *)
AnyPowerOfTwo(f) == f # 0 /\ PowerOfTwo(f)

Valid(f) == f # 0 /\ f <= REAL_FREQ /\ PowerOfTwo(f)

(* An invalid frequency changes nothing.  Opening and writing run with     *)
(* interrupts off.                                                         *)
SetVirtualFreq(t, f) ==
    /\ Runs(t) /\ at[t] = "user"
    /\ Valid(f)
    /\ int_count' = [int_count EXCEPT ![t] = 0]
    /\ virt_freq' = [virt_freq EXCEPT ![t] = f]
    /\ UNCHANGED <<pid, running, flag, at, seen, current_schedule>>

RtcWrite(t) == \E f \in Requests : SetVirtualFreq(t, f)

RtcOpen(t) == SetVirtualFreq(t, RTC_DEFAULT_VIRT_FREQ)

(* A shell starts in the next free terminal, with a pid of its own. *)
Start(t, p) ==
    /\ ~running[t] /\ \A u \in 0 .. t - 1 : running[u]
    /\ \A u \in Terms : running[u] => pid[u] # p
    /\ pid' = [pid EXCEPT ![t] = p]
    /\ running' = [running EXCEPT ![t] = TRUE]
    /\ UNCHANGED <<clocks, at, seen, current_schedule>>

Tick ==
    /\ current_schedule' = (current_schedule + 1) % TERMINAL_NUM
    /\ UNCHANGED <<pid, running, clocks, at, seen>>

Init ==
    /\ pid = [t \in Terms |-> 0]
    /\ running = [t \in Terms |-> t = 0]
    /\ flag = [t \in Terms |-> 0]
    /\ int_count = [t \in Terms |-> 0]
    /\ virt_freq = [t \in Terms |-> RTC_DEFAULT_VIRT_FREQ]
    /\ at = [t \in Terms |-> "user"]
    /\ seen = [t \in Terms |-> 0]
    /\ current_schedule = 0

Read(t) == ReadCount(t) \/ ReadReturn(t)

Next ==
    \/ Irq \/ Tick
    \/ \E t \in Terms :
         \/ ReadFlag(t) \/ Read(t)
         \/ RtcWrite(t) \/ RtcOpen(t)
         \/ \E p \in Pids : Start(t, p)

Spec == Init /\ [][Next]_vars

(* Both clocks go on for ever, and a program that is given the CPU again   *)
(* and again gets on.                                                      *)
Fairness == SF_vars(Irq) /\ SF_vars(Tick) /\ \A t \in Terms : SF_vars(Read(t))

FairSpec == Spec /\ Fairness

-----------------------------------------------------------------------------
(* Every variable has its type; in particular a virtual frequency is never *)
(* faster than the real one, so a period is never empty.                   *)
TypeOK ==
    /\ pid \in [Terms -> Pids]
    /\ running \in [Terms -> BOOLEAN]
    /\ flag \in [Terms -> {0, 1}]
    /\ int_count \in [Terms -> 0 .. MAX_COUNT]
    /\ virt_freq \in [Terms -> 1 .. REAL_FREQ]
    /\ at \in [Terms -> {"user", "half", "spin"}]
    /\ seen \in [Terms -> 0 .. MAX_COUNT]
    /\ current_schedule \in Terms

(* rtc_read waits "for the IRQH to fire at virtual freq": it returns only  *)
(* after a whole virtual period of hardware interrupts since it was called,*)
(* whatever count and flag earlier reads and writes left behind.           *)
NotEarly ==
    [][\A t \in Terms :
         at[t] = "spin" /\ at'[t] = "user" => REAL_FREQ <= virt_freq[t] * seen[t]]_vars

(* A program that reads its clock is woken, even if its terminal does not  *)
(* have the CPU when its period ends, and whoever else starts or reads.    *)
ReadReturns == \A t \in Terms : at[t] = "half" ~> at[t] = "user"

=============================================================================
