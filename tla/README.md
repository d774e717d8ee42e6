# Formal model of the ECE 391 MP3 kernel

TLA+ modules, model-checking configurations and machine-checked proofs about
the kernel in `src/student-distrib/`: a 32-bit teaching kernel for one CPU with
three terminals, round-robin scheduling between them, eight processes, a
read-only file system, a keyboard line discipline and virtualised real-time
clocks.

Check a configuration with `tlc -config MCKernel.cfg MCKernel`, a proof module
with `tlapm KernelProofs.tla`.

## 1. The system

| Part | State it keeps | Operations | Interacts with |
|---|---|---|---|
| Processes (`syscall.c`, `syscall_asm.S`) | `procs` bitmap, `running_pid`, one `Pcb` per 8 kB kernel stack (parent/child links, saved esp/ebp), `program_exception_occured` | `execute`, `halt`, `uspace` | reads the terminal table to decide whether a new process is a shell; sets `tss.esp0` and cr3 |
| Scheduler (`pit.c`) | `schedule_counter`, `current_schedule` | `irqh_pit` on every PIT tick | switches the display, saves and loads stacks, calls `execute("shell")` for a terminal that has none |
| Terminals (`terminal_driver.c`) | `terminals[3]` (pid, running, status, line buffer, cursor, RTC), `current_terminal` | `switch_terminal`, `restore_terminal`, `new_terminal`, `get_running_terminal`, `terminal_read`, `terminal_write` | used by all of the others |
| Keyboard (`keyboard.c`) | `key_state`, `multi_byte`, `terminal_to_switch_to`, the line buffers | `irqh_keyboard`/`handle_keypress`, `get_line_buf`, `clear_line_buf` | asks the PIT for a switch; shares line buffers with readers, without a lock |
| RTC (`rtc.c`) | `virtual_rtc` per terminal | `irqh_rtc`, `rtc_read`, `rtc_write`, `rtc_open` | polled flag shared with the interrupt |
| Exceptions and gates (`idt.c`, `idt_asm.S`) | none | print, set the flag, `halt(1)` | calls `halt` |
| Paging (`paging.c`) | page directories and tables per pid | `map_vid_mem`, program and vidmap pages | called by execute, halt, the PIT, `putc`; returns with interrupts on |
| PIC (`i8259.c`) | masks | `send_eoi` | decides where an interrupt can nest |
| Files (`syscall.c`, `fs.c`) | fd table of each Pcb, file positions, one global directory position | `open`, `close`, `read`, `write`, `getargs`, `vidmap`; `read_data`, `dir_read` | dispatch to terminal, RTC or file system |
| Screen and library (`lib.c`) | `screen_x`, `screen_y`, video memory | `putc`, `terminal_putc`, `clear`, `scroll_up`, string routines | echo remaps video memory |

What makes this code hard: every gate is an interrupt gate, so a handler looks
atomic, but `execute`, `read` and `map_vid_mem` turn interrupts on in the
middle, and `irqh_pit` sends its EOI before it has left the old stack. Between
those points any other program can run. State is global (`running_pid`,
`program_exception_occured`, `current_terminal`) and is consulted after such
points. The list `hazards` in `PROJECT.json` names each place.

What would make each part correct:

* processes and scheduler: links form a forest with one root per started
  terminal; every preempted program can be resumed; the kernel's idea of who
  runs is right; halt returns to the caller of execute; nobody starves;
* line discipline: a read returns exactly the line typed and edited for it;
  the buffer does not overflow; a completed line arrives;
* RTC: a read lasts a whole virtual period and ends;
* files: `read_data` returns the bytes of the file, positions advance by what
  was returned, a descriptor that is not open keeps nothing of its last file,
  a directory that one process lists alone is listed completely;
* screen: every terminal has a screen and a cursor of its own, whoever is on
  display, whoever runs and whenever the display is switched;
* routines and user programs: what they compute, on every input;
* the fish's blinking list (`src/fish/blink.S`): the linked structure and the
  pool it is allocated from stand for a list of places.

## 2. Modules

| Module | Contents |
|---|---|
| `Kernel` | processes, scheduler, terminal table, exceptions, Alt+Fn, cr3/esp0 |
| `KernelProperties` | its properties and the inductive invariant `CalmInv` |
| `TermStacks` | abstract specification: one stack of programs per terminal, only a top one executes |
| `KernelRefinement` | the mapping of `Kernel` to `TermStacks` |
| `KernelProofs` | TLAPS: what holds in every environment, and lemmas about walks and stacks |
| `KernelCalmProofs` | TLAPS: what holds without the awkward situations |
| `Screen` | video memory, buffers, cursors, page mappings, `putc`, switching, `vidmap` |
| `Screens` | abstract specification: a screen and a cursor per terminal |
| `ScreenProofs` | TLAPS: types in every environment, that the running process is mapped to its terminal, the refinement of `Screens` |
| `LineDiscipline` | keyboard handler, line buffers, `get_line_buf` |
| `LineEditor` | abstract specification of reading a terminal |
| `LineProperties` | properties and the mapping of `LineDiscipline` to `LineEditor` |
| `LineProofs` | TLAPS: types, the shape of the line buffer, the refinement of `LineEditor` |
| `Keys` | scan codes, `key_state`, caps lock, `handle_disp` |
| `Rtc` | virtual clocks, with their properties |
| `RtcProofs` | TLAPS: types, and that no read returns early |
| `Files` | system call dispatch, descriptor tables, the file system |
| `FilesProofs` | TLAPS: what `read_data` copies, the descriptor tables, directory listings, the tests of `Syserr` |
| `Syserr` | the repository's own test program `ece391syserr.c`, run on `Files` |
| `Blink` | the fish's list of blinking characters (`blink.S`) and its allocator |
| `BlinkList` | abstract specification: a sequence of places, each with two characters |
| `BlinkProperties` | the mapping of `Blink` to `BlinkList` and the properties |
| `BlinkProofs` | TLAPS: the list and the pool agree, and implement `BlinkList` |
| `Memory` | the loops of `memset`, `memcpy`, `memmove` and the word forms |
| `Strings` | string routines, number conversions, `printf`, command lines |
| `StringCalls` | calls of the routines of `Strings` and what they should return |
| `Programs` | `grep` and the frame reader of `fish` |
| `Lib` | all of these and `Keys` together, and what `Programs` should compute |
| `LibProofs` | TLAPS: the memory routines, the keys, numbers and command lines |
| `MCKernel`, `MCScreen`, `MCLine`, `MCRtc`, `MCFiles`, `MCBlink`, `MCLib` | the modules the configurations check |

Definitions whose comment starts with "Mutant:" are variants with a plausible
bug. No specification uses them; replacing the definition that follows by one
of them makes the property named in `PROJECT.json` fail.

### Kernel

Variables have the names of the code. `procs` is the set of pids whose bit is
set; a pointer to a Pcb is its pid or `None`; `esp0` and `cr3` hold the process
they belong to; `elf_page` the processes whose 4 MB page is present. A saved
esp/ebp pair is a *context*: the program that continues, the stack its frames
lie on and the place in the code. Frames that are pushed on a stack again
destroy what was parked there (`Wipe`, `Smash`), which is how the model notices
a stack used twice; on a kernel entry from user mode the CPU starts at
`tss.esp0`, which is when a stack is used anew.

An action is a stretch of code between two points where an interrupt can be
taken: `Execute` up to the `sti` before `uspace`, `Uspace` from its `cli` on;
`Halt` as a whole; an exception on display as a whole, in the background in four
pieces because `printf` remaps video memory; `irqh_pit` in `PitStay`,
`PitSwitch` and `PitShell` (the three branches, each including
`switch_terminal`), `Descend` and `Dispatch` (the loop to the lowest child, then
TSS, `running_pid` and cr3) and `SwitchStack` (from the EOI to the load of esp).
An `execute` that fails before it takes a pid changes nothing and is a
stuttering step.

The user stack of a new program is a matter of its own. `uspace` pushes the
kernel's own esp as the program's (`syscall_asm.S:29`), and no program sets
another, so the user stack of a child starts below the frames of its parent's
`execute`, on the parent's kernel stack (`UserStack`). The parent waits there
until the child halts, and its frames lie above (`Covered`). A shell that the
timer starts lies in the same way on the kernel stack of the program it
interrupted, and that program is resumed while the shell lives on: from then on
both grow into the same 8 kB. `Overrun` is the step in which one destroys the
frames of the other; whether it happens depends on how deep each stands, which
the model does not know, so it is a situation, `ustack`, and without it
`Reachable` speaks of what entries into the kernel and switches do to the frames
of others, not of the growth of user stacks.

`Env` says which situations, that the code does not defend itself against,
occur: `startup` (a program calls execute, or Alt+Fn is pressed again, while the
displayed terminal waits for its shell), `rootexit` (a shell other than the
displayed first one exits or faults), `tick` (a tick hits the end of
`irqh_pit`), `badimage` (execute fails after it took a pid), `bgfault` (an
exception in a background terminal), `ustack` (two programs that share a stack
reach each other's frames). With `Env = {}` all the ordinary
interleavings remain: calls, exits, faults on display, ticks at every point with
interrupts on, switches at any time.

### Screen

`mem` holds the characters on the physical pages that matter: the one the VGA
shows and one buffer per terminal. For each process, `video` is the page behind
the virtual address `VIDEO` and `user` the page behind the address `vidmap`
returns. Output goes where the code sends it: `putc` of the running process
through `VIDEO` if its terminal is on display, `terminal_putc` into the buffer
otherwise, except that scrolling always goes through `VIDEO`, as in the code. A
program draws through `user`. The echo of a key in a terminal that does not have
the CPU is two steps (`putc` remaps, `PutcEnd` puts the character and maps
back), since `map_vid_mem` ends with `sti`. The timer interrupt is one step,
with `switch_terminal`, `restore_terminal`, `scheduler_vidmap` and the start of
a shell. Processes are what `Kernel` is shown to make of them (`TermStacks`): a
stack per terminal whose top runs. `Kernel` shows that without its situations
`startup` and `rootexit` only; what belongs to them is therefore outside
`Screen` whatever its own `Env`: a call of execute or an Alt+Fn before the
displayed terminal has its shell (`execute`, `AltFn`), and the exit of a shell
other than that of terminal 0 on display (`HaltRoot`).

`Screens` has a screen and a cursor per terminal and no pages; `Screen`
implements it with each terminal's screen being the VGA page if it is on display
and its buffer if not, the cursor likewise. `Mapped` is the reason: the process
that runs has `VIDEO`, and its vidmap page if it has one, on the page of its
terminal.

`Env`: `bgcall` (a program executes another or halts in the background),
`vidchild` (one that has called vidmap executes another), `corner` (backspace at
the top left in the background), `echotick` (a tick within a remapped echo),
`skip` (Alt+Fn for a terminal while a lower one has no shell), `full` (no pid
for the shell of a terminal just shown). Each of them breaks `Mapped` or
`ImplementsScreens`; see section 5. `skip` and `full` take three terminals.

### LineDiscipline and Keys

One program per terminal, scheduled in turn. A key is one action if the program
it interrupts belongs to the terminal on display; otherwise the echo goes
through `map_vid_mem`, interrupts come on, and the rest of the handler
(`KbdStore`, `KbdLoad`, `KbdBump`, `KbdEoi`) runs whenever that program has the
CPU; meanwhile the PIC lets no other key in. `index++` is a load and a store, as
in the -O0 build. `get_line_buf` is cut between its accesses to shared state.
Storing at index 128 overwrites the low byte of `line_buf_index`, the next
member of the struct. `Env`: `typeahead` (keys come after a newline and before
the reader took the line), `bump` (a tick between store and increment).
The key state is abstracted to backspace, control, alt and the function keys.

`Keys` is the other half of `handle_keypress`: bytes from the keyboard become
`key_state`, and `handle_disp` chooses a character. The keyboard (external)
sends presses, repeats and releases in any order, with a prefix for an arrow key
and the prefixed releases of shift by which it hides shift, and the six bytes of
Pause. One key stands for the letters, one for the keys with a second character
and one for those without; `Others` are further keys of one byte. Any key that
is down may be repeated, caps lock too; the repetition of the press that clears
caps lock sets it again (`keyboard.c:144`), against the comment at
`keyboard.c:138`. A history variable, `reversed`, tells when that has happened, and
`KeysRight` compares the kernel with the lock as this leaves it (`Lit`).

### Rtc

`Irq` is the handler for all terminals it finds through their pids; `rtc_read`
is cut at its two resets and at the loop; `rtc_write` and `rtc_open` run with
interrupts off. `seen` is a history variable that counts interrupts since the
read began. `Env = {"race"}` lets an interrupt fall between the two resets.

### Files and Syserr

The constants are the file system image; `ImageAssumption` says what the code
takes for granted of it, of which `open_fs` (`fs.c:25`) checks one part, that
there are fewer entries than room for them. Two of the others matter at an edge:
the name at an index past the entries is read from the first inode
(`fs.c:193`), which has to have size 0; and behind the last byte of a file
nothing is assumed, so that the look-up of the block behind a file that fills
its last one may find no valid number. A system call is one action, because it runs with
interrupts off, except the read of a directory: `read` does `sti`, and
`dir_read_count++` is a load (`DirLoad`) and a store (`DirStore`). `got`, `alone`
and `listed` are history variables: what was read through a descriptor, and
whether the process that opened the directory is the only one that has used it
since. `read_data` copies byte by byte with the code's tests in the code's
order, the look-up of a block that is not going to be read included. When that
look-up finds no block (`Stumbles`) the whole read fails (`fs.c:255`), and
`ReadsAll` says so.

`Syserr` is a process that makes the calls of `ece391syserr.c`, test by test,
beside another one that makes any of `Calls`; `SyserrPasses` says that every
test prints PASS, which is what that program is for.

### Blink

`blink_array`, the list through it and the four entries of `call_table`, the tasklet beside them, are the
state and the actions; a pointer is an index, NULL is -1. The countdown is a word
of `WORD` values, as `decw` and `jg` see it. `BlinkList` knows no pointers and no
pool: it is a sequence of places with what they show. Two facts about the
callers are assumptions (`RequestsAssumption`): no request is for location 0,
which the allocator takes for a free element (`fish.c:158`), and lengths are
positive as signed words (`blink.S:65`).

### Memory, Strings, Programs, Lib

Pure code, called by `Lib` with every small input. `Memory` keeps the loops, with
registers and the direction flag, which outlives a call: calls follow one
another, and one that does not clear the flag after a backwards `memmove` would
be caught. `Strings` has the conversions as functions over sequences of digits,
`printf` as a scan of its format with all its conversions, and the loop of
`execute` that cuts the command line. `Programs` has `grep`'s buffer, of which
the byte behind the last one read is arbitrary, with the open, read or close that
may fail, and the two-file loop of `fish`. The reference definitions are in
`StringCalls` and `Lib`: a numeral is judged by its value, grep by the lines that contain the
pattern, fish by the two pictures side by side.

## 3. Runs

| Run | Configuration | Shows |
|---|---|---|
| `kernel_calm` | 4 pids, 3 terminals, `Env = {}`, 1.0 million states | `FamilyTree`, `Attributed`, `Reachable`, `Coherent`, `HaltReturnsToParent` |
| `kernel_live` | 3 pids, 3 terminals, fairness | `ImplementsStacks` (refinement), `NoStarvation`, `ShellArrives` |
| `kernel_all` | 2 pids, 3 terminals, every situation, 2 million states | `TypeOK`, `RunningPrefix` survive everything |
| `root_exit` | 3 pids, 2 terminals | violation: a shell that exits in the background frees the wrong terminal |
| `line_edit` | 2 terminals, buffer of 3, 2 letters, `Env = {}`, 0.6 million states | `TypeOK`, `Contiguous`, `NoOverflow`, `ImplementsEditor` (refinement) |
| `line_live` | 2 terminals, buffer of 2, newlines only, `Env = {"bump"}`, fairness | `LineArrives`, `KeyboardReleased` |
| `rtc` | 2 terminals, real frequency 4, requests 0, 1, 3, 4, 8 | `TypeOK`, `NotEarly`, `ReadReturns` |
| `screen` | 2 terminals, 3 pids, 2 x 2 characters, 3 of output, `Env = {}`, 1.2 million states | `TypeOK`, `Mapped`, `ImplementsScreens` (refinement) |
| `screen_stale` | the same, `Env = {"bgcall"}` | violation: a program started in the background runs with the visible screen mapped |
| `files` | 2 processes, 4 descriptors, blocks of 2 bytes, a file of 2 full blocks and one whose full block is followed by a slot that is no block, 0.3 million states | `TypeOK`, `CleanTable`, `SequentialRead`, `ListingComplete`, `SyserrPasses`, `ReadsAll` |
| `blink` | 3 elements, 3 places, words of 4 values, fairness, 49 000 states | `NoLeak`, `ImplementsList` (refinement), `Blinks` |
| `lib` | memory of 10 bytes, words of 2 hexadecimal digits, texts of up to 6 characters, 69 000 states | `MemoryRight`, `NumbersRight`, `FormatRight`, `CommandRight`, `GrepRight`, `FramesRight`, `KeysRight` |

Bounds. Four pids over three terminals allow a chain of two programs in one
terminal beside shells in both others, and a full pid table; three terminals are
the code's number. Two pids suffice for `kernel_all` because every awkward
situation needs two processes, and its state space grows fastest. A buffer of
three cells has an empty, a middle and a full state, and a size of 2 asks for
lines that fit and lines that are cut; two letters tell the order of characters
apart. `line_live` needs no letters: what matters is whether a newline is found
in either cell. `MAX_HELD` = 2 keys is what Alt+Fn takes. The clock's frequencies
give periods of 1, 2 and 4 interrupts, and refused requests of each kind;
`MAX_COUNT` stops the interrupt count above the longest period, which leaves the
flag as it is; the wrap of the 32-bit product is left out (2^22 interrupts, more
than an hour, after the last reset at the highest virtual frequency, 24 days at
the default one; every read resets the count).

A screen of 2 x 2 has a corner, the end of a line and a last line; three
characters of output (`MaxOutput`) fill a line and scroll, in either terminal,
before and after a switch; three pids are two shells and a child. The file fills
its last block, so that the look-up behind the end happens; reads of 0, 3 and 9
bytes cross a block, meet the end and are refused; four descriptors leave two to
run out of; `MAX_READS` = 6 reads of the directory go past its last entry and
past the last inode. Three elements of the fish's list are head, middle and tail.
Ten bytes give `memset` and `memcpy` an unaligned start, a dword and a tail, and
`memmove` overlaps in both directions. Words of two hexadecimal digits have a
sign, a padded and a full width. Lines of up to two characters in a buffer of
three bytes, in files of six, put the boundary everywhere. The arguments of
formats are 0, 9, the first number of two digits, the words on both sides of the
top bit and the last word, under `%x`, `%u` and `%d`, plain and with `#`, beside
`%c` of a byte and of a word, and `%s` of an empty string and of one that looks
like a conversion. `FormatRight` leaves out the conversions, except `%c`, of a
word that has its top bit set when it reaches `itoa` (`TopBit`).

Deadlock checking is off in `kernel_all` and in the kernel's violation run,
where a context whose frames are gone ("dead") really stops.

Fairness. `Kernel`: the timer interrupt is strongly fair, since the PIT is
periodic and the 8259 latches a request until it is let through; every program
that enters user mode is strongly fair per process (it gets on when it is
scheduled again and again); the rest of the interrupt handler, which nothing
stops, is weakly fair. Programs need not make any call. `LineDiscipline`: the
timer, the preempted keyboard handler and each reader are strongly fair for the
same reasons; no key need ever be pressed. `Rtc`: the same, with the clock's
interrupt, which is periodic too. `Blink`: the tasklet is weakly fair, because
the program reads the clock in a loop and such a read returns (`ReadReturns` of
`Rtc`). `Screen`, `Files` and `Lib` state no liveness.

## 4. Proofs

For every number of pids and terminals, and every value of the other constants:

* `KernelProofs` (any `Env`): `TypeOK`, and `RunningPrefix`, from which a free
  terminal is found by `new_terminal` whenever the displayed one has no shell.
  `TableInv` makes them inductive: that halt of a shell refills the slot it
  clears needs the prefix form. `ScheduleNotEmpty` is only a part of it: no code
  ever takes a terminal out of the schedule.
* `KernelCalmProofs` (`ASSUME Env = {}`): `FamilyTree`, `Reachable`,
  `Coherent`, `HaltReturnsToParent`. None is inductive alone.
  `CalmInv` adds where the CPU stands and on which stack (`CpuInv`), that each
  leaf that does not execute is parked on its own stack or, before it entered
  its program, on its parent's (`SavedInv`), that only the displayed terminal
  can wait for a shell (`DisplayInv`) and that the flag is down (`FlagInv`).
  There is one lemma per action, over lemmas about adding a root, adding a
  child and dropping a leaf of the forest, and about `Wipe` and `Resume`.
  `Attributed` needs in addition that a terminal without a shell still carries
  pid 0 (`UnusedZero`), the pid of the terminal that is found first. The
  recursive climb of `get_running_terminal` is shown to be well defined by the
  least counterexample, and to end by the pigeonhole principle: a longer climb
  would pass a process twice, against acyclicity.
  `ImplementsStacks`, the refinement of `TermStacks`: the lemma of each action
  also says what it does to the programs (`Moves`: nothing, interrupt, schedule,
  call, new shell, return). `StackInv` says that the chain of child links of a
  running terminal is a stack (`IsStack`: links down answered by links up, from
  a parentless shell to a leaf). A process has one place in one stack
  (`OnePlace`), hence a stack is no longer than the pid table (`StackShort`) and
  the bounded walk of the mapping computes it (`PathIs`); every process is in
  one (`EveryoneStacked`, from acyclicity). Each kind of move is then a step of
  `TermStacks` or none.
* `RtcProofs`: `TypeOK` for any `Env`, `NotEarly` for `Env = {}`, from the
  invariant that in the loop the count is at most the interrupts seen and a
  raised flag means that the period is over.

* `ScreenProofs`: `TypeOK` for any `Env`. It needs `Chain`: the processes of a
  terminal lead from its shell to its top, so that halt finds a parent in the
  same terminal. `Mapped` for `Env = {}`, from `MapInv`, which adds `Sched` (a
  terminal is shown for the first time when every lower one has its shell, so
  `new_terminal` finds the one on display) and `Maps` (an echo that remapped
  belongs to the running process; a waiting parent has `VIDEO` unmoved and no
  vidmap page; the terminal's flag is set while its top has one). Tops that do
  not run may be mapped to anything: the scheduler maps them again.
  `ImplementsScreens`, the refinement of `Screens`, for `Env = {}`. `RefInv` adds to
  `MapInv` that the VGA's cursor is the driver's, that every saved cursor is on
  the screen and that a remapped echo has the screen behind `VIDEO`. Each kind of
  output is first shown to do to one page and one position what `Screens` does to
  a page and a cell number (`Goes`), then each action to be a step of `Screens` or
  none. A row and a column become a cell number, so `NUM_COLS` has to be smaller
  than a 16-bit column can count (`SizeAssumption`).
* `FilesProofs`, for every image that satisfies `ImageAssumption`:
  `CopyRight`, the recursive function of `read_data` returns exactly the bytes
  of the file from the offset on, or fails where `Stumbles` says; from it `SequentialRead`, `CleanTable` and
  `ReadsAll` with the invariant `FileInv` (a position never passes the end of
  its file); `ListingComplete` with `DirInv` (while one process is alone with
  the directory nobody else is between the load and the store of the counter,
  and what that process loaded is still the counter); `TypeOK` from both. The
  induction over bytes and entries takes the least counterexample
  (`LeastElement`, from the well-foundedness of the numbers). `SyserrPasses` for
  any number of descriptors and on every image that has the names the program
  relies on (`NamesAssumption`): `SysInv` says that the standard descriptors are
  open and of the others exactly those that `err_open_lots` has opened and not
  yet closed (`Held`, an interval given by the place in the test), and counts the
  calls that have answered as expected. What the other process does is a step in
  another table (`Elsewhere`).
* `LineProofs`: `TypeOK` for any `Env`, with `Handling` (what the preempted
  handler knows of the character it carries). For `Env = {}`: `Contiguous`,
  `NoOverflow` and `ImplementsEditor`, from `LineInv`: the cells below the count
  and no others are filled, a newline is always the last character, a full
  buffer ends in one, and while the handler is busy the reader of its terminal
  waits for a newline that is not there yet. The refinement is proved step by
  step: each action of the keyboard, of `get_line_buf` and of the timer is a
  step of `LineEditor` or leaves its variables unchanged.
* `LibProofs`: `MemoryRight` for a memory of any size, of `MemSpec`, the calls
  of `Lib` that concern memory. `MemInv` has one clause per loop: what is
  written so far, what is left in the registers, and that the flag is clear
  wherever a string operation goes up. That no step overwrites a source byte
  before it is read is the point of its case for overlaps.
  `KeysRight`, of `KeysSpec`, for any set `Others`: `KeysInv` says that what the
  bytes on the wire still have to tell is all that the kernel does not know of
  the keys, and that its caps lock agrees with `Lit` when there are no such bytes
  (`LockRecorded`). There is a case for each thing the keyboard sends: one byte of a
  press or a release, prefixed pairs (which change nothing, and must be seen
  whole or half read), and Pause, whose bytes are those of control and num lock
  without a prefix, so that the two are down in `key_state` for a while.
  `CommandRight` and `NumbersRight`, of `StringsSpec`, for every alphabet, radix,
  word and buffer size. Each call returns at once, so no stronger invariant is
  needed, but the definitions have to be understood: a line is cut at three places (`Cut`; no name only
  if there are nothing but blanks), the buffer is a known function of them (`Buffer`), and reading it back gives
  name and rest. The digits, the swaps of `strrev` and the value of a numeral
  are recursive functions; that they exist is proved (`Recursion`,
  `DigitsExist`) by induction over a set of numbers instead of a predicate
  (`StrongInduction`), which the provers can instantiate. The digits are the
  remainders of a row of quotients that ends in 0 (`Quotients`), and reading
  the reversed digits from the left meets these quotients again, backwards.
* `BlinkProofs`, for any number of elements and places, any width of a word and
  any requests: `NoLeak` and `ImplementsList`. `BlinkInv` says that the walk from
  the head is a list (`IsList`: no element twice, each the `next` of the one before, the last
  without one) and that its members are the elements whose location is not 0.
  The walk is a recursive function, shown to be well defined by the least
  counterexample, to be determined by its links, and to end because a list
  without repetitions is no longer than the pool. `mp1_find_helper` then finds
  the element of a place if and only if the list has one; add appends at the
  front, `Unlink` removes head, middle or tail, and the tasklet changes every
  element as `BlinkList` changes its items.

The assumptions are the named `ASSUME`s of the modules (positive counts and
sizes, distinct characters, default frequency at most the real one, the code of
newline below the size of the line buffer, as 10 and 128 are, the image, command
lines that leave two bytes of their buffer free) and,
where stated, `Env = {}`, which the situations of section 2 explain: each of
them breaks a property that is proved without it.

Only model-checked: liveness (`NoStarvation`, `ShellArrives`, `LineArrives`,
`KeyboardReleased`, `ReadReturns`, `Blinks`: the provers do not handle fairness
and `ENABLED`); `GrepRight` and `FramesRight`, whose loops are recursive
operators, which the proof system does not accept; and `FormatRight`: `printf` is
a recursive function of three arguments, applied outside its domain by a format
with too few arguments, and what it should print is stated with powers, of which
the provers know nothing (`WordAssumption` is the one fact the other proofs need).

## 5. Disagreements between code and comments

Two have a violation run and an entry under `findings`: halt marks
`current_terminal` rather than the terminal of the exiting shell
(`syscall.c:117`); a new process is mapped to the visible screen whatever its
terminal (`paging.c:83`).

Others are found by the same models when the named situation is put into `Env`:

| Where | Situation, property | What happens |
|---|---|---|
| `syscall_asm.S:29` | `Kernel`, `ustack`, `Reachable` | a shell that the timer started has its user stack on the kernel stack of the program it interrupted, and both use it once that program is resumed |
| `syscall.c:121` | `Kernel`, `rootexit`, `Reachable` | halt of a shell calls execute on the stack the shell was once started from, which by then is in use by another process |
| `syscall.c:244` | `Kernel`, `badimage`, `Coherent` | an execute that fails after it took a pid leaves pid, `running_pid` and page directory as they are; the caller goes on under the wrong identity |
| `pit.c:114` | `Kernel`, `tick`, `Reachable` | the EOI comes before the stack switch; a tick in between overwrites the next process's saved stack |
| `syscall.c:131` | `Kernel`, `bgfault`, `KillReported` | the exception flag is global and its handler can be preempted; another halt takes it, and the program that was killed reports 1 (the property is in `KernelProperties` and, since without the situation there is nothing to show, in no configuration) |
| `keyboard.c:192` | `LineDiscipline`, `typeahead`, `NoOverflow` | a newline behind a full line is stored past the buffer |
| `rtc.c:81` | `Rtc`, `race`, `NotEarly` | an interrupt between the resets of `rtc_read` ends the read at once |
| `syscall.c:143` | `Screen`, `vidchild`, `Mapped` | halt clears the terminal's vidmap flag; the parent's page is no longer moved with the display |
| `lib.c:154` | `Screen`, `corner`, `ImplementsScreens` | the test says "and" where that of `set_screen_xy` says "or": the column becomes 65535 |
| `lib.c:444` | `Screen`, `echotick`, `Mapped` | a tick within the remapped echo leaves the mapping to the wrong process |
| `terminal_driver.c:248` | `Screen`, `skip`, `Mapped` | showing terminal 2 before terminal 1 starts the shell in terminal 1 |
| `pit.c:127` | `Screen`, `full`, `Mapped` | no pid for the shell: the interrupted program goes on with the mapping of the terminal left |

Three more are part of the models, and the properties state what the code does:
the repetition of the press that clears caps lock sets it again
(`keyboard.c:144`), although the comment at `keyboard.c:138` speaks of a change
only when the key is not being held (`Lit` in `KeysRight`); a read that reaches the end of a file
that fills its last block fails if the slot behind that block, which nobody needs,
holds no valid number (`fs.c:255`, `Stumbles` in `ReadsAll`); and a number with its
top bit set makes the kernel's `itoa` read outside its table (`lib.c:530`, known to
the comment at `lib.c:207`), `%d` of the most negative word included (`TopBit` in
`FormatRight`). `memset_word` counts words where its comment counts bytes
(`lib.c:632`); model and property count words.

Seen while modelling, outside every model: a read that is cut off stores its
newline one byte behind the count it returns (`keyboard.c:74`); a key between the
two halves of `clear_line_buf` is lost behind a gap;
F12 is never recorded as down (`keyboard.c:134`); a format that ends within a conversion
is read past its end (`lib.c:307`; `Garbage` in `Strings`, and no format of the run); a
command of `ARGS_SIZE` characters or more overflows `cmd` (`syscall.c:195`),
behind a name of `ARGS_SIZE` - 1 characters `argv[1]` would point outside
`raw_argv` (`syscall.c:279`; no file has such a name),
arguments keep their trailing blanks and `getargs` cuts them without a NUL; the
end of a read is compared with the number of directory entries where the comment
speaks of the data (`fs.c:229`); listing a directory goes on to `inode_cnt`; a
command of blanks matches an unused directory entry; `grep` looks at the byte
behind what it read, uninitialised at first (`ece391grep.c:31`), and splits lines
of `BUFSIZE` or more; `mp1_ioctl_sync` always shows the off character, because `testb`
never sets the condition its `cmovl` needs (`blink.S:282`);
`add_frames` does not tell an error of read from data.

## 6. Not modelled

`Kernel`: the ELF test of execute (calls that fail there change nothing), a tick
between the EOI and the `cli` of the `execute` that `irqh_pit` calls. `Screen`:
attributes of characters; the kernel's own printing at boot; what belongs to the
situations `startup` and `rootexit` of `Kernel` (section 2). `Files`:
`set_handler` and `sigreturn`, which the code does not implement and which stop
the machine; a descriptor is not shared between processes in this code, so each
process is alone but for the directory counter. `Rtc`: hardware set-up. `Strings`: `strncpy`,
which the kernel does not call. Boot (`kernel.c`, `boot.S`, `x86_desc.*`) is
straight-line and gives the initial states; `keycodes.h` is a list of numbers;
in-kernel tests and debug macros are not part of the system. Of the user programs, shell, cat, ls, counter,
pingpong and hello are loops around system calls that the models above let any
program make; of `grep` only `do_one_file` is modelled;
`ece391emulate.c` replaces the kernel on another system.
