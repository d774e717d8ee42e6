----------------------------- MODULE LineProofs -----------------------------
(***************************************************************************)
(* Proofs about the keyboard interrupt and the read of a terminal, for     *)
(* every number of terminals, size of the buffer, alphabet and size of a   *)
(* request.                                                                *)
(***************************************************************************)
EXTENDS LineProperties, FiniteSetTheorems, SequenceTheorems, TLAPS

(* The handler still has to store its character or to count it. *)
Busy == kbd.at \in {"echoed", "stored", "loaded"}

(* What the handler knows of the character it is about to store: there is  *)
(* a place for it, or it is the newline, whose code would even do as an    *)
(* index.                                                                  *)
Handling ==
    Busy =>
      /\ kbd.term \in Terms
      /\ kbd.at = "echoed" =>
           /\ kbd.char \in Letters \cup {Newline}
           /\ kbd.char = Newline \/ line_buf_index[kbd.term] < LINE_BUFFER_SIZE - 1
      /\ kbd.at = "stored" => line_buf_index[kbd.term] < LINE_BUFFER_SIZE
      /\ kbd.at = "loaded" => kbd.char \in Cells

(* The inductive invariant of the types, whatever the environment does. *)
TypeInv == TypeOK /\ Handling

(* The character of terminal t that is stored and not counted yet. *)
Pending(t) == kbd.at \in {"stored", "loaded"} /\ kbd.term = t

Count(t) == line_buf_index[t] + IF Pending(t) THEN 1 ELSE 0

(* A buffer with n characters, the flag of its terminal and its reader. *)
LineRight(buf, n, flag, r) ==
    /\ flag = 1 <=> r.at # "user"
    /\ IF r.at = "zeroed" THEN \A i \in Cells : buf[i] = 0
                          ELSE \A i \in Cells : buf[i] # 0 <=> i < n
    /\ \A i \in Cells : buf[i] = Newline => n = i + 1
    /\ n = LINE_BUFFER_SIZE /\ r.at # "zeroed" => buf[LINE_BUFFER_SIZE - 1] = Newline
    /\ r.at \in {"user", "cleared"} => n = 0
    /\ r.at \in {"wait", "found", "copied"} => r.nbytes \in Sizes
    /\ r.at = "found" => buf[r.nl_idx] = Newline
    /\ r.at = "copied" => r.lenstr # 0 /\ \E i \in Cells : buf[i] = Newline

(* While the handler is busy, the reader of its terminal waits for the     *)
(* newline that is not there yet; once the handler has stored, it keeps    *)
(* the CPU until the index is right again.                                 *)
Quiet ==
    Busy =>
      /\ reader[kbd.term].at = "wait"
      /\ kbd.on \in Terms /\ kbd.on # kbd.term
      /\ kbd.at = "echoed" => ~HasNewline(kbd.term)
      /\ kbd.at # "echoed" => current_schedule = kbd.on
      /\ kbd.at = "loaded" => kbd.char = line_buf_index[kbd.term]

(* The inductive invariant of the line, in the calm environment. *)
LineInv ==
    /\ TypeInv
    /\ \A t \in Terms : LineRight(line_buf[t], Count(t), read_flag[t], reader[t])
    /\ Quiet

-----------------------------------------------------------------------------
(* Types *)

LEMMA Constants ==
  /\ TERMINAL_NUM \in Nat /\ TERMINAL_NUM > 0 /\ 0 \in Terms /\ None \notin Terms
  /\ LINE_BUFFER_SIZE \in Nat /\ LINE_BUFFER_SIZE > 1
  /\ Newline \in Nat /\ 0 < Newline /\ Newline < LINE_BUFFER_SIZE
  /\ Letters \subseteq Nat /\ 0 \notin Letters /\ Newline \notin Letters
  /\ Sizes \subseteq Nat /\ 0 \notin Sizes
  BY TermAssumption, BufferAssumption, CharAssumption, SizesAssumption DEF Terms, None

LEMMA NextTerm ==
  ASSUME NEW s \in Terms
  PROVE  (s + 1) % TERMINAL_NUM \in Terms
  BY Constants DEF Terms

LEMMA TypeInvInit == Init => TypeInv
  BY Constants DEF Init, TypeInv, TypeOK, Handling, Busy, Idle, NoRead, Terms, Cells, Index,
                   Chars, Places, Handler, Reader, None

(* The places of the handler that a key can leave behind. *)
LEMMA EchoedType ==
  ASSUME TypeInv, NEW t \in Terms, NEW c \in Chars, NEW place \in {"echoed", "done"}
  PROVE  /\ Echoed(t, place, c) \in Handler
         /\ current_schedule = t => Echoed(t, place, c) = Idle
         /\ current_schedule # t =>
              /\ Echoed(t, place, c).at = place /\ Echoed(t, place, c).on = current_schedule
              /\ Echoed(t, place, c).term = t /\ Echoed(t, place, c).char = c
  <1>1. current_schedule \in Terms
    BY DEF TypeInv, TypeOK
  <1>2. 0 \in Chars
    BY DEF Chars
  <1>3. QED
    BY <1>1, <1>2 DEF Echoed, Idle, Handler

LEMMA BackspaceType ==
  ASSUME TypeInv, NEW t \in Terms, line_buf_index[t] > 0, Backspace(t)
  PROVE  /\ line_buf' \in [Terms -> [Cells -> Chars]]
         /\ line_buf_index' \in [Terms -> Index]
         /\ kbd' \in Handler /\ ~(kbd'.at \in {"echoed", "stored", "loaded"})
  <1>1. line_buf \in [Terms -> [Cells -> Chars]] /\ line_buf_index \in [Terms -> Index]
    BY DEF TypeInv, TypeOK
  <1>2. 0 \in Chars
    BY DEF Chars
  <1>3. kbd' = Echoed(t, "done", 0)
    BY DEF Backspace
  <1>4. kbd' \in Handler /\ ~(kbd'.at \in {"echoed", "stored", "loaded"})
    BY <1>2, <1>3, EchoedType DEF Idle
  <1>5. line_buf_index' \in [Terms -> Index]
    <2>1. line_buf_index[t] - 1 \in Index
      <3>1. line_buf_index[t] \in Index
        BY <1>1
      <3>2. QED
        BY <3>1, Constants DEF Index
    <2>2. QED
      BY <1>1, <2>1 DEF Backspace
  <1>6. PICK i : i = line_buf_index[t] - 1
    OBVIOUS
  <1>7. line_buf' = [line_buf EXCEPT ![t] = [j \in Cells |->
                       IF j = i THEN 0 ELSE line_buf[t][j]]]
    BY <1>6 DEF Backspace
  <1>8. [j \in Cells |-> IF j = i THEN 0 ELSE line_buf[t][j]] \in [Cells -> Chars]
    BY <1>1, <1>2
  <1>9. QED
    BY <1>1, <1>4, <1>5, <1>7, <1>8

LEMMA CharacterType ==
  ASSUME TypeInv, NEW t \in Terms, NEW c \in Letters \cup {Newline}, Character(t, c)
  PROVE  /\ line_buf' \in [Terms -> [Cells -> Chars]]
         /\ line_buf_index' \in [Terms -> Index]
         /\ kbd' \in Handler /\ Handling'
  <1>1. line_buf \in [Terms -> [Cells -> Chars]] /\ line_buf_index \in [Terms -> Index]
    BY DEF TypeInv, TypeOK
  <1>2. c \in Chars /\ c \in Nat
    BY Constants DEF Chars
  <1>3. kbd' = Echoed(t, "echoed", c) /\ Accepts(t, c)
    BY DEF Character
  <1>4. CASE current_schedule = t
    <2>1. kbd' = Idle /\ kbd' \in Handler
      BY <1>2, <1>3, <1>4, EchoedType
    <2>2. StoreAndBump(t, line_buf_index[t], c)
      BY <1>4 DEF Character
    <2>3. CASE line_buf_index[t] \in Cells
      <3>1. line_buf_index[t] + 1 \in Index
        BY <2>3, Constants DEF Cells, Index
      <3>2. /\ line_buf' = [line_buf EXCEPT ![t][line_buf_index[t]] = c]
            /\ line_buf_index' = [line_buf_index EXCEPT ![t] = line_buf_index[t] + 1]
        BY <2>2, <2>3 DEF StoreAndBump
      <3>3. QED
        BY <1>1, <1>2, <2>1, <2>3, <3>1, <3>2 DEF Handling, Busy, Idle
    <2>4. CASE line_buf_index[t] \notin Cells
      <3>1. c = Newline
        BY <1>1, <1>3, <2>4, Constants DEF Accepts, Cells, Index
      <3>2. c + 1 \in Index
        BY <3>1, Constants DEF Index
      <3>3. QED
        BY <1>1, <2>1, <2>2, <2>4, <3>2 DEF StoreAndBump, Handling, Busy, Idle
    <2>5. QED
      BY <2>3, <2>4
  <1>5. CASE current_schedule # t
    <2>1. UNCHANGED <<line_buf, line_buf_index>>
      BY <1>5 DEF Character
    <2>2. kbd' \in Handler /\ kbd'.at = "echoed" /\ kbd'.term = t /\ kbd'.char = c
      BY <1>2, <1>3, <1>5, EchoedType
    <2>3. QED
      BY <1>1, <1>3, <2>1, <2>2 DEF Handling, Busy, Accepts
  <1>6. QED
    BY <1>4, <1>5

LEMMA EditType ==
  ASSUME TypeInv, kbd.at = "idle", NEW t \in Terms, NEW c \in Chars, NEW down,
         Edit(t, c, down)
  PROVE  /\ line_buf' \in [Terms -> [Cells -> Chars]]
         /\ line_buf_index' \in [Terms -> Index]
         /\ kbd' \in Handler /\ Handling'
  <1>1. CASE read_flag[t] = 1 /\ "bksp" \in down /\ line_buf_index[t] > 0
    <2>1. Backspace(t)
      BY <1>1 DEF Edit
    <2>2. QED
      BY <1>1, <2>1, BackspaceType DEF Handling, Busy
  <1>2. CASE /\ ~(read_flag[t] = 1 /\ "bksp" \in down /\ line_buf_index[t] > 0)
             /\ read_flag[t] = 1 /\ "bksp" \notin down /\ c # 0 /\ Accepts(t, c)
    <2>1. Character(t, c) /\ c \in Letters \cup {Newline}
      BY <1>2 DEF Edit, Chars
    <2>2. QED
      BY <2>1, CharacterType
  <1>3. CASE /\ ~(read_flag[t] = 1 /\ "bksp" \in down /\ line_buf_index[t] > 0)
             /\ ~(read_flag[t] = 1 /\ "bksp" \notin down /\ c # 0 /\ Accepts(t, c))
    <2>1. UNCHANGED <<line_buf, line_buf_index, kbd>>
      BY <1>3 DEF Edit
    <2>2. QED
      BY <2>1 DEF TypeInv, TypeOK, Handling, Busy
  <1>4. QED
    BY <1>1, <1>2, <1>3

LEMMA KeyTypes ==
  ASSUME TypeInv, Keyboard
  PROVE  TypeInv'
  <1>1. CASE Prefix
    BY <1>1 DEF Prefix, TypeInv, TypeOK, Handling, Busy, buffers, display
  <1>2. ASSUME NEW k \in Modifiers, PressModifier(k)
        PROVE  TypeInv'
    <2>1. /\ line_buf' \in [Terms -> [Cells -> Chars]]
          /\ line_buf_index' \in [Terms -> Index]
          /\ kbd' \in Handler /\ Handling'
      <3>1. 0 \in Chars /\ current_terminal \in Terms
        BY DEF Chars, TypeInv, TypeOK
      <3>2. kbd.at = "idle" /\ Edit(current_terminal, 0, Down(k))
        BY <1>2 DEF PressModifier, KeyIrq
      <3>3. QED
        BY <3>1, <3>2, EditType
    <2>2. held' \in SUBSET Modifiers
      BY <1>2 DEF PressModifier, Down, TypeInv, TypeOK
    <2>3. QED
      BY <1>2, <2>1, <2>2 DEF PressModifier, TypeInv, TypeOK, display
  <1>3. ASSUME NEW k \in Modifiers, Release(k)
        PROVE  TypeInv'
    BY <1>3 DEF Release, TypeInv, TypeOK, Handling, Busy, buffers, display
  <1>4. ASSUME NEW k \in Modifiers \cup {"char"}, PressSwitch(k)
        PROVE  TypeInv'
    BY <1>4 DEF PressSwitch, Down, TypeInv, TypeOK, Handling, Busy, buffers
  <1>5. ASSUME NEW c \in Letters \cup {Newline}, PressCharacter(c)
        PROVE  TypeInv'
    <2>1. current_terminal \in Terms /\ kbd.at = "idle" /\ c \in Chars /\ 0 \in Chars
      BY <1>5 DEF PressCharacter, KeyIrq, TypeInv, TypeOK, Chars
    <2>2. /\ line_buf' \in [Terms -> [Cells -> Chars]]
          /\ line_buf_index' \in [Terms -> Index]
          /\ kbd' \in Handler /\ Handling'
      <3>1. CASE Edit(current_terminal, c, held)
        BY <2>1, <3>1, EditType
      <3>2. CASE /\ kbd' = Echoed(current_terminal, "done", 0)
                 /\ UNCHANGED <<line_buf, line_buf_index>>
        <4>1. kbd' \in Handler /\ (kbd' = Idle \/ kbd'.at = "done")
          BY <2>1, <3>2, EchoedType
        <4>2. QED
          BY <3>2, <4>1 DEF TypeInv, TypeOK, Handling, Busy, Idle
      <3>3. QED
        BY <1>5, <3>1, <3>2 DEF PressCharacter
    <2>3. QED
      BY <1>5, <2>2 DEF PressCharacter, TypeInv, TypeOK, display, keys
  <1>6. QED
    BY <1>1, <1>2, <1>3, <1>4, <1>5 DEF Keyboard

LEMMA HandlerTypes ==
  ASSUME TypeInv, KbdStore \/ KbdLoad \/ KbdBump \/ KbdEoi
  PROVE  TypeInv'
  <1> DEFINE t == kbd.term
  <1>0. /\ line_buf \in [Terms -> [Cells -> Chars]] /\ line_buf_index \in [Terms -> Index]
        /\ kbd \in Handler /\ Handling
    BY DEF TypeInv, TypeOK
  <1>1. CASE KbdStore
    <2>1. t \in Terms /\ kbd.char \in Letters \cup {Newline} /\ kbd.at = "echoed"
      BY <1>0, <1>1 DEF KbdStore, Handling, Busy
    <2>2. kbd.char \in Chars /\ Letters \cup {Newline} \subseteq Nat
      BY <2>1, Constants DEF Chars
    <2>3. /\ kbd' \in Handler /\ kbd'.at = "stored" /\ kbd'.term = t
      BY <1>0, <1>1, <2>1 DEF KbdStore, Handler
    <2>4. Store(t, line_buf_index[t], kbd.char)
      BY <1>1 DEF KbdStore
    <2>5. /\ line_buf' \in [Terms -> [Cells -> Chars]]
          /\ line_buf_index' \in [Terms -> Index]
          /\ line_buf_index'[t] < LINE_BUFFER_SIZE
      <3>1. CASE line_buf_index[t] \in Cells
        <4>1. /\ line_buf' = [line_buf EXCEPT ![t][line_buf_index[t]] = kbd.char]
              /\ line_buf_index' = line_buf_index
          BY <2>4, <3>1 DEF Store
        <4>2. line_buf_index[t] < LINE_BUFFER_SIZE
          BY <3>1, Constants DEF Cells
        <4>3. QED
          BY <1>0, <2>1, <2>2, <3>1, <4>1, <4>2
      <3>2. CASE line_buf_index[t] \notin Cells
        <4>1. /\ line_buf_index' = [line_buf_index EXCEPT ![t] = kbd.char]
              /\ line_buf' = line_buf
          BY <2>4, <3>2 DEF Store
        <4>2. line_buf_index[t] \in Index
          BY <1>0, <2>1
        <4>3. ~(line_buf_index[t] < LINE_BUFFER_SIZE - 1)
          BY <3>2, <4>2, Constants DEF Cells, Index
        <4>4. kbd.char = Newline
          BY <1>0, <2>1, <4>3 DEF Handling, Busy
        <4>5. kbd.char \in Index /\ kbd.char < LINE_BUFFER_SIZE
          BY <4>4, Constants DEF Index
        <4>6. QED
          BY <1>0, <2>1, <4>1, <4>5
      <3>3. QED
        BY <3>1, <3>2
    <2>6. Handling'
      BY <2>1, <2>3, <2>5 DEF Handling, Busy
    <2>7. QED
      BY <1>1, <2>3, <2>5, <2>6 DEF KbdStore, TypeInv, TypeOK, display, keys
  <1>2. CASE KbdLoad
    <2>1. t \in Terms /\ kbd.at = "stored" /\ line_buf_index[t] < LINE_BUFFER_SIZE
      BY <1>0, <1>2 DEF KbdLoad, Handling, Busy
    <2>2. line_buf_index[t] \in Index
      BY <1>0, <2>1
    <2>3. line_buf_index[t] \in Cells
      BY <2>1, <2>2, Constants DEF Index, Cells
    <2>4. kbd' \in Handler /\ kbd'.at = "loaded" /\ kbd'.term = t /\ kbd'.char = line_buf_index[t]
      BY <1>0, <1>2, <2>2 DEF KbdLoad, Handler
    <2>5. Handling'
      BY <2>1, <2>3, <2>4 DEF Handling, Busy
    <2>6. QED
      BY <1>2, <2>4, <2>5 DEF KbdLoad, TypeInv, TypeOK, buffers, display, keys
  <1>3. CASE KbdBump
    <2>1. t \in Terms /\ kbd.char \in Cells /\ kbd.at = "loaded"
      BY <1>0, <1>3 DEF KbdBump, Handling, Busy
    <2>2. kbd.char + 1 \in Index
      BY <2>1, Constants DEF Cells, Index
    <2>3. kbd' \in Handler /\ kbd'.at = "done"
      BY <1>0, <1>3 DEF KbdBump, Handler
    <2>4. line_buf_index' \in [Terms -> Index]
      BY <1>0, <1>3, <2>1, <2>2 DEF KbdBump
    <2>5. Handling'
      BY <2>3 DEF Handling, Busy
    <2>6. QED
      BY <1>3, <2>3, <2>4, <2>5 DEF KbdBump, TypeInv, TypeOK, display, keys
  <1>4. CASE KbdEoi
    <2>1. Idle \in Handler /\ Idle.at = "idle"
      BY DEF Idle, Handler, Chars
    <2>2. QED
      BY <1>4, <2>1 DEF KbdEoi, TypeInv, TypeOK, Handling, Busy, buffers, display, keys
  <1>5. QED
    BY <1>1, <1>2, <1>3, <1>4

(* The copy keeps to the two buffers, whatever size was asked for. *)
LEMMA CopyType ==
  ASSUME TypeInv, NEW t \in Terms, CopyLine(t)
  PROVE  reader' \in [Terms -> Reader]
  <1>1. reader \in [Terms -> Reader] /\ line_buf[t] \in [Cells -> Chars]
    BY DEF TypeInv, TypeOK
  <1>2. PICK r \in Reader : r = reader[t]
    BY <1>1
  <1>3. PICK limit \in Nat : limit = MIN(r.nl_idx + 1, r.nbytes) /\ limit <= LINE_BUFFER_SIZE
    <2>1. /\ r.nl_idx \in Nat /\ r.nl_idx + 1 <= LINE_BUFFER_SIZE
          /\ r.nbytes \in Nat
      <3>1. r.nl_idx \in Cells /\ r.nbytes \in Sizes \cup {0}
        BY DEF Reader
      <3>2. r.nl_idx \in Nat /\ r.nl_idx + 1 <= LINE_BUFFER_SIZE
        BY <3>1, BufferAssumption DEF Cells
      <3>3. r.nbytes \in Nat
        <4>1. \A n \in Sizes \cup {0} : n \in Nat
          BY SizesAssumption
        <4>2. QED
          BY <3>1, <4>1
      <3>4. QED
        BY <3>2, <3>3
    <2>2. PICK a \in Nat, b \in Nat : a = r.nl_idx + 1 /\ b = r.nbytes /\ a <= LINE_BUFFER_SIZE
      BY <2>1
    <2>3. MIN(a, b) \in Nat /\ MIN(a, b) <= LINE_BUFFER_SIZE
      BY <2>2, Constants DEF MIN
    <2>4. QED
      BY <2>2, <2>3
  <1>4. PICK f : f = [i \in 0 .. LINE_BUFFER_SIZE |->
                        IF i = MIN(r.nbytes, LINE_BUFFER_SIZE) THEN Newline
                        ELSE IF i < limit THEN line_buf[t][i]
                        ELSE r.buf[i]]
    OBVIOUS
  <1>5. f \in [Index -> Chars]
    <2>1. \A i \in Index : i < limit => i \in Cells
      BY <1>3, Constants DEF Index, Cells
    <2>2. Newline \in Chars /\ r.buf \in [Index -> Chars]
      BY <1>2 DEF Chars, Reader
    <2>3. \A i \in Index : i < limit => line_buf[t][i] \in Chars
      BY <1>1, <2>1
    <2>4. QED
      BY <1>4, <2>2, <2>3 DEF Index
  <1>6. reader' = [reader EXCEPT ![t] =
                     [r EXCEPT !.at = "copied", !.lenstr = limit, !.buf = f]]
    BY <1>1, <1>2, <1>3, <1>4 DEF CopyLine
  <1>7. [r EXCEPT !.at = "copied", !.lenstr = limit, !.buf = f] \in Reader
    BY <1>2, <1>3, <1>5 DEF Reader, Places
  <1>8. QED
    BY <1>1, <1>6, <1>7

LEMMA ReaderTypes ==
  ASSUME TypeInv, NEW t \in Terms, GetLineBuf(t) \/ \E n \in Sizes : StartRead(t, n)
  PROVE  TypeInv'
  <1>0. /\ reader \in [Terms -> Reader] /\ reader[t] \in Reader
        /\ line_buf \in [Terms -> [Cells -> Chars]] /\ line_buf_index \in [Terms -> Index]
        /\ read_flag \in [Terms -> {0, 1}] /\ Handling
    BY DEF TypeInv, TypeOK
  <1>1. ASSUME NEW n \in Sizes, StartRead(t, n)
        PROVE  TypeInv'
    <2>1. [NoRead EXCEPT !.at = "wait", !.nbytes = n] \in Reader
      <3>1. 0 \in Cells /\ 0 \in Chars
        BY Constants DEF Cells, Chars
      <3>2. [i \in 0 .. LINE_BUFFER_SIZE |-> 0] \in [Index -> Chars]
        BY <3>1 DEF Index
      <3>3. QED
        BY <3>1, <3>2 DEF NoRead, Reader, Places
    <2>2. reader' \in [Terms -> Reader] /\ read_flag' \in [Terms -> {0, 1}]
      BY <1>0, <1>1, <2>1 DEF StartRead
    <2>3. QED
      BY <1>0, <1>1, <2>2 DEF StartRead, TypeInv, TypeOK, Handling, Busy, display, keys
  <1>2. CASE FindNewline(t)
    <2>1. PICK i \in Cells : reader' = [reader EXCEPT ![t].at = "found", ![t].nl_idx = i]
      BY <1>2 DEF FindNewline
    <2>2. reader' \in [Terms -> Reader]
      BY <1>0, <2>1 DEF Reader, Places
    <2>3. QED
      BY <1>0, <1>2, <2>2 DEF FindNewline, TypeInv, TypeOK, Handling, Busy, buffers, display, keys
  <1>3. CASE CopyLine(t)
    <2>1. reader' \in [Terms -> Reader]
      BY <1>3, CopyType
    <2>2. QED
      BY <1>0, <1>3, <2>1 DEF CopyLine, TypeInv, TypeOK, Handling, Busy, buffers, display, keys
  <1>4. CASE ClearCells(t)
    <2>1. line_buf' \in [Terms -> [Cells -> Chars]]
      BY <1>0, <1>4 DEF ClearCells, Chars
    <2>2. reader' \in [Terms -> Reader]
      BY <1>0, <1>4 DEF ClearCells, Reader, Places
    <2>3. QED
      BY <1>0, <1>4, <2>1, <2>2 DEF ClearCells, TypeInv, TypeOK, Handling, Busy, display, keys
  <1>5. CASE ClearIndex(t)
    <2>1. line_buf_index' \in [Terms -> Index]
      BY <1>0, <1>5, Constants DEF ClearIndex, Index
    <2>2. reader' \in [Terms -> Reader]
      BY <1>0, <1>5 DEF ClearIndex, Reader, Places
    <2>3. kbd' = kbd /\ \A u \in Terms : line_buf_index'[u] = IF u = t THEN 0 ELSE line_buf_index[u]
      BY <1>0, <1>5 DEF ClearIndex
    <2>4. Handling'
      <3>1. 0 < LINE_BUFFER_SIZE - 1 /\ 0 < LINE_BUFFER_SIZE
        BY Constants
      <3>2. \A u \in Terms : line_buf_index'[u] = 0 \/ line_buf_index'[u] = line_buf_index[u]
        BY <2>3
      <3>3. QED
        BY <1>0, <2>3, <3>1, <3>2 DEF Handling, Busy
    <2>5. QED
      BY <1>5, <2>1, <2>2, <2>4 DEF ClearIndex, TypeInv, TypeOK, display, keys
  <1>6. CASE EndRead(t)
    <2>1. read_flag' \in [Terms -> {0, 1}]
      BY <1>0, <1>6 DEF EndRead
    <2>2. reader' \in [Terms -> Reader]
      BY <1>0, <1>6 DEF EndRead, Reader, Places
    <2>3. QED
      BY <1>0, <1>6, <2>1, <2>2 DEF EndRead, TypeInv, TypeOK, Handling, Busy, display, keys
  <1>7. QED
    BY <1>1, <1>2, <1>3, <1>4, <1>5, <1>6 DEF GetLineBuf

LEMMA TickTypes ==
  ASSUME TypeInv, Tick
  PROVE  TypeInv'
  <1>1. current_schedule' \in Terms
    BY NextTerm DEF Tick, TypeInv, TypeOK
  <1>2. current_terminal' \in Terms
    BY DEF Tick, TypeInv, TypeOK
  <1>3. QED
    BY <1>1, <1>2 DEF Tick, TypeInv, TypeOK, Handling, Busy, buffers, keys

LEMMA TypeInvStep == TypeInv /\ [Next]_vars => TypeInv'
  <1> SUFFICES ASSUME TypeInv, [Next]_vars
               PROVE  TypeInv'
    OBVIOUS
  <1>1. CASE UNCHANGED vars
    BY <1>1 DEF vars, TypeInv, TypeOK, Handling, Busy, buffers, display, keys
  <1>2. CASE Next
    BY <1>2, KeyTypes, HandlerTypes, ReaderTypes, TickTypes DEF Next
  <1>3. QED
    BY <1>1, <1>2

(* In every environment, also when keys are typed ahead and ticks hit the  *)
(* handler between its store and its increment: the index stays within the *)
(* buffer or one past it, and the reader within its own.                   *)
THEOREM LineTyped == Spec => []TypeOK
  <1>1. TypeInv => TypeOK
    BY DEF TypeInv
  <1>2. QED
    BY <1>1, TypeInvInit, TypeInvStep, PTL DEF Spec

-----------------------------------------------------------------------------
(* One line *)

(* A character goes to the end of a line without a newline. *)
LEMMA TypeOne ==
  ASSUME NEW buf \in [Cells -> Chars], NEW n \in Index, NEW flag, NEW r,
         LineRight(buf, n, flag, r), r.at = "wait",
         \A i \in Cells : buf[i] # Newline,
         NEW c \in Letters \cup {Newline}, c = Newline \/ n < LINE_BUFFER_SIZE - 1
  PROVE  /\ n \in Cells
         /\ LineRight([buf EXCEPT ![n] = c], n + 1, flag, r)
  <1>1. LINE_BUFFER_SIZE - 1 \in Cells
    BY Constants DEF Cells
  <1>2. n # LINE_BUFFER_SIZE
    BY <1>1 DEF LineRight
  <1>3. n \in Cells
    BY <1>2, Constants DEF Cells, Index
  <1>4. c # 0
    BY Constants
  <1>5. PICK new : new = [buf EXCEPT ![n] = c]
    OBVIOUS
  <1>6. \A i \in Cells : new[i] = IF i = n THEN c ELSE buf[i]
    BY <1>5
  <1>7. \A i \in Cells : buf[i] # 0 <=> i < n
    BY DEF LineRight
  <1>8. \A i \in Cells : new[i] # 0 <=> i < n + 1
    <2>1. \A i \in Cells : i < n + 1 <=> i = n \/ i < n
      BY <1>3, Constants DEF Cells
    <2>2. QED
      BY <1>4, <1>6, <1>7, <2>1
  <1>9. \A i \in Cells : new[i] = Newline => n + 1 = i + 1
    BY <1>6
  <1>10. n + 1 = LINE_BUFFER_SIZE => new[LINE_BUFFER_SIZE - 1] = Newline
    <2>1. n + 1 = LINE_BUFFER_SIZE => n = LINE_BUFFER_SIZE - 1 /\ ~(n < LINE_BUFFER_SIZE - 1)
      BY <1>3, Constants DEF Cells
    <2>2. QED
      BY <1>3, <1>6, <2>1
  <1>11. LineRight(new, n + 1, flag, r)
    BY <1>8, <1>9, <1>10 DEF LineRight
  <1>12. QED
    BY <1>3, <1>5, <1>11

(* Backspace takes the last character of such a line. *)
LEMMA EraseOne ==
  ASSUME NEW buf \in [Cells -> Chars], NEW n \in Index, NEW flag, NEW r,
         LineRight(buf, n, flag, r), r.at = "wait",
         \A i \in Cells : buf[i] # Newline, n > 0
  PROVE  LineRight([j \in Cells |-> IF j = n - 1 THEN 0 ELSE buf[j]], n - 1, flag, r)
  <1>1. LINE_BUFFER_SIZE - 1 \in Cells
    BY Constants DEF Cells
  <1>2. n # LINE_BUFFER_SIZE
    BY <1>1 DEF LineRight
  <1>3. PICK m \in Cells : m = n - 1 /\ m < LINE_BUFFER_SIZE - 1 /\ n = m + 1
    BY <1>2, Constants DEF Cells, Index
  <1>5. PICK new : new = [j \in Cells |-> IF j = m THEN 0 ELSE buf[j]]
    OBVIOUS
  <1>7. \A i \in Cells : buf[i] # 0 <=> i < n
    BY DEF LineRight
  <1>8. \A i \in Cells : new[i] # 0 <=> i < m
    <2>1. \A i \in Cells : i < n <=> i = m \/ i < m
      BY <1>3, Constants DEF Cells
    <2>2. \A i \in Cells : i = m => ~(i < m)
      BY Constants DEF Cells
    <2>3. QED
      BY <1>5, <1>7, <2>1, <2>2
  <1>9. \A i \in Cells : new[i] # Newline
    BY <1>5, Constants
  <1>10. m # LINE_BUFFER_SIZE
    BY <1>3, Constants DEF Cells
  <1>11. LineRight(new, m, flag, r)
    BY <1>8, <1>9, <1>10 DEF LineRight
  <1>12. QED
    BY <1>3, <1>5, <1>11

-----------------------------------------------------------------------------
(* Steps on one line, in the calm environment *)

(* Nothing happens to the line of terminal u. *)
LEMMA LineKept ==
  ASSUME NEW u \in Terms, LineRight(line_buf[u], Count(u), read_flag[u], reader[u]),
         line_buf'[u] = line_buf[u], line_buf_index'[u] = line_buf_index[u],
         read_flag'[u] = read_flag[u], reader'[u] = reader[u],
         Pending(u)' <=> Pending(u)
  PROVE  LineRight(line_buf[u], Count(u), read_flag[u], reader[u])'
  <1>1. Count(u)' = Count(u)
    BY DEF Count
  <1>2. QED
    BY <1>1

LEMMA LinesUntouched ==
  ASSUME LineInv, TypeInv', UNCHANGED <<buffers, kbd, reader, current_schedule>>
  PROVE  LineInv'
  <1>1. Quiet'
    BY DEF LineInv, Quiet, Busy, HasNewline, buffers
  <1>2. ASSUME NEW u \in Terms
        PROVE  LineRight(line_buf[u], Count(u), read_flag[u], reader[u])'
    BY LineKept DEF LineInv, Pending, buffers
  <1>3. QED
    BY <1>1, <1>2 DEF LineInv

(* A step on the line of t while the handler is not busy with it. *)
LEMMA OneLine ==
  ASSUME LineInv, TypeInv', NEW t \in Terms,
         ~(Busy /\ kbd.term = t), UNCHANGED <<kbd, current_schedule>>,
         \A u \in Terms : u # t =>
             /\ line_buf'[u] = line_buf[u] /\ line_buf_index'[u] = line_buf_index[u]
             /\ read_flag'[u] = read_flag[u] /\ reader'[u] = reader[u],
         LineRight(line_buf'[t], line_buf_index'[t], read_flag'[t], reader'[t])
  PROVE  LineInv'
  <1>1. Quiet'
    <2>1. CASE ~Busy
      BY <2>1 DEF Quiet, Busy
    <2>2. CASE Busy
      <3>1. kbd.term \in Terms /\ kbd.term # t /\ Quiet
        BY <2>2 DEF LineInv, TypeInv, Handling
      <3>2. QED
        BY <2>2, <3>1 DEF Quiet, Busy, HasNewline
    <2>3. QED
      BY <2>1, <2>2
  <1>2. ASSUME NEW u \in Terms
        PROVE  LineRight(line_buf[u], Count(u), read_flag[u], reader[u])'
    <2>1. CASE u = t
      <3>1. line_buf_index'[t] \in Int
        BY Constants DEF TypeInv, TypeOK, Index
      <3>2. Count(t)' = line_buf_index'[t]
        BY <3>1 DEF Count, Pending, Busy
      <3>3. QED
        BY <2>1, <3>2
    <2>2. CASE u # t
      BY <2>2, LineKept DEF LineInv, Pending
    <2>3. QED
      BY <2>1, <2>2
  <1>3. QED
    BY <1>1, <1>2 DEF LineInv

(* A reader that gets on has the line to itself. *)
LEMMA NotMine ==
  ASSUME LineInv, NEW t \in Terms, Runs(t), HasNewline(t) \/ reader[t].at # "wait"
  PROVE  /\ ~(Busy /\ kbd.term = t)
         /\ Count(t) = line_buf_index[t] /\ line_buf_index[t] \in Index
         /\ LineRight(line_buf[t], line_buf_index[t], read_flag[t], reader[t])
  <1>1. ~(Busy /\ kbd.term = t)
    BY DEF LineInv, Quiet, Busy, Runs
  <1>2. line_buf_index[t] \in Int /\ line_buf_index[t] \in Index
    BY Constants DEF LineInv, TypeInv, TypeOK, Index
  <1>3. Count(t) = line_buf_index[t]
    BY <1>1, <1>2 DEF Count, Pending, Busy
  <1>4. QED
    BY <1>1, <1>2, <1>3 DEF LineInv

(* The types that the steps below need. *)
LEMMA LineTypes ==
  ASSUME LineInv
  PROVE  /\ line_buf \in [Terms -> [Cells -> Chars]]
         /\ line_buf_index \in [Terms -> Index]
         /\ read_flag \in [Terms -> {0, 1}]
         /\ reader \in [Terms -> Reader]
         /\ kbd \in Handler /\ Handling /\ Quiet
         /\ current_schedule \in Terms /\ current_terminal \in Terms
  BY DEF LineInv, TypeInv, TypeOK

LEMMA StartStep ==
  ASSUME LineInv, TypeInv', NEW t \in Terms, NEW n \in Sizes, StartRead(t, n)
  PROVE  LineInv'
  <1>1. Runs(t) /\ reader[t].at = "user"
    BY DEF StartRead
  <1>2. /\ ~(Busy /\ kbd.term = t)
        /\ LineRight(line_buf[t], line_buf_index[t], read_flag[t], reader[t])
    BY <1>1, NotMine
  <1>3. PICK r : r = [NoRead EXCEPT !.at = "wait", !.nbytes = n]
    OBVIOUS
  <1>4. r.at = "wait" /\ r.nbytes = n
    BY <1>3 DEF NoRead
  <1>5. /\ line_buf' = line_buf /\ line_buf_index' = line_buf_index
        /\ read_flag' = [read_flag EXCEPT ![t] = 1]
        /\ reader' = [reader EXCEPT ![t] = r]
        /\ kbd' = kbd /\ current_schedule' = current_schedule
    BY <1>3 DEF StartRead, display
  <1>6. LineRight(line_buf[t], line_buf_index[t], 1, r)
    BY <1>1, <1>2, <1>4 DEF LineRight
  <1>7. QED
    BY <1>2, <1>5, <1>6, LineTypes, OneLine

LEMMA FindStep ==
  ASSUME LineInv, TypeInv', NEW t \in Terms, FindNewline(t)
  PROVE  LineInv'
  <1>1. PICK i \in Cells : /\ line_buf[t][i] = Newline
                           /\ reader' = [reader EXCEPT ![t].at = "found", ![t].nl_idx = i]
    BY DEF FindNewline
  <1>2. Runs(t) /\ reader[t].at = "wait" /\ HasNewline(t)
    BY <1>1 DEF FindNewline, HasNewline
  <1>3. /\ ~(Busy /\ kbd.term = t)
        /\ LineRight(line_buf[t], line_buf_index[t], read_flag[t], reader[t])
    BY <1>2, NotMine
  <1>4. PICK r : r = [reader[t] EXCEPT !.at = "found", !.nl_idx = i]
    OBVIOUS
  <1>5. reader[t] \in Reader /\ reader' = [reader EXCEPT ![t] = r]
    BY <1>1, <1>4, LineTypes
  <1>6. r.at = "found" /\ r.nl_idx = i /\ r.nbytes = reader[t].nbytes
    BY <1>4, <1>5 DEF Reader
  <1>7. LineRight(line_buf[t], line_buf_index[t], read_flag[t], r)
    BY <1>1, <1>2, <1>3, <1>6 DEF LineRight
  <1>8. UNCHANGED <<line_buf, line_buf_index, read_flag, kbd, current_schedule>>
    BY DEF FindNewline, buffers, display
  <1>9. QED
    BY <1>3, <1>5, <1>7, <1>8, LineTypes, OneLine

LEMMA CopyStep ==
  ASSUME LineInv, TypeInv', NEW t \in Terms, CopyLine(t)
  PROVE  LineInv'
  <1>1. Runs(t) /\ reader[t].at = "found" /\ reader[t] \in Reader
    BY LineTypes DEF CopyLine
  <1>2. /\ ~(Busy /\ kbd.term = t)
        /\ LineRight(line_buf[t], line_buf_index[t], read_flag[t], reader[t])
    BY <1>1, NotMine
  <1>3. PICK limit, f : reader' = [reader EXCEPT ![t].at = "copied", ![t].lenstr = limit,
                                                 ![t].buf = f]
                        /\ limit = MIN(reader[t].nl_idx + 1, reader[t].nbytes)
    BY DEF CopyLine
  <1>4. limit # 0 /\ reader[t].nl_idx \in Cells
    <2>1. reader[t].nl_idx \in Cells /\ reader[t].nbytes \in Sizes
      BY <1>1, <1>2 DEF LineRight, Reader
    <2>2. reader[t].nl_idx + 1 # 0
      BY <2>1, Constants DEF Cells
    <2>3. QED
      BY <1>3, <2>1, <2>2, Constants DEF MIN
  <1>5. PICK r : r = [reader[t] EXCEPT !.at = "copied", !.lenstr = limit, !.buf = f]
    OBVIOUS
  <1>6. reader' = [reader EXCEPT ![t] = r]
    BY <1>3, <1>5, LineTypes
  <1>7. r.at = "copied" /\ r.lenstr = limit /\ r.nbytes = reader[t].nbytes
    BY <1>1, <1>5 DEF Reader
  <1>8. LineRight(line_buf[t], line_buf_index[t], read_flag[t], r)
    BY <1>1, <1>2, <1>4, <1>7 DEF LineRight
  <1>9. UNCHANGED <<line_buf, line_buf_index, read_flag, kbd, current_schedule>>
    BY DEF CopyLine, buffers, display
  <1>10. QED
    BY <1>2, <1>6, <1>8, <1>9, LineTypes, OneLine

LEMMA ClearCellsStep ==
  ASSUME LineInv, TypeInv', NEW t \in Terms, ClearCells(t)
  PROVE  LineInv'
  <1>1. Runs(t) /\ reader[t].at = "copied" /\ reader[t] \in Reader
    BY LineTypes DEF ClearCells
  <1>2. /\ ~(Busy /\ kbd.term = t)
        /\ LineRight(line_buf[t], line_buf_index[t], read_flag[t], reader[t])
    BY <1>1, NotMine
  <1>3. PICK r : r = [reader[t] EXCEPT !.at = "zeroed"]
    OBVIOUS
  <1>4. r.at = "zeroed"
    BY <1>1, <1>3 DEF Reader
  <1>5. PICK none : none = [i \in Cells |-> 0]
    OBVIOUS
  <1>6. /\ line_buf' = [line_buf EXCEPT ![t] = none] /\ reader' = [reader EXCEPT ![t] = r]
        /\ UNCHANGED <<line_buf_index, read_flag, kbd, current_schedule>>
    BY <1>3, <1>5, LineTypes DEF ClearCells, display
  <1>7. LineRight(none, line_buf_index[t], read_flag[t], r)
    BY <1>1, <1>2, <1>4, <1>5, Constants DEF LineRight
  <1>8. QED
    BY <1>2, <1>6, <1>7, LineTypes, OneLine

LEMMA ClearIndexStep ==
  ASSUME LineInv, TypeInv', NEW t \in Terms, ClearIndex(t)
  PROVE  LineInv'
  <1>1. Runs(t) /\ reader[t].at = "zeroed" /\ reader[t] \in Reader
    BY LineTypes DEF ClearIndex
  <1>2. /\ ~(Busy /\ kbd.term = t)
        /\ LineRight(line_buf[t], line_buf_index[t], read_flag[t], reader[t])
    BY <1>1, NotMine
  <1>3. PICK r : r = [reader[t] EXCEPT !.at = "cleared"]
    OBVIOUS
  <1>4. r.at = "cleared"
    BY <1>1, <1>3 DEF Reader
  <1>5. /\ line_buf_index' = [line_buf_index EXCEPT ![t] = 0]
        /\ reader' = [reader EXCEPT ![t] = r]
        /\ UNCHANGED <<line_buf, read_flag, kbd, current_schedule>>
    BY <1>3, LineTypes DEF ClearIndex, display
  <1>6. (\A i \in Cells : line_buf[t][i] = 0) /\ (\A i \in Cells : ~(i < 0))
    BY <1>1, <1>2, Constants DEF LineRight, Cells
  <1>7. LineRight(line_buf[t], 0, read_flag[t], r)
    BY <1>1, <1>2, <1>4, <1>6, Constants DEF LineRight
  <1>8. QED
    BY <1>2, <1>5, <1>7, LineTypes, OneLine

LEMMA EndStep ==
  ASSUME LineInv, TypeInv', NEW t \in Terms, EndRead(t)
  PROVE  LineInv'
  <1>1. Runs(t) /\ reader[t].at = "cleared" /\ reader[t] \in Reader
    BY LineTypes DEF EndRead
  <1>2. /\ ~(Busy /\ kbd.term = t)
        /\ LineRight(line_buf[t], line_buf_index[t], read_flag[t], reader[t])
    BY <1>1, NotMine
  <1>3. PICK r : r = [reader[t] EXCEPT !.at = "user"]
    OBVIOUS
  <1>4. r.at = "user"
    BY <1>1, <1>3 DEF Reader
  <1>5. /\ read_flag' = [read_flag EXCEPT ![t] = 0]
        /\ reader' = [reader EXCEPT ![t] = r]
        /\ UNCHANGED <<line_buf, line_buf_index, kbd, current_schedule>>
    BY <1>3, LineTypes DEF EndRead, display
  <1>6. LineRight(line_buf[t], line_buf_index[t], 0, r)
    BY <1>1, <1>2, <1>4 DEF LineRight
  <1>7. QED
    BY <1>2, <1>5, <1>6, LineTypes, OneLine

(* A step of the keyboard on the line of t: the others stay as they are,   *)
(* and no character of theirs is pending before or after it.               *)
LEMMA KeyLine ==
  ASSUME LineInv, TypeInv', Quiet', NEW t \in Terms,
         \A u \in Terms : u # t => ~Pending(u) /\ ~Pending(u)',
         \A u \in Terms : u # t => /\ line_buf'[u] = line_buf[u]
                                   /\ line_buf_index'[u] = line_buf_index[u],
         UNCHANGED <<read_flag, reader>>,
         LineRight(line_buf'[t], Count(t)', read_flag[t], reader[t])
  PROVE  LineInv'
  <1>1. ASSUME NEW u \in Terms
        PROVE  LineRight(line_buf[u], Count(u), read_flag[u], reader[u])'
    <2>1. CASE u = t
      BY <2>1
    <2>2. CASE u # t
      BY <2>2, LineKept DEF LineInv
    <2>3. QED
      BY <2>1, <2>2
  <1>2. QED
    BY <1>1 DEF LineInv

LEMMA StoreKey ==
  ASSUME LineInv, TypeInv', KbdStore
  PROVE  /\ LineInv'
         /\ line_buf_index[kbd.term] \in Cells /\ kbd.term \in Terms
         /\ kbd.char \in Letters \cup {Newline}
         /\ line_buf' = [line_buf EXCEPT ![kbd.term][line_buf_index[kbd.term]] = kbd.char]
         /\ line_buf_index' = line_buf_index
  <1>0. kbd.at = "echoed" /\ Busy /\ current_schedule = kbd.on
    BY DEF KbdStore, Busy
  <1>1. PICK t \in Terms : /\ t = kbd.term /\ reader[t].at = "wait" /\ ~HasNewline(t)
                           /\ kbd.on \in Terms /\ kbd.on # t
    BY <1>0, LineTypes DEF Handling, Quiet
  <1>2. PICK n \in Index : n = line_buf_index[t] /\ n \in Nat
    BY LineTypes, Constants DEF Index
  <1>3. PICK c \in Letters \cup {Newline} :
          c = kbd.char /\ (c = Newline \/ n < LINE_BUFFER_SIZE - 1)
    BY <1>0, <1>1, <1>2, LineTypes DEF Handling
  <1>4. Count(t) = n
    BY <1>0, <1>2 DEF Count, Pending
  <1>5. line_buf[t] \in [Cells -> Chars] /\ \A i \in Cells : line_buf[t][i] # Newline
    BY <1>1, LineTypes DEF HasNewline
  <1>6. LineRight(line_buf[t], n, read_flag[t], reader[t])
    BY <1>4 DEF LineInv
  <1>7. /\ n \in Cells
        /\ LineRight([line_buf[t] EXCEPT ![n] = c], n + 1, read_flag[t], reader[t])
    BY <1>1, <1>3, <1>5, <1>6, TypeOne
  <1>8. /\ line_buf' = [line_buf EXCEPT ![t][n] = c] /\ line_buf_index' = line_buf_index
        /\ UNCHANGED <<read_flag, reader, current_schedule>>
        /\ kbd' = [kbd EXCEPT !.at = "stored"]
    BY <1>1, <1>2, <1>3, <1>7 DEF KbdStore, Store, display
  <1>9. kbd'.at = "stored" /\ kbd'.term = t /\ kbd'.on = kbd.on
    BY <1>1, <1>8, LineTypes DEF Handler
  <1>10. line_buf'[t] = [line_buf[t] EXCEPT ![n] = c]
    BY <1>8, LineTypes
  <1>11. Count(t)' = n + 1
    BY <1>2, <1>8, <1>9 DEF Count, Pending
  <1>12. Quiet'
    BY <1>0, <1>1, <1>8, <1>9 DEF Quiet
  <1>13. \A u \in Terms : u # t => /\ ~Pending(u) /\ ~Pending(u)'
                                   /\ line_buf'[u] = line_buf[u]
    BY <1>0, <1>8, <1>9, LineTypes DEF Pending
  <1>14. LineInv'
    BY <1>7, <1>8, <1>10, <1>11, <1>12, <1>13, KeyLine
  <1>15. QED
    BY <1>1, <1>2, <1>3, <1>7, <1>8, <1>14

LEMMA LoadKey ==
  ASSUME LineInv, TypeInv', KbdLoad
  PROVE  LineInv' /\ \A u \in Terms : Count(u)' = Count(u)
  <1>0. kbd.at = "stored" /\ Busy /\ current_schedule = kbd.on
    BY DEF KbdLoad, Busy
  <1>1. PICK t \in Terms : /\ t = kbd.term /\ reader[t].at = "wait"
                           /\ kbd.on \in Terms /\ kbd.on # t
    BY <1>0, LineTypes DEF Handling, Quiet
  <1>2. /\ UNCHANGED <<buffers, reader, current_schedule>>
        /\ kbd' = [kbd EXCEPT !.at = "loaded", !.char = line_buf_index[t]]
    BY <1>1 DEF KbdLoad, display
  <1>3. /\ kbd'.at = "loaded" /\ kbd'.term = t /\ kbd'.on = kbd.on
        /\ kbd'.char = line_buf_index[t]
    BY <1>1, <1>2, LineTypes DEF Handler
  <1>4. Quiet'
    BY <1>0, <1>1, <1>2, <1>3 DEF Quiet, buffers
  <1>5. \A u \in Terms : Pending(u)' <=> Pending(u)
    BY <1>0, <1>1, <1>3 DEF Pending
  <1>6. ASSUME NEW u \in Terms
        PROVE  LineRight(line_buf[u], Count(u), read_flag[u], reader[u])'
    BY <1>2, <1>5, LineKept DEF LineInv, buffers
  <1>7. QED
    BY <1>2, <1>4, <1>5, <1>6 DEF LineInv, Count, buffers

LEMMA BumpKey ==
  ASSUME LineInv, TypeInv', KbdBump
  PROVE  LineInv' /\ line_buf_index[kbd.term] # LINE_BUFFER_SIZE
         /\ \A u \in Terms : Count(u)' = Count(u)
  <1>0. kbd.at = "loaded" /\ Busy /\ current_schedule = kbd.on
    BY DEF KbdBump, Busy
  <1>1. PICK t \in Terms : t = kbd.term /\ kbd.char = line_buf_index[t] /\ kbd.char \in Cells
    BY <1>0, LineTypes DEF Handling, Quiet
  <1>2. PICK n \in Nat : n = line_buf_index[t] /\ n < LINE_BUFFER_SIZE
    BY <1>1, Constants DEF Cells
  <1>3. /\ line_buf_index' = [line_buf_index EXCEPT ![t] = n + 1]
        /\ UNCHANGED <<line_buf, read_flag, reader>>
        /\ kbd' = [kbd EXCEPT !.at = "done"]
    BY <1>1, <1>2 DEF KbdBump
  <1>4. kbd'.at = "done"
    BY <1>3, LineTypes DEF Handler
  <1>5. Quiet'
    BY <1>4 DEF Quiet, Busy
  <1>6. \A u \in Terms : /\ ~Pending(u)' /\ (Pending(u) <=> u = t)
                         /\ u # t => line_buf_index'[u] = line_buf_index[u]
    BY <1>0, <1>1, <1>3, <1>4, LineTypes DEF Pending
  <1>7. Count(t)' = n + 1 /\ Count(t) = n + 1
    BY <1>2, <1>3, <1>6, LineTypes DEF Count
  <1>8. LineRight(line_buf'[t], Count(t)', read_flag[t], reader[t])
    BY <1>3, <1>7 DEF LineInv
  <1>9. LineInv'
    BY <1>3, <1>5, <1>6, <1>8, KeyLine
  <1>10. QED
    BY <1>1, <1>2, <1>6, <1>7, <1>9, Constants DEF Count

LEMMA EoiKey ==
  ASSUME LineInv, TypeInv', KbdEoi
  PROVE  LineInv' /\ \A u \in Terms : Count(u)' = Count(u)
  <1>1. kbd.at = "done" /\ kbd'.at = "idle" /\ UNCHANGED <<buffers, reader>>
    BY DEF KbdEoi, Idle
  <1>2. Quiet'
    BY <1>1 DEF Quiet, Busy
  <1>3. \A u \in Terms : Pending(u)' <=> Pending(u)
    BY <1>1 DEF Pending
  <1>4. ASSUME NEW u \in Terms
        PROVE  LineRight(line_buf[u], Count(u), read_flag[u], reader[u])'
    BY <1>1, <1>3, LineKept DEF LineInv, buffers
  <1>5. QED
    BY <1>1, <1>2, <1>3, <1>4 DEF LineInv, Count, buffers

-----------------------------------------------------------------------------
(* What a step of the keyboard does to the lines: nothing, or to one of    *)
(* them, whose program waits for it and which has no newline yet.          *)

Still ==
    /\ line_buf' = line_buf
    /\ \A u \in Terms : Count(u)' = Count(u)

Typed(t, c) ==
    /\ reader[t].at = "wait" /\ ~HasNewline(t)
    /\ Count(t) \in Cells
    /\ c = Newline \/ Count(t) < LINE_BUFFER_SIZE - 1
    /\ line_buf' = [line_buf EXCEPT ![t][Count(t)] = c]
    /\ \A u \in Terms : Count(u)' = IF u = t THEN Count(t) + 1 ELSE Count(u)

Erased(t) ==
    /\ reader[t].at = "wait" /\ ~HasNewline(t)
    /\ Count(t) \in Cells /\ Count(t) > 0
    /\ line_buf' = [line_buf EXCEPT ![t] =
                      [j \in Cells |-> IF j = Count(t) - 1 THEN 0 ELSE line_buf[t][j]]]
    /\ \A u \in Terms : Count(u)' = IF u = t THEN Count(t) - 1 ELSE Count(u)

Edited == Still \/ \E t \in Terms : Erased(t) \/ \E c \in Letters \cup {Newline} : Typed(t, c)

(* An index changes only while there is room. *)
Room == \A u \in Terms :
    line_buf_index'[u] # line_buf_index[u] => line_buf_index[u] # LINE_BUFFER_SIZE

(* A line that keys can reach. *)
LEMMA EditedLine ==
  ASSUME LineInv, kbd.at = "idle", NEW t \in Terms, ~Answering(t), read_flag[t] = 1
  PROVE  /\ reader[t].at = "wait" /\ ~HasNewline(t)
         /\ \A u \in Terms : ~Pending(u) /\ Count(u) = line_buf_index[u]
         /\ LineRight(line_buf[t], line_buf_index[t], read_flag[t], reader[t])
         /\ line_buf_index[t] \in Cells
  <1>1. reader[t].at \in {"user", "wait"} /\ ~HasNewline(t)
    BY DEF Answering
  <1>2. ASSUME NEW u \in Terms
        PROVE  ~Pending(u) /\ Count(u) = line_buf_index[u] /\ line_buf_index[u] \in Index
    <2>1. line_buf_index[u] \in Index /\ line_buf_index[u] \in Nat
      BY LineTypes, Constants DEF Index
    <2>2. QED
      BY <2>1 DEF Count, Pending
  <1>3. LineRight(line_buf[t], line_buf_index[t], read_flag[t], reader[t])
    BY <1>2 DEF LineInv
  <1>4. reader[t].at = "wait"
    BY <1>1, <1>3 DEF LineRight
  <1>5. line_buf_index[t] # LINE_BUFFER_SIZE
    <2>1. LINE_BUFFER_SIZE - 1 \in Cells
      BY Constants DEF Cells
    <2>2. QED
      BY <1>1, <1>3, <1>4, <2>1 DEF LineRight, HasNewline
  <1>6. line_buf_index[t] \in Cells
    BY <1>2, <1>5, Constants DEF Cells, Index
  <1>7. QED
    BY <1>1, <1>2, <1>3, <1>4, <1>6

LEMMA BackspaceStep ==
  ASSUME LineInv, TypeInv', kbd.at = "idle", NEW t \in Terms, ~Answering(t), read_flag[t] = 1,
         line_buf_index[t] > 0, Backspace(t), UNCHANGED <<read_flag, reader>>
  PROVE  LineInv' /\ Edited /\ Room
  <1>1. PICK n \in Cells : n = line_buf_index[t] /\ n > 0 /\ n \in Index /\ n \in Nat
    BY EditedLine, LineTypes, Constants DEF Index
  <1>2. /\ reader[t].at = "wait" /\ ~HasNewline(t)
        /\ \A u \in Terms : ~Pending(u) /\ Count(u) = line_buf_index[u]
        /\ LineRight(line_buf[t], n, read_flag[t], reader[t])
        /\ line_buf[t] \in [Cells -> Chars]
    BY <1>1, EditedLine, LineTypes
  <1>3. PICK new : new = [j \in Cells |-> IF j = n - 1 THEN 0 ELSE line_buf[t][j]]
    OBVIOUS
  <1>4. /\ line_buf' = [line_buf EXCEPT ![t] = new]
        /\ line_buf_index' = [line_buf_index EXCEPT ![t] = n - 1]
        /\ kbd' = Echoed(t, "done", 0)
    BY <1>1, <1>3 DEF Backspace
  <1>5. kbd'.at \in {"idle", "done"}
    <2>1. 0 \in Chars /\ TypeInv
      BY DEF Chars, LineInv
    <2>2. QED
      BY <1>4, <2>1, EchoedType DEF Idle
  <1>6. \A u \in Terms : ~Pending(u)' /\ Count(u)' = line_buf_index'[u]
    <2>1. \A u \in Terms : line_buf_index'[u] \in Nat
      BY Constants DEF TypeInv, TypeOK, Index
    <2>2. QED
      BY <1>5, <2>1 DEF Pending, Count
  <1>7. Quiet'
    BY <1>5 DEF Quiet, Busy
  <1>8. LineRight(new, n - 1, read_flag[t], reader[t])
    BY <1>1, <1>2, <1>3, EraseOne DEF HasNewline
  <1>9. \A u \in Terms : /\ line_buf_index'[u] = IF u = t THEN n - 1 ELSE line_buf_index[u]
                         /\ line_buf'[u] = IF u = t THEN new ELSE line_buf[u]
    BY <1>4, LineTypes
  <1>10. LineInv'
    BY <1>2, <1>6, <1>7, <1>8, <1>9, KeyLine
  <1>11. Erased(t)
    <2>1. Count(t) = n /\ \A u \in Terms : Count(u)' = IF u = t THEN n - 1 ELSE Count(u)
      BY <1>1, <1>2, <1>6, <1>9
    <2>2. line_buf' = [line_buf EXCEPT ![t] =
                         [j \in Cells |-> IF j = Count(t) - 1 THEN 0 ELSE line_buf[t][j]]]
      BY <1>3, <1>4, <2>1
    <2>3. QED
      BY <1>1, <1>2, <2>1, <2>2 DEF Erased
  <1>12. Room
    <2>1. n # LINE_BUFFER_SIZE
      BY Constants DEF Cells
    <2>2. QED
      BY <1>1, <1>9, <2>1 DEF Room
  <1>13. QED
    BY <1>10, <1>11, <1>12 DEF Edited

LEMMA CharacterStep ==
  ASSUME LineInv, TypeInv', kbd.at = "idle", NEW t \in Terms, ~Answering(t), read_flag[t] = 1,
         NEW c \in Letters \cup {Newline}, Character(t, c),
         UNCHANGED <<read_flag, reader, current_schedule>>
  PROVE  LineInv' /\ Edited /\ Room
  <1>1. PICK n \in Cells : n = line_buf_index[t] /\ n \in Index /\ n \in Nat
    BY EditedLine, LineTypes, Constants DEF Index
  <1>2. /\ reader[t].at = "wait" /\ ~HasNewline(t)
        /\ \A u \in Terms : ~Pending(u) /\ Count(u) = line_buf_index[u]
        /\ LineRight(line_buf[t], n, read_flag[t], reader[t])
        /\ line_buf[t] \in [Cells -> Chars]
    BY <1>1, EditedLine, LineTypes
  <1>3. c = Newline \/ n < LINE_BUFFER_SIZE - 1
    BY <1>1 DEF Character, Accepts
  <1>4. kbd' = Echoed(t, "echoed", c) /\ c \in Chars /\ TypeInv
    BY DEF Character, Chars, LineInv
  <1>5. CASE current_schedule = t
    <2>1. kbd'.at = "idle"
      BY <1>4, <1>5, EchoedType DEF Idle
    <2>2. /\ line_buf' = [line_buf EXCEPT ![t][n] = c]
          /\ line_buf_index' = [line_buf_index EXCEPT ![t] = n + 1]
      BY <1>1, <1>5 DEF Character, StoreAndBump
    <2>3. \A u \in Terms : ~Pending(u)' /\ Count(u)' = line_buf_index'[u]
      <3>1. \A u \in Terms : line_buf_index'[u] \in Nat
        BY Constants DEF TypeInv, TypeOK, Index
      <3>2. QED
        BY <2>1, <3>1 DEF Pending, Count
    <2>4. Quiet'
      BY <2>1 DEF Quiet, Busy
    <2>5. LineRight([line_buf[t] EXCEPT ![n] = c], n + 1, read_flag[t], reader[t])
      BY <1>1, <1>2, <1>3, TypeOne DEF HasNewline
    <2>6. \A u \in Terms : /\ line_buf_index'[u] = IF u = t THEN n + 1 ELSE line_buf_index[u]
                           /\ line_buf'[u] = IF u = t THEN [line_buf[t] EXCEPT ![n] = c]
                                             ELSE line_buf[u]
      BY <2>2, LineTypes
    <2>7. LineInv'
      BY <1>2, <2>3, <2>4, <2>5, <2>6, KeyLine
    <2>8. Typed(t, c)
      <3>1. Count(t) = n /\ \A u \in Terms : Count(u)' = IF u = t THEN n + 1 ELSE Count(u)
        BY <1>1, <1>2, <2>3, <2>6
      <3>2. line_buf' = [line_buf EXCEPT ![t][Count(t)] = c]
        BY <2>2, <3>1
      <3>3. QED
        BY <1>1, <1>2, <1>3, <3>1, <3>2 DEF Typed
    <2>9. Room
      <3>1. n # LINE_BUFFER_SIZE
        BY Constants DEF Cells
      <3>2. QED
        BY <1>1, <2>6, <3>1 DEF Room
    <2>10. QED
      BY <2>7, <2>8, <2>9 DEF Edited
  <1>6. CASE current_schedule # t
    <2>1. /\ kbd'.at = "echoed" /\ kbd'.on = current_schedule
          /\ kbd'.term = t /\ kbd'.char = c
      BY <1>4, <1>6, EchoedType
    <2>2. line_buf' = line_buf /\ line_buf_index' = line_buf_index
      BY <1>6 DEF Character
    <2>3. \A u \in Terms : ~Pending(u)' /\ Count(u)' = Count(u)
      BY <1>2, <2>1, <2>2 DEF Pending, Count
    <2>4. Quiet'
      <3>1. current_schedule \in Terms
        BY LineTypes
      <3>2. QED
        BY <1>2, <1>6, <2>1, <2>2, <3>1 DEF Quiet, HasNewline
    <2>5. LineRight(line_buf'[t], Count(t)', read_flag[t], reader[t])
      BY <1>1, <1>2, <2>2, <2>3
    <2>6. LineInv'
      BY <1>2, <2>2, <2>3, <2>4, <2>5, KeyLine
    <2>7. QED
      BY <2>2, <2>3, <2>6 DEF Edited, Still, Room
  <1>7. QED
    BY <1>5, <1>6

(* The handler returns without a character of any line in its hands. *)
LEMMA NothingEdited ==
  ASSUME LineInv, TypeInv', kbd.at = "idle", kbd'.at \in {"idle", "done"},
         UNCHANGED <<line_buf, line_buf_index, read_flag, reader>>
  PROVE  LineInv' /\ Edited /\ Room
  <1>1. \A u \in Terms : ~Pending(u) /\ ~Pending(u)' /\ Count(u)' = Count(u)
    BY DEF Pending, Count
  <1>2. Quiet'
    BY DEF Quiet, Busy
  <1>3. ASSUME NEW u \in Terms
        PROVE  LineRight(line_buf[u], Count(u), read_flag[u], reader[u])'
    BY <1>1, LineKept DEF LineInv
  <1>4. QED
    BY <1>1, <1>2, <1>3 DEF LineInv, Edited, Still, Room

LEMMA EditStep ==
  ASSUME LineInv, TypeInv', kbd.at = "idle", NEW t \in Terms, ~Answering(t),
         NEW c \in Chars, NEW down, Edit(t, c, down),
         UNCHANGED <<read_flag, reader, current_schedule>>
  PROVE  LineInv' /\ Edited /\ Room
  <1>1. CASE read_flag[t] = 1 /\ "bksp" \in down /\ line_buf_index[t] > 0
    <2>1. Backspace(t)
      BY <1>1 DEF Edit
    <2>2. QED
      BY <1>1, <2>1, BackspaceStep
  <1>2. CASE /\ ~(read_flag[t] = 1 /\ "bksp" \in down /\ line_buf_index[t] > 0)
             /\ read_flag[t] = 1 /\ "bksp" \notin down /\ c # 0 /\ Accepts(t, c)
    <2>1. Character(t, c) /\ c \in Letters \cup {Newline}
      BY <1>2 DEF Edit, Chars
    <2>2. QED
      BY <1>2, <2>1, CharacterStep
  <1>3. CASE /\ ~(read_flag[t] = 1 /\ "bksp" \in down /\ line_buf_index[t] > 0)
             /\ ~(read_flag[t] = 1 /\ "bksp" \notin down /\ c # 0 /\ Accepts(t, c))
    <2>1. UNCHANGED <<line_buf, line_buf_index, kbd>>
      BY <1>3 DEF Edit
    <2>2. QED
      BY <2>1, NothingEdited
  <1>4. QED
    BY <1>1, <1>2, <1>3

-----------------------------------------------------------------------------
(* The inductive invariant *)

LEMMA KeyboardStep ==
  ASSUME Env = {}, LineInv, TypeInv', Keyboard
  PROVE  LineInv' /\ Edited /\ Room /\ reader' = reader
  <1>1. current_terminal \in Terms /\ 0 \in Chars
    BY LineTypes DEF Chars
  <1>2. ASSUME KeyIrq
        PROVE  kbd.at = "idle" /\ ~Answering(current_terminal)
    BY <1>2 DEF KeyIrq
  <1>3. ASSUME KeyIrq, UNCHANGED <<buffers, kbd, reader>>
        PROVE  LineInv' /\ Edited /\ Room
    BY <1>2, <1>3, NothingEdited DEF buffers
  <1>4. CASE Prefix
    BY <1>3, <1>4 DEF Prefix
  <1>5. ASSUME NEW k \in Modifiers, PressModifier(k)
        PROVE  LineInv' /\ Edited /\ Room /\ reader' = reader
    <2>1. /\ KeyIrq /\ Edit(current_terminal, 0, Down(k))
          /\ UNCHANGED <<read_flag, reader, current_schedule>>
      BY <1>5 DEF PressModifier, display
    <2>2. QED
      BY <1>1, <1>2, <2>1, EditStep
  <1>6. ASSUME NEW k \in Modifiers, Release(k)
        PROVE  LineInv' /\ Edited /\ Room /\ reader' = reader
    BY <1>3, <1>6 DEF Release
  <1>7. ASSUME NEW k \in Modifiers \cup {"char"}, PressSwitch(k)
        PROVE  LineInv' /\ Edited /\ Room /\ reader' = reader
    BY <1>3, <1>7 DEF PressSwitch
  <1>8. ASSUME NEW c \in Letters \cup {Newline}, PressCharacter(c)
        PROVE  LineInv' /\ Edited /\ Room /\ reader' = reader
    <2>1. KeyIrq /\ UNCHANGED <<read_flag, reader, current_schedule>> /\ c \in Chars
      BY <1>8 DEF PressCharacter, display, Chars
    <2>2. CASE Edit(current_terminal, c, held)
      BY <1>1, <1>2, <2>1, <2>2, EditStep
    <2>3. CASE /\ kbd' = Echoed(current_terminal, "done", 0)
               /\ UNCHANGED <<line_buf, line_buf_index>>
      <3>1. kbd'.at \in {"idle", "done"}
        BY <1>1, <2>3, EchoedType DEF LineInv, Idle
      <3>2. QED
        BY <1>2, <2>1, <2>3, <3>1, NothingEdited
    <2>4. QED
      BY <1>8, <2>2, <2>3 DEF PressCharacter
  <1>9. QED
    BY <1>4, <1>5, <1>6, <1>7, <1>8 DEF Keyboard, Prefix

LEMMA HandlerStep ==
  ASSUME LineInv, TypeInv', KbdStore \/ KbdLoad \/ KbdBump \/ KbdEoi
  PROVE  LineInv' /\ Edited /\ Room /\ reader' = reader
  <1>1. CASE KbdStore
    <2>1. /\ LineInv' /\ line_buf_index' = line_buf_index
          /\ line_buf' = [line_buf EXCEPT ![kbd.term][line_buf_index[kbd.term]] = kbd.char]
      BY <1>1, StoreKey
    <2>2. PICK t \in Terms, c \in Letters \cup {Newline} : t = kbd.term /\ c = kbd.char
      BY <1>1, StoreKey
    <2>3. line_buf_index[t] \in Cells
      BY <1>1, <2>2, StoreKey
    <2>4. kbd.at = "echoed" /\ Busy /\ kbd' = [kbd EXCEPT !.at = "stored"] /\ reader' = reader
      BY <1>1 DEF KbdStore, Busy
    <2>5. kbd'.at = "stored" /\ kbd'.term = t
      BY <2>2, <2>4, LineTypes DEF Handler
    <2>6. ASSUME NEW u \in Terms
          PROVE  /\ Count(u) = line_buf_index[u]
                 /\ Count(u)' = IF u = t THEN Count(t) + 1 ELSE Count(u)
      <3>1. line_buf_index[u] \in Nat /\ line_buf_index[t] \in Nat
        BY LineTypes, Constants DEF Index
      <3>2. QED
        BY <2>1, <2>4, <2>5, <3>1 DEF Count, Pending
    <2>7. reader[t].at = "wait" /\ ~HasNewline(t)
      BY <2>2, <2>4, LineTypes DEF Quiet
    <2>8. c = Newline \/ line_buf_index[t] < LINE_BUFFER_SIZE - 1
      BY <2>2, <2>4, LineTypes DEF Handling
    <2>9. Typed(t, c)
      BY <2>1, <2>2, <2>3, <2>6, <2>7, <2>8 DEF Typed
    <2>10. QED
      BY <2>1, <2>4, <2>9 DEF Edited, Room
  <1>2. CASE KbdLoad
    BY <1>2, LoadKey DEF KbdLoad, Edited, Still, Room, buffers
  <1>3. CASE KbdBump
    <2>1. /\ LineInv' /\ line_buf_index[kbd.term] # LINE_BUFFER_SIZE
          /\ \A u \in Terms : Count(u)' = Count(u)
      BY <1>3, BumpKey
    <2>2. /\ line_buf_index' = [line_buf_index EXCEPT ![kbd.term] = kbd.char + 1]
          /\ line_buf' = line_buf /\ reader' = reader
      BY <1>3 DEF KbdBump
    <2>3. Room
      BY <2>1, <2>2, LineTypes DEF Room
    <2>4. QED
      BY <2>1, <2>2, <2>3 DEF Edited, Still
  <1>4. CASE KbdEoi
    BY <1>4, EoiKey DEF KbdEoi, Edited, Still, Room, buffers
  <1>5. QED
    BY <1>1, <1>2, <1>3, <1>4

(* A tick that finds the handler busy finds it before its store. *)
LEMMA TickStep ==
  ASSUME Env = {}, LineInv, TypeInv', Tick
  PROVE  LineInv'
  <1>1. UNCHANGED <<buffers, kbd, reader>>
    BY DEF Tick
  <1>2. Quiet'
    BY <1>1 DEF Tick, LineInv, Quiet, Busy, HasNewline, buffers
  <1>3. ASSUME NEW u \in Terms
        PROVE  LineRight(line_buf[u], Count(u), read_flag[u], reader[u])'
    BY <1>1, LineKept DEF LineInv, Pending, buffers
  <1>4. QED
    BY <1>2, <1>3 DEF LineInv

LEMMA LineInvInit == Init => LineInv
  <1> SUFFICES ASSUME Init PROVE LineInv
    OBVIOUS
  <1>1. TypeInv /\ Quiet
    BY TypeInvInit DEF Init, Quiet, Busy, Idle
  <1>2. ASSUME NEW t \in Terms
        PROVE  LineRight(line_buf[t], Count(t), read_flag[t], reader[t])
    <2>1. /\ line_buf[t] = [i \in Cells |-> 0] /\ read_flag[t] = 0 /\ reader[t].at = "user"
          /\ Count(t) = 0
      BY DEF Init, NoRead, Count, Pending, Idle
    <2>2. \A i \in Cells : ~(i < 0)
      BY Constants DEF Cells
    <2>3. QED
      BY <2>1, <2>2, Constants DEF LineRight
  <1>3. QED
    BY <1>1, <1>2 DEF LineInv

LEMMA LineInvStep ==
  ASSUME Env = {}, LineInv, [Next]_vars
  PROVE  LineInv'
  <1>1. TypeInv'
    BY TypeInvStep DEF LineInv
  <1>2. CASE UNCHANGED vars
    BY <1>1, <1>2, LinesUntouched DEF vars, display
  <1>3. CASE Keyboard
    BY <1>1, <1>3, KeyboardStep
  <1>4. CASE KbdStore \/ KbdLoad \/ KbdBump \/ KbdEoi
    BY <1>1, <1>4, HandlerStep
  <1>5. ASSUME NEW t \in Terms, GetLineBuf(t)
        PROVE  LineInv'
    BY <1>1, <1>5, FindStep, CopyStep, ClearCellsStep, ClearIndexStep, EndStep DEF GetLineBuf
  <1>6. ASSUME NEW t \in Terms, NEW n \in Sizes, StartRead(t, n)
        PROVE  LineInv'
    BY <1>1, <1>6, StartStep
  <1>7. CASE Tick
    BY <1>1, <1>7, TickStep
  <1>8. QED
    BY <1>2, <1>3, <1>4, <1>5, <1>6, <1>7 DEF Next

LEMMA LineInvAlways ==
  ASSUME Env = {}
  PROVE  Spec => []LineInv
  <1>1. LineInv /\ [Next]_vars => LineInv'
    BY LineInvStep
  <1>2. QED
    BY <1>1, LineInvInit, PTL DEF Spec

(* Without type-ahead and without a tick between the handler's store and   *)
(* its increment: the characters of a line are exactly the cells below the *)
(* index, though keyboard and reader share it without a lock.              *)
THEOREM LineContiguous ==
  ASSUME Env = {}
  PROVE  Spec => []Contiguous
  <1>1. LineInv => Contiguous
    <2> SUFFICES ASSUME LineInv, NEW t \in Terms, ~Halfway(t), NEW i \in Cells
                 PROVE  line_buf[t][i] # 0 <=> i < line_buf_index[t]
      BY DEF Contiguous
    <2>1. Count(t) = line_buf_index[t]
      <3>1. line_buf_index[t] \in Nat
        BY LineTypes, Constants DEF Index
      <3>2. QED
        BY <3>1 DEF Count, Pending, Halfway
    <2>2. LineRight(line_buf[t], line_buf_index[t], read_flag[t], reader[t])
      BY <2>1 DEF LineInv
    <2>3. QED
      BY <2>2 DEF LineRight, Halfway
  <1>2. QED
    BY <1>1, LineInvAlways, PTL

(* In the same environment the keyboard never stores past the buffer: an   *)
(* index of LINE_BUFFER_SIZE stays until the cells are cleared.            *)
THEOREM LineNeverOverflows ==
  ASSUME Env = {}
  PROVE  Spec => NoOverflow
  <1> DEFINE A == \A t \in Terms :
                    /\ line_buf_index[t] = LINE_BUFFER_SIZE
                    /\ line_buf_index'[t] # LINE_BUFFER_SIZE
                    => line_buf'[t][LINE_BUFFER_SIZE - 1] = 0
  <1>1. LineInv /\ [Next]_vars => [A]_vars
    <2> SUFFICES ASSUME LineInv, Next, NEW u \in Terms,
                        line_buf_index[u] = LINE_BUFFER_SIZE,
                        line_buf_index'[u] # LINE_BUFFER_SIZE
                 PROVE  line_buf'[u][LINE_BUFFER_SIZE - 1] = 0
      OBVIOUS
    <2>1. TypeInv'
      BY TypeInvStep DEF LineInv
    <2>2. ~Room
      BY DEF Room
    <2>3. ~Keyboard /\ ~(KbdStore \/ KbdLoad \/ KbdBump \/ KbdEoi)
      BY <2>1, <2>2, KeyboardStep, HandlerStep
    <2>4. ~Tick
      BY DEF Tick, buffers
    <2>5. ASSUME NEW t \in Terms, NEW n \in Sizes PROVE ~StartRead(t, n)
      BY DEF StartRead
    <2>6. PICK t \in Terms : GetLineBuf(t)
      BY <2>3, <2>4, <2>5 DEF Next
    <2>7. ClearIndex(t)
      BY <2>6 DEF GetLineBuf, FindNewline, CopyLine, ClearCells, EndRead, buffers
    <2>8. u = t /\ line_buf' = line_buf /\ reader[t].at = "zeroed" /\ Runs(t)
      BY <2>7, LineTypes DEF ClearIndex
    <2>9. LineRight(line_buf[t], Count(t), read_flag[t], reader[t])
      BY DEF LineInv
    <2>10. LINE_BUFFER_SIZE - 1 \in Cells
      BY Constants DEF Cells
    <2>11. QED
      BY <2>8, <2>9, <2>10 DEF LineRight
  <1>2. QED
    BY <1>1, LineInvAlways, PTL DEF Spec, NoOverflow

-----------------------------------------------------------------------------
(* The line editor *)

(* The first n characters of a buffer as a sequence. *)
Text(buf, n) == [i \in 1 .. n |-> buf[i - 1]]

LEMMA TextType ==
  ASSUME NEW buf \in [Cells -> Chars], NEW n \in Index
  PROVE  /\ n \in Nat /\ n <= LINE_BUFFER_SIZE
         /\ Text(buf, n) \in Seq(Nat) /\ Len(Text(buf, n)) = n
         /\ \A i \in 1 .. n : i - 1 \in Cells /\ Text(buf, n)[i] = buf[i - 1]
  <1>1. n \in Nat /\ n <= LINE_BUFFER_SIZE
    BY Constants DEF Index
  <1>2. \A i \in 1 .. n : i - 1 \in Cells
    BY <1>1, Constants DEF Cells
  <1>3. Chars \subseteq Nat
    BY Constants DEF Chars
  <1>4. \A i \in 1 .. n : buf[i - 1] \in Nat
    BY <1>2, <1>3
  <1>5. QED
    BY <1>1, <1>2, <1>4 DEF Text

LEMMA TextTyped ==
  ASSUME NEW buf \in [Cells -> Chars], NEW n \in Cells, NEW c \in Letters \cup {Newline}
  PROVE  Text([buf EXCEPT ![n] = c], n + 1) = Append(Text(buf, n), c)
  <1>1. n \in Nat /\ n \in Index /\ n + 1 \in Index
    BY Constants DEF Cells, Index
  <1>2. c \in Chars /\ c \in Nat
    BY Constants DEF Chars
  <1>3. PICK new \in [Cells -> Chars] : new = [buf EXCEPT ![n] = c]
    BY <1>2
  <1>4. PICK s \in Seq(Nat) : s = Text(buf, n) /\ Len(s) = n
                              /\ \A i \in 1 .. n : i - 1 \in Cells /\ s[i] = buf[i - 1]
    BY <1>1, TextType
  <1>5. PICK u \in Seq(Nat) : u = Text(new, n + 1) /\ Len(u) = n + 1
                              /\ \A i \in 1 .. n + 1 : i - 1 \in Cells /\ u[i] = new[i - 1]
    BY <1>1, TextType
  <1>6. /\ Append(s, c) \in Seq(Nat) /\ Len(Append(s, c)) = n + 1
        /\ \A i \in 1 .. n + 1 : Append(s, c)[i] = IF i <= n THEN s[i] ELSE c
    BY <1>1, <1>2, <1>4
  <1>7. \A i \in 1 .. n + 1 : u[i] = Append(s, c)[i]
    <2> SUFFICES ASSUME NEW i \in 1 .. n + 1
                 PROVE  u[i] = Append(s, c)[i]
      OBVIOUS
    <2>1. CASE i <= n
      <3>1. i \in 1 .. n /\ i - 1 # n
        BY <1>1, <2>1
      <3>2. QED
        BY <1>3, <1>4, <1>5, <1>6, <2>1, <3>1
    <2>2. CASE ~(i <= n)
      <3>1. i - 1 = n
        BY <1>1, <2>2
      <3>2. QED
        BY <1>3, <1>5, <1>6, <2>2, <3>1
    <2>3. QED
      BY <2>1, <2>2
  <1>8. u = Append(s, c)
    BY <1>1, <1>5, <1>6, <1>7, SeqEqual
  <1>9. QED
    BY <1>3, <1>4, <1>5, <1>8

(* A shorter text of the same buffer, up to there, is a part of it. *)
LEMMA TextCut ==
  ASSUME NEW buf \in [Cells -> Chars], NEW new, NEW n \in Index, NEW m \in Nat, m <= n,
         \A i \in Cells : i < m => new[i] = buf[i]
  PROVE  Text(new, m) = SubSeq(Text(buf, n), 1, m)
  <1>1. PICK s : s = Text(buf, n) /\ n \in Nat
                 /\ \A i \in 1 .. n : i - 1 \in Cells /\ s[i] = buf[i - 1]
    BY TextType
  <1>2. SubSeq(s, 1, m) = [i \in 1 .. m |-> s[i]]
    <2>1. SubSeq(s, 1, m) = [i \in 1 .. (1 + m - 1) |-> s[i + 1 - 1]]
      OBVIOUS
    <2>2. 1 + m - 1 = m /\ \A i \in 1 .. m : i + 1 - 1 = i
      OBVIOUS
    <2>3. QED
      BY <2>1, <2>2
  <1>3. \A i \in 1 .. m : new[i - 1] = s[i]
    <2> SUFFICES ASSUME NEW i \in 1 .. m
                 PROVE  new[i - 1] = s[i]
      OBVIOUS
    <2>1. i \in 1 .. n /\ i - 1 < m
      BY <1>1
    <2>2. i - 1 \in Cells /\ s[i] = buf[i - 1]
      BY <1>1, <2>1
    <2>3. QED
      BY <2>1, <2>2
  <1>4. QED
    BY <1>1, <1>2, <1>3 DEF Text

(* What the abstract line is in terms of the buffer. *)
Views ==
    \A t \in Terms :
      /\ Count(t) \in Index
      /\ Content(t) = IF reader[t].at = "zeroed" THEN <<>> ELSE Text(line_buf[t], Count(t))

LEMMA LineViews == LineInv => Views
  <1> SUFFICES ASSUME LineInv, NEW t \in Terms
               PROVE  /\ Count(t) \in Index
                      /\ Content(t) = IF reader[t].at = "zeroed" THEN <<>>
                                      ELSE Text(line_buf[t], Count(t))
    BY DEF Views
  <1>1. Count(t) \in Index
    <2>1. line_buf_index[t] \in Index
      BY LineTypes
    <2>2. Pending(t) => line_buf_index[t] < LINE_BUFFER_SIZE
      <3>1. ASSUME Pending(t) PROVE line_buf_index[t] < LINE_BUFFER_SIZE
        <4>1. Busy /\ kbd.term = t /\ kbd.at \in {"stored", "loaded"}
          BY <3>1 DEF Pending, Busy
        <4>2. kbd.at = "loaded" => line_buf_index[t] \in Cells
          BY <4>1, LineTypes DEF Handling, Quiet
        <4>3. kbd.at = "stored" => line_buf_index[t] < LINE_BUFFER_SIZE
          BY <4>1, LineTypes DEF Handling
        <4>4. QED
          BY <4>1, <4>2, <4>3, Constants DEF Cells
      <3>2. QED
        BY <3>1
    <2>3. QED
      BY <2>1, <2>2, Constants DEF Count, Index
  <1>2. PICK n \in Nat : n = Count(t) /\ n <= LINE_BUFFER_SIZE
    BY <1>1, Constants DEF Index
  <1>3. LineRight(line_buf[t], n, read_flag[t], reader[t])
    BY <1>2 DEF LineInv
  <1>4. CASE reader[t].at = "zeroed"
    <2>1. {j \in Cells : line_buf[t][j] # 0} = {}
      BY <1>3, <1>4 DEF LineRight
    <2>2. Cardinality({j \in Cells : line_buf[t][j] # 0}) = 0
      BY <2>1, FS_EmptySet
    <2>3. Content(t) = [i \in 1 .. 0 |-> line_buf[t][i - 1]]
      BY <2>2 DEF Content
    <2>4. Content(t) = <<>>
      BY <2>3
    <2>5. QED
      BY <1>1, <1>4, <2>4
  <1>5. CASE reader[t].at # "zeroed"
    <2>1. \A j \in Cells : line_buf[t][j] # 0 <=> j < n
      BY <1>3, <1>5 DEF LineRight
    <2>2. /\ \A j \in 0 .. n - 1 : j \in Cells /\ j < n
          /\ \A j \in Cells : j < n => j \in 0 .. n - 1
      BY <1>2, Constants DEF Cells
    <2>3. {j \in Cells : line_buf[t][j] # 0} = 0 .. n - 1
      BY <2>1, <2>2
    <2>4. Cardinality(0 .. n - 1) = n
      BY FS_Interval
    <2>5. QED
      BY <1>1, <1>2, <1>5, <2>3, <2>4 DEF Content, Text
  <1>6. QED
    BY <1>4, <1>5

LEMMA LineViewsNext == LineInv' => Views'
  BY LineViews, PTL

(* The refinement mapping, and what it hides: the line is complete when    *)
(* the buffer has a newline.                                               *)
Lines == [t \in Terms |-> Content(t)]
Wants == [t \in Terms |-> IF reader[t].at \in {"wait", "found", "copied"}
                          THEN reader[t].nbytes ELSE 0]
Gots  == [t \in Terms |-> IF reader[t].at \in {"wait", "found"} THEN <<>>
                          ELSE [i \in 1 .. reader[t].lenstr |-> reader[t].buf[i - 1]]]

LEMMA CompleteIs ==
  ASSUME LineInv, NEW t \in Terms, reader[t].at # "zeroed"
  PROVE  Editor!Complete(t) <=> HasNewline(t)
  <1>1. PICK n \in Index : n = Count(t) /\ n \in Nat /\ n <= LINE_BUFFER_SIZE
    BY LineViews, Constants DEF Views, Index
  <1>2. PICK buf \in [Cells -> Chars] : buf = line_buf[t]
    BY LineTypes
  <1>3. PICK s \in Seq(Nat) : s = Text(buf, n) /\ Len(s) = n
                              /\ \A i \in 1 .. n : i - 1 \in Cells /\ s[i] = buf[i - 1]
    BY <1>1, <1>2, TextType
  <1>4. Content(t) = s
    BY <1>1, <1>2, <1>3, LineViews DEF Views
  <1>5. /\ \A i \in Cells : buf[i] = Newline => n = i + 1
    BY <1>1, <1>2 DEF LineInv, LineRight
  <1>6. Editor!Complete(t) <=> s # <<>> /\ s[Len(s)] = Newline
    BY <1>4 DEF Editor!Complete
  <1>7. ASSUME s # <<>>, s[Len(s)] = Newline PROVE HasNewline(t)
    <2>1. n \in 1 .. n
      BY <1>3, <1>7
    <2>2. n - 1 \in Cells /\ buf[n - 1] = Newline
      BY <1>3, <1>7, <2>1
    <2>3. QED
      BY <1>2, <2>2 DEF HasNewline
  <1>8. ASSUME HasNewline(t) PROVE s # <<>> /\ s[Len(s)] = Newline
    <2>1. PICK i \in Cells : buf[i] = Newline
      BY <1>2, <1>8 DEF HasNewline
    <2>2. n = i + 1 /\ i \in Nat
      BY <1>5, <2>1, Constants DEF Cells
    <2>3. n \in 1 .. n /\ n - 1 = i
      BY <2>2
    <2>4. s[n] = Newline
      BY <1>3, <2>1, <2>3
    <2>5. QED
      BY <1>3, <2>2, <2>4
  <1>9. QED
    BY <1>6, <1>7, <1>8

LEMMA EditorInit == Init => Editor!Init
  <1> SUFFICES ASSUME Init PROVE Editor!Init
    OBVIOUS
  <1>1. LineInv
    BY LineInvInit
  <1>2. ASSUME NEW t \in Terms
        PROVE  Content(t) = <<>> /\ reader[t].at = "user" /\ reader[t].lenstr = 0
    <2>1. reader[t].at = "user" /\ reader[t].lenstr = 0 /\ Count(t) = 0
      BY DEF Init, NoRead, Count, Pending, Idle
    <2>2. Content(t) = [i \in 1 .. 0 |-> line_buf[t][i - 1]]
      BY <1>1, <2>1, LineViews DEF Views, Text
    <2>3. QED
      BY <2>1, <2>2
  <1>3. QED
    BY <1>2 DEF Editor!Init

(* A line whose buffer and count do not change, and whose reader is not    *)
(* in between the two halves of a clearing before or after.                *)
LEMMA ContentKept ==
  ASSUME LineInv, LineInv', NEW u \in Terms, line_buf'[u] = line_buf[u], Count(u)' = Count(u),
         reader'[u].at = "zeroed" <=> reader[u].at = "zeroed"
  PROVE  Content(u)' = Content(u)
  BY LineViews, LineViewsNext DEF Views

(* A reader that waits, in the words of the editor. *)
LEMMA WaitingView ==
  ASSUME LineInv, NEW t \in Terms, reader[t].at = "wait"
  PROVE  /\ Wants[t] # 0
         /\ Content(t) = Text(line_buf[t], Count(t))
         /\ Content(t) \in Seq(Nat) /\ Len(Content(t)) = Count(t)
         /\ Count(t) \in Index /\ Count(t) \in Nat /\ line_buf[t] \in [Cells -> Chars]
  <1>1. reader[t].nbytes \in Sizes
    BY DEF LineInv, LineRight
  <1>2. Wants[t] # 0
    BY <1>1, Constants DEF Wants
  <1>3. /\ Content(t) = Text(line_buf[t], Count(t)) /\ Count(t) \in Index
        /\ line_buf[t] \in [Cells -> Chars]
    BY LineViews, LineTypes DEF Views
  <1>4. QED
    BY <1>2, <1>3, TextType

LEMMA TypeStep ==
  ASSUME LineInv, LineInv', reader' = reader, NEW t \in Terms,
         NEW c \in Letters \cup {Newline}, Typed(t, c)
  PROVE  Editor!Type(t, c)
  <1>1. reader[t].at = "wait" /\ ~HasNewline(t)
    BY DEF Typed
  <1>2. PICK n \in Cells : n = Count(t) /\ (c = Newline \/ n < LINE_BUFFER_SIZE - 1)
    BY DEF Typed
  <1>3. PICK buf \in [Cells -> Chars] : buf = line_buf[t]
    BY LineTypes
  <1>4. line_buf'[t] = [buf EXCEPT ![n] = c] /\ Count(t)' = n + 1
    BY <1>2, <1>3, LineTypes DEF Typed
  <1>5. Content(t)' = Text([buf EXCEPT ![n] = c], n + 1)
    BY <1>1, <1>4, LineViewsNext DEF Views
  <1>6. Content(t) = Text(buf, n) /\ Len(Content(t)) = n /\ Wants[t] # 0
    BY <1>1, <1>2, <1>3, WaitingView
  <1>7. Content(t)' = Append(Content(t), c)
    BY <1>5, <1>6, TextTyped
  <1>8. ASSUME NEW u \in Terms, u # t
        PROVE  Content(u)' = Content(u)
    BY <1>8, ContentKept, LineTypes DEF Typed
  <1>9. Lines' = [Lines EXCEPT ![t] = Append(@, c)]
    BY <1>7, <1>8 DEF Lines
  <1>10. Wants' = Wants /\ Gots' = Gots
    BY DEF Wants, Gots
  <1>11. ~Editor!Complete(t)
    BY <1>1, CompleteIs
  <1>12. Len(Lines[t]) = n
    BY <1>6 DEF Lines
  <1>13. QED
    BY <1>2, <1>6, <1>9, <1>10, <1>11, <1>12 DEF Editor!Type, Lines, Wants, Gots

LEMMA EraseStep ==
  ASSUME LineInv, LineInv', reader' = reader, NEW t \in Terms, Erased(t)
  PROVE  Editor!Erase(t)
  <1>1. reader[t].at = "wait" /\ ~HasNewline(t)
    BY DEF Erased
  <1>2. PICK n \in Index : n = Count(t) /\ n \in Nat /\ n > 0
    BY <1>1, WaitingView DEF Erased
  <1>3. PICK buf \in [Cells -> Chars] : buf = line_buf[t]
    BY LineTypes
  <1>4. PICK new : new = [j \in Cells |-> IF j = n - 1 THEN 0 ELSE buf[j]]
    OBVIOUS
  <1>5. line_buf'[t] = new /\ Count(t)' = n - 1
    BY <1>2, <1>3, <1>4, LineTypes DEF Erased
  <1>6. Content(t)' = Text(new, n - 1)
    BY <1>1, <1>5, LineViewsNext DEF Views
  <1>7. Content(t) = Text(buf, n) /\ Len(Content(t)) = n /\ Wants[t] # 0
    BY <1>1, <1>2, <1>3, WaitingView
  <1>8. Text(new, n - 1) = SubSeq(Text(buf, n), 1, n - 1)
    <2>1. n - 1 \in Nat /\ n - 1 <= n
      BY <1>2
    <2>2. \A i \in Cells : i < n - 1 => new[i] = buf[i]
      BY <1>2, <1>4, Constants DEF Cells
    <2>3. QED
      BY <2>1, <2>2, TextCut
  <1>9. ASSUME NEW u \in Terms, u # t
        PROVE  Content(u)' = Content(u)
    BY <1>9, ContentKept, LineTypes DEF Erased
  <1>10. Lines' = [Lines EXCEPT ![t] = SubSeq(@, 1, Len(@) - 1)]
    BY <1>6, <1>7, <1>8, <1>9 DEF Lines
  <1>11. Wants' = Wants /\ Gots' = Gots
    BY DEF Wants, Gots
  <1>12. ~Editor!Complete(t)
    BY <1>1, CompleteIs
  <1>13. Lines[t] # <<>>
    BY <1>2, <1>7 DEF Lines
  <1>14. QED
    BY <1>7, <1>10, <1>11, <1>12, <1>13 DEF Editor!Erase, Lines, Wants, Gots

(* A step that leaves lines and readers alone is none of the editor's. *)
LEMMA StillStep ==
  ASSUME LineInv, LineInv', Still, reader' = reader
  PROVE  UNCHANGED Editor!vars
  <1>1. \A u \in Terms : Content(u)' = Content(u)
    BY ContentKept DEF Still
  <1>2. Lines' = Lines /\ Wants' = Wants /\ Gots' = Gots
    BY <1>1 DEF Lines, Wants, Gots
  <1>3. QED
    BY <1>2 DEF Editor!vars, Lines, Wants, Gots

LEMMA EditedStep ==
  ASSUME LineInv, LineInv', Edited, reader' = reader
  PROVE  [Editor!Next]_Editor!vars
  <1>1. CASE Still
    BY <1>1, StillStep
  <1>2. ASSUME NEW t \in Terms, Erased(t)
        PROVE  Editor!Next
    <2>1. Editor!Erase(t)
      BY <1>2, EraseStep
    <2>2. QED
      BY <2>1 DEF Editor!Next
  <1>3. ASSUME NEW t \in Terms, NEW c \in Letters \cup {Newline}, Typed(t, c)
        PROVE  Editor!Next
    <2>1. Editor!Type(t, c)
      BY <1>3, TypeStep
    <2>2. QED
      BY <2>1 DEF Editor!Next
  <1>4. QED
    BY <1>1, <1>2, <1>3 DEF Edited

(* A step of the reader of t leaves the lines of the others alone, and its *)
(* own too if it does not touch buffer and index.                          *)
LEMMA ReaderLines ==
  ASSUME LineInv, LineInv', kbd' = kbd, NEW t \in Terms, NEW r,
         reader' = [reader EXCEPT ![t] = r]
  PROVE  /\ \A u \in Terms : u # t /\ line_buf'[u] = line_buf[u]
                                   /\ line_buf_index'[u] = line_buf_index[u]
                             => Content(u)' = Content(u)
         /\ /\ line_buf' = line_buf /\ line_buf_index' = line_buf_index
            /\ r.at # "zeroed" /\ reader[t].at # "zeroed"
            => Lines' = Lines
         /\ reader'[t] = r
  <1>1. reader'[t] = r /\ \A u \in Terms : u # t => reader'[u] = reader[u]
    BY LineTypes
  <1>2. \A u \in Terms : line_buf_index'[u] = line_buf_index[u] => Count(u)' = Count(u)
    BY DEF Count, Pending
  <1>3. \A u \in Terms : u # t /\ line_buf'[u] = line_buf[u]
                               /\ line_buf_index'[u] = line_buf_index[u]
                         => Content(u)' = Content(u)
    BY <1>1, <1>2, ContentKept
  <1>4. ASSUME line_buf' = line_buf, line_buf_index' = line_buf_index,
               r.at # "zeroed", reader[t].at # "zeroed"
        PROVE  Lines' = Lines
    <2>1. Content(t)' = Content(t)
      BY <1>1, <1>2, <1>4, ContentKept
    <2>2. QED
      BY <1>3, <1>4, <2>1 DEF Lines
  <1>5. QED
    BY <1>1, <1>3, <1>4

LEMMA StartIsRead ==
  ASSUME LineInv, LineInv', NEW t \in Terms, NEW n \in Sizes, StartRead(t, n)
  PROVE  Editor!Read(t, n)
  <1>1. PICK r : r = [NoRead EXCEPT !.at = "wait", !.nbytes = n]
    OBVIOUS
  <1>2. r.at = "wait" /\ r.nbytes = n
    BY <1>1 DEF NoRead
  <1>3. /\ reader' = [reader EXCEPT ![t] = r] /\ kbd' = kbd /\ reader[t].at = "user"
        /\ line_buf' = line_buf /\ line_buf_index' = line_buf_index
    BY <1>1 DEF StartRead
  <1>4. Lines' = Lines
    BY <1>2, <1>3, ReaderLines
  <1>5. Lines[t] = <<>> /\ Wants[t] = 0
    <2>1. Count(t) = 0
      BY <1>3 DEF LineInv, LineRight
    <2>2. Content(t) = [i \in 1 .. 0 |-> line_buf[t][i - 1]]
      BY <1>3, <2>1, LineViews DEF Views, Text
    <2>3. Content(t) = <<>>
      BY <2>2
    <2>4. QED
      BY <1>3, <2>3 DEF Lines, Wants
  <1>6. Wants' = [Wants EXCEPT ![t] = n] /\ Gots' = [Gots EXCEPT ![t] = <<>>]
    BY <1>2, <1>3, LineTypes DEF Wants, Gots
  <1>7. QED
    BY <1>4, <1>5, <1>6 DEF Editor!Read, Lines, Wants, Gots

(* The search, the clearing of the index and the end are not seen. *)
LEMMA FindIsStill ==
  ASSUME LineInv, LineInv', NEW t \in Terms, FindNewline(t)
  PROVE  UNCHANGED Editor!vars
  <1>1. PICK i \in Cells : reader' = [reader EXCEPT ![t].at = "found", ![t].nl_idx = i]
    BY DEF FindNewline
  <1>2. PICK r : r = [reader[t] EXCEPT !.at = "found", !.nl_idx = i]
    OBVIOUS
  <1>3. reader' = [reader EXCEPT ![t] = r] /\ reader[t] \in Reader
    BY <1>1, <1>2, LineTypes
  <1>4. r.at = "found" /\ r.nbytes = reader[t].nbytes
    BY <1>2, <1>3 DEF Reader
  <1>5. /\ kbd' = kbd /\ reader[t].at = "wait"
        /\ line_buf' = line_buf /\ line_buf_index' = line_buf_index
    BY DEF FindNewline, buffers
  <1>6. Lines' = Lines
    BY <1>3, <1>4, <1>5, ReaderLines
  <1>7. Wants' = Wants /\ Gots' = Gots
    BY <1>3, <1>4, <1>5, LineTypes DEF Wants, Gots
  <1>8. QED
    BY <1>6, <1>7 DEF Editor!vars, Lines, Wants, Gots

LEMMA ClearIndexIsStill ==
  ASSUME LineInv, LineInv', NEW t \in Terms, ClearIndex(t)
  PROVE  UNCHANGED Editor!vars
  <1>1. PICK r : r = [reader[t] EXCEPT !.at = "cleared"]
    OBVIOUS
  <1>2. /\ reader' = [reader EXCEPT ![t] = r] /\ reader[t] \in Reader
        /\ reader[t].at = "zeroed" /\ kbd' = kbd /\ line_buf' = line_buf
        /\ line_buf_index' = [line_buf_index EXCEPT ![t] = 0]
    BY <1>1, LineTypes DEF ClearIndex
  <1>3. r.at = "cleared" /\ r.lenstr = reader[t].lenstr /\ r.buf = reader[t].buf
    BY <1>1, <1>2 DEF Reader
  <1>4. reader'[t] = r /\ \A u \in Terms : u # t => Content(u)' = Content(u)
    BY <1>2, ReaderLines, LineTypes
  <1>5. Content(t) = <<>>
    BY <1>2, LineViews DEF Views
  <1>6. Content(t)' = <<>>
    <2>1. Count(t)' = 0
      BY <1>3, <1>4 DEF LineInv, LineRight
    <2>2. Content(t)' = [i \in 1 .. 0 |-> line_buf'[t][i - 1]]
      BY <1>3, <1>4, <2>1, LineViewsNext DEF Views, Text
    <2>3. QED
      BY <2>2
  <1>7. Lines' = Lines
    BY <1>4, <1>5, <1>6 DEF Lines
  <1>8. Wants' = Wants /\ Gots' = Gots
    BY <1>2, <1>3, LineTypes DEF Wants, Gots
  <1>9. QED
    BY <1>7, <1>8 DEF Editor!vars, Lines, Wants, Gots

LEMMA EndIsStill ==
  ASSUME LineInv, LineInv', NEW t \in Terms, EndRead(t)
  PROVE  UNCHANGED Editor!vars
  <1>1. PICK r : r = [reader[t] EXCEPT !.at = "user"]
    OBVIOUS
  <1>2. /\ reader' = [reader EXCEPT ![t] = r] /\ reader[t] \in Reader
        /\ reader[t].at = "cleared" /\ kbd' = kbd /\ line_buf' = line_buf
        /\ line_buf_index' = line_buf_index
    BY <1>1, LineTypes DEF EndRead
  <1>3. r.at = "user" /\ r.lenstr = reader[t].lenstr /\ r.buf = reader[t].buf
    BY <1>1, <1>2 DEF Reader
  <1>4. Lines' = Lines
    BY <1>2, <1>3, ReaderLines
  <1>5. Wants' = Wants /\ Gots' = Gots
    BY <1>2, <1>3, LineTypes DEF Wants, Gots
  <1>6. QED
    BY <1>4, <1>5 DEF Editor!vars, Lines, Wants, Gots

(* Clearing the cells ends the read as far as the editor is concerned. *)
LEMMA ClearCellsIsFinish ==
  ASSUME LineInv, LineInv', NEW t \in Terms, ClearCells(t)
  PROVE  Editor!Finish(t)
  <1>1. PICK r : r = [reader[t] EXCEPT !.at = "zeroed"]
    OBVIOUS
  <1>2. /\ reader' = [reader EXCEPT ![t] = r] /\ reader[t] \in Reader
        /\ reader[t].at = "copied" /\ kbd' = kbd /\ line_buf_index' = line_buf_index
        /\ \A u \in Terms : u # t => line_buf'[u] = line_buf[u]
    BY <1>1, LineTypes DEF ClearCells
  <1>3. r.at = "zeroed" /\ r.lenstr = reader[t].lenstr /\ r.buf = reader[t].buf
    BY <1>1, <1>2 DEF Reader
  <1>4. reader'[t] = r /\ \A u \in Terms : u # t => Content(u)' = Content(u)
    BY <1>2, ReaderLines
  <1>5. Content(t)' = <<>>
    BY <1>3, <1>4, LineViewsNext DEF Views
  <1>6. Lines' = [Lines EXCEPT ![t] = <<>>]
    BY <1>4, <1>5 DEF Lines
  <1>7. Wants' = [Wants EXCEPT ![t] = 0] /\ Gots' = Gots
    BY <1>2, <1>3, LineTypes DEF Wants, Gots
  <1>8. reader[t].nbytes \in Sizes /\ reader[t].lenstr # 0
    BY <1>2 DEF LineInv, LineRight
  <1>9. Wants[t] # 0
    BY <1>2, <1>8, Constants DEF Wants
  <1>10. Gots[t] # <<>>
    <2>1. PICK m \in Nat : m = reader[t].lenstr /\ m # 0
      BY <1>2, <1>8 DEF Reader
    <2>2. PICK f : f = reader[t].buf
      OBVIOUS
    <2>3. Gots[t] = [i \in 1 .. m |-> f[i - 1]]
      BY <1>2, <2>1, <2>2 DEF Gots
    <2>4. 1 \in DOMAIN Gots[t] /\ 1 \notin DOMAIN <<>>
      BY <2>1, <2>3
    <2>5. QED
      BY <2>4
  <1>11. QED
    BY <1>6, <1>7, <1>9, <1>10 DEF Editor!Finish, Lines, Wants, Gots

(* The copy hands over the line, cut off at the size asked for: the extra  *)
(* newline lies behind what the program is told it got.                    *)
LEMMA CopyIsTake ==
  ASSUME LineInv, LineInv', NEW t \in Terms, CopyLine(t)
  PROVE  Editor!Take(t)
  <1>1. /\ reader[t].at = "found" /\ reader[t] \in Reader /\ kbd' = kbd
        /\ line_buf' = line_buf /\ line_buf_index' = line_buf_index
    BY LineTypes DEF CopyLine, buffers
  <1>2. PICK n \in Index : n = Count(t) /\ n \in Nat /\ n <= LINE_BUFFER_SIZE
    BY LineViews, Constants DEF Views, Index
  <1>3. PICK buf \in [Cells -> Chars] : buf = line_buf[t]
    BY LineTypes
  <1>4. LineRight(buf, n, read_flag[t], reader[t])
    BY <1>2, <1>3 DEF LineInv
  <1>5. PICK k \in Cells : k = reader[t].nl_idx /\ buf[k] = Newline /\ n = k + 1
    BY <1>1, <1>4 DEF LineRight, Reader
  <1>6. PICK size \in Nat : size = reader[t].nbytes /\ size # 0
    <2>1. reader[t].nbytes \in Sizes
      BY <1>1, <1>4 DEF LineRight
    <2>2. QED
      BY <2>1, Constants
  <1>7. PICK m \in Nat : /\ m = MIN(n, size) /\ m <= n /\ m <= size
                         /\ m = IF size < n THEN size ELSE n
    BY <1>2, <1>6 DEF MIN
  <1>8. PICK f : f = [i \in 0 .. LINE_BUFFER_SIZE |->
                        IF i = MIN(size, LINE_BUFFER_SIZE) THEN Newline
                        ELSE IF i < m THEN buf[i]
                        ELSE reader[t].buf[i]]
    OBVIOUS
  <1>9. PICK r : r = [reader[t] EXCEPT !.at = "copied", !.lenstr = m, !.buf = f]
    OBVIOUS
  <1>10. reader' = [reader EXCEPT ![t] = r]
    <2>1. reader' = [reader EXCEPT ![t].at = "copied", ![t].lenstr = m, ![t].buf = f]
      BY <1>3, <1>5, <1>6, <1>7, <1>8, LineTypes DEF CopyLine
    <2>2. QED
      BY <1>9, <2>1, LineTypes
  <1>11. r.at = "copied" /\ r.lenstr = m /\ r.buf = f /\ r.nbytes = size
    BY <1>1, <1>6, <1>9 DEF Reader
  <1>12. Lines' = Lines
    BY <1>1, <1>10, <1>11, ReaderLines
  <1>13. Content(t) = Text(buf, n) /\ Len(Text(buf, n)) = n
    BY <1>1, <1>2, <1>3, LineViews, TextType DEF Views
  <1>14. Text(f, m) = SubSeq(Text(buf, n), 1, m)
    <2>1. \A i \in Cells : i < m => /\ i \in 0 .. LINE_BUFFER_SIZE
                                    /\ i # MIN(size, LINE_BUFFER_SIZE)
      BY <1>2, <1>7, Constants DEF Cells, MIN
    <2>2. \A i \in Cells : i < m => f[i] = buf[i]
      BY <1>8, <2>1
    <2>3. QED
      BY <1>7, <2>2, TextCut
  <1>15. Gots' = [Gots EXCEPT ![t] = Text(f, m)]
    BY <1>1, <1>10, <1>11, LineTypes DEF Gots, Text
  <1>16. Gots[t] = <<>> /\ Wants[t] = size /\ Wants' = Wants
    BY <1>1, <1>6, <1>10, <1>11, LineTypes DEF Gots, Wants
  <1>17. Editor!Complete(t)
    BY <1>1, <1>3, <1>5, CompleteIs DEF HasNewline
  <1>18. Editor!Cut(Lines[t], Wants[t]) = Text(f, m)
    <2>1. Lines[t] = Text(buf, n)
      BY <1>13 DEF Lines
    <2>2. QED
      BY <1>7, <1>13, <1>14, <1>16, <2>1 DEF Editor!Cut
  <1>19. QED
    BY <1>12, <1>15, <1>16, <1>17, <1>18 DEF Editor!Take, Lines, Wants, Gots

LEMMA EditorStep ==
  ASSUME Env = {}, LineInv, LineInv', [Next]_vars
  PROVE  [Editor!Next]_Editor!vars
  <1>0. TypeInv'
    BY DEF LineInv
  <1>1. CASE UNCHANGED vars
    <2>1. Still /\ reader' = reader
      BY <1>1 DEF vars, buffers, Still, Count, Pending
    <2>2. QED
      BY <2>1, StillStep
  <1>2. CASE Keyboard
    BY <1>0, <1>2, KeyboardStep, EditedStep
  <1>3. CASE KbdStore \/ KbdLoad \/ KbdBump \/ KbdEoi
    BY <1>0, <1>3, HandlerStep, EditedStep
  <1>4. CASE Tick
    <2>1. Still /\ reader' = reader
      BY <1>4 DEF Tick, buffers, Still, Count, Pending
    <2>2. QED
      BY <2>1, StillStep
  <1>5. ASSUME NEW t \in Terms, NEW n \in Sizes, StartRead(t, n)
        PROVE  Editor!Next
    <2>1. Editor!Read(t, n)
      BY <1>5, StartIsRead
    <2>2. QED
      BY <2>1 DEF Editor!Next
  <1>6. ASSUME NEW t \in Terms, CopyLine(t) \/ ClearCells(t)
        PROVE  Editor!Next
    <2>1. Editor!Take(t) \/ Editor!Finish(t)
      BY <1>6, CopyIsTake, ClearCellsIsFinish
    <2>2. QED
      BY <2>1 DEF Editor!Next
  <1>7. ASSUME NEW t \in Terms, FindNewline(t) \/ ClearIndex(t) \/ EndRead(t)
        PROVE  UNCHANGED Editor!vars
    BY <1>7, FindIsStill, ClearIndexIsStill, EndIsStill
  <1>8. QED
    BY <1>1, <1>2, <1>3, <1>4, <1>5, <1>6, <1>7 DEF Next, GetLineBuf

(* In the calm environment, for every number of terminals, buffer size and *)
(* alphabet: keyboard interrupts, ticks and the steps of get_line_buf      *)
(* together implement the line editor, so that each read starts with an    *)
(* empty line and returns the line that was typed and edited for it.       *)
THEOREM LineImplementsEditor ==
  ASSUME Env = {}
  PROVE  Spec => ImplementsEditor
  <1>1. LineInv /\ LineInv' /\ [Next]_vars => [Editor!Next]_Editor!vars
    BY EditorStep
  <1>2. QED
    BY <1>1, EditorInit, LineInvAlways, PTL DEF Spec, ImplementsEditor, Editor!Spec

=============================================================================
