------------------------------- MODULE Typing -------------------------------
(***************************************************************************)
(* Typing: from the keys that are pressed to the words of a command.  The  *)
(* keyboard sends scan codes, the handler of device/keyboard.c makes       *)
(* characters of them and puts them into keyboardBuf, readLine of          *)
(* shell/shell.c takes them out one by one and edits the line, cmdParse    *)
(* cuts it into words.  Keys go on being pressed meanwhile.                *)
(*                                                                         *)
(* Here the queue is a sequence and nobody else reads it; what happens     *)
(* when it is full, and who sleeps, is in Keyboard.  A key is its make     *)
(* code, with ext for those that send 0xe0 before it.  altStatus decides   *)
(* nothing and is left out, and so is what the screen shows.               *)
(***************************************************************************)
EXTENDS Integers, FiniteSets, Sequences, SequencesExt

CONSTANTS Keys,       \* the keys of the keyboard: [ext, code]
          Size,       \* IOQUEUE_BUF_SIZE
          CmdLen,     \* CMD_LEN
          MaxArgs,    \* MAX_ARG_NUM
          MaxPort     \* bound: bytes the keyboard has not delivered yet

ASSUME TypingAssumption ==
  /\ Keys \subseteq [ext : BOOLEAN, code : 1..\h5D]
  /\ {Size, CmdLen, MaxPort} \subseteq Nat \ {0}
  /\ MaxArgs \in Nat

VARIABLES held,    \* environment: the modifier keys that are down
          caps,    \* environment: caps lock was pressed, and stays on for good
          port,    \* the bytes on their way to port 0x60
          kbd,     \* the static flags of keyboard.c
          queue,   \* content of keyboardBuf
          line,    \* readLine: cmdLine up to pos, and how far the shell is
          words,   \* argc and argv after cmdParse
          typed,   \* history: the characters the user meant and the shell has not read
          shown,   \* history: the line as the user sees it
          odd      \* history: a shift key went down while the other one was

vars == <<held, caps, port, kbd, queue, line, words, typed, shown, odd>>

CtrlMake == \h1D
ShiftMakes == {\h2A, \h36}
CapsMake == \h3A
Invisible == ShiftMakes \cup {CtrlMake, CapsMake, \h38}

Char(code, kind) == [code |-> code, kind |-> kind]
NoChar == Char(0, "plain")
Backspace == Char(\h0E, "plain")
Enter == Char(\h1C, "plain")
Blank == Char(\h39, "plain")
CtrlL == Char(\h26, "ctrl")
CtrlU == Char(\h16, "ctrl")

\* keymap: these look the same with shift
Keymap(code, shift) ==
  Char(code, IF shift /\ code \notin {\h01, \h0E, \h0F, \h1C, \h37, \h39} THEN "shift" ELSE "plain")

-----------------------------------------------------------------------------
(* The interrupt handler *)

KeysUp == [ext |-> FALSE, ctrl |-> FALSE, shift |-> FALSE, caps |-> FALSE]

\* the keys caps lock leaves alone
CapsIgnores(code) ==
  code < \h0E \/ code \in {\h29, \h1A, \h1B, \h2B, \h27, \h28, \h33, \h34, \h35}

\* mutant of BreakCode: the right shift is not let go of
BreakCodeLeft(k, code) ==
  CASE code \in {\h9D, \hE09D} -> [k EXCEPT !.ctrl = FALSE]
    [] code = \hAA -> [k EXCEPT !.shift = FALSE]
    [] OTHER -> k

BreakCode(k, code) ==
  CASE code \in {\h9D, \hE09D} -> [k EXCEPT !.ctrl = FALSE]
    [] code \in {\hAA, \hB6} -> [k EXCEPT !.shift = FALSE]
    [] OTHER -> k

\* only a code below 0x80 gets here, so that caps lock never goes off
MakeCode(k, code) ==
  CASE code \in ShiftMakes -> [k EXCEPT !.shift = TRUE]
    [] code \in {CtrlMake, \hE01D} -> [k EXCEPT !.ctrl = TRUE]
    [] code = CapsMake -> [k EXCEPT !.caps = TRUE]
    [] OTHER -> k

\* the character of a make code; NoChar has no place in the queue
Meant(k, code) ==
  LET c == Keymap(code, k.shift # (k.caps /\ ~CapsIgnores(code)))
  IN CASE code \in Invisible -> NoChar
       [] k.ctrl /\ code \in {CtrlL.code, CtrlU.code} -> Char(code, "ctrl")
       [] OTHER -> c

\* intrKeyBoardHandler: a code that came after 0xe0 is 0xe800 | byte, which is
\* none of the codes with 0xe0 that are asked for
Decode(k, byte) ==
  LET code == IF k.ext THEN \hE800 + byte ELSE byte
      s == [k EXCEPT !.ext = FALSE]
  IN CASE byte = \hE0 -> [kbd |-> [k EXCEPT !.ext = TRUE], char |-> NoChar]
       [] byte # \hE0 /\ (code \div 128) % 2 = 1 -> [kbd |-> BreakCode(s, code), char |-> NoChar]
       [] byte # \hE0 /\ code \in (1..\h3A) \cup {\hE01D, \hE038} ->
            [kbd |-> MakeCode(s, code), char |-> Meant(s, code)]
       [] OTHER -> [kbd |-> s, char |-> NoChar]

\* with the queue full the handler waits: see Keyboard
KeyIntr ==
  /\ port # <<>>
  /\ Len(queue) < Size
  /\ LET d == Decode(kbd, Head(port))
     IN /\ kbd' = d.kbd
        /\ queue' = IF d.char = NoChar THEN queue ELSE Append(queue, d.char)
  /\ port' = Tail(port)
  /\ UNCHANGED <<held, caps, line, words, typed, shown, odd>>

-----------------------------------------------------------------------------
(* The user *)

Letters == (\h10..\h19) \cup (\h1E..\h26) \cup (\h2C..\h32)

Shifts == {k \in held : ~k.ext /\ k.code \in ShiftMakes}
Ctrls == {k \in held : ~k.ext /\ k.code = CtrlMake}

\* what the user expects of a key: right Ctrl is no Ctrl
Expected(key) ==
  LET shift == (Shifts # {}) # (caps /\ key.code \in Letters)
  IN IF Ctrls # {} /\ key.code \in {CtrlL.code, CtrlU.code} THEN Char(key.code, "ctrl")
     ELSE Keymap(key.code, shift)

Sends(key, code) == IF key.ext THEN <<\hE0, code>> ELSE <<code>>

\* keys with a character in keymap; the ones behind it do nothing
Visible(key) == ~key.ext /\ key.code \in (1..\h3A) \ Invisible

\* a key goes down, or repeats itself while it is down; bound: none after both
\* shift keys were down
Press(key) ==
  LET another == ~key.ext /\ key.code \in ShiftMakes /\ Shifts \ {key} # {}
  IN /\ ~odd
     /\ Len(port) + 2 <= MaxPort
     /\ held' = IF Visible(key) THEN held ELSE held \cup {key}
     /\ caps' = (caps \/ (key.code = CapsMake /\ ~key.ext))
     /\ port' = port \o Sends(key, key.code)
     /\ typed' = IF Visible(key) THEN Append(typed, Expected(key)) ELSE typed
     /\ odd' = another
     /\ UNCHANGED <<kbd, queue, line, words, shown>>

Release(key) ==
  /\ key \in held \/ Visible(key)
  /\ Len(port) + 2 <= MaxPort
  /\ held' = held \ {key}
  /\ port' = port \o Sends(key, key.code + 128)
  /\ UNCHANGED <<caps, kbd, queue, line, words, typed, shown, odd>>

-----------------------------------------------------------------------------
(* The shell *)

NoLine == [text |-> <<>>, at |-> "reads"]
NoWords == [argc |-> 0, argv |-> <<>>]

\* mutant of EraseLine: the first character stays
EraseLineButOne(text) == IF text = <<>> THEN text ELSE <<Head(text)>>

EraseLine(text) == <<>>

\* one turn of readLine's loop with the character c in *pos; the loop ends at a
\* line end, or with c one place behind the buffer
Edited(l, c) ==
  LET first == IF l.text = <<>> THEN c ELSE Head(l.text)
  IN CASE Len(l.text) >= CmdLen -> [l EXCEPT !.at = "too long"]
       [] Len(l.text) < CmdLen /\ c = Enter -> [l EXCEPT !.at = "has a line"]
       [] Len(l.text) < CmdLen /\ c = Backspace ->
            IF first # Backspace THEN [l EXCEPT !.text = Front(@)] ELSE l
       [] Len(l.text) < CmdLen /\ c = CtrlL -> l
       [] Len(l.text) < CmdLen /\ c = CtrlU -> [l EXCEPT !.text = EraseLine(@)]
       [] OTHER -> [l EXCEPT !.text = Append(@, c)]

\* what the user sees of a character: typed text, and less of it
See(text, c) ==
  CASE c = Backspace -> IF text = <<>> THEN text ELSE Front(text)
    [] c = CtrlU -> <<>>
    [] c \in {CtrlL, Enter} -> text
    [] OTHER -> Append(text, c)

ReadChar ==
  /\ line.at = "reads"
  /\ queue # <<>>
  /\ line' = Edited(line, Head(queue))
  /\ queue' = Tail(queue)
  /\ shown' = See(shown, Head(typed))
  /\ typed' = Tail(typed)
  /\ UNCHANGED <<held, caps, port, kbd, words, odd>>

\* mutant of ParseChar: a word begins behind every blank
ParseCharEach(argv, text, i) ==
  IF text[i] = Blank THEN Append(argv, <<>>)
  ELSE IF i = 1 THEN <<<<text[i]>>>> ELSE [argv EXCEPT ![Len(argv)] = Append(@, text[i])]

\* a word begins where no blank follows a blank or nothing
ParseChar(argv, text, i) ==
  IF text[i] = Blank THEN argv
  ELSE IF i = 1 \/ text[i - 1] = Blank THEN Append(argv, <<text[i]>>)
  ELSE [argv EXCEPT ![Len(argv)] = Append(@, text[i])]

\* the loop of cmdParse over the line
Argv(text) ==
  LET argv[i \in 0..Len(text)] == IF i = 0 THEN <<>> ELSE ParseChar(argv[i - 1], text, i)
  IN argv[Len(text)]

\* cmdParse: the test comes one word too late
CmdParse(text) ==
  LET argc == Len(Argv(text))
  IN [argc |-> IF argc > MaxArgs + 1 THEN -1 ELSE argc, argv |-> Argv(text)]

Parse ==
  /\ line.at = "has a line"
  /\ line.text # <<>>
  /\ words' = CmdParse(line.text)
  /\ line' = [line EXCEPT !.at = "has words"]
  /\ UNCHANGED <<held, caps, port, kbd, queue, typed, shown, odd>>

\* the command is done, or the line is empty; what is in the buffer of a line
\* that was too long has no end, and the command it makes depends on what is
\* behind it
NextLine ==
  /\ line.at \in {"has words", "too long"} \/ (line.at = "has a line" /\ line.text = <<>>)
  /\ line' = NoLine
  /\ words' = NoWords
  /\ shown' = <<>>
  /\ UNCHANGED <<held, caps, port, kbd, queue, typed, odd>>

-----------------------------------------------------------------------------

Init ==
  /\ held = {} /\ caps = FALSE /\ port = <<>>
  /\ kbd = KeysUp /\ queue = <<>>
  /\ line = NoLine /\ words = NoWords
  /\ typed = <<>> /\ shown = <<>> /\ odd = FALSE

Next == \/ \E key \in Keys : Press(key) \/ Release(key)
        \/ KeyIntr \/ ReadChar \/ Parse \/ NextLine

Spec == Init /\ [][Next]_vars

-----------------------------------------------------------------------------
(* Properties *)

\* With nothing on its way the handler's flags agree with the keys: Ctrl with the
\* left Ctrl key, whatever the right one does, and shift is never on with both
\* shift keys up, nor off with one down that was pressed alone.
ModifiersHeld ==
  port = <<>> => /\ ~kbd.ext
                 /\ kbd.ctrl <=> Ctrls # {}
                 /\ kbd.shift => Shifts # {}
                 /\ ~odd => (Shifts # {} => kbd.shift)
                 /\ kbd.caps <=> caps

\* The line is at every moment what the user sees, for every order of keys,
\* interrupts and reads, and no character is lost or made up on the way, unless
\* the line is too long or both shift keys were down at once.
LineIsTyped ==
  ~odd /\ line.at # "too long" =>
    /\ line.text = shown
    /\ port = <<>> => queue = typed
    /\ IsPrefix(queue, typed)

\* a longest part of the text without a blank, from i to j
IsWord(text, i, j) == /\ i <= j
                      /\ \A n \in i..j : text[n] # Blank
                      /\ i = 1 \/ text[i - 1] = Blank
                      /\ j = Len(text) \/ text[j + 1] = Blank

Parts(text) == {p \in (1..Len(text)) \X (1..Len(text)) : IsWord(text, p[1], p[2])}

\* the words of a text, in order
Words(text) ==
  [n \in 1..Cardinality(Parts(text)) |->
     LET p == CHOOSE q \in Parts(text) : Cardinality({r \in Parts(text) : r[1] <= q[1]}) = n
     IN SubSeq(text, p[1], p[2])]

\* argv names the words of the line, however many blanks are between them, and a
\* line with two words too many is refused.
ArgvIsWords ==
  line.at = "has words" =>
    /\ words.argc # -1 => words.argv = Words(line.text) /\ words.argc = Len(Words(line.text))
    /\ words.argc = -1 <=> Len(Words(line.text)) >= MaxArgs + 2
=============================================================================
