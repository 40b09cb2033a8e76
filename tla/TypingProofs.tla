---------------------------- MODULE TypingProofs ----------------------------
(***************************************************************************)
(* The flags of the keyboard handler agree with the keys, the line of the  *)
(* shell is what was typed and its words are in argv, for every set of     *)
(* keys, every number of bytes on their way, and every length of the queue *)
(* and the line.                                                           *)
(***************************************************************************)
EXTENDS Typing, SequenceTheorems, FiniteSetTheorems, FunctionTheorems,
        WellFoundedInduction, TLAPS

Bytes == 1..255
Flags == [ext : BOOLEAN, ctrl : BOOLEAN, shift : BOOLEAN, caps : BOOLEAN]

CtrlMakes == {CtrlMake}
CapsMakes == {CapsMake}
CtrlCodes == {CtrlMake, \h9D}
ShiftCodes == ShiftMakes \cup {\hAA, \hB6}

\* the bytes of p that are one of codes and have no 0xe0 before them; ext says
\* whether one came before p
Prefixed(p, ext, i) == IF i = 1 THEN ext ELSE p[i - 1] = \hE0
Plain(p, ext, codes) == {i \in DOMAIN p : ~Prefixed(p, ext, i) /\ p[i] \in codes}

\* 0xe0 is not the last byte
Complete(p, ext) == IF p = <<>> THEN ~ext ELSE p[Len(p)] # \hE0

\* what a flag will be when the bytes p are handled: set if the last of its codes
\* is one of makes
Final(p, ext, codes, makes, flag) ==
  LET at == Plain(p, ext, codes)
  IN IF at = {} THEN flag ELSE \E i \in at : (\A j \in at : j <= i) /\ p[i] \in makes

FinalCtrl == Final(port, kbd.ext, CtrlCodes, CtrlMakes, kbd.ctrl)
FinalShift == Final(port, kbd.ext, ShiftCodes, ShiftMakes, kbd.shift)
FinalCaps == Final(port, kbd.ext, CapsMakes, CapsMakes, kbd.caps)

\* The inductive invariant: 0xe0 never comes alone, and what the flags will be
\* when the bytes on their way are handled agrees with the keys.
FlagsInv ==
  /\ port \in Seq(Bytes)
  /\ kbd \in Flags
  /\ held \subseteq Keys
  /\ caps \in BOOLEAN /\ odd \in BOOLEAN
  /\ Complete(port, kbd.ext)
  /\ FinalCtrl <=> Ctrls # {}
  /\ FinalShift => Shifts # {}
  /\ ~odd => (Shifts # {} => FinalShift)
  /\ ~odd => \A k, l \in Shifts : k = l
  /\ FinalCaps <=> caps

-----------------------------------------------------------------------------
(* Bytes that are handled, and bytes that are sent *)

\* Handling the first byte changes no final value.
LEMMA FinalHandled ==
  ASSUME NEW p \in Seq(Bytes), p # <<>>, NEW ext \in BOOLEAN, NEW codes, NEW makes,
         NEW flag \in BOOLEAN, NEW next \in BOOLEAN,
         next <=> IF ~ext /\ Head(p) \in codes THEN Head(p) \in makes ELSE flag
  PROVE  Final(Tail(p), Head(p) = \hE0, codes, makes, next) <=> Final(p, ext, codes, makes, flag)
<1> DEFINE at == Plain(p, ext, codes)
           rest == Plain(Tail(p), Head(p) = \hE0, codes)
<1>1. /\ DOMAIN p = 1..Len(p) /\ Len(p) \in Nat \ {0} /\ Head(p) = p[1]
      /\ DOMAIN Tail(p) = 1..(Len(p) - 1)
      /\ \A i \in 1..(Len(p) - 1) : Tail(p)[i] = p[i + 1]
  OBVIOUS
<1>2. \A i \in 1..(Len(p) - 1) : i \in rest <=> i + 1 \in at
  BY <1>1 DEF Plain, Prefixed
<1>3. 1 \in at <=> ~ext /\ Head(p) \in codes
  BY <1>1 DEF Plain, Prefixed
<1>4. at \subseteq 1..Len(p) /\ rest \subseteq 1..(Len(p) - 1)
  BY <1>1 DEF Plain
<1> HIDE DEF at, rest
<1>5. CASE rest = {}
  <2>1. at \subseteq {1}
    BY <1>1, <1>2, <1>4, <1>5
  <2>2. CASE at = {}
    BY <1>3, <1>5, <2>2 DEF Final, at, rest
  <2>3. CASE 1 \in at
    <3>1. at = {1}
      BY <2>1, <2>3
    <3>2. Final(p, ext, codes, makes, flag) <=> p[1] \in makes
      BY <3>1 DEF Final, at
    <3> QED
      BY <1>1, <1>3, <1>5, <2>3, <3>2 DEF Final, rest
  <2> QED
    BY <2>1, <2>2, <2>3
<1>6. CASE rest # {}
  <2>1. at # {}
    BY <1>2, <1>4, <1>6
  <2>2. \A i \in rest : i + 1 \in at
    BY <1>2, <1>4
  <2>3. \A i \in at : i # 1 => i - 1 \in rest
    BY <1>1, <1>2, <1>4
  <2>4. (\E i \in rest : (\A j \in rest : j <= i) /\ Tail(p)[i] \in makes)
        => (\E i \in at : (\A j \in at : j <= i) /\ p[i] \in makes)
    <3> SUFFICES ASSUME NEW i \in rest, \A j \in rest : j <= i, Tail(p)[i] \in makes
                 PROVE  \E k \in at : (\A j \in at : j <= k) /\ p[k] \in makes
      OBVIOUS
    <3>1. i + 1 \in at /\ p[i + 1] \in makes
      BY <1>1, <1>4, <2>2
    <3>2. \A j \in at : j <= i + 1
      BY <1>1, <1>4, <2>3
    <3> QED
      BY <3>1, <3>2
  <2>5. (\E i \in at : (\A j \in at : j <= i) /\ p[i] \in makes)
        => (\E i \in rest : (\A j \in rest : j <= i) /\ Tail(p)[i] \in makes)
    <3> SUFFICES ASSUME NEW i \in at, \A j \in at : j <= i, p[i] \in makes
                 PROVE  \E k \in rest : (\A j \in rest : j <= k) /\ Tail(p)[k] \in makes
      OBVIOUS
    <3>1. PICK r \in rest : TRUE
      BY <1>6
    <3>2. r + 1 <= i /\ r \in 1..(Len(p) - 1) /\ i \in 1..Len(p)
      BY <1>4, <2>2
    <3>3. i - 1 \in rest /\ Tail(p)[i - 1] \in makes
      BY <1>1, <2>3, <3>2
    <3>4. \A j \in rest : j <= i - 1
      BY <1>4, <2>2, <3>2
    <3> QED
      BY <3>3, <3>4
  <2> QED
    BY <1>6, <2>1, <2>4, <2>5 DEF Final, at, rest
<1> QED
  BY <1>5, <1>6

\* A byte behind complete codes has no 0xe0 before it.
LEMMA PlainSent ==
  ASSUME NEW p \in Seq(Bytes), NEW ext \in BOOLEAN, NEW codes, NEW c \in Bytes,
         Complete(p, ext)
  PROVE  /\ Plain(p \o <<c>>, ext, codes)
               = Plain(p, ext, codes) \cup (IF c \in codes THEN {Len(p) + 1} ELSE {})
         /\ Plain(p, ext, codes) \subseteq 1..Len(p) /\ Len(p) \in Nat
         /\ (p \o <<c>>)[Len(p) + 1] = c
         /\ \A i \in 1..Len(p) : (p \o <<c>>)[i] = p[i]
<1> DEFINE q == p \o <<c>>
<1>1. /\ Len(p) \in Nat /\ DOMAIN p = 1..Len(p) /\ DOMAIN q = 1..(Len(p) + 1)
      /\ q[Len(p) + 1] = c
      /\ \A i \in 1..Len(p) : q[i] = p[i]
  OBVIOUS
<1>2. ~Prefixed(q, ext, Len(p) + 1)
  BY <1>1 DEF Prefixed, Complete
<1>3. \A i \in 1..Len(p) : Prefixed(q, ext, i) <=> Prefixed(p, ext, i)
  BY <1>1 DEF Prefixed
<1>4. Plain(q, ext, codes) = Plain(p, ext, codes) \cup (IF c \in codes THEN {Len(p) + 1} ELSE {})
  BY <1>1, <1>2, <1>3 DEF Plain
<1>5. Plain(p, ext, codes) \subseteq 1..Len(p)
  BY <1>1 DEF Plain
<1> QED
  BY <1>1, <1>4, <1>5

\* It decides if it is one of the flag's codes,
LEMMA FinalSentOwn ==
  ASSUME NEW p \in Seq(Bytes), NEW ext \in BOOLEAN, NEW codes, NEW makes,
         NEW flag \in BOOLEAN, NEW c \in Bytes, Complete(p, ext), c \in codes
  PROVE  Final(p \o <<c>>, ext, codes, makes, flag) <=> c \in makes
<1> DEFINE q == p \o <<c>>
           at == Plain(p, ext, codes)
           more == Plain(q, ext, codes)
           n == Len(p) + 1
<1>1. more = at \cup {n} /\ at \subseteq 1..Len(p) /\ Len(p) \in Nat /\ q[n] = c
  BY PlainSent
<1> HIDE DEF q, at, more
<1>2. n \in more /\ \A j \in more : j <= n
  BY <1>1
<1>3. \A i \in more : (\A j \in more : j <= i) => i = n
  BY <1>1, <1>2
<1>4. (\E i \in more : (\A j \in more : j <= i) /\ q[i] \in makes) <=> c \in makes
  BY <1>1, <1>2, <1>3
<1>5. more # {}
  BY <1>2
<1> QED
  BY <1>4, <1>5 DEF Final, more, q

\* and is nothing to it otherwise.
LEMMA FinalSentOther ==
  ASSUME NEW p \in Seq(Bytes), NEW ext \in BOOLEAN, NEW codes, NEW makes,
         NEW flag \in BOOLEAN, NEW c \in Bytes, Complete(p, ext), c \notin codes
  PROVE  Final(p \o <<c>>, ext, codes, makes, flag) <=> Final(p, ext, codes, makes, flag)
<1> DEFINE q == p \o <<c>>
           at == Plain(p, ext, codes)
           more == Plain(q, ext, codes)
<1>1. /\ more = at \cup (IF c \in codes THEN {Len(p) + 1} ELSE {})
      /\ at \subseteq 1..Len(p)
      /\ \A i \in 1..Len(p) : q[i] = p[i]
  BY PlainSent
<1> HIDE DEF q, at, more
<1>2. more = at /\ \A i \in at : q[i] = p[i]
  BY <1>1
<1> QED
  BY <1>2 DEF Final, more, at, q

\* A code with 0xe0 before it is nothing to any flag.
LEMMA FinalSentExt ==
  ASSUME NEW p \in Seq(Bytes), NEW ext \in BOOLEAN, NEW codes, NEW makes,
         NEW flag \in BOOLEAN, NEW c \in Bytes, \hE0 \notin codes
  PROVE  Final(p \o <<\hE0, c>>, ext, codes, makes, flag) <=> Final(p, ext, codes, makes, flag)
<1> DEFINE q == p \o <<\hE0, c>>
           n == Len(p) + 1
<1>1. /\ Len(p) \in Nat /\ DOMAIN p = 1..Len(p) /\ DOMAIN q = 1..(n + 1)
      /\ q[n] = \hE0 /\ q[n + 1] = c
      /\ \A i \in 1..Len(p) : q[i] = p[i]
  OBVIOUS
<1>2. Prefixed(q, ext, n + 1)
  BY <1>1 DEF Prefixed
<1>3. \A i \in 1..Len(p) : Prefixed(q, ext, i) <=> Prefixed(p, ext, i)
  BY <1>1 DEF Prefixed
<1>4. Plain(q, ext, codes) = Plain(p, ext, codes)
  BY <1>1, <1>2, <1>3 DEF Plain
<1>5. \A i \in Plain(p, ext, codes) : q[i] = p[i]
  BY <1>1 DEF Plain
<1> QED
  BY <1>4, <1>5 DEF Final

-----------------------------------------------------------------------------
(* The handler and the keys *)

\* The handler follows the codes of each flag that have no 0xe0 before them, and
\* ext is set by 0xe0 alone.
LEMMA Decoded ==
  ASSUME NEW k \in Flags, NEW b \in Bytes,
         NEW d, d = Decode(k, b).kbd
  PROVE  /\ d \in Flags
         /\ d.ext <=> b = \hE0
         /\ d.ctrl <=> IF ~k.ext /\ b \in CtrlCodes THEN b \in CtrlMakes ELSE k.ctrl
         /\ d.shift <=> IF ~k.ext /\ b \in ShiftCodes THEN b \in ShiftMakes ELSE k.shift
         /\ d.caps <=> IF ~k.ext /\ b \in CapsMakes THEN b \in CapsMakes ELSE k.caps
<1> USE DEF Flags, Bytes, CtrlCodes, CtrlMakes, CapsMakes, ShiftCodes, CtrlMake, ShiftMakes, CapsMake
<1> DEFINE s == [k EXCEPT !.ext = FALSE]
           e == [k EXCEPT !.ext = TRUE]
<1>1. s \in Flags /\ ~s.ext /\ s.ctrl = k.ctrl /\ s.shift = k.shift /\ s.caps = k.caps
  OBVIOUS
<1>2. CASE b = \hE0
  <2>1. e \in Flags /\ e.ext /\ e.ctrl = k.ctrl /\ e.shift = k.shift /\ e.caps = k.caps
    OBVIOUS
  <2> HIDE DEF e
  <2>2. d = e
    <3>1. Decode(k, b) = [kbd |-> e, char |-> NoChar]
      BY <1>2 DEF Decode, e
    <3> QED
      BY <3>1
  <2>3. b \notin CtrlCodes /\ b \notin ShiftCodes /\ b \notin CapsMakes
    BY <1>2
  <2> QED
    BY <1>2, <2>1, <2>2, <2>3
<1>3. CASE b # \hE0 /\ k.ext
  <2>1. BreakCode(s, \hE800 + b) = s
    BY DEF BreakCode
  <2>2. \hE800 + b \notin (1..\h3A) \cup {\hE01D, \hE038}
    OBVIOUS
  <2>3. d = s
    BY <1>3, <2>1, <2>2 DEF Decode
  <2> QED
    BY <1>1, <1>3, <2>3
<1>4. CASE b # \hE0 /\ ~k.ext /\ b >= 128
  <2>1. (b \div 128) % 2 = 1
    BY <1>4
  <2>2. d = BreakCode(s, b)
    BY <1>4, <2>1 DEF Decode
  <2>3. b \notin CtrlMakes /\ b \notin ShiftMakes /\ b \notin CapsMakes
    BY <1>4
  <2>4. CASE b = \h9D
    <3>1. d = [s EXCEPT !.ctrl = FALSE]
      BY <2>2, <2>4 DEF BreakCode
    <3>2. d \in Flags /\ ~d.ext /\ ~d.ctrl /\ d.shift = k.shift /\ d.caps = k.caps
      BY <1>1, <3>1
    <3>3. b \in CtrlCodes /\ b \notin ShiftCodes
      BY <2>4
    <3> QED
      BY <1>4, <2>3, <3>2, <3>3
  <2>5. CASE b \in {\hAA, \hB6}
    <3>1. d = [s EXCEPT !.shift = FALSE]
      BY <2>2, <2>5 DEF BreakCode
    <3>2. d \in Flags /\ ~d.ext /\ d.ctrl = k.ctrl /\ ~d.shift /\ d.caps = k.caps
      BY <1>1, <3>1
    <3>3. b \notin CtrlCodes /\ b \in ShiftCodes
      BY <2>5
    <3> QED
      BY <1>4, <2>3, <3>2, <3>3
  <2>6. CASE b \notin {\h9D, \hAA, \hB6}
    <3>1. d = s
      BY <2>2, <2>6 DEF BreakCode
    <3>2. b \notin CtrlCodes /\ b \notin ShiftCodes
      BY <2>3, <2>6
    <3> QED
      BY <1>1, <1>4, <2>3, <3>1, <3>2
  <2> QED
    BY <2>4, <2>5, <2>6
<1>5. CASE b # \hE0 /\ ~k.ext /\ b < 128
  <2>1. (b \div 128) % 2 = 0
    BY <1>5
  <2>2. CASE b \in 1..\h3A
    <3>1. d = MakeCode(s, b)
      BY <1>5, <2>1, <2>2 DEF Decode
    <3>2. CASE b = CtrlMake
      <4>1. d = [s EXCEPT !.ctrl = TRUE]
        BY <3>1, <3>2 DEF MakeCode
      <4>2. d \in Flags /\ ~d.ext /\ d.ctrl /\ d.shift = k.shift /\ d.caps = k.caps
        BY <1>1, <4>1
      <4>3. b \in CtrlCodes /\ b \notin ShiftCodes /\ b \notin CapsMakes /\ b \in CtrlMakes
        BY <3>2
      <4> QED
        BY <1>5, <4>2, <4>3
    <3>3. CASE b \in ShiftMakes
      <4>1. d = [s EXCEPT !.shift = TRUE]
        BY <3>1, <3>3 DEF MakeCode
      <4>2. d \in Flags /\ ~d.ext /\ d.ctrl = k.ctrl /\ d.shift /\ d.caps = k.caps
        BY <1>1, <4>1
      <4>3. b \notin CtrlCodes /\ b \in ShiftCodes /\ b \notin CapsMakes
        BY <3>3
      <4> QED
        BY <1>5, <3>3, <4>2, <4>3
    <3>4. CASE b = CapsMake
      <4>1. d = [s EXCEPT !.caps = TRUE]
        BY <3>1, <3>4 DEF MakeCode
      <4>2. d \in Flags /\ ~d.ext /\ d.ctrl = k.ctrl /\ d.shift = k.shift /\ d.caps
        BY <1>1, <4>1
      <4>3. b \notin CtrlCodes /\ b \notin ShiftCodes /\ b \in CapsMakes
        BY <3>4
      <4> QED
        BY <1>5, <4>2, <4>3
    <3>5. CASE b \notin CtrlMakes \cup CapsMakes \cup ShiftMakes
      <4>1. d = s
        BY <2>2, <3>1, <3>5 DEF MakeCode
      <4>2. b \notin CtrlCodes /\ b \notin ShiftCodes /\ b \notin CapsMakes
        BY <2>2, <3>5
      <4> QED
        BY <1>1, <1>5, <4>1, <4>2
    <3> QED
      BY <3>2, <3>3, <3>4, <3>5
  <2>3. CASE b \notin 1..\h3A
    <3>1. d = s
      BY <1>5, <2>1, <2>3 DEF Decode
    <3> QED
      BY <1>1, <1>5, <2>3, <3>1
  <2> QED
    BY <2>2, <2>3
<1> QED
  BY <1>2, <1>3, <1>4, <1>5

\* The handler changes nothing the flags will be.
LEMMA KeyIntrKeeps ==
  ASSUME FlagsInv, KeyIntr
  PROVE  FlagsInv'
<1>1. /\ port \in Seq(Bytes) /\ port # <<>> /\ kbd \in Flags
      /\ port' = Tail(port) /\ kbd' = Decode(kbd, Head(port)).kbd
      /\ held' = held /\ caps' = caps /\ odd' = odd
  BY DEF FlagsInv, KeyIntr
<1>2. Head(port) \in Bytes /\ Tail(port) \in Seq(Bytes)
  BY <1>1
<1>3. /\ kbd' \in Flags
      /\ kbd'.ext <=> Head(port) = \hE0
      /\ kbd'.ctrl <=> IF ~kbd.ext /\ Head(port) \in CtrlCodes THEN Head(port) \in CtrlMakes ELSE kbd.ctrl
      /\ kbd'.shift <=> IF ~kbd.ext /\ Head(port) \in ShiftCodes THEN Head(port) \in ShiftMakes ELSE kbd.shift
      /\ kbd'.caps <=> IF ~kbd.ext /\ Head(port) \in CapsMakes THEN Head(port) \in CapsMakes ELSE kbd.caps
  BY <1>1, <1>2, Decoded
<1>4. /\ kbd.ext \in BOOLEAN /\ kbd.ctrl \in BOOLEAN /\ kbd.shift \in BOOLEAN /\ kbd.caps \in BOOLEAN
      /\ kbd'.ext = (Head(port) = \hE0)
      /\ kbd'.ctrl \in BOOLEAN /\ kbd'.shift \in BOOLEAN /\ kbd'.caps \in BOOLEAN
  BY <1>1, <1>3 DEF Flags
<1>5. FinalCtrl' <=> FinalCtrl
  <2>1. Final(Tail(port), Head(port) = \hE0, CtrlCodes, CtrlMakes, kbd'.ctrl)
        <=> Final(port, kbd.ext, CtrlCodes, CtrlMakes, kbd.ctrl)
    BY <1>1, <1>3, <1>4, FinalHandled
  <2> QED
    BY <1>1, <1>4, <2>1 DEF FinalCtrl
<1>6. FinalShift' <=> FinalShift
  <2>1. Final(Tail(port), Head(port) = \hE0, ShiftCodes, ShiftMakes, kbd'.shift)
        <=> Final(port, kbd.ext, ShiftCodes, ShiftMakes, kbd.shift)
    BY <1>1, <1>3, <1>4, FinalHandled
  <2> QED
    BY <1>1, <1>4, <2>1 DEF FinalShift
<1>7. FinalCaps' <=> FinalCaps
  <2>1. Final(Tail(port), Head(port) = \hE0, CapsMakes, CapsMakes, kbd'.caps)
        <=> Final(port, kbd.ext, CapsMakes, CapsMakes, kbd.caps)
    BY <1>1, <1>3, <1>4, FinalHandled
  <2> QED
    BY <1>1, <1>4, <2>1 DEF FinalCaps
<1>8. Complete(port', kbd'.ext)
  <2> SUFFICES IF port' = <<>> THEN ~kbd'.ext ELSE port'[Len(port')] # \hE0
    BY DEF Complete
  <2>1. port[Len(port)] # \hE0
    BY <1>1 DEF FlagsInv, Complete
  <2>2. CASE Len(port) = 1
    BY <1>1, <1>3, <2>1, <2>2
  <2>3. CASE Len(port) > 1
    <3>1. Len(port') = Len(port) - 1 /\ \A i \in 1..(Len(port) - 1) : port'[i] = port[i + 1]
      BY <1>1
    <3>2. Len(port) \in Nat /\ port'[Len(port) - 1] = port[Len(port)]
      BY <1>1, <2>3, <3>1
    <3> QED
      BY <2>1, <2>3, <3>1, <3>2
  <2>4. Len(port) \in Nat \ {0}
    BY <1>1
  <2> QED
    BY <2>2, <2>3, <2>4
<1> QED
  BY <1>1, <1>2, <1>3, <1>5, <1>6, <1>7, <1>8 DEF FlagsInv, Ctrls, Shifts

\* What a code that is sent does to the final values.
LEMMA SentKeeps ==
  ASSUME FlagsInv, NEW key \in Keys, NEW c \in 1..(\hE0 - 1),
         port' = port \o Sends(key, c), kbd' = kbd
  PROVE  /\ port' \in Seq(Bytes)
         /\ Complete(port', kbd'.ext)
         /\ FinalCtrl' <=> IF ~key.ext /\ c \in CtrlCodes THEN c \in CtrlMakes ELSE FinalCtrl
         /\ FinalShift' <=> IF ~key.ext /\ c \in ShiftCodes THEN c \in ShiftMakes ELSE FinalShift
         /\ FinalCaps' <=> IF ~key.ext /\ c \in CapsMakes THEN c \in CapsMakes ELSE FinalCaps
<1>1. /\ port \in Seq(Bytes) /\ c \in Bytes /\ \hE0 \in Bytes
      /\ kbd.ext \in BOOLEAN /\ kbd.ctrl \in BOOLEAN /\ kbd.shift \in BOOLEAN /\ kbd.caps \in BOOLEAN
      /\ Complete(port, kbd.ext)
  BY DEF FlagsInv, Flags, Bytes
<1>2. CASE ~key.ext
  <2>1. port' = port \o <<c>>
    BY <1>2 DEF Sends
  <2>2. FinalCtrl' <=> IF c \in CtrlCodes THEN c \in CtrlMakes ELSE FinalCtrl
    <3>1. c \in CtrlCodes => (Final(port \o <<c>>, kbd.ext, CtrlCodes, CtrlMakes, kbd.ctrl)
                           <=> c \in CtrlMakes)
      BY <1>1, FinalSentOwn
    <3>2. c \notin CtrlCodes => (Final(port \o <<c>>, kbd.ext, CtrlCodes, CtrlMakes, kbd.ctrl)
                           <=> Final(port, kbd.ext, CtrlCodes, CtrlMakes, kbd.ctrl))
      BY <1>1, FinalSentOther
    <3> QED
      BY <2>1, <3>1, <3>2 DEF FinalCtrl
  <2>3. FinalShift' <=> IF c \in ShiftCodes THEN c \in ShiftMakes ELSE FinalShift
    <3>1. c \in ShiftCodes => (Final(port \o <<c>>, kbd.ext, ShiftCodes, ShiftMakes, kbd.shift)
                           <=> c \in ShiftMakes)
      BY <1>1, FinalSentOwn
    <3>2. c \notin ShiftCodes => (Final(port \o <<c>>, kbd.ext, ShiftCodes, ShiftMakes, kbd.shift)
                           <=> Final(port, kbd.ext, ShiftCodes, ShiftMakes, kbd.shift))
      BY <1>1, FinalSentOther
    <3> QED
      BY <2>1, <3>1, <3>2 DEF FinalShift
  <2>4. FinalCaps' <=> IF c \in CapsMakes THEN c \in CapsMakes ELSE FinalCaps
    <3>1. c \in CapsMakes => (Final(port \o <<c>>, kbd.ext, CapsMakes, CapsMakes, kbd.caps)
                           <=> c \in CapsMakes)
      BY <1>1, FinalSentOwn
    <3>2. c \notin CapsMakes => (Final(port \o <<c>>, kbd.ext, CapsMakes, CapsMakes, kbd.caps)
                           <=> Final(port, kbd.ext, CapsMakes, CapsMakes, kbd.caps))
      BY <1>1, FinalSentOther
    <3> QED
      BY <2>1, <3>1, <3>2 DEF FinalCaps
  <2>5. port' \in Seq(Bytes) /\ port' # <<>> /\ port'[Len(port')] = c
    BY <1>1, <2>1
  <2> QED
    BY <1>2, <2>2, <2>3, <2>4, <2>5 DEF Complete
<1>3. CASE key.ext
  <2>1. port' = port \o <<\hE0, c>>
    BY <1>3 DEF Sends
  <2>2. \hE0 \notin CtrlCodes /\ \hE0 \notin ShiftCodes /\ \hE0 \notin CapsMakes
    BY DEF CtrlCodes, ShiftCodes, CapsMakes, CtrlMake, ShiftMakes, CapsMake
  <2>3. FinalCtrl' <=> FinalCtrl
    BY <1>1, <2>1, <2>2, FinalSentExt DEF FinalCtrl
  <2>4. FinalShift' <=> FinalShift
    BY <1>1, <2>1, <2>2, FinalSentExt DEF FinalShift
  <2>5. FinalCaps' <=> FinalCaps
    BY <1>1, <2>1, <2>2, FinalSentExt DEF FinalCaps
  <2>6. port' \in Seq(Bytes) /\ port' # <<>> /\ port'[Len(port')] = c
    BY <1>1, <2>1
  <2> QED
    BY <1>3, <2>3, <2>4, <2>5, <2>6 DEF Complete
<1> QED
  BY <1>2, <1>3

\* A key that goes down.
LEMMA PressKeeps ==
  ASSUME FlagsInv, NEW key \in Keys, Press(key)
  PROVE  FlagsInv'
<1> DEFINE shift == ~key.ext /\ key.code \in ShiftMakes
           ctrl == ~key.ext /\ key.code = CtrlMake
<1>1. /\ ~odd /\ port' = port \o Sends(key, key.code) /\ kbd' = kbd
      /\ held' = (IF Visible(key) THEN held ELSE held \cup {key})
      /\ caps' = (caps \/ (key.code = CapsMake /\ ~key.ext))
      /\ odd' = (shift /\ Shifts \ {key} # {})
  BY DEF Press
<1>2. key.ext \in BOOLEAN /\ key.code \in 1..\h5D
  BY TypingAssumption
<1>3. /\ kbd \in Flags /\ held \subseteq Keys /\ caps \in BOOLEAN
      /\ FinalCtrl <=> Ctrls # {}
      /\ Shifts # {} <=> FinalShift
      /\ \A k, l \in Shifts : k = l
      /\ FinalCaps <=> caps
  BY <1>1 DEF FlagsInv
<1>4. /\ key.code \in CtrlCodes <=> key.code = CtrlMake
      /\ key.code \in ShiftCodes <=> key.code \in ShiftMakes
  BY <1>2 DEF CtrlCodes, ShiftCodes, CtrlMake, ShiftMakes
<1>5. key.code \in 1..(\hE0 - 1)
  BY <1>2
<1>6. /\ port' \in Seq(Bytes)
      /\ Complete(port', kbd'.ext)
      /\ FinalCtrl' <=> IF ~key.ext /\ key.code \in CtrlCodes THEN key.code \in CtrlMakes ELSE FinalCtrl
      /\ FinalShift' <=> IF ~key.ext /\ key.code \in ShiftCodes THEN key.code \in ShiftMakes ELSE FinalShift
      /\ FinalCaps' <=> IF ~key.ext /\ key.code \in CapsMakes THEN key.code \in CapsMakes ELSE FinalCaps
  BY <1>1, <1>5, SentKeeps
<1>7. shift \/ ctrl => held' = held \cup {key}
  BY <1>1 DEF Visible, Invisible
<1>8. held' = held \/ held' = held \cup {key}
  BY <1>1
<1>9. Shifts' = IF shift THEN Shifts \cup {key} ELSE Shifts
  BY <1>7, <1>8 DEF Shifts
<1>10. Ctrls' = IF ctrl THEN Ctrls \cup {key} ELSE Ctrls
  BY <1>7, <1>8 DEF Ctrls
<1>11. FinalCtrl' <=> Ctrls' # {}
  BY <1>3, <1>4, <1>6, <1>10 DEF CtrlMakes
<1>12. FinalCaps' <=> caps'
  BY <1>1, <1>3, <1>6 DEF CapsMakes
<1>13. /\ FinalShift' <=> Shifts' # {}
       /\ ~odd' => \A k, l \in Shifts' : k = l
  <2>1. CASE shift
    BY <1>1, <1>4, <1>6, <1>9, <2>1
  <2>2. CASE ~shift
    BY <1>3, <1>4, <1>6, <1>9, <2>2
  <2> QED
    BY <2>1, <2>2
<1>14. held' \subseteq Keys /\ caps' \in BOOLEAN /\ odd' \in BOOLEAN /\ kbd' \in Flags
  BY <1>1, <1>3, <1>8
<1> QED
  BY <1>6, <1>11, <1>12, <1>13, <1>14 DEF FlagsInv

\* A key that comes up.
LEMMA ReleaseKeeps ==
  ASSUME FlagsInv, NEW key \in Keys, Release(key)
  PROVE  FlagsInv'
<1> DEFINE c == key.code + 128
           shift == ~key.ext /\ key.code \in ShiftMakes
           ctrl == ~key.ext /\ key.code = CtrlMake
<1>1. /\ key \in held \/ Visible(key)
      /\ port' = port \o Sends(key, c) /\ kbd' = kbd
      /\ held' = held \ {key} /\ caps' = caps /\ odd' = odd
  BY DEF Release
<1>2. key.ext \in BOOLEAN /\ key.code \in 1..\h5D
  BY TypingAssumption
<1>3. /\ kbd \in Flags /\ held \subseteq Keys /\ caps \in BOOLEAN /\ odd \in BOOLEAN
      /\ FinalCtrl <=> Ctrls # {}
      /\ FinalShift => Shifts # {}
      /\ ~odd => (Shifts # {} => FinalShift)
      /\ ~odd => \A k, l \in Shifts : k = l
      /\ FinalCaps <=> caps
  BY DEF FlagsInv
<1>4. /\ c \in CtrlCodes <=> key.code = CtrlMake
      /\ c \in ShiftCodes <=> key.code \in ShiftMakes
      /\ c \notin CtrlMakes /\ c \notin ShiftMakes /\ c \notin CapsMakes
  BY <1>2 DEF CtrlCodes, ShiftCodes, CtrlMakes, CapsMakes, CtrlMake, ShiftMakes, CapsMake
<1>5. c \in 1..(\hE0 - 1)
  BY <1>2
<1> HIDE DEF c
<1>6. /\ port' \in Seq(Bytes)
      /\ Complete(port', kbd'.ext)
      /\ FinalCtrl' <=> IF ~key.ext /\ c \in CtrlCodes THEN c \in CtrlMakes ELSE FinalCtrl
      /\ FinalShift' <=> IF ~key.ext /\ c \in ShiftCodes THEN c \in ShiftMakes ELSE FinalShift
      /\ FinalCaps' <=> IF ~key.ext /\ c \in CapsMakes THEN c \in CapsMakes ELSE FinalCaps
  BY <1>1, <1>5, SentKeeps
<1>7. Shifts' = Shifts \ {key} /\ Ctrls' = Ctrls \ {key}
  BY <1>1 DEF Shifts, Ctrls
<1>8. FinalCtrl' <=> Ctrls' # {}
  <2>1. CASE ctrl
    <3>1. \A k \in Ctrls : k = key
      BY <1>3, <2>1, TypingAssumption DEF Ctrls
    <3> QED
      BY <1>4, <1>6, <1>7, <2>1, <3>1
  <2>2. CASE ~ctrl
    <3>1. key \notin Ctrls
      BY <2>2 DEF Ctrls
    <3> QED
      BY <1>3, <1>4, <1>6, <1>7, <2>2, <3>1
  <2> QED
    BY <2>1, <2>2
<1>9. FinalShift' => Shifts' # {}
  <2>1. CASE shift
    BY <1>4, <1>6, <2>1
  <2>2. CASE ~shift
    <3>1. key \notin Shifts
      BY <2>2 DEF Shifts
    <3> QED
      BY <1>3, <1>4, <1>6, <1>7, <2>2, <3>1
  <2> QED
    BY <2>1, <2>2
<1>10. ASSUME ~odd'
       PROVE  /\ Shifts' # {} => FinalShift'
              /\ \A k, l \in Shifts' : k = l
  <2>1. CASE shift
    <3>1. key \in Shifts
      BY <1>1, <2>1 DEF Visible, Invisible, Shifts
    <3>2. Shifts' = {}
      BY <1>1, <1>3, <1>7, <1>10, <3>1
    <3> QED
      BY <3>2
  <2>2. CASE ~shift
    <3>1. key \notin Shifts
      BY <2>2 DEF Shifts
    <3> QED
      BY <1>1, <1>3, <1>4, <1>6, <1>7, <1>10, <2>2, <3>1
  <2> QED
    BY <2>1, <2>2
<1>11. FinalCaps' <=> caps'
  BY <1>1, <1>3, <1>4, <1>6
<1>12. held' \subseteq Keys /\ caps' \in BOOLEAN /\ odd' \in BOOLEAN /\ kbd' \in Flags
  BY <1>1, <1>3
<1> QED
  BY <1>6, <1>8, <1>9, <1>10, <1>11, <1>12 DEF FlagsInv

-----------------------------------------------------------------------------

\* In every behaviour what the flags of the handler will be agrees with the keys,
\* whatever is on its way.
THEOREM TypingFlags == Spec => []FlagsInv
<1>1. Init => FlagsInv
  <2> SUFFICES ASSUME Init PROVE FlagsInv
    OBVIOUS
  <2>1. /\ held = {} /\ caps = FALSE /\ port = <<>> /\ kbd = KeysUp /\ odd = FALSE
    BY DEF Init
  <2>2. \A codes : Plain(port, kbd.ext, codes) = {}
    BY <2>1 DEF Plain
  <2>3. ~FinalCtrl /\ ~FinalShift /\ ~FinalCaps
    BY <2>1, <2>2 DEF FinalCtrl, FinalShift, FinalCaps, Final, KeysUp
  <2>4. Ctrls = {} /\ Shifts = {}
    BY <2>1 DEF Ctrls, Shifts
  <2>5. kbd \in Flags /\ port \in Seq(Bytes) /\ Complete(port, kbd.ext)
    BY <2>1 DEF KeysUp, Flags, Complete
  <2> QED
    BY <2>1, <2>3, <2>4, <2>5 DEF FlagsInv
<1>2. FlagsInv /\ [Next]_vars => FlagsInv'
  <2> SUFFICES ASSUME FlagsInv, [Next]_vars PROVE FlagsInv'
    OBVIOUS
  <2>1. ASSUME NEW key \in Keys, Press(key) PROVE FlagsInv'
    BY <2>1, PressKeeps
  <2>2. ASSUME NEW key \in Keys, Release(key) PROVE FlagsInv'
    BY <2>2, ReleaseKeeps
  <2>3. CASE KeyIntr
    BY <2>3, KeyIntrKeeps
  <2>4. CASE UNCHANGED <<held, caps, port, kbd, odd>>
    BY <2>4 DEF FlagsInv, FinalCtrl, FinalShift, FinalCaps, Ctrls, Shifts
  <2>5. CASE ReadChar
    BY <2>4, <2>5 DEF ReadChar
  <2>6. CASE Parse
    BY <2>4, <2>6 DEF Parse
  <2>7. CASE NextLine
    BY <2>4, <2>7 DEF NextLine
  <2>8. CASE UNCHANGED vars
    BY <2>4, <2>8 DEF vars
  <2> QED
    BY <2>1, <2>2, <2>3, <2>5, <2>6, <2>7, <2>8 DEF Next
<1> QED
  BY <1>1, <1>2, PTL DEF Spec

\* With nothing on its way the flags agree with the keys: Ctrl, shift and caps lock
\* are what the user holds, for any keys and any number of bytes in between.
THEOREM TypingModifiersHeld == Spec => []ModifiersHeld
<1>1. FlagsInv => ModifiersHeld
  <2> SUFFICES ASSUME FlagsInv, port = <<>>
               PROVE  /\ ~kbd.ext
                      /\ kbd.ctrl <=> Ctrls # {}
                      /\ kbd.shift => Shifts # {}
                      /\ ~odd => (Shifts # {} => kbd.shift)
                      /\ kbd.caps <=> caps
    BY DEF ModifiersHeld
  <2>1. \A codes : Plain(port, kbd.ext, codes) = {}
    BY DEF Plain
  <2>2. /\ FinalCtrl <=> kbd.ctrl
        /\ FinalShift <=> kbd.shift
        /\ FinalCaps <=> kbd.caps
    BY <2>1 DEF FinalCtrl, FinalShift, FinalCaps, Final
  <2>3. ~kbd.ext
    BY DEF FlagsInv, Complete
  <2> QED
    BY <2>2, <2>3 DEF FlagsInv
<1> QED
  BY <1>1, TypingFlags, PTL

-----------------------------------------------------------------------------
(* From the bytes on their way to the line *)

Chars == [code : 1..\h3A, kind : {"plain", "shift", "ctrl"}]

\* flags that are what the user holds down
Agree(k, ctrls, shifts, on) == /\ ~k.ext
                               /\ k.ctrl <=> ctrls # {}
                               /\ k.shift <=> shifts # {}
                               /\ k.caps <=> on

\* one byte b handled: the flags, and how many of the characters t are in the queue
Handled(from, to, b, t) ==
  LET d == Decode(from.kbd, b)
  IN /\ to.kbd = d.kbd
     /\ d.char = NoChar => to.count = from.count
     /\ d.char # NoChar => to.count = from.count + 1 /\ t[to.count] = d.char

\* way is what handling the bytes p will do, beginning with the flags k and n of
\* the characters t, and all of t will be in the queue at its end.
IsWay(way, p, k, n, t) ==
  /\ way \in [0..Len(p) -> [kbd : Flags, count : 0..Len(t)]]
  /\ way[0] = [kbd |-> k, count |-> n]
  /\ \A i \in 1..Len(p) : Handled(way[i - 1], way[i], p[i], t)
  /\ \A i, j \in 0..Len(p) : i <= j => way[i].count <= way[j].count
  /\ way[Len(p)].count = Len(t)

\* a line that does not begin with a backspace
IsLine(l) == /\ l \in [text : Seq(Chars), at : {"reads", "has a line", "has words", "too long"}]
             /\ l.text # <<>> => Head(l.text) # Backspace

\* The inductive invariant: the queue begins what the user typed, the bytes on
\* their way make the rest of it, and the line is the one the user sees.
TypedInv ==
  ~odd =>
    /\ queue \in Seq(Chars) /\ typed \in Seq(Chars)
    /\ Len(queue) <= Len(typed)
    /\ \A j \in 1..Len(queue) : queue[j] = typed[j]
    /\ \E way : IsWay(way, port, kbd, Len(queue), typed) /\ Agree(way[Len(port)].kbd, Ctrls, Shifts, caps)
    /\ IsLine(line)
    /\ line.at # "too long" => line.text = shown

\* The first byte is handled.
LEMMA WayHandled ==
  ASSUME NEW p \in Seq(Bytes), p # <<>>, NEW t \in Seq(Chars), NEW n \in Nat, NEW k,
         NEW way, IsWay(way, p, k, n, t),
         NEW next, next = [i \in 0..(Len(p) - 1) |-> way[i + 1]]
  PROVE  /\ IsWay(next, Tail(p), Decode(k, Head(p)).kbd, way[1].count, t)
         /\ next[Len(Tail(p))] = way[Len(p)]
         /\ Handled(way[0], way[1], Head(p), t)
         /\ way[0] = [kbd |-> k, count |-> n] /\ way[1].count \in 0..Len(t)
<1>1. /\ Len(p) \in Nat \ {0} /\ Head(p) = p[1]
      /\ Tail(p) \in Seq(Bytes) /\ Len(Tail(p)) = Len(p) - 1
      /\ \A i \in 1..(Len(p) - 1) : Tail(p)[i] = p[i + 1]
  OBVIOUS
<1>2. /\ way \in [0..Len(p) -> [kbd : Flags, count : 0..Len(t)]]
      /\ way[0] = [kbd |-> k, count |-> n]
      /\ \A i \in 1..Len(p) : Handled(way[i - 1], way[i], p[i], t)
      /\ \A i, j \in 0..Len(p) : i <= j => way[i].count <= way[j].count
      /\ way[Len(p)].count = Len(t)
  BY DEF IsWay
<1>3. next \in [0..(Len(p) - 1) -> [kbd : Flags, count : 0..Len(t)]]
  BY <1>1, <1>2
<1>4. Handled(way[0], way[1], p[1], t) /\ way[1] \in [kbd : Flags, count : 0..Len(t)]
  <2>1. 1 \in 1..Len(p) /\ 1 \in 0..Len(p) /\ 1 - 1 = 0
    BY <1>1
  <2> QED
    BY <1>2, <2>1
<1>5. next[0] = [kbd |-> Decode(k, Head(p)).kbd, count |-> way[1].count]
  <2>1. next[0] = way[1]
    BY <1>1
  <2>2. way[1].kbd = Decode(k, Head(p)).kbd
    BY <1>1, <1>2, <1>4 DEF Handled
  <2> QED
    BY <1>4, <2>1, <2>2
<1>6. \A i \in 1..(Len(p) - 1) : Handled(next[i - 1], next[i], Tail(p)[i], t)
  <2>1. TAKE i \in 1..(Len(p) - 1)
  <2>2. i + 1 \in 1..Len(p) /\ (i + 1) - 1 = i /\ (i - 1) + 1 = i
        /\ i \in 0..(Len(p) - 1) /\ i - 1 \in 0..(Len(p) - 1)
    BY <1>1
  <2>3. Handled(way[i], way[i + 1], p[i + 1], t)
    BY <1>2, <2>2
  <2>4. next[i] = way[i + 1] /\ next[i - 1] = way[i]
    BY <2>2
  <2> QED
    BY <1>1, <2>3, <2>4
<1>7. \A i, j \in 0..(Len(p) - 1) : i <= j => next[i].count <= next[j].count
  <2>1. TAKE i, j \in 0..(Len(p) - 1)
  <2>2. i + 1 \in 0..Len(p) /\ j + 1 \in 0..Len(p) /\ (i <= j => i + 1 <= j + 1)
    BY <1>1
  <2>3. i + 1 <= j + 1 => way[i + 1].count <= way[j + 1].count
    BY <1>2, <2>2
  <2>4. next[i] = way[i + 1] /\ next[j] = way[j + 1]
    OBVIOUS
  <2> QED
    BY <2>2, <2>3, <2>4
<1>8. next[Len(p) - 1] = way[Len(p)]
  BY <1>1
<1> QED
  BY <1>1, <1>2, <1>3, <1>4, <1>5, <1>6, <1>7, <1>8 DEF IsWay

\* the characters with the one that decoding made, if it made one
Longer(t, c) == IF c = NoChar THEN t ELSE Append(t, c)

\* A byte is sent, and with it a character if it makes one.
LEMMA WaySent ==
  ASSUME NEW p \in Seq(Bytes), NEW t \in Seq(Chars), NEW n \in Nat, NEW k,
         NEW way, IsWay(way, p, k, n, t),
         NEW b \in Bytes, NEW d, d = Decode(way[Len(p)].kbd, b), d.kbd \in Flags,
         d.char # NoChar => d.char \in Chars,
         NEW u, u = Longer(t, d.char)
  PROVE  /\ u \in Seq(Chars) /\ Len(t) <= Len(u) /\ \A i \in 1..Len(t) : u[i] = t[i]
         /\ Append(p, b) \in Seq(Bytes) /\ Len(Append(p, b)) = Len(p) + 1
         /\ \E next : IsWay(next, Append(p, b), k, n, u) /\ next[Len(p) + 1].kbd = d.kbd
<1> DEFINE m == Len(p)
           next == [i \in 0..(m + 1) |-> IF i <= m THEN way[i]
                                         ELSE [kbd |-> d.kbd, count |-> Len(u)]]
           q == Append(p, b)
<1>1. /\ m \in Nat /\ q \in Seq(Bytes) /\ Len(q) = m + 1
      /\ \A i \in 1..m : q[i] = p[i]
      /\ q[m + 1] = b
  OBVIOUS
<1>2. /\ way \in [0..m -> [kbd : Flags, count : 0..Len(t)]]
      /\ way[0] = [kbd |-> k, count |-> n]
      /\ \A i \in 1..m : Handled(way[i - 1], way[i], p[i], t)
      /\ \A i, j \in 0..m : i <= j => way[i].count <= way[j].count
      /\ way[m].count = Len(t)
  BY DEF IsWay
<1>3. /\ u \in Seq(Chars) /\ Len(u) \in Nat /\ Len(t) \in Nat
      /\ d.char = NoChar => Len(u) = Len(t)
      /\ d.char # NoChar => Len(u) = Len(t) + 1 /\ u[Len(u)] = d.char
      /\ Len(t) <= Len(u)
      /\ \A i \in 1..Len(t) : u[i] = t[i]
  BY DEF Longer
<1> HIDE DEF m, q
<1>4. /\ next \in [0..(m + 1) -> [kbd : Flags, count : 0..Len(u)]]
      /\ next[m + 1] = [kbd |-> d.kbd, count |-> Len(u)]
      /\ \A i \in 0..m : next[i] = way[i]
  <2>1. m + 1 \in 0..(m + 1) /\ ~(m + 1 <= m) /\ \A i \in 0..m : i \in 0..(m + 1) /\ i <= m
    BY <1>1
  <2>2. \A i \in 0..m : way[i] \in [kbd : Flags, count : 0..Len(u)]
    <3>1. 0..Len(t) \subseteq 0..Len(u)
      BY <1>3
    <3> QED
      BY <1>2, <3>1
  <2>3. [kbd |-> d.kbd, count |-> Len(u)] \in [kbd : Flags, count : 0..Len(u)]
    BY <1>3
  <2>4. \A i \in 0..(m + 1) : i <= m => i \in 0..m
    BY <1>1
  <2> QED
    BY <2>1, <2>2, <2>3, <2>4
<1> HIDE DEF next
<1>5. \A i \in 1..m : Handled(next[i - 1], next[i], q[i], u)
  <2>1. TAKE i \in 1..m
  <2>2. i \in 0..m /\ i - 1 \in 0..m
    BY <1>1
  <2>3. Handled(way[i - 1], way[i], p[i], t)
    BY <1>2
  <2>4. /\ next[i] = way[i] /\ next[i - 1] = way[i - 1] /\ q[i] = p[i]
        /\ way[i].count \in 0..Len(t) /\ way[i - 1].count \in 0..Len(t)
    BY <1>1, <1>2, <1>4, <2>2
  <2>5. way[i].count = way[i - 1].count + 1 => u[way[i].count] = t[way[i].count]
    BY <1>3, <2>4
  <2> QED
    BY <2>3, <2>4, <2>5 DEF Handled
<1>6. Handled(next[m], next[m + 1], q[m + 1], u)
  <2>1. next[m] = way[m]
    BY <1>1, <1>4
  <2> QED
    BY <1>1, <1>2, <1>3, <1>4, <2>1 DEF Handled, m
<1>7. \A i \in 1..(m + 1) : Handled(next[i - 1], next[i], q[i], u)
  <2>1. TAKE i \in 1..(m + 1)
  <2>2. i \in 1..m \/ (i = m + 1 /\ i - 1 = m)
    BY <1>1
  <2> QED
    BY <1>5, <1>6, <2>2
<1>8. \A i, j \in 0..(m + 1) : i <= j => next[i].count <= next[j].count
  <2>1. TAKE i, j \in 0..(m + 1)
  <2>2. CASE j = m + 1
    <3>1. next[i].count \in 0..Len(u) /\ next[j].count = Len(u)
      BY <1>4, <2>2
    <3> QED
      BY <1>3, <3>1
  <2>3. CASE j # m + 1
    <3>1. i <= j => i \in 0..m /\ j \in 0..m
      BY <1>1, <2>3
    <3> QED
      BY <1>2, <1>4, <3>1
  <2> QED
    BY <2>2, <2>3
<1>9. next[0] = [kbd |-> k, count |-> n]
  <2>1. 0 \in 0..m
    BY <1>1
  <2> QED
    BY <1>2, <1>4, <2>1
<1>10. IsWay(next, q, k, n, u) /\ next[m + 1].kbd = d.kbd
  BY <1>1, <1>4, <1>7, <1>8, <1>9 DEF IsWay
<1> QED
  BY <1>1, <1>3, <1>10 DEF m, q

\* The shell reads the first character.
LEMMA WayRead ==
  ASSUME NEW p \in Seq(Bytes), NEW t \in Seq(Chars), NEW n \in Nat \ {0}, NEW k,
         NEW way, IsWay(way, p, k, n, t),
         NEW next, next = [i \in 0..Len(p) |-> [kbd |-> way[i].kbd, count |-> way[i].count - 1]]
  PROVE  /\ IsWay(next, p, k, n - 1, Tail(t))
         /\ next[Len(p)].kbd = way[Len(p)].kbd
<1>1. /\ way \in [0..Len(p) -> [kbd : Flags, count : 0..Len(t)]]
      /\ way[0] = [kbd |-> k, count |-> n]
      /\ \A i \in 1..Len(p) : Handled(way[i - 1], way[i], p[i], t)
      /\ \A i, j \in 0..Len(p) : i <= j => way[i].count <= way[j].count
      /\ way[Len(p)].count = Len(t)
      /\ Len(p) \in Nat
  BY DEF IsWay
<1>2. \A i \in 0..Len(p) : way[i].kbd \in Flags /\ way[i].count \in 1..Len(t)
  <2>1. 0 \in 0..Len(p) /\ \A i \in 0..Len(p) : 0 <= i
    BY <1>1
  <2>2. \A i \in 0..Len(p) : way[i].kbd \in Flags /\ way[i].count \in 0..Len(t)
    BY <1>1
  <2>3. \A i \in 0..Len(p) : n <= way[i].count
    BY <1>1, <2>1
  <2> QED
    BY <2>2, <2>3
<1>3. t # <<>> /\ Tail(t) \in Seq(Chars) /\ Len(Tail(t)) = Len(t) - 1 /\ Len(t) \in Nat
      /\ \A i \in 1..(Len(t) - 1) : Tail(t)[i] = t[i + 1]
  <2>1. Len(p) \in 0..Len(p)
    BY <1>1
  <2>2. Len(t) \in 1..Len(t)
    BY <1>1, <1>2, <2>1
  <2>3. t # <<>>
    BY <2>2
  <2> QED
    BY <2>3
<1>4. \A i \in 0..Len(p) : /\ next[i].kbd = way[i].kbd
                           /\ next[i].count = way[i].count - 1
                           /\ next[i].count \in 0..(Len(t) - 1)
  BY <1>2, <1>3
<1>5. next \in [0..Len(p) -> [kbd : Flags, count : 0..Len(Tail(t))]]
  <2>1. \A i \in 0..Len(p) : way[i].count - 1 \in 0..Len(Tail(t))
    BY <1>2, <1>3
  <2> QED
    BY <1>2, <2>1
<1>6. next[0] = [kbd |-> k, count |-> n - 1]
  BY <1>1
<1>7. \A i \in 1..Len(p) : Handled(next[i - 1], next[i], p[i], Tail(t))
  <2>1. TAKE i \in 1..Len(p)
  <2>2. i \in 0..Len(p) /\ i - 1 \in 0..Len(p)
    BY <1>1
  <2>3. Handled(way[i - 1], way[i], p[i], t)
    BY <1>1
  <2>4. /\ way[i].count \in 1..Len(t) /\ way[i - 1].count \in 1..Len(t)
        /\ next[i].kbd = way[i].kbd /\ next[i].count = way[i].count - 1
        /\ next[i - 1].kbd = way[i - 1].kbd /\ next[i - 1].count = way[i - 1].count - 1
    BY <1>2, <1>4, <2>2
  <2>5. way[i].count = way[i - 1].count + 1 => Tail(t)[next[i].count] = t[way[i].count]
    <3> DEFINE x == way[i].count
               y == way[i - 1].count
    <3>1. x \in 1..Len(t) /\ y \in 1..Len(t) /\ Len(t) \in Nat /\ next[i].count = x - 1
      BY <1>3, <2>4
    <3> HIDE DEF x, y
    <3>2. x = y + 1 => x - 1 \in 1..(Len(t) - 1) /\ (x - 1) + 1 = x
      BY <3>1
    <3>3. x = y + 1 => Tail(t)[x - 1] = t[(x - 1) + 1]
      BY <1>3, <3>2
    <3>4. x = y + 1 => Tail(t)[next[i].count] = t[x]
      BY <3>1, <3>2, <3>3
    <3> QED
      BY <3>4 DEF x, y
  <2>6. way[i].count = way[i - 1].count + 1 => next[i].count = next[i - 1].count + 1
    BY <2>4
  <2>7. way[i].count = way[i - 1].count => next[i].count = next[i - 1].count
    BY <2>4
  <2> HIDE DEF Decode
  <2> QED
    BY <2>3, <2>4, <2>5, <2>6, <2>7 DEF Handled
<1>8. \A i, j \in 0..Len(p) : i <= j => next[i].count <= next[j].count
  <2>1. TAKE i, j \in 0..Len(p)
  <2>2. i <= j => way[i].count <= way[j].count
    BY <1>1
  <2> QED
    BY <1>2, <1>4, <2>2
<1>9. next[Len(p)].count = Len(Tail(t)) /\ next[Len(p)].kbd = way[Len(p)].kbd
  BY <1>1, <1>3, <1>4
<1> QED
  BY <1>5, <1>6, <1>7, <1>8, <1>9 DEF IsWay

\* A key that goes down means to the handler what it means to the user, with the
\* flags that agree with the keys; which keys caps lock turns is said twice.
LEMMA KeyMeant ==
  ASSUME NEW k \in Flags, Agree(k, Ctrls, Shifts, caps), caps \in BOOLEAN, NEW key \in Keys, ~key.ext
  PROVE  Decode(k, key.code).char = IF Visible(key) THEN Expected(key) ELSE NoChar
<1> DEFINE c == key.code
           s == [k EXCEPT !.ext = FALSE]
<1>1. c \in 1..\h5D
  BY TypingAssumption
<1>2. s.ctrl = k.ctrl /\ s.shift = k.shift /\ s.caps = k.caps /\ ~k.ext
  BY DEF Agree, Flags
<1> HIDE DEF s
<1>3. (c \div 128) % 2 = 0 /\ c # \hE0
  BY <1>1
<1>4. CASE c \in 1..\h3A
  <2>1. Decode(k, c).char = Meant(s, c)
    BY <1>2, <1>3, <1>4 DEF Decode, s
  <2>2. CASE c \in Invisible
    <3>1. c \notin {CtrlL.code, CtrlU.code}
      BY <2>2 DEF Invisible, ShiftMakes, CtrlMake, CapsMake, CtrlL, CtrlU, Char
    <3>2. Meant(s, c) = NoChar
      BY <2>2, <3>1 DEF Meant
    <3> QED
      BY <2>1, <2>2, <3>2 DEF Visible
  <2>3. CASE c \notin Invisible
    <3>1. Visible(key)
      BY <1>4, <2>3 DEF Visible
    <3>2. (~CapsIgnores(c) <=> c \in Letters) \/ c \in {\h0E, \h0F, \h1C, \h37, \h39}
      BY <1>4, <2>3 DEF CapsIgnores, Letters, Invisible, ShiftMakes, CtrlMake, CapsMake
    <3> DEFINE on == s.shift # (s.caps /\ ~CapsIgnores(c))
               meant == (Shifts # {}) # (caps /\ c \in Letters)
    <3>3. s.ctrl <=> Ctrls # {}
      BY <1>2 DEF Agree
    <3>4. c \in {\h0E, \h0F, \h1C, \h37, \h39} \/ (on <=> meant)
      <4>1. k.shift \in BOOLEAN /\ k.caps \in BOOLEAN
        BY DEF Flags
      <4>2. s.shift = (Shifts # {}) /\ s.caps = caps
        BY <1>2, <4>1 DEF Agree
      <4>3. CASE c \in Letters <=> ~CapsIgnores(c)
        BY <4>2, <4>3
      <4> QED
        BY <3>2, <4>3
    <3> HIDE DEF on, meant
    <3>5. Keymap(c, on) = Keymap(c, meant)
      BY <3>4 DEF Keymap
    <3>6. Meant(s, c) = IF s.ctrl /\ c \in {CtrlL.code, CtrlU.code} THEN Char(c, "ctrl")
                        ELSE Keymap(c, on)
      BY <2>3 DEF Meant, on
    <3>7. Expected(key) = IF Ctrls # {} /\ c \in {CtrlL.code, CtrlU.code} THEN Char(c, "ctrl")
                          ELSE Keymap(c, meant)
      BY DEF Expected, meant
    <3> QED
      BY <2>1, <3>1, <3>3, <3>5, <3>6, <3>7
  <2> QED
    BY <2>2, <2>3
<1>5. CASE c \notin 1..\h3A
  <2>1. c \notin (1..\h3A) \cup {\hE01D, \hE038}
    BY <1>1, <1>5
  <2>2. Decode(k, c).char = NoChar
    BY <1>2, <1>3, <2>1 DEF Decode
  <2>3. ~Visible(key)
    BY <1>5 DEF Visible
  <2> QED
    BY <2>2, <2>3
<1> QED
  BY <1>4, <1>5

\* What a visible key means is a character of keymap.
LEMMA MeantIsChar ==
  ASSUME NEW key \in Keys, Visible(key)
  PROVE  Expected(key) \in Chars /\ Expected(key) # NoChar
<1>1. key.code \in 1..\h3A
  BY DEF Visible
<1>2. \A kind : Char(key.code, kind) # NoChar
  BY <1>1 DEF Char, NoChar
<1>3. \A kind \in {"plain", "shift", "ctrl"} : Char(key.code, kind) \in Chars
  BY <1>1 DEF Char, Chars
<1>4. \E kind \in {"plain", "shift", "ctrl"} : Expected(key) = Char(key.code, kind)
  BY DEF Expected, Keymap
<1> QED
  BY <1>2, <1>3, <1>4

\* Bytes that make no character: break codes, 0xe0 and what follows it.
LEMMA Silent ==
  ASSUME NEW k \in Flags, NEW b \in Bytes, b >= 128 \/ k.ext
  PROVE  Decode(k, b).char = NoChar
<1>1. CASE b = \hE0
  BY <1>1 DEF Decode
<1>2. CASE b # \hE0 /\ k.ext
  <2>1. \hE800 + b \notin (1..\h3A) \cup {\hE01D, \hE038}
    BY DEF Bytes
  <2> QED
    BY <1>2, <2>1 DEF Decode
<1>3. CASE b # \hE0 /\ ~k.ext
  <2>1. (b \div 128) % 2 = 1
    BY <1>3 DEF Bytes
  <2> QED
    BY <1>3, <2>1 DEF Decode
<1> QED
  BY <1>1, <1>2, <1>3

\* What the user holds after a key went down or came up, and its codes decoded.
LEMMA Held ==
  ASSUME FlagsInv, ~odd, ~odd', NEW key \in Keys, NEW k \in Flags, Agree(k, Ctrls, Shifts, caps), NEW d \in Flags,
         ~d.ext,
         \/ /\ Press(key)
            /\ d.ctrl <=> (k.ctrl \/ (~key.ext /\ key.code = CtrlMake))
            /\ d.shift <=> (k.shift \/ (~key.ext /\ key.code \in ShiftMakes))
            /\ d.caps <=> (k.caps \/ (~key.ext /\ key.code = CapsMake))
         \/ /\ Release(key)
            /\ d.ctrl <=> (k.ctrl /\ ~(~key.ext /\ key.code = CtrlMake))
            /\ d.shift <=> (k.shift /\ ~(~key.ext /\ key.code \in ShiftMakes))
            /\ d.caps <=> k.caps
  PROVE  Agree(d, Ctrls', Shifts', caps')
<1> DEFINE shift == ~key.ext /\ key.code \in ShiftMakes
           ctrl == ~key.ext /\ key.code = CtrlMake
<1>1. CASE Press(key) /\ (d.ctrl <=> (k.ctrl \/ ctrl)) /\ (d.shift <=> (k.shift \/ shift))
           /\ (d.caps <=> (k.caps \/ (~key.ext /\ key.code = CapsMake)))
  <2>1. /\ held' = (IF Visible(key) THEN held ELSE held \cup {key})
        /\ caps' = (caps \/ (key.code = CapsMake /\ ~key.ext))
    BY <1>1 DEF Press
  <2>2. shift \/ ctrl => held' = held \cup {key}
    BY <2>1 DEF Visible, Invisible
  <2>3. held' = held \/ held' = held \cup {key}
    BY <2>1
  <2>4. Shifts' = IF shift THEN Shifts \cup {key} ELSE Shifts
    BY <2>2, <2>3 DEF Shifts
  <2>5. Ctrls' = IF ctrl THEN Ctrls \cup {key} ELSE Ctrls
    BY <2>2, <2>3 DEF Ctrls
  <2>6. d.caps <=> caps'
    BY <1>1, <2>1 DEF Agree
  <2>7. d.shift <=> Shifts' # {}
    BY <1>1, <2>4 DEF Agree
  <2>8. d.ctrl <=> Ctrls' # {}
    BY <1>1, <2>5 DEF Agree
  <2> QED
    BY <2>6, <2>7, <2>8 DEF Agree
<1>2. CASE Release(key) /\ (d.ctrl <=> (k.ctrl /\ ~ctrl)) /\ (d.shift <=> (k.shift /\ ~shift))
           /\ (d.caps <=> k.caps)
  <2>1. /\ key \in held \/ Visible(key)
        /\ held' = held \ {key} /\ caps' = caps
    BY <1>2 DEF Release
  <2>2. held \subseteq Keys /\ \A i, j \in Shifts : i = j
    BY DEF FlagsInv
  <2>3. Shifts' = Shifts \ {key} /\ Ctrls' = Ctrls \ {key}
    BY <2>1 DEF Shifts, Ctrls
  <2>4. d.shift <=> Shifts' # {}
    <3>1. CASE shift
      <4>1. key \in Shifts
        BY <2>1, <3>1 DEF Visible, Invisible, Shifts
      <4> QED
        BY <1>2, <2>2, <2>3, <3>1, <4>1
    <3>2. CASE ~shift
      <4>1. key \notin Shifts
        BY <3>2 DEF Shifts
      <4> QED
        BY <1>2, <2>3, <3>2, <4>1 DEF Agree
    <3> QED
      BY <3>1, <3>2
  <2>5. d.ctrl <=> Ctrls' # {}
    <3>1. CASE ctrl
      <4>1. \A i \in Ctrls : i = key
        BY <2>2, <3>1, TypingAssumption DEF Ctrls
      <4> QED
        BY <1>2, <2>3, <3>1, <4>1
    <3>2. CASE ~ctrl
      <4>1. key \notin Ctrls
        BY <3>2 DEF Ctrls
      <4> QED
        BY <1>2, <2>3, <3>2, <4>1 DEF Agree
    <3> QED
      BY <3>1, <3>2
  <2> QED
    BY <1>2, <2>1, <2>4, <2>5 DEF Agree
<1> QED
  BY <1>1, <1>2

\* The characters a key's codes make, and the way they lengthen.
LEMMA WayOfKey ==
  ASSUME FlagsInv, TypedInv, ~odd, ~odd', NEW key \in Keys, Press(key) \/ Release(key)
  PROVE  /\ typed' \in Seq(Chars) /\ Len(typed) <= Len(typed')
         /\ \A j \in 1..Len(typed) : typed'[j] = typed[j]
         /\ \E way : /\ IsWay(way, port', kbd, Len(queue), typed')
                     /\ Agree(way[Len(port')].kbd, Ctrls', Shifts', caps')
<1> DEFINE code == IF Press(key) THEN key.code ELSE key.code + 128
<1>1. /\ port \in Seq(Bytes) /\ caps \in BOOLEAN
      /\ queue \in Seq(Chars) /\ typed \in Seq(Chars)
  BY DEF FlagsInv, TypedInv
<1>2. PICK way : IsWay(way, port, kbd, Len(queue), typed) /\ Agree(way[Len(port)].kbd, Ctrls, Shifts, caps)
  BY DEF TypedInv
<1> DEFINE k == way[Len(port)].kbd
<1>3. k \in Flags /\ Agree(k, Ctrls, Shifts, caps)
  <2>1. Len(port) \in 0..Len(port)
    BY <1>1
  <2> QED
    BY <1>2, <2>1 DEF IsWay
<1>4. key.ext \in BOOLEAN /\ key.code \in 1..\h5D
  BY TypingAssumption
<1>5. Press(key) \/ (~Press(key) /\ Release(key))
  OBVIOUS
<1>6. /\ port' = port \o Sends(key, code)
      /\ typed' = IF Press(key) /\ Visible(key) THEN Append(typed, Expected(key)) ELSE typed
      /\ code \in 1..(\hE0 - 1) /\ code \in Bytes
      /\ code < 128 => code = key.code
      /\ ~(code < 128) => code = key.code + 128
      /\ Press(key) <=> code < 128
  <2>1. CASE Press(key)
    <3>1. code = key.code
      BY <2>1
    <3> HIDE DEF code
    <3>2. port' = port \o Sends(key, code)
      BY <2>1, <3>1 DEF Press
    <3>3. typed' = IF Visible(key) THEN Append(typed, Expected(key)) ELSE typed
      BY <2>1 DEF Press
    <3>4. code \in 1..(\hE0 - 1) /\ code \in Bytes /\ code < 128
      BY <1>4, <3>1 DEF Bytes
    <3> QED
      BY <2>1, <3>1, <3>2, <3>3, <3>4
  <2>2. CASE ~Press(key)
    <3>1. code = key.code + 128
      BY <2>2
    <3> HIDE DEF code
    <3>2. port' = port \o Sends(key, code) /\ typed' = typed
      BY <1>5, <2>2, <3>1 DEF Release
    <3>3. code \in 1..(\hE0 - 1) /\ code \in Bytes /\ ~(code < 128)
      BY <1>4, <3>1 DEF Bytes
    <3> QED
      BY <2>2, <3>1, <3>2, <3>3
  <2> QED
    BY <2>1, <2>2
<1>7. \hE0 \in Bytes /\ Len(queue) \in Nat
  BY <1>1 DEF Bytes
<1> HIDE DEF code, k
<1>8. /\ code \in CtrlCodes <=> key.code = CtrlMake
      /\ code \in CtrlMakes <=> code < 128 /\ key.code = CtrlMake
      /\ code \in ShiftCodes <=> key.code \in ShiftMakes
      /\ code \in ShiftMakes <=> code < 128 /\ key.code \in ShiftMakes
      /\ code \in CapsMakes <=> code < 128 /\ key.code = CapsMake
  <2>1. key.code \in 1..\h5D /\ (code < 128 => code = key.code)
        /\ (~(code < 128) => code = key.code + 128)
    BY <1>4, <1>6
  <2> QED
    BY <2>1 DEF CtrlCodes, ShiftCodes, CtrlMakes, CapsMakes, CtrlMake, ShiftMakes, CapsMake
<1>9. CASE ~key.ext
  <2> DEFINE d == Decode(k, code)
  <2>1. port' = Append(port, code)
    BY <1>1, <1>6, <1>9 DEF Sends
  <2>2. d.char = IF Press(key) /\ Visible(key) THEN Expected(key) ELSE NoChar
    <3>1. CASE Press(key)
      <4>1. code = key.code
        BY <3>1 DEF code
      <4> QED
        BY <1>1, <1>3, <1>9, <3>1, <4>1, KeyMeant
    <3>2. CASE ~Press(key)
      BY <1>3, <1>6, <3>2, Silent
    <3> QED
      BY <3>1, <3>2
  <2>3. d.char # NoChar => d.char \in Chars
    BY <2>2, MeantIsChar
  <2>4. typed' = Longer(typed, d.char)
    BY <1>6, <2>2, MeantIsChar DEF Longer
  <2> DEFINE f == d.kbd
  <2>5. /\ f \in Flags /\ (f.ext <=> code = \hE0)
        /\ f.ctrl <=> IF ~k.ext /\ code \in CtrlCodes THEN code \in CtrlMakes ELSE k.ctrl
        /\ f.shift <=> IF ~k.ext /\ code \in ShiftCodes THEN code \in ShiftMakes ELSE k.shift
        /\ f.caps <=> IF ~k.ext /\ code \in CapsMakes THEN code \in CapsMakes ELSE k.caps
    BY <1>3, <1>6, Decoded
  <2>6. /\ typed' \in Seq(Chars) /\ Len(typed) <= Len(typed')
        /\ \A j \in 1..Len(typed) : typed'[j] = typed[j]
        /\ Len(port') = Len(port) + 1
        /\ \E next : IsWay(next, port', kbd, Len(queue), typed') /\ next[Len(port) + 1].kbd = f
    <3> HIDE DEF d
    <3>1. d = Decode(way[Len(port)].kbd, code)
      BY DEF d, k
    <3>2. d.kbd \in Flags
      BY <2>5
    <3>3. code \in Bytes
      BY <1>6
    <3>4. IsWay(way, port, kbd, Len(queue), typed)
      BY <1>2
    <3>5. /\ typed' \in Seq(Chars) /\ Len(typed) <= Len(typed')
          /\ \A j \in 1..Len(typed) : typed'[j] = typed[j]
          /\ Len(Append(port, code)) = Len(port) + 1
          /\ \E next : /\ IsWay(next, Append(port, code), kbd, Len(queue), typed')
                       /\ next[Len(port) + 1].kbd = d.kbd
      <4> DEFINE u == typed'
      <4>1. u = Longer(typed, d.char)
        BY <2>4
      <4>2. d.char # NoChar => d.char \in Chars
        BY <2>3
      <4> HIDE DEF u
      <4>3. port \in Seq(Bytes) /\ typed \in Seq(Chars) /\ Len(queue) \in Nat
        BY <1>1, <1>7
      <4>4. /\ u \in Seq(Chars) /\ Len(typed) <= Len(u)
            /\ \A j \in 1..Len(typed) : u[j] = typed[j]
            /\ Len(Append(port, code)) = Len(port) + 1
            /\ \E next : /\ IsWay(next, Append(port, code), kbd, Len(queue), u)
                         /\ next[Len(port) + 1].kbd = d.kbd
        <5>1. /\ u \in Seq(Chars) /\ Len(typed) <= Len(u)
              /\ \A j \in 1..Len(typed) : u[j] = typed[j]
          BY <4>1, <4>2, <4>3 DEF Longer
        <5>2. Len(Append(port, code)) = Len(port) + 1
          BY <3>3, <4>3
        <5>3. \E next : /\ IsWay(next, Append(port, code), kbd, Len(queue), u)
                       /\ next[Len(port) + 1].kbd = d.kbd
          BY <3>1, <3>2, <3>3, <3>4, <4>1, <4>2, <4>3, WaySent
        <5> QED
          BY <5>1, <5>2, <5>3
      <4> QED
        BY <4>4 DEF u
    <3> QED
      BY <2>1, <3>5
  <2> HIDE DEF f, d
  <2>7. ~k.ext /\ ~f.ext
    BY <1>3, <1>6, <2>5 DEF Agree
  <2>8. \/ /\ Press(key)
           /\ f.ctrl <=> (k.ctrl \/ (~key.ext /\ key.code = CtrlMake))
           /\ f.shift <=> (k.shift \/ (~key.ext /\ key.code \in ShiftMakes))
           /\ f.caps <=> (k.caps \/ (~key.ext /\ key.code = CapsMake))
        \/ /\ Release(key)
           /\ f.ctrl <=> (k.ctrl /\ ~(~key.ext /\ key.code = CtrlMake))
           /\ f.shift <=> (k.shift /\ ~(~key.ext /\ key.code \in ShiftMakes))
           /\ f.caps <=> k.caps
    <3>1. CASE Press(key)
      BY <1>6, <1>8, <1>9, <2>5, <2>7, <3>1
    <3>2. CASE ~Press(key) /\ Release(key)
      BY <1>6, <1>8, <1>9, <2>5, <2>7, <3>2
    <3> QED
      BY <1>5, <3>1, <3>2
  <2>9. Agree(f, Ctrls', Shifts', caps')
    BY <1>3, <2>5, <2>7, <2>8, Held
  <2> QED
    BY <2>6, <2>9
<1>10. CASE key.ext
  <2> DEFINE d == Decode(k, \hE0)
             e == Decode(d.kbd, code)
  <2>1. port' = Append(Append(port, \hE0), code)
    BY <1>1, <1>6, <1>7, <1>10 DEF Sends
  <2>2. typed' = typed
    BY <1>6, <1>10 DEF Visible
  <2>3. /\ d.kbd \in Flags /\ d.kbd.ext
        /\ d.kbd.ctrl = k.ctrl /\ d.kbd.shift = k.shift /\ d.kbd.caps = k.caps
    <3>1. \hE0 \notin CtrlCodes /\ \hE0 \notin ShiftCodes /\ \hE0 \notin CapsMakes
      BY DEF CtrlCodes, ShiftCodes, CapsMakes, CtrlMake, ShiftMakes, CapsMake
    <3> DEFINE f == d.kbd
    <3>2. /\ f \in Flags /\ f.ext
          /\ f.ctrl <=> k.ctrl
          /\ f.shift <=> k.shift
          /\ f.caps <=> k.caps
      BY <1>3, <1>7, <3>1, Decoded
    <3> HIDE DEF f
    <3>3. f.ctrl = k.ctrl /\ f.shift = k.shift /\ f.caps = k.caps
      BY <1>3, <3>2 DEF Flags
    <3> QED
      BY <3>2, <3>3 DEF f
  <2>4. d.char = NoChar
    BY <1>3, <1>7, Silent
  <2>5. \E next : IsWay(next, Append(port, \hE0), kbd, Len(queue), typed)
                  /\ next[Len(port) + 1].kbd = d.kbd
    <3> HIDE DEF d
    <3>1. d = Decode(way[Len(port)].kbd, \hE0) /\ typed = Longer(typed, d.char)
      BY <2>4 DEF d, k, Longer
    <3> QED
      BY <1>1, <1>2, <1>7, <2>3, <2>4, <3>1, WaySent
  <2>6. PICK next : /\ IsWay(next, Append(port, \hE0), kbd, Len(queue), typed)
                    /\ next[Len(port) + 1].kbd = d.kbd
    BY <2>5
  <2>7. Append(port, \hE0) \in Seq(Bytes) /\ Len(Append(port, \hE0)) = Len(port) + 1
    BY <1>1, <1>7
  <2> DEFINE g == e.kbd
  <2>8. /\ g \in Flags /\ ~g.ext
        /\ g.ctrl <=> k.ctrl
        /\ g.shift <=> k.shift
        /\ g.caps <=> k.caps
    <3> DEFINE f == d.kbd
    <3>1. f \in Flags /\ f.ext /\ f.ctrl = k.ctrl /\ f.shift = k.shift /\ f.caps = k.caps
      BY <2>3
    <3> HIDE DEF f
    <3>2. g = Decode(f, code).kbd
      BY DEF f
    <3> HIDE DEF g
    <3> QED
      BY <1>6, <3>1, <3>2, Decoded
  <2>9. e.char = NoChar
    <3> DEFINE f == d.kbd
    <3>1. f \in Flags /\ f.ext
      BY <2>3
    <3> HIDE DEF f
    <3>2. Decode(f, code).char = NoChar
      BY <1>6, <3>1, Silent
    <3> QED
      BY <3>2 DEF f
  <2>10. /\ Len(port') = Len(port) + 2
         /\ \E last : IsWay(last, port', kbd, Len(queue), typed) /\ last[Len(port) + 2].kbd = g
    <3> HIDE DEF e, d
    <3>1. e = Decode(next[Len(Append(port, \hE0))].kbd, code)
      BY <2>6, <2>7 DEF e
    <3>2. Len(Append(port, \hE0)) + 1 = Len(port) + 2
      BY <1>1, <2>7
    <3>3. /\ Len(port') = Len(Append(port, \hE0)) + 1
          /\ \E last : /\ IsWay(last, port', kbd, Len(queue), typed)
                       /\ last[Len(Append(port, \hE0)) + 1].kbd = g
      <4> DEFINE p == Append(port, \hE0)
      <4>1. /\ p \in Seq(Bytes) /\ typed \in Seq(Chars) /\ Len(queue) \in Nat
            /\ port' = Append(p, code) /\ IsWay(next, p, kbd, Len(queue), typed)
            /\ e = Decode(next[Len(p)].kbd, code) /\ e.char = NoChar /\ code \in Bytes
            /\ typed = Longer(typed, e.char)
        BY <1>1, <1>6, <1>7, <2>1, <2>6, <2>7, <2>9, <3>1 DEF Longer
      <4>2. e.kbd \in Flags
        BY <2>8
      <4> HIDE DEF p
      <4>3. /\ Len(Append(p, code)) = Len(p) + 1
            /\ \E last : /\ IsWay(last, Append(p, code), kbd, Len(queue), typed)
                         /\ last[Len(p) + 1].kbd = e.kbd
        BY <4>1, <4>2, WaySent
      <4> QED
        BY <4>1, <4>3 DEF p
    <3> QED
      BY <3>2, <3>3
  <2> HIDE DEF g, e, d
  <2>11. Agree(g, Ctrls', Shifts', caps')
    <3>1. \/ /\ Press(key)
             /\ g.ctrl <=> (k.ctrl \/ (~key.ext /\ key.code = CtrlMake))
             /\ g.shift <=> (k.shift \/ (~key.ext /\ key.code \in ShiftMakes))
             /\ g.caps <=> (k.caps \/ (~key.ext /\ key.code = CapsMake))
          \/ /\ Release(key)
             /\ g.ctrl <=> (k.ctrl /\ ~(~key.ext /\ key.code = CtrlMake))
             /\ g.shift <=> (k.shift /\ ~(~key.ext /\ key.code \in ShiftMakes))
             /\ g.caps <=> k.caps
      BY <1>5, <1>10, <2>8
    <3> QED
      BY <1>3, <2>8, <3>1, Held
  <2> QED
    BY <1>1, <2>2, <2>10, <2>11
<1> QED
  BY <1>4, <1>9, <1>10

\* One turn of readLine's loop and one look at the screen keep the line what the
\* user sees, and no line begins with a backspace.
LEMMA EditedSeen ==
  ASSUME NEW l, IsLine(l), l.at = "reads", NEW c \in Chars, NEW m, m = Edited(l, c)
  PROVE  IsLine(m) /\ (m.at # "too long" => m.text = See(l.text, c))
<1> DEFINE text == l.text
<1>1. text \in Seq(Chars) /\ (text # <<>> => Head(text) # Backspace)
  BY DEF IsLine
<1>2. /\ Enter # Backspace /\ Enter # CtrlL /\ Enter # CtrlU
      /\ Backspace # CtrlL /\ Backspace # CtrlU /\ CtrlL # CtrlU
  <2>1. /\ Enter.code = \h1C /\ Backspace.code = \h0E
        /\ CtrlL.code = \h26 /\ CtrlU.code = \h16
    BY DEF Enter, Backspace, CtrlL, CtrlU, Char
  <2> QED
    BY ONLY <2>1
<1>3. CASE Len(text) >= CmdLen
  <2>1. ~(Len(text) < CmdLen)
    <3>1. Len(text) \in Nat /\ CmdLen \in Nat
      BY <1>1, TypingAssumption
    <3> QED
      BY <1>3, <3>1
  <2>2. m = [l EXCEPT !.at = "too long"]
    BY <1>3, <2>1 DEF Edited
  <2> QED
    BY <2>2 DEF IsLine
<1>4. CASE ~(Len(text) >= CmdLen)
  <2>1. Len(text) < CmdLen
    <3>1. Len(text) \in Nat /\ CmdLen \in Nat
      BY <1>1, TypingAssumption
    <3> QED
      BY <1>4, <3>1
  <2> DEFINE first == IF text = <<>> THEN c ELSE Head(text)
  <2>2. m = CASE c = Enter -> [l EXCEPT !.at = "has a line"]
              [] c = Backspace -> IF first # Backspace THEN [l EXCEPT !.text = Front(text)] ELSE l
              [] c = CtrlL -> l
              [] c = CtrlU -> [l EXCEPT !.text = <<>>]
              [] OTHER -> [l EXCEPT !.text = Append(text, c)]
    BY <1>2, <1>4, <2>1 DEF Edited, EraseLine
  <2>3. CASE c = Enter
    <3>1. m = [l EXCEPT !.at = "has a line"] /\ See(text, c) = text
      BY <1>2, <2>2, <2>3 DEF See
    <3> QED
      BY <3>1 DEF IsLine
  <2>4. CASE c = CtrlL \/ (c = Backspace /\ text = <<>>)
    <3>1. m = l /\ See(text, c) = text
      BY <1>2, <2>2, <2>4 DEF See
    <3> QED
      BY <3>1
  <2>5. CASE c = Backspace /\ text # <<>>
    <3> DEFINE f == SubSeq(text, 1, Len(text) - 1)
    <3>1. m = [l EXCEPT !.text = f] /\ See(text, c) = f
      BY <1>1, <1>2, <2>2, <2>5 DEF See, Front
    <3>2. f \in Seq(Chars) /\ (f # <<>> => Head(f) # Backspace)
      <4> DEFINE w == text
      <4>1. w \in Seq(Chars) /\ w # <<>> /\ Head(w) # Backspace /\ f = SubSeq(w, 1, Len(w) - 1)
        BY <1>1, <2>5
      <4> HIDE DEF w, f
      <4>2. f \in Seq(Chars) /\ (f # <<>> => Head(f) = Head(w))
        BY ONLY <4>1
      <4> QED
        BY <4>1, <4>2
    <3> HIDE DEF f
    <3>3. IsLine(m) /\ m.text = f
      BY <3>1, <3>2 DEF IsLine
    <3> QED
      BY <3>1, <3>3
  <2>6. CASE c = CtrlU
    <3>1. m = [l EXCEPT !.text = <<>>] /\ See(text, c) = <<>>
      BY <1>2, <2>2, <2>6 DEF See
    <3>2. <<>> \in Seq(Chars)
      OBVIOUS
    <3>3. IsLine(m) /\ m.text = <<>>
      BY <3>1, <3>2 DEF IsLine
    <3> QED
      BY <3>1, <3>3
  <2>7. CASE c \notin {Enter, Backspace, CtrlL, CtrlU}
    <3> DEFINE f == Append(text, c)
    <3>1. m = [l EXCEPT !.text = f] /\ See(text, c) = f
      BY <2>2, <2>7 DEF See
    <3>2. f \in Seq(Chars) /\ Head(f) # Backspace
      <4> DEFINE w == text
      <4>1. w \in Seq(Chars) /\ (w # <<>> => Head(w) # Backspace) /\ f = Append(w, c) /\ c # Backspace
        BY <1>1, <2>7
      <4> HIDE DEF w, f
      <4>2. f \in Seq(Chars) /\ (w = <<>> => Head(f) = c) /\ (w # <<>> => Head(f) = Head(w))
        BY ONLY <4>1, c \in Chars
      <4> QED
        BY <4>1, <4>2
    <3> HIDE DEF f
    <3>3. IsLine(m) /\ m.text = f
      BY <3>1, <3>2 DEF IsLine
    <3> QED
      BY <3>1, <3>3
  <2> QED
    BY <2>3, <2>4, <2>5, <2>6, <2>7
<1> QED
  BY <1>3, <1>4

LEMMA ReadCharTyped ==
  ASSUME FlagsInv, TypedInv, ReadChar, ~odd
  PROVE  TypedInv'
<1>1. /\ queue \in Seq(Chars) /\ typed \in Seq(Chars)
      /\ Len(queue) <= Len(typed)
      /\ \A j \in 1..Len(queue) : queue[j] = typed[j]
      /\ port \in Seq(Bytes)
  BY DEF TypedInv, FlagsInv
<1>2. /\ line.at = "reads" /\ queue # <<>>
      /\ line' = Edited(line, Head(queue)) /\ queue' = Tail(queue)
      /\ shown' = See(shown, Head(typed)) /\ typed' = Tail(typed)
      /\ UNCHANGED <<held, caps, port, kbd, odd>>
  BY DEF ReadChar
<1>3. PICK way : IsWay(way, port, kbd, Len(queue), typed) /\ Agree(way[Len(port)].kbd, Ctrls, Shifts, caps)
  BY DEF TypedInv
<1>4. /\ Len(queue) \in Nat \ {0} /\ typed # <<>> /\ Head(queue) = Head(typed)
      /\ Head(queue) \in Chars
      /\ Tail(queue) \in Seq(Chars) /\ Tail(typed) \in Seq(Chars)
      /\ Len(Tail(queue)) = Len(queue) - 1 /\ Len(Tail(typed)) = Len(typed) - 1
  BY <1>1, <1>2
<1>5. Len(Tail(queue)) <= Len(Tail(typed))
  BY <1>1, <1>4
<1>6. \A j \in 1..Len(Tail(queue)) : Tail(queue)[j] = Tail(typed)[j]
  <2>1. TAKE j \in 1..Len(Tail(queue))
  <2>2. j + 1 \in 1..Len(queue) /\ j \in 1..Len(Tail(typed))
    BY <1>1, <1>4
  <2>3. queue[j + 1] = typed[j + 1]
    BY <1>1, <2>2
  <2> QED
    BY <1>1, <1>2, <1>4, <2>2, <2>3
<1>7. \E next : /\ IsWay(next, port, kbd, Len(queue) - 1, Tail(typed))
                /\ next[Len(port)].kbd = way[Len(port)].kbd
  <2> DEFINE next == [i \in 0..Len(port) |-> [kbd |-> way[i].kbd, count |-> way[i].count - 1]]
  <2>1. next = [i \in 0..Len(port) |-> [kbd |-> way[i].kbd, count |-> way[i].count - 1]]
    OBVIOUS
  <2> HIDE DEF next
  <2>2. IsWay(next, port, kbd, Len(queue) - 1, Tail(typed)) /\ next[Len(port)].kbd = way[Len(port)].kbd
    BY <1>1, <1>3, <1>4, <2>1, WayRead
  <2> QED
    BY <2>2
<1>8. PICK next : /\ IsWay(next, port, kbd, Len(queue) - 1, Tail(typed))
                  /\ next[Len(port)].kbd = way[Len(port)].kbd
  BY <1>7
<1>9. /\ IsWay(next, port', kbd', Len(queue'), typed')
      /\ Agree(next[Len(port')].kbd, Ctrls', Shifts', caps')
  BY <1>2, <1>3, <1>4, <1>8 DEF Ctrls, Shifts
<1>10. IsLine(line') /\ (line'.at # "too long" => line'.text = shown')
  <2>1. IsLine(line) /\ line.text = shown
    BY <1>2 DEF TypedInv
  <2>2. IsLine(line') /\ (line'.at # "too long" => line'.text = See(line.text, Head(queue)))
    BY <1>2, <1>4, <2>1, EditedSeen
  <2> QED
    BY <1>2, <1>4, <2>1, <2>2
<1> QED
  BY <1>1, <1>2, <1>4, <1>5, <1>6, <1>9, <1>10 DEF TypedInv

LEMMA KeyIntrTyped ==
  ASSUME FlagsInv, TypedInv, KeyIntr, ~odd
  PROVE  TypedInv'
<1>1. /\ queue \in Seq(Chars) /\ typed \in Seq(Chars)
      /\ Len(queue) <= Len(typed)
      /\ \A j \in 1..Len(queue) : queue[j] = typed[j]
      /\ port \in Seq(Bytes)
  BY DEF TypedInv, FlagsInv
<1> DEFINE d == Decode(kbd, Head(port))
<1>2. /\ port # <<>> /\ kbd' = d.kbd /\ port' = Tail(port)
      /\ queue' = IF d.char = NoChar THEN queue ELSE Append(queue, d.char)
      /\ UNCHANGED <<held, caps, line, typed, shown, odd>>
  BY DEF KeyIntr
<1>3. PICK way : IsWay(way, port, kbd, Len(queue), typed) /\ Agree(way[Len(port)].kbd, Ctrls, Shifts, caps)
  BY DEF TypedInv
<1> HIDE DEF d
<1>4. \E next : /\ IsWay(next, Tail(port), d.kbd, way[1].count, typed)
                /\ next[Len(Tail(port))] = way[Len(port)]
  <2> DEFINE next == [i \in 0..(Len(port) - 1) |-> way[i + 1]]
  <2>1. next = [i \in 0..(Len(port) - 1) |-> way[i + 1]]
    OBVIOUS
  <2> HIDE DEF next
  <2>2. IsWay(next, Tail(port), Decode(kbd, Head(port)).kbd, way[1].count, typed)
        /\ next[Len(Tail(port))] = way[Len(port)]
    <3>1. port \in Seq(Bytes) /\ port # <<>> /\ typed \in Seq(Chars) /\ Len(queue) \in Nat
      BY <1>1, <1>2
    <3>2. IsWay(way, port, kbd, Len(queue), typed)
      BY <1>3
    <3>3. IsWay(next, Tail(port), Decode(kbd, Head(port)).kbd, way[1].count, typed)
      BY ONLY <2>1, <3>1, <3>2, WayHandled, ZenonT(30)
    <3>4. next[Len(Tail(port))] = way[Len(port)]
      BY ONLY <2>1, <3>1, <3>2, WayHandled
    <3> QED
      BY <3>3, <3>4
  <2> QED
    BY <2>2 DEF d
<1>5. PICK next : /\ IsWay(next, Tail(port), d.kbd, way[1].count, typed)
                  /\ next[Len(Tail(port))] = way[Len(port)]
  BY <1>4
<1>6. /\ Handled(way[0], way[1], Head(port), typed)
      /\ way[0] = [kbd |-> kbd, count |-> Len(queue)] /\ way[1].count \in 0..Len(typed)
  <2> DEFINE first == [i \in 0..(Len(port) - 1) |-> way[i + 1]]
  <2>1. first = [i \in 0..(Len(port) - 1) |-> way[i + 1]]
    OBVIOUS
  <2> HIDE DEF first
  <2> QED
    BY <1>1, <1>2, <1>3, <2>1, WayHandled
<1>7. /\ d.char = NoChar => way[1].count = Len(queue)
      /\ d.char # NoChar => way[1].count = Len(queue) + 1 /\ typed[Len(queue) + 1] = d.char
  BY <1>6 DEF Handled, d
<1>8. /\ queue' \in Seq(Chars) /\ Len(queue') = way[1].count /\ Len(queue') <= Len(typed)
      /\ \A j \in 1..Len(queue') : queue'[j] = typed[j]
  <2>1. CASE d.char = NoChar
    BY <1>1, <1>2, <1>7, <2>1
  <2>2. CASE d.char # NoChar
    <3> DEFINE c == d.char
    <3>1. /\ queue' = Append(queue, c) /\ way[1].count = Len(queue) + 1
          /\ typed[Len(queue) + 1] = c
      BY <1>2, <1>7, <2>2
    <3> HIDE DEF c
    <3>2. Len(queue) \in Nat /\ Len(typed) \in Nat /\ Len(queue) + 1 \in 1..Len(typed)
      BY <1>1, <1>6, <3>1
    <3>3. c \in Chars
      BY <1>1, <3>1, <3>2
    <3>4. /\ queue' \in Seq(Chars) /\ Len(queue') = Len(queue) + 1
          /\ \A j \in 1..Len(queue) : queue'[j] = queue[j]
          /\ queue'[Len(queue) + 1] = c
      BY <1>1, <3>1, <3>3
    <3> QED
      BY <1>1, <3>1, <3>2, <3>4
  <2> QED
    BY <2>1, <2>2
<1>9. /\ IsWay(next, port', kbd', Len(queue'), typed')
      /\ Agree(next[Len(port')].kbd, Ctrls', Shifts', caps')
  BY <1>2, <1>3, <1>5, <1>8 DEF Ctrls, Shifts
<1> QED
  BY <1>1, <1>2, <1>8, <1>9 DEF TypedInv

LEMMA KeyTyped ==
  ASSUME FlagsInv, TypedInv, ~odd, NEW key \in Keys, Press(key) \/ Release(key)
  PROVE  TypedInv'
<1>1. SUFFICES ASSUME ~odd' PROVE TypedInv'
  BY DEF TypedInv
<1>2. /\ typed' \in Seq(Chars) /\ Len(typed) <= Len(typed')
      /\ \A j \in 1..Len(typed) : typed'[j] = typed[j]
      /\ \E way : /\ IsWay(way, port', kbd, Len(queue), typed')
                  /\ Agree(way[Len(port')].kbd, Ctrls', Shifts', caps')
  BY <1>1, WayOfKey
<1>3. UNCHANGED <<kbd, queue, line, shown>>
  BY DEF Press, Release
<1>4. /\ queue \in Seq(Chars) /\ typed \in Seq(Chars)
      /\ Len(queue) <= Len(typed)
      /\ \A j \in 1..Len(queue) : queue[j] = typed[j]
  BY DEF TypedInv
<1>5. Len(queue) <= Len(typed') /\ \A j \in 1..Len(queue) : queue[j] = typed'[j]
  <2>1. Len(queue) \in Nat /\ Len(typed) \in Nat /\ Len(typed') \in Nat
    BY <1>2, <1>4
  <2> QED
    BY <1>2, <1>4, <2>1
<1> QED
  BY <1>2, <1>3, <1>4, <1>5 DEF TypedInv

\* In every behaviour the characters on their way and in the queue are the typed
\* ones and the line is the one the user sees, until both shift keys were down.
THEOREM TypingWay == Spec => []TypedInv
<1>1. Init => TypedInv
  <2> SUFFICES ASSUME Init PROVE TypedInv
    OBVIOUS
  <2>1. /\ held = {} /\ caps = FALSE /\ port = <<>> /\ kbd = KeysUp /\ queue = <<>>
        /\ line = NoLine /\ typed = <<>> /\ shown = <<>>
    BY DEF Init
  <2> DEFINE way == [i \in 0..0 |-> [kbd |-> KeysUp, count |-> 0]]
  <2>2. KeysUp \in Flags /\ Ctrls = {} /\ Shifts = {}
    BY <2>1 DEF KeysUp, Flags, Ctrls, Shifts
  <2>3. /\ way \in [0..0 -> [kbd : Flags, count : 0..0]]
        /\ way[0] = [kbd |-> KeysUp, count |-> 0]
    BY <2>2
  <2> HIDE DEF way
  <2>4. IsWay(way, port, kbd, Len(queue), typed)
    <3>1. Len(<<>>) = 0 /\ 1..0 = {} /\ \A i \in 0..0 : i = 0
      OBVIOUS
    <3>2. way[0].count = 0
      BY <2>3
    <3> QED
      BY <2>1, <2>3, <3>1, <3>2 DEF IsWay
  <2>5. Agree(way[Len(port)].kbd, Ctrls, Shifts, caps)
    BY <2>1, <2>2, <2>3 DEF Agree, KeysUp
  <2>6. IsLine(line) /\ line.text = <<>>
    BY <2>1 DEF NoLine, IsLine
  <2> QED
    BY <2>1, <2>4, <2>5, <2>6 DEF TypedInv
<1>2. FlagsInv /\ TypedInv /\ [Next]_vars => TypedInv'
  <2> SUFFICES ASSUME FlagsInv, TypedInv, [Next]_vars PROVE TypedInv'
    OBVIOUS
  <2>1. CASE odd
    <3>1. odd'
      <4>1. ASSUME NEW key \in Keys PROVE ~Press(key)
        BY <2>1 DEF Press
      <4>2. UNCHANGED odd
        BY <4>1 DEF Next, Release, KeyIntr, ReadChar, Parse, NextLine, vars
      <4> QED
        BY <2>1, <4>2
    <3> QED
      BY <3>1 DEF TypedInv
  <2>2. CASE ~odd
    <3>1. ASSUME NEW key \in Keys, Press(key) \/ Release(key) PROVE TypedInv'
      BY <2>2, <3>1, KeyTyped
    <3>2. CASE KeyIntr
      BY <2>2, <3>2, KeyIntrTyped
    <3>3. CASE ReadChar
      BY <2>2, <3>3, ReadCharTyped
    <3>4. CASE UNCHANGED <<held, caps, port, kbd, queue, typed, odd>>
               /\ IsLine(line')
               /\ (line'.at # "too long" => line'.text = shown')
      BY <3>4 DEF TypedInv, Ctrls, Shifts
    <3>5. CASE Parse
      <4>1. /\ line.at = "has a line" /\ line' = [line EXCEPT !.at = "has words"]
            /\ UNCHANGED <<held, caps, port, kbd, queue, typed, shown, odd>>
        BY <3>5 DEF Parse
      <4>2. IsLine(line) /\ line.text = shown
        BY <2>2, <4>1 DEF TypedInv
      <4>3. IsLine(line') /\ line'.text = line.text
        BY <4>1, <4>2 DEF IsLine
      <4> QED
        BY <3>4, <4>1, <4>2, <4>3
    <3>6. CASE NextLine
      <4>1. /\ line' = NoLine /\ shown' = <<>>
            /\ UNCHANGED <<held, caps, port, kbd, queue, typed, odd>>
        BY <3>6 DEF NextLine
      <4>2. IsLine(line') /\ line'.text = shown'
        BY <4>1 DEF NoLine, IsLine
      <4> QED
        BY <3>4, <4>1, <4>2
    <3>7. CASE UNCHANGED vars
      BY <2>2, <3>7 DEF vars, TypedInv, Ctrls, Shifts
    <3> QED
      BY <3>1, <3>2, <3>3, <3>5, <3>6, <3>7 DEF Next
  <2> QED
    BY <2>1, <2>2
<1> QED
  BY <1>1, <1>2, TypingFlags, PTL DEF Spec

\* The line is at every moment what the user sees, and no character is lost or made
\* up between the keys and the shell: for any keys, any queue, any length of the
\* line, and any order of presses, interrupts and reads.
THEOREM TypingLineIsTyped == Spec => []LineIsTyped
<1>1. TypedInv => LineIsTyped
  <2> SUFFICES ASSUME TypedInv, ~odd, line.at # "too long"
               PROVE  /\ line.text = shown
                      /\ port = <<>> => queue = typed
                      /\ IsPrefix(queue, typed)
    BY DEF LineIsTyped
  <2>1. /\ queue \in Seq(Chars) /\ typed \in Seq(Chars)
        /\ Len(queue) <= Len(typed)
        /\ \A j \in 1..Len(queue) : queue[j] = typed[j]
    BY DEF TypedInv
  <2>2. PICK way : IsWay(way, port, kbd, Len(queue), typed)
    BY DEF TypedInv
  <2>3. port = <<>> => Len(queue) = Len(typed)
    <3>1. SUFFICES ASSUME port = <<>> PROVE Len(queue) = Len(typed)
      OBVIOUS
    <3>2. Len(port) = 0
      BY <3>1
    <3>3. way[0].count = Len(queue) /\ way[0].count = Len(typed)
      <4>1. way[0] = [kbd |-> kbd, count |-> Len(queue)] /\ way[Len(port)].count = Len(typed)
        BY <2>2 DEF IsWay
      <4> QED
        BY ONLY <3>2, <4>1
    <3> QED
      BY <3>3
  <2>4. port = <<>> => queue = typed
    BY <2>1, <2>3, SeqEqual
  <2>5. IsPrefix(queue, typed)
    <3> DEFINE n == Len(queue)
    <3>1. n \in Nat /\ n <= Len(typed)
      BY ONLY <2>1
    <3>2. /\ SubSeq(queue, 1, n) \in Seq(Chars) /\ SubSeq(typed, 1, n) \in Seq(Chars)
          /\ Len(SubSeq(queue, 1, n)) = n /\ Len(SubSeq(typed, 1, n)) = n
          /\ \A j \in 1..n : SubSeq(queue, 1, n)[j] = queue[j] /\ SubSeq(typed, 1, n)[j] = typed[j]
      BY ONLY <2>1, <3>1
    <3>3. SubSeq(queue, 1, n) = SubSeq(typed, 1, n)
      BY <2>1, <3>2, SeqEqual
    <3> QED
      BY <3>1, <3>3 DEF IsPrefix
  <2>6. line.text = shown
    BY DEF TypedInv
  <2> QED
    BY <2>4, <2>5, <2>6
<1> QED
  BY <1>1, TypingWay, PTL

-----------------------------------------------------------------------------
(* From the line to its words *)

\* the places up to i where a word begins
Begins(text, i) == {k \in 1..i : text[k] # Blank /\ (k = 1 \/ text[k - 1] = Blank)}

\* the p-th character begins a word, of which e is the last one up to i
Spans(text, p, e, i) == /\ p \in 1..e /\ e \in 1..i
                        /\ \A n \in p..e : text[n] # Blank
                        /\ p = 1 \/ text[p - 1] = Blank
                        /\ e = i \/ text[e + 1] = Blank

Rank(S, k) == Cardinality({j \in S : j <= k})

\* a are the words of the first i characters.
CutUpTo(a, text, i) ==
  /\ a \in Seq(Seq(Chars))
  /\ Len(a) = Cardinality(Begins(text, i))
  /\ \A p \in Begins(text, i) : \E e \in 1..i : Spans(text, p, e, i)
  /\ \A p, e \in 1..i : Spans(text, p, e, i) => a[Rank(Begins(text, i), p)] = SubSeq(text, p, e)
  /\ \A n \in 1..Len(a) : \E p \in Begins(text, i) : Rank(Begins(text, i), p) = n
  /\ i # 0 /\ text[i] # Blank =>
       \E p \in 1..i : Spans(text, p, i, i) /\ \A r \in Begins(text, i) : r <= p

\* The places up to i are finite, and each has a rank.
LEMMA Ranks ==
  ASSUME NEW text, NEW i \in Nat, NEW B, B = Begins(text, i)
  PROVE  /\ IsFiniteSet(B) /\ Cardinality(B) \in Nat
         /\ \A p \in B : p \in 1..i /\ Rank(B, p) \in 1..Cardinality(B)
<1>1. B \subseteq 1..i /\ IsFiniteSet(1..i)
  BY FS_Interval DEF Begins
<1>2. IsFiniteSet(B) /\ Cardinality(B) \in Nat
  BY <1>1, FS_Subset, FS_CardinalityType
<1>3. ASSUME NEW p \in B PROVE Rank(B, p) \in 1..Cardinality(B)
  <2> DEFINE T == {j \in B : j <= p}
  <2>1. T \in SUBSET B /\ p \in T /\ T # {}
    BY <1>1
  <2> HIDE DEF T
  <2>2. IsFiniteSet(T) /\ Cardinality(T) <= Cardinality(B)
    BY <1>2, <2>1, FS_Subset
  <2>3. Cardinality(T) \in Nat /\ Cardinality(T) # 0
    BY <2>1, <2>2, FS_CardinalityType, FS_EmptySet
  <2>4. Cardinality(T) \in 1..Cardinality(B)
    BY ONLY <1>2, <2>2, <2>3
  <2> QED
    BY <2>4 DEF Rank, T
<1> QED
  BY <1>1, <1>2, <1>3

\* One more character of a part.
LEMMA SubSeqLonger ==
  ASSUME NEW text \in Seq(Chars), NEW p \in Nat, NEW i \in Nat, 1 <= p, p <= i, i < Len(text)
  PROVE  /\ SubSeq(text, p, i) \in Seq(Chars)
         /\ Append(SubSeq(text, p, i), text[i + 1]) = SubSeq(text, p, i + 1)
         /\ SubSeq(text, i + 1, i + 1) = <<text[i + 1]>>
<1>1. /\ SubSeq(text, p, i) \in Seq(Chars) /\ SubSeq(text, p, i + 1) \in Seq(Chars)
      /\ SubSeq(text, i + 1, i + 1) \in Seq(Chars) /\ text[i + 1] \in Chars
      /\ Len(SubSeq(text, p, i)) = i - p + 1
      /\ Len(SubSeq(text, p, i + 1)) = i - p + 2
      /\ Len(SubSeq(text, i + 1, i + 1)) = 1
  OBVIOUS
<1>2. \A n \in 1..(i - p + 1) : SubSeq(text, p, i)[n] = text[p + n - 1]
  OBVIOUS
<1>3. \A n \in 1..(i - p + 2) : SubSeq(text, p, i + 1)[n] = text[p + n - 1]
  OBVIOUS
<1>4. SubSeq(text, i + 1, i + 1)[1] = text[i + 1]
  OBVIOUS
<1> DEFINE s == SubSeq(text, p, i)
           t == SubSeq(text, p, i + 1)
           w == Append(s, text[i + 1])
<1>5. w \in Seq(Chars) /\ Len(w) = i - p + 2
      /\ \A n \in 1..(i - p + 2) : w[n] = IF n = i - p + 2 THEN text[i + 1] ELSE s[n]
  <2> HIDE DEF s
  <2>1. s \in Seq(Chars) /\ Len(s) = i - p + 1 /\ text[i + 1] \in Chars
    BY <1>1 DEF s
  <2> QED
    BY ONLY <2>1, p \in Nat, i \in Nat, p <= i
<1>6. \A n \in 1..(i - p + 2) : w[n] = t[n]
  <2>1. TAKE n \in 1..(i - p + 2)
  <2>2. CASE n = i - p + 2
    <3>1. p + n - 1 = i + 1
      BY <2>2
    <3> QED
      BY <1>3, <1>5, <2>2, <3>1
  <2>3. CASE n # i - p + 2
    <3>1. n \in 1..(i - p + 1)
      BY <2>3
    <3> HIDE DEF w
    <3>2. w[n] = s[n] /\ s[n] = text[p + n - 1] /\ t[n] = text[p + n - 1]
      BY <1>2, <1>3, <1>5, <2>3, <3>1
    <3> QED
      BY <3>2
  <2> QED
    BY <2>2, <2>3
<1>7. w = t
  <2> HIDE DEF w, t
  <2>1. t \in Seq(Chars) /\ Len(t) = i - p + 2
    BY <1>1 DEF t
  <2> QED
    BY <1>5, <1>6, <2>1, SeqEqual
<1>8. SubSeq(text, i + 1, i + 1) = <<text[i + 1]>>
  <2> DEFINE one == SubSeq(text, i + 1, i + 1)
             c == text[i + 1]
  <2>1. one \in Seq(Chars) /\ Len(one) = 1 /\ one[1] = c /\ c \in Chars
    BY <1>1, <1>4
  <2> HIDE DEF one, c
  <2>2. <<c>> \in Seq(Chars) /\ Len(<<c>>) = 1 /\ <<c>>[1] = c
    BY <2>1
  <2>3. \A n \in 1..Len(one) : one[n] = <<c>>[n]
    BY ONLY <2>1, <2>2
  <2>4. one = <<c>>
    BY ONLY <2>1, <2>2, <2>3, SeqEqual
  <2> QED
    BY <2>4 DEF one, c
<1> QED
  BY <1>1, <1>7, <1>8

\* A blank belongs to no word.
LEMMA CutBlank ==
  ASSUME NEW text \in Seq(Chars), NEW i \in Nat, i < Len(text), NEW a, CutUpTo(a, text, i),
         text[i + 1] = Blank
  PROVE  CutUpTo(a, text, i + 1)
<1>1. Begins(text, i + 1) = Begins(text, i)
  BY DEF Begins
<1>2. \A p, e \in 1..i : Spans(text, p, e, i) => Spans(text, p, e, i + 1)
  BY DEF Spans
<1>3. \A p, e \in 1..(i + 1) : Spans(text, p, e, i + 1) => p \in 1..i /\ e \in 1..i /\ Spans(text, p, e, i)
  BY DEF Spans
<1>4. Begins(text, i) \subseteq 1..i
  BY DEF Begins
<1> DEFINE B == Begins(text, i)
<1>5. /\ a \in Seq(Seq(Chars)) /\ Len(a) = Cardinality(B)
      /\ \A p \in B : \E e \in 1..i : Spans(text, p, e, i)
      /\ \A p, e \in 1..i : Spans(text, p, e, i) => a[Rank(B, p)] = SubSeq(text, p, e)
      /\ \A n \in 1..Len(a) : \E p \in B : Rank(B, p) = n
  BY DEF CutUpTo
<1> HIDE DEF B
<1>6. \A p \in B : \E e \in 1..(i + 1) : Spans(text, p, e, i + 1)
  BY <1>2, <1>4, <1>5 DEF B
<1>7. \A p, e \in 1..(i + 1) : Spans(text, p, e, i + 1) => a[Rank(B, p)] = SubSeq(text, p, e)
  BY <1>3, <1>5
<1> QED
  BY <1>1, <1>5, <1>6, <1>7 DEF CutUpTo, B

\* A word begins.
LEMMA CutNew ==
  ASSUME NEW text \in Seq(Chars), NEW i \in Nat, i < Len(text), NEW a, CutUpTo(a, text, i),
         text[i + 1] # Blank, i = 0 \/ text[i] = Blank
  PROVE  CutUpTo(Append(a, <<text[i + 1]>>), text, i + 1)
<1> DEFINE B == Begins(text, i)
           C == Begins(text, i + 1)
           w == <<text[i + 1]>>
           b == Append(a, w)
<1>1. C = B \cup {i + 1} /\ i + 1 \notin B
  BY DEF Begins
<1>2. /\ a \in Seq(Seq(Chars)) /\ Len(a) = Cardinality(B)
      /\ \A p \in B : \E e \in 1..i : Spans(text, p, e, i)
      /\ \A p, e \in 1..i : Spans(text, p, e, i) => a[Rank(B, p)] = SubSeq(text, p, e)
      /\ \A n \in 1..Len(a) : \E p \in B : Rank(B, p) = n
  BY DEF CutUpTo
<1>3. /\ IsFiniteSet(B) /\ Cardinality(B) \in Nat
      /\ \A p \in B : p \in 1..i /\ Rank(B, p) \in 1..Cardinality(B)
  BY Ranks
<1>4. w \in Seq(Chars) /\ w = SubSeq(text, i + 1, i + 1)
  <2>1. text[i + 1] \in Chars
    OBVIOUS
  <2>2. SubSeq(text, i + 1, i + 1) = <<text[i + 1]>>
    <3>1. CASE i = 0
      <4>1. Len(text) \in Nat /\ Len(text) >= 1 /\ SubSeq(text, 1, 1) \in Seq(Chars)
            /\ Len(SubSeq(text, 1, 1)) = 1 /\ SubSeq(text, 1, 1)[1] = text[1] /\ text[1] \in Chars
        BY <3>1
      <4> DEFINE one == SubSeq(text, 1, 1)
                 c == text[1]
      <4>2. one \in Seq(Chars) /\ Len(one) = 1 /\ one[1] = c /\ c \in Chars
        BY <4>1
      <4> HIDE DEF one, c
      <4>3. <<c>> \in Seq(Chars) /\ Len(<<c>>) = 1 /\ <<c>>[1] = c
        BY <4>2
      <4>4. \A n \in 1..Len(one) : one[n] = <<c>>[n]
        BY ONLY <4>2, <4>3
      <4>5. one = <<c>>
        BY ONLY <4>2, <4>3, <4>4, SeqEqual
      <4> QED
        BY <3>1, <4>5 DEF one, c
    <3>2. CASE i # 0
      BY <3>2, SubSeqLonger
    <3> QED
      BY <3>1, <3>2
  <2> QED
    BY <2>1, <2>2
<1>5. Cardinality(C) = Cardinality(B) + 1
  <2> HIDE DEF B, C
  <2> QED
    BY <1>1, <1>3, FS_AddElement
<1>6. /\ b \in Seq(Seq(Chars)) /\ Len(b) = Len(a) + 1 /\ b[Len(a) + 1] = w
      /\ \A n \in 1..Len(a) : b[n] = a[n]
  <2> HIDE DEF w, B
  <2> QED
    BY <1>2, <1>4
<1>7. \A p \in B : Rank(C, p) = Rank(B, p)
  <2>1. TAKE p \in B
  <2>2. {j \in C : j <= p} = {j \in B : j <= p}
    <3>1. p \in 1..i
      BY <1>3
    <3> HIDE DEF B, C
    <3> QED
      BY <1>1, <3>1
  <2> HIDE DEF B, C
  <2> QED
    BY <2>2 DEF Rank
<1>8. Rank(C, i + 1) = Len(a) + 1
  <2>1. {j \in C : j <= i + 1} = C
    BY DEF Begins
  <2> HIDE DEF B, C
  <2> QED
    BY <1>2, <1>5, <2>1 DEF Rank
<1>9. Spans(text, i + 1, i + 1, i + 1)
  BY DEF Spans
<1>10. \A p, e \in 1..i : Spans(text, p, e, i) => Spans(text, p, e, i + 1)
  <2>1. TAKE p, e \in 1..i
  <2>2. ASSUME Spans(text, p, e, i) PROVE Spans(text, p, e, i + 1)
    <3>1. e = i => text[e] = Blank
      BY <2>1
    <3>2. e # i
      BY <2>2, <3>1 DEF Spans
    <3> QED
      BY <2>2, <3>2 DEF Spans
  <2> QED
    BY <2>2
<1>11. \A p, e \in 1..(i + 1) : Spans(text, p, e, i + 1) =>
         \/ p = i + 1 /\ e = i + 1
         \/ p \in B /\ p \in 1..i /\ e \in 1..i /\ Spans(text, p, e, i)
  <2>1. TAKE p, e \in 1..(i + 1)
  <2>2. SUFFICES ASSUME Spans(text, p, e, i + 1), ~(p = i + 1 /\ e = i + 1)
                 PROVE  p \in B /\ p \in 1..i /\ e \in 1..i /\ Spans(text, p, e, i)
    OBVIOUS
  <2>3. p <= i
    BY <2>2 DEF Spans
  <2>4. i \in 1..i /\ text[i] = Blank
    BY <2>3
  <2>5. e <= i
    <3>1. SUFFICES ASSUME e = i + 1 PROVE FALSE
      OBVIOUS
    <3>2. i \in p..e
      BY <2>3, <3>1
    <3> QED
      BY <2>2, <2>4, <3>2 DEF Spans
  <2>6. Spans(text, p, e, i)
    BY <2>2, <2>3, <2>5 DEF Spans
  <2>7. p \in B
    BY <2>2, <2>3 DEF Spans, Begins
  <2> QED
    BY <2>3, <2>5, <2>6, <2>7
<1> HIDE DEF B, C, w, b
<1>12. \A p \in C : \E e \in 1..(i + 1) : Spans(text, p, e, i + 1)
  <2>1. TAKE p \in C
  <2>2. CASE p = i + 1
    BY <1>9, <2>2
  <2>3. CASE p \in B
    <3>1. PICK e \in 1..i : Spans(text, p, e, i)
      BY <1>2, <2>3
    <3>2. p \in 1..i /\ e \in 1..(i + 1)
      BY <1>3, <2>3
    <3> QED
      BY <1>10, <3>1, <3>2
  <2> QED
    BY <1>1, <2>2, <2>3
<1>13. \A p, e \in 1..(i + 1) : Spans(text, p, e, i + 1) => b[Rank(C, p)] = SubSeq(text, p, e)
  <2>1. TAKE p, e \in 1..(i + 1)
  <2>2. SUFFICES ASSUME Spans(text, p, e, i + 1) PROVE b[Rank(C, p)] = SubSeq(text, p, e)
    OBVIOUS
  <2>3. CASE p = i + 1 /\ e = i + 1
    BY <1>4, <1>6, <1>8, <2>3
  <2>4. CASE p \in B /\ p \in 1..i /\ e \in 1..i /\ Spans(text, p, e, i)
    <3>1. a[Rank(B, p)] = SubSeq(text, p, e)
      BY <1>2, <2>4
    <3>2. Rank(C, p) = Rank(B, p) /\ Rank(B, p) \in 1..Len(a)
      BY <1>2, <1>3, <1>7, <2>4
    <3> QED
      BY <1>6, <3>1, <3>2
  <2> QED
    BY <1>11, <2>2, <2>3, <2>4
<1>14. \A n \in 1..Len(b) : \E p \in C : Rank(C, p) = n
  <2>1. TAKE n \in 1..Len(b)
  <2>2. CASE n = Len(a) + 1
    BY <1>1, <1>8, <2>2
  <2>3. CASE n # Len(a) + 1
    <3>1. n \in 1..Len(a)
      BY <1>2, <1>3, <1>6, <2>3
    <3>2. PICK p \in B : Rank(B, p) = n
      BY <1>2, <3>1
    <3> QED
      BY <1>1, <1>7, <3>2
  <2> QED
    BY <2>2, <2>3
<1>15. \A r \in C : r <= i + 1
  BY <1>1, <1>3
<1>16. Len(b) = Cardinality(C)
  BY <1>2, <1>5, <1>6
<1>17. CutUpTo(b, text, i + 1)
  BY <1>6, <1>9, <1>12, <1>13, <1>14, <1>15, <1>16 DEF CutUpTo, C
<1> QED
  BY <1>17 DEF b, w

\* A word goes on.
LEMMA CutOn ==
  ASSUME NEW text \in Seq(Chars), NEW i \in Nat \ {0}, i < Len(text), NEW a, CutUpTo(a, text, i),
         text[i + 1] # Blank, text[i] # Blank
  PROVE  CutUpTo([a EXCEPT ![Len(a)] = Append(@, text[i + 1])], text, i + 1)
<1> DEFINE B == Begins(text, i)
           b == [a EXCEPT ![Len(a)] = Append(@, text[i + 1])]
<1>1. Begins(text, i + 1) = B
  BY DEF Begins
<1>2. /\ a \in Seq(Seq(Chars)) /\ Len(a) = Cardinality(B)
      /\ \A p \in B : \E e \in 1..i : Spans(text, p, e, i)
      /\ \A p, e \in 1..i : Spans(text, p, e, i) => a[Rank(B, p)] = SubSeq(text, p, e)
      /\ \A n \in 1..Len(a) : \E p \in B : Rank(B, p) = n
  BY DEF CutUpTo
<1>3. PICK last \in 1..i : Spans(text, last, i, i) /\ \A r \in B : r <= last
  BY DEF CutUpTo
<1>4. last \in B
  BY <1>3 DEF Spans, Begins
<1>5. /\ IsFiniteSet(B) /\ Cardinality(B) \in Nat
      /\ \A p \in B : p \in 1..i /\ Rank(B, p) \in 1..Cardinality(B)
  BY Ranks
<1>6. Spans(text, last, i + 1, i + 1)
  BY <1>3 DEF Spans
<1>7. \A p, e \in 1..i : Spans(text, p, e, i) /\ e # i => Spans(text, p, e, i + 1)
  BY DEF Spans
<1>8. \A p, e \in 1..(i + 1) : Spans(text, p, e, i + 1) =>
        \/ e = i + 1 /\ p = last
        \/ e \in 1..(i - 1) /\ p \in B /\ p \in 1..i /\ Spans(text, p, e, i) /\ p # last
  <2>1. TAKE p, e \in 1..(i + 1)
  <2>2. SUFFICES ASSUME Spans(text, p, e, i + 1)
                 PROVE  \/ e = i + 1 /\ p = last
                        \/ e \in 1..(i - 1) /\ p \in B /\ p \in 1..i /\ Spans(text, p, e, i) /\ p # last
    OBVIOUS
  <2>3. p # i + 1
    BY <2>2 DEF Spans
  <2>4. p \in B /\ p \in 1..i
    BY <2>2, <2>3 DEF Spans, Begins
  <2>5. p <= last
    BY <1>3, <2>4
  <2>6. CASE e = i + 1
    <3>1. SUFFICES ASSUME p < last PROVE FALSE
      BY <2>4, <2>5, <2>6
    <3>2. last - 1 \in p..e /\ last # 1
      BY <2>4, <2>6, <3>1
    <3>3. text[last - 1] # Blank
      BY <2>2, <3>2 DEF Spans
    <3> QED
      BY <1>3, <3>2, <3>3 DEF Spans
  <2>7. CASE e # i + 1
    <3>1. text[e + 1] = Blank /\ e <= i /\ e # i
      BY <2>2, <2>7 DEF Spans
    <3>2. e + 1 \in p..i
      BY <2>2, <3>1 DEF Spans
    <3>3. p # last
      BY <1>3, <3>1, <3>2 DEF Spans
    <3>4. Spans(text, p, e, i)
      BY <2>2, <2>4, <3>1 DEF Spans
    <3> QED
      BY <2>4, <3>1, <3>3, <3>4
  <2> QED
    BY <2>6, <2>7
<1> HIDE DEF B
<1>9. Rank(B, last) = Len(a)
  <2>1. {j \in B : j <= last} = B
    BY <1>3
  <2> QED
    BY <1>2, <2>1 DEF Rank
<1>10. \A p \in B : p # last => Rank(B, p) \in 1..(Len(a) - 1)
  <2>1. TAKE p \in B
  <2>2. SUFFICES ASSUME p # last PROVE Rank(B, p) \in 1..(Len(a) - 1)
    OBVIOUS
  <2>3. p <= last /\ p \in 1..i
    BY <1>3, <1>5
  <2>4. {j \in B : j <= p} \in SUBSET (B \ {last})
    BY <2>2, <2>3
  <2>5. IsFiniteSet(B \ {last}) /\ Cardinality(B \ {last}) = Cardinality(B) - 1
    BY <1>4, <1>5, FS_RemoveElement
  <2>6. Rank(B, p) <= Cardinality(B \ {last})
    BY <2>4, <2>5, FS_Subset DEF Rank
  <2>7. Rank(B, p) \in 1..Cardinality(B)
    BY <1>5
  <2> QED
    BY ONLY <1>2, <1>5, <2>5, <2>6, <2>7
<1>11. Len(a) \in 1..Len(a) /\ a[Len(a)] = SubSeq(text, last, i)
  <2>1. a[Rank(B, last)] = SubSeq(text, last, i)
    BY <1>2, <1>3
  <2>2. Rank(B, last) \in 1..Cardinality(B)
    BY <1>4, <1>5
  <2> QED
    BY <1>2, <1>9, <2>1, <2>2
<1>12. /\ Append(a[Len(a)], text[i + 1]) = SubSeq(text, last, i + 1)
       /\ Append(a[Len(a)], text[i + 1]) \in Seq(Chars)
  <2>1. /\ SubSeq(text, last, i) \in Seq(Chars)
        /\ Append(SubSeq(text, last, i), text[i + 1]) = SubSeq(text, last, i + 1)
    <3>1. last \in Nat /\ 1 <= last /\ last <= i
      BY <1>3
    <3> QED
      BY <3>1, SubSeqLonger
  <2>2. text[i + 1] \in Chars
    OBVIOUS
  <2>3. Append(SubSeq(text, last, i), text[i + 1]) \in Seq(Chars)
    <3> DEFINE s == SubSeq(text, last, i)
    <3>1. s \in Seq(Chars)
      BY <2>1
    <3> HIDE DEF s
    <3>2. Append(s, text[i + 1]) \in Seq(Chars)
      BY <2>2, <3>1
    <3> QED
      BY <3>2 DEF s
  <2> QED
    BY <1>11, <2>1, <2>3
<1>13. /\ b \in Seq(Seq(Chars)) /\ Len(b) = Len(a) /\ b[Len(a)] = SubSeq(text, last, i + 1)
       /\ \A n \in 1..(Len(a) - 1) : b[n] = a[n]
  <2> DEFINE v == Append(a[Len(a)], text[i + 1])
  <2>1. b = [a EXCEPT ![Len(a)] = v]
    OBVIOUS
  <2>2. v \in Seq(Chars) /\ v = SubSeq(text, last, i + 1)
    BY <1>12
  <2> HIDE DEF v, b
  <2> QED
    BY <1>2, <1>11, <2>1, <2>2
<1> HIDE DEF b
<1>14. \A p \in B : \E e \in 1..(i + 1) : Spans(text, p, e, i + 1)
  <2>1. TAKE p \in B
  <2>2. PICK e \in 1..i : Spans(text, p, e, i)
    BY <1>2
  <2>3. p \in 1..i
    BY <1>5
  <2>4. CASE e # i
    BY <1>7, <2>2, <2>3, <2>4
  <2>5. CASE e = i
    <3>1. Spans(text, p, i + 1, i + 1)
      BY <2>2, <2>5 DEF Spans
    <3> QED
      BY <3>1
  <2> QED
    BY <2>4, <2>5
<1>15. \A p, e \in 1..(i + 1) : Spans(text, p, e, i + 1) => b[Rank(B, p)] = SubSeq(text, p, e)
  <2>1. TAKE p, e \in 1..(i + 1)
  <2>2. SUFFICES ASSUME Spans(text, p, e, i + 1) PROVE b[Rank(B, p)] = SubSeq(text, p, e)
    OBVIOUS
  <2>3. CASE e = i + 1 /\ p = last
    BY <1>9, <1>13, <2>3
  <2>4. CASE e \in 1..(i - 1) /\ p \in B /\ p \in 1..i /\ Spans(text, p, e, i) /\ p # last
    <3>1. e \in 1..i
      BY <2>4
    <3>2. a[Rank(B, p)] = SubSeq(text, p, e)
      BY <1>2, <2>4, <3>1
    <3> QED
      BY <1>10, <1>13, <2>4, <3>2
  <2> QED
    BY <1>8, <2>2, <2>3, <2>4
<1>16. \A n \in 1..Len(b) : \E p \in B : Rank(B, p) = n
  BY <1>2, <1>13
<1>17. \E p \in 1..(i + 1) : Spans(text, p, i + 1, i + 1) /\ \A r \in B : r <= p
  BY <1>3, <1>6
<1>18. CutUpTo(b, text, i + 1)
  BY <1>1, <1>2, <1>13, <1>14, <1>15, <1>16, <1>17 DEF CutUpTo
<1> QED
  BY <1>18 DEF b
\* A set of naturals has a least element.
LEMMA Smallest ==
  ASSUME NEW T, T \subseteq Nat, T # {}
  PROVE  \E x \in T : \A y \in T : x <= y
<1>1. IsWellFoundedOn(OpToRel(<, Nat), Nat)
  BY NatLessThanWellFounded
<1>2. PICK x \in T : \A y \in T : ~ (<<y, x>> \in OpToRel(<, Nat))
  BY <1>1, WFMin
<1>3. \A y \in T : ~(y < x)
  BY <1>2 DEF OpToRel
<1>4. x \in Nat /\ \A y \in T : y \in Nat
  OBVIOUS
<1>5. \A y \in T : x <= y
  BY <1>3, <1>4
<1> QED
  BY <1>5

\* A set with 0 that goes on from each i below n to i + 1 has all of 0..n.
LEMMA Induction ==
  ASSUME NEW S, NEW n \in Nat, 0 \in S, \A i \in 0..(n - 1) : i \in S => i + 1 \in S
  PROVE  \A i \in 0..n : i \in S
<1> DEFINE rest == (0..n) \ S
<1>1. SUFFICES ASSUME rest # {} PROVE FALSE
  OBVIOUS
<1>2. rest \subseteq Nat
  OBVIOUS
<1>3. PICK x \in rest : \A y \in rest : x <= y
  <2> HIDE DEF rest
  <2> QED
    BY <1>1, <1>2, Smallest
<1>4. x \in Nat /\ x # 0 /\ x <= n /\ x \notin S
  BY <1>3
<1>5. x - 1 \in 0..(n - 1) /\ ~(x <= x - 1)
  BY <1>4
<1>6. x - 1 \in S
  BY <1>3, <1>5
<1> QED
  BY <1>4, <1>5, <1>6

\* The first m rounds of a loop.
Rounds(f, m, S, base, step) ==
  /\ f \in [0..m -> S]
  /\ f[0] = base
  /\ \A i \in 1..m : f[i] = step[<<f[i - 1], i>>]

\* A loop of n rounds has a result for each round.
LEMMA LoopExists ==
  ASSUME NEW S, NEW base \in S, NEW n \in Nat, NEW step \in [S \X (1..n) -> S]
  PROVE  \E f : Rounds(f, n, S, base, step)
<1> DEFINE Good == {m \in 0..n : \E f : Rounds(f, m, S, base, step)}
<1>1. 0 \in Good
  <2>1. Rounds([i \in 0..0 |-> base], 0, S, base, step)
    BY DEF Rounds
  <2> QED
    BY <2>1
<1>2. ASSUME NEW m \in 0..(n - 1), m \in Good PROVE m + 1 \in Good
  <2>1. PICK f : Rounds(f, m, S, base, step)
    BY <1>2
  <2> DEFINE g == [i \in 0..(m + 1) |-> IF i = m + 1 THEN step[<<f[m], m + 1>>] ELSE f[i]]
  <2>2. f[m] \in S /\ m + 1 \in 1..n /\ m \in Nat
    BY <2>1 DEF Rounds
  <2>3. step[<<f[m], m + 1>>] \in S
    BY <2>2
  <2>4. g \in [0..(m + 1) -> S]
    BY <2>1, <2>2, <2>3 DEF Rounds
  <2>5. g[0] = base
    BY <2>1, <2>2 DEF Rounds
  <2>6. ASSUME NEW i \in 1..(m + 1) PROVE g[i] = step[<<g[i - 1], i>>]
    <3>1. CASE i = m + 1
      <4>1. g[i] = step[<<f[m], m + 1>>] /\ g[i - 1] = f[m]
        BY <3>1, <2>2
      <4> QED
        BY <4>1, <3>1
    <3>2. CASE i # m + 1
      <4>1. i \in 1..m /\ i - 1 \in 0..m
        BY <3>2, <2>2
      <4>2. g[i] = f[i] /\ g[i - 1] = f[i - 1]
        BY <4>1, <2>2
      <4>3. f[i] = step[<<f[i - 1], i>>]
        BY <4>1, <2>1 DEF Rounds
      <4> QED
        BY <4>2, <4>3
    <3> QED
      BY <3>1, <3>2
  <2>7. Rounds(g, m + 1, S, base, step)
    <3> HIDE DEF g
    <3> QED
      BY <2>4, <2>5, <2>6 DEF Rounds
  <2>8. m + 1 \in 0..n
    BY <2>2
  <2> QED
    BY <2>7, <2>8
<1>3. n \in Good
  <2> HIDE DEF Good
  <2> QED
    BY <1>1, <1>2, Induction
<1> QED
  BY <1>3

\* Two sets that a function pairs off have equally many elements.
LEMMA PairedOff ==
  ASSUME NEW S, NEW T, IsFiniteSet(T), NEW f \in [S -> T],
         \A x, y \in S : f[x] = f[y] => x = y,
         \A t \in T : \E x \in S : f[x] = t
  PROVE  Cardinality(S) = Cardinality(T)
<1>1. f \in Bijection(S, T)
  BY Fun_IsBij
<1>2. ExistsBijection(S, T)
  BY <1>1 DEF ExistsBijection
<1>3. ExistsBijection(T, S)
  BY <1>2, Fun_ExistsBijSymmetric
<1> QED
  BY <1>3, FS_Bijection

\* cmdParse, as a loop.
LEMMA ArgvRounds ==
  ASSUME NEW text \in Seq(Chars)
  PROVE  \E argv : /\ argv[0] = <<>>
                   /\ \A i \in 1..Len(text) : argv[i] = ParseChar(argv[i - 1], text, i)
                   /\ Argv(text) = argv[Len(text)]
<1> DEFINE n == Len(text)
           S == Seq(Seq(Chars))
           step == [x \in S \X (1..n) |-> ParseChar(x[1], text, x[2])]
           Loop(f) == f = [i \in 0..n |-> IF i = 0 THEN <<>> ELSE ParseChar(f[i - 1], text, i)]
<1>1. n \in Nat /\ <<>> \in S
  OBVIOUS
<1>2. step \in [S \X (1..n) -> S]
  <2>1. ASSUME NEW a \in S, NEW i \in 1..n PROVE ParseChar(a, text, i) \in S
    <3>1. text[i] \in Chars
      OBVIOUS
    <3> DEFINE c == text[i]
    <3>2. c \in Chars
      BY <3>1
    <3> HIDE DEF c
    <3>3. Append(a, <<c>>) \in S
      BY <3>2
    <3>4. [a EXCEPT ![Len(a)] = Append(@, c)] \in S
      <4>1. CASE a = <<>>
        <5>1. Len(a) \notin DOMAIN a
          BY <4>1
        <5>2. [a EXCEPT ![Len(a)] = Append(@, c)] = a
          BY <4>1, <5>1
        <5> QED
          BY <5>2
      <4>2. CASE a # <<>>
        <5>1. Len(a) \in DOMAIN a /\ a[Len(a)] \in Seq(Chars)
          BY <4>2
        <5> DEFINE v == Append(a[Len(a)], c)
        <5>2. v \in Seq(Chars)
          BY <3>2, <5>1
        <5> HIDE DEF v
        <5>3. [a EXCEPT ![Len(a)] = v] \in S
          BY <5>1, <5>2
        <5> QED
          BY <5>3 DEF v
      <4> QED
        BY <4>1, <4>2
    <3> QED
      BY <3>3, <3>4 DEF ParseChar, c
  <2> HIDE DEF S
  <2> QED
    BY <2>1
<1>3. PICK f : Rounds(f, n, S, <<>>, step)
  <2> HIDE DEF S, step, n
  <2> QED
    BY <1>1, <1>2, LoopExists
<1>4. ASSUME NEW i \in 1..n PROVE f[i] = ParseChar(f[i - 1], text, i)
  <2>1. f[i - 1] \in S
    <3> HIDE DEF S, step
    <3>1. i - 1 \in 0..n
      BY <1>1
    <3> QED
      BY <1>3, <3>1 DEF Rounds
  <2>2. <<f[i - 1], i>> \in S \X (1..n)
    BY <2>1
  <2>3. f[i] = step[<<f[i - 1], i>>]
    BY <1>3 DEF Rounds
  <2> QED
    BY <2>2, <2>3
<1>5. Loop(f)
  <2> HIDE DEF S, step, n
  <2>1. f \in [0..n -> S] /\ f[0] = <<>>
    BY <1>3 DEF Rounds
  <2>2. \A i \in 0..n : i # 0 => i \in 1..n
    BY <1>1
  <2> QED
    BY <2>1, <2>2, <1>4
<1> DEFINE argv == CHOOSE g : Loop(g)
<1>6. Loop(argv)
  BY <1>5
<1>7. Argv(text) = argv[n]
  BY DEF Argv
<1>8. ASSUME NEW i \in 0..n
      PROVE  argv[i] = IF i = 0 THEN <<>> ELSE ParseChar(argv[i - 1], text, i)
  <2> HIDE DEF argv
  <2> QED
    BY <1>6
<1>9. argv[0] = <<>>
  BY <1>1, <1>8
<1>10. ASSUME NEW i \in 1..n PROVE argv[i] = ParseChar(argv[i - 1], text, i)
  <2>1. i \in 0..n /\ i # 0
    BY <1>1
  <2> HIDE DEF argv
  <2> QED
    BY <1>8, <2>1
<1> HIDE DEF argv
<1> QED
  BY <1>7, <1>9, <1>10

\* cmdParse leaves the words of the line in argv.
LEMMA ArgvCut ==
  ASSUME NEW text \in Seq(Chars)
  PROVE  CutUpTo(Argv(text), text, Len(text))
<1>1. PICK argv : /\ argv[0] = <<>>
                  /\ \A i \in 1..Len(text) : argv[i] = ParseChar(argv[i - 1], text, i)
                  /\ Argv(text) = argv[Len(text)]
  BY ArgvRounds
<1> DEFINE n == Len(text)
           Good == {i \in 0..n : CutUpTo(argv[i], text, i)}
<1>2. n \in Nat
  OBVIOUS
<1>3. 0 \in Good
  <2>1. Begins(text, 0) = {}
    BY DEF Begins
  <2>2. /\ <<>> \in Seq(Seq(Chars)) /\ Len(<<>>) = 0 /\ Cardinality({}) = 0
        /\ \A p, e \in 1..0 : FALSE
    BY FS_EmptySet
  <2>3. CutUpTo(<<>>, text, 0)
    BY <2>1, <2>2 DEF CutUpTo
  <2> QED
    BY <1>1, <1>2, <2>3
<1>4. ASSUME NEW i \in 0..(n - 1), i \in Good PROVE i + 1 \in Good
  <2>1. i \in Nat /\ i < Len(text) /\ i + 1 \in 1..n /\ i + 1 \in 0..n /\ (i + 1) - 1 = i
    BY <1>2
  <2>2. CutUpTo(argv[i], text, i)
    BY <1>4
  <2>3. argv[i + 1] = ParseChar(argv[i], text, i + 1)
    BY <1>1, <2>1
  <2>4. CutUpTo(argv[i + 1], text, i + 1)
    <3>1. CASE text[i + 1] = Blank
      <4>1. argv[i + 1] = argv[i]
        BY <2>3, <3>1 DEF ParseChar
      <4> QED
        BY <2>1, <2>2, <3>1, <4>1, CutBlank
    <3>2. CASE text[i + 1] # Blank /\ (i = 0 \/ text[i] = Blank)
      <4>1. argv[i + 1] = Append(argv[i], <<text[i + 1]>>)
        BY <2>1, <2>3, <3>2 DEF ParseChar
      <4> QED
        BY <2>1, <2>2, <3>2, <4>1, CutNew
    <3>3. CASE text[i + 1] # Blank /\ i # 0 /\ text[i] # Blank
      <4>1. argv[i + 1] = [argv[i] EXCEPT ![Len(argv[i])] = Append(@, text[i + 1])]
        BY <2>1, <2>3, <3>3 DEF ParseChar
      <4> QED
        <5>1. i \in Nat \ {0}
          BY <2>1, <3>3
        <5>2. CutUpTo([argv[i] EXCEPT ![Len(argv[i])] = Append(@, text[i + 1])], text, i + 1)
          BY <2>1, <2>2, <3>3, <5>1, CutOn
        <5> QED
          BY <4>1, <5>2
    <3> QED
      BY <3>1, <3>2, <3>3
  <2> QED
    BY <2>1, <2>4
<1>5. n \in Good
  <2> HIDE DEF Good, n
  <2>1. \A i \in 0..n : i \in Good
    BY <1>2, <1>3, <1>4, Induction
  <2> QED
    BY <1>2, <2>1
<1> QED
  BY <1>1, <1>5

\* The words, counted in the two ways.
LEMMA ArgvWords ==
  ASSUME NEW text \in Seq(Chars)
  PROVE  Argv(text) = Words(text) /\ Len(Argv(text)) \in Nat
<1> DEFINE n == Len(text)
           a == Argv(text)
           B == Begins(text, n)
           P == Parts(text)
           Behind(x) == {r \in P : r[1] <= x}
<1>1. /\ a \in Seq(Seq(Chars)) /\ Len(a) = Cardinality(B)
      /\ \A p \in B : \E e \in 1..n : Spans(text, p, e, n)
      /\ \A p, e \in 1..n : Spans(text, p, e, n) => a[Rank(B, p)] = SubSeq(text, p, e)
      /\ \A k \in 1..Len(a) : \E p \in B : Rank(B, p) = k
  BY ArgvCut DEF CutUpTo
<1>2. n \in Nat
  OBVIOUS
<1>3. /\ IsFiniteSet(B) /\ Cardinality(B) \in Nat
      /\ \A p \in B : p \in 1..n /\ Rank(B, p) \in 1..Cardinality(B)
  BY <1>2, Ranks
<1>4. \A r \in P : /\ r[1] \in 1..n /\ r[2] \in 1..n /\ r = <<r[1], r[2]>>
                  /\ Spans(text, r[1], r[2], n) /\ r[1] \in B
  BY DEF Parts, IsWord, Spans, Begins
<1>5. \A p, e \in 1..n : Spans(text, p, e, n) => <<p, e>> \in P
  BY DEF Parts, IsWord, Spans
<1>6. \A r, s \in P : r[1] = s[1] => r = s
  <2>1. TAKE r, s \in P
  <2>2. SUFFICES ASSUME r[1] = s[1], r[2] < s[2] \/ s[2] < r[2] PROVE FALSE
    BY <1>4
  <2>3. ASSUME NEW t \in P, NEW u \in P, t[1] = u[1], t[2] < u[2] PROVE FALSE
    <3>1. /\ t[1] \in 1..n /\ t[2] \in 1..n /\ u[2] \in 1..n
          /\ Spans(text, t[1], t[2], n) /\ Spans(text, u[1], u[2], n)
      BY <1>4
    <3>2. t[2] # n /\ text[t[2] + 1] = Blank
      BY <2>3, <3>1 DEF Spans
    <3>3. t[2] + 1 \in u[1]..u[2]
      BY <2>3, <3>1 DEF Spans
    <3> QED
      BY <3>1, <3>2, <3>3 DEF Spans
  <2> QED
    BY <2>2, <2>3
<1>7. \A x : Cardinality(Behind(x)) = Rank(B, x)
  <2>1. TAKE top
  <2> DEFINE S == Behind(top)
             T == {j \in B : j <= top}
             f == [r \in S |-> r[1]]
  <2>2. f \in [S -> T]
    BY <1>4
  <2>3. \A r, s \in S : f[r] = f[s] => r = s
    BY <1>6
  <2>4. ASSUME NEW j \in T PROVE \E r \in S : f[r] = j
    <3>1. PICK e \in 1..n : Spans(text, j, e, n)
      BY <1>1
    <3>2. <<j, e>> \in P
      BY <1>3, <1>5, <3>1
    <3>3. <<j, e>> \in S /\ f[<<j, e>>] = j
      BY <3>2
    <3> QED
      BY <3>3
  <2>5. IsFiniteSet(T)
    <3> HIDE DEF B
    <3>1. T \in SUBSET B
      OBVIOUS
    <3> HIDE DEF T
    <3> QED
      BY <1>3, <3>1, FS_Subset
  <2> HIDE DEF S, T, f, B
  <2>6. Cardinality(S) = Cardinality(T)
    BY <2>2, <2>3, <2>4, <2>5, PairedOff
  <2> QED
    BY <2>6 DEF Rank, S, T
<1>8. Cardinality(P) = Cardinality(B)
  <2>1. P = Behind(n) /\ B = {j \in B : j <= n}
    BY <1>2, <1>3, <1>4
  <2> HIDE DEF P, B
  <2> QED
    BY <1>7, <2>1 DEF Rank
<1> DEFINE At(k) == CHOOSE q \in P : Cardinality({r \in P : r[1] <= q[1]}) = k
<1>9. \A k \in 1..Len(a) : At(k) \in P /\ Rank(B, At(k)[1]) = k
  <2>1. TAKE k \in 1..Len(a)
  <2>2. PICK p \in B : Rank(B, p) = k
    BY <1>1
  <2>3. PICK e \in 1..n : Spans(text, p, e, n)
    BY <1>1
  <2>4. <<p, e>> \in P /\ <<p, e>>[1] = p
    BY <1>3, <1>5, <2>3
  <2>5. Cardinality({r \in P : r[1] <= <<p, e>>[1]}) = k
    BY <1>7, <2>2, <2>4
  <2> HIDE DEF P, B
  <2>6. At(k) \in P /\ Cardinality({r \in P : r[1] <= At(k)[1]}) = k
    BY <2>4, <2>5
  <2> QED
    BY <1>7, <2>6
<1>10. \A k \in 1..Len(a) : a[k] = SubSeq(text, At(k)[1], At(k)[2])
  <2>1. TAKE k \in 1..Len(a)
  <2> DEFINE q == At(k)
  <2>2. q \in P /\ Rank(B, q[1]) = k
    BY <1>9
  <2> HIDE DEF q, P, B
  <2>3. a[Rank(B, q[1])] = SubSeq(text, q[1], q[2])
    BY <1>1, <1>4, <2>2
  <2> QED
    BY <2>2, <2>3 DEF q
<1>11. Words(text) = [k \in 1..Len(a) |-> SubSeq(text, At(k)[1], At(k)[2])]
  <2> HIDE DEF a, B
  <2> QED
    BY <1>1, <1>8, Zenon DEF Words
<1>12. Len(a) \in Nat /\ a = [k \in 1..Len(a) |-> a[k]]
  <2> HIDE DEF a
  <2> QED
    BY <1>1
<1>13. [k \in 1..Len(a) |-> a[k]] = [k \in 1..Len(a) |-> SubSeq(text, At(k)[1], At(k)[2])]
  <2> HIDE DEF a, At
  <2> QED
    BY <1>10
<1> QED
  BY <1>11, <1>12, <1>13

\* What a byte makes is a character of keymap or none.
LEMMA DecodedChar ==
  ASSUME NEW k \in Flags, NEW b \in Bytes
  PROVE  Decode(k, b).char \in Chars \cup {NoChar}
<1>1. CASE b >= 128 \/ k.ext
  BY <1>1, Silent
<1>2. CASE b < 128 /\ ~k.ext
  <2> DEFINE s == [k EXCEPT !.ext = FALSE]
  <2>1. b # \hE0 /\ (b \div 128) % 2 # 1
    BY <1>2 DEF Bytes
  <2>2. CASE b \in 1..\h3A
    <3>1. Decode(k, b).char = Meant(s, b)
      BY <1>2, <2>1, <2>2 DEF Decode
    <3>2. \A kind \in {"plain", "shift", "ctrl"} : Char(b, kind) \in Chars
      BY <2>2 DEF Char, Chars
    <3>3. \/ Meant(s, b) = NoChar
          \/ \E kind \in {"plain", "shift", "ctrl"} : Meant(s, b) = Char(b, kind)
      BY DEF Meant, Keymap
    <3> QED
      BY <3>1, <3>2, <3>3
  <2>3. CASE b \notin 1..\h3A
    <3>1. b \notin (1..\h3A) \cup {\hE01D, \hE038}
      BY <2>3 DEF Bytes
    <3>2. Decode(k, b).char = NoChar
      BY <1>2, <2>1, <3>1 DEF Decode
    <3> QED
      BY <3>2
  <2> QED
    BY <2>2, <2>3
<1> QED
  BY <1>1, <1>2 DEF Bytes

\* readLine stops with a line or one that is too long.
LEMMA EditedAt ==
  ASSUME NEW l, IsLine(l), l.at = "reads", NEW c
  PROVE  Edited(l, c).at # "has words"
<1>1. Len(l.text) \in Nat /\ CmdLen \in Nat
  <2>1. l.text \in Seq(Chars)
    BY DEF IsLine
  <2>2. CmdLen \in {Size, CmdLen, MaxPort}
    OBVIOUS
  <2> HIDE DEF Chars
  <2> QED
    BY <2>1, <2>2, TypingAssumption
<1>2. l \in [text : Seq(Chars), at : {"reads", "has a line", "has words", "too long"}]
  BY DEF IsLine
<1>3. \A t : [l EXCEPT !.text = t].at = "reads"
  BY <1>2
<1>4. \A s : [l EXCEPT !.at = s].at = s
  BY <1>2
<1>5. Enter # Backspace /\ Enter # CtrlL /\ Enter # CtrlU
      /\ Backspace # CtrlL /\ Backspace # CtrlU /\ CtrlL # CtrlU
  <2>1. /\ Enter.code = \h1C /\ Backspace.code = \h0E
        /\ CtrlL.code = \h26 /\ CtrlU.code = \h16
    BY DEF Enter, Backspace, CtrlL, CtrlU, Char
  <2> QED
    BY ONLY <2>1
<1>6. Len(l.text) >= CmdLen <=> ~(Len(l.text) < CmdLen)
  BY <1>1
<1> DEFINE m == Edited(l, c)
<1>7. \/ m = [l EXCEPT !.at = "too long"] \/ m = [l EXCEPT !.at = "has a line"]
      \/ m = l \/ m = [l EXCEPT !.text = Front(l.text)]
      \/ m = [l EXCEPT !.text = EraseLine(l.text)]
      \/ m = [l EXCEPT !.text = Append(l.text, c)]
  BY <1>5, <1>6 DEF Edited
<1> QED
  BY <1>3, <1>4, <1>7

\* The line and the queue have characters, and argv is of this line.
WordsInv ==
  /\ queue \in Seq(Chars)
  /\ IsLine(line)
  /\ line.at = "has words" => words = CmdParse(line.text)

\* However the line came about, argc and argv are what cmdParse makes of it.
THEOREM TypingWords == Spec => []WordsInv
<1>1. Init => WordsInv
  <2> SUFFICES ASSUME Init PROVE WordsInv
    OBVIOUS
  <2>1. queue = <<>> /\ line = NoLine
    BY DEF Init
  <2>2. IsLine(NoLine) /\ NoLine.at = "reads"
    BY DEF IsLine, NoLine
  <2> QED
    BY <2>1, <2>2 DEF WordsInv
<1>2. FlagsInv /\ WordsInv /\ [Next]_vars => WordsInv'
  <2> SUFFICES ASSUME FlagsInv, WordsInv, [Next]_vars PROVE WordsInv'
    OBVIOUS
  <2>1. CASE UNCHANGED <<queue, line, words>>
    BY <2>1 DEF WordsInv
  <2>2. ASSUME NEW key \in Keys, Press(key) \/ Release(key)
        PROVE  UNCHANGED <<queue, line, words>>
    BY <2>2 DEF Press, Release
  <2>3. CASE KeyIntr
    <3> DEFINE d == Decode(kbd, Head(port))
    <3>1. /\ UNCHANGED <<line, words>>
          /\ queue' = IF d.char = NoChar THEN queue ELSE Append(queue, d.char)
      BY <2>3 DEF KeyIntr
    <3>2. kbd \in Flags /\ Head(port) \in Bytes
      BY <2>3 DEF KeyIntr, FlagsInv
    <3>3. d.char \in Chars \cup {NoChar}
      BY <3>2, DecodedChar
    <3> DEFINE c == d.char
    <3>4. /\ queue' = IF c = NoChar THEN queue ELSE Append(queue, c)
          /\ c \in Chars \cup {NoChar} /\ queue \in Seq(Chars)
      BY <3>1, <3>3 DEF WordsInv
    <3> HIDE DEF c, d
    <3>5. queue' \in Seq(Chars)
      BY ONLY <3>4
    <3> QED
      BY <3>1, <3>5 DEF WordsInv
  <2>4. CASE ReadChar
    <3>1. /\ line.at = "reads" /\ queue # <<>> /\ line' = Edited(line, Head(queue))
          /\ queue' = Tail(queue)
      BY <2>4 DEF ReadChar
    <3>2. queue \in Seq(Chars) /\ IsLine(line)
      BY DEF WordsInv
    <3>3. Head(queue) \in Chars /\ Tail(queue) \in Seq(Chars)
      BY <3>1, <3>2
    <3>4. IsLine(line')
      BY <3>1, <3>2, <3>3, EditedSeen
    <3>5. line'.at # "has words"
      BY <3>1, <3>2, EditedAt
    <3> QED
      BY <3>1, <3>3, <3>4, <3>5 DEF WordsInv
  <2>5. CASE Parse
    <3>1. /\ line' = [line EXCEPT !.at = "has words"] /\ words' = CmdParse(line.text)
          /\ queue' = queue
      BY <2>5 DEF Parse
    <3>2. queue \in Seq(Chars) /\ IsLine(line)
      BY DEF WordsInv
    <3>3. IsLine(line') /\ line'.text = line.text
      BY <3>1, <3>2 DEF IsLine
    <3>4. words' = CmdParse(line'.text)
      BY <3>1, <3>3
    <3> QED
      BY <3>1, <3>2, <3>3, <3>4 DEF WordsInv
  <2>6. CASE NextLine
    <3>1. line' = NoLine /\ queue' = queue
      BY <2>6 DEF NextLine
    <3>2. IsLine(NoLine) /\ NoLine.at = "reads"
      BY DEF IsLine, NoLine
    <3> QED
      BY <3>1, <3>2 DEF WordsInv
  <2> QED
    BY <2>1, <2>2, <2>3, <2>4, <2>5, <2>6 DEF Next, vars
<1> QED
  BY <1>1, <1>2, TypingFlags, PTL DEF Spec

\* argv names the words of the line and argc counts them, for a line of any
\* length with blanks anywhere, and a line with two words too many is refused
\* (cmdParse of shell/shell.c).
THEOREM TypingArgvIsWords == Spec => []ArgvIsWords
<1>1. WordsInv => ArgvIsWords
  <2> SUFFICES ASSUME WordsInv, line.at = "has words"
               PROVE  /\ words.argc # -1 => words.argv = Words(line.text) /\ words.argc = Len(Words(line.text))
                      /\ words.argc = -1 <=> Len(Words(line.text)) >= MaxArgs + 2
    BY DEF ArgvIsWords
  <2> DEFINE a == Argv(line.text)
  <2>1. line.text \in Seq(Chars) /\ words = CmdParse(line.text)
    BY DEF WordsInv, IsLine
  <2>2. a = Words(line.text) /\ Len(a) \in Nat
    BY <2>1, ArgvWords
  <2>3. words.argv = a /\ words.argc = IF Len(a) > MaxArgs + 1 THEN -1 ELSE Len(a)
    BY <2>1 DEF CmdParse
  <2> HIDE DEF a
  <2>4. MaxArgs \in Nat
    BY TypingAssumption
  <2>5. Len(Words(line.text)) = Len(a) /\ (words.argc # -1 => words.argc = Len(a))
    BY <2>2, <2>3
  <2>6. words.argc = -1 <=> Len(a) >= MaxArgs + 2
    BY ONLY <2>2, <2>3, <2>4
  <2> QED
    BY <2>2, <2>3, <2>5, <2>6
<1> QED
  BY <1>1, TypingWords, PTL
=============================================================================
