---------------------------- MODULE ConsoleProofs -----------------------------
(***************************************************************************)
(* The safety properties of Console, for every set of keys, every content  *)
(* of the memory past the table, every buffer size and every bound.        *)
(***************************************************************************)
EXTENDS Console, SequenceTheorems, NaturalsInduction, WellFoundedInduction, TLAPS

(* What the proofs add to the types: getch is entered with room in the buffer. *)
Room == pc \in {"poll", "discard", "handle"} => i < Size

(* A key of class m is down; a byte that will clear class m waits after place n. *)
Down(h, m) == \E k \in h : KeyAt(k.code) = m
Clears(w, n, m) == \E p \in 1..Len(w) : p > n /\ w[p] >= 128 /\ KeyAt(w[p] - 128) = m
Covered(h, w, n, m) == Down(h, m) \/ Clears(w, n, m)

(* A flag that is on, and a press that will switch it on, will be taken back: *)
(* by a byte behind it in the queue or by the release of a key still down.    *)
Owed(h, w, m, flag) ==
  /\ flag => Covered(h, w, 0, m)
  /\ \A n \in 1..Len(w) : w[n] < 128 /\ KeyAt(w[n]) = m => Covered(h, w, n, m)

Taken == /\ Owed(held, wire, "shift", shift)
         /\ Owed(held, wire, "ctrl", ctrl)
         /\ Owed(held, wire, "alt", alt)

(* The stamps of the keys, and the mailbox holds a key newer than the last   *)
(* one returned, but for the moment between getch's two steps.               *)
Stamps ==
  /\ arrived \in Nat /\ boxStamp \in Nat /\ keyStamp \in Nat
  /\ keyStamp <= boxStamp /\ boxStamp <= arrived
  /\ pc # "discard" /\ scancode # INVALID_SCANCODE => keyStamp < boxStamp

(* Where the two bytes of a toggle are, while the keyboard refuses none: the *)
(* command byte is taken before the handler writes the LED byte.             *)
Settled == cmdByte = NoByte /\ ~ledCmd
Light == LedData(Num, capslock, scrolllock)
OnTheWay ==
  resends = 0 =>
    /\ cpu = "fg"   => (Settled /\ leds = Light) \/ (cmdByte = Light /\ ledCmd)
    /\ cpu = "led1" => Settled \/ (cmdByte \in 0..7 /\ ledCmd)
    /\ cpu = "led2" => (cmdByte = 237 /\ ~ledCmd) \/ (cmdByte = NoByte /\ ledCmd)

(* What get_command has in its buffer below the cursor is the edited line, at  *)
(* every moment.                                                           *)
Char == [code : 0..127, upper : BOOLEAN]
LineEdited ==
  /\ line \in Seq(Char) /\ Edit(line) \in Seq(Char)
  /\ i = Len(Edit(line)) /\ \A n \in 1..i : buf[n - 1] = Edit(line)[n]

IInv == TypeOK /\ Room /\ Taken /\ Stamps /\ OnTheWay /\ LineEdited

------------------------------------------------------------------------------
(* Bytes and sequences.                                                    *)

(* A byte is below 128 or not; the two codes of a key are 128 apart. *)
LEMMA Halves ==
  /\ \A b \in 0..255 : b >= 128 <=> ~(b < 128)
  /\ \A c \in 1..127 : c + 128 \in 0..255 /\ c + 128 >= 128 /\ (c + 128) - 128 = c
  OBVIOUS

(* A byte below 128 is a scan code of the mailbox. *)
LEMMA LowByte == ASSUME NEW b \in 0..255, b < 128 PROVE b \in 0..127
  OBVIOUS

(* The prefix before the code of an extended key. *)
LEMMA Prefixed ==
  ASSUME NEW c \in Int
  PROVE <<224>> \o <<c>> = <<224, c>>
  <1> DEFINE s == <<224>>
             t == <<c>>
  <1>1. s \in Seq(Int) /\ t \in Seq(Int) /\ Len(s) = 1 /\ Len(t) = 1 /\ s[1] = 224 /\ t[1] = c
    OBVIOUS
  <1> HIDE DEF s, t
  <1>7. s \in Seq(Int) /\ t \in Seq(Int)
    BY <1>1
  <1>2. /\ s \o t \in Seq(Int) /\ Len(s \o t) = Len(s) + Len(t)
        /\ \A n \in 1..Len(s) + Len(t) : (s \o t)[n] = IF n <= Len(s) THEN s[n] ELSE t[n - Len(s)]
    BY <1>7, ConcatProperties
  <1>3. Len(s \o t) = 2
    BY <1>1, <1>2
  <1>4. (s \o t)[1] = 224
    BY <1>1, <1>2
  <1>5. (s \o t)[2] = c
    <2>1. 2 \in 1..Len(s) + Len(t) /\ ~(2 <= Len(s)) /\ 2 - Len(s) = 1
      BY <1>1
    <2> QED
      BY <1>1, <1>2, <2>1
  <1>6. \A z \in Seq(Int) : Len(z) = 2 /\ z[1] = 224 /\ z[2] = c => z = <<224, c>>
    OBVIOUS
  <1> QED
    BY <1>2, <1>3, <1>4, <1>5, <1>6 DEF s, t

(* Two sequences put together keep their elements at their places. *)
LEMMA Joined ==
  ASSUME NEW S, NEW s \in Seq(S), NEW t \in Seq(S)
  PROVE /\ s \o t \in Seq(S) /\ Len(s \o t) = Len(s) + Len(t)
        /\ \A n \in 1..Len(s) : (s \o t)[n] = s[n]
        /\ \A n \in 1..Len(t) : (s \o t)[Len(s) + n] = t[n]
  BY ConcatProperties

(* The queue without its first byte: every other byte moves down one place. *)
LEMMA Tailed ==
  ASSUME NEW S, NEW s \in Seq(S), s # <<>>
  PROVE /\ Len(s) >= 1 /\ Head(s) = s[1] /\ Head(s) \in S
        /\ Tail(s) \in Seq(S) /\ Len(Tail(s)) = Len(s) - 1
        /\ \A n \in 1..(Len(s) - 1) : Tail(s)[n] = s[n + 1]
  BY HeadTailProperties, EmptySeq

(* The bytes of a key are bytes. *)
LEMMA KeyBytes ==
  ASSUME NEW k \in Keys
  PROVE /\ k.code \in 1..127 /\ MakeBytes(k) \in Seq(0..255) /\ BreakBytes(k) \in Seq(0..255)
        /\ k.ext => Len(MakeBytes(k)) = 2 /\ Len(BreakBytes(k)) = 2
        /\ ~k.ext => Len(MakeBytes(k)) = 1 /\ Len(BreakBytes(k)) = 1
        /\ \A n \in 1..Len(MakeBytes(k)) : MakeBytes(k)[n] = k.code \/ MakeBytes(k)[n] = 224
        /\ BreakBytes(k)[Len(BreakBytes(k))] = k.code + 128
        /\ \A n \in 1..Len(BreakBytes(k)) : BreakBytes(k)[n] >= 128
  <1>1. k.code \in 1..127 /\ k.ext \in BOOLEAN
    BY KeyboardAssumption
  <1>2. CASE k.ext
    <2>1. MakeBytes(k) = <<224, k.code>> /\ BreakBytes(k) = <<224, k.code + 128>>
      <3>1. Prefix(k) = <<224>>
        BY <1>2 DEF Prefix
      <3>2. k.code \in Int /\ k.code + 128 \in Int
        BY <1>1
      <3>3. <<224>> \o <<k.code>> = <<224, k.code>> /\ <<224>> \o <<k.code + 128>> = <<224, k.code + 128>>
        BY <3>2, Prefixed
      <3> QED
        BY <3>1, <3>3, Zenon DEF MakeBytes, BreakBytes
    <2>2. /\ Len(MakeBytes(k)) = 2 /\ MakeBytes(k)[1] = 224 /\ MakeBytes(k)[2] = k.code
          /\ Len(BreakBytes(k)) = 2 /\ BreakBytes(k)[1] = 224 /\ BreakBytes(k)[2] = k.code + 128
      BY <2>1
    <2>3. MakeBytes(k) \in Seq(0..255) /\ BreakBytes(k) \in Seq(0..255)
      BY <1>1, <2>1
    <2>4. \A n \in 1..2 : n = 1 \/ n = 2
      OBVIOUS
    <2>5. /\ \A n \in 1..Len(MakeBytes(k)) : MakeBytes(k)[n] = k.code \/ MakeBytes(k)[n] = 224
          /\ \A n \in 1..Len(BreakBytes(k)) : BreakBytes(k)[n] >= 128
      BY <1>1, <2>2, <2>4
    <2> QED
      BY <1>1, <1>2, <2>2, <2>3, <2>5
  <1>3. CASE ~k.ext
    <2>1. MakeBytes(k) = <<k.code>> /\ BreakBytes(k) = <<k.code + 128>>
      BY <1>3 DEF MakeBytes, BreakBytes, Prefix
    <2> QED
      BY <1>1, <1>3, <2>1
  <1> QED
    BY <1>1, <1>2, <1>3

------------------------------------------------------------------------------
(* What is owed.                                                           *)

(* Bytes joining the queue cancel nothing that waits in it. *)
LEMMA ClearsLonger ==
  ASSUME NEW w \in Seq(0..255), NEW t \in Seq(0..255), NEW m, NEW n \in Nat, Clears(w, n, m)
  PROVE Clears(w \o t, n, m)
  <1>1. PICK p \in 1..Len(w) : p > n /\ w[p] >= 128 /\ KeyAt(w[p] - 128) = m
    BY DEF Clears
  <1>2. p \in 1..Len(w \o t) /\ (w \o t)[p] = w[p]
    BY Joined, <1>1
  <1> QED
    BY <1>1, <1>2 DEF Clears

(* The queue without its first byte still clears what a later byte cleared. *)
LEMMA ClearsShorter ==
  ASSUME NEW w \in Seq(0..255), w # <<>>, NEW m, NEW n \in 1..Len(w), Clears(w, n, m)
  PROVE Clears(Tail(w), n - 1, m)
  <1>1. PICK p \in 1..Len(w) : p > n /\ w[p] >= 128 /\ KeyAt(w[p] - 128) = m
    BY DEF Clears
  <1>2. p - 1 \in 1..Len(Tail(w)) /\ Tail(w)[p - 1] = w[p] /\ p - 1 > n - 1
    BY Tailed, <1>1
  <1> QED
    BY <1>1, <1>2 DEF Clears

(* A press: its own byte is covered by the key that is now down. *)
LEMMA PressOwes ==
  ASSUME NEW h, NEW w \in Seq(0..255), NEW m, NEW f, NEW k \in Keys, Owed(h, w, m, f)
  PROVE Owed(h \cup {k}, w \o MakeBytes(k), m, f)
  <1> DEFINE t == MakeBytes(k)
             u == w \o t
  <1>1. t \in Seq(0..255) /\ \A n \in 1..Len(t) : t[n] = k.code \/ t[n] = 224
    BY KeyBytes
  <1>5. /\ u \in Seq(0..255) /\ Len(u) = Len(w) + Len(t) /\ Len(w) \in Nat /\ Len(t) \in Nat
        /\ \A n \in 1..Len(w) : u[n] = w[n]
        /\ \A n \in 1..Len(t) : u[Len(w) + n] = t[n]
    BY <1>1, Joined
  <1>6. ASSUME NEW n \in Nat, Clears(w, n, m) PROVE Clears(u, n, m)
    BY <1>1, <1>6, ClearsLonger
  <1> HIDE DEF t, u
  <1>2. ASSUME NEW n \in Nat, Covered(h, w, n, m)
        PROVE Covered(h \cup {k}, u, n, m)
    BY <1>1, <1>2, <1>6 DEF Covered, Down
  <1>3. ASSUME NEW n \in 1..Len(u), u[n] < 128, KeyAt(u[n]) = m
        PROVE Covered(h \cup {k}, u, n, m)
    <2>1. CASE n \in 1..Len(w)
      <3>1. u[n] = w[n]
        BY <1>5, <2>1
      <3>2. Covered(h, w, n, m)
        BY <1>3, <2>1, <3>1 DEF Owed
      <3>3. n \in Nat
        BY <1>5, <2>1
      <3> QED
        BY <1>2, <3>2, <3>3
    <2>2. CASE n \notin 1..Len(w)
      <3>1. n - Len(w) \in 1..Len(t) /\ u[n] = t[n - Len(w)]
        <4>1. n - Len(w) \in 1..Len(t) /\ n = Len(w) + (n - Len(w))
          BY <1>5, <2>2
        <4> QED
          BY <1>5, <4>1
      <3>2. u[n] = k.code
        BY <1>1, <1>3, <3>1
      <3> QED
        BY <1>3, <3>2 DEF Covered, Down
    <2> QED
      BY <2>1, <2>2
  <1>4. f => Covered(h \cup {k}, u, 0, m)
    BY <1>2 DEF Owed
  <1> QED
    BY <1>3, <1>4 DEF Owed, t, u

(* A release: what the key covered is covered by its last byte. *)
LEMMA ReleaseOwes ==
  ASSUME NEW h, NEW w \in Seq(0..255), NEW m, NEW f, NEW k \in Keys, Owed(h, w, m, f)
  PROVE Owed(h \ {k}, w \o BreakBytes(k), m, f)
  <1> DEFINE t == BreakBytes(k)
             u == w \o t
  <1>1. /\ t \in Seq(0..255) /\ \A n \in 1..Len(t) : t[n] >= 128
        /\ Len(t) \in 1..2 /\ t[Len(t)] = k.code + 128 /\ k.code \in 1..127
    BY KeyBytes, SMTT(30)
  <1>5. /\ u \in Seq(0..255) /\ Len(u) = Len(w) + Len(t) /\ Len(w) \in Nat /\ Len(t) \in Nat
        /\ \A n \in 1..Len(w) : u[n] = w[n]
        /\ \A n \in 1..Len(t) : u[Len(w) + n] = t[n]
    BY <1>1, Joined
  <1>6. ASSUME NEW n \in Nat, Clears(w, n, m) PROVE Clears(u, n, m)
    BY <1>1, <1>6, ClearsLonger
  <1> HIDE DEF t, u
  <1>2. ASSUME NEW n \in 0..Len(w), Covered(h, w, n, m)
        PROVE Covered(h \ {k}, u, n, m)
    <2>1. CASE KeyAt(k.code) = m
      <3> DEFINE p == Len(w) + Len(t)
      <3>1. p \in 1..Len(u) /\ p > n
        <4>1. Len(w) \in Nat /\ Len(t) \in 1..2 /\ Len(u) = Len(w) + Len(t) /\ n \in 0..Len(w)
          BY <1>1, <1>5
        <4>2. \A a \in Nat, b \in 1..2 : \A c \in 0..a : a + b \in 1..(a + b) /\ a + b > c
          OBVIOUS
        <4> QED
          BY <4>1, <4>2, Zenon
      <3>3. u[p] = t[Len(t)] /\ t[Len(t)] = k.code + 128
        <4>1. \A b \in 1..2 : b \in 1..b
          OBVIOUS
        <4>2. Len(t) \in 1..Len(t)
          BY <1>1, <4>1, Zenon
        <4> QED
          BY <1>1, <1>5, <4>2, Zenon
      <3> HIDE DEF p
      <3>2. u[p] >= 128 /\ u[p] - 128 = k.code
        <4>1. k.code \in 1..127
          BY <1>1
        <4>2. k.code + 128 >= 128 /\ (k.code + 128) - 128 = k.code
          BY <4>1, Halves, Zenon
        <4>3. u[p] = k.code + 128
          BY <3>3, Zenon
        <4> QED
          BY <4>2, <4>3, Zenon
      <3> QED
        BY <2>1, <3>1, <3>2 DEF Covered, Clears
    <2>2. CASE KeyAt(k.code) # m
      BY <1>1, <1>2, <2>2, <1>6 DEF Covered, Down
    <2> QED
      BY <2>1, <2>2
  <1>3. ASSUME NEW n \in 1..Len(u), u[n] < 128, KeyAt(u[n]) = m
        PROVE Covered(h \ {k}, u, n, m)
    <2>1. CASE n \in 1..Len(w)
      <3>1. u[n] = w[n]
        BY <1>5, <2>1
      <3>2. Covered(h, w, n, m)
        BY <1>3, <2>1, <3>1 DEF Owed
      <3>3. n \in 0..Len(w)
        BY <1>5, <2>1
      <3> QED
        BY <1>2, <3>2, <3>3
    <2>2. CASE n \notin 1..Len(w)
      <3>1. PICK q \in 1..Len(t) : n = Len(w) + q
        <4>1. n - Len(w) \in 1..Len(t) /\ n = Len(w) + (n - Len(w))
          BY <1>5, <2>2
        <4> QED
          BY <4>1
      <3>2. u[n] = t[q]
        BY <1>5, <3>1
      <3>3. t[q] >= 128 /\ t[q] \in 0..255
        <4>1. t[q] >= 128
          BY <1>1, Zenon
        <4>2. \A z \in 1..Len(t) : t[z] \in 0..255
          BY <1>1, ElementOfSeq
        <4> QED
          BY <4>1, <4>2, Zenon
      <3> QED
        <4>1. ~(u[n] < 128)
          <5>1. ~(t[q] < 128)
            BY <3>3, Halves, Zenon
          <5> QED
            BY <3>2, <5>1, Zenon
        <4> QED
          BY <1>3, <4>1
    <2> QED
      BY <2>1, <2>2
  <1>4. f => Covered(h \ {k}, u, 0, m)
    <2>1. 0 \in 0..Len(w)
      BY <1>5
    <2> QED
      BY <1>2, <2>1 DEF Owed
  <1> QED
    BY <1>3, <1>4 DEF Owed, t, u

(* An answer to a command byte is no press. *)
LEMMA AnswerOwes ==
  ASSUME NEW h, NEW w \in Seq(0..255), NEW m, NEW f, NEW b \in 128..255, Owed(h, w, m, f)
  PROVE Owed(h, Append(w, b), m, f)
  <1>1. <<b>> \in Seq(0..255) /\ Len(<<b>>) = 1 /\ <<b>>[1] = b
    OBVIOUS
  <1>2. Append(w, b) = w \o <<b>>
    BY <1>1, AppendIsConcat
  <1>5. /\ w \o <<b>> \in Seq(0..255) /\ Len(w \o <<b>>) = Len(w) + 1 /\ Len(w) \in Nat
        /\ \A n \in 1..Len(w) : (w \o <<b>>)[n] = w[n]
        /\ (w \o <<b>>)[Len(w) + 1] = b
    BY <1>1, Joined
  <1>3. ASSUME NEW n \in Nat, Covered(h, w, n, m)
        PROVE Covered(h, w \o <<b>>, n, m)
    BY <1>1, <1>3, ClearsLonger DEF Covered
  <1>4. ASSUME NEW n \in 1..Len(w \o <<b>>), (w \o <<b>>)[n] < 128, KeyAt((w \o <<b>>)[n]) = m
        PROVE Covered(h, w \o <<b>>, n, m)
    <2>1. CASE n \in 1..Len(w)
      <3>1. (w \o <<b>>)[n] = w[n]
        BY <1>5, <2>1
      <3> QED
        BY <1>3, <1>4, <2>1, <3>1 DEF Owed
    <2>2. CASE n \notin 1..Len(w)
      <3>1. n = Len(w) + 1
        BY <1>5, <2>2
      <3>2. (w \o <<b>>)[n] = b
        BY <1>5, <3>1
      <3> QED
        BY <1>4, <3>2
    <2> QED
      BY <2>1, <2>2
  <1>6. f => Covered(h, w \o <<b>>, 0, m)
    BY <1>3 DEF Owed
  <1> QED
    BY <1>2, <1>4, <1>6 DEF Owed

(* The handler takes a make code: the flag it may set was covered before. *)
LEMMA MakeOwes ==
  ASSUME NEW h, NEW w \in Seq(0..255), w # <<>>, NEW m, NEW f, Owed(h, w, m, f),
         Head(w) < 128, NEW g, g => f \/ KeyAt(Head(w)) = m
  PROVE Owed(h, Tail(w), m, g)
  <1>1. 1 \in 1..Len(w) /\ Head(w) = w[1] /\ Head(w) \in 0..255
    BY Tailed
  <1>2. ASSUME NEW n \in 1..Len(w), Covered(h, w, n, m)
        PROVE Covered(h, Tail(w), n - 1, m)
    BY <1>2, ClearsShorter DEF Covered
  <1>3. Clears(w, 0, m) => Clears(Tail(w), 0, m)
    <2>1. SUFFICES ASSUME Clears(w, 0, m) PROVE Clears(w, 1, m)
      <3>1. 1 - 1 = 0
        OBVIOUS
      <3> QED
        BY <1>1, <2>1, <3>1, ClearsShorter
    <2>2. PICK p \in 1..Len(w) : w[p] >= 128 /\ KeyAt(w[p] - 128) = m
      BY <2>1 DEF Clears
    <2>3. p # 1
      <3>1. w[1] < 128
        BY <1>1
      <3>3. ~(w[1] >= 128)
        <4>1. w[1] \in 0..255
          BY <1>1
        <4> QED
          BY <3>1, <4>1, Halves, Zenon
      <3> QED
        BY <2>2, <3>3, Zenon
    <2> QED
      BY <2>2, <2>3 DEF Clears
  <1>4. f => Covered(h, Tail(w), 0, m)
    BY <1>3 DEF Owed, Covered
  <1>5. KeyAt(Head(w)) = m => Covered(h, Tail(w), 0, m)
    <2>1. KeyAt(Head(w)) = m => Covered(h, w, 1, m)
      BY <1>1 DEF Owed
    <2>2. 1 - 1 = 0
      OBVIOUS
    <2> QED
      BY <1>1, <1>2, <2>1, <2>2
  <1>6. ASSUME NEW n \in 1..Len(Tail(w)), Tail(w)[n] < 128, KeyAt(Tail(w)[n]) = m
        PROVE Covered(h, Tail(w), n, m)
    <2>1. n + 1 \in 1..Len(w) /\ Tail(w)[n] = w[n + 1] /\ (n + 1) - 1 = n
      BY Tailed
    <2>2. Covered(h, w, n + 1, m)
      BY <1>6, <2>1 DEF Owed
    <2>3. Covered(h, Tail(w), (n + 1) - 1, m)
      BY <1>2, <2>1, <2>2
    <2> QED
      BY <2>1, <2>3
  <1> QED
    BY <1>4, <1>5, <1>6 DEF Owed

(* The handler takes another byte: a flag it leaves on is covered by a later one. *)
LEMMA BreakOwes ==
  ASSUME NEW h, NEW w \in Seq(0..255), w # <<>>, NEW m, NEW f, Owed(h, w, m, f),
         Head(w) >= 128, NEW g, g => f /\ KeyAt(Head(w) - 128) # m
  PROVE Owed(h, Tail(w), m, g)
  <1>1. 1 \in 1..Len(w) /\ Head(w) = w[1] /\ Head(w) \in 0..255
    BY Tailed
  <1>2. ASSUME NEW n \in 1..Len(w), Covered(h, w, n, m)
        PROVE Covered(h, Tail(w), n - 1, m)
    BY <1>2, ClearsShorter DEF Covered
  <1>3. ASSUME Clears(w, 0, m), KeyAt(Head(w) - 128) # m
        PROVE Clears(Tail(w), 0, m)
    <2>1. PICK p \in 1..Len(w) : w[p] >= 128 /\ KeyAt(w[p] - 128) = m
      BY <1>3 DEF Clears
    <2>2. p # 1
      BY <1>1, <1>3, <2>1
    <2>3. Clears(w, 1, m)
      BY <2>1, <2>2 DEF Clears
    <2>4. 1 - 1 = 0
      OBVIOUS
    <2> QED
      BY <1>1, <2>3, <2>4, ClearsShorter
  <1>4. f /\ KeyAt(Head(w) - 128) # m => Covered(h, Tail(w), 0, m)
    BY <1>3 DEF Owed, Covered
  <1>6. ASSUME NEW n \in 1..Len(Tail(w)), Tail(w)[n] < 128, KeyAt(Tail(w)[n]) = m
        PROVE Covered(h, Tail(w), n, m)
    <2>1. n + 1 \in 1..Len(w) /\ Tail(w)[n] = w[n + 1] /\ (n + 1) - 1 = n
      BY Tailed
    <2>2. Covered(h, w, n + 1, m)
      BY <1>6, <2>1 DEF Owed
    <2>3. Covered(h, Tail(w), (n + 1) - 1, m)
      BY <1>2, <2>1, <2>2
    <2> QED
      BY <2>1, <2>3
  <1> QED
    BY <1>4, <1>6 DEF Owed

------------------------------------------------------------------------------
(* The steps.                                                              *)

(* What the handler does with a byte: it clears with a break, sets with a make. *)
LEMMA Callback ==
  ASSUME wire \in Seq(0..255), KeyboardCallback
  PROVE /\ wire # <<>> /\ wire' = Tail(wire) /\ Head(wire) \in 0..255 /\ Tail(wire) \in Seq(0..255)
        /\ cpu = "fg" /\ UNCHANGED <<device, port>>
        /\ \/ /\ Head(wire) >= 128 /\ Clear(KeyAt(Head(wire) - 128))
              /\ \E c \in Int : Watch(c)
              /\ UNCHANGED <<scancode, cpu>>
           \/ Head(wire) < 128 /\ OnMake(Head(wire))
  <1>1. wire # <<>> /\ wire' = Tail(wire) /\ cpu = "fg" /\ UNCHANGED <<device, port>>
    BY DEF KeyboardCallback
  <1>2. Head(wire) \in 0..255 /\ Tail(wire) \in Seq(0..255)
    BY <1>1, Tailed
  <1> DEFINE code == SignExtend(Head(wire))
  <1>3. \A b \in 0..255 : LET c == SignExtend(b) IN
          /\ ~IsExtension(c)
          /\ b >= 128 => IsBreak(c) /\ c + 128 = b - 128 /\ c + 128 \in Int
          /\ ~(b >= 128) => ~IsBreak(c) /\ c = b /\ b < 128
    BY DEF SignExtend, IsExtension, IsBreak
  <1>4. /\ ~IsExtension(code)
        /\ Head(wire) >= 128 => IsBreak(code) /\ code + 128 = Head(wire) - 128 /\ code + 128 \in Int
        /\ ~(Head(wire) >= 128) => ~IsBreak(code) /\ code = Head(wire) /\ Head(wire) < 128
    BY <1>2, <1>3, Zenon
  <1>5. \/ IsBreak(code) /\ OnBreak(code + 128)
        \/ ~IsBreak(code) /\ OnMake(code)
    BY <1>4, Zenon DEF KeyboardCallback
  <1> HIDE DEF code
  <1>6. CASE Head(wire) >= 128
    <2>1. OnBreak(code + 128) /\ code + 128 = Head(wire) - 128 /\ code + 128 \in Int
      BY <1>4, <1>5, <1>6, Zenon
    <2>2. OnBreak(Head(wire) - 128) /\ Head(wire) - 128 \in Int
      BY <2>1, Zenon
    <2> QED
      BY <1>1, <1>2, <1>6, <2>2, Zenon DEF OnBreak
  <1>7. CASE ~(Head(wire) >= 128)
    <2>1. OnMake(Head(wire)) /\ Head(wire) < 128
      BY <1>4, <1>5, <1>7, Zenon
    <2> QED
      BY <1>1, <1>2, <2>1, Zenon
  <1> QED
    BY <1>6, <1>7, Zenon

(* A modifier the driver holds on is owed its release, whatever happens. *)
LEMMA TakenStep ==
  ASSUME TypeOK, Taken, [Next]_vars
  PROVE Taken'
  <1>1. wire \in Seq(0..255)
    BY DEF TypeOK
  <1>2. ASSUME NEW k \in Keys, Press(k) PROVE Taken'
    <2>1. held' = held \cup {k} /\ wire' = wire \o MakeBytes(k) /\ UNCHANGED <<shift, ctrl, alt>>
      BY <1>2 DEF Press, mods
    <2> QED
      BY <1>1, <2>1, PressOwes DEF Taken
  <1>3. ASSUME NEW k \in Keys, Release(k) PROVE Taken'
    <2>1. held' = held \ {k} /\ wire' = wire \o BreakBytes(k) /\ UNCHANGED <<shift, ctrl, alt>>
      BY <1>3 DEF Release, mods
    <2> QED
      BY <1>1, <2>1, ReleaseOwes DEF Taken
  <1>4. CASE TakeCommand
    <2>1. held' = held /\ UNCHANGED <<shift, ctrl, alt>>
      BY <1>4 DEF TakeCommand, device, mods
    <2>2. PICK b \in {250, 254} : wire' = Append(wire, b)
      BY <1>4 DEF TakeCommand
    <2>3. b \in 128..255
      OBVIOUS
    <2> QED
      BY <1>1, <2>1, <2>2, <2>3, AnswerOwes, ZenonT(30) DEF Taken
  <1>5. CASE KeyboardCallback
    <2>1. wire # <<>> /\ wire' = Tail(wire) /\ held' = held
      BY <1>1, <1>5, Callback DEF device
    <2>2. CASE Head(wire) >= 128 /\ Clear(KeyAt(Head(wire) - 128))
      <3>1. /\ shift' => shift /\ KeyAt(Head(wire) - 128) # "shift"
            /\ ctrl' => ctrl /\ KeyAt(Head(wire) - 128) # "ctrl"
            /\ alt' => alt /\ KeyAt(Head(wire) - 128) # "alt"
        BY <2>2, Zenon DEF Clear
      <3> QED
        BY <1>1, <2>1, <2>2, <3>1, BreakOwes, Zenon DEF Taken
    <2>3. CASE Head(wire) < 128 /\ OnMake(Head(wire))
      <3>1. /\ shift' => shift \/ KeyAt(Head(wire)) = "shift"
            /\ ctrl' => ctrl \/ KeyAt(Head(wire)) = "ctrl"
            /\ alt' => alt \/ KeyAt(Head(wire)) = "alt"
        BY <2>3, Zenon DEF OnMake, Set
      <3> QED
        BY <1>1, <2>1, <2>3, <3>1, MakeOwes, Zenon DEF Taken
    <2> QED
      BY <1>1, <1>5, <2>2, <2>3, Callback, Zenon
  <1>6. CASE UNCHANGED <<held, wire, shift, ctrl, alt>>
    BY <1>6, Zenon DEF Taken
  <1>7. SetLeds => UNCHANGED <<held, wire, shift, ctrl, alt>>
    BY DEF SetLeds, SendFromHandler, device, mods
  <1>8. Kernel => UNCHANGED <<held, wire, shift, ctrl, alt>>
    BY DEF Kernel, GetchPoll, GetchDiscard, Handle, PauseEnds, CommandEnds, kbdVars, device, mods
  <1>9. UNCHANGED vars => UNCHANGED <<held, wire, shift, ctrl, alt>>
    BY DEF vars, kbdVars, device, mods
  <1> QED
    BY <1>2, <1>3, <1>4, <1>5, <1>6, <1>7, <1>8, <1>9, Zenon DEF Next, Driver, KbdNext

(* The stamps: the mailbox gets a newer key than getch has returned. *)
LEMMA StampsStep ==
  ASSUME TypeOK, Stamps, [Next]_vars
  PROVE Stamps'
  <1>1. CASE Driver
    <2>1. UNCHANGED <<pc, keyStamp>>
      BY <1>1 DEF Driver, fgVars
    <2>2. CASE KeyboardCallback /\ Head(wire) < 128
      <3>1. arrived' = arrived + 1 /\ boxStamp' = arrived + 1
        BY <1>1, <2>2 DEF Driver
      <3> QED
        BY <2>1, <3>1 DEF Stamps
    <2>3. CASE ~(KeyboardCallback /\ Head(wire) < 128)
      <3>1. UNCHANGED <<arrived, boxStamp>>
        BY <1>1, <2>3 DEF Driver
      <3>2. scancode' = scancode
        <4>1. KeyboardCallback => scancode' = scancode
          <5>1. wire \in Seq(0..255)
            BY DEF TypeOK
          <5>2. KeyboardCallback => ~(Head(wire) < 128)
            BY <2>3, Zenon
          <5> QED
            BY <5>1, <5>2, Callback, Zenon
        <4>2. ASSUME NEW k \in Keys, Press(k) \/ Release(k) PROVE scancode' = scancode
          BY <4>2 DEF Press, Release
        <4>3. TakeCommand \/ SetLeds => scancode' = scancode
          BY DEF TakeCommand, SetLeds, SendFromHandler
        <4> QED
          BY <1>1, <4>1, <4>2, <4>3, Zenon DEF Driver, KbdNext
      <3> QED
        BY <2>1, <3>1, <3>2 DEF Stamps
    <2> QED
      BY <2>2, <2>3
  <1>2. CASE GetchPoll
    BY <1>2 DEF GetchPoll, Stamps, kbdVars
  <1>3. CASE GetchDiscard
    BY <1>3 DEF GetchDiscard, Stamps, hist, Emptied
  <1>4. CASE Handle
    BY <1>4 DEF Handle, HandleReturn, HandleBackspace, HandleOther, Stamps, kbdVars
  <1>5. CASE PauseEnds
    BY <1>5 DEF PauseEnds, Stamps, kbdVars, hist
  <1>6. CASE CommandEnds
    BY <1>6 DEF CommandEnds, Stamps, kbdVars
  <1>7. CASE UNCHANGED vars
    BY <1>7 DEF vars, kbdVars, fgVars, hist, Stamps
  <1> QED
    BY <1>1, <1>2, <1>3, <1>4, <1>5, <1>6, <1>7 DEF Next, Kernel

(* The two bytes of a toggle: each is taken before the next is written.      *)
LEMMA LightStep ==
  ASSUME TypeOK, OnTheWay, [Next]_vars
  PROVE OnTheWay'
  <1>1. cmdByte \in 0..NoByte /\ ledCmd \in BOOLEAN /\ resends \in Nat /\ capslock \in BOOLEAN
    BY KeyboardAssumption DEF TypeOK
  <1>2. \A c, z : LedData(Num, c, z) = IF c THEN 5 ELSE 0
    BY DEF LedData, Num
  <1>3. CASE TakeCommand
    <2>1. cmdByte # NoByte /\ cmdByte' = NoByte /\ UNCHANGED <<cpu, capslock, scrolllock>>
      BY <1>3 DEF TakeCommand, mods
    <2>2. SUFFICES ASSUME resends' = 0 PROVE OnTheWay'
      BY DEF OnTheWay
    <2>3. /\ resends = 0 /\ ledCmd' = (~ledCmd /\ cmdByte = 237)
          /\ leds' = IF ledCmd THEN cmdByte ELSE leds
      BY <1>1, <1>3, <2>2 DEF TakeCommand
    <2> QED
      BY <1>1, <1>2, <2>1, <2>3 DEF OnTheWay, Settled, Light, NoByte
  <1>4. CASE KeyboardCallback
    <2>1. cpu = "fg" /\ UNCHANGED <<resends, cmdByte, ledCmd, leds>>
      BY <1>4 DEF KeyboardCallback, port
    <2>2. (cpu' = "fg" /\ capslock' = capslock) \/ cpu' = "led1"
      <3>1. wire \in Seq(0..255)
        BY DEF TypeOK
      <3>2. \/ \E c : Clear(c) /\ UNCHANGED cpu
            \/ OnMake(Head(wire))
        BY <1>4, <3>1, Callback, Zenon
      <3>3. ASSUME OnMake(Head(wire)) PROVE (cpu' = "fg" /\ capslock' = capslock) \/ cpu' = "led1"
        <4>1. CASE KeyAt(Head(wire)) \in {"caps", "scroll"}
          BY <3>3, <4>1 DEF OnMake
        <4>2. CASE KeyAt(Head(wire)) \notin {"caps", "scroll"}
          <5>1. capslock' = (capslock # (KeyAt(Head(wire)) = "caps")) /\ KeyAt(Head(wire)) # "caps"
            BY <3>3, <4>2 DEF OnMake, Set
          <5>2. capslock' = capslock
            BY <1>1, <5>1
          <5> QED
            BY <2>1, <3>3, <4>2, <5>2 DEF OnMake
        <4> QED
          BY <4>1, <4>2
      <3> QED
        BY <2>1, <3>2, <3>3 DEF Clear
    <2>3. CASE cpu' = "fg" /\ capslock' = capslock
      BY <1>2, <2>1, <2>3 DEF OnTheWay, Settled, Light
    <2>4. CASE cpu' = "led1"
      BY <1>1, <1>2, <2>1, <2>4 DEF OnTheWay, Settled, Light
    <2> QED
      BY <2>2, <2>3, <2>4
  <1>5. CASE SetLeds
    <2>1. UNCHANGED <<resends, ledCmd, leds, capslock, scrolllock>>
      BY <1>5 DEF SetLeds, SendFromHandler, mods
    <2>2. CASE SendFromHandler("led1", 237, "led2")
      BY <1>1, <1>2, <2>1, <2>2 DEF SendFromHandler, OnTheWay, Settled, Light, NoByte
    <2>3. CASE SendFromHandler("led2", LedData(Num, capslock, scrolllock), "fg")
      BY <1>1, <1>2, <2>1, <2>3 DEF SendFromHandler, OnTheWay, Settled, Light, NoByte
    <2> QED
      BY <1>5, <2>2, <2>3 DEF SetLeds
  <1> DEFINE Same == UNCHANGED <<resends, cmdByte, ledCmd, leds, cpu, capslock, scrolllock>>
  <1>6. CASE Same
    BY <1>6, Zenon DEF OnTheWay, Settled, Light
  <1>7. ASSUME NEW k \in Keys, Press(k) \/ Release(k) PROVE Same
    BY <1>7 DEF Press, Release, port, mods
  <1>8. Kernel => Same
    BY DEF Kernel, GetchPoll, GetchDiscard, Handle, PauseEnds, CommandEnds, kbdVars, port, mods
  <1>9. UNCHANGED vars => Same
    BY DEF vars, kbdVars, port, mods
  <1> HIDE DEF Same
  <1> QED
    BY <1>3, <1>4, <1>5, <1>6, <1>7, <1>8, <1>9, Zenon DEF Next, Driver, KbdNext

(* The types, the driver's steps. *)
LEMMA DriverTypes ==
  ASSUME TypeOK, Room, Driver
  PROVE TypeOK' /\ Room'
  <1>14. MaxMakes \in Nat /\ MaxResends \in Nat
    BY KeyboardAssumption
  <1>1. UNCHANGED <<pc, key, i, buf>>
    BY DEF Driver, fgVars
  <1>2. wire \in Seq(0..255) /\ cmdByte \in 0..NoByte
    BY DEF TypeOK
  <1>13. resends \in 0..MaxResends /\ makes \in 0..MaxMakes /\ scancode \in 0..127
    BY DEF TypeOK
  <1>15. ledCmd \in BOOLEAN /\ leds \in 0..255
    BY DEF TypeOK
  <1>16. cmdByte \in 0..256 /\ NoByte = 256
    BY DEF TypeOK, NoByte
  <1>17. held \subseteq Keys /\ cpu \in {"fg", "led1", "led2", "halted"}
    BY DEF TypeOK
  <1> DEFINE Wire == wire' \in Seq(0..255)
             Device == held' \subseteq Keys /\ makes' \in 0..MaxMakes
             Port == /\ resends' \in 0..MaxResends /\ cmdByte' \in 0..NoByte
                     /\ ledCmd' \in BOOLEAN /\ leds' \in 0..255
             Handler == cpu' \in {"fg", "led1", "led2", "halted"} /\ scancode' \in 0..127
             Flags == {shift', ctrl', alt', capslock', scrolllock', resend'} \subseteq BOOLEAN
  <1>3. UNCHANGED device => Device
    BY DEF device, TypeOK
  <1>4. UNCHANGED port => Port
    BY DEF port, TypeOK
  <1>5. UNCHANGED <<cpu, scancode>> => Handler
    BY DEF TypeOK
  <1>6. UNCHANGED mods => Flags
    BY DEF mods, TypeOK
  <1>7. Wire /\ Device /\ Port /\ Handler /\ Flags => TypeOK' /\ Room'
    BY <1>1 DEF TypeOK, Room
  <1>8. ASSUME NEW k \in Keys, Press(k) PROVE TypeOK' /\ Room'
    <2>1. Wire
      <3>1. MakeBytes(k) \in Seq(0..255)
        BY KeyBytes
      <3> QED
        BY <1>2, <1>8, <3>1, Joined DEF Press
    <2>2. Device
      <3>1. makes < MaxMakes /\ makes' = makes + 1 /\ held' = held \cup {k}
        BY <1>8 DEF Press
      <3>2. held' \subseteq Keys
        BY <1>17, <3>1
      <3> QED
        BY <1>13, <1>14, <3>1, <3>2
    <2> QED
      BY <1>4, <1>5, <1>6, <1>7, <1>8, <2>1, <2>2 DEF Press
  <1>9. ASSUME NEW k \in Keys, Release(k) PROVE TypeOK' /\ Room'
    <2>1. Wire
      <3>1. BreakBytes(k) \in Seq(0..255)
        BY KeyBytes
      <3> QED
        BY <1>2, <1>9, <3>1, Joined DEF Release
    <2>2. Device
      BY <1>9 DEF Release, TypeOK
    <2> QED
      BY <1>4, <1>5, <1>6, <1>7, <1>9, <2>1, <2>2 DEF Release
  <1>10. CASE TakeCommand
    <2>1. Wire
      <3>1. PICK b \in {250, 254} : wire' = Append(wire, b)
        BY <1>10 DEF TakeCommand
      <3>2. b \in 0..255
        OBVIOUS
      <3> QED
        BY <1>2, <3>1, <3>2, AppendProperties
    <2>2. cmdByte' = NoByte /\ cmdByte \in 0..255
      <3>1. cmdByte' = NoByte /\ cmdByte # NoByte
        BY <1>10 DEF TakeCommand
      <3> QED
        BY <1>16, <3>1
    <2>6. cmdByte' \in 0..NoByte
      <3>1. 256 \in 0..256
        OBVIOUS
      <3> QED
        BY <1>16, <2>2, <3>1, Zenon
    <2>3. ASSUME ledCmd' = (~ledCmd /\ cmdByte = 237) /\ leds' = (IF ledCmd THEN cmdByte ELSE leds) /\ UNCHANGED resends
          PROVE Port
      <3>1. leds' \in 0..255 /\ ledCmd' \in BOOLEAN
        BY <1>15, <2>2, <2>3
      <3>2. resends' \in 0..MaxResends
        BY <1>13, <2>3
      <3> QED
        BY <2>6, <3>1, <3>2, Zenon
    <2>4. ASSUME resends < MaxResends /\ resends' = resends + 1 /\ UNCHANGED <<ledCmd, leds>>
          PROVE Port
      <3>1. resends' \in 0..MaxResends
        BY <1>13, <1>14, <2>4
      <3>2. ledCmd' \in BOOLEAN /\ leds' \in 0..255
        BY <1>15, <2>4
      <3> QED
        BY <2>6, <3>1, <3>2, Zenon
    <2>5. Port
      BY <1>10, <2>3, <2>4, Zenon DEF TakeCommand
    <2> QED
      BY <1>3, <1>5, <1>6, <1>7, <1>10, <2>1, <2>5 DEF TakeCommand
  <1>11. CASE KeyboardCallback
    <2>1. /\ Wire /\ UNCHANGED <<device, port>> /\ Head(wire) \in 0..255
          /\ \/ /\ \E c : Clear(c)
                /\ \E c : Watch(c)
                /\ UNCHANGED <<scancode, cpu>>
             \/ Head(wire) < 128 /\ OnMake(Head(wire))
      <3>1. Wire
        BY <1>2, <1>11, Callback
      <3> QED
        BY <1>2, <1>11, <3>1, Callback, Zenon
    <2>2. CASE (\E c : Clear(c)) /\ (\E c : Watch(c)) /\ UNCHANGED <<scancode, cpu>>
      <3>1. Flags
        BY <2>2 DEF Clear, Watch, TypeOK
      <3> QED
        BY <1>3, <1>4, <1>5, <1>7, <2>1, <2>2, <3>1, Zenon
    <2>3. CASE Head(wire) < 128 /\ OnMake(Head(wire))
      <3>1. Flags
        BY <2>3 DEF OnMake, Set, Watch, TypeOK
      <3>2. scancode' \in 0..127
        <4>1. Head(wire) \in 0..255 /\ Head(wire) < 128
          BY <2>1, <2>3, Zenon
        <4>2. \A b \in 0..255 : b < 128 => b \in 0..127
          BY LowByte
        <4>4. Head(wire) \in 0..127
          BY <4>1, <4>2
        <4>3. scancode' = Head(wire)
          BY <2>3 DEF OnMake
        <4> QED
          BY <4>4, <4>3, Zenon
      <3>3. cpu' \in {"fg", "led1", "led2", "halted"}
        BY <2>3 DEF OnMake, TypeOK
      <3> QED
        BY <1>3, <1>4, <1>7, <2>1, <3>1, <3>2, <3>3, Zenon
    <2> QED
      BY <2>1, <2>2, <2>3, Zenon
  <1>12. CASE SetLeds
    <2>1. UNCHANGED <<device, resends, wire, ledCmd, leds, scancode, mods>>
      BY <1>12 DEF SetLeds, SendFromHandler
    <2>2. Wire
      BY <1>2, <2>1
    <2>3. CASE SendFromHandler("led1", 237, "led2")
      <3>1. Port /\ Handler
        BY <1>13, <1>15, <1>16, <1>17, <2>1, <2>3 DEF SendFromHandler
      <3> QED
        BY <1>3, <1>6, <1>7, <2>1, <2>2, <3>1
    <2>4. CASE SendFromHandler("led2", LedData(Num, capslock, scrolllock), "fg")
      <3>1. LedData(Num, capslock, scrolllock) \in 0..255
        BY DEF LedData, Num
      <3>2. Port /\ Handler
        BY <1>13, <1>15, <1>16, <1>17, <2>1, <2>4, <3>1 DEF SendFromHandler
      <3> QED
        BY <1>3, <1>6, <1>7, <2>1, <2>2, <3>2
    <2> QED
      BY <1>12, <2>3, <2>4 DEF SetLeds
  <1> QED
    BY <1>8, <1>9, <1>10, <1>11, <1>12, Zenon DEF Driver, KbdNext

(* The types, every step; and getch is entered with room in the buffer. *)
LEMMA TypeStep ==
  ASSUME TypeOK, Room, [Next]_vars
  PROVE TypeOK' /\ Room'
  <1> USE ConsoleAssumption
  <1> DEFINE Fg == /\ pc' \in {"poll", "discard", "handle", "pause", "done"}
                   /\ key' \in 0..127 /\ i' \in 0..Size /\ DOMAIN buf' = 0..Size
  <1>1. UNCHANGED kbdVars /\ Fg => TypeOK'
    BY DEF kbdVars, device, port, mods, TypeOK
  <1>2. CASE GetchPoll
    <2>1. Fg
      BY <1>2 DEF GetchPoll, TypeOK
    <2> QED
      BY <1>1, <1>2, <2>1 DEF GetchPoll, Room
  <1>3. CASE GetchDiscard
    <2>1. TypeOK'
      BY <1>3 DEF GetchDiscard, Emptied, INVALID_SCANCODE, device, port, mods, TypeOK
    <2> QED
      BY <1>3, <2>1 DEF GetchDiscard, Room
  <1>4. CASE Handle
    <2>1. i < Size /\ i \in Nat /\ Size \in Nat /\ i \in 0..Size /\ key' = key /\ key \in 0..127 /\ DOMAIN buf = 0..Size
      BY <1>4 DEF Handle, Room, TypeOK
    <2>2. Fg /\ Room'
      <3>1. CASE HandleReturn
        <4>1. pc' = "done" /\ i' = i /\ buf' = buf
          BY <3>1 DEF HandleReturn
        <4> QED
          BY <2>1, <4>1 DEF Room
      <3>2. CASE HandleBackspace
        <4>1. /\ pc' = "poll"
              /\ (i > 0 /\ i' = i - 1) \/ i' = i
          BY <3>2 DEF HandleBackspace
        <4>2. DOMAIN buf' = DOMAIN buf
          BY <3>2 DEF HandleBackspace
        <4>3. i' \in 0..Size /\ i' < Size
          BY <2>1, <4>1
        <4> QED
          BY <2>1, <4>1, <4>2, <4>3, Zenon DEF Room
      <3>3. CASE HandleOther
        <4>1. pc' = "pause" /\ (i' = i + 1 \/ i' = i)
          BY <3>3 DEF HandleOther
        <4>2. DOMAIN buf' = DOMAIN buf
          BY <3>3 DEF HandleOther, Store
        <4>3. i' \in 0..Size
          BY <2>1, <4>1
        <4> QED
          BY <2>1, <4>1, <4>2, <4>3 DEF Room
      <3> QED
        BY <1>4, <3>1, <3>2, <3>3 DEF Handle
    <2> QED
      BY <1>1, <1>4, <2>2 DEF Handle
  <1>5. CASE PauseEnds
    <2>1. Fg
      BY <1>5 DEF PauseEnds, TypeOK
    <2> QED
      BY <1>1, <1>5, <2>1 DEF PauseEnds, Room, More
  <1>6. CASE CommandEnds
    <2>1. Fg
      BY <1>6 DEF CommandEnds, TypeOK
    <2> QED
      BY <1>1, <1>6, <2>1 DEF CommandEnds, Room
  <1>7. CASE UNCHANGED vars
    BY <1>1, <1>7 DEF vars, fgVars, TypeOK, Room
  <1> QED
    BY <1>2, <1>3, <1>4, <1>5, <1>6, <1>7, DriverTypes DEF Next, Kernel

------------------------------------------------------------------------------
(* The line as the keys spell it: Edit, a fold of the library, by its rounds. *)

(* What holds of 0 and of each number's successor holds of every number. *)
LEMMA Counting ==
  ASSUME NEW P, 0 \in P, \A n \in Nat : n \in P => n + 1 \in P
  PROVE \A n \in Nat : n \in P
  <1> DEFINE T == {n \in Nat : n \notin P}
  <1> SUFFICES ASSUME T # {} PROVE FALSE
    OBVIOUS
  <1>1. PICK x \in T : \A y \in T : ~(<<y, x>> \in OpToRel(<, Nat))
    BY NatLessThanWellFounded, WFMin
  <1>2. x # 0 /\ x \in Nat
    OBVIOUS
  <1>3. x - 1 \in Nat /\ x - 1 < x /\ (x - 1) + 1 = x
    BY <1>2
  <1>4. x - 1 \notin P
    BY <1>3
  <1>5. <<x - 1, x>> \in OpToRel(<, Nat)
    BY <1>2, <1>3 DEF OpToRel
  <1> QED
    BY <1>1, <1>3, <1>4, <1>5

(* The greatest of the first n places. *)
LEMMA Greatest ==
  ASSUME NEW n \in Nat
  PROVE  /\ Max(1..n+1) = n + 1 /\ (1..n+1) \ {n + 1} = 1..n
         /\ \A T \in SUBSET (1..n+1) : n + 1 \in T =>
              Max(T) = n + 1 /\ T \ {n + 1} \in SUBSET (1..n)
  <1>1. ASSUME NEW T \in SUBSET (1..n+1), n + 1 \in T
        PROVE  Max(T) = n + 1 /\ T \ {n + 1} \in SUBSET (1..n)
    <2>1. \A y \in T : n + 1 >= y
      BY <1>1
    <2>2. \A x \in T : (\A y \in T : x >= y) => x = n + 1
      BY <1>1
    <2>3. Max(T) = n + 1
      BY <1>1, <2>1, <2>2 DEF Max
    <2> QED
      BY <2>3
  <1>2. (1..n+1) \ {n + 1} = 1..n /\ 1..n+1 \in SUBSET (1..n+1) /\ n + 1 \in 1..n+1
    OBVIOUS
  <1> QED
    BY <1>1, <1>2

(* The rounds of the fold over the first n keys, as the library computes them. *)
Round(s, it, T) == IF T = {} THEN <<>> ELSE Typed(it[T \ {Max(T)}], s[Max(T)])
Rounds(s, n, it) == it = [T \in SUBSET (1..n) |-> Round(s, it, T)]

LEMMA RoundsExist ==
  ASSUME NEW s, NEW n \in Nat
  PROVE  \E it : Rounds(s, n, it)
  <1> DEFINE P == {m \in Nat : \E it : Rounds(s, m, it)}
  <1>1. 0 \in P
    <2> DEFINE it == [T \in SUBSET (1..0) |-> <<>>]
    <2>1. \A T \in SUBSET (1..0) : T = {}
      OBVIOUS
    <2>2. Rounds(s, 0, it)
      BY <2>1 DEF Rounds, Round
    <2> QED
      BY <2>2
  <1>2. ASSUME NEW m \in Nat, m \in P PROVE m + 1 \in P
    <2>1. PICK f : Rounds(s, m, f)
      BY <1>2
    <2> DEFINE it == [T \in SUBSET (1..m+1) |-> IF m + 1 \in T
                        THEN Typed(f[T \ {m + 1}], s[m + 1]) ELSE f[T]]
    <2>2. ASSUME NEW T \in SUBSET (1..m+1) PROVE it[T] = Round(s, it, T)
      <3>1. CASE m + 1 \in T
        <4>1. Max(T) = m + 1 /\ T \ {m + 1} \in SUBSET (1..m) /\ T # {}
          BY <3>1, Greatest
        <4>2. it[T \ {m + 1}] = f[T \ {m + 1}]
          BY <4>1
        <4>3. it[T] = Typed(f[T \ {m + 1}], s[m + 1])
          BY <3>1
        <4> HIDE DEF it
        <4> QED
          BY <4>1, <4>2, <4>3 DEF Round
      <3>2. CASE m + 1 \notin T
        <4>1. T \in SUBSET (1..m)
          BY <3>2
        <4>4. \A x : T \ {x} \in SUBSET (1..m)
          BY <4>1
        <4>5. T \ {Max(T)} \in SUBSET (1..m)
          BY <4>4, Zenon
        <4>6. \A R \in SUBSET (1..m) : it[R] = f[R]
          OBVIOUS
        <4>2. f[T] = Round(s, f, T)
          BY <2>1, <4>1 DEF Rounds
        <4>3. it[T] = f[T] /\ it[T \ {Max(T)}] = f[T \ {Max(T)}]
          BY <4>1, <4>5, <4>6, Zenon
        <4> HIDE DEF it
        <4> QED
          BY <4>2, <4>3 DEF Round
      <3> QED
        BY <3>1, <3>2
    <2>3. it = [T \in SUBSET (1..m+1) |-> it[T]]
      OBVIOUS
    <2> HIDE DEF it
    <2>4. Rounds(s, m + 1, it)
      BY <2>2, <2>3, Zenon DEF Rounds
    <2> QED
      BY <2>4
  <1> HIDE DEF P
  <1>3. n \in P
    BY <1>1, <1>2, Counting
  <1> QED
    BY <1>3 DEF P

(* Rounds over more keys begin like those over fewer. *)
LEMMA RoundsAgree ==
  ASSUME NEW s, NEW n \in Nat, NEW it, Rounds(s, n, it),
         NEW t, NEW m \in Nat, NEW jt, Rounds(t, m, jt),
         n <= m, \A k \in 1..n : t[k] = s[k]
  PROVE  jt[1..n] = it[1..n]
  <1> DEFINE P == {k \in Nat : k <= n => jt[1..k] = it[1..k]}
  <1>1. 0 \in P
    <2>1. 1..0 = {} /\ 1..0 \in SUBSET (1..n) /\ 1..0 \in SUBSET (1..m)
      OBVIOUS
    <2>2. it[1..0] = Round(s, it, 1..0) /\ jt[1..0] = Round(t, jt, 1..0)
      BY <2>1 DEF Rounds
    <2> QED
      BY <2>1, <2>2 DEF Round
  <1>2. ASSUME NEW k \in Nat, k \in P PROVE k + 1 \in P
    <2> SUFFICES ASSUME k + 1 <= n PROVE jt[1..k+1] = it[1..k+1]
      OBVIOUS
    <2>1. 1..k+1 \in SUBSET (1..n) /\ 1..k+1 \in SUBSET (1..m) /\ 1..k+1 # {} /\ k + 1 \in 1..n
      OBVIOUS
    <2>2. it[1..k+1] = Round(s, it, 1..k+1) /\ jt[1..k+1] = Round(t, jt, 1..k+1)
      BY <2>1 DEF Rounds
    <2>3. Max(1..k+1) = k + 1 /\ (1..k+1) \ {k + 1} = 1..k
      BY Greatest
    <2>4. jt[1..k] = it[1..k] /\ t[k + 1] = s[k + 1]
      BY <1>2, <2>1
    <2> QED
      BY <2>1, <2>2, <2>3, <2>4 DEF Round
  <1> HIDE DEF P
  <1>3. n \in P
    BY <1>1, <1>2, Counting
  <1> QED
    BY <1>3 DEF P

(* Edit is the last of the rounds. *)
LEMMA EditRounds ==
  ASSUME NEW S, NEW s \in Seq(S)
  PROVE  \E it : Rounds(s, Len(s), it) /\ Edit(s) = it[1..Len(s)]
  <1> DEFINE it == CHOOSE it : Rounds(s, Len(s), it)
  <1>1. DOMAIN s = 1..Len(s) /\ Len(s) \in Nat
    OBVIOUS
  <1>2. Edit(s) = (CHOOSE jt : jt = [T \in SUBSET DOMAIN s |->
                     IF T = {} THEN <<>> ELSE Typed(jt[T \ {Max(T)}], s[Max(T)])])[DOMAIN s]
    BY Zenon DEF Edit, FoldLeft, MapThenFoldSet
  <1>3. Edit(s) = it[1..Len(s)]
    BY <1>1, <1>2, Zenon DEF Rounds, Round
  <1>4. Rounds(s, Len(s), it)
    BY <1>1, RoundsExist, Zenon
  <1> QED
    BY <1>3, <1>4

(* A line of no keys is empty. *)
LEMMA EditNone == Edit(<<>>) = <<>>
  <1>1. <<>> \in Seq({}) /\ Len(<<>>) = 0
    OBVIOUS
  <1>2. PICK it : Rounds(<<>>, 0, it) /\ Edit(<<>>) = it[1..0]
    BY <1>1, EditRounds
  <1>3. 1..0 = {} /\ 1..0 \in SUBSET (1..0)
    OBVIOUS
  <1>4. it[1..0] = Round(<<>>, it, 1..0)
    BY <1>2, <1>3 DEF Rounds
  <1> QED
    BY <1>2, <1>3, <1>4 DEF Round

(* One more key edits the line there is. *)
LEMMA EditMore ==
  ASSUME NEW S, NEW s \in Seq(S), NEW k \in S
  PROVE  Edit(Append(s, k)) = Typed(Edit(s), k)
  <1> DEFINE n == Len(s)
             t == Append(s, k)
  <1>1. n \in Nat /\ t \in Seq(S) /\ Len(t) = n + 1 /\ t[n + 1] = k /\ \A j \in 1..n : t[j] = s[j]
    OBVIOUS
  <1>2. PICK it : Rounds(s, n, it) /\ Edit(s) = it[1..n]
    BY EditRounds
  <1> HIDE DEF n, t
  <1>3. PICK jt : Rounds(t, n + 1, jt) /\ Edit(t) = jt[1..n+1]
    BY <1>1, EditRounds
  <1>4. jt[1..n] = it[1..n]
    BY <1>1, <1>2, <1>3, RoundsAgree
  <1>0. n \in Nat
    BY <1>1
  <1>5. 1..n+1 \in SUBSET (1..n+1) /\ 1..n+1 # {}
    <2>1. n + 1 \in 1..n+1
      BY <1>0
    <2> QED
      BY <2>1
  <1>6. jt[1..n+1] = Round(t, jt, 1..n+1)
    BY <1>3, <1>5 DEF Rounds
  <1>7. Max(1..n+1) = n + 1 /\ (1..n+1) \ {n + 1} = 1..n
    BY <1>1, Greatest
  <1>8. Edit(t) = Typed(Edit(s), k)
    BY <1>1, <1>2, <1>3, <1>4, <1>5, <1>6, <1>7 DEF Round
  <1> QED
    BY <1>8 DEF t

(* A line without its last key. *)
LEMMA Shorter ==
  ASSUME NEW S, NEW s \in Seq(S), s # <<>>
  PROVE  Front(s) \in Seq(S) /\ Len(s) > 0 /\ Len(Front(s)) = Len(s) - 1
         /\ \A n \in 1..Len(s)-1 : Front(s)[n] = s[n]
  <1>1. Len(s) \in Nat /\ Len(s) > 0
    BY EmptySeq, LenProperties
  <1>2. \A n \in 1..Len(s)-1 : s[n] \in S /\ 1 + n - 1 = n
    BY <1>1
  <1>3. /\ SubSeq(s, 1, Len(s) - 1) \in Seq(S)
        /\ Len(SubSeq(s, 1, Len(s) - 1)) = IF 1 <= Len(s) - 1 THEN Len(s) - 1 - 1 + 1 ELSE 0
        /\ \A n \in 1..(Len(s) - 1 - 1 + 1) : SubSeq(s, 1, Len(s) - 1)[n] = s[1 + n - 1]
    BY <1>1, <1>2, SubSeqProperties
  <1> DEFINE l == Len(s)
             f == SubSeq(s, 1, l - 1)
  <1>4. l \in Nat /\ l > 0 /\ f \in Seq(S)
        /\ Len(f) = (IF 1 <= l - 1 THEN l - 1 - 1 + 1 ELSE 0)
        /\ \A n \in 1..(l - 1 - 1 + 1) : f[n] = s[1 + n - 1]
    BY <1>1, <1>3
  <1>5. Front(s) = f
    BY Zenon DEF Front
  <1> HIDE DEF f, l
  <1>6. Len(f) = l - 1
    BY <1>4
  <1>7. ASSUME NEW n \in 1..l-1 PROVE f[n] = s[n]
    <2>1. n \in 1..(l - 1 - 1 + 1) /\ 1 + n - 1 = n
      BY <1>4
    <2> QED
      BY <1>4, <2>1
  <1>8. Front(s) \in Seq(S) /\ l > 0 /\ Len(Front(s)) = l - 1
        /\ \A n \in 1..l-1 : Front(s)[n] = s[n]
    BY <1>4, <1>5, <1>6, <1>7
  <1> QED
    BY <1>8 DEF l

(* Nothing of it changes. *)
LEMMA LineSame ==
  ASSUME LineEdited, UNCHANGED <<line, i, buf>>
  PROVE  LineEdited'
  BY DEF LineEdited, Edit

(* A key is handled. *)
LEMMA EditStep ==
  ASSUME TypeOK, Room, LineEdited, Handle
  PROVE  LineEdited'
  <1> DEFINE text == Edit(line)
  <1>1. /\ i \in Nat /\ i < Size /\ Size \in Nat /\ key \in 0..127 /\ DOMAIN buf = 0..Size
        /\ shift \in BOOLEAN /\ capslock \in BOOLEAN
    BY ConsoleAssumption DEF TypeOK, Room, Handle
  <1>2. /\ line \in Seq(Char) /\ text \in Seq(Char) /\ i = Len(text)
        /\ \A n \in 1..i : buf[n - 1] = text[n]
    BY DEF LineEdited
  <1> HIDE DEF text
  <1>3. CASE HandleReturn
    BY <1>3, LineSame DEF HandleReturn
  <1>4. CASE HandleBackspace
    <2>1. BKSP \in Char
      BY DEF BKSP, Char
    <2>2. line' = Append(line, BKSP) /\ line' \in Seq(Char)
      BY <1>2, <1>4, <2>1 DEF HandleBackspace
    <2>3. Edit(line') = IF text = <<>> THEN text ELSE Front(text)
      BY <1>2, <2>1, <2>2, EditMore DEF Typed, text
    <2>4. CASE text = <<>>
      <3>1. i = 0
        BY <1>2, <2>4
      <3>2. i' = i /\ buf' = buf
        BY <1>4, <3>1 DEF HandleBackspace
      <3> QED
        BY <1>2, <2>2, <2>3, <2>4, <3>2 DEF LineEdited
    <2>5. CASE text # <<>>
      <3>1. /\ Front(text) \in Seq(Char) /\ i > 0 /\ Len(Front(text)) = i - 1
            /\ \A n \in 1..i-1 : Front(text)[n] = text[n]
        BY <1>2, <2>5, Shorter
      <3>2. i' = i - 1 /\ buf' = [buf EXCEPT ![i] = NUL]
        BY <1>4, <3>1 DEF HandleBackspace
      <3>3. ASSUME NEW n \in 1..i-1 PROVE buf'[n - 1] = Front(text)[n]
        <4>1. n - 1 \in 0..Size /\ n - 1 # i /\ n \in 1..i
          BY <1>1
        <4>2. buf'[n - 1] = buf[n - 1]
          BY <1>1, <3>2, <4>1
        <4> QED
          BY <1>2, <3>1, <4>1, <4>2
      <3> QED
        BY <2>2, <2>3, <2>5, <3>1, <3>2, <3>3 DEF LineEdited
    <2> QED
      BY <2>4, <2>5
  <1>5. CASE HandleOther
    <2>1. CASE ~IsAscii(key)
      BY <1>5, <2>1, LineSame DEF HandleOther
    <2>2. CASE IsAscii(key)
      <3> DEFINE k == ToAscii(key)
      <3>1. k \in Char /\ k # BKSP
        <4>1. k.code = key
          BY DEF ToAscii
        <4>2. key # 14
          <5>1. KeyAt(14) = "bksp"
            <6>1. 14 <= TableLast /\ 14 \notin Unnamed
              BY DEF TableLast, Unnamed
            <6>2. ClassOf(14) = "bksp"
              <7>1. /\ 14 \notin Unnamed /\ 14 \notin {42, 54}
                    /\ 14 \notin Letter /\ 14 \notin Symbol /\ 14 \notin Plain
                BY DEF Unnamed, Letter, Symbol, Plain
              <7>2. 14 # 29 /\ 14 # 56 /\ 14 # 58 /\ 14 # 70 /\ 14 # 28
                OBVIOUS
              <7> QED
                BY <7>1, <7>2, Zenon DEF ClassOf
            <6> QED
              BY <6>1, <6>2 DEF KeyAt
          <5> QED
            BY <1>5, <5>1 DEF HandleOther
        <4>3. BKSP.code = 14
          BY DEF BKSP
        <4>4. k \in Char
          <5> DEFINE u == CASE KeyAt(key) = "letter" -> shift \/ capslock
                            [] KeyAt(key) = "symbol" -> shift /\ ~capslock
                            [] OTHER -> FALSE
          <5>1. u \in BOOLEAN
            BY <1>1
          <5>2. k = [code |-> key, upper |-> u]
            BY DEF ToAscii
          <5> HIDE DEF u
          <5> QED
            BY <1>1, <5>1, <5>2 DEF Char
        <4> QED
          BY <4>1, <4>2, <4>3, <4>4
      <3>2. line' = Append(line, k) /\ i' = i + 1 /\ buf' = [buf EXCEPT ![i] = k]
        BY <1>5, <2>2 DEF HandleOther, Store
      <3> HIDE DEF k
      <3>3. Edit(line') = Append(text, k) /\ line' \in Seq(Char)
        BY <1>2, <3>1, <3>2, EditMore DEF Typed, text
      <3>4. /\ Append(text, k) \in Seq(Char) /\ Len(Append(text, k)) = i + 1
            /\ Append(text, k)[i + 1] = k /\ \A n \in 1..i : Append(text, k)[n] = text[n]
        BY <1>2, <3>1, AppendProperties
      <3>5. ASSUME NEW n \in 1..i+1 PROVE buf'[n - 1] = Append(text, k)[n]
        <4>1. CASE n = i + 1
          <5>1. n - 1 = i /\ i \in DOMAIN buf
            BY <1>1, <4>1
          <5> QED
            BY <3>2, <3>4, <4>1, <5>1
        <4>2. CASE n # i + 1
          <5>1. n \in 1..i /\ n - 1 \in 0..Size /\ n - 1 # i
            BY <1>1, <4>2
          <5>2. buf'[n - 1] = buf[n - 1]
            BY <1>1, <3>2, <5>1
          <5> QED
            BY <1>2, <3>4, <5>1, <5>2
        <4> QED
          BY <4>1, <4>2
      <3> QED
        BY <3>2, <3>3, <3>4, <3>5 DEF LineEdited
    <2> QED
      BY <2>1, <2>2
  <1> QED
    BY <1>3, <1>4, <1>5 DEF Handle

(* Every other step leaves line and buffer alone or begins both anew. *)
LEMMA LineStep ==
  ASSUME TypeOK, Room, LineEdited, [Next]_vars
  PROVE  LineEdited'
  <1>1. CASE CommandEnds
    <2>1. i' = 0 /\ line' = <<>>
      BY <1>1 DEF CommandEnds
    <2>2. Edit(line') = <<>> /\ <<>> \in Seq(Char) /\ Len(<<>>) = 0 /\ 1..0 = {}
      BY <2>1, EditNone
    <2> QED
      BY <2>1, <2>2 DEF LineEdited
  <1>2. CASE Handle
    BY <1>2, EditStep
  <1>3. Driver \/ GetchPoll \/ GetchDiscard \/ PauseEnds \/ UNCHANGED vars => UNCHANGED <<line, i, buf>>
    BY DEF Driver, GetchPoll, GetchDiscard, PauseEnds, vars, hist, fgVars
  <1> QED
    BY <1>1, <1>2, <1>3, LineSame DEF Next, Kernel

------------------------------------------------------------------------------
(* The theorems.                                                           *)

(* Nothing is pressed, sent, owed or stamped when getch is called first. *)
LEMMA Start ==
  ASSUME Init
  PROVE IInv
  <1> USE ConsoleAssumption
  <1>1. TypeOK /\ Room
    <2>1. wire \in Seq(0..255)
      BY DEF Init, KbdInit
    <2>2. leds \in 0..255
      BY DEF Init, KbdInit, LedData, Num
    <2>3. held \subseteq Keys /\ makes \in 0..MaxMakes /\ resends \in 0..MaxResends
      <3>1. held = {} /\ makes = 0 /\ resends = 0
        BY DEF Init, KbdInit
      <3>2. MaxMakes \in Nat /\ MaxResends \in Nat
        BY KeyboardAssumption
      <3> QED
        BY <3>1, <3>2
    <2>4. cmdByte \in 0..NoByte /\ ledCmd \in BOOLEAN
      BY DEF Init, KbdInit, NoByte
    <2>7. cpu \in {"fg", "led1", "led2", "halted"} /\ scancode \in 0..127
      BY DEF Init, KbdInit, INVALID_SCANCODE
    <2>6. {shift, ctrl, alt, capslock, scrolllock, resend} \subseteq BOOLEAN
      BY DEF Init, KbdInit
    <2>5. /\ pc \in {"poll", "discard", "handle", "pause", "done"}
          /\ key \in 0..127 /\ i \in 0..Size /\ DOMAIN buf = 0..Size /\ i < Size
      BY DEF Init, INVALID_SCANCODE
    <2> QED
      BY <2>1, <2>2, <2>3, <2>4, <2>5, <2>6, <2>7 DEF TypeOK, Room
  <1>2. Taken
    BY DEF Init, KbdInit, Taken, Owed
  <1>3. Stamps
    BY DEF Init, KbdInit, Stamps
  <1>4. OnTheWay
    BY DEF Init, KbdInit, OnTheWay, Settled, Light
  <1>5. LineEdited
    <2>1. line = <<>> /\ i = 0
      BY DEF Init
    <2>2. Edit(line) = <<>> /\ <<>> \in Seq(Char) /\ Len(<<>>) = 0 /\ 1..0 = {}
      BY <2>1, EditNone
    <2> QED
      BY <2>1, <2>2 DEF LineEdited
  <1> QED
    BY <1>1, <1>2, <1>3, <1>4, <1>5 DEF IInv

(* The inductive invariant holds in every reachable state. *)
THEOREM Invariant == Spec => []IInv
  <1>1. Init => IInv
    BY Start
  <1>2. IInv /\ [Next]_vars => IInv'
    BY TypeStep, TakenStep, StampsStep, LightStep, LineStep DEF IInv
  <1> QED
    BY <1>1, <1>2, PTL DEF Spec

(* Every variable of the driver and of getch and get_command has its type; the *)
(* cursor never passes the end of the caller's buffer.                         *)
THEOREM TypeCorrect == Spec => []TypeOK
  <1>1. IInv => TypeOK
    BY DEF IInv
  <1> QED
    BY <1>1, Invariant, PTL

(* keyboard_callback leaves no modifier on once every key is up and every byte *)
(* is handled, whatever prefix, release and acknowledge bytes do to the flags. *)
THEOREM NothingSticks == Spec => []ModifiersRelease
  <1>1. ASSUME Taken, held = {}, wire = <<>> PROVE ~shift /\ ~ctrl /\ ~alt
    BY <1>1 DEF Taken, Owed, Covered, Down, Clears
  <1>2. IInv => ModifiersRelease
    BY <1>1 DEF IInv, ModifiersRelease
  <1> QED
    BY <1>2, Invariant, PTL

(* get_command hands over the line its keys spell, letters in order and each    *)
(* backspace taking back the letter before it.                                 *)
THEOREM Edited == Spec => []CommandIsEdited
  <1>1. IInv => CommandIsEdited
    BY DEF IInv, LineEdited, CommandIsEdited
  <1> QED
    BY <1>1, Invariant, PTL

(* The caps lock light follows kbd_set_leds's two bytes, unless one is refused. *)
THEOREM LightFollows == Spec => []CapsLedFollows
  <1>1. ASSUME TypeOK, OnTheWay PROVE CapsLedFollows
    <2>1. capslock \in BOOLEAN /\ Light = IF capslock THEN 5 ELSE 0
      BY <1>1 DEF TypeOK, Light, LedData, Num
    <2> QED
      BY <1>1, <2>1 DEF OnTheWay, Settled, NoByte, CapsLedFollows
  <1>2. IInv => CapsLedFollows
    BY <1>1 DEF IInv
  <1> QED
    BY <1>2, Invariant, PTL

(* getch never returns a key twice or after a later one. *)
THEOREM Ordered == Spec => KeysInOrder
  <1>1. ASSUME IInv, [Next]_vars
        PROVE [keyStamp' # keyStamp \/ GetchPoll => keyStamp' > keyStamp]_vars
    <2>1. CASE GetchPoll
      BY <1>1, <2>1 DEF IInv, Stamps, GetchPoll, KeyPending
    <2>2. CASE UNCHANGED keyStamp /\ ~GetchPoll
      BY <2>2
    <2>3. Driver \/ GetchDiscard \/ Handle \/ PauseEnds \/ CommandEnds \/ UNCHANGED vars => UNCHANGED keyStamp
      BY DEF Driver, GetchDiscard, Handle, PauseEnds, CommandEnds, vars, hist
    <2> QED
      BY <1>1, <2>1, <2>2, <2>3, Zenon DEF Next, Kernel
  <1> QED
    BY <1>1, Invariant, PTL DEF Spec, KeysInOrder
==============================================================================
