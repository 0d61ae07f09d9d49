---------------------------- MODULE DpFifo_proofs ----------------------------
(***************************************************************************)
(* For every depth, every scale and every set of instructions: the host is *)
(* held back before the fifo of pieces can overflow, the pieces inside are *)
(* whole words in a row, and the instructions leave in program order.      *)
(***************************************************************************)
EXTENDS DpFifo, SequenceTheorems, TLAPS

Pieces == Instr \X (0 .. Scale - 1)

Types ==
  /\ inner \in [words : Seq(Pieces), ravail : Nat]
  /\ inner.ravail <= Len(inner.words)
  /\ write_in_r \in BOOLEAN /\ w_avail_r \in BOOLEAN /\ q_avail_r \in BOOLEAN
  /\ full_r \in BOOLEAN /\ bus_write_r \in BOOLEAN
  /\ wpending_r \in 0 .. Scale - 1 /\ rpending_r \in 0 .. Scale - 1
  /\ data_in_r \in Instr /\ bus_writedata_r \in Instr
  /\ data_r \in [1 .. Scale -> Pieces] /\ q_r \in [1 .. Scale -> Pieces]

\* The pieces the fifo may hold when full_r was last computed as low.
Room == IF Depth >= 4 THEN (Depth - 4) * Scale ELSE 0

\* A word is in one place at a time on its way in: the register of dp_fetch,
\* the one that latches the port, the one that is cut.  From the clock in which
\* full_r let it through, the fifo has grown by the pieces cut from it alone.
LetThrough ==
  /\ ~full_r => Len(inner.words) <= Room
  /\ bus_write_r => ~write_in_r /\ ~w_avail_r /\ Len(inner.words) <= Room
  /\ write_in_r => ~w_avail_r /\ Len(inner.words) <= Room
  /\ w_avail_r => Len(inner.words) <= Room + wpending_r

RInv == Types /\ LetThrough

-----------------------------------------------------------------------------
(* Arithmetic. *)

LEMMA DivModOf ==
  ASSUME NEW x \in Nat, NEW n \in Nat, n > 0
  PROVE  x \div n \in Nat /\ x % n \in 0 .. n - 1 /\ x = (x \div n) * n + (x % n)
  <1>1. x \div n \in Int /\ x % n \in 0 .. n - 1 OBVIOUS
  <1>2. x = n * (x \div n) + (x % n) OBVIOUS
  <1>3. x \div n >= 0 OBVIOUS
  <1>4. n * (x \div n) = (x \div n) * n BY <1>1
  <1> QED BY <1>1, <1>2, <1>3, <1>4

LEMMA TimesMonotonic ==
  ASSUME NEW a \in Nat, NEW b \in Nat, NEW n \in Nat, a <= b
  PROVE  a * n <= b * n /\ a * n \in Nat /\ b * n \in Nat
OBVIOUS

\* A number is a multiple and a rest in one way only.
LEMMA DivIsUnique ==
  ASSUME NEW d \in Nat, NEW n \in Nat, NEW m \in 0 .. n - 1
  PROVE  (d * n + m) \div n = d /\ (d * n + m) % n = m
  <1> DEFINE x == d * n + m
             e == x \div n
             r == x % n
  <1>1. n > 0 /\ d * n \in Nat /\ x \in Nat OBVIOUS
  <1> HIDE DEF x
  <1>2. e \in Nat /\ r \in 0 .. n - 1 /\ x = e * n + r BY <1>1, DivModOf, Zenon
  <1>3. x = d * n + m BY DEF x
  <1> HIDE DEF e, r
  <1>4. ~(d < e)
    <2>1. d < e => (d + 1) * n <= e * n BY <1>2, TimesMonotonic
    <2>2. (d + 1) * n = d * n + n OBVIOUS
    <2> QED BY <2>1, <2>2, <1>1, <1>2, <1>3
  <1>5. ~(e < d)
    <2>1. e < d => (e + 1) * n <= d * n BY <1>2, TimesMonotonic
    <2>2. (e + 1) * n = e * n + n BY <1>2
    <2>3. e * n \in Nat BY <1>2
    <2> QED BY <2>1, <2>2, <2>3, <1>1, <1>2, <1>3
  <1>6. e = d BY <1>2, <1>4, <1>5
  <1>7. r = m BY <1>1, <1>2, <1>3, <1>6
  <1> QED BY <1>6, <1>7 DEF x, e, r

\* What the count of words says of the count of pieces.
LEMMA RoomFacts ==
  ASSUME NEW n \in Nat
  PROVE  /\ Room \in Nat /\ Room + Scale <= Scale * Depth - Scale
         /\ ~(Depth - 1 - (n \div Scale) < 4) => n + 1 <= Room
         /\ n <= Room => n \div Scale < Depth - 1
  <1>0. Scale \in Nat /\ Scale >= 2 /\ Scale > 0 /\ Depth \in Nat /\ Depth >= 2
    BY SizesAssumption
  <1> DEFINE d == n \div Scale
             m == n % Scale
  <1>1. d \in Nat /\ m \in 0 .. Scale - 1 /\ n = d * Scale + m
    BY <1>0, DivModOf, Zenon
  <1> HIDE DEF d, m
  <1>2. Depth - 2 \in Nat /\ (Depth - 2) * Scale \in Nat
        /\ (Depth - 2) * Scale = Scale * Depth - 2 * Scale
    BY <1>0
  <1>3. Room \in Nat /\ Room <= (Depth - 2) * Scale
    <2>1. CASE Depth >= 4
      <3>1. Depth - 4 \in Nat /\ Depth - 4 <= Depth - 2 BY <1>0, <2>1
      <3>2. (Depth - 4) * Scale <= (Depth - 2) * Scale /\ (Depth - 4) * Scale \in Nat
        BY <3>1, <1>0, <1>2, TimesMonotonic
      <3> QED BY <3>2, <2>1 DEF Room
    <2>2. CASE ~(Depth >= 4) BY <2>2, <1>2 DEF Room
    <2> QED BY <2>1, <2>2
  <1>4. ~(Depth - 1 - d < 4) => n + 1 <= Room
    <2> SUFFICES ASSUME ~(Depth - 1 - d < 4) PROVE n + 1 <= Room OBVIOUS
    <2>1. Depth >= 4 /\ Depth - 4 \in Nat /\ d + 1 <= Depth - 4 /\ d + 1 \in Nat
      BY <1>0, <1>1
    <2>2. (d + 1) * Scale <= (Depth - 4) * Scale BY <2>1, <1>0, TimesMonotonic
    <2>3. (d + 1) * Scale = d * Scale + Scale /\ d * Scale \in Nat BY <1>0, <1>1
    <2>4. Room = (Depth - 4) * Scale /\ (Depth - 4) * Scale \in Nat
      BY <2>1, <1>0 DEF Room
    <2> QED BY <2>2, <2>3, <2>4, <1>0, <1>1
  <1>5. n <= Room => d < Depth - 1
    <2> SUFFICES ASSUME n <= Room, Depth - 1 <= d PROVE FALSE BY <1>0, <1>1
    <2>1. (Depth - 1) * Scale <= d * Scale BY <1>0, <1>1, TimesMonotonic
    <2>2. (Depth - 1) * Scale = (Depth - 2) * Scale + Scale BY <1>0
    <2>3. d * Scale \in Nat BY <1>0, <1>1
    <2> QED BY <2>1, <2>2, <2>3, <1>0, <1>1, <1>2, <1>3
  <1> QED BY <1>0, <1>2, <1>3, <1>4, <1>5 DEF d

-----------------------------------------------------------------------------
(* The host is held back in time. *)

\* A word cut is Scale pieces of it.
LEMMA CutPieces ==
  ASSUME NEW d \in Instr
  PROVE  /\ fifo_i!Cut(d) \in [1 .. Scale -> Pieces]
         /\ \A k \in 1 .. Scale : fifo_i!Cut(d)[k] = <<d, k - 1>>
BY SizesAssumption DEF fifo_i!Cut, Pieces

\* What a clock does to the fifo of pieces.
LEMMA InnerStep ==
  ASSUME NEW f \in [words : Seq(Pieces), ravail : Nat], f.ravail <= Len(f.words),
         NEW r \in BOOLEAN, r => f.ravail > 0, NEW w \in BOOLEAN, NEW x \in Pieces
  PROVE  LET g == fifo_i!Clocked(f, fifo_i!Ports(r, w, x))
             rest == IF r THEN Tail(f.words) ELSE f.words
         IN  /\ g \in [words : Seq(Pieces), ravail : Nat]
             /\ g.ravail <= Len(g.words)
             /\ rest \in Seq(Pieces)
             /\ Len(rest) = IF r THEN Len(f.words) - 1 ELSE Len(f.words)
             /\ Len(rest) \in Nat
             /\ g.words = IF w THEN Append(rest, x) ELSE rest
             /\ Len(g.words) = IF w THEN Len(rest) + 1 ELSE Len(rest)
  <1> DEFINE s == f.words
             rest == IF r THEN Tail(s) ELSE s
             after == IF w THEN Append(rest, x) ELSE rest
             shown == IF r THEN Len(s) - 1 ELSE Len(s)
  <1>1. fifo_i!Clocked(f, fifo_i!Ports(r, w, x)) = [words |-> after, ravail |-> shown]
    BY DEF fifo_i!Clocked, fifo_i!Ports, fifo_i!After, fifo_i!Shown
  <1>2. s \in Seq(Pieces) /\ Len(s) \in Nat /\ f.ravail \in Nat /\ (r => Len(s) > 0)
    OBVIOUS
  <1> HIDE DEF s
  <1>3. r => Tail(s) \in Seq(Pieces) /\ Len(Tail(s)) = Len(s) - 1
    BY <1>2, HeadTailProperties, EmptySeq
  <1>4. rest \in Seq(Pieces) /\ Len(rest) = shown /\ shown \in Nat
    BY <1>2, <1>3
  <1> HIDE DEF rest, shown
  <1>5. after \in Seq(Pieces) /\ Len(after) = IF w THEN Len(rest) + 1 ELSE Len(rest)
    BY <1>4
  <1> HIDE DEF after
  <1>6. [words |-> after, ravail |-> shown] \in [words : Seq(Pieces), ravail : Nat]
    BY <1>4, <1>5
  <1>7. shown <= Len(after) BY <1>4, <1>5
  <1> QED BY <1>1, <1>4, <1>5, <1>6, <1>7 DEF after, rest, shown, s

LEMMA InitRInv == Init => RInv
  <1> SUFFICES ASSUME Init PROVE RInv OBVIOUS
  <1>1. data_in_r \in Instr BY DEF Init, fifo_i!Init
  <1>2. inner = [words |-> <<>>, ravail |-> 0] BY DEF Init, fifo_i!Init, fifo_i!NoWords
  <1>3. Types
    <2>1. inner \in [words : Seq(Pieces), ravail : Nat] /\ inner.ravail <= Len(inner.words)
      BY <1>2
    <2>2. data_r \in [1 .. Scale -> Pieces] /\ q_r \in [1 .. Scale -> Pieces]
      BY <1>1, CutPieces DEF Init, fifo_i!Init
    <2>3. 0 \in 0 .. Scale - 1 BY SizesAssumption
    <2> QED BY <1>1, <2>1, <2>2, <2>3 DEF Types, Init, fifo_i!Init
  <1>4. Room \in Nat BY RoomFacts
  <1>5. LetThrough BY <1>2, <1>4 DEF LetThrough, Init, fifo_i!Init
  <1> QED BY <1>3, <1>5 DEF RInv

\* What the registers of dp_fifo and scfifow do in a clock.
LEMMA ClockFacts ==
  ASSUME NEW wr \in BOOLEAN, NEW r1 \in BOOLEAN, NEW r2 \in BOOLEAN, NEW d \in Instr,
         Clock(wr, d, r1, r2)
  PROVE  LET ready == ~w_avail_r /\ ~write_in_r
             rd == inner.ravail > 0 /\ ~q_avail_r
             fetch == Fetches(window, ~q_avail_r)
         IN  /\ inner' = fifo_i!Clocked(inner, fifo_i!Ports(rd, w_avail_r, data_r[1]))
             /\ write_in_r' = IF ~w_avail_r /\ write_in_r THEN FALSE
                              ELSE IF ready THEN bus_write_r ELSE write_in_r
             /\ data_in_r' = IF ready THEN bus_writedata_r ELSE data_in_r
             /\ data_r' = IF w_avail_r
                          THEN [k \in 1 .. Scale |-> IF k < Scale THEN data_r[k + 1]
                                                                  ELSE data_r[k]]
                          ELSE fifo_i!Cut(data_in_r)
             /\ wpending_r' = IF w_avail_r THEN (wpending_r + 1) % Scale
                              ELSE IF write_in_r THEN 0 ELSE wpending_r
             /\ w_avail_r' = IF w_avail_r THEN wpending_r # Scale - 1 ELSE write_in_r
             /\ q_r' = IF rd THEN Append(Tail(q_r), Head(inner.words)) ELSE q_r
             /\ rpending_r' = IF rd THEN (rpending_r + 1) % Scale ELSE rpending_r
             /\ q_avail_r' = IF q_avail_r THEN ~fetch ELSE rd /\ rpending_r = Scale - 1
             /\ window' = ClockWindow(window, ~q_avail_r, q_r[1][1], r1, r2)
             /\ full_r' = (Depth - 1 - (Len(inner.words) \div Scale) < 4)
             /\ bus_write_r' = (wr /\ ~full_r /\ ready /\ ~bus_write_r)
             /\ bus_writedata_r' = IF bus_write_r' THEN d ELSE bus_writedata_r
             /\ r1 => window.out1
             /\ r2 => window.out2 /\ ~r1
  <1> DEFINE p == [read |-> Fetches(window, fifo_i!empty_out),
                   write |-> bus_write_r, data |-> bus_writedata_r]
  <1>1. /\ p.read = Fetches(window, ~q_avail_r)
        /\ p.write = bus_write_r /\ p.data = bus_writedata_r
    BY DEF fifo_i!empty_out
  <1>2. fifo_i!Registers(p) BY DEF Clock
  <1> HIDE DEF p
  <1>3. /\ r1 => window.out1
        /\ r2 => window.out2 /\ ~r1
        /\ window' = ClockWindow(window, ~q_avail_r, q_r[1][1], r1, r2)
        /\ full_r' = (Depth - 1 - (Len(inner.words) \div Scale) < 4)
        /\ bus_writedata_r' = IF bus_write_r' THEN d ELSE bus_writedata_r
        /\ bus_write_r' = (wr /\ ~full_r /\ ~w_avail_r /\ ~write_in_r /\ ~bus_write_r)
    BY Zenon DEF Clock, AlmostFull, Headroom, waitrequest, full_out, fifo_i!writeready,
           fifo_i!wused_out, fifo_i!empty_out, fifo_i!q_out
  <1>4. /\ inner' = fifo_i!Clocked(inner, fifo_i!Ports(fifo_i!read, w_avail_r, data_r[1]))
        /\ write_in_r' = IF ~w_avail_r /\ write_in_r THEN FALSE
                         ELSE IF fifo_i!writeready THEN bus_write_r ELSE write_in_r
        /\ data_in_r' = IF fifo_i!writeready THEN bus_writedata_r ELSE data_in_r
        /\ fifo_i!CutStep
        /\ fifo_i!Gather
        /\ q_avail_r' = IF q_avail_r THEN ~Fetches(window, ~q_avail_r)
                        ELSE fifo_i!read /\ rpending_r = Scale - 1
    BY <1>1, <1>2, Zenon DEF fifo_i!Registers
  <1> QED
    BY <1>3, <1>4, Zenon
       DEF fifo_i!CutStep, fifo_i!Gather, fifo_i!read, fifo_i!writeready,
           fifo_i!LastPiece, fifo_i!Succ

\* The registers of pieces are sequences of Scale pieces; a piece is shifted in.
LEMMA PieceRegister ==
  ASSUME NEW q \in [1 .. Scale -> Pieces], NEW x \in Pieces
  PROVE  /\ q \in Seq(Pieces) /\ Len(q) = Scale
         /\ Append(Tail(q), x) \in [1 .. Scale -> Pieces]
         /\ \A k \in 1 .. Scale : Append(Tail(q), x)[k] = IF k < Scale THEN q[k + 1] ELSE x
  <1>1. q \in Seq(Pieces) /\ Len(q) = Scale BY SizesAssumption
  <1>2. Tail(q) \in Seq(Pieces) /\ Len(Tail(q)) = Scale - 1
        /\ \A i \in 1 .. Scale - 1 : Tail(q)[i] = q[i + 1]
    BY <1>1, SizesAssumption, HeadTailProperties
  <1> DEFINE t == Tail(q)
  <1> HIDE DEF t
  <1>3. Append(t, x) \in Seq(Pieces) /\ Len(Append(t, x)) = Scale
        /\ (\A i \in 1 .. Scale - 1 : Append(t, x)[i] = t[i]) /\ Append(t, x)[Scale] = x
    BY <1>2, SizesAssumption DEF t
  <1>4. Append(t, x) \in [1 .. Scale -> Pieces] BY <1>3, LenProperties
  <1> QED BY <1>1, <1>2, <1>3, <1>4, SizesAssumption DEF t

\* The counter of pieces.
LEMMA CountPieces ==
  ASSUME NEW n \in 0 .. Scale - 1
  PROVE  (n + 1) % Scale = IF n = Scale - 1 THEN 0 ELSE n + 1
BY SizesAssumption

\* Types and LetThrough survive every clock.
LEMMA ClockTypes ==
  ASSUME Types, NEW wr \in BOOLEAN, NEW r1 \in BOOLEAN, NEW r2 \in BOOLEAN,
         NEW d \in Instr, Clock(wr, d, r1, r2)
  PROVE  Types'
  <1> DEFINE rd == inner.ravail > 0 /\ ~q_avail_r
  <1>1. rd \in BOOLEAN /\ w_avail_r \in BOOLEAN /\ (rd => inner.ravail > 0)
        /\ inner \in [words : Seq(Pieces), ravail : Nat]
        /\ inner.ravail <= Len(inner.words)
    BY DEF Types
  <1>2. 1 \in 1 .. Scale /\ data_r[1] \in Pieces BY SizesAssumption DEF Types
  <1>3. inner' = fifo_i!Clocked(inner, fifo_i!Ports(rd, w_avail_r, data_r[1]))
    BY ClockFacts, Zenon
  <1>4. (inner \in [words : Seq(Pieces), ravail : Nat]
           /\ inner.ravail <= Len(inner.words))'
    <2> DEFINE g == fifo_i!Clocked(inner, fifo_i!Ports(rd, w_avail_r, data_r[1]))
    <2>1. g \in [words : Seq(Pieces), ravail : Nat] /\ g.ravail <= Len(g.words)
      <3> HIDE DEF rd
      <3> QED BY <1>1, <1>2, InnerStep, Zenon
    <2> QED BY <1>3, <2>1
  <1>5. data_r' \in [1 .. Scale -> Pieces]
    <2>1. CASE w_avail_r
      <3>1. data_r' = [k \in 1 .. Scale |-> IF k < Scale THEN data_r[k + 1] ELSE data_r[k]]
        BY <2>1, ClockFacts, Zenon
      <3>2. \A k \in 1 .. Scale : k < Scale => k + 1 \in 1 .. Scale BY SizesAssumption
      <3> QED BY <3>1, <3>2 DEF Types
    <2>2. CASE ~w_avail_r
      <3>1. data_r' = fifo_i!Cut(data_in_r) BY <2>2, ClockFacts, Zenon
      <3> QED BY <3>1, CutPieces DEF Types
    <2> QED BY <2>1, <2>2
  <1>6. q_r' \in [1 .. Scale -> Pieces]
    <2>1. CASE rd
      <3>1. q_r' = Append(Tail(q_r), Head(inner.words)) BY <2>1, ClockFacts, Zenon
      <3>2. inner.words \in Seq(Pieces) /\ Len(inner.words) > 0
        BY <1>1, <2>1
      <3>3. Head(inner.words) \in Pieces BY <3>2, HeadTailProperties
      <3> QED BY <3>1, <3>3, PieceRegister DEF Types
    <2>2. CASE ~rd
      <3>1. q_r' = q_r BY <2>2, ClockFacts, Zenon
      <3> QED BY <3>1 DEF Types
    <2> QED BY <2>1, <2>2
  <1>7. wpending_r' \in 0 .. Scale - 1 /\ rpending_r' \in 0 .. Scale - 1
    <2>1. wpending_r' \in {wpending_r, 0, (wpending_r + 1) % Scale}
          /\ rpending_r' \in {rpending_r, (rpending_r + 1) % Scale}
      BY ClockFacts, Zenon
    <2> QED BY <2>1, CountPieces, SizesAssumption DEF Types
  <1>8. /\ write_in_r' \in BOOLEAN /\ w_avail_r' \in BOOLEAN /\ q_avail_r' \in BOOLEAN
        /\ full_r' \in BOOLEAN /\ bus_write_r' \in BOOLEAN
        /\ data_in_r' \in Instr /\ bus_writedata_r' \in Instr
    <2>1. write_in_r' \in BOOLEAN BY ClockFacts, ZenonT(60) DEF Types
    <2>2. w_avail_r' \in BOOLEAN BY ClockFacts, ZenonT(60) DEF Types
    <2>3. q_avail_r' \in BOOLEAN BY ClockFacts, ZenonT(60) DEF Types
    <2>4. full_r' \in BOOLEAN
      <3>1. full_r' = (Depth - 1 - (Len(inner.words) \div Scale) < 4) BY ClockFacts, Zenon
      <3> QED BY <3>1
    <2>5. bus_write_r' \in BOOLEAN BY ClockFacts, Zenon
    <2>6. data_in_r' \in Instr BY ClockFacts, ZenonT(60) DEF Types
    <2>7. bus_writedata_r' \in Instr BY ClockFacts, ZenonT(60) DEF Types
    <2> QED BY <2>1, <2>2, <2>3, <2>4, <2>5, <2>6, <2>7
  <1> QED BY <1>4, <1>5, <1>6, <1>7, <1>8 DEF Types

LEMMA ClockLetThrough ==
  ASSUME RInv, NEW wr \in BOOLEAN, NEW r1 \in BOOLEAN, NEW r2 \in BOOLEAN,
         NEW d \in Instr, Clock(wr, d, r1, r2)
  PROVE  LetThrough'
  <1> DEFINE rd == inner.ravail > 0 /\ ~q_avail_r
             n == Len(inner.words)
             m == Len(inner.words)'
  <1>1. rd \in BOOLEAN /\ w_avail_r \in BOOLEAN /\ (rd => inner.ravail > 0)
        /\ inner \in [words : Seq(Pieces), ravail : Nat]
        /\ inner.ravail <= Len(inner.words)
    BY DEF RInv, Types
  <1>2. 1 \in 1 .. Scale /\ data_r[1] \in Pieces BY SizesAssumption DEF RInv, Types
  <1>3. inner' = fifo_i!Clocked(inner, fifo_i!Ports(rd, w_avail_r, data_r[1]))
    BY ClockFacts, Zenon
  <1>4. n \in Nat /\ m \in Nat /\ m <= (IF w_avail_r THEN n + 1 ELSE n)
    <2> DEFINE g == fifo_i!Clocked(inner, fifo_i!Ports(rd, w_avail_r, data_r[1]))
               rest == IF rd THEN Tail(inner.words) ELSE inner.words
    <2>1. /\ Len(rest) = IF rd THEN Len(inner.words) - 1 ELSE Len(inner.words)
          /\ Len(rest) \in Nat
          /\ Len(g.words) = IF w_avail_r THEN Len(rest) + 1 ELSE Len(rest)
      <3> HIDE DEF rd
      <3>1. Len(rest) = IF rd THEN Len(inner.words) - 1 ELSE Len(inner.words)
        BY <1>1, <1>2, InnerStep, ZenonT(60)
      <3>2. Len(rest) \in Nat
        BY <1>1, <1>2, InnerStep, ZenonT(60)
      <3>3. Len(g.words) = IF w_avail_r THEN Len(rest) + 1 ELSE Len(rest)
        BY <1>1, <1>2, InnerStep, ZenonT(60)
      <3> QED BY <3>1, <3>2, <3>3
    <2>2. m = Len(g.words) BY <1>3
    <2>3. Len(inner.words) \in Nat BY <1>1
    <2> HIDE DEF g, rest, rd, m
    <2> QED BY <2>1, <2>2, <2>3
  <1>5. Room \in Nat
        /\ (~(Depth - 1 - (n \div Scale) < 4) => n + 1 <= Room)
    BY <1>4, RoomFacts
  <1>6. ~full_r' => ~(Depth - 1 - (n \div Scale) < 4) BY ClockFacts, Zenon
  <1> HIDE DEF n, m, rd
  <1>7. ~full_r' => m <= Room BY <1>4, <1>5, <1>6
  <1>8. /\ ~full_r => n <= Room
        /\ bus_write_r => ~write_in_r /\ ~w_avail_r /\ n <= Room
        /\ write_in_r => ~w_avail_r /\ n <= Room
        /\ w_avail_r => n <= Room + wpending_r
    BY DEF RInv, LetThrough, n
  <1>9. bus_write_r' => ~write_in_r' /\ ~w_avail_r' /\ m <= Room
    <2>1. bus_write_r' => ~full_r /\ ~w_avail_r /\ ~write_in_r /\ ~bus_write_r
      BY ClockFacts, Zenon
    <2>2. bus_write_r' => ~write_in_r' /\ ~w_avail_r' BY <2>1, ClockFacts, Zenon
    <2> QED BY <2>1, <2>2, <1>4, <1>5, <1>8
  <1>10. write_in_r' => ~w_avail_r' /\ m <= Room
    <2>1. write_in_r' => ~w_avail_r /\ ~write_in_r /\ bus_write_r
      BY <1>8, ClockFacts, Zenon
    <2>2. write_in_r' => ~w_avail_r' BY <2>1, ClockFacts, Zenon
    <2> QED BY <2>1, <2>2, <1>4, <1>5, <1>8
  <1>11. w_avail_r' => m <= Room + wpending_r'
    <2> SUFFICES ASSUME w_avail_r' PROVE m <= Room + wpending_r' OBVIOUS
    <2>0. wpending_r \in 0 .. Scale - 1 BY DEF RInv, Types
    <2>1. CASE w_avail_r
      <3>1. wpending_r # Scale - 1 /\ wpending_r' = (wpending_r + 1) % Scale
        BY <2>1, ClockFacts, Zenon
      <3>2. wpending_r' = wpending_r + 1 BY <2>0, <3>1, CountPieces
      <3> QED BY <2>0, <2>1, <3>2, <1>4, <1>5, <1>8
    <2>2. CASE ~w_avail_r
      <3>1. write_in_r /\ wpending_r' = 0 BY <2>2, ClockFacts, Zenon
      <3> QED BY <3>1, <2>2, <1>4, <1>5, <1>8
    <2> QED BY <2>1, <2>2
  <1> QED BY <1>7, <1>9, <1>10, <1>11 DEF LetThrough, m

LEMMA NextRInv == RInv /\ [Next]_vars => RInv'
  <1> SUFFICES ASSUME RInv, [Next]_vars PROVE RInv' OBVIOUS
  <1>1. CASE Next
    <2>1. PICK wr \in BOOLEAN, r1 \in BOOLEAN, r2 \in BOOLEAN, d \in Instr :
            Clock(wr, d, r1, r2)
      BY <1>1 DEF Next
    <2> QED BY <2>1, ClockTypes, ClockLetThrough DEF RInv
  <1>2. CASE UNCHANGED vars
    BY <1>2 DEF RInv, Types, LetThrough, vars, fifo_vars
  <1> QED BY <1>1, <1>2

\* The host is held back in time, whatever the depth and the width of a word:
\* a write let through finds the fifo ready and with a word of room.
THEOREM HostIsHeldBack == Spec => []WritesFindRoom
  <1>1. RInv => WritesFindRoom
    <2> SUFFICES ASSUME RInv, bus_write_r
                 PROVE  ~w_avail_r /\ ~write_in_r
                        /\ Len(inner.words) \div Scale < Depth - 1
      BY DEF WritesFindRoom, fifo_i!writeready, fifo_i!wused_out
    <2>1. Len(inner.words) \in Nat BY DEF RInv, Types
    <2> QED BY <2>1, RoomFacts DEF RInv, LetThrough
  <1> QED BY <1>1, InitRInv, NextRInv, PTL DEF Spec

\* A piece is written only while the scfifo inside has room for it, although
\* nothing in scfifow checks that it is full.
THEOREM InnerHasRoom == Spec => []InnerNeverOverflows
  <1>1. RInv => InnerNeverOverflows
    <2> SUFFICES ASSUME RInv, w_avail_r PROVE Len(inner.words) < Scale * Depth - 1
      BY DEF InnerNeverOverflows, fifo_i!InnerNeverOverflows, fifo_i!InnerCapacity
    <2>1. Len(inner.words) \in Nat /\ wpending_r \in 0 .. Scale - 1
          /\ Len(inner.words) <= Room + wpending_r
      BY DEF RInv, Types, LetThrough
    <2>2. Room \in Nat /\ Room + Scale <= Scale * Depth - Scale BY RoomFacts
    <2>3. Scale * Depth \in Nat BY SizesAssumption
    <2> QED BY <2>1, <2>2, <2>3, SizesAssumption
  <1> QED BY <1>1, InitRInv, NextRInv, PTL DEF Spec
-----------------------------------------------------------------------------
(* The pieces inside are whole words in a row. *)

\* s is the pieces of the words w, in a row.
IsCutOf(s, w) ==
  /\ s \in Seq(Pieces) /\ w \in Seq(Instr)
  /\ Len(s) = Len(w) * Scale
  /\ \A i \in 1 .. Len(w), k \in 1 .. Scale : s[Scale * (i - 1) + k] = <<w[i], k - 1>>

\* Where the pieces of the word i are.
LEMMA PlaceOfPiece ==
  ASSUME NEW n \in Nat, NEW i \in 1 .. n, NEW k \in 1 .. Scale
  PROVE  /\ Scale * (i - 1) + k \in 1 .. n * Scale /\ Scale * (i - 1) \in Nat
         /\ Scale * i = Scale * (i - 1) + Scale
         /\ n * Scale \in Nat /\ Scale * n = n * Scale
  <1>0. Scale \in Nat /\ i - 1 \in Nat /\ i \in Nat /\ i <= n BY SizesAssumption
  <1>1. i * Scale <= n * Scale /\ n * Scale \in Nat /\ i * Scale \in Nat
    BY <1>0, TimesMonotonic
  <1>2. i * Scale = Scale * (i - 1) + Scale /\ i * Scale = Scale * i BY <1>0
  <1>3. Scale * (i - 1) \in Nat /\ Scale * n = n * Scale BY <1>0
  <1> QED BY <1>0, <1>1, <1>2, <1>3

\* The words a row of pieces is cut from are the ones its first pieces name.
LEMMA WordsOfCut ==
  ASSUME NEW s, NEW w, IsCutOf(s, w)
  PROVE  /\ Len(w) = Len(s) \div Scale /\ Len(s) % Scale = 0
         /\ w = [i \in 1 .. (Len(s) \div Scale) |-> s[Scale * (i - 1) + 1][1]]
  <1>0. Scale \in Nat /\ Len(w) \in Nat /\ 0 \in 0 .. Scale - 1 /\ w \in Seq(Instr)
    BY SizesAssumption DEF IsCutOf
  <1>1. (Len(w) * Scale + 0) \div Scale = Len(w) /\ (Len(w) * Scale + 0) % Scale = 0
    BY <1>0, DivIsUnique
  <1>2. Len(w) * Scale + 0 = Len(s) /\ Len(s) = Len(w) * Scale
    BY <1>0 DEF IsCutOf
  <1>3. Len(w) = Len(s) \div Scale /\ Len(s) % Scale = 0 BY <1>1, <1>2
  <1> DEFINE v == [i \in 1 .. Len(w) |-> s[Scale * (i - 1) + 1][1]]
  <1>4. \A i \in 1 .. Len(w) : v[i] = w[i]
    <2> TAKE i \in 1 .. Len(w)
    <2>1. s[Scale * (i - 1) + 1] = <<w[i], 1 - 1>> BY <1>0, SizesAssumption DEF IsCutOf
    <2> QED BY <2>1
  <1>5. w = v
    <2>1. w \in [1 .. Len(w) -> Instr] BY <1>0, LenProperties
    <2> QED BY <1>4, <2>1
  <1> QED BY <1>3, <1>5

\* A word goes last.
LEMMA CutAppend ==
  ASSUME NEW s, NEW w, IsCutOf(s, w), NEW d \in Instr
  PROVE  IsCutOf(s \o fifo_i!Cut(d), Append(w, d))
  <1> DEFINE c == fifo_i!Cut(d)
             t == s \o c
             v == Append(w, d)
             n == Len(w)
  <1>0. /\ Scale \in Nat /\ Scale > 0 /\ n \in Nat /\ w \in Seq(Instr) /\ s \in Seq(Pieces)
        /\ Len(s) = n * Scale /\ n * Scale \in Nat
    BY SizesAssumption DEF IsCutOf
  <1>1. c \in [1 .. Scale -> Pieces] /\ \A k \in 1 .. Scale : c[k] = <<d, k - 1>>
    BY CutPieces
  <1>2. c \in Seq(Pieces) /\ Len(c) = Scale BY <1>0, <1>1
  <1> HIDE DEF c
  <1>3. t \in Seq(Pieces) /\ Len(t) = n * Scale + Scale
        /\ \A j \in 1 .. n * Scale + Scale :
              t[j] = IF j <= n * Scale THEN s[j] ELSE c[j - n * Scale]
    <2>1. t \in Seq(Pieces) /\ Len(t) = Len(s) + Len(c)
          /\ \A j \in 1 .. Len(s) + Len(c) :
                t[j] = IF j <= Len(s) THEN s[j] ELSE c[j - Len(s)]
      BY <1>0, <1>2, ConcatProperties, Zenon
    <2> HIDE DEF t, n
    <2> QED BY <2>1, <1>0, <1>2
  <1>4. v \in Seq(Instr) /\ Len(v) = n + 1 /\ v[n + 1] = d
        /\ \A i \in 1 .. n : v[i] = w[i]
    BY <1>0
  <1> HIDE DEF t, v
  <1>5. Len(t) = Len(v) * Scale BY <1>0, <1>3, <1>4
  <1>6. ASSUME NEW i \in 1 .. Len(v), NEW k \in 1 .. Scale
        PROVE  t[Scale * (i - 1) + k] = <<v[i], k - 1>>
    <2>1. CASE i \in 1 .. n
      <3>1. Scale * (i - 1) + k \in 1 .. n * Scale BY <1>0, <2>1, PlaceOfPiece
      <3>2. t[Scale * (i - 1) + k] = s[Scale * (i - 1) + k] BY <1>0, <1>3, <3>1
      <3>3. s[Scale * (i - 1) + k] = <<w[i], k - 1>> BY <2>1 DEF IsCutOf
      <3> QED BY <3>2, <3>3, <1>4, <2>1
    <2>2. CASE i = n + 1
      <3>1. Scale * (i - 1) = n * Scale BY <1>0, <2>2
      <3>2. t[n * Scale + k] = c[k] BY <1>0, <1>3
      <3> QED BY <3>1, <3>2, <1>1, <1>4, <2>2
    <2> QED BY <1>0, <1>4, <2>1, <2>2
  <1> QED BY <1>3, <1>4, <1>5, <1>6 DEF IsCutOf, t, v, c

\* The first word leaves.
LEMMA CutDrop ==
  ASSUME NEW g \in Seq(Pieces), Len(g) = Scale, NEW b \in Seq(Pieces), NEW w,
         IsCutOf(g \o b, w)
  PROVE  w # <<>> /\ g[1][1] = w[1] /\ IsCutOf(b, Tail(w))
  <1> DEFINE s == g \o b
             n == Len(w)
             v == Tail(w)
  <1>0. /\ Scale \in Nat /\ Scale > 0 /\ n \in Nat /\ w \in Seq(Instr) /\ n * Scale \in Nat
        /\ Len(b) \in Nat
    BY SizesAssumption DEF IsCutOf
  <1>1. s \in Seq(Pieces) /\ Len(s) = Scale + Len(b)
        /\ \A j \in 1 .. Scale + Len(b) : s[j] = IF j <= Scale THEN g[j] ELSE b[j - Scale]
    BY ConcatProperties
  <1>2. Len(s) = n * Scale /\ \A i \in 1 .. n, k \in 1 .. Scale :
                                 s[Scale * (i - 1) + k] = <<w[i], k - 1>>
    BY DEF IsCutOf
  <1> HIDE DEF s
  <1>3. n >= 1
    <2>1. n = 0 => n * Scale = 0 BY <1>0
    <2> QED BY <2>1, <1>0, <1>1, <1>2
  <1>4. w # <<>> /\ v \in Seq(Instr) /\ Len(v) = n - 1
        /\ \A i \in 1 .. n - 1 : v[i] = w[i + 1]
    BY <1>0, <1>3, HeadTailProperties
  <1>5. g[1][1] = w[1]
    <2>0. 1 \in 1 .. n /\ 1 \in 1 .. Scale BY <1>0, <1>3
    <2>1. s[Scale * (1 - 1) + 1] = <<w[1], 1 - 1>> BY <2>0, <1>2, Zenon
    <2>2. Scale * (1 - 1) + 1 = 1 BY <1>0
    <2>3. s[1] = g[1] BY <1>0, <1>1
    <2> QED BY <2>1, <2>2, <2>3
  <1> HIDE DEF v
  <1>6. Len(b) = Len(v) * Scale
    <2>1. (n - 1) * Scale = n * Scale - Scale BY <1>0
    <2> QED BY <2>1, <1>0, <1>1, <1>2, <1>4
  <1>7. ASSUME NEW i \in 1 .. Len(v), NEW k \in 1 .. Scale
        PROVE  b[Scale * (i - 1) + k] = <<v[i], k - 1>>
    <2>1. Scale * (i - 1) + k \in 1 .. Len(b) /\ Scale * (i - 1) \in Nat
          /\ Scale * i = Scale * (i - 1) + Scale
      <3>1. Len(v) \in Nat BY <1>0, <1>3, <1>4
      <3>2. Scale * (i - 1) + k \in 1 .. Len(v) * Scale /\ Scale * (i - 1) \in Nat
            /\ Scale * i = Scale * (i - 1) + Scale
        BY <3>1, PlaceOfPiece, Zenon
      <3> QED BY <3>2, <1>6, Zenon
    <2>2. i + 1 \in 1 .. n /\ (i + 1) - 1 = i BY <1>0, <1>4
    <2>3. s[Scale * i + k] = <<w[i + 1], k - 1>> BY <1>2, <2>2
    <2>4. s[Scale * i + k] = b[Scale * (i - 1) + k]
      <3> DEFINE j == Scale * (i - 1) + k
      <3>1. j \in 1 .. Len(b) /\ Scale * i + k = j + Scale BY <1>0, <2>1
      <3> HIDE DEF j
      <3>2. s[j + Scale] = b[j] BY <1>0, <1>1, <3>1
      <3> QED BY <3>1, <3>2 DEF j
    <2> QED BY <2>3, <2>4, <1>4
  <1> QED BY <1>4, <1>5, <1>6, <1>7 DEF IsCutOf, v

\* The pieces of the stream behind the word being gathered.
Cutting == IF w_avail_r THEN SubSeq(data_r, 1, Scale - wpending_r) ELSE <<>>
Latched == IF write_in_r THEN fifo_i!Cut(data_in_r) ELSE <<>>
Behind == (inner.words \o Cutting) \o Latched

LEMMA StreamParts ==
  ASSUME Types
  PROVE  /\ fifo_i!Gathered \in Seq(Pieces)
         /\ Len(fifo_i!Gathered) = IF q_avail_r THEN Scale ELSE rpending_r
         /\ q_avail_r => fifo_i!Gathered = q_r
         /\ inner.words \in Seq(Pieces) /\ Cutting \in Seq(Pieces) /\ Latched \in Seq(Pieces)
         /\ Behind \in Seq(Pieces)
         /\ fifo_i!Stream = fifo_i!Gathered \o Behind
         /\ fifo_i!Stream \in Seq(Pieces)
  <1> DEFINE n == IF q_avail_r THEN Scale ELSE rpending_r
             G == SubSeq(q_r, Scale - n + 1, Scale)
  <1>0. Scale \in Nat /\ Scale >= 2 /\ n \in 0 .. Scale /\ q_r \in Seq(Pieces)
        /\ Len(q_r) = Scale
    BY SizesAssumption, PieceRegister DEF Types
  <1>1. fifo_i!Gathered = G BY DEF fifo_i!Gathered
  <1>2. G \in Seq(Pieces) /\ Len(G) = n
    <2> HIDE DEF n
    <2>1. \A i \in Scale - n + 1 .. Scale : q_r[i] \in Pieces BY <1>0 DEF Types
    <2> QED BY <1>0, <2>1, SubSeqProperties
  <1>3. q_avail_r => G = q_r
    <2>1. q_avail_r => Scale - n + 1 = 1 BY <1>0
    <2>2. SubSeq(q_r, 1, Len(q_r)) = q_r BY <1>0, SubSeqFull
    <2> QED BY <1>0, <2>1, <2>2
  <1>4. inner.words \in Seq(Pieces) BY DEF Types
  <1>5. Cutting \in Seq(Pieces)
    <2>1. \A i \in 1 .. Scale - wpending_r : data_r[i] \in Pieces BY <1>0 DEF Types
    <2>2. Scale - wpending_r \in Int BY <1>0 DEF Types
    <2>3. SubSeq(data_r, 1, Scale - wpending_r) \in Seq(Pieces)
      BY <2>1, <2>2, SubSeqProperties
    <2>4. <<>> \in Seq(Pieces) OBVIOUS
    <2> QED BY <2>3, <2>4, Zenon DEF Cutting
  <1>6. Latched \in Seq(Pieces)
    <2>1. fifo_i!Cut(data_in_r) \in Seq(Pieces) BY <1>0, CutPieces DEF Types
    <2>2. <<>> \in Seq(Pieces) OBVIOUS
    <2> QED BY <2>1, <2>2, Zenon DEF Latched
  <1> HIDE DEF G, n
  <1>7. fifo_i!Stream = ((G \o inner.words) \o Cutting) \o Latched
    BY <1>1, Zenon DEF fifo_i!Stream, Cutting, Latched
  <1>8. ((G \o inner.words) \o Cutting) \o Latched = G \o Behind
    <2> DEFINE I == inner.words
    <2> HIDE DEF I
    <2>1. I \in Seq(Pieces) BY <1>4 DEF I
    <2>2. (G \o I) \o Cutting = G \o (I \o Cutting) /\ I \o Cutting \in Seq(Pieces)
      BY <2>1, <1>2, <1>5, ConcatAssociative, ConcatProperties, SMTT(60)
    <2> DEFINE J == I \o Cutting
    <2>3. J \in Seq(Pieces) BY <2>2
    <2> HIDE DEF J
    <2>4. (G \o J) \o Latched = G \o (J \o Latched)
      BY <2>3, <1>2, <1>6, ConcatAssociative, SMTT(60)
    <2> QED BY <2>2, <2>4 DEF Behind, I, J
  <1>9. Behind \in Seq(Pieces) BY <1>4, <1>5, <1>6, ConcatProperties, Zenon DEF Behind
  <1>10. G \o Behind \in Seq(Pieces) BY <1>2, <1>9, ConcatProperties, Zenon
  <1> QED BY <1>1, <1>2, <1>3, <1>4, <1>5, <1>6, <1>7, <1>8, <1>9, <1>10, Zenon DEF n

\* Rows after each other, however they are bracketed.
Row(x, y) == x \o y \in Seq(Pieces)
Rebracket(x, y, z) == (x \o y) \o z = x \o (y \o z)

LEMMA InARow ==
  /\ \A x, y \in Seq(Pieces) : Row(x, y)
  /\ \A x, y, z \in Seq(Pieces) : Rebracket(x, y, z)
  <1>1. ASSUME NEW x \in Seq(Pieces), NEW y \in Seq(Pieces) PROVE Row(x, y)
    BY DEF Row
  <1>2. ASSUME NEW x \in Seq(Pieces), NEW y \in Seq(Pieces), NEW z \in Seq(Pieces)
        PROVE  Rebracket(x, y, z)
    BY ConcatAssociative DEF Rebracket
  <1> QED BY <1>1, <1>2, Zenon

\* A piece moved from one part to the next leaves the row as it is.
Moved(g, h, r, e, c, l, m, c2, l2) ==
  (e \o c2) \o l2 = (c \o l) \o m
    => (g \o h) \o (((r \o e) \o c2) \o l2) = (g \o (((h \o r) \o c) \o l)) \o m

LEMMA MovePieces ==
  ASSUME NEW g \in Seq(Pieces), NEW h \in Seq(Pieces), NEW r \in Seq(Pieces),
         NEW e \in Seq(Pieces), NEW c \in Seq(Pieces), NEW l \in Seq(Pieces),
         NEW m \in Seq(Pieces), NEW c2 \in Seq(Pieces), NEW l2 \in Seq(Pieces)
  PROVE  Moved(g, h, r, e, c, l, m, c2, l2)
  <1> SUFFICES ASSUME (e \o c2) \o l2 = (c \o l) \o m
               PROVE  (g \o h) \o (((r \o e) \o c2) \o l2)
                        = (g \o (((h \o r) \o c) \o l)) \o m
    BY DEF Moved
  <1> DEFINE t == c \o l
             u == r \o t
             f == e \o c2
             k == h \o r
  <1>0. Row(c, l) /\ Row(e, c2) /\ Row(h, r) BY InARow, Zenon
  <1>1. t \in Seq(Pieces) /\ f \in Seq(Pieces) /\ k \in Seq(Pieces) BY <1>0, Zenon DEF Row
  <1>2. Rebracket(r, e, c2) /\ Rebracket(k, c, l) BY <1>1, InARow, Zenon
  <1>3. (r \o e) \o c2 = r \o f /\ (k \o c) \o l = k \o t BY <1>2, Zenon DEF Rebracket
  <1>4. f \o l2 = t \o m OBVIOUS
  <1> HIDE DEF t, f
  <1>5. Rebracket(r, f, l2) /\ Rebracket(h, r, t) /\ Row(r, t) /\ Rebracket(r, t, m)
    BY <1>1, InARow, Zenon
  <1>6. u \in Seq(Pieces) BY <1>5 DEF Row
  <1>7. (r \o f) \o l2 = u \o m /\ k \o t = h \o u
    BY <1>4, <1>5, Zenon DEF Rebracket
  <1> HIDE DEF u, k
  <1>8. Row(h, u) /\ Row(u, m) BY <1>6, InARow, Zenon
  <1>9. h \o u \in Seq(Pieces) /\ u \o m \in Seq(Pieces) BY <1>8, Zenon DEF Row
  <1>10. Rebracket(g, h \o u, m) /\ Rebracket(h, u, m) /\ Rebracket(g, h, u \o m)
    BY <1>6, <1>9, InARow, Zenon
  <1>11. (g \o h) \o (u \o m) = (g \o (h \o u)) \o m BY <1>10, Zenon DEF Rebracket
  <1> QED BY <1>3, <1>7, <1>11, Zenon DEF k

\* The part of a row from one place to another.
LEMMA Slice ==
  ASSUME NEW S, NEW s, NEW m \in Nat, NEW n \in Nat, m <= n + 1,
         \A i \in m .. n : s[i] \in S
  PROVE  /\ SubSeq(s, m, n) \in Seq(S) /\ Len(SubSeq(s, m, n)) = n - m + 1
         /\ \A i \in 1 .. n - m + 1 : SubSeq(s, m, n)[i] = s[m + i - 1]
BY SubSeqProperties

\* Gathering one piece more.
LEMMA GatherPiece ==
  ASSUME NEW q \in [1 .. Scale -> Pieces], NEW n \in 0 .. Scale - 1, NEW x \in Pieces
  PROVE  SubSeq(Append(Tail(q), x), Scale - (n + 1) + 1, Scale)
           = SubSeq(q, Scale - n + 1, Scale) \o <<x>>
  <1> DEFINE p == Append(Tail(q), x)
             j == Scale - n
             s == SubSeq(p, j, Scale)
             a == SubSeq(q, j + 1, Scale)
             t == a \o <<x>>
  <1>0. Scale \in Nat /\ Scale >= 2 /\ j \in 1 .. Scale /\ Scale - (n + 1) + 1 = j
        /\ Scale - n + 1 = j + 1
    BY SizesAssumption
  <1>1. p \in [1 .. Scale -> Pieces]
        /\ \A k \in 1 .. Scale : p[k] = IF k < Scale THEN q[k + 1] ELSE x
    BY PieceRegister
  <1> HIDE DEF p, j
  <1>2. s \in Seq(Pieces) /\ Len(s) = Scale - j + 1
        /\ \A i \in 1 .. Scale - j + 1 : s[i] = p[j + i - 1]
    BY <1>0, <1>1, Slice
  <1>3. a \in Seq(Pieces) /\ Len(a) = Scale - j
        /\ \A i \in 1 .. Scale - j : a[i] = q[j + i]
    <2>1. \A i \in j + 1 .. Scale : q[i] \in Pieces BY <1>0
    <2>2. j + 1 \in Nat /\ j + 1 <= Scale + 1 BY <1>0
    <2>3. a \in Seq(Pieces) /\ Len(a) = Scale - (j + 1) + 1
          /\ \A i \in 1 .. Scale - (j + 1) + 1 : a[i] = q[(j + 1) + i - 1]
      BY <1>0, <2>1, <2>2, Slice
    <2> HIDE DEF a
    <2> QED BY <2>3, <1>0
  <1> HIDE DEF a, s
  <1>4. t \in Seq(Pieces) /\ Len(t) = Scale - j + 1
        /\ \A i \in 1 .. Scale - j + 1 : t[i] = IF i <= Scale - j THEN a[i] ELSE x
    BY <1>0, <1>3
  <1> HIDE DEF t
  <1>5. ASSUME NEW i \in 1 .. Scale - j + 1 PROVE s[i] = t[i]
    <2>1. CASE i <= Scale - j
      <3>1. j + i - 1 \in 1 .. Scale /\ j + i - 1 < Scale /\ (j + i - 1) + 1 = j + i
            /\ i \in 1 .. Scale - j
        BY <1>0, <2>1
      <3>2. s[i] = q[j + i] BY <3>1, <1>1, <1>2
      <3> QED BY <3>1, <3>2, <1>3, <1>4
    <2>2. CASE i = Scale - j + 1
      <3>1. j + i - 1 = Scale /\ ~(i <= Scale - j) BY <1>0, <2>2
      <3> QED BY <3>1, <1>0, <1>1, <1>2, <1>4
    <2> QED BY <1>0, <2>1, <2>2
  <1>6. s = t BY <1>2, <1>4, <1>5, SeqEqual
  <1> QED BY <1>0, <1>6 DEF s, t, a, p

\* Cutting one piece off.
LEMMA CutPiece ==
  ASSUME NEW q \in [1 .. Scale -> Pieces], NEW n \in 0 .. Scale - 1
  PROVE  LET p == [k \in 1 .. Scale |-> IF k < Scale THEN q[k + 1] ELSE q[k]]
         IN  SubSeq(q, 1, Scale - n) = <<q[1]>> \o SubSeq(p, 1, Scale - (n + 1))
  <1> DEFINE p == [k \in 1 .. Scale |-> IF k < Scale THEN q[k + 1] ELSE q[k]]
             s == SubSeq(q, 1, Scale - n)
             a == SubSeq(p, 1, Scale - (n + 1))
             t == <<q[1]>> \o a
             m == Scale - (n + 1)
  <1>0. Scale \in Nat /\ Scale >= 2 /\ n \in Nat /\ m \in Nat /\ m < Scale
        /\ Scale - n = m + 1
    BY SizesAssumption
  <1>1. \A k \in 1 .. m : p[k] = q[k + 1] /\ p[k] \in Pieces BY <1>0
  <1> HIDE DEF p, m
  <1>2. s \in Seq(Pieces) /\ Len(s) = m + 1 /\ \A i \in 1 .. m + 1 : s[i] = q[i]
    <2>1. \A i \in 1 .. m + 1 : q[i] \in Pieces BY <1>0
    <2> DEFINE j == m + 1
    <2>2. s = SubSeq(q, 1, j) /\ j \in Nat /\ 1 <= j + 1 BY <1>0
    <2> HIDE DEF j, s
    <2>3. s \in Seq(Pieces) /\ Len(s) = j - 1 + 1
          /\ \A i \in 1 .. j - 1 + 1 : s[i] = q[1 + i - 1]
      BY <2>1, <2>2, Slice DEF j
    <2> QED BY <2>3, <1>0 DEF j
  <1>3. a \in Seq(Pieces) /\ Len(a) = m /\ \A i \in 1 .. m : a[i] = q[i + 1]
    <2>2. a = SubSeq(p, 1, m) /\ m \in Nat /\ 1 <= m + 1 BY <1>0 DEF m
    <2> HIDE DEF a
    <2>3. a \in Seq(Pieces) /\ Len(a) = m - 1 + 1
          /\ \A i \in 1 .. m - 1 + 1 : a[i] = p[1 + i - 1]
      BY <1>1, <2>2, Slice
    <2> QED BY <2>3, <1>0, <1>1
  <1>4. q[1] \in Pieces BY <1>0
  <1> HIDE DEF a, s
  <1>5. t \in Seq(Pieces) /\ Len(t) = m + 1
        /\ \A i \in 1 .. m + 1 : t[i] = IF i = 1 THEN q[1] ELSE a[i - 1]
    BY <1>0, <1>3, <1>4
  <1> HIDE DEF t
  <1>6. \A i \in 1 .. m + 1 : s[i] = t[i] BY <1>0, <1>2, <1>3, <1>5
  <1>7. s = t BY <1>2, <1>5, <1>6, SeqEqual
  <1> QED BY <1>7 DEF s, t, a, p

\* A word that waits to be read is complete: the next one is not begun.
OneAtATime == q_avail_r => rpending_r = 0

LEMMA GatherStep ==
  ASSUME RInv, OneAtATime, NEW wr \in BOOLEAN, NEW r1 \in BOOLEAN, NEW r2 \in BOOLEAN,
         NEW d \in Instr, Clock(wr, d, r1, r2)
  PROVE  LET rd == inner.ravail > 0 /\ ~q_avail_r
             take == Fetches(window, ~q_avail_r)
         IN  /\ fifo_i!Gathered' = (IF take THEN <<>> ELSE fifo_i!Gathered)
                                     \o (IF rd THEN <<Head(inner.words)>> ELSE <<>>)
             /\ OneAtATime'
             /\ take => q_avail_r
  <1> DEFINE rd == inner.ravail > 0 /\ ~q_avail_r
             take == Fetches(window, ~q_avail_r)
             n == IF q_avail_r THEN Scale ELSE rpending_r
  <1>0. Scale \in Nat /\ Scale >= 2 /\ rpending_r \in 0 .. Scale - 1 /\ q_avail_r \in BOOLEAN
        /\ q_r \in [1 .. Scale -> Pieces]
    BY SizesAssumption DEF RInv, Types
  <1>1. /\ q_r' = IF rd THEN Append(Tail(q_r), Head(inner.words)) ELSE q_r
        /\ rpending_r' = IF rd THEN (rpending_r + 1) % Scale ELSE rpending_r
        /\ q_avail_r' = IF q_avail_r THEN ~take ELSE rd /\ rpending_r = Scale - 1
    BY ClockFacts, Zenon
  <1>2. take => q_avail_r BY DEF Fetches
  <1>3. fifo_i!Gathered = SubSeq(q_r, Scale - n + 1, Scale) BY DEF fifo_i!Gathered
  <1>4. fifo_i!Gathered \in Seq(Pieces) BY StreamParts DEF RInv
  <1>5. \A x \in Seq(Pieces) : x \o <<>> = x /\ <<>> \o x = x /\ <<>> \in Seq(Pieces)
    BY ConcatEmptySeq
  <1> HIDE DEF take
  <1>6. CASE rd
    <2>1. inner.words \in Seq(Pieces) /\ Len(inner.words) > 0
      BY <1>6 DEF RInv, Types
    <2> DEFINE x == Head(inner.words)
    <2>2. x \in Pieces BY <2>1, HeadTailProperties
    <2>3. ~q_avail_r /\ ~take /\ n = rpending_r BY <1>2, <1>6
    <2>4. q_r' = Append(Tail(q_r), x) /\ rpending_r' = (rpending_r + 1) % Scale
          /\ q_avail_r' = (rpending_r = Scale - 1)
      BY <1>1, <1>6, <2>3, Zenon
    <2>5. (IF q_avail_r' THEN Scale ELSE rpending_r') = rpending_r + 1
          /\ (q_avail_r' => rpending_r' = 0)
      <3>1. CASE rpending_r = Scale - 1
        <4>1. q_avail_r' BY <2>4, <3>1, Zenon
        <4>2. rpending_r' = 0 /\ rpending_r + 1 = Scale BY <1>0, <2>4, <3>1, CountPieces
        <4> QED BY <4>1, <4>2, Zenon
      <3>2. CASE rpending_r # Scale - 1
        <4>1. ~q_avail_r' BY <2>4, <3>2, Zenon
        <4>2. rpending_r' = rpending_r + 1 BY <1>0, <2>4, <3>2, CountPieces
        <4> QED BY <4>1, <4>2, Zenon
      <3> QED BY <3>1, <3>2
    <2>6. fifo_i!Gathered' = SubSeq(Append(Tail(q_r), x), Scale - (rpending_r + 1) + 1, Scale)
      BY <2>4, <2>5, Zenon DEF fifo_i!Gathered
    <2> HIDE DEF x
    <2>7. fifo_i!Gathered' = fifo_i!Gathered \o <<x>>
      <3>1. SubSeq(Append(Tail(q_r), x), Scale - (rpending_r + 1) + 1, Scale)
              = SubSeq(q_r, Scale - rpending_r + 1, Scale) \o <<x>>
        BY <1>0, <2>2, GatherPiece, Zenon
      <3> QED BY <1>3, <2>3, <2>6, <3>1, Zenon
    <2> QED BY <1>2, <1>6, <2>3, <2>5, <2>7, Zenon DEF OneAtATime, take, x
  <1>7. CASE ~rd
    <2>1. q_r' = q_r /\ rpending_r' = rpending_r
          /\ q_avail_r' = (q_avail_r /\ ~take)
      BY <1>0, <1>1, <1>7, Zenon
    <2>2. OneAtATime' BY <2>1, Zenon DEF OneAtATime
    <2>3. CASE take
      <3>1. rpending_r = 0 /\ ~q_avail_r' BY <1>2, <2>1, <2>3, Zenon DEF OneAtATime
      <3>2. fifo_i!Gathered' = SubSeq(q_r, Scale - 0 + 1, Scale)
        BY <2>1, <3>1, Zenon DEF fifo_i!Gathered
      <3>3. SubSeq(q_r, Scale - 0 + 1, Scale) = <<>>
        <4>1. Scale - 0 + 1 \in Int /\ Scale \in Int /\ Scale < Scale - 0 + 1 BY <1>0
        <4> QED BY <4>1, SubSeqEmpty, Zenon
      <3>4. <<>> \o <<>> = <<>> BY <1>4, <1>5
      <3> QED BY <1>2, <1>7, <2>2, <2>3, <3>2, <3>3, <3>4, Zenon DEF take
    <2>4. CASE ~take
      <3>1. q_avail_r' = q_avail_r BY <1>0, <2>1, <2>4, Zenon
      <3>2. fifo_i!Gathered' = fifo_i!Gathered
        <4>1. CASE q_avail_r
          <5>1. q_avail_r' = TRUE BY <2>1, <2>4, <4>1
          <5>2. fifo_i!Gathered' = SubSeq(q_r, Scale - Scale + 1, Scale)
            BY <2>1, <5>1, Zenon DEF fifo_i!Gathered
          <5>3. fifo_i!Gathered = SubSeq(q_r, Scale - Scale + 1, Scale)
            BY <4>1, Zenon DEF fifo_i!Gathered
          <5> QED BY <5>2, <5>3, Zenon
        <4>2. CASE ~q_avail_r
          <5>1. ~q_avail_r' BY <3>1, <4>2, Zenon
          <5>2. fifo_i!Gathered' = SubSeq(q_r, Scale - rpending_r + 1, Scale)
            BY <2>1, <5>1, Zenon DEF fifo_i!Gathered
          <5>3. fifo_i!Gathered = SubSeq(q_r, Scale - rpending_r + 1, Scale)
            BY <4>2, Zenon DEF fifo_i!Gathered
          <5> QED BY <5>2, <5>3, Zenon
        <4> QED BY <4>1, <4>2
      <3>3. fifo_i!Gathered \o <<>> = fifo_i!Gathered BY <1>4, <1>5, Zenon
      <3> QED BY <1>2, <1>7, <2>2, <2>4, <3>2, <3>3, Zenon DEF take
    <2> QED BY <2>3, <2>4
  <1> QED BY <1>6, <1>7

\* Cutting: what is latched, being cut and written in this clock.
LEMMA CutStepMoves ==
  ASSUME RInv, NEW wr \in BOOLEAN, NEW r1 \in BOOLEAN, NEW r2 \in BOOLEAN,
         NEW d \in Instr, Clock(wr, d, r1, r2)
  PROVE  ((IF w_avail_r THEN <<data_r[1]>> ELSE <<>>) \o Cutting') \o Latched'
           = (Cutting \o Latched)
               \o (IF bus_write_r THEN fifo_i!Cut(bus_writedata_r) ELSE <<>>)
  <1>0. Types /\ Types' BY ClockTypes DEF RInv
  <1>1. Cutting \in Seq(Pieces) /\ Latched \in Seq(Pieces) BY <1>0, StreamParts
  <1>2. Cutting' \in Seq(Pieces) /\ Latched' \in Seq(Pieces)
    <2>1. (Types => Cutting \in Seq(Pieces) /\ Latched \in Seq(Pieces))'
      BY StreamParts, PTL
    <2> QED BY <1>0, <2>1
  <1>3. \A x \in Seq(Pieces) : x \o <<>> = x /\ <<>> \o x = x
    BY ConcatEmptySeq
  <1>4. CASE w_avail_r
    <2>1. ~write_in_r /\ ~bus_write_r BY <1>4 DEF RInv, LetThrough
    <2>2. ~write_in_r' BY <1>4, <2>1, ClockFacts, Zenon
    <2>3. Latched = <<>> /\ Latched' = <<>> BY <2>1, <2>2, Zenon DEF Latched
    <2> DEFINE p == [k \in 1 .. Scale |-> IF k < Scale THEN data_r[k + 1] ELSE data_r[k]]
    <2>4. data_r' = p /\ wpending_r' = (wpending_r + 1) % Scale
          /\ w_avail_r' = (wpending_r # Scale - 1)
      BY <1>4, ClockFacts, Zenon
    <2>5. wpending_r \in 0 .. Scale - 1 /\ data_r \in [1 .. Scale -> Pieces]
      BY <1>0 DEF Types
    <2>6. Cutting = <<data_r[1]>> \o SubSeq(p, 1, Scale - (wpending_r + 1))
      BY <1>4, <2>5, CutPiece, Zenon DEF Cutting
    <2> HIDE DEF p
    <2>7. Cutting' = SubSeq(p, 1, Scale - (wpending_r + 1))
      <3>1. CASE wpending_r = Scale - 1
        <4>1. Cutting' = <<>> BY <2>4, <3>1, Zenon DEF Cutting
        <4>2. 1 \in Int /\ Scale - (wpending_r + 1) \in Int /\ Scale - (wpending_r + 1) < 1
          BY <2>5, <3>1, SizesAssumption
        <4>3. SubSeq(p, 1, Scale - (wpending_r + 1)) = <<>> BY <4>2, SubSeqEmpty, Zenon
        <4> QED BY <4>1, <4>3
      <3>2. CASE wpending_r # Scale - 1
        <4>1. wpending_r' = wpending_r + 1 BY <2>4, <2>5, <3>2, CountPieces
        <4> QED BY <2>4, <3>2, <4>1, Zenon DEF Cutting
      <3> QED BY <3>1, <3>2
    <2>8. <<data_r[1]>> \o Cutting' = Cutting BY <2>6, <2>7, Zenon
    <2>9. Cutting \o <<>> = Cutting BY <1>1, <1>3, Zenon
    <2> QED BY <1>4, <2>1, <2>3, <2>8, <2>9, Zenon
  <1>5. CASE ~w_avail_r
    <2>1. Cutting = <<>> BY <1>5, Zenon DEF Cutting
    <2>2. /\ data_r' = fifo_i!Cut(data_in_r) /\ w_avail_r' = write_in_r
          /\ write_in_r => wpending_r' = 0
          /\ write_in_r' = (~write_in_r /\ bus_write_r)
          /\ ~write_in_r => data_in_r' = bus_writedata_r
      <3>1. write_in_r \in BOOLEAN /\ bus_write_r \in BOOLEAN BY <1>0 DEF Types
      <3>2. data_r' = fifo_i!Cut(data_in_r) /\ w_avail_r' = write_in_r
        BY <1>5, ClockFacts, Zenon
      <3>3. write_in_r => wpending_r' = 0 BY <1>5, ClockFacts, Zenon
      <3>4. write_in_r' = (~write_in_r /\ bus_write_r)
        <4>1. CASE write_in_r
          <5>1. write_in_r' = FALSE BY <1>5, <4>1, ClockFacts, Zenon
          <5> QED BY <4>1, <5>1
        <4>2. CASE ~write_in_r
          <5>1. write_in_r' = bus_write_r BY <1>5, <4>2, ClockFacts, Zenon
          <5> QED BY <3>1, <4>2, <5>1
        <4> QED BY <4>1, <4>2
      <3>5. ~write_in_r => data_in_r' = bus_writedata_r BY <1>5, ClockFacts, Zenon
      <3> QED BY <3>2, <3>3, <3>4, <3>5, Zenon
    <2>3. Cutting' = Latched
      <3>1. CASE write_in_r
        <4>1. Cutting' = SubSeq(fifo_i!Cut(data_in_r), 1, Scale - 0)
          BY <2>2, <3>1, Zenon DEF Cutting
        <4>2. SubSeq(fifo_i!Cut(data_in_r), 1, Scale - 0) = fifo_i!Cut(data_in_r)
          <5>1. fifo_i!Cut(data_in_r) \in Seq(Pieces) /\ Len(fifo_i!Cut(data_in_r)) = Scale
                /\ Scale - 0 = Scale
            BY <1>0, CutPieces, SizesAssumption DEF Types
          <5> QED BY <5>1, SubSeqFull
        <4> QED BY <3>1, <4>1, <4>2, Zenon DEF Latched
      <3>2. CASE ~write_in_r BY <2>2, <3>2, Zenon DEF Cutting, Latched
      <3> QED BY <3>1, <3>2
    <2>4. Latched' = IF bus_write_r THEN fifo_i!Cut(bus_writedata_r) ELSE <<>>
      <3>1. bus_write_r => ~write_in_r BY DEF RInv, LetThrough
      <3> QED BY <2>2, <3>1, Zenon DEF Latched, fifo_i!Cut
    <2>5. <<>> \o Latched = Latched BY <1>1, <1>3, Zenon
    <2> QED BY <1>5, <2>1, <2>3, <2>4, <2>5, Zenon
  <1> QED BY <1>4, <1>5

\* In a clock the row of pieces changes at its ends only: a word read leaves,
\* a word written goes last.
LEMMA StreamStep ==
  ASSUME RInv, OneAtATime, NEW wr \in BOOLEAN, NEW r1 \in BOOLEAN, NEW r2 \in BOOLEAN,
         NEW d \in Instr, Clock(wr, d, r1, r2)
  PROVE  fifo_i!Stream'
           = (IF Fetches(window, ~q_avail_r) THEN Behind ELSE fifo_i!Stream)
               \o (IF bus_write_r THEN fifo_i!Cut(bus_writedata_r) ELSE <<>>)
  <1> DEFINE rd == inner.ravail > 0 /\ ~q_avail_r
             take == Fetches(window, ~q_avail_r)
             m == IF bus_write_r THEN fifo_i!Cut(bus_writedata_r) ELSE <<>>
             e == IF w_avail_r THEN <<data_r[1]>> ELSE <<>>
             h == IF rd THEN <<Head(inner.words)>> ELSE <<>>
             r == IF rd THEN Tail(inner.words) ELSE inner.words
             g == IF take THEN <<>> ELSE fifo_i!Gathered
  <1>0. Types /\ Types' BY ClockTypes DEF RInv
  <1>1. /\ fifo_i!Gathered \in Seq(Pieces) /\ inner.words \in Seq(Pieces)
        /\ Cutting \in Seq(Pieces) /\ Latched \in Seq(Pieces) /\ Behind \in Seq(Pieces)
        /\ fifo_i!Stream = fifo_i!Gathered \o Behind
    BY <1>0, StreamParts, Zenon
  <1>2. /\ Cutting' \in Seq(Pieces) /\ Latched' \in Seq(Pieces)
        /\ fifo_i!Stream' = fifo_i!Gathered' \o Behind'
    <2>1. (Types => /\ Cutting \in Seq(Pieces) /\ Latched \in Seq(Pieces)
                    /\ fifo_i!Stream = fifo_i!Gathered \o Behind)'
      BY StreamParts, PTL
    <2> QED BY <1>0, <2>1
  <1>3. fifo_i!Gathered' = g \o h BY GatherStep, Zenon
  <1>4. (e \o Cutting') \o Latched' = (Cutting \o Latched) \o m BY CutStepMoves, Zenon
  <1>5. data_r[1] \in Pieces /\ (bus_write_r => fifo_i!Cut(bus_writedata_r) \in Seq(Pieces))
    BY <1>0, SizesAssumption, CutPieces DEF Types
  <1>6. <<>> \in Seq(Pieces) /\ <<data_r[1]>> \in Seq(Pieces) BY <1>5
  <1>7. m \in Seq(Pieces) /\ e \in Seq(Pieces) /\ g \in Seq(Pieces)
    BY <1>1, <1>5, <1>6, Zenon
  <1>8. h \in Seq(Pieces) /\ r \in Seq(Pieces) /\ inner.words = h \o r
    <2>1. CASE rd
      <3> DEFINE w == inner.words
      <3>1. w \in Seq(Pieces) /\ w # <<>>
        BY <1>0, <2>1 DEF Types
      <3> HIDE DEF w
      <3>2. Head(w) \in Pieces /\ Tail(w) \in Seq(Pieces) /\ w = <<Head(w)>> \o Tail(w)
        BY <3>1
      <3>3. <<Head(w)>> \in Seq(Pieces) BY <3>2
      <3> QED BY <2>1, <3>2, <3>3, Zenon DEF w
    <2>2. CASE ~rd
      <3>1. <<>> \o inner.words = inner.words BY <1>1, ConcatEmptySeq, Zenon
      <3> QED BY <1>1, <1>6, <2>2, <3>1, Zenon
    <2> QED BY <2>1, <2>2
  <1>9. (inner.words)' = r \o e
    <2>1. inner' = fifo_i!Clocked(inner, fifo_i!Ports(rd, w_avail_r, data_r[1]))
      BY ClockFacts, Zenon
    <2>2. (inner.words)' = IF w_avail_r THEN Append(r, data_r[1]) ELSE r
      BY <2>1 DEF fifo_i!Clocked, fifo_i!Ports, fifo_i!After
    <2> HIDE DEF r, rd
    <2>3. r \o <<>> = r BY <1>8, ConcatEmptySeq, Zenon
    <2>4. Append(r, data_r[1]) = r \o <<data_r[1]>> BY <1>5, <1>8, AppendIsConcat, Zenon
    <2> QED BY <2>2, <2>3, <2>4, Zenon
  <1>10. Behind' = ((r \o e) \o Cutting') \o Latched' BY <1>9, Zenon DEF Behind
  <1>11. Behind = ((h \o r) \o Cutting) \o Latched BY <1>8, Zenon DEF Behind
  <1> HIDE DEF rd, take, m, e, h, r, g
  <1>12. (g \o h) \o (((r \o e) \o Cutting') \o Latched')
           = (g \o (((h \o r) \o Cutting) \o Latched)) \o m
    <2>1. Moved(g, h, r, e, Cutting, Latched, m, Cutting', Latched')
      BY <1>1, <1>2, <1>7, <1>8, MovePieces, Zenon
    <2> QED BY <1>4, <2>1, Zenon DEF Moved
  <1>13. fifo_i!Stream' = (g \o Behind) \o m
    BY <1>2, <1>3, <1>10, <1>11, <1>12, Zenon
  <1>14. g \o Behind = IF take THEN Behind ELSE fifo_i!Stream
    <2>1. <<>> \o Behind = Behind BY <1>1, ConcatEmptySeq, Zenon
    <2> QED BY <1>1, <2>1, Zenon DEF g
  <1> QED BY <1>13, <1>14, Zenon DEF m, take

\* The row is words, cut.
StreamIsWords == IsCutOf(fifo_i!Stream, fifo_i!Words)

WInv == RInv /\ OneAtATime /\ StreamIsWords

\* What a clock does with the words inside.
LEMMA WordStep ==
  ASSUME WInv, NEW wr \in BOOLEAN, NEW r1 \in BOOLEAN, NEW r2 \in BOOLEAN,
         NEW d \in Instr, Clock(wr, d, r1, r2)
  PROVE  LET take == Fetches(window, ~q_avail_r)
         IN  /\ take => fifo_i!Words # <<>> /\ fifo_i!Words[1] = q_r[1][1]
             /\ fifo_i!Words' = (IF take THEN Tail(fifo_i!Words) ELSE fifo_i!Words)
                                  \o (IF bus_write_r THEN <<bus_writedata_r>> ELSE <<>>)
             /\ StreamIsWords'
  <1> DEFINE take == Fetches(window, ~q_avail_r)
             s == IF take THEN Behind ELSE fifo_i!Stream
             w == IF take THEN Tail(fifo_i!Words) ELSE fifo_i!Words
             t == IF bus_write_r THEN s \o fifo_i!Cut(bus_writedata_r) ELSE s
             v == IF bus_write_r THEN Append(w, bus_writedata_r) ELSE w
  <1>0. Types /\ IsCutOf(fifo_i!Stream, fifo_i!Words) /\ bus_writedata_r \in Instr
    BY DEF WInv, RInv, Types, StreamIsWords
  <1>1. /\ fifo_i!Gathered \in Seq(Pieces) /\ Behind \in Seq(Pieces)
        /\ fifo_i!Stream = fifo_i!Gathered \o Behind
        /\ q_avail_r => fifo_i!Gathered = q_r
    BY <1>0, StreamParts, Zenon
  <1>2. take => fifo_i!Words # <<>> /\ fifo_i!Words[1] = q_r[1][1]
                /\ IsCutOf(Behind, Tail(fifo_i!Words))
    <2> SUFFICES ASSUME take
                 PROVE  fifo_i!Words # <<>> /\ fifo_i!Words[1] = q_r[1][1]
                        /\ IsCutOf(Behind, Tail(fifo_i!Words))
      OBVIOUS
    <2>1. q_avail_r BY DEF Fetches
    <2>2. q_r \in Seq(Pieces) /\ Len(q_r) = Scale BY <1>0, SizesAssumption DEF Types
    <2>3. IsCutOf(q_r \o Behind, fifo_i!Words) BY <1>0, <1>1, <2>1, Zenon
    <2>4. fifo_i!Words # <<>> /\ q_r[1][1] = fifo_i!Words[1]
          /\ IsCutOf(Behind, Tail(fifo_i!Words))
      BY <1>1, <2>2, <2>3, CutDrop, Zenon
    <2> QED BY <2>4, Zenon
  <1> HIDE DEF take
  <1>3. IsCutOf(s, w) BY <1>0, <1>2, Zenon
  <1> HIDE DEF s, w
  <1>4. s \in Seq(Pieces) /\ w \in Seq(Instr) BY <1>3 DEF IsCutOf
  <1>5. IsCutOf(t, v)
    <2>1. IsCutOf(s \o fifo_i!Cut(bus_writedata_r), Append(w, bus_writedata_r))
      BY <1>0, <1>3, CutAppend, Zenon
    <2> QED BY <1>3, <2>1, Zenon
  <1>6. fifo_i!Stream' = t
    <2>1. s \o <<>> = s BY <1>4, ConcatEmptySeq, Zenon
    <2>2. RInv /\ OneAtATime BY DEF WInv
    <2>3. fifo_i!Stream'
            = s \o (IF bus_write_r THEN fifo_i!Cut(bus_writedata_r) ELSE <<>>)
      BY <2>2, StreamStep, Zenon DEF s, take
    <2> QED BY <2>1, <2>3, Zenon
  <1> HIDE DEF t
  <1>7. fifo_i!Words' = v
    <2>1. fifo_i!Words'
            = [i \in 1 .. (Len(fifo_i!Stream') \div Scale)
                 |-> fifo_i!Stream'[Scale * (i - 1) + 1][1]]
      BY DEF fifo_i!Words
    <2>2. v = [i \in 1 .. (Len(t) \div Scale) |-> t[Scale * (i - 1) + 1][1]]
      BY <1>5, WordsOfCut, Zenon
    <2> QED BY <1>6, <2>1, <2>2, Zenon
  <1>8. StreamIsWords' BY <1>5, <1>6, <1>7, Zenon DEF StreamIsWords, IsCutOf
  <1>9. v = w \o (IF bus_write_r THEN <<bus_writedata_r>> ELSE <<>>)
    <2>1. w \o <<>> = w BY <1>4, ConcatEmptySeq, Zenon
    <2>2. Append(w, bus_writedata_r) = w \o <<bus_writedata_r>>
      BY <1>0, <1>4, AppendIsConcat, Zenon
    <2> QED BY <2>1, <2>2, Zenon
  <1> QED BY <1>2, <1>7, <1>8, <1>9, Zenon DEF take, w

LEMMA InitWInv == Init => WInv
  <1> SUFFICES ASSUME Init PROVE WInv OBVIOUS
  <1>1. RInv BY InitRInv
  <1>2. OneAtATime BY DEF OneAtATime, Init, fifo_i!Init
  <1>3. Len(fifo_i!Gathered) = 0 /\ fifo_i!Gathered \in Seq(Pieces)
    BY <1>1, StreamParts DEF Init, fifo_i!Init, RInv
  <1>4. Behind = <<>>
    <2>1. Cutting = <<>> /\ Latched = <<>> /\ inner.words = <<>>
      BY DEF Init, fifo_i!Init, fifo_i!NoWords, Cutting, Latched
    <2> QED BY <2>1 DEF Behind
  <1>5. fifo_i!Stream = <<>>
    <2>1. fifo_i!Gathered = <<>> BY <1>3
    <2>2. fifo_i!Stream = <<>> \o <<>> BY <1>1, <1>4, <2>1, StreamParts, Zenon DEF RInv
    <2> QED BY <2>2
  <1>6. IsCutOf(<<>>, <<>>)
    <2>1. 0 = 0 * Scale BY SizesAssumption
    <2> QED BY <2>1 DEF IsCutOf
  <1>7. fifo_i!Words = <<>>
    <2>1. fifo_i!Words = [i \in 1 .. (Len(<<>>) \div Scale) |-> <<>>[Scale * (i - 1) + 1][1]]
      BY <1>5, Zenon DEF fifo_i!Words
    <2> QED BY <1>6, <2>1, WordsOfCut, Zenon
  <1> QED BY <1>1, <1>2, <1>5, <1>6, <1>7 DEF WInv, StreamIsWords

LEMMA NextWInv == WInv /\ [Next]_vars => WInv'
  <1> SUFFICES ASSUME WInv, [Next]_vars PROVE WInv' OBVIOUS
  <1>1. RInv' BY NextRInv DEF WInv
  <1>2. CASE Next
    <2>1. PICK wr \in BOOLEAN, r1 \in BOOLEAN, r2 \in BOOLEAN, d \in Instr :
            Clock(wr, d, r1, r2)
      BY <1>2 DEF Next
    <2>2. StreamIsWords' BY <2>1, WordStep, Zenon
    <2>3. OneAtATime' BY <2>1, GatherStep, Zenon DEF WInv
    <2> QED BY <1>1, <2>2, <2>3 DEF WInv
  <1>3. CASE UNCHANGED vars
    <2>1. UNCHANGED fifo_vars BY <1>3 DEF vars
    <2>2. fifo_i!Stream' = fifo_i!Stream
      BY <2>1, Zenon DEF fifo_vars, fifo_i!Stream, fifo_i!Gathered, fifo_i!Cut
    <2>3. fifo_i!Words' = fifo_i!Words BY <2>2, Zenon DEF fifo_i!Words
    <2>4. StreamIsWords' BY <2>2, <2>3, Zenon DEF WInv, StreamIsWords, IsCutOf
    <2>5. OneAtATime' BY <2>1 DEF WInv, OneAtATime, fifo_vars
    <2> QED BY <1>1, <2>4, <2>5 DEF WInv
  <1> QED BY <1>2, <1>3

\* The pieces inside are whole words in a row, however many pieces make a word
\* and however the cutting, the storing and the gathering interleave.
THEOREM PiecesStayInStep == Spec => []WholeWords
  <1>1. WInv => WholeWords
    <2> SUFFICES ASSUME IsCutOf(fifo_i!Stream, fifo_i!Words) PROVE WholeWords
      BY DEF WInv, StreamIsWords
    <2>1. Len(fifo_i!Stream) % Scale = 0 BY WordsOfCut, Zenon
    <2> QED BY <2>1, Zenon DEF WholeWords, fifo_i!WholeWords, IsCutOf
  <1> QED BY <1>1, InitWInv, NextWInv, PTL DEF Spec

-----------------------------------------------------------------------------
(* Instructions leave in program order. *)

Windows == [slot1 : Instr \cup {None}, slot2 : Instr \cup {None},
            rdreq1 : BOOLEAN, rdreq2 : BOOLEAN, out1 : BOOLEAN, out2 : BOOLEAN]

\* A request is registered only for a slot that holds an instruction, and a
\* slot is offered only while no request is.
Sound(w) ==
  /\ w.rdreq1 => Valid1(w)
  /\ w.rdreq2 => Valid1(w) /\ Valid2(w) /\ ~w.rdreq1
  /\ w.out1 => Valid1(w) /\ ~w.rdreq1 /\ ~w.rdreq2
  /\ w.out2 => Valid1(w) /\ Valid2(w) /\ ~w.rdreq1 /\ ~w.rdreq2

\* The sequence of what a slot holds.
InSlot(x) == IF x = None THEN <<>> ELSE <<x>>

\* The slots after a clock are the two oldest of what the slots still hold
\* and the word fetched.
Refilled(w, v, empty, head) ==
  LET x1 == IF w.rdreq1 THEN None ELSE w.slot1
      x2 == IF w.rdreq2 THEN None ELSE w.slot2
      x3 == IF Fetches(w, empty) THEN head ELSE None
  IN  /\ x1 = None => v.slot1 = x2 /\ v.slot2 = x3
      /\ x1 # None /\ x2 = None => v.slot1 = x1 /\ v.slot2 = x3
      /\ x1 # None /\ x2 # None => v.slot1 = x1 /\ v.slot2 = x2 /\ x3 = None
      /\ v.rdreq1 => x1 # None
      /\ v.rdreq2 => x1 # None /\ x2 # None

LEMMA WindowMoves ==
  ASSUME NEW w \in Windows, Sound(w), NEW empty \in BOOLEAN, NEW head \in Instr,
         NEW r1 \in BOOLEAN, NEW r2 \in BOOLEAN, r1 => w.out1, r2 => w.out2 /\ ~r1
  PROVE  LET v == ClockWindow(w, empty, head, r1, r2)
         IN  /\ v \in Windows /\ Sound(v) /\ v.rdreq1 = r1 /\ v.rdreq2 = r2
             /\ Refilled(w, v, empty, head)
  <1> DEFINE s1 == IF Moves(w) THEN w.slot2 ELSE IF w.rdreq1 THEN None ELSE w.slot1
             s2 == IF ~Refills(w) THEN w.slot2 ELSE IF empty THEN None ELSE head
             o1 == s1 # None /\ ~(r1 \/ r2)
             o2 == s2 # None /\ o1
             v == ClockWindow(w, empty, head, r1, r2)
             x1 == IF w.rdreq1 THEN None ELSE w.slot1
             x2 == IF w.rdreq2 THEN None ELSE w.slot2
             x3 == IF Fetches(w, empty) THEN head ELSE None
  <1>1. v = [slot1 |-> s1, slot2 |-> s2, rdreq1 |-> r1, rdreq2 |-> r2,
             out1 |-> o1, out2 |-> o2]
    BY DEF ClockWindow, Offers
  <1>2. /\ w.slot1 \in Instr \cup {None} /\ w.slot2 \in Instr \cup {None}
        /\ w.rdreq1 \in BOOLEAN /\ w.rdreq2 \in BOOLEAN
        /\ w.out1 \in BOOLEAN /\ w.out2 \in BOOLEAN
    BY DEF Windows
  <1>3. s1 \in Instr \cup {None} /\ s2 \in Instr \cup {None} BY <1>2
  <1>4. IF x1 = None THEN s1 = x2 /\ s2 = x3
        ELSE IF x2 = None THEN s1 = x1 /\ s2 = x3
        ELSE s1 = x1 /\ s2 = x2 /\ x3 = None
    BY <1>2, NoneAssumption DEF Sound, Valid1, Valid2, Moves, Refills, Fetches
  <1>5. (r1 => x1 # None) /\ (r2 => x1 # None /\ x2 # None)
    BY <1>2 DEF Sound, Valid1, Valid2
  <1>6. (r1 => s1 # None) /\ (r2 => s1 # None /\ s2 # None)
    BY <1>4, <1>5
  <1> HIDE DEF s1, s2
  <1>7. o1 \in BOOLEAN /\ o2 \in BOOLEAN OBVIOUS
  <1>8. (o1 => s1 # None /\ ~r1 /\ ~r2) /\ (o2 => s1 # None /\ s2 # None /\ ~r1 /\ ~r2)
    OBVIOUS
  <1> HIDE DEF v, o1, o2, x1, x2, x3
  <1>9. /\ v.slot1 = s1 /\ v.slot2 = s2 /\ v.rdreq1 = r1 /\ v.rdreq2 = r2
        /\ v.out1 = o1 /\ v.out2 = o2
    BY <1>1
  <1>10. v \in Windows BY <1>1, <1>3, <1>7 DEF Windows
  <1>11. Sound(v) BY <1>6, <1>8, <1>9 DEF Sound, Valid1, Valid2
  <1>12. Refilled(w, v, empty, head) BY <1>4, <1>5, <1>9 DEF Refilled, x1, x2, x3
  <1> QED BY <1>9, <1>10, <1>11, <1>12, Zenon DEF v

\* A slot whose request is registered is gone.
LEMMA HeldSlots ==
  ASSUME NEW w
  PROVE  Held(w) = InSlot(IF w.rdreq1 THEN None ELSE w.slot1)
                     \o InSlot(IF w.rdreq2 THEN None ELSE w.slot2)
  <1>1. (IF Valid1(w) /\ ~w.rdreq1 THEN <<w.slot1>> ELSE <<>>)
          = InSlot(IF w.rdreq1 THEN None ELSE w.slot1)
    BY Zenon DEF Valid1, InSlot
  <1>2. (IF Valid2(w) /\ ~w.rdreq2 THEN <<w.slot2>> ELSE <<>>)
          = InSlot(IF w.rdreq2 THEN None ELSE w.slot2)
    BY Zenon DEF Valid2, InSlot
  <1> QED BY <1>1, <1>2, Zenon DEF Held

LEMMA SlotSeq ==
  ASSUME NEW x \in Instr \cup {None}
  PROVE  /\ InSlot(x) \in Seq(Instr)
         /\ Len(InSlot(x)) = IF x = None THEN 0 ELSE 1
         /\ x # None => InSlot(x)[1] = x
  <1>1. CASE x = None
    <2>1. InSlot(x) = <<>> BY <1>1 DEF InSlot
    <2> QED BY <1>1, <2>1
  <1>2. CASE x # None
    <2>1. InSlot(x) = <<x>> /\ x \in Instr BY <1>2 DEF InSlot
    <2> QED BY <1>2, <2>1
  <1> QED BY <1>1, <1>2

\* A row without its first word, and without its second.
LEMMA WithoutFirst ==
  ASSUME NEW s \in Seq(Instr), Len(s) >= 1
  PROVE  Tail(s) \in Seq(Instr) /\ Len(Tail(s)) = Len(s) - 1
         /\ \A i \in 1 .. Len(s) - 1 : Tail(s)[i] = s[i + 1]
BY HeadTailProperties

LEMMA WithoutSecond ==
  ASSUME NEW s \in Seq(Instr), Len(s) >= 2
  PROVE  LET t == <<s[1]>> \o Tail(Tail(s))
         IN  t \in Seq(Instr) /\ Len(t) = Len(s) - 1
             /\ \A i \in 1 .. Len(s) - 1 : t[i] = IF i = 1 THEN s[1] ELSE s[i + 1]
  <1> DEFINE u == Tail(s)
             v == Tail(u)
             f == <<s[1]>>
             t == f \o v
  <1>0. Len(s) \in Nat /\ s[1] \in Instr OBVIOUS
  <1>1. u \in Seq(Instr) /\ Len(u) = Len(s) - 1 /\ \A i \in 1 .. Len(s) - 1 : u[i] = s[i + 1]
    BY WithoutFirst
  <1> HIDE DEF u
  <1>2. v \in Seq(Instr) /\ Len(v) = Len(u) - 1 /\ \A i \in 1 .. Len(u) - 1 : v[i] = u[i + 1]
    BY <1>0, <1>1, WithoutFirst
  <1>3. f \in Seq(Instr) /\ Len(f) = 1 /\ f[1] = s[1] BY <1>0
  <1> HIDE DEF v, f
  <1>4. t \in Seq(Instr) /\ Len(t) = 1 + Len(v)
        /\ \A i \in 1 .. 1 + Len(v) : t[i] = IF i <= 1 THEN f[i] ELSE v[i - 1]
    <2>1. t \in Seq(Instr) /\ Len(t) = Len(f) + Len(v)
          /\ \A i \in 1 .. Len(f) + Len(v) : t[i] = IF i <= Len(f) THEN f[i] ELSE v[i - Len(f)]
      <3>1. f \in Seq(Instr) /\ v \in Seq(Instr) BY <1>2, <1>3
      <3> QED BY <3>1, ConcatProperties
    <2> QED BY <1>3, <2>1, Zenon
  <1> HIDE DEF t
  <1>5. Len(t) = Len(s) - 1 BY <1>0, <1>1, <1>2, <1>4
  <1>6. ASSUME NEW i \in 1 .. Len(s) - 1 PROVE t[i] = IF i = 1 THEN s[1] ELSE s[i + 1]
    <2>1. CASE i = 1 BY <1>0, <1>1, <1>2, <1>3, <1>4, <2>1
    <2>2. CASE i # 1
      <3>1. t[i] = v[i - 1] /\ i - 1 \in 1 .. Len(u) - 1 BY <1>0, <1>1, <1>2, <1>4, <2>2
      <3>2. v[i - 1] = u[i] BY <3>1, <1>2
      <3> QED BY <3>1, <3>2, <1>1, <2>2
    <2> QED BY <2>1, <2>2
  <1> QED BY <1>4, <1>5, <1>6, Zenon DEF t, f, v, u

\* Reading one of the first words of a row does not see what is behind them.
ReadsAhead(a, b, r1, r2) ==
  /\ ReadOne(a, r1, r2) \in Seq(Instr)
  /\ ReadOne(a, r1, r2) \o b = ReadOne(a \o b, r1, r2)

LEMMA ReadOneOfRow ==
  ASSUME NEW a \in Seq(Instr), NEW b \in Seq(Instr), NEW r1 \in BOOLEAN, NEW r2 \in BOOLEAN,
         r1 => Len(a) >= 1, r2 => ~r1 /\ Len(a) >= 2
  PROVE  ReadsAhead(a, b, r1, r2)
  <1> SUFFICES /\ ReadOne(a, r1, r2) \in Seq(Instr)
               /\ ReadOne(a, r1, r2) \o b = ReadOne(a \o b, r1, r2)
    BY DEF ReadsAhead
  <1> DEFINE c == a \o b
  <1>0. c \in Seq(Instr) /\ Len(c) = Len(a) + Len(b) /\ Len(a) \in Nat /\ Len(b) \in Nat
        /\ \A i \in 1 .. Len(a) + Len(b) : c[i] = IF i <= Len(a) THEN a[i] ELSE b[i - Len(a)]
    BY ConcatProperties
  <1> HIDE DEF c
  <1>1. CASE r1
    <2> DEFINE p == Tail(a)
               q == Tail(c)
               s == p \o b
    <2>1. p \in Seq(Instr) /\ Len(p) = Len(a) - 1 /\ \A i \in 1 .. Len(a) - 1 : p[i] = a[i + 1]
      BY <1>1, HeadTailProperties
    <2>2. q \in Seq(Instr) /\ Len(q) = Len(c) - 1 /\ \A i \in 1 .. Len(c) - 1 : q[i] = c[i + 1]
      <3>1. Len(c) >= 1 BY <1>0, <1>1
      <3> QED BY <1>0, <3>1, WithoutFirst, Zenon
    <2> HIDE DEF p, q
    <2>3. s \in Seq(Instr) /\ Len(s) = Len(p) + Len(b)
          /\ \A i \in 1 .. Len(p) + Len(b) : s[i] = IF i <= Len(p) THEN p[i] ELSE b[i - Len(p)]
      BY <2>1, ConcatProperties
    <2> HIDE DEF s
    <2>4. Len(s) = Len(q) /\ \A i \in 1 .. Len(s) : s[i] = q[i]
      BY <1>0, <1>1, <2>1, <2>2, <2>3
    <2>5. s = q BY <2>2, <2>3, <2>4, SeqEqual
    <2> QED BY <1>1, <2>1, <2>5 DEF ReadOne, s, p, q, c
  <1>2. CASE r2
    <2> DEFINE p == <<a[1]>> \o Tail(Tail(a))
               q == <<c[1]>> \o Tail(Tail(c))
               s == p \o b
    <2>1. p \in Seq(Instr) /\ Len(p) = Len(a) - 1
          /\ \A i \in 1 .. Len(a) - 1 : p[i] = IF i = 1 THEN a[1] ELSE a[i + 1]
      BY <1>2, WithoutSecond, Zenon
    <2>2. q \in Seq(Instr) /\ Len(q) = Len(c) - 1
          /\ \A i \in 1 .. Len(c) - 1 : q[i] = IF i = 1 THEN c[1] ELSE c[i + 1]
      <3>1. Len(c) >= 2 BY <1>0, <1>2
      <3> QED BY <1>0, <3>1, WithoutSecond, Zenon
    <2> HIDE DEF p, q
    <2>3. s \in Seq(Instr) /\ Len(s) = Len(p) + Len(b)
          /\ \A i \in 1 .. Len(p) + Len(b) : s[i] = IF i <= Len(p) THEN p[i] ELSE b[i - Len(p)]
      BY <2>1, ConcatProperties
    <2> HIDE DEF s
    <2>4. Len(s) = Len(q) BY <1>0, <1>2, <2>1, <2>2, <2>3
    <2>6. ASSUME NEW i \in 1 .. Len(s) PROVE s[i] = q[i]
      <3>1. CASE i = 1
        <4>0. 1 \in 1 .. Len(p) + Len(b) /\ 1 <= Len(p) /\ 1 \in 1 .. Len(a) - 1
          BY <1>0, <1>2, <2>1
        <4>1. s[1] = a[1] BY <4>0, <2>1, <2>3, Zenon
        <4>2. q[1] = c[1] BY <1>0, <1>2, <2>2
        <4>3. c[1] = a[1] BY <1>0, <1>2
        <4> QED BY <3>1, <4>1, <4>2, <4>3
      <3>2. CASE i # 1 /\ i <= Len(p)
        <4>0. i \in 1 .. Len(p) + Len(b) /\ i \in 1 .. Len(a) - 1
          BY <1>0, <1>2, <2>1, <2>3, <3>2
        <4>1. s[i] = a[i + 1] BY <4>0, <2>1, <2>3, <3>2, Zenon
        <4>2. q[i] = c[i + 1] BY <1>0, <1>2, <2>1, <2>2, <2>3, <3>2
        <4>3. c[i + 1] = a[i + 1] BY <1>0, <1>2, <2>1, <3>2
        <4> QED BY <4>1, <4>2, <4>3
      <3>3. CASE ~(i <= Len(p))
        <4>1. s[i] = b[i - Len(p)] BY <1>0, <2>1, <2>3, <3>3
        <4>2. q[i] = c[i + 1] BY <1>0, <1>2, <2>1, <2>2, <2>3, <3>3, SMTT(30)
        <4>3. i + 1 \in 1 .. Len(a) + Len(b) /\ ~(i + 1 <= Len(a))
              /\ (i + 1) - Len(a) = i - Len(p)
          BY <1>0, <1>2, <2>1, <2>3, <3>3
        <4>4. c[i + 1] = b[(i + 1) - Len(a)] BY <1>0, <4>3, Zenon
        <4> QED BY <4>1, <4>2, <4>3, <4>4, Zenon
      <3> QED BY <3>1, <3>2, <3>3
    <2>5. s = q BY <2>2, <2>3, <2>4, <2>6, SeqEqual
    <2> QED BY <1>2, <2>1, <2>5 DEF ReadOne, s, p, q, c
  <1>3. CASE ~r1 /\ ~r2 BY <1>3 DEF ReadOne
  <1> QED BY <1>1, <1>2, <1>3

\* The window holds, after a clock, what one read leaves of what it held and
\* fetched.
HoldsAfterRead(w, empty, head, r1, r2) ==
  Held(ClockWindow(w, empty, head, r1, r2))
    = ReadOne(Held(w) \o (IF Fetches(w, empty) THEN <<head>> ELSE <<>>), r1, r2)

LEMMA HeldStep ==
  ASSUME NEW w \in Windows, Sound(w), NEW empty \in BOOLEAN, NEW head \in Instr,
         NEW r1 \in BOOLEAN, NEW r2 \in BOOLEAN, r1 => w.out1, r2 => w.out2 /\ ~r1
  PROVE  LET fetched == IF Fetches(w, empty) THEN <<head>> ELSE <<>>
             all == Held(w) \o fetched
         IN  /\ Held(w) \in Seq(Instr) /\ fetched \in Seq(Instr) /\ all \in Seq(Instr)
             /\ r1 => Len(Held(w)) >= 1 /\ Len(all) >= 1
             /\ r2 => ~r1 /\ Len(Held(w)) >= 2 /\ Len(all) >= 2
             /\ HoldsAfterRead(w, empty, head, r1, r2)
  <1> DEFINE v == ClockWindow(w, empty, head, r1, r2)
             x1 == IF w.rdreq1 THEN None ELSE w.slot1
             x2 == IF w.rdreq2 THEN None ELSE w.slot2
             x3 == IF Fetches(w, empty) THEN head ELSE None
             y1 == IF r1 THEN None ELSE v.slot1
             y2 == IF r2 THEN None ELSE v.slot2
             fetched == IF Fetches(w, empty) THEN <<head>> ELSE <<>>
  <1>1. /\ v.rdreq1 = r1 /\ v.rdreq2 = r2
        /\ x1 = None => v.slot1 = x2 /\ v.slot2 = x3
        /\ x1 # None /\ x2 = None => v.slot1 = x1 /\ v.slot2 = x3
        /\ x1 # None /\ x2 # None => v.slot1 = x1 /\ v.slot2 = x2 /\ x3 = None
        /\ r1 => x1 # None
        /\ r2 => x1 # None /\ x2 # None
    <2>1. v.rdreq1 = r1 /\ v.rdreq2 = r2 BY DEF ClockWindow
    <2>2. Refilled(w, v, empty, head) BY WindowMoves, Zenon
    <2> HIDE DEF v
    <2>3. /\ x1 = None => v.slot1 = x2 /\ v.slot2 = x3
          /\ x1 # None /\ x2 = None => v.slot1 = x1 /\ v.slot2 = x3
          /\ x1 # None /\ x2 # None => v.slot1 = x1 /\ v.slot2 = x2 /\ x3 = None
          /\ v.rdreq1 => x1 # None
          /\ v.rdreq2 => x1 # None /\ x2 # None
      BY <2>2 DEF Refilled
    <2> HIDE DEF x1, x2, x3
    <2> QED BY <2>1, <2>3
  <1>2. x1 \in Instr \cup {None} /\ x2 \in Instr \cup {None} /\ x3 \in Instr \cup {None}
    BY DEF Windows
  <1>3. Held(w) = InSlot(x1) \o InSlot(x2) BY HeldSlots, Zenon
  <1>4. fetched = InSlot(x3) BY NoneAssumption DEF InSlot
  <1>5. Held(v) = InSlot(y1) \o InSlot(y2) BY <1>1, HeldSlots, Zenon
  <1> HIDE DEF x1, x2, x3, v, fetched
  <1> DEFINE a == InSlot(x1)
             b == InSlot(x2)
             c == InSlot(x3)
             h == a \o b
             all == h \o c
  <1>6. /\ a \in Seq(Instr) /\ Len(a) = (IF x1 = None THEN 0 ELSE 1)
        /\ b \in Seq(Instr) /\ Len(b) = (IF x2 = None THEN 0 ELSE 1)
        /\ c \in Seq(Instr) /\ Len(c) = (IF x3 = None THEN 0 ELSE 1)
    BY <1>2, SlotSeq, Zenon
  <1> HIDE DEF a, b, c
  <1>7. h \in Seq(Instr) /\ Len(h) = Len(a) + Len(b) BY <1>6, ConcatProperties, Zenon
  <1> HIDE DEF h
  <1>8. all \in Seq(Instr) /\ Len(all) = Len(h) + Len(c)
    BY <1>6, <1>7, ConcatProperties, Zenon
  <1> HIDE DEF all
  <1>9. /\ r1 => Len(h) >= 1 /\ Len(all) >= 1
        /\ r2 => Len(h) >= 2 /\ Len(all) >= 2
    BY <1>1, <1>6, <1>7, <1>8
  <1>10. \A s \in Seq(Instr) : s \o <<>> = s /\ <<>> \o s = s BY ConcatEmptySeq
  <1>11. (x1 = None => a = <<>>) /\ (x2 = None => b = <<>>) /\ (x3 = None => c = <<>>)
    BY Zenon DEF a, b, c, InSlot
  <1>12. InSlot(v.slot1) \o InSlot(v.slot2) = all
    <2>1. CASE x1 = None
      <3>1. v.slot1 = x2 /\ v.slot2 = x3 BY <1>1, <2>1, Zenon
      <3>2. h = b BY <1>6, <1>10, <1>11, <2>1, Zenon DEF h
      <3> QED BY <3>1, <3>2, Zenon DEF all, b, c
    <2>2. CASE x1 # None /\ x2 = None
      <3>1. v.slot1 = x1 /\ v.slot2 = x3 BY <1>1, <2>2, Zenon
      <3>2. h = a BY <1>6, <1>10, <1>11, <2>2, Zenon DEF h
      <3> QED BY <3>1, <3>2, Zenon DEF all, a, c
    <2>3. CASE x1 # None /\ x2 # None
      <3>1. v.slot1 = x1 /\ v.slot2 = x2 /\ x3 = None BY <1>1, <2>3, Zenon
      <3>2. all = h BY <1>7, <1>10, <1>11, <3>1, Zenon DEF all
      <3> QED BY <3>1, <3>2, Zenon DEF h, a, b
    <2> QED BY <2>1, <2>2, <2>3
  <1>13. InSlot(y1) \o InSlot(y2) = ReadOne(all, r1, r2)
    <2>1. v.slot1 \in Instr \cup {None} /\ v.slot2 \in Instr \cup {None}
      BY <1>1, <1>2
    <2> DEFINE p == InSlot(v.slot1)
               q == InSlot(v.slot2)
    <2>2. /\ p \in Seq(Instr) /\ Len(p) = (IF v.slot1 = None THEN 0 ELSE 1)
          /\ q \in Seq(Instr) /\ Len(q) = (IF v.slot2 = None THEN 0 ELSE 1)
      BY <2>1, SlotSeq, Zenon
    <2>3. InSlot(None) = <<>> BY Zenon DEF InSlot
    <2>4. CASE r1
      <3>1. v.slot1 # None /\ ~r2 BY <1>1, <2>4
      <3>2. y1 = None /\ y2 = v.slot2 BY <2>4, <3>1
      <3>3. p = <<v.slot1>> /\ v.slot1 \in Instr BY <2>1, <3>1 DEF InSlot
      <3>4. Tail(<<v.slot1>> \o q) = q
        <4> HIDE DEF q
        <4> QED BY <2>2, <3>3
      <3>5. <<>> \o q = q BY <1>10, <2>2, Zenon
      <3> QED BY <1>12, <2>3, <2>4, <3>2, <3>3, <3>4, <3>5, Zenon DEF ReadOne
    <2>5. CASE r2
      <3>1. v.slot1 # None /\ v.slot2 # None /\ ~r1 BY <1>1, <2>5
      <3>2. y1 = v.slot1 /\ y2 = None BY <2>5, <3>1
      <3> DEFINE i == v.slot1
                 j == v.slot2
      <3>3. p = <<i>> /\ i \in Instr /\ q = <<j>> /\ j \in Instr BY <2>1, <3>1 DEF InSlot
      <3> HIDE DEF i, j, p, q
      <3>4. <<(<<i>> \o <<j>>)[1]>> \o Tail(Tail(<<i>> \o <<j>>)) = <<i>> \o <<>>
        <4> DEFINE f == <<i>>
                   g == <<j>>
                   s == f \o g
                   t == <<s[1]>> \o Tail(Tail(s))
        <4>1. f \in Seq(Instr) /\ g \in Seq(Instr) /\ Len(f) = 1 /\ Len(g) = 1 /\ f[1] = i
          BY <3>3
        <4> HIDE DEF f, g
        <4>2. s \in Seq(Instr) /\ Len(s) = 2 /\ s[1] = i
          <5>1. s \in Seq(Instr) /\ Len(s) = Len(f) + Len(g)
                /\ \A k \in 1 .. Len(f) + Len(g) : s[k] = IF k <= Len(f) THEN f[k] ELSE g[k - Len(f)]
            BY <4>1, ConcatProperties, Zenon
          <5> QED BY <4>1, <5>1
        <4> HIDE DEF s
        <4>3. t \in Seq(Instr) /\ Len(t) = Len(s) - 1
              /\ \A k \in 1 .. Len(s) - 1 : t[k] = IF k = 1 THEN s[1] ELSE s[k + 1]
          <5>1. Len(s) >= 2 BY <4>2
          <5> QED BY <4>2, <5>1, WithoutSecond, Zenon
        <4> HIDE DEF t
        <4>4. Len(t) = Len(f) /\ \A k \in 1 .. Len(t) : t[k] = f[k] BY <4>1, <4>2, <4>3
        <4>5. t = f BY <4>1, <4>3, <4>4, SeqEqual, Zenon
        <4>6. f \o <<>> = f BY <4>1, ConcatEmptySeq, Zenon
        <4> QED BY <4>5, <4>6, Zenon DEF t, s, f, g
      <3> QED BY <1>12, <2>3, <2>5, <3>1, <3>2, <3>3, <3>4, Zenon DEF ReadOne, p, q, i, j
    <2>6. CASE ~r1 /\ ~r2 BY <1>12, <2>6, Zenon DEF ReadOne
    <2> QED BY <2>4, <2>5, <2>6
  <1>14. Held(v) = ReadOne(all, r1, r2)
    <2> HIDE DEF y1, y2
    <2> QED BY <1>5, <1>13, Zenon
  <1>15. HoldsAfterRead(w, empty, head, r1, r2)
    BY <1>3, <1>4, <1>14, Zenon DEF HoldsAfterRead, all, h, a, b, c, v, fetched
  <1> QED BY <1>3, <1>4, <1>6, <1>7, <1>8, <1>9, <1>15, Zenon DEF all, h, a, b, c, fetched

WindowSound == window \in Windows /\ Sound(window)

PInv == WInv /\ WindowSound

LEMMA InitPInv == Init => PInv
  <1> SUFFICES ASSUME Init PROVE PInv OBVIOUS
  <1>1. window = EmptyWindow BY DEF Init
  <1>2. EmptyWindow \in Windows BY DEF EmptyWindow, Windows
  <1>3. Sound(EmptyWindow) BY DEF EmptyWindow, Sound
  <1> QED BY <1>1, <1>2, <1>3, InitWInv DEF PInv, WindowSound

\* What a clock does to the window, with what it fetches.
LEMMA WindowStep ==
  ASSUME PInv, NEW wr \in BOOLEAN, NEW r1 \in BOOLEAN, NEW r2 \in BOOLEAN,
         NEW d \in Instr, Clock(wr, d, r1, r2)
  PROVE  LET fetched == IF Fetches(window, ~q_avail_r) THEN <<q_r[1][1]>> ELSE <<>>
             all == Held(window) \o fetched
         IN  /\ WindowSound' /\ window'.rdreq1 = r1 /\ window'.rdreq2 = r2
             /\ Held(window) \in Seq(Instr) /\ fetched \in Seq(Instr) /\ all \in Seq(Instr)
             /\ r1 => Len(all) >= 1
             /\ r2 => ~r1 /\ Len(all) >= 2
             /\ Held(window') = ReadOne(all, r1, r2)
  <1> DEFINE empty == ~q_avail_r
             head == q_r[1][1]
             w == window
             v == ClockWindow(w, empty, head, r1, r2)
             fetched == IF Fetches(w, empty) THEN <<head>> ELSE <<>>
             all == Held(w) \o fetched
  <1>1. w \in Windows /\ Sound(w) BY DEF PInv, WindowSound
  <1>2. empty \in BOOLEAN OBVIOUS
  <1>3. head \in Instr
    <2>1. q_r[1] \in Pieces BY SizesAssumption DEF PInv, WInv, RInv, Types
    <2> QED BY <2>1 DEF Pieces
  <1>4. window' = v /\ (r1 => w.out1) /\ (r2 => w.out2 /\ ~r1) BY ClockFacts, Zenon
  <1> HIDE DEF empty, head, w
  <1>5. v \in Windows /\ Sound(v) /\ v.rdreq1 = r1 /\ v.rdreq2 = r2
    <2>1. v.rdreq1 = r1 /\ v.rdreq2 = r2 BY DEF ClockWindow
    <2>2. v \in Windows BY <1>1, <1>2, <1>3, <1>4, WindowMoves, Zenon
    <2>3. Sound(v) BY <1>1, <1>2, <1>3, <1>4, WindowMoves, Zenon
    <2> QED BY <2>1, <2>2, <2>3
  <1>6. /\ Held(w) \in Seq(Instr) /\ fetched \in Seq(Instr) /\ all \in Seq(Instr)
        /\ r1 => Len(all) >= 1
        /\ r2 => ~r1 /\ Len(all) >= 2
        /\ Held(v) = ReadOne(all, r1, r2)
    <2>1. Held(w) \in Seq(Instr) BY <1>1, <1>2, <1>3, <1>4, HeldStep, Zenon
    <2>2. fetched \in Seq(Instr) BY <1>1, <1>2, <1>3, <1>4, HeldStep, Zenon
    <2>3. all \in Seq(Instr) BY <1>1, <1>2, <1>3, <1>4, HeldStep, Zenon
    <2>4. r1 => Len(all) >= 1 BY <1>1, <1>2, <1>3, <1>4, HeldStep, Zenon
    <2>5. r2 => ~r1 /\ Len(all) >= 2 BY <1>1, <1>2, <1>3, <1>4, HeldStep, Zenon
    <2>6. Held(v) = ReadOne(all, r1, r2)
      <3>1. HoldsAfterRead(w, empty, head, r1, r2)
        BY <1>1, <1>2, <1>3, <1>4, HeldStep, Zenon
      <3> QED BY <3>1, Zenon DEF HoldsAfterRead
    <2> QED BY <2>1, <2>2, <2>3, <2>4, <2>5, <2>6
  <1> HIDE DEF v
  <1>7. WindowSound' BY <1>4, <1>5, Zenon DEF WindowSound, Sound, Valid1, Valid2
  <1> QED BY <1>4, <1>5, <1>6, <1>7, Zenon DEF fetched, all, empty, head, w

LEMMA NextPInv == PInv /\ [Next]_vars => PInv'
  <1> SUFFICES ASSUME PInv, [Next]_vars PROVE PInv' OBVIOUS
  <1>1. WInv' BY NextWInv DEF PInv
  <1>2. CASE Next
    <2>1. PICK wr \in BOOLEAN, r1 \in BOOLEAN, r2 \in BOOLEAN, d \in Instr :
            Clock(wr, d, r1, r2)
      BY <1>2 DEF Next
    <2>2. WindowSound' BY <2>1, WindowStep, Zenon
    <2> QED BY <1>1, <2>2 DEF PInv
  <1>3. CASE UNCHANGED vars
    BY <1>1, <1>3, Zenon DEF PInv, WindowSound, Sound, Valid1, Valid2, vars
  <1> QED BY <1>2, <1>3

LEMMA WordsInARow == \A x, y, z \in Seq(Instr) : Rebracket(x, y, z)
  <1>1. ASSUME NEW x \in Seq(Instr), NEW y \in Seq(Instr), NEW z \in Seq(Instr)
        PROVE  Rebracket(x, y, z)
    BY ConcatAssociative DEF Rebracket
  <1> QED BY <1>1, Zenon

\* The instructions inside change by what the ports say.
LEMMA ProgramStep ==
  ASSUME PInv, NEW wr \in BOOLEAN, NEW r1 \in BOOLEAN, NEW r2 \in BOOLEAN,
         NEW d \in Instr, Clock(wr, d, r1, r2)
  PROVE  Program' = ReadOne(Program, window'.rdreq1, window'.rdreq2)
                      \o (IF bus_write_r THEN <<bus_writedata_r>> ELSE <<>>)
  <1> DEFINE take == Fetches(window, ~q_avail_r)
             fetched == IF take THEN <<q_r[1][1]>> ELSE <<>>
             h == Held(window)
             all == h \o fetched
             rest == IF take THEN Tail(fifo_i!Words) ELSE fifo_i!Words
             new == IF bus_write_r THEN <<bus_writedata_r>> ELSE <<>>
             one == ReadOne(all, r1, r2)
  <1>1. /\ window'.rdreq1 = r1 /\ window'.rdreq2 = r2
        /\ h \in Seq(Instr) /\ fetched \in Seq(Instr) /\ all \in Seq(Instr)
        /\ r1 => Len(all) >= 1
        /\ r2 => ~r1 /\ Len(all) >= 2
        /\ Held(window') = one
    <2>1. window'.rdreq1 = r1 /\ window'.rdreq2 = r2 BY WindowStep, Zenon
    <2>2. h \in Seq(Instr) /\ fetched \in Seq(Instr) /\ all \in Seq(Instr)
      BY WindowStep, Zenon
    <2>3. r1 => Len(all) >= 1 BY WindowStep, Zenon
    <2>4. r2 => ~r1 /\ Len(all) >= 2 BY WindowStep, Zenon
    <2>5. Held(window') = one BY WindowStep, Zenon
    <2> HIDE DEF h, fetched, all, one
    <2> QED BY <2>1, <2>2, <2>3, <2>4, <2>5
  <1>2. /\ take => fifo_i!Words # <<>> /\ fifo_i!Words[1] = q_r[1][1]
        /\ fifo_i!Words' = rest \o new
    BY WordStep, Zenon DEF PInv
  <1>3. fifo_i!Words \in Seq(Instr) BY Zenon DEF PInv, WInv, StreamIsWords, IsCutOf
  <1>4. bus_writedata_r \in Instr BY DEF PInv, WInv, RInv, Types
  <1>5. new \in Seq(Instr)
    <2>1. <<bus_writedata_r>> \in Seq(Instr) /\ <<>> \in Seq(Instr) BY <1>4
    <2> QED BY <2>1, Zenon
  <1>6. rest \in Seq(Instr) /\ fetched \o rest = fifo_i!Words
    <2> DEFINE W == fifo_i!Words
    <2>1. CASE take
      <3>1. W # <<>> /\ W[1] = q_r[1][1] /\ W \in Seq(Instr) BY <1>2, <1>3, <2>1, Zenon
      <3> HIDE DEF W
      <3>2. Tail(W) \in Seq(Instr) /\ <<W[1]>> \o Tail(W) = W BY <3>1
      <3> QED BY <2>1, <3>1, <3>2, Zenon DEF W
    <2>2. CASE ~take
      <3>1. <<>> \o W = W BY <1>3, ConcatEmptySeq, Zenon
      <3> QED BY <1>3, <2>2, <3>1, Zenon
    <2> QED BY <2>1, <2>2
  <1> HIDE DEF take, fetched, h, all, rest, new, one
  <1>7. Program' = one \o (rest \o new) BY <1>1, <1>2, Zenon DEF Program
  <1>8. one \in Seq(Instr) /\ one \o rest = ReadOne(all \o rest, r1, r2)
    <2>1. ReadsAhead(all, rest, r1, r2) BY <1>1, <1>6, ReadOneOfRow, Zenon
    <2> QED BY <2>1, Zenon DEF ReadsAhead, one
  <1>9. one \o (rest \o new) = (one \o rest) \o new
    <2>1. Rebracket(one, rest, new) BY <1>5, <1>6, <1>8, WordsInARow, Zenon
    <2> QED BY <2>1, Zenon DEF Rebracket
  <1>10. all \o rest = Program
    <2>1. (h \o fetched) \o rest = h \o (fetched \o rest)
      <3>1. Rebracket(h, fetched, rest) BY <1>1, <1>6, WordsInARow, Zenon
      <3> QED BY <3>1, Zenon DEF Rebracket
    <2> QED BY <1>6, <2>1, Zenon DEF Program, all, h
  <1> QED BY <1>1, <1>7, <1>8, <1>9, <1>10, Zenon DEF new

\* The slots offered are the two oldest instructions.
LEMMA OffersAreOldest ==
  ASSUME PInv
  PROVE  /\ window.out1 => Len(Program) >= 1 /\ window.slot1 = Program[1]
         /\ window.out2 => Len(Program) >= 2 /\ window.slot2 = Program[2]
  <1> DEFINE x1 == IF window.rdreq1 THEN None ELSE window.slot1
             x2 == IF window.rdreq2 THEN None ELSE window.slot2
             a == InSlot(x1)
             b == InSlot(x2)
             W == fifo_i!Words
             h == a \o b
             p == h \o W
  <1>0. window \in Windows /\ Sound(window) BY DEF PInv, WindowSound
  <1>1. /\ window.out1 => x1 = window.slot1 /\ x1 # None
        /\ window.out2 => x1 # None /\ x2 = window.slot2 /\ x2 # None
    BY <1>0 DEF Sound, Valid1, Valid2
  <1>2. x1 \in Instr \cup {None} /\ x2 \in Instr \cup {None} BY <1>0 DEF Windows
  <1>3. Program = p BY HeldSlots, Zenon DEF Program
  <1>4. W \in Seq(Instr) BY Zenon DEF PInv, WInv, StreamIsWords, IsCutOf
  <1> HIDE DEF x1, x2, W
  <1>5. /\ a \in Seq(Instr) /\ Len(a) = (IF x1 = None THEN 0 ELSE 1)
        /\ x1 # None => a[1] = x1
        /\ b \in Seq(Instr) /\ Len(b) = (IF x2 = None THEN 0 ELSE 1)
        /\ x2 # None => b[1] = x2
    BY <1>2, SlotSeq, Zenon
  <1> HIDE DEF a, b
  <1>6. h \in Seq(Instr) /\ Len(h) = Len(a) + Len(b)
        /\ \A i \in 1 .. Len(a) + Len(b) : h[i] = IF i <= Len(a) THEN a[i] ELSE b[i - Len(a)]
    BY <1>5, ConcatProperties, Zenon
  <1> HIDE DEF h
  <1>7. p \in Seq(Instr) /\ Len(p) = Len(h) + Len(W)
        /\ \A i \in 1 .. Len(h) + Len(W) : p[i] = IF i <= Len(h) THEN h[i] ELSE W[i - Len(h)]
    <2>1. h \in Seq(Instr) /\ W \in Seq(Instr) BY <1>4, <1>6
    <2> QED BY <2>1, ConcatProperties
  <1> HIDE DEF p
  <1>8. Len(W) \in Nat BY <1>4
  <1>9. x1 # None => Len(p) >= 1 /\ p[1] = x1 BY <1>5, <1>6, <1>7, <1>8
  <1>10. x1 # None /\ x2 # None => Len(p) >= 2 /\ p[2] = x2 BY <1>5, <1>6, <1>7, <1>8
  <1> QED BY <1>1, <1>3, <1>9, <1>10, Zenon

\* Nothing is lost, doubled or reordered between the host's register and the
\* window, while pieces, words and slots move: the instructions inside change
\* only by the first or the second one leaving and a new one going last.
THEOREM ProgramOrderIsKept == Spec => KeepsProgramOrder
  <1> DEFINE A == /\ window.out1 => Len(Program) >= 1 /\ window.slot1 = Program[1]
                  /\ window.out2 => Len(Program) >= 2 /\ window.slot2 = Program[2]
                  /\ Program' = ReadOne(Program, window'.rdreq1, window'.rdreq2)
                                  \o (IF bus_write_r THEN <<bus_writedata_r>> ELSE <<>>)
  <1>1. PInv /\ [Next]_vars => [A]_vars
    <2> SUFFICES ASSUME PInv, Next PROVE A OBVIOUS
    <2>1. PICK wr \in BOOLEAN, r1 \in BOOLEAN, r2 \in BOOLEAN, d \in Instr :
            Clock(wr, d, r1, r2)
      BY DEF Next
    <2>2. Program' = ReadOne(Program, window'.rdreq1, window'.rdreq2)
                       \o (IF bus_write_r THEN <<bus_writedata_r>> ELSE <<>>)
      BY <2>1, ProgramStep, Zenon
    <2> QED BY <2>2, OffersAreOldest, Zenon
  <1> QED BY <1>1, InitPInv, NextPInv, PTL DEF Spec, KeepsProgramOrder
=============================================================================
