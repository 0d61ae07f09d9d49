---------------------------- MODULE ScFifo_proofs ----------------------------
(***************************************************************************)
(* For every depth and every set of values: the flags of scfifo agree with *)
(* its pointers, q_out shows the oldest value, and the fifo implements the *)
(* abstract queue of Words-1 values.                                       *)
(***************************************************************************)
EXTENDS ScFifo, TLAPS

\* The registered write pointer trails the write pointer by at most one word,
\* and never falls behind the read pointer.
PointersInStep ==
  /\ waddr_r = waddr_rr \/ waddr_r = Add(waddr_rr, 1)
  /\ ravail <= wused

\* While the registered write pointer is ahead of the read pointer, the RAM
\* output was taken after the word was written.
OutputSettled == waddr_rr # raddr_r => q = ram[raddr_r]

Flags ==
  /\ full_r <=> (Add(waddr_r, 1) = raddr_r)
  /\ empty_r <=> (waddr_rr = raddr_r)

IInv == TypeOK /\ PointersInStep /\ Flags /\ OutputSettled

\* Pointer arithmetic stays in the address range and distances are what the
\* flags compare.
LEMMA Arithmetic ==
  ASSUME NEW a \in Addr, NEW b \in Addr
  PROVE  /\ Add(a, 1) \in Addr
         /\ Sub(a, b) \in Addr
         /\ (Sub(a, b) = 0) <=> (a = b)
         /\ (Sub(a, b) = Words - 1) <=> (Add(a, 1) = b)
         /\ Add(a, 2) = Add(Add(a, 1), 1)
BY WordsAssumption DEF Add, Sub, Addr

\* Reset establishes the inductive invariant.
LEMMA InitIInv == Init => IInv
<1> SUFFICES ASSUME Init PROVE IInv
  OBVIOUS
<1>1. waddr_r = 0 /\ waddr_rr = 0 /\ raddr_r = 0 /\ 0 \in Addr
  BY WordsAssumption DEF Init, Addr
<1>2. Add(0, 1) # 0 /\ Sub(0, 0) = 0
  BY WordsAssumption DEF Add, Sub
<1>3. TypeOK
  BY <1>1 DEF Init, TypeOK
<1>4. PointersInStep /\ OutputSettled
  BY <1>1, <1>2 DEF PointersInStep, OutputSettled, ravail, wused
<1>5. Flags
  BY <1>1, <1>2 DEF Init, Flags
<1> QED BY <1>3, <1>4, <1>5 DEF IInv

\* Every clock edge preserves it.
LEMMA NextIInv == IInv /\ [Next]_vars => IInv'
<1> SUFFICES ASSUME IInv, [Next]_vars PROVE IInv'
  OBVIOUS
<1>1. CASE UNCHANGED vars
  BY <1>1 DEF vars, IInv, TypeOK, PointersInStep, Flags, OutputSettled,
              ravail, wused
<1>2. ASSUME NEW p \in Inputs, Clock(p)
      PROVE  IInv'
  <2> DEFINE write == p.write /\ ~p.flush
             rd == raddr(p.read, p.flush)
  <2>1. /\ p.read => ~empty_r
        /\ p.write => ~full_r
        /\ DPRAM(waddr_r, write, p.data, rd)
        /\ waddr_r' = IF write THEN Add(waddr_r, 1) ELSE waddr_r
        /\ full_r' = Full(write, rd)
        /\ waddr_rr' = waddr_r
        /\ q_r' = Output(p.read)
        /\ raddr_r' = rd
        /\ empty_r' = Empty(write, rd)
    BY <1>2 DEF Clock
  <2>2. rd \in Addr
    BY Arithmetic DEF IInv, TypeOK, raddr
  <2>3. TypeOK'
    BY <1>2, <2>1, <2>2, Arithmetic
       DEF IInv, TypeOK, DPRAM, Full, Empty, Output, Clock, Inputs
  <2>4. Flags'
    BY <2>1, <2>2, Arithmetic DEF IInv, TypeOK, Flags, Full, Empty
  <2>5. PointersInStep'
    BY <2>1, <2>2, WordsAssumption
       DEF IInv, TypeOK, PointersInStep, Flags, ravail, wused, Add, Sub, Addr,
           raddr
  <2>6. OutputSettled'
    BY <2>1, <2>2 DEF IInv, TypeOK, OutputSettled, DPRAM
  <2> QED BY <2>3, <2>4, <2>5, <2>6 DEF IInv
<1> QED BY <1>1, <1>2 DEF Next

\* The registers of scfifo always have values of their type.
THEOREM TypeCorrect == Spec => []TypeOK
<1>1. IInv => TypeOK
  BY DEF IInv
<1> QED BY <1>1, InitIInv, NextIInv, PTL DEF Spec

\* full_out is exact, and empty_out is exact for the count of readable words.
THEOREM FlagsCorrect == Spec => []FlagsAgreeWithCounts
<1>1. IInv => FlagsAgreeWithCounts
  BY Arithmetic DEF IInv, TypeOK, PointersInStep, Flags, ravail, wused,
                    FlagsAgreeWithCounts
<1> QED BY <1>1, InitIInv, NextIInv, PTL DEF Spec

\* The output is settled and the read pointer is inside the window.
LEMMA InvShowsHead == IInv => NotEmptyShowsHead
<1> SUFFICES ASSUME IInv, ~empty_r
             PROVE  wused > 0 /\ q = Contents[1]
  BY DEF NotEmptyShowsHead
<1>1. ravail # 0 /\ ravail \in Addr /\ wused \in Addr /\ ravail <= wused
  BY Arithmetic DEF IInv, TypeOK, PointersInStep, Flags, ravail, wused
<1>2. wused > 0
  BY <1>1, WordsAssumption DEF Addr
<1>3. 1 \in 1..wused /\ Add(raddr_r, 1 - 1) = raddr_r
  BY <1>1, <1>2, WordsAssumption DEF IInv, TypeOK, Addr, Add
<1> QED BY <1>2, <1>3 DEF IInv, Flags, OutputSettled, Contents

\* A user that sees not empty_out sees the oldest value at q_out.
THEOREM HeadShown == Spec => []NotEmptyShowsHead
BY InvShowsHead, InitIInv, NextIInv, PTL DEF Spec

-----------------------------------------------------------------------------
(* The refinement.  The address of the i-th value inside is Add(raddr_r,    *)
(* i-1); the lemmas say how these addresses move with the pointers.         *)

\* Addresses of values inside, the write pointer and the shifted window.
LEMMA Window ==
  ASSUME NEW r \in Addr, NEW w \in Addr
  PROVE  /\ Add(r, Sub(w, r)) = w
         /\ \A i \in 1..Sub(w, r) : Add(r, i - 1) \in Addr \ {w}
         /\ \A i \in 1..(Words - 1) : Add(Add(r, 1), i - 1) = Add(r, i)
         /\ Sub(w, r) # 0 => Sub(w, Add(r, 1)) = Sub(w, r) - 1
         /\ Add(w, 1) # r => Sub(Add(w, 1), r) = Sub(w, r) + 1
         /\ Sub(w, r) # 0 /\ Add(w, 1) # r => Sub(Add(w, 1), Add(r, 1)) = Sub(w, r)
BY WordsAssumption DEF Add, Sub, Addr

\* The words between two pointers are a sequence of values.
LEMMA ContentsType ==
  ASSUME NEW m \in [Addr -> Data], NEW r \in Addr, NEW w \in Addr
  PROVE  LET c == [i \in 1..Sub(w, r) |-> m[Add(r, i - 1)]]
         IN  /\ c \in Seq(Data)
             /\ Len(c) = Sub(w, r)
             /\ \A i \in 1..Sub(w, r) : c[i] = m[Add(r, i - 1)]
             /\ Sub(w, r) \in Nat /\ Sub(w, r) \in Addr
<1>1. Sub(w, r) \in Addr /\ Sub(w, r) \in Nat
  BY Arithmetic DEF Addr
<1>2. \A i \in 1..Sub(w, r) : m[Add(r, i - 1)] \in Data
  BY Window
<1> QED BY <1>1, <1>2

\* Every clock edge is a step of the abstract queue or leaves it alone.
LEMMA NextRefines ==
  ASSUME IInv, IInv', [Next]_vars
  PROVE  [Abstract!Next]_<<AsFifo, inputs>>
<1>1. CASE UNCHANGED vars
  BY <1>1 DEF vars, AsFifo, Contents, ravail, wused
<1>2. ASSUME NEW p \in Inputs, Clock(p)
      PROVE  [Abstract!Next]_<<AsFifo, inputs>>
  <2> DEFINE write == p.write /\ ~p.flush
             rd == raddr(p.read, p.flush)
  <2>1. /\ p.read => ~empty_r
        /\ p.write => ~full_r
        /\ ram' = IF write THEN [ram EXCEPT ![waddr_r] = p.data] ELSE ram
        /\ waddr_r' = IF write THEN Add(waddr_r, 1) ELSE waddr_r
        /\ raddr_r' = rd
    BY <1>2 DEF Clock, DPRAM
  <2>2. /\ TypeOK /\ TypeOK'
        /\ wused \in Nat /\ wused \in Addr
        /\ wused' \in Nat /\ wused' \in Addr
        /\ Contents \in Seq(Data) /\ Len(Contents) = wused
        /\ \A i \in 1..wused : Contents[i] = ram[Add(raddr_r, i - 1)]
        /\ Contents' \in Seq(Data) /\ Len(Contents') = wused'
        /\ \A i \in 1..wused' : Contents'[i] = ram'[Add(raddr_r', i - 1)]
    BY ContentsType DEF IInv, TypeOK, Contents, wused
  <2>3. /\ p.read => wused # 0
        /\ p.write => Add(waddr_r, 1) # raddr_r /\ wused < Words - 1
    <3>1. p.read => wused # 0
      <4>1. p.read => ravail # 0
        BY <2>1, Arithmetic DEF IInv, TypeOK, Flags, ravail
      <4>2. ravail \in Nat /\ ravail <= wused
        BY Arithmetic DEF IInv, TypeOK, PointersInStep, ravail, Addr
      <4> QED BY <4>1, <4>2, <2>2
    <3>2. p.write => Add(waddr_r, 1) # raddr_r
      BY <2>1 DEF IInv, Flags
    <3>3. p.write => wused # Words - 1
      BY <3>2, Arithmetic DEF IInv, TypeOK, wused
    <3> QED BY <3>1, <3>2, <3>3, <2>2, WordsAssumption DEF Addr
  <2>4. \A i \in 1..wused : ram'[Add(raddr_r, i - 1)] = ram[Add(raddr_r, i - 1)]
    BY <2>1, Window DEF IInv, TypeOK, wused
  <2>5. write => ram'[Add(raddr_r, wused)] = p.data
    BY <2>1, Window DEF IInv, TypeOK, wused
  <2>6. ASSUME p.flush
      PROVE  Contents' = Abstract!After(Contents, p)
    <3>1. raddr_r' = waddr_r /\ waddr_r' = waddr_r
      BY <2>1, <2>6 DEF raddr
    <3>2. wused' = 0
      BY <3>1, Arithmetic DEF IInv, TypeOK, wused
    <3>3. Contents' = <<>>
      BY <2>2, <3>2
    <3> QED BY <3>3, <2>6 DEF Abstract!After
  <2>7. ASSUME ~p.flush /\ p.read
      PROVE  Contents' = Abstract!After(Contents, p)
    <3>1. rd = Add(raddr_r, 1) /\ wused # 0
      BY <2>7, <2>3 DEF raddr
    <3>2. wused' = IF write THEN wused ELSE wused - 1
      BY <2>1, <2>3, <3>1, <2>7, Window DEF IInv, TypeOK, wused
    <3>3. \A i \in 1..wused' : Contents'[i] = ram'[Add(raddr_r, i)]
      <4>1. wused' <= Words - 1
        BY <2>2, WordsAssumption DEF Addr
      <4>2. \A i \in 1..wused' : Add(raddr_r', i - 1) = Add(raddr_r, i)
        BY <2>1, <2>2, <3>1, <4>1, Window, WordsAssumption DEF TypeOK
      <4> QED BY <2>2, <4>2
    <3>4. \A i \in 1..(wused - 1) : Contents'[i] = Contents[i + 1]
      <4> SUFFICES ASSUME NEW i \in 1..(wused - 1)
                   PROVE  Contents'[i] = Contents[i + 1]
        OBVIOUS
      <4>1. i \in 1..wused' /\ i + 1 \in 1..wused /\ (i + 1) - 1 = i
        BY <2>2, <3>2
      <4> QED BY <2>2, <2>4, <3>3, <4>1
    <3>5. CASE ~write
      <4>1. Contents' = Tail(Contents)
        BY <2>2, <3>1, <3>2, <3>4, <3>5
      <4> QED BY <4>1, <2>7, <3>5 DEF Abstract!After
    <3>6. CASE write
      <4>1. Contents'[wused] = p.data
        BY <2>2, <2>5, <3>1, <3>2, <3>3, <3>6
      <4>2. Contents' = Append(Tail(Contents), p.data)
        BY <2>2, <3>1, <3>2, <3>4, <3>6, <4>1
      <4> QED BY <4>2, <2>7, <3>6 DEF Abstract!After
    <3> QED BY <3>5, <3>6
  <2>8. ASSUME ~p.flush /\ ~p.read
      PROVE  Contents' = Abstract!After(Contents, p)
    <3>1. rd = raddr_r
      BY <2>8 DEF raddr
    <3>2. wused' = IF write THEN wused + 1 ELSE wused
      BY <2>1, <2>3, <3>1, <2>8, Window DEF IInv, TypeOK, wused
    <3>3. \A i \in 1..wused' : Contents'[i] = ram'[Add(raddr_r, i - 1)]
      BY <2>1, <2>2, <3>1
    <3>4. \A i \in 1..wused : Contents'[i] = Contents[i]
      BY <2>2, <2>4, <3>2, <3>3
    <3>5. CASE ~write
      <4>1. Contents' = Contents
        BY <2>2, <3>2, <3>4, <3>5
      <4> QED BY <4>1, <2>8, <3>5 DEF Abstract!After
    <3>6. CASE write
      <4>1. Contents'[wused + 1] = p.data
        BY <2>2, <2>5, <3>2, <3>3, <3>6
      <4>2. Contents' = Append(Contents, p.data)
        BY <2>2, <3>2, <3>4, <3>6, <4>1
      <4> QED BY <4>2, <2>8, <3>6 DEF Abstract!After
    <3> QED BY <3>5, <3>6
  <2>9. Contents' = Abstract!After(Contents, p)
    BY <2>6, <2>7, <2>8
  <2>10. /\ p.read => Contents # <<>>
         /\ p.write => Len(Contents) < Words - 1
    BY <2>2, <2>3
  <2>11. inputs' = p /\ p \in Abstract!Inputs
    BY <1>2 DEF Clock, Inputs, Abstract!Inputs
  <2>12. ravail' = Abstract!Shown(Contents, p)
    <3>1. ravail' = Sub(waddr_r, rd)
      BY <1>2 DEF Clock, ravail
    <3>2. wused # 0 => Sub(waddr_r, Add(raddr_r, 1)) = wused - 1
      BY <2>2, Window DEF TypeOK, wused
    <3>3. Sub(waddr_r, waddr_r) = 0
      BY <2>2, Arithmetic DEF TypeOK
    <3> QED BY <2>2, <2>3, <3>1, <3>2, <3>3 DEF raddr, Abstract!Shown, wused
  <2>13. p.read => ravail > 0
    <3>1. ravail \in Nat
      BY Arithmetic DEF IInv, TypeOK, ravail, Addr
    <3>2. p.read => ravail # 0
      BY <2>1, Arithmetic DEF IInv, TypeOK, Flags, ravail
    <3> QED BY <3>1, <3>2
  <2>14. AsFifo' = Abstract!Clocked(AsFifo, p)
    BY <2>9, <2>12 DEF AsFifo, Abstract!Clocked
  <2> QED BY <2>10, <2>11, <2>13, <2>14 DEF AsFifo, Abstract!Next, Abstract!Edge
<1> QED BY <1>1, <1>2 DEF Next

\* scfifo implements the abstract queue of Words-1 values.
THEOREM FifoImplemented == Spec => ImplementsFifo
<1>1. Init => Abstract!Init
  <2> SUFFICES ASSUME Init PROVE Contents = <<>> /\ ravail = 0
    BY DEF Init, Inputs, AsFifo, Abstract!Init, Abstract!Inputs, Abstract!NoWords
  <2>1. IInv /\ waddr_r = raddr_r /\ waddr_rr = raddr_r
    BY InitIInv DEF Init
  <2>2. wused = 0 /\ ravail = 0
    BY <2>1, Arithmetic DEF IInv, TypeOK, wused, ravail
  <2> QED BY <2>1, <2>2, ContentsType DEF IInv, TypeOK, Contents, wused
<1>2. IInv /\ IInv' /\ [Next]_vars => [Abstract!Next]_<<AsFifo, inputs>>
  BY NextRefines
<1> QED BY <1>1, <1>2, InitIInv, NextIInv, PTL
        DEF Spec, ImplementsFifo, Abstract!Spec

\* The registered output (fifo.vhd 151-153) takes the oldest value at every read, and
\* only then: what q holds when a read is allowed is the head, because empty_r has
\* hidden the clock in which the RAM's output was not settled.
THEOREM OutputIsPopped == Spec => RegisteredOutputIsPopped
<1>1. IInv => NotEmptyShowsHead
  BY InvShowsHead
<1>2. ASSUME IInv, NotEmptyShowsHead, [Next]_vars
      PROVE  [IF inputs'.read THEN wused > 0 /\ q_r' = Contents[1] ELSE q_r' = q_r]_vars
  <2>1. CASE UNCHANGED vars
    BY <2>1
  <2>2. ASSUME NEW p \in Inputs, Clock(p)
        PROVE  IF inputs'.read THEN wused > 0 /\ q_r' = Contents[1] ELSE q_r' = q_r
    <3>1. inputs' = p /\ p.read \in BOOLEAN
      BY <2>2 DEF Clock, Inputs
    <3>2. CASE p.read
      <4>1. q_r' = q /\ ~empty_r
        BY <2>2, <3>2 DEF Clock, Output
      <4> QED BY <1>2, <3>1, <3>2, <4>1 DEF NotEmptyShowsHead
    <3>3. CASE ~p.read
      <4>1. q_r' = q_r
        BY <2>2, <3>3 DEF Clock, Output
      <4> QED BY <3>1, <3>3, <4>1
    <3> QED BY <3>1, <3>2, <3>3
  <2> QED BY <1>2, <2>1, <2>2 DEF Next
<1> QED BY <1>1, <1>2, InitIInv, NextIInv, PTL DEF Spec, RegisteredOutputIsPopped
=============================================================================
