-------------------------- MODULE NnBuffers_proofs --------------------------
(***************************************************************************)
(* For every number of buffers, layers and sizes, buffers that share       *)
(* memory are never in use at the same time and fit into it, every buffer  *)
(* that is to be stored gets memory, and each memory is freed once.        *)
(***************************************************************************)
EXTENDS NnBuffers, Integers, FiniteSetTheorems, TLAPS

\* The buffer whose memory b is given or will be given.
Home(b, f) == IF reused[b][f] # None THEN reused[b][f] ELSE owner[b][f]

InputsSane ==
  \A b \in Buffers : /\ firstUsed[b] <= lastUsed0[b]
                     /\ size0[b] <= sz[b]

\* A home covers what lives in it: its time of use ends after, its size is
\* enough; a buffer without a home is untouched.
HomesCover ==
  \A f \in Formats, b \in Buffers :
    /\ Home(b, f) = None => lastUsed[b][f] = lastUsed0[b]
    /\ Home(b, f) # None =>
         /\ size0[b] <= sz[Home(b, f)]
         /\ lastUsed0[b] <= lastUsed[Home(b, f)][f]

\* A home is a buffer that lives in its own memory.
HomesAtHome ==
  \A f \in Formats, b \in Buffers :
    Home(b, f) # None => Home(Home(b, f), f) = Home(b, f)

\* Buffers with one home are used one after the other, in order.
HomesDisjoint ==
  \A f \in Formats : \A a, b \in Buffers :
    a < b /\ Home(a, f) # None /\ Home(a, f) = Home(b, f)
      => lastUsed0[a] < firstUsed[b]

\* The first loop gives homes up to i, the second memory; the interleaved
\* format comes after the flat one.
LoopsInOrder ==
  /\ pass = "reuse" => \A b \in Buffers :
       owner[b][fmt] = None /\ (reused[b][fmt] # None => b < i)
  /\ fmt = "flat" => \A b \in Buffers :
       owner[b]["interleaved"] = None /\ reused[b]["interleaved"] = None

\* Memory is that of the home, and is large enough.
OwnersAreHomes ==
  \A f \in Formats, b \in Buffers : owner[b][f] # None =>
    owner[b][f] = Home(b, f) /\ size0[b] <= capacity[owner[b][f]][f]

IInv == /\ TypeOK /\ InputsSane /\ HomesCover /\ HomesAtHome
        /\ HomesDisjoint /\ LoopsInOrder /\ OwnersAreHomes

LEMMA InitIInv == Init => IInv
  <1> SUFFICES ASSUME Init PROVE IInv OBVIOUS
  <1> USE SizesAssumption, StorageAssumption
  <1>1. TypeOK BY DEF Init, TypeOK, Buffers, Times, Formats, Kinds, None
  <1>2. InputsSane BY DEF Init, InputsSane, Buffers, Times
  <1>3. \A b \in Buffers, f \in Formats : Home(b, f) = None
    BY DEF Init, Home, Buffers, Formats
  <1>4. HomesCover BY <1>3 DEF Init, HomesCover
  <1>5. HomesDisjoint BY <1>3 DEF HomesDisjoint
  <1>6. LoopsInOrder BY DEF Init, LoopsInOrder, Formats
  <1>7. OwnersAreHomes BY DEF Init, OwnersAreHomes
  <1>8. HomesAtHome BY <1>3 DEF HomesAtHome
  <1> QED BY <1>1, <1>2, <1>4, <1>5, <1>6, <1>7, <1>8 DEF IInv

\* The loop's control: what Advance does to fmt, pass and i.
LEMMA ReuseAdvances ==
  ASSUME TypeOK, pass = "reuse", Advance(pass' = "allocate" /\ UNCHANGED fmt)
  PROVE  /\ fmt' = fmt /\ i' \in Buffers
         /\ \/ pass' = "reuse" /\ i' = i + 1
            \/ pass' = "allocate" /\ i = N /\ i' = 1
  BY SizesAssumption DEF TypeOK, Advance, Buffers

LEMMA AllocateAdvances ==
  ASSUME TypeOK, pass = "allocate", Allocate
  PROVE  /\ fmt' \in Formats /\ pass' \in {"reuse", "allocate", "done"}
         /\ i' \in Buffers
         /\ fmt' = "flat" => fmt = "flat"
         /\ pass' = "reuse" => fmt = "flat" /\ fmt' = "interleaved"
  <1>1. /\ fmt \in {"flat", "interleaved"} /\ i \in 1 .. N
        /\ IF i < N THEN i' = i + 1 /\ fmt' = fmt /\ pass' = pass
             ELSE i' = 1 /\ IF fmt = "flat" THEN fmt' = "interleaved" /\ pass' = "reuse"
                                            ELSE pass' = "done" /\ fmt' = fmt
    BY DEF TypeOK, Advance, Allocate, Buffers, Formats
  <1>2. CASE i < N BY <1>1, <1>2, SizesAssumption DEF Buffers, Formats
  <1>3. CASE ~(i < N) BY <1>1, <1>3, SizesAssumption DEF Buffers, Formats
  <1> QED BY <1>2, <1>3

\* A buffer that the first loop reaches has no home and nothing is changed.
LEMMA Homeless ==
  ASSUME IInv, pass = "reuse"
  PROVE  /\ reused[i][fmt] = None /\ Home(i, fmt) = None
         /\ lastUsed[i][fmt] = lastUsed0[i]
         /\ \A b \in Buffers : Home(b, fmt) = reused[b][fmt]
  <1>1. i \in Buffers /\ fmt \in Formats /\ i \in Int
    BY SizesAssumption DEF IInv, TypeOK, Buffers
  <1>2. ~(i < i) BY <1>1
  <1>3. reused[i][fmt] = None BY <1>1, <1>2 DEF IInv, LoopsInOrder
  <1>4. \A b \in Buffers : Home(b, fmt) = reused[b][fmt]
    BY DEF IInv, LoopsInOrder, Home
  <1> QED BY <1>1, <1>3, <1>4 DEF IInv, HomesCover

LEMMA ShareStep ==
  ASSUME IInv, NEW j \in Buffers, Share(j)
  PROVE  IInv'
  <1> USE DEF Share
  <1>0. /\ i \in Buffers /\ fmt \in Formats /\ i \in Int /\ j \in Int
        /\ None \notin Buffers /\ j < i
    BY SizesAssumption DEF IInv, TypeOK, Buffers, None, Candidate
  <1>a. /\ fmt' = fmt /\ i' \in Buffers
        /\ \/ pass' = "reuse" /\ i' = i + 1
           \/ pass' = "allocate"
    BY ReuseAdvances DEF IInv
  <1>b. /\ reused[i][fmt] = None /\ Home(i, fmt) = None
        /\ lastUsed[i][fmt] = lastUsed0[i]
        /\ \A b \in Buffers : Home(b, fmt) = reused[b][fmt]
    BY Homeless
  <1>c. /\ kind[j][fmt] = "own" /\ reused[j][fmt] = j
        /\ firstUsed[i] > lastUsed[j][fmt]
    BY DEF Candidate, FreeFor
  <1>d. \A b \in Buffers, f \in Formats :
          reused'[b][f] = IF b = i /\ f = fmt THEN j ELSE reused[b][f]
    BY <1>0 DEF IInv, TypeOK
  <1>e. \A b \in Buffers, f \in Formats :
          lastUsed'[b][f] = IF b = j /\ f = fmt THEN lastUsed0[i] ELSE lastUsed[b][f]
    BY <1>0, <1>b DEF IInv, TypeOK
  <1>f. \A b \in Buffers : sz'[b] >= sz[b]
    BY <1>0 DEF IInv, TypeOK, Grown
  <1>g. sz'[j] >= sz[i]
    BY <1>0 DEF IInv, TypeOK, Grown
  <1>h. \A b \in Buffers, f \in Formats :
          Home(b, f)' = IF b = i /\ f = fmt THEN j ELSE Home(b, f)
    BY <1>0, <1>d DEF Home
  <1>i. \A b \in Buffers, f \in Formats : Home(b, f) \in Buffers \cup {None}
    BY DEF IInv, TypeOK, Home
  <1>j. \A b \in Buffers : lastUsed[b] \in [Formats -> Times] /\ sz[b] \in Nat /\ sz'[b] \in Nat
                            /\ size0[b] \in Nat /\ lastUsed0[b] \in Nat /\ firstUsed[b] \in Nat
    BY <1>0, SizesAssumption DEF IInv, TypeOK, Times, Grown
  <1>k. \A b \in Buffers, f \in Formats : lastUsed[b][f] \in Nat
    BY <1>j, SizesAssumption DEF Times
  <1>1. TypeOK'
    <2>1. sz' \in [Buffers -> 1 .. MaxSize] BY <1>0 DEF IInv, TypeOK, Grown
    <2>2. lastUsed' \in [Buffers -> [Formats -> Times]] BY <1>0 DEF IInv, TypeOK
    <2>3. reused' \in [Buffers -> [Formats -> Buffers \cup {None}]]
      BY <1>0 DEF IInv, TypeOK
    <2> QED BY <1>0, <1>a, <2>1, <2>2, <2>3 DEF IInv, TypeOK, inputs
  <1>2. InputsSane' BY <1>f, <1>j DEF IInv, InputsSane, inputs
  <1>3. HomesCover'
    <2> SUFFICES ASSUME NEW f \in Formats, NEW b \in Buffers
                 PROVE  /\ Home(b, f)' = None => lastUsed'[b][f] = lastUsed0[b]
                        /\ Home(b, f)' # None =>
                             /\ size0[b] <= sz'[Home(b, f)']
                             /\ lastUsed0[b] <= lastUsed'[Home(b, f)'][f]
      BY DEF HomesCover, inputs
    <2>1. CASE b = i /\ f = fmt
      <3>1. Home(b, f)' = j /\ j # None BY <1>h, <2>1, <1>0
      <3>2. size0[i] <= sz[i] BY <1>0 DEF IInv, InputsSane
      <3> QED BY <3>1, <3>2, <1>0, <1>e, <1>g, <1>j, <2>1
    <2>2. CASE ~(b = i /\ f = fmt)
      <3>1. Home(b, f)' = Home(b, f) BY <1>h, <2>2
      <3>2. /\ Home(b, f) = None => lastUsed[b][f] = lastUsed0[b]
            /\ Home(b, f) # None =>
                 /\ size0[b] <= sz[Home(b, f)]
                 /\ lastUsed0[b] <= lastUsed[Home(b, f)][f]
        BY DEF IInv, HomesCover
      <3>3. Home(j, fmt) = j /\ j # None BY <1>b, <1>c, <1>0
      <3>4. ASSUME Home(b, f) = None PROVE lastUsed'[b][f] = lastUsed0[b]
        BY <3>2, <3>3, <3>4, <1>e
      <3>5. ASSUME Home(b, f) # None
            PROVE  /\ size0[b] <= sz'[Home(b, f)]
                   /\ lastUsed0[b] <= lastUsed'[Home(b, f)][f]
        <4> DEFINE h == Home(b, f)
        <4>1. h \in Buffers BY <1>i, <3>5
        <4>2. size0[b] <= sz'[h] BY <4>1, <3>2, <3>5, <1>f, <1>j
        <4>3. firstUsed[i] <= lastUsed0[i] BY <1>0 DEF IInv, InputsSane
        <4>4. CASE h = j /\ f = fmt
          <5>1. lastUsed'[h][f] = lastUsed0[i] BY <4>4, <1>e, <1>0
          <5>2. lastUsed0[b] <= lastUsed[j][fmt] BY <4>4, <3>2, <3>5
          <5>3. lastUsed0[b] <= lastUsed0[i] BY <5>2, <4>3, <1>c, <1>j, <1>k, <1>0
          <5> QED BY <5>1, <5>3, <4>2
        <4>5. CASE ~(h = j /\ f = fmt)
          BY <4>1, <4>2, <4>5, <3>2, <3>5, <1>e
        <4> QED BY <4>4, <4>5
      <3> QED BY <3>1, <3>4, <3>5
    <2> QED BY <2>1, <2>2
  <1>7. HomesAtHome'
    <2> SUFFICES ASSUME NEW f \in Formats, NEW b \in Buffers, Home(b, f)' # None
                 PROVE  Home(Home(b, f), f)' = Home(b, f)'
      BY DEF HomesAtHome
    <2>1. Home(j, fmt) = j /\ j # i BY <1>0, <1>b, <1>c
    <2>2. CASE b = i /\ f = fmt
      BY <2>1, <2>2, <1>0, <1>h
    <2>3. CASE ~(b = i /\ f = fmt)
      <3> DEFINE h == Home(b, f)
      <3>1. Home(b, f)' = h /\ h \in Buffers BY <2>3, <1>h, <1>i
      <3>2. Home(h, f) = h BY <3>1, <1>0 DEF IInv, HomesAtHome
      <3>3. ~(h = i /\ f = fmt) BY <3>1, <3>2, <1>b, <1>0
      <3>4. Home(h, f)' = Home(h, f) BY <3>1, <3>3, <1>h
      <3> QED BY <3>1, <3>2, <3>4 DEF Home
    <2> QED BY <2>2, <2>3
  <1>4. HomesDisjoint'
    <2> SUFFICES ASSUME NEW f \in Formats, NEW a \in Buffers, NEW b \in Buffers,
                        a < b, Home(a, f)' # None, Home(a, f)' = Home(b, f)'
                 PROVE  lastUsed0[a] < firstUsed[b]
      BY DEF HomesDisjoint, inputs
    <2>0. a \in Int /\ b \in Int BY SizesAssumption DEF Buffers
    <2>1. CASE f = fmt /\ b = i
      <3>1. Home(b, f)' = j /\ a # i BY <2>1, <1>h, <2>0
      <3>2. Home(a, f) = j BY <3>1, <1>h
      <3>3. lastUsed0[a] <= lastUsed[j][fmt]
        BY <3>2, <2>1, <1>0 DEF IInv, HomesCover
      <3> QED BY <3>3, <2>1, <1>c, <1>j, <1>k, <1>0
    <2>2. CASE f = fmt /\ a = i
      <3>1. Home(b, f)' = Home(b, f) BY <2>2, <2>0, <1>h
      <3>2. reused[b][fmt] # None BY <2>2, <3>1, <1>b
      <3>3. b < i BY <3>2 DEF IInv, LoopsInOrder
      <3> QED BY <3>3, <2>0, <2>2
    <2>3. CASE ~(f = fmt /\ (a = i \/ b = i))
      <3>1. Home(a, f)' = Home(a, f) /\ Home(b, f)' = Home(b, f) BY <2>3, <1>h
      <3> QED BY <3>1 DEF IInv, HomesDisjoint
    <2> QED BY <2>1, <2>2, <2>3
  <1>5. LoopsInOrder'
    <2>1. \A b \in Buffers : reused'[b][fmt] # None => b <= i
      <3> SUFFICES ASSUME NEW b \in Buffers, reused'[b][fmt] # None, b # i PROVE b <= i
        BY <1>0
      <3>1. reused[b][fmt] # None BY <1>d, <1>0
      <3>2. b < i BY <3>1 DEF IInv, LoopsInOrder
      <3> QED BY <3>2, <1>0, SizesAssumption DEF Buffers
    <2>2. ASSUME pass' = "reuse"
          PROVE \A b \in Buffers : owner[b][fmt] = None /\ (reused'[b][fmt] # None => b < i')
      <3>1. i' = i + 1 BY <1>a, <2>2
      <3>2. \A b \in Buffers : owner[b][fmt] = None BY DEF IInv, LoopsInOrder
      <3> QED BY <3>1, <3>2, <2>1, <1>0, SizesAssumption DEF Buffers
    <2>3. ASSUME fmt = "flat"
          PROVE \A b \in Buffers :
                  owner[b]["interleaved"] = None /\ reused'[b]["interleaved"] = None
      <3>1. "interleaved" \in Formats /\ "interleaved" # fmt BY <2>3 DEF Formats
      <3> QED BY <3>1, <2>3, <1>d DEF IInv, LoopsInOrder
    <2> QED BY <2>2, <2>3, <1>a DEF LoopsInOrder
  <1>6. OwnersAreHomes'
    <2> SUFFICES ASSUME NEW f \in Formats, NEW b \in Buffers, owner[b][f] # None
                 PROVE  owner[b][f] = Home(b, f)' /\ size0[b] <= capacity[owner[b][f]][f]
      BY DEF OwnersAreHomes, inputs
    <2>1. ~(b = i /\ f = fmt) BY <1>0 DEF IInv, LoopsInOrder
    <2> QED BY <2>1, <1>h DEF IInv, OwnersAreHomes
  <1> QED BY <1>1, <1>2, <1>3, <1>4, <1>5, <1>6, <1>7 DEF IInv

LEMMA KeepStep ==
  ASSUME IInv, Keep
  PROVE  IInv'
  <1> USE DEF Keep
  <1>0. /\ i \in Buffers /\ fmt \in Formats /\ i \in Int
        /\ None \notin Buffers
    BY SizesAssumption DEF IInv, TypeOK, Buffers, None
  <1>a. /\ fmt' = fmt /\ i' \in Buffers
        /\ \/ pass' = "reuse" /\ i' = i + 1
           \/ pass' = "allocate"
    BY ReuseAdvances DEF IInv
  <1>b. /\ lastUsed[i][fmt] = lastUsed0[i]
        /\ \A b \in Buffers : Home(b, fmt) = reused[b][fmt]
    BY Homeless
  <1>d. \A b \in Buffers, f \in Formats :
          reused'[b][f] = IF b = i /\ f = fmt THEN i ELSE reused[b][f]
    BY <1>0 DEF IInv, TypeOK
  <1>h. \A b \in Buffers, f \in Formats :
          Home(b, f)' = IF b = i /\ f = fmt THEN i ELSE Home(b, f)
    BY <1>0, <1>d DEF Home
  <1>j. \A b \in Buffers : b < i \/ reused[b][fmt] = None
    BY DEF IInv, LoopsInOrder
  <1>i. \A b \in Buffers, f \in Formats : Home(b, f) \in Buffers \cup {None}
    BY DEF IInv, TypeOK, Home
  <1>k. \A b \in Buffers : reused[b][fmt] # i
    <2> SUFFICES ASSUME NEW b \in Buffers, reused[b][fmt] = i PROVE FALSE
      OBVIOUS
    <2>1. Home(b, fmt) = i BY <1>b
    <2>2. Home(i, fmt) = i BY <2>1, <1>0 DEF IInv, HomesAtHome
    <2> QED BY <2>2, <1>0, <1>b, <1>j
  <1>l. \A b \in Buffers : size0[b] \in Nat /\ lastUsed0[b] \in Nat /\ sz[b] \in Nat
    BY SizesAssumption DEF IInv, TypeOK, Times
  <1>1. TypeOK'
    <2>1. reused' \in [Buffers -> [Formats -> Buffers \cup {None}]]
      BY <1>0 DEF IInv, TypeOK
    <2> QED BY <1>0, <1>a, <2>1 DEF IInv, TypeOK, inputs
  <1>2. InputsSane' BY DEF IInv, InputsSane, inputs
  <1>3. HomesCover'
    <2> SUFFICES ASSUME NEW f \in Formats, NEW b \in Buffers
                 PROVE  /\ Home(b, f)' = None => lastUsed[b][f] = lastUsed0[b]
                        /\ Home(b, f)' # None =>
                             /\ size0[b] <= sz[Home(b, f)']
                             /\ lastUsed0[b] <= lastUsed[Home(b, f)'][f]
      BY DEF HomesCover, inputs
    <2>1. CASE b = i /\ f = fmt
      <3>1. Home(b, f)' = i /\ i # None BY <1>h, <2>1, <1>0
      <3>2. size0[i] <= sz[i] BY <1>0 DEF IInv, InputsSane
      <3> QED BY <3>1, <3>2, <1>0, <1>b, <1>l, <2>1
    <2>2. CASE ~(b = i /\ f = fmt) BY <1>h, <2>2 DEF IInv, HomesCover
    <2> QED BY <2>1, <2>2
  <1>4. HomesAtHome'
    <2> SUFFICES ASSUME NEW f \in Formats, NEW b \in Buffers, Home(b, f)' # None
                 PROVE  Home(Home(b, f), f)' = Home(b, f)'
      BY DEF HomesAtHome
    <2>2. CASE b = i /\ f = fmt BY <2>2, <1>0, <1>h
    <2>3. CASE ~(b = i /\ f = fmt)
      <3> DEFINE h == Home(b, f)
      <3>1. Home(b, f)' = h /\ h \in Buffers BY <2>3, <1>h, <1>i
      <3>2. Home(h, f) = h BY <3>1, <1>0 DEF IInv, HomesAtHome
      <3>3. Home(h, f)' = h BY <3>1, <3>2, <1>h
      <3> QED BY <3>1, <3>3 DEF Home
    <2> QED BY <2>2, <2>3
  <1>5. HomesDisjoint'
    <2> SUFFICES ASSUME NEW f \in Formats, NEW a \in Buffers, NEW b \in Buffers,
                        a < b, Home(a, f)' # None, Home(a, f)' = Home(b, f)'
                 PROVE  lastUsed0[a] < firstUsed[b]
      BY DEF HomesDisjoint, inputs
    <2>0. a # b BY SizesAssumption DEF Buffers
    <2>1. ~(f = fmt /\ b = i)
      <3> SUFFICES ASSUME f = fmt, b = i PROVE FALSE OBVIOUS
      <3>1. Home(a, f) = i BY <2>0, <1>h
      <3> QED BY <3>1, <1>b, <1>k
    <2>2. ~(f = fmt /\ a = i)
      <3> SUFFICES ASSUME f = fmt, a = i PROVE FALSE OBVIOUS
      <3>1. Home(b, f) = i BY <2>0, <1>h
      <3> QED BY <3>1, <1>b, <1>k
    <2> QED BY <2>1, <2>2, <1>h DEF IInv, HomesDisjoint
  <1>6. LoopsInOrder'
    <2>2. ASSUME pass' = "reuse"
          PROVE \A b \in Buffers : owner[b][fmt] = None /\ (reused'[b][fmt] # None => b < i')
      <3>1. i' = i + 1 BY <1>a, <2>2
      <3>2. \A b \in Buffers : owner[b][fmt] = None BY DEF IInv, LoopsInOrder
      <3>3. \A b \in Buffers : reused'[b][fmt] # None => b = i \/ b < i
        BY <1>d, <1>j, <1>0
      <3> QED BY <3>1, <3>2, <3>3, <1>0, SizesAssumption DEF Buffers
    <2>3. ASSUME fmt = "flat"
          PROVE \A b \in Buffers :
                  owner[b]["interleaved"] = None /\ reused'[b]["interleaved"] = None
      <3>1. "interleaved" \in Formats /\ "interleaved" # fmt BY <2>3 DEF Formats
      <3> QED BY <3>1, <2>3, <1>d DEF IInv, LoopsInOrder
    <2> QED BY <2>2, <2>3, <1>a DEF LoopsInOrder
  <1>7. OwnersAreHomes'
    <2> SUFFICES ASSUME NEW f \in Formats, NEW b \in Buffers, owner[b][f] # None
                 PROVE  owner[b][f] = Home(b, f)' /\ size0[b] <= capacity[owner[b][f]][f]
      BY DEF OwnersAreHomes, inputs
    <2>1. ~(b = i /\ f = fmt) BY <1>0 DEF IInv, LoopsInOrder
    <2> QED BY <2>1, <1>h DEF IInv, OwnersAreHomes
  <1> QED BY <1>1, <1>2, <1>3, <1>4, <1>5, <1>6, <1>7 DEF IInv

LEMMA PassStep ==
  ASSUME IInv, Pass
  PROVE  IInv'
  <1> USE DEF Pass
  <1>a. /\ fmt' = fmt /\ i' \in Buffers
        /\ \/ pass' = "reuse" /\ i' = i + 1
           \/ pass' = "allocate"
    BY ReuseAdvances DEF IInv
  <1>h. \A b \in Buffers, f \in Formats : Home(b, f)' = Home(b, f) BY DEF Home
  <1>1. TypeOK' BY <1>a DEF IInv, TypeOK, inputs
  <1>2. InputsSane' BY DEF IInv, InputsSane, inputs
  <1>3. HomesCover' BY DEF IInv, HomesCover, Home, inputs
  <1>4. HomesAtHome' BY DEF IInv, HomesAtHome, Home
  <1>5. HomesDisjoint' BY DEF IInv, HomesDisjoint, Home, inputs
  <1>6. LoopsInOrder'
    <2>1. \A b \in Buffers : b < i => b < i + 1
      BY SizesAssumption DEF IInv, TypeOK, Buffers
    <2> QED BY <1>a, <2>1 DEF IInv, LoopsInOrder
  <1>7. OwnersAreHomes' BY DEF IInv, OwnersAreHomes, Home, inputs
  <1> QED BY <1>1, <1>2, <1>3, <1>4, <1>5, <1>6, <1>7 DEF IInv

LEMMA AllocateStep ==
  ASSUME IInv, Allocate
  PROVE  IInv'
  <1>0. /\ i \in Buffers /\ fmt \in Formats /\ None \notin Buffers
    BY SizesAssumption DEF IInv, TypeOK, Buffers, None
  <1>a. /\ fmt' \in Formats /\ pass' \in {"reuse", "allocate", "done"}
        /\ i' \in Buffers
        /\ fmt' = "flat" => fmt = "flat"
        /\ pass' = "reuse" => fmt = "flat" /\ fmt' = "interleaved"
    BY AllocateAdvances DEF IInv, Allocate
  <1>b. UNCHANGED <<firstUsed, lastUsed0, size0, kind, lastUsed, sz>>
    BY DEF Allocate, inputs
  <1>c. \A b \in Buffers, f \in Formats :
          /\ reused'[b][f] = IF reused[i][fmt] = i /\ b = i /\ f = fmt
                               THEN None ELSE reused[b][f]
          /\ owner'[b][f] = IF reused[i][fmt] = i /\ reused[b][fmt] = i /\ f = fmt
                              THEN i ELSE owner[b][f]
          /\ capacity'[b][f] = IF reused[i][fmt] = i /\ b = i /\ f = fmt
                                 THEN sz[i] ELSE capacity[b][f]
    BY <1>0 DEF IInv, TypeOK, Allocate, Unmarked
  <1>h. \A b \in Buffers, f \in Formats : Home(b, f)' = Home(b, f)
    <2> SUFFICES ASSUME NEW b \in Buffers, NEW f \in Formats
                 PROVE  Home(b, f)' = Home(b, f)
      OBVIOUS
    <2> QED BY <1>c, <1>0 DEF Home
  <1>i. \A b \in Buffers, f \in Formats : Home(b, f) \in Buffers \cup {None}
    BY DEF IInv, TypeOK, Home
  <1>1. TypeOK'
    <2>1. CASE reused[i][fmt] = i
      <3>0. /\ owner' = [b \in Buffers |->
                          IF reused[b][fmt] = i THEN [owner[b] EXCEPT ![fmt] = i]
                                                ELSE owner[b]]
            /\ capacity' = [capacity EXCEPT ![i][fmt] = sz[i]]
            /\ reused' = [reused EXCEPT ![i][fmt] = None]
        BY <2>1 DEF Allocate, Unmarked
      <3>1. owner' \in [Buffers -> [Formats -> Buffers \cup {None}]]
        <4>1. \A b \in Buffers : owner[b] \in [Formats -> Buffers \cup {None}]
          BY DEF IInv, TypeOK
        <4> QED BY <3>0, <4>1, <1>0
      <3>2. reused' \in [Buffers -> [Formats -> Buffers \cup {None}]]
        <4>1. reused \in [Buffers -> [Formats -> Buffers \cup {None}]]
          BY DEF IInv, TypeOK
        <4> QED BY <3>0, <4>1, <1>0
      <3>3. sz[i] \in 0 .. MaxSize BY <1>0, SizesAssumption DEF IInv, TypeOK
      <3>4. capacity' \in [Buffers -> [Formats -> 0 .. MaxSize]]
        <4>1. capacity \in [Buffers -> [Formats -> 0 .. MaxSize]]
          BY DEF IInv, TypeOK
        <4> QED BY <3>0, <3>3, <4>1, <1>0
      <3> QED BY <3>1, <3>2, <3>4, <1>a, <1>b DEF IInv, TypeOK
    <2>2. CASE reused[i][fmt] # i
      BY <2>2, <1>a, <1>b DEF Allocate, IInv, TypeOK
    <2> QED BY <2>1, <2>2
  <1>2. InputsSane' BY <1>b DEF IInv, InputsSane
  <1>3. HomesCover' BY <1>b, <1>h DEF IInv, HomesCover
  <1>4. HomesAtHome'
    <2> SUFFICES ASSUME NEW f \in Formats, NEW b \in Buffers, Home(b, f)' # None
                 PROVE  Home(Home(b, f), f)' = Home(b, f)'
      BY DEF HomesAtHome
    <2> DEFINE h == Home(b, f)
    <2>1. Home(b, f)' = h /\ h \in Buffers BY <1>h, <1>i
    <2>2. Home(h, f) = h BY <2>1, <1>0 DEF IInv, HomesAtHome
    <2>3. Home(h, f)' = h BY <2>1, <2>2, <1>h
    <2> QED BY <2>1, <2>3 DEF Home
  <1>5. HomesDisjoint' BY <1>b, <1>h DEF IInv, HomesDisjoint
  <1>6. LoopsInOrder'
    <2>1. ASSUME fmt = "flat"
          PROVE \A b \in Buffers :
                  owner'[b]["interleaved"] = None /\ reused'[b]["interleaved"] = None
      <3>1. "interleaved" \in Formats /\ "interleaved" # fmt BY <2>1 DEF Formats
      <3> QED BY <3>1, <2>1, <1>c DEF IInv, LoopsInOrder
    <2> QED BY <2>1, <1>a DEF LoopsInOrder
  <1>7. OwnersAreHomes'
    <2> SUFFICES ASSUME NEW f \in Formats, NEW b \in Buffers, owner'[b][f] # None
                 PROVE  /\ owner'[b][f] = Home(b, f)
                        /\ size0[b] <= capacity'[owner'[b][f]][f]
      BY <1>b, <1>h DEF OwnersAreHomes
    <2>1. owner'[b][f] = Home(b, f)
      <3>1. CASE reused[i][fmt] = i /\ reused[b][fmt] = i /\ f = fmt
        BY <3>1, <1>c, <1>0 DEF Home
      <3>2. CASE ~(reused[i][fmt] = i /\ reused[b][fmt] = i /\ f = fmt)
        BY <3>2, <1>c DEF IInv, OwnersAreHomes
      <3> QED BY <3>1, <3>2
    <2>2. Home(b, f) \in Buffers BY <2>1, <1>i
    <2>3. size0[b] <= sz[Home(b, f)] BY <2>1 DEF IInv, HomesCover
    <2>4. CASE reused[i][fmt] = i /\ Home(b, f) = i /\ f = fmt
      BY <2>1, <2>2, <2>3, <2>4, <1>c
    <2>5. CASE ~(reused[i][fmt] = i /\ Home(b, f) = i /\ f = fmt)
      <3>1. ~(reused[i][fmt] = i /\ reused[b][fmt] = i /\ f = fmt)
        BY <2>5, <1>0 DEF Home
      <3>2. owner'[b][f] = owner[b][f] BY <3>1, <1>c
      <3>3. size0[b] <= capacity[Home(b, f)][f]
        BY <3>2, <2>1 DEF IInv, OwnersAreHomes
      <3> QED BY <3>3, <2>1, <2>2, <2>5, <1>c
    <2> QED BY <2>1, <2>4, <2>5
  <1> QED BY <1>1, <1>2, <1>3, <1>4, <1>5, <1>6, <1>7 DEF IInv

LEMMA NextIInv == IInv /\ [Next]_vars => IInv'
  <1> SUFFICES ASSUME IInv, [Next]_vars PROVE IInv' OBVIOUS
  <1>1. CASE \E j \in Buffers : Share(j) BY <1>1, ShareStep
  <1>2. CASE Keep BY <1>2, KeepStep
  <1>3. CASE Pass BY <1>3, PassStep
  <1>4. CASE Allocate BY <1>4, AllocateStep
  <1>5. CASE UNCHANGED vars
    <2> USE <1>5 DEF vars, inputs
    <2>1. TypeOK' BY DEF IInv, TypeOK
    <2>2. InputsSane' BY DEF IInv, InputsSane
    <2>3. HomesCover' BY DEF IInv, HomesCover, Home
    <2>4. HomesAtHome' BY DEF IInv, HomesAtHome, Home
    <2>5. HomesDisjoint' BY DEF IInv, HomesDisjoint, Home
    <2>6. LoopsInOrder' BY DEF IInv, LoopsInOrder
    <2>7. OwnersAreHomes' BY DEF IInv, OwnersAreHomes, Home
    <2> QED BY <2>1, <2>2, <2>3, <2>4, <2>5, <2>6, <2>7 DEF IInv
  <1> QED BY <1>1, <1>2, <1>3, <1>4, <1>5 DEF Next, Finished

\* The tables of BufferAllocateCommit keep their types.
THEOREM TypeCorrect == Spec => []TypeOK
  <1>1. IInv => TypeOK BY DEF IInv
  <1> QED BY InitIInv, NextIInv, <1>1, PTL DEF Spec

\* For every network, a result is not overwritten while a layer still reads
\* it: what BufferAllocateCommit lets share memory is used one after another.
THEOREM SharingIsSafe == Spec => []SharersDisjoint
  <1>1. IInv => SharersDisjoint
    <2> SUFFICES ASSUME IInv, NEW f \in Formats, NEW a \in Buffers, NEW b \in Buffers,
                        a # b, owner[a][f] # None, owner[a][f] = owner[b][f]
                 PROVE  lastUsed0[a] < firstUsed[b] \/ lastUsed0[b] < firstUsed[a]
      BY DEF SharersDisjoint
    <2>1. Home(a, f) = owner[a][f] /\ Home(b, f) = owner[b][f]
      BY DEF IInv, OwnersAreHomes
    <2>2. a < b \/ b < a BY SizesAssumption DEF Buffers
    <2> QED BY <2>1, <2>2 DEF IInv, HomesDisjoint
  <1> QED BY InitIInv, NextIInv, <1>1, PTL DEF Spec

\* For every network, the memory BufferAllocateCommit allocates is large
\* enough for every result stored in it.
THEOREM SharingFits == Spec => []SharersFit
  <1>1. IInv => SharersFit BY DEF IInv, OwnersAreHomes, SharersFit
  <1> QED BY InitIInv, NextIInv, <1>1, PTL DEF Spec
----------------------------------------------------------------------------
(* Which buffers get memory, and who frees it.  The marks that              *)
(* BufferFreeAll reads are left by two loops per format, so the invariant   *)
(* follows how far the loops have come.                                     *)

\* Only a buffer that is to be allocated is given a home.
OnlyOwn == \A f \in Formats, b \in Buffers : Home(b, f) # None => kind[b][f] = "own"

\* Of the buffers with one memory, the one it was allocated for is unmarked.
MarksTellSharers ==
  \A f \in Formats, b \in Buffers :
    owner[b][f] # None => (reused[b][f] = None <=> owner[b][f] = b)

\* The first loop has given every buffer before i a home, the second every
\* buffer whose home is before i memory, and a format is done before the next.
LoopsComplete ==
  /\ pass = "reuse" => \A b \in Buffers :
       b < i /\ kind[b][fmt] = "own" => Home(b, fmt) # None
  /\ pass = "allocate" => \A b \in Buffers :
       /\ kind[b][fmt] = "own" => Home(b, fmt) # None
       /\ Home(b, fmt) # None /\ Home(b, fmt) < i => owner[b][fmt] # None
       /\ owner[b][fmt] < i
  /\ fmt = "interleaved" => \A b \in Buffers :
       kind[b]["flat"] = "own" => owner[b]["flat"] # None
  /\ pass = "done" => /\ fmt = "interleaved"
                      /\ \A b \in Buffers :
                           kind[b]["interleaved"] = "own" => owner[b]["interleaved"] # None

MInv == OnlyOwn /\ MarksTellSharers /\ LoopsComplete

LEMMA InitMInv == Init => MInv
  <1> SUFFICES ASSUME Init PROVE MInv OBVIOUS
  <1>1. \A b \in Buffers, f \in Formats : Home(b, f) = None /\ owner[b][f] = None
    BY DEF Init, Home, Buffers, Formats
  <1>2. OnlyOwn /\ MarksTellSharers BY <1>1 DEF OnlyOwn, MarksTellSharers
  <1>3. LoopsComplete BY SizesAssumption DEF Init, LoopsComplete, Buffers
  <1> QED BY <1>2, <1>3 DEF MInv

LEMMA HomeType ==
  ASSUME IInv
  PROVE  /\ i \in Buffers /\ fmt \in Formats /\ None \notin Buffers
         /\ \A b \in Buffers, f \in Formats :
              Home(b, f) \in Buffers \cup {None} /\ owner[b][f] \in Buffers \cup {None}
  <1>1. i \in Buffers /\ fmt \in Formats BY DEF IInv, TypeOK
  <1>2. None \notin Buffers BY SizesAssumption DEF Buffers, None
  <1>3. \A b \in Buffers, f \in Formats :
          owner[b][f] \in Buffers \cup {None} /\ reused[b][f] \in Buffers \cup {None}
    BY DEF IInv, TypeOK
  <1> QED BY <1>1, <1>2, <1>3 DEF Home

\* What the first loop does at buffer i: a home for it if it needs one.
LEMMA ReuseComplete ==
  ASSUME IInv, MInv, pass = "reuse", UNCHANGED <<kind, owner>>,
         Advance(pass' = "allocate" /\ UNCHANGED fmt),
         \A b \in Buffers, f \in Formats :
           IF b = i /\ f = fmt /\ kind[i][fmt] = "own"
             THEN Home(b, f)' \in Buffers ELSE Home(b, f)' = Home(b, f)
  PROVE  LoopsComplete'
  <1>0. i \in Buffers /\ fmt \in Formats /\ None \notin Buffers BY HomeType
  <1>1. /\ fmt' = fmt
        /\ \/ pass' = "reuse" /\ i' = i + 1
           \/ pass' = "allocate" /\ i = N /\ i' = 1
    BY ReuseAdvances DEF IInv
  <1>2. \A b \in Buffers, f \in Formats : Home(b, f)' \in Buffers \cup {None}
    BY HomeType
  <1>3. \A b \in Buffers : owner[b][fmt] = None BY DEF IInv, LoopsInOrder
  <1>4. \A b \in Buffers, f \in Formats :
          f = fmt /\ b <= i /\ kind[b][f] = "own" => Home(b, f)' # None
    <2>1. \A b \in Buffers : b <= i => b < i \/ b = i
      BY <1>0, SizesAssumption DEF Buffers
    <2> QED BY <2>1, <1>0 DEF MInv, LoopsComplete
  <1>5. CASE pass' = "reuse" /\ i' = i + 1
    <2>1. \A b \in Buffers : b < i + 1 => b <= i
      BY <1>0, SizesAssumption DEF Buffers
    <2> QED BY <1>0, <1>1, <1>4, <1>5, <2>1 DEF MInv, LoopsComplete
  <1>6. CASE pass' = "allocate" /\ i = N /\ i' = 1
    <2>1. \A b \in Buffers : b <= i BY <1>6, SizesAssumption DEF Buffers
    <2>2. \A b \in Buffers : owner[b][fmt] < 1 BY <1>3 DEF None
    <2>3. \A h \in Buffers : ~(h < 1) BY SizesAssumption DEF Buffers
    <2> QED BY <1>0, <1>1, <1>2, <1>4, <1>6, <2>1, <2>2, <2>3 DEF MInv, LoopsComplete
  <1> QED BY <1>1, <1>5, <1>6

\* Share and Keep give buffer i a home.
LEMMA MarkStep ==
  ASSUME IInv, MInv, pass = "reuse", kind[i][fmt] = "own", NEW h \in Buffers,
         reused' = [reused EXCEPT ![i][fmt] = h], UNCHANGED <<kind, owner>>,
         Advance(pass' = "allocate" /\ UNCHANGED fmt)
  PROVE  MInv'
  <1>0. i \in Buffers /\ fmt \in Formats /\ h # None BY HomeType
  <1>1. \A b \in Buffers, f \in Formats :
          reused'[b][f] = IF b = i /\ f = fmt THEN h ELSE reused[b][f]
    BY <1>0 DEF IInv, TypeOK
  <1>2. \A b \in Buffers, f \in Formats :
          Home(b, f)' = IF b = i /\ f = fmt THEN h ELSE Home(b, f)
    BY <1>0, <1>1 DEF Home
  <1>3. \A b \in Buffers : owner[b][fmt] = None BY DEF IInv, LoopsInOrder
  <1>4. OnlyOwn' BY <1>2 DEF MInv, OnlyOwn
  <1>5. MarksTellSharers' BY <1>1, <1>3 DEF MInv, MarksTellSharers
  <1>6. LoopsComplete' BY <1>2, ReuseComplete
  <1> QED BY <1>4, <1>5, <1>6 DEF MInv

LEMMA AllocateMarks ==
  ASSUME IInv, MInv, Allocate
  PROVE  MInv'
  <1>0. /\ i \in Buffers /\ fmt \in Formats /\ None \notin Buffers
        /\ \A b \in Buffers, f \in Formats :
             Home(b, f) \in Buffers \cup {None} /\ owner[b][f] \in Buffers \cup {None}
    BY HomeType
  <1>1. \/ i < N /\ i' = i + 1 /\ fmt' = fmt /\ pass' = "allocate"
        \/ i = N /\ fmt = "flat" /\ fmt' = "interleaved" /\ pass' = "reuse" /\ i' = 1
        \/ i = N /\ fmt = "interleaved" /\ fmt' = fmt /\ pass' = "done"
    BY <1>0, SizesAssumption DEF Allocate, Advance, Buffers, Formats
  <1>2. \A b \in Buffers, f \in Formats :
          /\ reused'[b][f] = IF reused[i][fmt] = i /\ b = i /\ f = fmt
                               THEN None ELSE reused[b][f]
          /\ owner'[b][f] = IF reused[i][fmt] = i /\ reused[b][fmt] = i /\ f = fmt
                              THEN i ELSE owner[b][f]
    BY <1>0 DEF IInv, TypeOK, Allocate, Unmarked
  <1>3. \A b \in Buffers, f \in Formats : Home(b, f)' = Home(b, f)
    <2> SUFFICES ASSUME NEW b \in Buffers, NEW f \in Formats
                 PROVE  Home(b, f)' = Home(b, f)
      OBVIOUS
    <2> QED BY <1>0, <1>2 DEF Home
  <1>4. kind' = kind /\ pass = "allocate" BY DEF Allocate, inputs
  <1>5. OnlyOwn' BY <1>3, <1>4 DEF MInv, OnlyOwn
  <1>6. MarksTellSharers' BY <1>0, <1>2 DEF MInv, MarksTellSharers
  <1>7. \A b \in Buffers : /\ kind[b][fmt] = "own" => Home(b, fmt) # None
                           /\ Home(b, fmt) # None /\ Home(b, fmt) < i => owner[b][fmt] # None
                           /\ owner[b][fmt] < i
    BY <1>4 DEF MInv, LoopsComplete
  <1>8. \A b \in Buffers : Home(b, fmt) = i => owner'[b][fmt] # None
    <2> SUFFICES ASSUME NEW b \in Buffers, Home(b, fmt) = i, owner[b][fmt] = None
                 PROVE  owner'[b][fmt] = i
      BY <1>0, <1>2
    <2>1. reused[b][fmt] = i BY <1>0 DEF Home
    <2>2. Home(i, fmt) = i BY <1>0 DEF IInv, HomesAtHome
    <2>3. owner[i][fmt] # i BY <1>0, <1>7, SizesAssumption DEF Buffers
    <2>4. reused[i][fmt] = i BY <2>2, <2>3 DEF Home
    <2> QED BY <1>0, <1>2, <2>1, <2>4
  <1>9. \A b \in Buffers : Home(b, fmt) # None /\ Home(b, fmt) <= i => owner'[b][fmt] # None
    <2>1. \A h \in Buffers : h <= i => h < i \/ h = i
      BY <1>0, SizesAssumption DEF Buffers
    <2> QED BY <1>0, <1>2, <1>7, <1>8, <2>1
  <1>10. \A b \in Buffers : owner'[b][fmt] < i + 1
    <2>1. \A h \in Buffers \cup {None} : h < i => h < i + 1
      BY <1>0, SizesAssumption DEF Buffers, None
    <2>2. i < i + 1 BY <1>0, SizesAssumption DEF Buffers
    <2> QED BY <1>0, <1>2, <1>7, <2>1, <2>2
  <1>11. \A b \in Buffers : fmt = "interleaved" /\ kind[b]["flat"] = "own"
                              => owner'[b]["flat"] # None
    BY <1>2 DEF MInv, LoopsComplete, Formats
  <1>12. LoopsComplete'
    <2>1. CASE i < N /\ i' = i + 1 /\ fmt' = fmt /\ pass' = "allocate"
      <3>1. \A h \in Buffers : h < i + 1 => h <= i
        BY <1>0, SizesAssumption DEF Buffers
      <3> QED BY <1>0, <1>3, <1>4, <1>7, <1>9, <1>10, <1>11, <2>1, <3>1 DEF LoopsComplete
    <2>2. ASSUME i = N PROVE \A b \in Buffers : kind[b][fmt] = "own" => owner'[b][fmt] # None
      <3>1. \A h \in Buffers : h <= i BY <2>2, SizesAssumption DEF Buffers
      <3> QED BY <1>0, <1>7, <1>9, <3>1
    <2>3. CASE i = N /\ fmt = "flat" /\ fmt' = "interleaved" /\ pass' = "reuse" /\ i' = 1
      <3>1. \A h \in Buffers : ~(h < 1) BY SizesAssumption DEF Buffers
      <3> QED BY <1>4, <2>2, <2>3, <3>1 DEF LoopsComplete
    <2>4. CASE i = N /\ fmt = "interleaved" /\ fmt' = fmt /\ pass' = "done"
      BY <1>4, <1>11, <2>2, <2>4 DEF LoopsComplete
    <2> QED BY <1>1, <2>1, <2>3, <2>4
  <1> QED BY <1>5, <1>6, <1>12 DEF MInv

LEMMA NextMInv == IInv /\ MInv /\ [Next]_vars => MInv'
  <1> SUFFICES ASSUME IInv, MInv, [Next]_vars PROVE MInv' OBVIOUS
  <1>1. ASSUME NEW j \in Buffers, Share(j) PROVE MInv'
    BY <1>1, MarkStep DEF Share, inputs
  <1>2. CASE Keep
    <2>1. i \in Buffers BY HomeType
    <2> QED BY <1>2, <2>1, MarkStep DEF Keep, inputs
  <1>3. CASE Pass
    <2> USE <1>3 DEF Pass, inputs
    <2>1. \A b \in Buffers, f \in Formats : Home(b, f)' = Home(b, f) BY DEF Home
    <2>2. OnlyOwn' BY <2>1 DEF MInv, OnlyOwn
    <2>3. MarksTellSharers' BY DEF MInv, MarksTellSharers
    <2>4. LoopsComplete' BY <2>1, ReuseComplete
    <2> QED BY <2>2, <2>3, <2>4 DEF MInv
  <1>4. CASE Allocate BY <1>4, AllocateMarks
  <1>5. CASE UNCHANGED vars
    BY <1>5 DEF vars, inputs, MInv, OnlyOwn, MarksTellSharers, LoopsComplete, Home
  <1> QED BY <1>1, <1>2, <1>3, <1>4, <1>5 DEF Next, Finished

\* For every network, BufferAllocateCommit gives memory to every result that
\* is to be stored in a format, its own or shared, and to no other.
THEOREM StoredGetsMemory == Spec => []AllGetMemory
  <1>1. IInv /\ MInv => AllGetMemory
    <2> SUFFICES ASSUME IInv, MInv, pass = "done", NEW f \in Formats, NEW b \in Buffers
                 PROVE  kind[b][f] = "own" <=> owner[b][f] # None
      BY DEF AllGetMemory
    <2>1. owner[b][f] # None => Home(b, f) # None
      BY DEF IInv, OwnersAreHomes
    <2> QED BY <2>1 DEF MInv, OnlyOwn, LoopsComplete, Formats
  <1> QED BY InitIInv, NextIInv, InitMInv, NextMInv, <1>1, PTL DEF Spec

\* For every network, BufferFreeAll frees each memory exactly once: among the
\* buffers that share it only the one it was allocated for is unmarked.
THEOREM MemoryFreedOnce == Spec => []FreedOnce
  <1>1. IInv /\ MInv => FreedOnce
    <2> SUFFICES ASSUME IInv, MInv, NEW f \in Formats, NEW b \in Buffers,
                        owner[b][f] # None, pass = "done"
                 PROVE  Cardinality({c \in Buffers :
                                       Frees(c, f) /\ owner[c][f] = owner[b][f]}) = 1
      BY DEF FreedOnce
    <2> DEFINE h == owner[b][f]
    <2>1. h \in Buffers /\ None \notin Buffers BY HomeType
    <2>2. h = Home(b, f) BY DEF IInv, OwnersAreHomes
    <2>3. Home(h, f) = h BY <2>1, <2>2 DEF IInv, HomesAtHome
    <2>4. kind[h][f] = "own" BY <2>1, <2>3 DEF MInv, OnlyOwn
    <2>5. owner[h][f] # None BY <2>1, <2>4 DEF MInv, LoopsComplete, Formats
    <2>6. owner[h][f] = h BY <2>1, <2>3, <2>5 DEF IInv, OwnersAreHomes
    <2>7. Frees(h, f) BY <2>1, <2>4, <2>6 DEF Frees, MInv, MarksTellSharers
    <2>8. \A c \in Buffers : Frees(c, f) /\ owner[c][f] = h => c = h
      BY <2>1 DEF Frees, MInv, MarksTellSharers
    <2>9. {c \in Buffers : Frees(c, f) /\ owner[c][f] = owner[b][f]} = {h}
      BY <2>1, <2>6, <2>7, <2>8
    <2> QED BY <2>9, FS_Singleton, Zenon
  <1> QED BY InitIInv, NextIInv, InitMInv, NextMInv, <1>1, PTL DEF Spec
=============================================================================
