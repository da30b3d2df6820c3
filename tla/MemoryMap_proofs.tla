-------------------------- MODULE MemoryMap_proofs --------------------------
(***************************************************************************)
(* Proofs about the region table of MemoryMap.                             *)
(***************************************************************************)
EXTENDS MemoryMap, WellFoundedInduction, TLAPS

----------------------------------------------------------------------------
(* Numbers *)

\* A set of numbers that is not empty has a least one.
LEMMA Least ==
  ASSUME NEW T \in SUBSET Nat, T # {}
  PROVE  \E x \in T : \A y \in T : x <= y
  <1> DEFINE R == OpToRel(<, Nat)
  <1>1. IsWellFoundedOn(R, Nat)
    BY NatLessThanWellFounded, Zenon
  <1>2. R = {ss \in Nat \X Nat : ss[1] < ss[2]}
    BY DEF OpToRel
  <1> HIDE DEF R
  <1>3. PICK x \in T : \A y \in T : ~ <<y, x>> \in R
    BY <1>1, WFMin
  <1>4. ASSUME NEW y \in T PROVE x <= y
    <2>1. x \in Nat /\ y \in Nat
      OBVIOUS
    <2>2. ~ y < x
      BY <1>2, <1>3, <2>1
    <2> QED
      BY <2>1, <2>2
  <1> QED
    BY <1>4
\* An address is its own remainder.
LEMMA ShortOfAddr ==
  ASSUME NEW a \in Addr PROVE Short(a) = a
  BY MemoryAssumption DEF Addr, Short

\* Every sum of addresses wraps around to an address.
LEMMA ShortIsAddr ==
  ASSUME NEW n \in Int PROVE Short(n) \in Addr
  BY MemoryAssumption DEF Addr, Short

----------------------------------------------------------------------------
(* The table as a value *)

\* find_region, in the table R.
Find(R, a) ==
  LET hits == {i \in DOMAIN R : Covers(R[i], a)}
  IN  IF hits = {} THEN 0 ELSE CHOOSE i \in hits : \A j \in hits : i <= j

\* The kind and the byte of an address.
KindAt(R, a) == IF Find(R, a) = 0 THEN "none" ELSE R[Find(R, a)].TYPE

ByteAt(R, a) ==
  IF Find(R, a) # 0 /\ R[Find(R, a)].DATA # NoData
  THEN R[Find(R, a)].DATA[a - R[Find(R, a)].START]
  ELSE 255

\* What every table of regions satisfies.
Table(R) ==
  /\ R \in Seq(MEM_REGION)
  /\ \A i \in DOMAIN R : R[i].START <= R[i].END /\ BufferFits(R[i])
  /\ \A i, j \in DOMAIN R :
       (\E a \in Addr : Covers(R[i], a) /\ Covers(R[j], a)) => i = j

\* The entries of a table.
LEMMA Entries ==
  ASSUME NEW R, Table(R), NEW i \in DOMAIN R
  PROVE  /\ i \in Nat \ {0} /\ i <= Len(R) /\ Len(R) \in Nat
         /\ R[i] \in MEM_REGION
         /\ R[i].START \in Addr /\ R[i].END \in Addr
         /\ R[i].START \in Int /\ R[i].END \in Int
         /\ R[i].START <= R[i].END
         /\ R[i].TYPE \in {"RAM", "ROM", "IO"}
         /\ BufferFits(R[i])
  <1>1. R \in Seq(MEM_REGION) /\ DOMAIN R = 1 .. Len(R) /\ Len(R) \in Nat
    BY DEF Table
  <1>2. R[i] \in MEM_REGION /\ i \in Nat \ {0} /\ i <= Len(R)
    BY <1>1
  <1>3. R[i].START <= R[i].END /\ BufferFits(R[i])
    BY DEF Table
  <1>4. /\ R[i].START \in Addr /\ R[i].END \in Addr
        /\ R[i].TYPE \in {"RAM", "ROM", "IO"}
    BY <1>2 DEF MEM_REGION
  <1>5. R[i].START \in Int /\ R[i].END \in Int
    BY <1>4, MemoryAssumption DEF Addr
  <1> QED
    BY <1>1, <1>2, <1>3, <1>4, <1>5

\* The search finds the one region that covers an address.
LEMMA FindHit ==
  ASSUME NEW R, Table(R), NEW a \in Addr,
         NEW i \in DOMAIN R, Covers(R[i], a)
  PROVE  Find(R, a) = i
  <1> DEFINE hits == {j \in DOMAIN R : Covers(R[j], a)}
  <1>1. hits = {i}
    BY DEF Table
  <1>2. i <= i
    BY Entries
  <1>3. (CHOOSE k \in hits : \A j \in hits : k <= j) = i
    BY <1>1, <1>2
  <1> QED
    BY <1>1, <1>3 DEF Find

\* If none does, it returns NULL.
LEMMA FindMiss ==
  ASSUME NEW R, NEW a, \A i \in DOMAIN R : ~ Covers(R[i], a)
  PROVE  Find(R, a) = 0
  BY DEF Find

\* What it finds covers the address.
LEMMA Found ==
  ASSUME NEW R, Table(R), NEW a \in Addr, Find(R, a) # 0
  PROVE  Find(R, a) \in DOMAIN R /\ Covers(R[Find(R, a)], a)
  <1>1. PICK i \in DOMAIN R : Covers(R[i], a)
    BY FindMiss
  <1> QED
    BY <1>1, FindHit

\* The index is 0 only if nothing was found.
LEMMA FindNotZero ==
  ASSUME NEW R, Table(R), NEW a \in Addr,
         NEW i \in DOMAIN R, Covers(R[i], a)
  PROVE  Find(R, a) # 0
  BY FindHit, Entries

\* A region of RAM or ROM has a byte for each of its addresses.
LEMMA Buffer ==
  ASSUME NEW R, Table(R), NEW i \in DOMAIN R, R[i].TYPE # "IO"
  PROVE  /\ R[i].DATA \in [0 .. R[i].END - R[i].START -> MemByte]
         /\ DOMAIN R[i].DATA = 0 .. R[i].END - R[i].START
         /\ R[i].DATA # NoData
  <1>1. DOMAIN R[i].DATA = 0 .. R[i].END - R[i].START
    BY Entries DEF BufferFits
  <1>2. 0 \in DOMAIN R[i].DATA
    BY <1>1, Entries
  <1>3. R[i].DATA # NoData
    <2>1. DOMAIN NoData = {}
      BY DEF NoData
    <2> QED
      BY <1>2, <2>1
  <1>4. PICK n \in Addr : R[i].DATA \in [0 .. n -> MemByte]
    <2> DEFINE Buffers == {[0 .. n -> MemByte] : n \in Addr}
    <2>1. R[i] \in MEM_REGION
      BY Entries
    <2>2. R[i].DATA \in {NoData} \cup UNION Buffers
      BY <2>1 DEF MEM_REGION
    <2> HIDE DEF Buffers
    <2>3. PICK F \in Buffers : R[i].DATA \in F
      BY <1>3, <2>2
    <2> QED
      BY <2>3 DEF Buffers
  <1>5. 0 .. n = 0 .. R[i].END - R[i].START
    BY <1>1, <1>4
  <1> QED
    BY <1>1, <1>3, <1>4, <1>5

\* An I/O region has none.
LEMMA IoHasNoData ==
  ASSUME NEW R, Table(R), NEW i \in DOMAIN R, R[i].TYPE = "IO"
  PROVE  R[i].DATA = NoData
  BY Entries DEF BufferFits

\* The addresses with data are those of RAM and ROM, and they hold bytes.
LEMMA Memory ==
  ASSUME NEW R, Table(R), NEW a \in Addr
  PROVE  LET i == Find(R, a)
         IN  /\ KindAt(R, a) \in {"none", "RAM", "ROM", "IO"}
             /\ KindAt(R, a) \in {"RAM", "ROM"} <=> i # 0 /\ R[i].DATA # NoData
             /\ KindAt(R, a) \in {"RAM", "ROM"} =>
                  /\ i \in DOMAIN R /\ R[i].TYPE # "IO"
                  /\ a - R[i].START \in 0 .. R[i].END - R[i].START
                  /\ Short(a - R[i].START) = a - R[i].START
                  /\ ByteAt(R, a) = R[i].DATA[a - R[i].START]
                  /\ ByteAt(R, a) \in MemByte
             /\ KindAt(R, a) \notin {"RAM", "ROM"} => ByteAt(R, a) = 255
  <1> DEFINE i == Find(R, a)
  <1>1. CASE i = 0
    BY <1>1 DEF KindAt, ByteAt
  <1>2. CASE i # 0
    <2>1. i \in DOMAIN R /\ Covers(R[i], a)
      BY <1>2, Found
    <2> DEFINE o == a - R[i].START
    <2>2. o \in 0 .. R[i].END - R[i].START /\ o \in Addr
      BY <2>1, Entries, MemoryAssumption DEF Covers, Addr
    <2>3. Short(o) = o
      BY <2>2, ShortOfAddr
    <2>4. KindAt(R, a) = R[i].TYPE /\ R[i].TYPE \in {"RAM", "ROM", "IO"}
      BY <1>2, <2>1, Entries DEF KindAt
    <2>5. CASE R[i].TYPE = "IO"
      BY <1>2, <2>1, <2>4, <2>5, IoHasNoData DEF ByteAt
    <2>6. CASE R[i].TYPE # "IO"
      <3>1. /\ R[i].DATA \in [0 .. R[i].END - R[i].START -> MemByte]
            /\ R[i].DATA # NoData
        BY <2>1, <2>6, Buffer
      <3>2. ByteAt(R, a) = R[i].DATA[o] /\ R[i].DATA[o] \in MemByte
        BY <1>2, <2>2, <3>1 DEF ByteAt
      <3> QED
        BY <1>2, <2>1, <2>2, <2>3, <2>4, <2>6, <3>1, <3>2
    <2> QED
      BY <2>5, <2>6
  <1> QED
    BY <1>1, <1>2
----------------------------------------------------------------------------
(* Storing bytes *)

\* Q is R but for the bytes in its buffers.
SameShape(R, Q) ==
  /\ Q \in Seq(MEM_REGION) /\ Len(Q) = Len(R)
  /\ \A i \in DOMAIN R :
       /\ Q[i].START = R[i].START /\ Q[i].END = R[i].END
       /\ Q[i].TYPE = R[i].TYPE
       /\ Q[i].READ_HANDLER = R[i].READ_HANDLER
       /\ Q[i].WRITE_HANDLER = R[i].WRITE_HANDLER
       /\ DOMAIN Q[i].DATA = DOMAIN R[i].DATA
       /\ R[i].TYPE = "IO" => Q[i].DATA = NoData

\* Storing bytes leaves a table, which maps the same addresses.
LEMMA ShapeKept ==
  ASSUME NEW R, Table(R), NEW Q, SameShape(R, Q)
  PROVE  /\ Table(Q) /\ DOMAIN Q = DOMAIN R
         /\ \A a \in Addr : /\ Find(Q, a) = Find(R, a)
                            /\ KindAt(Q, a) = KindAt(R, a)
  <1>1. DOMAIN Q = DOMAIN R
    BY DEF SameShape, Table
  <1>2. \A i \in DOMAIN R : \A a : Covers(Q[i], a) <=> Covers(R[i], a)
    BY DEF SameShape, Covers
  <1>3. Table(Q)
    <2>1. \A i \in DOMAIN Q : Q[i].START <= Q[i].END /\ BufferFits(Q[i])
      <3> SUFFICES ASSUME NEW i \in DOMAIN R
                   PROVE  Q[i].START <= Q[i].END /\ BufferFits(Q[i])
        BY <1>1
      <3>1. R[i].START <= R[i].END /\ BufferFits(R[i])
        BY Entries
      <3> QED
        BY <3>1 DEF SameShape, BufferFits
    <2>2. \A i, j \in DOMAIN Q :
            (\E a \in Addr : Covers(Q[i], a) /\ Covers(Q[j], a)) => i = j
      BY <1>1, <1>2 DEF Table
    <2> QED
      BY <2>1, <2>2 DEF SameShape, Table
  <1>4. ASSUME NEW a \in Addr PROVE Find(Q, a) = Find(R, a)
    <2>1. CASE \E i \in DOMAIN R : Covers(R[i], a)
      BY <1>1, <1>2, <1>3, <2>1, FindHit
    <2>2. CASE \A i \in DOMAIN R : ~ Covers(R[i], a)
      BY <1>1, <1>2, <2>2, FindMiss
    <2> QED
      BY <2>1, <2>2
  <1>5. ASSUME NEW a \in Addr PROVE KindAt(Q, a) = KindAt(R, a)
    <2>1. CASE Find(R, a) = 0
      BY <1>4, <2>1 DEF KindAt
    <2>2. CASE Find(R, a) # 0
      <3>1. Find(R, a) \in DOMAIN R
        BY <2>2, Found
      <3> QED
        BY <1>4, <2>2, <3>1 DEF KindAt, SameShape
    <2> QED
      BY <2>1, <2>2
  <1> QED
    BY <1>1, <1>3, <1>4, <1>5

\* R with the buffers D, and buffers that fit.
Refilled(R, D) == [i \in DOMAIN R |-> [R[i] EXCEPT !.DATA = D[i]]]

Fitting(R, D) ==
  \A i \in DOMAIN R :
    IF R[i].TYPE = "IO" THEN D[i] = NoData
    ELSE D[i] \in [0 .. R[i].END - R[i].START -> MemByte]

\* New buffers of the right sizes, in place of those of R.
LEMMA NewBuffers ==
  ASSUME NEW R, Table(R), NEW D, Fitting(R, D),
         NEW Q, Q = Refilled(R, D)
  PROVE  /\ SameShape(R, Q)
         /\ \A i \in DOMAIN R : Q[i].DATA = D[i]
  <1>1. DOMAIN R = 1 .. Len(R) /\ Len(R) \in Nat
    BY DEF Table
  <1>2. ASSUME NEW i \in DOMAIN R
        PROVE  /\ Q[i] \in MEM_REGION /\ Q[i].DATA = D[i]
               /\ Q[i].START = R[i].START /\ Q[i].END = R[i].END
               /\ Q[i].TYPE = R[i].TYPE
               /\ Q[i].READ_HANDLER = R[i].READ_HANDLER
               /\ Q[i].WRITE_HANDLER = R[i].WRITE_HANDLER
               /\ DOMAIN Q[i].DATA = DOMAIN R[i].DATA
               /\ R[i].TYPE = "IO" => Q[i].DATA = NoData
    <2>1. R[i] \in MEM_REGION
      BY Entries
    <2>2. Q[i] = [R[i] EXCEPT !.DATA = D[i]]
      BY DEF Refilled
    <2>3. /\ Q[i].START = R[i].START /\ Q[i].END = R[i].END
          /\ Q[i].TYPE = R[i].TYPE
          /\ Q[i].READ_HANDLER = R[i].READ_HANDLER
          /\ Q[i].WRITE_HANDLER = R[i].WRITE_HANDLER
          /\ Q[i].DATA = D[i]
      BY <2>1, <2>2 DEF MEM_REGION
    <2>4. /\ DOMAIN Q[i].DATA = DOMAIN R[i].DATA
          /\ R[i].TYPE = "IO" => Q[i].DATA = NoData
      <3>1. CASE R[i].TYPE = "IO"
        BY <2>3, <3>1, IoHasNoData DEF Fitting
      <3>2. CASE R[i].TYPE # "IO"
        BY <2>3, <3>2, Buffer DEF Fitting
      <3> QED
        BY <3>1, <3>2
    <2>5. D[i] \in {NoData} \cup UNION {[0 .. n -> MemByte] : n \in Addr}
      <3>1. CASE R[i].TYPE = "IO"
        BY <3>1 DEF Fitting
      <3>2. CASE R[i].TYPE # "IO"
        <4>1. R[i].END - R[i].START \in Addr
          BY Entries, MemoryAssumption DEF Addr
        <4>2. D[i] \in [0 .. R[i].END - R[i].START -> MemByte]
          BY <3>2 DEF Fitting
        <4> QED
          BY <4>1, <4>2
      <3> QED
        BY <3>1, <3>2
    <2>6. Q[i] \in MEM_REGION
      BY <2>1, <2>2, <2>5 DEF MEM_REGION
    <2> QED
      BY <2>3, <2>4, <2>6
  <1>3. Q \in Seq(MEM_REGION) /\ Len(Q) = Len(R)
    BY <1>1, <1>2 DEF Refilled
  <1> QED
    BY <1>2, <1>3 DEF SameShape

\* R with the byte b at offset o of region i.
Poke(R, i, o, b) == [R EXCEPT ![i].DATA[o] = b]

\* Storing one byte at an address of RAM or ROM changes what that address
\* holds and nothing else.
LEMMA Poked ==
  ASSUME NEW R, Table(R), NEW a \in Addr, KindAt(R, a) \in {"RAM", "ROM"},
         NEW b \in MemByte,
         NEW i, i = Find(R, a), NEW o, o = a - R[i].START,
         NEW Q, Q = Poke(R, i, o, b)
  PROVE  /\ SameShape(R, Q)
         /\ \A x \in Addr : ByteAt(Q, x) = IF x = a THEN b ELSE ByteAt(R, x)
  <1>1. /\ i \in DOMAIN R /\ R[i].TYPE # "IO" /\ i # 0
        /\ o \in 0 .. R[i].END - R[i].START
    BY Memory
  <1> DEFINE D == [j \in DOMAIN R |-> IF j = i THEN [R[j].DATA EXCEPT ![o] = b]
                                               ELSE R[j].DATA]
  <1>2. Q = Refilled(R, D)
    <2>1. ASSUME NEW j \in DOMAIN R PROVE Q[j] = [R[j] EXCEPT !.DATA = D[j]]
      <3>1. R[j] \in MEM_REGION
        BY Entries
      <3> QED
        BY <1>1, <3>1 DEF MEM_REGION, Poke
    <2> QED
      BY <1>1, <2>1 DEF Poke, Refilled
  <1>3. Fitting(R, D)
    BY <1>1, Buffer, IoHasNoData DEF Fitting
  <1> HIDE DEF D
  <1>4. /\ SameShape(R, Q)
        /\ \A j \in DOMAIN R : Q[j].DATA = D[j]
    BY <1>2, <1>3, NewBuffers
  <1>5. Table(Q) /\ \A x \in Addr : /\ Find(Q, x) = Find(R, x)
                                    /\ KindAt(Q, x) = KindAt(R, x)
    BY <1>4, ShapeKept
  <1>6. ASSUME NEW x \in Addr
        PROVE  ByteAt(Q, x) = IF x = a THEN b ELSE ByteAt(R, x)
    <2>1. CASE KindAt(R, x) \notin {"RAM", "ROM"}
      <3>1. ByteAt(R, x) = 255 /\ ByteAt(Q, x) = 255
        BY <1>5, <2>1, Memory
      <3> QED
        BY <2>1, <3>1
    <2>2. CASE KindAt(R, x) \in {"RAM", "ROM"}
      <3> DEFINE j == Find(R, x)
      <3>1. /\ j \in DOMAIN R /\ R[j].TYPE # "IO"
            /\ x - R[j].START \in 0 .. R[j].END - R[j].START
            /\ ByteAt(R, x) = R[j].DATA[x - R[j].START]
        BY <2>2, Memory
      <3>2. ByteAt(Q, x) = Q[j].DATA[x - Q[j].START]
        <4>1. KindAt(Q, x) \in {"RAM", "ROM"} /\ Find(Q, x) = j
          BY <1>5, <2>2
        <4>2. ByteAt(Q, x) = Q[Find(Q, x)].DATA[x - Q[Find(Q, x)].START]
          BY <1>5, <4>1, Memory
        <4> QED
          BY <4>1, <4>2
      <3>3. Q[j].DATA = D[j] /\ Q[j].START = R[j].START
        BY <1>4, <3>1 DEF SameShape
      <3>4. ByteAt(Q, x) = D[j][x - R[j].START]
        BY <3>2, <3>3
      <3>5. R[j].DATA \in [0 .. R[j].END - R[j].START -> MemByte]
        BY <3>1, Buffer
      <3>6. x \in Int /\ a \in Int /\ R[j].START \in Int
        BY <3>1, Entries, MemoryAssumption DEF Addr
      <3>7. CASE x = a
        BY <1>1, <3>1, <3>4, <3>5, <3>7 DEF D
      <3>8. CASE x # a
        <4>1. j = i => x - R[j].START # o
          BY <3>6, <3>8
        <4>2. D[j][x - R[j].START] = R[j].DATA[x - R[j].START]
          BY <1>1, <3>1, <3>5, <4>1 DEF D
        <4> QED
          BY <3>1, <3>4, <3>8, <4>2
      <3> QED
        BY <3>7, <3>8
    <2> QED
      BY <2>1, <2>2
  <1> QED
    BY <1>4, <1>6
----------------------------------------------------------------------------
(* Adding a region *)

\* A region that overlaps none of the others gives its addresses its kind
\* and leaves all the others alone.
LEMMA Appended ==
  ASSUME NEW R, Table(R), NEW r \in MEM_REGION, r.START <= r.END, BufferFits(r),
         \A i \in DOMAIN R : ~ (r.START <= R[i].END /\ R[i].START <= r.END),
         NEW Q, Q = Append(R, r)
  PROVE  /\ Table(Q)
         /\ \A a \in Addr :
              IF Covers(r, a)
              THEN /\ Find(R, a) = 0 /\ KindAt(Q, a) = r.TYPE
                   /\ ByteAt(Q, a) = IF r.DATA = NoData THEN 255
                                     ELSE r.DATA[a - r.START]
              ELSE KindAt(Q, a) = KindAt(R, a) /\ ByteAt(Q, a) = ByteAt(R, a)
  <1> DEFINE n == Len(R) + 1
  <1>1. R \in Seq(MEM_REGION) /\ Len(R) \in Nat /\ DOMAIN R = 1 .. Len(R)
    BY DEF Table
  <1>2. /\ Q \in Seq(MEM_REGION) /\ Len(Q) = n /\ DOMAIN Q = 1 .. n
        /\ \A i \in DOMAIN R : Q[i] = R[i]
        /\ Q[n] = r
    BY <1>1
  <1>3. \A i \in DOMAIN Q : i \in DOMAIN R \/ i = n
    BY <1>1, <1>2
  <1>4. r.START \in Int /\ r.END \in Int
    BY MemoryAssumption DEF MEM_REGION, Addr
  <1>5. ASSUME NEW i \in DOMAIN R, NEW a \in Addr, Covers(R[i], a)
        PROVE  ~ Covers(r, a)
    <2>1. R[i].START \in Int /\ R[i].END \in Int /\ a \in Int
      BY Entries, MemoryAssumption DEF Addr
    <2>2. ~ (r.START <= R[i].END /\ R[i].START <= r.END)
      OBVIOUS
    <2> QED
      BY <1>4, <1>5, <2>1, <2>2 DEF Covers
  <1>6. n \in DOMAIN Q /\ n \notin DOMAIN R /\ n # 0
    BY <1>1, <1>2
  <1> HIDE DEF n
  <1>7. Table(Q)
    <2>1. \A i \in DOMAIN Q : Q[i].START <= Q[i].END /\ BufferFits(Q[i])
      BY <1>2, <1>3 DEF Table
    <2>2. \A i, j \in DOMAIN Q :
            (\E a \in Addr : Covers(Q[i], a) /\ Covers(Q[j], a)) => i = j
      <3> SUFFICES ASSUME NEW i \in DOMAIN Q, NEW j \in DOMAIN Q, NEW a \in Addr,
                          Covers(Q[i], a), Covers(Q[j], a)
                   PROVE  i = j
        OBVIOUS
      <3>1. CASE i \in DOMAIN R /\ j \in DOMAIN R
        BY <1>2, <3>1 DEF Table
      <3>2. CASE i = n /\ j \in DOMAIN R
        BY <1>2, <1>5, <3>2
      <3>3. CASE i \in DOMAIN R /\ j = n
        BY <1>2, <1>5, <3>3
      <3> QED
        BY <1>3, <3>1, <3>2, <3>3
    <2> QED
      BY <1>2, <2>1, <2>2 DEF Table
  <1>8. ASSUME NEW a \in Addr, Covers(r, a)
        PROVE  /\ Find(R, a) = 0 /\ KindAt(Q, a) = r.TYPE
               /\ ByteAt(Q, a) = IF r.DATA = NoData THEN 255
                                 ELSE r.DATA[a - r.START]
    <2>1. Find(R, a) = 0
      BY <1>5, <1>8, FindMiss
    <2>2. Find(Q, a) = n
      BY <1>2, <1>6, <1>7, <1>8, FindHit
    <2> QED
      BY <1>2, <1>6, <2>1, <2>2 DEF KindAt, ByteAt
  <1>9. ASSUME NEW a \in Addr, ~ Covers(r, a)
        PROVE  KindAt(Q, a) = KindAt(R, a) /\ ByteAt(Q, a) = ByteAt(R, a)
    <2>1. CASE Find(R, a) = 0
      <3>1. \A i \in DOMAIN R : ~ Covers(R[i], a)
        BY <2>1, FindNotZero
      <3>2. Find(Q, a) = 0
        BY <1>2, <1>3, <1>9, <3>1, FindMiss
      <3> QED
        BY <2>1, <3>2 DEF KindAt, ByteAt
    <2>2. CASE Find(R, a) # 0
      <3> DEFINE i == Find(R, a)
      <3>1. i \in DOMAIN R /\ Covers(R[i], a)
        BY <2>2, Found
      <3>2. i \in DOMAIN Q /\ Q[i] = R[i]
        BY <1>1, <1>2, <3>1 DEF n
      <3>3. Find(Q, a) = i
        BY <1>7, <3>1, <3>2, FindHit
      <3> QED
        BY <3>2, <3>3 DEF KindAt, ByteAt
    <2> QED
      BY <2>1, <2>2
  <1> QED
    BY <1>7, <1>8, <1>9

----------------------------------------------------------------------------
(* The table the program has *)

\* The invariant of the memory system.
MemInv ==
  /\ Table(REGIONS) /\ Len(REGIONS) <= MAX_MEM_REGIONS
  /\ BUS \in {"NULL", "region"}
  /\ port \in MemByte

\* The functions of memory.c look into that table.
LEMMA InTheTable ==
  ASSUME NEW a
  PROVE  /\ find_region(a) = Find(REGIONS, a)
         /\ TypeAt(a) = KindAt(REGIONS, a)
         /\ HasData(a) <=> /\ Find(REGIONS, a) # 0
                           /\ REGIONS[Find(REGIONS, a)].DATA # NoData
  <1>1. find_region(a) = Find(REGIONS, a)
    BY DEF find_region, Find
  <1> QED
    BY <1>1 DEF TypeAt, HasData, KindAt

\* The addresses that hold data are those of RAM and ROM.
LEMMA HasDataIs ==
  ASSUME MemInv, NEW a \in Addr
  PROVE  HasData(a) <=> KindAt(REGIONS, a) \in {"RAM", "ROM"}
  <1>1. Table(REGIONS)
    BY DEF MemInv
  <1> QED
    BY <1>1, InTheTable, Memory

\* mem_region_load stops at the first address without data: there is one, or
\* the whole buffer is stored.
LEMMA LoadableIs ==
  ASSUME NEW addr \in Int, NEW len \in Nat
  PROVE  /\ Loadable(addr, len) \in 0 .. len
         /\ \A k \in 0 .. Loadable(addr, len) - 1 : HasData(Short(addr + k))
         /\ Loadable(addr, len) < len =>
              ~ HasData(Short(addr + Loadable(addr, len)))
  <1> DEFINE Ends == {n \in 0 .. len : n < len => ~ HasData(Short(addr + n))}
  <1>1. len \in Ends /\ Ends \in SUBSET Nat
    OBVIOUS
  <1>2. PICK n \in Ends : \A m \in Ends : n <= m
    <2> HIDE DEF Ends
    <2> QED
      BY <1>1, Least
  <1>3. n \in 0 .. len /\ (n < len => ~ HasData(Short(addr + n)))
    OBVIOUS
  <1>4. ASSUME NEW k \in 0 .. n - 1 PROVE HasData(Short(addr + k))
    <2>1. k \in 0 .. len /\ k < len /\ ~ n <= k
      BY <1>3
    <2> QED
      BY <1>2, <2>1
  <1> QED
    BY <1>3, <1>4 DEF Loadable

\* Storing the first n bytes of a buffer from addr on.
LEMMA StoredIs ==
  ASSUME MemInv, NEW addr \in Addr, NEW n \in Nat, n < ADDR_SPACE,
         NEW data, \A k \in 1 .. n : data[k] \in MemByte,
         NEW Q, Q = Stored(addr, data, n)
  PROVE  /\ SameShape(REGIONS, Q)
         /\ \A x \in Addr :
              ByteAt(Q, x) = IF /\ KindAt(REGIONS, x) \in {"RAM", "ROM"}
                                /\ Short(x - addr) < n
                             THEN data[Short(x - addr) + 1]
                             ELSE ByteAt(REGIONS, x)
  <1> DEFINE R == REGIONS
             New(i, o) == LET k == Short((R[i].START + o) - addr)
                          IN  IF k < n THEN data[k + 1] ELSE R[i].DATA[o]
             D == [i \in DOMAIN R |-> [o \in DOMAIN R[i].DATA |-> New(i, o)]]
  <1>1. Table(R)
    BY DEF MemInv
  <1>2. ASSUME NEW i \in DOMAIN R, NEW o \in DOMAIN R[i].DATA
        PROVE  /\ R[i].TYPE # "IO"
               /\ R[i].START + o \in Addr
               /\ find_region(R[i].START + o) = i
               /\ New(i, o) \in MemByte
    <2>1. R[i].TYPE # "IO"
      <3>1. DOMAIN NoData = {}
        BY DEF NoData
      <3> QED
        BY <1>1, <3>1, IoHasNoData
    <2>2. /\ R[i].DATA \in [0 .. R[i].END - R[i].START -> MemByte]
          /\ o \in 0 .. R[i].END - R[i].START
      BY <1>1, <2>1, Buffer
    <2>3. R[i].START + o \in Addr /\ Covers(R[i], R[i].START + o)
      BY <1>1, <2>2, Entries, MemoryAssumption DEF Addr, Covers
    <2>4. find_region(R[i].START + o) = i
      BY <1>1, <2>3, FindHit, InTheTable
    <2>5. (R[i].START + o) - addr \in Int
      <3>1. R[i].START \in Int /\ o \in Int
        BY <1>1, <2>2, Entries
      <3>2. addr \in Int
        BY MemoryAssumption DEF Addr
      <3> QED
        BY <3>1, <3>2
    <2>6. Short((R[i].START + o) - addr) \in Nat
      BY <2>5, ShortIsAddr, MemoryAssumption DEF Addr
    <2>7. New(i, o) \in MemByte
      <3> DEFINE k == Short((R[i].START + o) - addr)
      <3>1. k < n => k + 1 \in 1 .. n
        BY <2>6
      <3> HIDE DEF k
      <3>2. k < n => data[k + 1] \in MemByte
        BY <3>1
      <3>3. R[i].DATA[o] \in MemByte
        BY <2>2
      <3> QED
        BY <3>2, <3>3 DEF k
    <2> QED
      BY <2>1, <2>3, <2>4, <2>7
  <1>3. Q = Refilled(R, D)
    <2> DEFINE Code(i, o) ==
                 LET a == R[i].START + o
                     k == Short(a - addr)
                 IN  IF k < n /\ find_region(a) = i THEN data[k + 1]
                                                   ELSE R[i].DATA[o]
    <2>1. Q = [i \in DOMAIN R |->
                 [R[i] EXCEPT !.DATA = [o \in DOMAIN R[i].DATA |-> Code(i, o)]]]
      BY DEF Stored
    <2>2. ASSUME NEW i \in DOMAIN R, NEW o \in DOMAIN R[i].DATA
          PROVE  Code(i, o) = New(i, o)
      BY <1>2
    <2> HIDE DEF New, Code
    <2>3. ASSUME NEW i \in DOMAIN R
          PROVE  [o \in DOMAIN R[i].DATA |-> Code(i, o)] = D[i]
      BY <2>2
    <2> HIDE DEF D
    <2> QED
      BY <2>1, <2>3 DEF Refilled
  <1>4. Fitting(R, D)
    <2> SUFFICES ASSUME NEW i \in DOMAIN R
                 PROVE  IF R[i].TYPE = "IO" THEN D[i] = NoData
                        ELSE D[i] \in [0 .. R[i].END - R[i].START -> MemByte]
      BY DEF Fitting
    <2>1. CASE R[i].TYPE = "IO"
      <3>1. R[i].DATA = << >> /\ DOMAIN R[i].DATA = {}
        BY <1>1, <2>1, IoHasNoData DEF NoData
      <3> QED
        BY <2>1, <3>1 DEF NoData
    <2>2. CASE R[i].TYPE # "IO"
      <3>1. DOMAIN R[i].DATA = 0 .. R[i].END - R[i].START
        BY <1>1, <2>2, Buffer
      <3>2. \A o \in DOMAIN R[i].DATA : New(i, o) \in MemByte
        BY <1>2
      <3> HIDE DEF New
      <3> QED
        BY <2>2, <3>1, <3>2
    <2> QED
      BY <2>1, <2>2
  <1> HIDE DEF D
  <1>5. /\ SameShape(R, Q)
        /\ \A i \in DOMAIN R : Q[i].DATA = D[i]
    BY <1>1, <1>3, <1>4, NewBuffers
  <1>6. Table(Q) /\ \A x \in Addr : /\ Find(Q, x) = Find(R, x)
                                    /\ KindAt(Q, x) = KindAt(R, x)
    BY <1>1, <1>5, ShapeKept
  <1>7. ASSUME NEW x \in Addr
        PROVE  ByteAt(Q, x) = IF /\ KindAt(R, x) \in {"RAM", "ROM"}
                                 /\ Short(x - addr) < n
                              THEN data[Short(x - addr) + 1]
                              ELSE ByteAt(R, x)
    <2>1. CASE KindAt(R, x) \notin {"RAM", "ROM"}
      <3>1. ByteAt(R, x) = 255 /\ ByteAt(Q, x) = 255
        BY <1>1, <1>6, <2>1, Memory
      <3> QED
        BY <2>1, <3>1
    <2>2. CASE KindAt(R, x) \in {"RAM", "ROM"}
      <3> DEFINE i == Find(R, x)
                 o == x - R[i].START
      <3>1. /\ i \in DOMAIN R /\ R[i].TYPE # "IO"
            /\ o \in 0 .. R[i].END - R[i].START
            /\ ByteAt(R, x) = R[i].DATA[o]
        BY <1>1, <2>2, Memory
      <3>2. ByteAt(Q, x) = Q[i].DATA[x - Q[i].START]
        <4>1. KindAt(Q, x) \in {"RAM", "ROM"} /\ Find(Q, x) = i
          BY <1>6, <2>2
        <4>2. ByteAt(Q, x) = Q[Find(Q, x)].DATA[x - Q[Find(Q, x)].START]
          BY <1>6, <4>1, Memory
        <4> QED
          BY <4>1, <4>2
      <3>3. ByteAt(Q, x) = D[i][o]
        BY <1>5, <3>1, <3>2 DEF SameShape
      <3>4. o \in DOMAIN R[i].DATA
        BY <1>1, <3>1, Buffer
      <3>5. D[i][o] = New(i, o)
        BY <3>1, <3>4 DEF D
      <3>6. R[i].START + o = x
        BY <1>1, <3>1, Entries, MemoryAssumption DEF Addr
      <3>7. New(i, o) = IF Short(x - addr) < n THEN data[Short(x - addr) + 1]
                                               ELSE R[i].DATA[o]
        BY <3>6
      <3> HIDE DEF New, i, o
      <3> QED
        BY <2>2, <3>1, <3>3, <3>5, <3>7
    <2> QED
      BY <2>1, <2>2
  <1> QED
    BY <1>5, <1>7
----------------------------------------------------------------------------
(* What each operation does to the table *)

\* Bytes are stored in a run that may wrap around: the k-th byte lands k
\* addresses further on.
LEMMA Around ==
  ASSUME NEW addr \in Addr, NEW k \in Addr, NEW x \in Addr
  PROVE  x = Short(addr + k) <=> Short(x - addr) = k
  <1> DEFINE m == ADDR_SPACE
  <1>1. /\ m \in Nat \ {0} /\ addr \in 0 .. m - 1 /\ k \in 0 .. m - 1
        /\ x \in 0 .. m - 1
    BY MemoryAssumption DEF Addr
  <1>2. Short(addr + k) = (addr + k) % m /\ Short(x - addr) = (x - addr) % m
    BY DEF Short
  <1> HIDE DEF m
  <1>3. \A n \in Int, r \in 0 .. m - 1 : n = r \/ n = r - m \/ n = r + m
                                          => n % m = r
    BY <1>1
  <1>4. (addr + k) % m = IF addr + k < m THEN addr + k ELSE (addr + k) - m
    <2>1. CASE addr + k < m
      BY <1>1, <1>3, <2>1
    <2>2. CASE ~ addr + k < m
      <3>1. (addr + k) - m \in 0 .. m - 1 /\ addr + k = ((addr + k) - m) + m
        BY <1>1, <2>2
      <3>2. (addr + k) % m = (addr + k) - m
        BY <1>1, <1>3, <3>1
      <3> QED
        BY <2>2, <3>2
    <2> QED
      BY <2>1, <2>2
  <1>5. (x - addr) % m = IF x >= addr THEN x - addr ELSE (x - addr) + m
    <2>1. CASE x >= addr
      <3>1. x - addr \in 0 .. m - 1
        BY <1>1, <2>1
      <3> QED
        BY <1>3, <2>1, <3>1
    <2>2. CASE ~ x >= addr
      <3>1. (x - addr) + m \in 0 .. m - 1 /\ x - addr = ((x - addr) + m) - m
        BY <1>1, <2>2
      <3>2. (x - addr) % m = (x - addr) + m
        BY <1>1, <1>3, <3>1
      <3> QED
        BY <2>2, <3>2
    <2> QED
      BY <2>1, <2>2
  <1> QED
    BY <1>1, <1>2, <1>4, <1>5

\* An operation that stores nothing keeps the table.
LEMMA SameIsSame ==
  ASSUME NEW R, Table(R) PROVE SameShape(R, R)
  BY IoHasNoData DEF SameShape, Table

\* The empty table.
LEMMA EmptyTable ==
  /\ Table(<< >>)
  /\ \A a : KindAt(<< >>, a) = "none" /\ ByteAt(<< >>, a) = 255
  <1>1. Table(<< >>)
    BY DEF Table
  <1>2. ASSUME NEW a PROVE Find(<< >>, a) = 0
    BY FindMiss
  <1> QED
    BY <1>1, <1>2 DEF KindAt, ByteAt

\* A region that passes the checks of the mem_region_add functions.
LEMMA AddEffect ==
  ASSUME MemInv, NEW start \in Addr, NEW size \in Addr, Addable(start, size),
         NEW type \in {"RAM", "ROM", "IO"}, NEW data,
         IF type = "IO" THEN data = NoData
         ELSE data = [o \in 0 .. size - 1 |-> 0],
         NEW rh \in BOOLEAN, NEW wh \in BOOLEAN,
         Add(Region(type, start, size, data, rh, wh))
  PROVE  /\ Table(REGIONS') /\ Len(REGIONS') <= MAX_MEM_REGIONS
         /\ size > 0 /\ start + size <= ADDR_SPACE
         /\ \A a \in Addr :
              IF a \in start .. start + size - 1
              THEN /\ KindAt(REGIONS, a) = "none"
                   /\ KindAt(REGIONS', a) = type
                   /\ ByteAt(REGIONS', a) = IF type = "IO" THEN 255 ELSE 0
              ELSE /\ KindAt(REGIONS', a) = KindAt(REGIONS, a)
                   /\ ByteAt(REGIONS', a) = ByteAt(REGIONS, a)
  <1> DEFINE r == Region(type, start, size, data, rh, wh)
             end == start + size - 1
  <1>1. Table(REGIONS) /\ Len(REGIONS) < MAX_MEM_REGIONS
    BY DEF MemInv, Addable
  <1>2. ADDR_SPACE \in Nat /\ start \in Nat /\ size \in Nat
    BY MemoryAssumption DEF Addr
  <1>3. size > 0 /\ start + size <= ADDR_SPACE
    BY <1>2 DEF Addable
  <1>4. end \in Addr /\ start <= end /\ size - 1 \in Addr
        /\ size - 1 = end - start
    BY <1>2, <1>3 DEF Addr
  <1>5. Short(start + size - 1) = end
    BY <1>4, ShortOfAddr
  <1>6. r = [START |-> start, END |-> end, TYPE |-> type, READ_HANDLER |-> rh,
             WRITE_HANDLER |-> wh, DATA |-> data]
    BY <1>5 DEF Region
  <1>7. data \in {NoData} \cup UNION {[0 .. n -> MemByte] : n \in Addr}
    <2>1. CASE type = "IO"
      BY <2>1
    <2>2. CASE type # "IO"
      <3>1. data \in [0 .. size - 1 -> MemByte]
        BY <2>2, MemoryAssumption
      <3> QED
        BY <1>4, <3>1
    <2> QED
      BY <2>1, <2>2
  <1>8. r \in MEM_REGION /\ r.START <= r.END
    BY <1>4, <1>6, <1>7 DEF MEM_REGION
  <1>9. BufferFits(r)
    <2>1. CASE type = "IO"
      BY <1>6, <2>1 DEF BufferFits
    <2>2. CASE type # "IO"
      <3>1. DOMAIN data = 0 .. end - start
        BY <1>4, <2>2
      <3> QED
        BY <1>6, <2>2, <3>1 DEF BufferFits
    <2> QED
      BY <2>1, <2>2
  <1>10. \A i \in DOMAIN REGIONS :
           ~ (r.START <= REGIONS[i].END /\ REGIONS[i].START <= r.END)
    BY <1>5, <1>6 DEF Addable, region_overlaps
  <1>11. REGIONS' = Append(REGIONS, r)
    BY DEF Add
  <1>12. \A a \in Addr : Covers(r, a) <=> a \in start .. end
    BY <1>2, <1>4, <1>6 DEF Covers, Addr
  <1>13. r.TYPE = type /\ r.DATA = data /\ r.START = start
    BY <1>6
  <1> HIDE DEF r, end
  <1>14. /\ Table(REGIONS')
         /\ \A a \in Addr :
              IF Covers(r, a)
              THEN /\ Find(REGIONS, a) = 0 /\ KindAt(REGIONS', a) = r.TYPE
                   /\ ByteAt(REGIONS', a) = IF r.DATA = NoData THEN 255
                                            ELSE r.DATA[a - r.START]
              ELSE /\ KindAt(REGIONS', a) = KindAt(REGIONS, a)
                   /\ ByteAt(REGIONS', a) = ByteAt(REGIONS, a)
    BY <1>1, <1>8, <1>9, <1>10, <1>11, Appended, ZenonT(60)
  <1>15. Len(REGIONS') <= MAX_MEM_REGIONS
    BY <1>1, <1>11, MemoryAssumption DEF Table
  <1>16. ASSUME NEW a \in start .. end
         PROVE  (IF data = NoData THEN 255 ELSE data[a - start])
                  = IF type = "IO" THEN 255 ELSE 0
    <2>1. CASE type = "IO"
      BY <2>1
    <2>2. CASE type # "IO"
      <3>1. a - start \in 0 .. size - 1 /\ 0 \in 0 .. size - 1
        BY <1>2, <1>4
      <3>2. DOMAIN data = 0 .. size - 1 /\ DOMAIN NoData = {}
        BY <2>2 DEF NoData
      <3>3. data # NoData
        BY <3>1, <3>2
      <3> QED
        BY <2>2, <3>1, <3>3
    <2> QED
      BY <2>1, <2>2
  <1>17. ASSUME NEW a \in Addr
         PROVE  IF a \in start .. end
                THEN /\ KindAt(REGIONS, a) = "none"
                     /\ KindAt(REGIONS', a) = type
                     /\ ByteAt(REGIONS', a) = IF type = "IO" THEN 255 ELSE 0
                ELSE /\ KindAt(REGIONS', a) = KindAt(REGIONS, a)
                     /\ ByteAt(REGIONS', a) = ByteAt(REGIONS, a)
    <2>1. CASE a \in start .. end
      BY <1>12, <1>13, <1>14, <1>16, <2>1 DEF KindAt
    <2>2. CASE a \notin start .. end
      BY <1>12, <1>14, <2>2
    <2> QED
      BY <2>1, <2>2
  <1> QED
    BY <1>3, <1>14, <1>15, <1>17 DEF end
\* A write of the CPU reaches RAM, if the bus is connected.
LEMMA WriteEffect ==
  ASSUME MemInv, NEW a \in Addr, NEW b \in MemByte, bus_write(a, b)
  PROVE  /\ SameShape(REGIONS, REGIONS') /\ BUS' = BUS /\ port' \in MemByte
         /\ \A x \in Addr :
              ByteAt(REGIONS', x) =
                IF x = a /\ BUS # "NULL" /\ KindAt(REGIONS, a) = "RAM"
                THEN b ELSE ByteAt(REGIONS, x)
  <1> DEFINE i == find_region(a)
             type == IF BUS = "NULL" THEN "none" ELSE TypeAt(a)
  <1>1. Table(REGIONS) /\ port \in MemByte
    BY DEF MemInv
  <1>2. i = Find(REGIONS, a) /\ TypeAt(a) = KindAt(REGIONS, a)
    BY InTheTable
  <1>3. \/ /\ type = "RAM"
           /\ REGIONS' = [REGIONS EXCEPT
                            ![i].DATA[Short(a - REGIONS[i].START)] = b]
           /\ port' = port
        \/ /\ type # "RAM"
           /\ REGIONS' = REGIONS /\ port' \in {port, b}
    BY DEF bus_write
  <1>4. BUS' = BUS /\ port' \in MemByte
    BY <1>1, <1>3 DEF bus_write
  <1>5. CASE type = "RAM"
    <2>1. BUS # "NULL" /\ KindAt(REGIONS, a) = "RAM"
      BY <1>2, <1>5
    <2>2. Short(a - REGIONS[i].START) = a - REGIONS[i].START
      BY <1>1, <1>2, <2>1, Memory
    <2>3. REGIONS' = Poke(REGIONS, i, a - REGIONS[i].START, b)
      BY <1>3, <1>5, <2>2 DEF Poke
    <2> HIDE DEF i
    <2>4. /\ SameShape(REGIONS, REGIONS')
          /\ \A x \in Addr : ByteAt(REGIONS', x) =
                               IF x = a THEN b ELSE ByteAt(REGIONS, x)
      BY <1>1, <1>2, <2>1, <2>3, Poked
    <2> QED
      BY <1>4, <2>1, <2>4
  <1>6. CASE type # "RAM"
    <2>1. REGIONS' = REGIONS
      BY <1>3, <1>6
    <2>2. ~ (BUS # "NULL" /\ KindAt(REGIONS, a) = "RAM")
      BY <1>2, <1>6
    <2> QED
      BY <1>1, <1>4, <2>1, <2>2, SameIsSame
  <1> QED
    BY <1>5, <1>6

\* A load stores a run of bytes in RAM and ROM, all of them if it succeeds.
LEMMA LoadEffect ==
  ASSUME MemInv, NEW addr \in Addr, NEW len \in Nat, len < ADDR_SPACE,
         NEW data, \A k \in 1 .. len : data[k] \in MemByte,
         REGIONS' = Stored(addr, data, Loadable(addr, len))
  PROVE  /\ SameShape(REGIONS, REGIONS')
         /\ Loadable(addr, len) \in 0 .. len
         /\ \A k \in 0 .. Loadable(addr, len) - 1 :
              KindAt(REGIONS, Short(addr + k)) \in {"RAM", "ROM"}
         /\ \A x \in Addr :
              ByteAt(REGIONS', x) =
                IF Short(x - addr) < Loadable(addr, len)
                THEN data[Short(x - addr) + 1]
                ELSE ByteAt(REGIONS, x)
  <1> DEFINE n == Loadable(addr, len)
  <1>1. addr \in Int /\ ADDR_SPACE \in Nat
    BY MemoryAssumption DEF Addr
  <1>2. n \in 0 .. len /\ \A k \in 0 .. n - 1 : HasData(Short(addr + k))
    BY <1>1, LoadableIs
  <1> HIDE DEF n
  <1>3. n \in Nat /\ n < ADDR_SPACE /\ \A k \in 1 .. n : data[k] \in MemByte
    BY <1>1, <1>2
  <1>4. REGIONS' = Stored(addr, data, n)
    BY DEF n
  <1>5. /\ SameShape(REGIONS, REGIONS')
        /\ \A x \in Addr :
             ByteAt(REGIONS', x) = IF /\ KindAt(REGIONS, x) \in {"RAM", "ROM"}
                                      /\ Short(x - addr) < n
                                   THEN data[Short(x - addr) + 1]
                                   ELSE ByteAt(REGIONS, x)
    BY <1>3, <1>4, StoredIs
  <1>6. ASSUME NEW k \in 0 .. n - 1
        PROVE  /\ Short(addr + k) \in Addr
               /\ KindAt(REGIONS, Short(addr + k)) \in {"RAM", "ROM"}
    <2>1. Short(addr + k) \in Addr
      BY <1>1, <1>3, ShortIsAddr
    <2> QED
      BY <1>2, <2>1, HasDataIs
  <1>7. ASSUME NEW x \in Addr, Short(x - addr) < n
        PROVE  KindAt(REGIONS, x) \in {"RAM", "ROM"}
    <2> DEFINE k == Short(x - addr)
    <2>1. x - addr \in Int
      BY <1>1, MemoryAssumption DEF Addr
    <2>2. k \in Addr /\ k \in 0 .. n - 1
      BY <1>1, <1>3, <1>7, <2>1, ShortIsAddr DEF Addr
    <2>3. x = Short(addr + k)
      BY <2>2, Around
    <2> QED
      BY <1>6, <2>2, <2>3
  <1> QED
    BY <1>2, <1>5, <1>6, <1>7 DEF n

\* A vector is stored whole, in one region, or not at all.
LEMMA VectorEffect ==
  ASSUME MemInv, NEW vec \in Addr, NEW lo \in MemByte, NEW hi \in MemByte,
         mem_region_set_vector(vec, lo, hi)
  PROVE  \/ /\ REGIONS' = REGIONS /\ last' = Failed("set_vector")
            /\ ~ (/\ KindAt(REGIONS, vec) \in {"RAM", "ROM"}
                  /\ vec + 1 \in Addr
                  /\ Find(REGIONS, vec + 1) = Find(REGIONS, vec))
         \/ /\ SameShape(REGIONS, REGIONS')
            /\ last' = Did("set_vector", vec, <<lo, hi>>)
            /\ vec + 1 \in Addr
            /\ KindAt(REGIONS, vec) \in {"RAM", "ROM"}
            /\ KindAt(REGIONS, vec + 1) \in {"RAM", "ROM"}
            /\ \A x \in Addr :
                 ByteAt(REGIONS', x) = IF x = vec THEN lo
                                       ELSE IF x = vec + 1 THEN hi
                                       ELSE ByteAt(REGIONS, x)
  <1> DEFINE i == find_region(vec)
             offset == Short(vec - REGIONS[i].START)
             ok == /\ HasData(vec)
                   /\ find_region(Short(vec + 1)) = i
                   /\ offset + 2 <= REGIONS[i].END - REGIONS[i].START + 1
  <1>1. Table(REGIONS)
    BY DEF MemInv
  <1>2. /\ i = Find(REGIONS, vec)
        /\ find_region(Short(vec + 1)) = Find(REGIONS, Short(vec + 1))
        /\ HasData(vec) <=> KindAt(REGIONS, vec) \in {"RAM", "ROM"}
    BY InTheTable, HasDataIs
  <1>3. \/ /\ ok
           /\ REGIONS' = [REGIONS EXCEPT ![i].DATA[offset] = lo,
                                         ![i].DATA[offset + 1] = hi]
           /\ last' = Did("set_vector", vec, <<lo, hi>>)
        \/ ~ ok /\ last' = Failed("set_vector") /\ REGIONS' = REGIONS
    BY DEF mem_region_set_vector
  <1>4. ADDR_SPACE \in Nat /\ vec \in Nat /\ vec < ADDR_SPACE
    BY MemoryAssumption DEF Addr
  <1>5. ASSUME HasData(vec)
        PROVE  /\ i \in DOMAIN REGIONS /\ offset = vec - REGIONS[i].START
               /\ REGIONS[i].START \in Int /\ REGIONS[i].END \in Int
               /\ REGIONS[i].END < ADDR_SPACE
    BY <1>1, <1>2, <1>4, <1>5, Memory, Entries DEF Addr
  <1>6. CASE ~ ok
    <2>1. ASSUME KindAt(REGIONS, vec) \in {"RAM", "ROM"}, vec + 1 \in Addr,
                 Find(REGIONS, vec + 1) = Find(REGIONS, vec)
          PROVE  ok
      <3>1. Short(vec + 1) = vec + 1
        BY <2>1, ShortOfAddr
      <3>2. Find(REGIONS, vec + 1) # 0
        BY <1>1, <2>1, Memory
      <3>3. Covers(REGIONS[i], vec + 1)
        BY <1>1, <1>2, <2>1, <3>2, Found
      <3>4. vec + 1 <= REGIONS[i].END
        BY <3>3 DEF Covers
      <3>5. HasData(vec)
        BY <1>2, <2>1
      <3>6. offset + 2 <= REGIONS[i].END - REGIONS[i].START + 1
        BY <1>4, <1>5, <3>4, <3>5
      <3> QED
        BY <1>2, <2>1, <3>1, <3>5, <3>6
    <2> QED
      BY <1>3, <1>6, <2>1
  <1>7. CASE ok
    <2>1. KindAt(REGIONS, vec) \in {"RAM", "ROM"} /\ HasData(vec)
      BY <1>2, <1>7
    <2>2. vec + 1 \in Addr /\ Short(vec + 1) = vec + 1
      <3>1. vec + 1 \in Addr
        BY <1>4, <1>5, <1>7, <2>1 DEF Addr
      <3> QED
        BY <3>1, ShortOfAddr
    <2>3. Find(REGIONS, vec + 1) = i
      BY <1>2, <1>7, <2>2
    <2>4. i # 0 /\ REGIONS[i].DATA # NoData
      BY <1>1, <1>2, <2>1, Memory
    <2>5. KindAt(REGIONS, vec + 1) \in {"RAM", "ROM"}
      BY <1>1, <2>2, <2>3, <2>4, Memory
    <2>6. offset = vec - REGIONS[i].START /\ REGIONS[i].START \in Int
      BY <1>5, <2>1
    <2>7. offset + 1 = (vec + 1) - REGIONS[i].START
      BY <1>4, <2>6
    <2>8. REGIONS' = Poke(Poke(REGIONS, i, offset, lo), i, offset + 1, hi)
      BY <1>3, <1>7 DEF Poke
    <2>9. last' = Did("set_vector", vec, <<lo, hi>>)
      BY <1>3, <1>7
    <2> HIDE DEF i, offset, ok
    <2> DEFINE Q == Poke(REGIONS, i, offset, lo)
    <2>10. /\ SameShape(REGIONS, Q)
           /\ \A x \in Addr : ByteAt(Q, x) = IF x = vec THEN lo
                                             ELSE ByteAt(REGIONS, x)
      BY <1>1, <1>2, <2>1, <2>6, Poked
    <2> HIDE DEF Q
    <2>11. /\ Table(Q) /\ Find(Q, vec + 1) = Find(REGIONS, vec + 1)
           /\ KindAt(Q, vec + 1) = KindAt(REGIONS, vec + 1)
      BY <1>1, <2>2, <2>10, ShapeKept
    <2>12. i \in DOMAIN REGIONS /\ Q[i].START = REGIONS[i].START
      BY <1>5, <2>1, <2>10 DEF SameShape
    <2>13. REGIONS' = Poke(Q, i, offset + 1, hi)
      BY <2>8 DEF Q
    <2>14. /\ i = Find(Q, vec + 1) /\ offset + 1 = (vec + 1) - Q[i].START
           /\ KindAt(Q, vec + 1) \in {"RAM", "ROM"}
      BY <2>3, <2>5, <2>7, <2>11, <2>12
    <2>15. /\ SameShape(Q, REGIONS')
           /\ \A x \in Addr : ByteAt(REGIONS', x) = IF x = vec + 1 THEN hi
                                                    ELSE ByteAt(Q, x)
      BY <2>2, <2>11, <2>13, <2>14, Poked
    <2>16. SameShape(REGIONS, REGIONS')
      <3>1. DOMAIN Q = DOMAIN REGIONS
        BY <1>1, <2>10, ShapeKept
      <3> QED
        BY <2>10, <2>15, <3>1 DEF SameShape
    <2>17. vec + 1 # vec
      BY <1>4
    <2> QED
      BY <2>1, <2>2, <2>5, <2>9, <2>10, <2>15, <2>16, <2>17
  <1> QED
    BY <1>6, <1>7
----------------------------------------------------------------------------
(* What the CPU reads *)

\* The bus reads the byte of every address of RAM and ROM.
LEMMA BusReads ==
  ASSUME Table(REGIONS), BUS = "region",
         NEW a \in Addr, KindAt(REGIONS, a) \in {"RAM", "ROM"}
  PROVE  bus_read(a) = ByteAt(REGIONS, a)
  <1> DEFINE i == Find(REGIONS, a)
  <1>1. /\ i # 0 /\ REGIONS[i].DATA # NoData /\ REGIONS[i].TYPE # "IO"
        /\ Short(a - REGIONS[i].START) = a - REGIONS[i].START
        /\ ByteAt(REGIONS, a) = REGIONS[i].DATA[a - REGIONS[i].START]
    BY Memory
  <1>2. find_region(a) = i
    BY InTheTable
  <1> HIDE DEF i
  <1> QED
    BY <1>1, <1>2 DEF bus_read, region_bus_read

\* The same, after a step.
LEMMA BusReadsNext ==
  ASSUME Table(REGIONS'), BUS' = "region",
         NEW a \in Addr, KindAt(REGIONS', a) \in {"RAM", "ROM"}
  PROVE  bus_read(a)' = ByteAt(REGIONS', a)
  <1> DEFINE i == Find(REGIONS', a)
  <1>1. /\ i # 0 /\ REGIONS'[i].DATA # NoData /\ REGIONS'[i].TYPE # "IO"
        /\ Short(a - REGIONS'[i].START) = a - REGIONS'[i].START
        /\ ByteAt(REGIONS', a) = REGIONS'[i].DATA[a - REGIONS'[i].START]
    BY Memory
  <1>2. find_region(a)' = i
    BY DEF find_region, Find
  <1> HIDE DEF i
  <1> QED
    BY <1>1, <1>2 DEF bus_read, region_bus_read

\* If the table keeps its shape and I/O its port, the CPU reads a byte that
\* was not stored to as before.
LEMMA ReadsAsBefore ==
  ASSUME Table(REGIONS), SameShape(REGIONS, REGIONS'), BUS' = BUS, port' = port,
         NEW a \in Addr, ByteAt(REGIONS', a) = ByteAt(REGIONS, a)
  PROVE  bus_read(a)' = bus_read(a)
  <1> DEFINE i == Find(REGIONS, a)
  <1>1. /\ Table(REGIONS') /\ Find(REGIONS', a) = i
        /\ KindAt(REGIONS', a) = KindAt(REGIONS, a)
    BY ShapeKept
  <1>2. find_region(a) = i /\ find_region(a)' = i
    BY <1>1 DEF find_region, Find
  <1>3. CASE BUS = "NULL"
    BY <1>3 DEF bus_read
  <1>4. CASE i = 0
    BY <1>2, <1>4 DEF bus_read, region_bus_read
  <1>5. CASE BUS # "NULL" /\ i # 0
    <2>1. i \in DOMAIN REGIONS
      BY <1>5, Found
    <2>2. REGIONS'[i].TYPE = REGIONS[i].TYPE
          /\ REGIONS'[i].READ_HANDLER = REGIONS[i].READ_HANDLER
      BY <2>1 DEF SameShape
    <2>3. CASE REGIONS[i].TYPE = "IO"
      <3>1. REGIONS[i].DATA = NoData /\ REGIONS'[i].DATA = NoData
        BY <2>1, <2>3, IoHasNoData DEF SameShape
      <3> HIDE DEF i
      <3> QED
        BY <1>2, <1>5, <2>2, <2>3, <3>1 DEF bus_read, region_bus_read
    <2>4. CASE REGIONS[i].TYPE # "IO"
      <3>1. KindAt(REGIONS, a) = REGIONS[i].TYPE
        BY <1>5 DEF KindAt
      <3>2. KindAt(REGIONS, a) \in {"RAM", "ROM"}
        BY <2>1, <2>4, <3>1, Entries
      <3>3. /\ REGIONS[i].DATA # NoData
            /\ Short(a - REGIONS[i].START) = a - REGIONS[i].START
            /\ ByteAt(REGIONS, a) = REGIONS[i].DATA[a - REGIONS[i].START]
        BY <3>2, Memory
      <3>4. KindAt(REGIONS', a) \in {"RAM", "ROM"}
        BY <1>1, <3>2
      <3>5. /\ REGIONS'[Find(REGIONS', a)].DATA # NoData
            /\ ByteAt(REGIONS', a) =
                 REGIONS'[Find(REGIONS', a)].DATA[
                   a - REGIONS'[Find(REGIONS', a)].START]
        BY <1>1, <3>4, Memory
      <3>6. REGIONS'[i].START = REGIONS[i].START
        BY <2>1 DEF SameShape
      <3>7. /\ REGIONS'[i].DATA # NoData
            /\ REGIONS'[i].DATA[a - REGIONS[i].START] = ByteAt(REGIONS, a)
        BY <1>1, <3>5, <3>6
      <3> HIDE DEF i
      <3> QED
        BY <1>2, <1>5, <2>2, <2>4, <3>3, <3>6, <3>7
           DEF bus_read, region_bus_read
    <2> QED
      BY <2>3, <2>4
  <1> QED
    BY <1>3, <1>4, <1>5

----------------------------------------------------------------------------
(* The flat address space *)

\* The refinement mapping, in terms of the table.
LEMMA Mapping ==
  /\ flatKind = [a \in Addr |-> KindAt(REGIONS, a)]
  /\ flatKind' = [a \in Addr |-> KindAt(REGIONS', a)]
  /\ flatVal = [a \in Addr |-> ByteAt(REGIONS, a)]
  /\ flatVal' = [a \in Addr |-> ByteAt(REGIONS', a)]
  <1>1. \A a : /\ find_region(a) = Find(REGIONS, a)
               /\ find_region(a)' = Find(REGIONS', a)
    BY DEF find_region, Find
  <1> QED
    BY <1>1 DEF flatKind, flatVal, TypeAt, HasData, KindAt, ByteAt

\* A step of the flat memory, or none.
FlatStep == [Flat!FlatNext]_(Flat!flatVars)

\* A step that stores nothing.
LEMMA FlatRejected ==
  ASSUME REGIONS' = REGIONS,
         last'.op \in {"add", "bus_write", "init", "set_vector", "load_bin"}
  PROVE  FlatStep
  <1>1. flatKind' = flatKind /\ flatVal' = flatVal
    BY Mapping
  <1> QED
    BY <1>1 DEF FlatStep, Flat!FlatNext, Flat!Rejected

\* A step that stores in a run of RAM and ROM.
LEMMA FlatStored ==
  ASSUME MemInv, SameShape(REGIONS, REGIONS'),
         last'.op \in {"load", "set_vector", "load_bin"},
         NEW addr \in Addr, NEW n \in 0 .. ADDR_SPACE,
         \A k \in 0 .. n - 1 :
           KindAt(REGIONS, Short(addr + k)) \in {"RAM", "ROM"},
         \A x \in Addr :
           (\A k \in 0 .. n - 1 : x # Short(addr + k))
             => ByteAt(REGIONS', x) = ByteAt(REGIONS, x)
  PROVE  FlatStep
  <1> DEFINE run == {(addr + k) % ADDR_SPACE : k \in 0 .. n - 1}
  <1>1. Table(REGIONS) /\ Table(REGIONS')
        /\ \A a \in Addr : KindAt(REGIONS', a) = KindAt(REGIONS, a)
    BY ShapeKept DEF MemInv
  <1>2. flatKind' = flatKind
    BY <1>1, Mapping
  <1>3. flatVal' \in [Addr -> MemByte \cup {255}]
    <2>1. \A a \in Addr : ByteAt(REGIONS', a) \in MemByte \cup {255}
      BY <1>1, Memory
    <2> QED
      BY <2>1, Mapping
  <1>4. \A b \in run : b \in Addr /\ KindAt(REGIONS, b) \in {"RAM", "ROM"}
    <2> SUFFICES ASSUME NEW k \in 0 .. n - 1
                 PROVE  /\ Short(addr + k) \in Addr
                        /\ KindAt(REGIONS, Short(addr + k)) \in {"RAM", "ROM"}
      BY DEF Short
    <2>1. addr + k \in Int
      BY MemoryAssumption DEF Addr
    <2> QED
      BY <2>1, ShortIsAddr
  <1>5. \A b \in run : flatKind[b] \in {"RAM", "ROM"}
    BY <1>4, Mapping
  <1>6. \A b \in Addr \ run : ByteAt(REGIONS', b) = ByteAt(REGIONS, b)
    BY DEF Short
  <1>7. \A b \in Addr \ run : flatVal'[b] = flatVal[b]
    BY <1>6, Mapping
  <1>8. Addr = Flat!Cells
    BY DEF Addr, Flat!Cells
  <1>9. Flat!Store
    BY <1>2, <1>3, <1>5, <1>7, <1>8 DEF Flat!Store
  <1> QED
    BY <1>9 DEF FlatStep, Flat!FlatNext
----------------------------------------------------------------------------
(* One lemma per operation *)

\* Storing keeps the invariant.
LEMMA ShapeInv ==
  ASSUME MemInv, SameShape(REGIONS, REGIONS'), BUS' = BUS, port' \in MemByte
  PROVE  MemInv'
  <1>1. Table(REGIONS')
    BY ShapeKept DEF MemInv
  <1>2. Len(REGIONS') = Len(REGIONS)
    BY DEF SameShape
  <1> QED
    BY <1>1, <1>2 DEF MemInv

\* Only a load or a vector has anything to read back.
LEMMA NothingLoaded ==
  ASSUME last'.op \notin {"load", "set_vector", "load_bin"} \/ last'.result = -1
  PROVE  LoadReadsBack'
  BY DEF LoadReadsBack

\* A call of one of the mem_region_add functions that fails.
LEMMA AddFailsStep ==
  ASSUME MemInv, AddFails, UNCHANGED <<BUS, port>>
  PROVE  MemInv' /\ LoadReadsBack' /\ FlatStep
  <1>1. REGIONS' = REGIONS /\ last'.op = "add"
    BY DEF AddFails, Failed
  <1>2. MemInv'
    BY <1>1 DEF MemInv
  <1> QED
    BY <1>1, <1>2, NothingLoaded, FlatRejected

\* One that succeeds.
LEMMA AddStep ==
  ASSUME MemInv, UNCHANGED <<BUS, port>>,
         NEW start \in Addr, NEW size \in Addr,
         NEW type \in {"RAM", "ROM", "IO"}, NEW data,
         NEW rh \in BOOLEAN, NEW wh \in BOOLEAN,
         Addable(start, size),
         IF type = "IO" THEN data = NoData
         ELSE data = [o \in 0 .. size - 1 |-> 0],
         Add(Region(type, start, size, data, rh, wh))
  PROVE  MemInv' /\ LoadReadsBack' /\ FlatStep
  <1> DEFINE hi == start + size - 1
  <1>1. /\ Table(REGIONS') /\ Len(REGIONS') <= MAX_MEM_REGIONS
        /\ size > 0 /\ start + size <= ADDR_SPACE
        /\ \A a \in Addr :
             IF a \in start .. hi
             THEN /\ KindAt(REGIONS, a) = "none"
                  /\ KindAt(REGIONS', a) = type
                  /\ ByteAt(REGIONS', a) = IF type = "IO" THEN 255 ELSE 0
             ELSE /\ KindAt(REGIONS', a) = KindAt(REGIONS, a)
                  /\ ByteAt(REGIONS', a) = ByteAt(REGIONS, a)
    BY AddEffect
  <1>2. MemInv'
    BY <1>1 DEF MemInv
  <1>3. last'.op = "add"
    BY DEF Add, Did
  <1>4. hi \in Addr /\ start <= hi
    BY <1>1, MemoryAssumption DEF Addr
  <1>5. start .. hi \subseteq Addr
    BY <1>4, MemoryAssumption DEF Addr
  <1> HIDE DEF hi
  <1>6. \A a \in start .. hi : flatKind[a] = "none"
    BY <1>1, <1>5, Mapping
  <1>7. flatKind' = [a \in Addr |-> IF a \in start .. hi THEN type
                                    ELSE flatKind[a]]
    BY <1>1, Mapping
  <1>8. flatVal' = [a \in Addr |-> IF a \in start .. hi /\ type # "IO" THEN 0
                                   ELSE flatVal[a]]
    <2>1. ASSUME NEW a \in Addr
          PROVE  ByteAt(REGIONS', a) =
                   IF a \in start .. hi /\ type # "IO" THEN 0
                   ELSE ByteAt(REGIONS, a)
      <3>1. KindAt(REGIONS, a) = "none" => ByteAt(REGIONS, a) = 255
        BY Memory DEF MemInv
      <3> QED
        BY <1>1, <3>1
    <2> QED
      BY <2>1, Mapping
  <1>9. Addr = Flat!Cells
    BY DEF Addr, Flat!Cells
  <1>10. Flat!Map
    BY <1>3, <1>4, <1>6, <1>7, <1>8, <1>9 DEF Flat!Map
  <1> QED
    BY <1>2, <1>3, <1>10, NothingLoaded DEF FlatStep, Flat!FlatNext

\* mem_region_add_ram and mem_region_add_rom.
LEMMA AddRamRomStep ==
  ASSUME MemInv, NEW type \in {"RAM", "ROM"}, NEW start \in Addr,
         NEW size \in Addr, mem_region_add(type, start, size)
  PROVE  MemInv' /\ LoadReadsBack' /\ FlatStep
  <1>1. UNCHANGED <<BUS, port>>
    BY DEF mem_region_add
  <1>2. CASE AddFails
    BY <1>1, <1>2, AddFailsStep
  <1>3. CASE /\ Addable(start, size)
             /\ Add(Region(type, start, size, [o \in 0 .. size - 1 |-> 0],
                           FALSE, FALSE))
    <2> DEFINE data == [o \in 0 .. size - 1 |-> 0]
    <2>1. /\ type \in {"RAM", "ROM", "IO"} /\ FALSE \in BOOLEAN
          /\ IF type = "IO" THEN data = NoData
             ELSE data = [o \in 0 .. size - 1 |-> 0]
          /\ Add(Region(type, start, size, data, FALSE, FALSE))
      BY <1>3
    <2> HIDE DEF data
    <2> QED
      BY <1>1, <1>3, <2>1, AddStep
  <1> QED
    BY <1>2, <1>3 DEF mem_region_add

\* mem_region_add_io.
LEMMA AddIoStep ==
  ASSUME MemInv, NEW start \in Addr, NEW size \in Addr,
         NEW rh \in BOOLEAN, NEW wh \in BOOLEAN,
         mem_region_add_io(start, size, rh, wh)
  PROVE  MemInv' /\ LoadReadsBack' /\ FlatStep
  <1>1. UNCHANGED <<BUS, port>>
    BY DEF mem_region_add_io
  <1>2. CASE AddFails
    BY <1>1, <1>2, AddFailsStep
  <1>3. CASE /\ Addable(start, size)
             /\ Add(Region("IO", start, size, NoData, rh, wh))
    BY <1>1, <1>3, AddStep
  <1> QED
    BY <1>2, <1>3 DEF mem_region_add_io

\* mem_region_clear.
LEMMA ClearStep ==
  ASSUME MemInv, mem_region_clear
  PROVE  MemInv' /\ LoadReadsBack' /\ FlatStep
  <1>1. REGIONS' = << >> /\ last'.op = "clear" /\ UNCHANGED <<BUS, port>>
    BY DEF mem_region_clear, Did
  <1>2. MemInv'
    BY <1>1, EmptyTable, MemoryAssumption DEF MemInv
  <1>3. /\ flatKind' = [a \in Addr |-> "none"]
        /\ flatVal' = [a \in Addr |-> 255]
    BY <1>1, EmptyTable, Mapping
  <1>4. Flat!Clear
    BY <1>1, <1>3 DEF Flat!Clear, Flat!Cells, Addr
  <1> QED
    BY <1>1, <1>2, <1>4, NothingLoaded DEF FlatStep, Flat!FlatNext

\* mem_region_init.
LEMMA ConnectStep ==
  ASSUME MemInv, mem_region_init
  PROVE  MemInv' /\ LoadReadsBack' /\ FlatStep
  <1>1. REGIONS' = REGIONS /\ last'.op = "init" /\ BUS' = "region"
        /\ port' = port
    BY DEF mem_region_init, Did
  <1>2. MemInv'
    BY <1>1 DEF MemInv
  <1> QED
    BY <1>1, <1>2, NothingLoaded, FlatRejected

\* A write through the bus.
LEMMA BusWriteStep ==
  ASSUME MemInv, NEW a \in Addr, NEW b \in MemByte, bus_write(a, b)
  PROVE  MemInv' /\ LoadReadsBack' /\ FlatStep
  <1>1. /\ SameShape(REGIONS, REGIONS') /\ BUS' = BUS /\ port' \in MemByte
        /\ \A x \in Addr :
             ByteAt(REGIONS', x) =
               IF x = a /\ BUS # "NULL" /\ KindAt(REGIONS, a) = "RAM"
               THEN b ELSE ByteAt(REGIONS, x)
    BY WriteEffect
  <1>2. last'.op = "bus_write"
    BY DEF bus_write, Did
  <1>3. MemInv'
    BY <1>1, ShapeInv
  <1>4. \A x \in Addr : KindAt(REGIONS', x) = KindAt(REGIONS, x)
    BY <1>1, ShapeKept DEF MemInv
  <1>5. flatKind' = flatKind
    BY <1>4, Mapping
  <1>6. CASE BUS # "NULL" /\ KindAt(REGIONS, a) = "RAM"
    <2>1. flatKind[a] = "RAM"
      BY <1>6, Mapping
    <2>2. flatVal' = [flatVal EXCEPT ![a] = b]
      BY <1>1, <1>6, Mapping
    <2>3. Flat!BusWrite
      BY <1>2, <1>5, <2>1, <2>2 DEF Flat!BusWrite, Flat!Cells, Addr
    <2> QED
      BY <1>2, <1>3, <2>3, NothingLoaded DEF FlatStep, Flat!FlatNext
  <1>7. CASE ~ (BUS # "NULL" /\ KindAt(REGIONS, a) = "RAM")
    <2>1. flatVal' = flatVal
      BY <1>1, <1>7, Mapping
    <2>2. Flat!Rejected
      BY <1>2, <1>5, <2>1 DEF Flat!Rejected
    <2> QED
      BY <1>2, <1>3, <2>2, NothingLoaded DEF FlatStep, Flat!FlatNext
  <1> QED
    BY <1>6, <1>7
\* Storing a buffer, as mem_region_load does.
LEMMA StoreStep ==
  ASSUME MemInv, NEW addr \in Addr, NEW len \in Nat, len < ADDR_SPACE,
         NEW data, \A k \in 1 .. len : data[k] \in MemByte,
         REGIONS' = Stored(addr, data, Loadable(addr, len)),
         UNCHANGED <<BUS, port>>, last'.op \in {"load", "load_bin"}
  PROVE  MemInv' /\ FlatStep
  <1> DEFINE n == Loadable(addr, len)
  <1>1. /\ SameShape(REGIONS, REGIONS')
        /\ n \in 0 .. len
        /\ \A k \in 0 .. n - 1 :
             KindAt(REGIONS, Short(addr + k)) \in {"RAM", "ROM"}
        /\ \A x \in Addr :
             ByteAt(REGIONS', x) = IF Short(x - addr) < n
                                   THEN data[Short(x - addr) + 1]
                                   ELSE ByteAt(REGIONS, x)
    BY LoadEffect
  <1> HIDE DEF n
  <1>2. MemInv'
    BY <1>1, ShapeInv DEF MemInv
  <1>3. n \in 0 .. ADDR_SPACE /\ ADDR_SPACE \in Nat /\ addr \in Int
    BY <1>1, MemoryAssumption DEF Addr
  <1>4. ASSUME NEW x \in Addr, \A k \in 0 .. n - 1 : x # Short(addr + k)
        PROVE  ByteAt(REGIONS', x) = ByteAt(REGIONS, x)
    <2> DEFINE k == Short(x - addr)
    <2>1. x - addr \in Int
      BY <1>3, MemoryAssumption DEF Addr
    <2>2. k \in Addr
      BY <2>1, ShortIsAddr
    <2>3. x = Short(addr + k)
      BY <2>2, Around
    <2>4. ~ k < n
      BY <1>3, <1>4, <2>2, <2>3 DEF Addr
    <2> QED
      BY <1>1, <2>4
  <1> QED
    BY <1>1, <1>2, <1>3, <1>4, FlatStored

\* What a load that succeeded stored is there.
LEMMA LoadedAll ==
  ASSUME MemInv, NEW addr \in Addr, NEW len \in Nat, len < ADDR_SPACE,
         NEW data, \A k \in 1 .. len : data[k] \in MemByte,
         REGIONS' = Stored(addr, data, Loadable(addr, len)),
         AllLoadable(addr, len)
  PROVE  \A k \in 1 .. len :
           /\ Short(addr + k - 1) \in Addr
           /\ KindAt(REGIONS, Short(addr + k - 1)) \in {"RAM", "ROM"}
           /\ KindAt(REGIONS', Short(addr + k - 1)) \in {"RAM", "ROM"}
           /\ ByteAt(REGIONS', Short(addr + k - 1)) = data[k]
  <1> SUFFICES ASSUME NEW k \in 1 .. len
               PROVE  /\ Short(addr + k - 1) \in Addr
                      /\ KindAt(REGIONS, Short(addr + k - 1)) \in {"RAM", "ROM"}
                      /\ KindAt(REGIONS', Short(addr + k - 1)) \in {"RAM", "ROM"}
                      /\ ByteAt(REGIONS', Short(addr + k - 1)) = data[k]
    OBVIOUS
  <1> DEFINE x == Short(addr + k - 1)
  <1>1. ADDR_SPACE \in Nat /\ addr \in Int /\ k - 1 \in Addr /\ k - 1 < len
        /\ (k - 1) + 1 = k /\ k - 1 \in 0 .. len - 1
    BY MemoryAssumption DEF Addr
  <1>2. addr + k - 1 \in Int /\ addr + k - 1 = addr + (k - 1)
    BY <1>1
  <1>3. x \in Addr /\ x = Short(addr + (k - 1))
    BY <1>2, ShortIsAddr
  <1>4. Short(x - addr) = k - 1
    BY <1>1, <1>3, Around
  <1>5. Loadable(addr, len) = len
    BY DEF AllLoadable
  <1>6. /\ SameShape(REGIONS, REGIONS')
        /\ \A j \in 0 .. len - 1 :
             KindAt(REGIONS, Short(addr + j)) \in {"RAM", "ROM"}
        /\ \A y \in Addr :
             ByteAt(REGIONS', y) = IF Short(y - addr) < len
                                   THEN data[Short(y - addr) + 1]
                                   ELSE ByteAt(REGIONS, y)
    BY <1>5, LoadEffect
  <1> HIDE DEF x
  <1>7. KindAt(REGIONS, x) \in {"RAM", "ROM"}
    BY <1>1, <1>3, <1>6
  <1>8. KindAt(REGIONS', x) = KindAt(REGIONS, x)
    BY <1>3, <1>6, ShapeKept DEF MemInv
  <1>9. ByteAt(REGIONS', x) = data[k]
    BY <1>1, <1>3, <1>4, <1>6
  <1> QED
    BY <1>3, <1>7, <1>8, <1>9 DEF x

\* mem_region_load.
LEMMA LoadStep ==
  ASSUME MemInv, NEW addr \in Addr, NEW data \in Seq(MemByte),
         Len(data) < ADDR_SPACE, mem_region_load(addr, data)
  PROVE  MemInv' /\ LoadReadsBack' /\ FlatStep
  <1>1. /\ REGIONS' = Stored(addr, data, Loadable(addr, Len(data)))
        /\ last' = IF AllLoadable(addr, Len(data)) THEN Did("load", addr, data)
                                                   ELSE Failed("load")
        /\ UNCHANGED <<BUS, port>>
    BY DEF mem_region_load
  <1>2. Len(data) \in Nat /\ \A k \in 1 .. Len(data) : data[k] \in MemByte
    OBVIOUS
  <1>3. last'.op = "load"
    BY <1>1 DEF Did, Failed
  <1>4. MemInv' /\ FlatStep
    BY <1>1, <1>2, <1>3, StoreStep
  <1>5. CASE AllLoadable(addr, Len(data))
    <2>1. last'.addr = addr /\ last'.data = data
      BY <1>1, <1>5 DEF Did
    <2>2. ASSUME BUS' = "region", NEW k \in 1 .. Len(data)
          PROVE  bus_read(Short(addr + k - 1))' = data[k]
      <3> DEFINE x == Short(addr + k - 1)
      <3>1. /\ x \in Addr
            /\ KindAt(REGIONS', x) \in {"RAM", "ROM"}
            /\ ByteAt(REGIONS', x) = data[k]
        BY <1>1, <1>2, <1>5, LoadedAll
      <3>2. Table(REGIONS')
        BY <1>4 DEF MemInv
      <3> HIDE DEF x
      <3>3. bus_read(x)' = data[k]
        BY <2>2, <3>1, <3>2, BusReadsNext
      <3> QED
        BY <3>3 DEF x
    <2> QED
      BY <1>4, <2>1, <2>2 DEF LoadReadsBack
  <1>6. CASE ~ AllLoadable(addr, Len(data))
    <2>1. last'.result = -1
      BY <1>1, <1>6 DEF Failed
    <2> QED
      BY <1>4, <2>1, NothingLoaded
  <1> QED
    BY <1>5, <1>6

\* mem_region_set_vector.
LEMMA VectorStep ==
  ASSUME MemInv, NEW vec \in Addr, NEW lo \in MemByte, NEW hi \in MemByte,
         mem_region_set_vector(vec, lo, hi)
  PROVE  MemInv' /\ LoadReadsBack' /\ FlatStep
  <1>1. UNCHANGED <<BUS, port>>
    BY DEF mem_region_set_vector
  <1>2. CASE REGIONS' = REGIONS /\ last' = Failed("set_vector")
    <2>1. MemInv' /\ last'.op = "set_vector" /\ last'.result = -1
      BY <1>1, <1>2 DEF MemInv, Failed
    <2> QED
      BY <1>2, <2>1, NothingLoaded, FlatRejected
  <1>3. CASE /\ SameShape(REGIONS, REGIONS')
             /\ last' = Did("set_vector", vec, <<lo, hi>>)
             /\ vec + 1 \in Addr
             /\ KindAt(REGIONS, vec) \in {"RAM", "ROM"}
             /\ KindAt(REGIONS, vec + 1) \in {"RAM", "ROM"}
             /\ \A x \in Addr :
                  ByteAt(REGIONS', x) = IF x = vec THEN lo
                                        ELSE IF x = vec + 1 THEN hi
                                        ELSE ByteAt(REGIONS, x)
    <2>1. MemInv' /\ Table(REGIONS')
      BY <1>1, <1>3, ShapeInv DEF MemInv
    <2>2. /\ last'.op = "set_vector" /\ last'.addr = vec
          /\ last'.data = <<lo, hi>>
      BY <1>3 DEF Did
    <2>3. vec \in Int /\ vec + 1 # vec
      BY MemoryAssumption DEF Addr
    <2>4. /\ KindAt(REGIONS', vec) \in {"RAM", "ROM"}
          /\ KindAt(REGIONS', vec + 1) \in {"RAM", "ROM"}
          /\ ByteAt(REGIONS', vec) = lo /\ ByteAt(REGIONS', vec + 1) = hi
      BY <1>3, <2>3, ShapeKept DEF MemInv
    <2>5. Short(vec) = vec /\ Short(vec + 1) = vec + 1
      BY <1>3, ShortOfAddr
    <2>6. ASSUME BUS' = "region", NEW k \in 1 .. 2
          PROVE  bus_read(Short(vec + k - 1))' = <<lo, hi>>[k]
      <3>1. bus_read(vec)' = lo /\ bus_read(vec + 1)' = hi
        BY <1>3, <2>1, <2>4, <2>6, BusReadsNext
      <3>2. CASE k = 1
        <4>1. vec + k - 1 = vec
          BY <2>3, <3>2
        <4> QED
          BY <2>5, <3>1, <3>2, <4>1
      <3>3. CASE k = 2
        <4>1. vec + k - 1 = vec + 1
          BY <2>3, <3>3
        <4> QED
          BY <2>5, <3>1, <3>3, <4>1
      <3> QED
        BY <3>2, <3>3
    <2>7. LoadReadsBack'
      BY <2>2, <2>6 DEF LoadReadsBack
    <2>8. FlatStep
      <3>1. 2 \in 0 .. ADDR_SPACE
        BY <1>3, MemoryAssumption DEF Addr
      <3>2. \A k \in 0 .. 2 - 1 : vec + k = vec \/ vec + k = vec + 1
        BY <2>3
      <3>3. \A k \in 0 .. 2 - 1 :
              KindAt(REGIONS, Short(vec + k)) \in {"RAM", "ROM"}
        BY <1>3, <2>5, <3>2
      <3>4. 0 \in 0 .. 2 - 1 /\ 1 \in 0 .. 2 - 1 /\ vec + 0 = vec
        BY <2>3
      <3>5. ASSUME NEW x \in Addr, \A k \in 0 .. 2 - 1 : x # Short(vec + k)
            PROVE  ByteAt(REGIONS', x) = ByteAt(REGIONS, x)
        <4>1. x # vec /\ x # vec + 1
          BY <2>5, <3>4, <3>5
        <4> QED
          BY <1>3, <4>1
      <3>6. last'.op \in {"load", "set_vector", "load_bin"}
        BY <2>2
      <3> QED
        BY <1>3, <3>1, <3>3, <3>5, <3>6, FlatStored
    <2> QED
      BY <2>1, <2>7, <2>8
  <1> QED
    BY <1>2, <1>3, VectorEffect
----------------------------------------------------------------------------
(* The memory system *)

\* The conjuncts of the properties, by name.
LEMMA InvGives ==
  ASSUME MemInv PROVE TypeOK /\ RegionsDisjoint
  BY DEF MemInv, Table, TypeOK, RegionsDisjoint

\* The initial state.
LEMMA InitInv ==
  ASSUME MemInit PROVE MemInv /\ LoadReadsBack /\ Flat!FlatInit
  <1>1. MemInv
    BY EmptyTable, MemoryAssumption DEF MemInit, MemInv
  <1>2. LoadReadsBack
    BY DEF MemInit, LoadReadsBack, Did
  <1>3. /\ flatKind = [a \in Addr |-> "none"]
        /\ flatVal = [a \in Addr |-> 255]
    BY EmptyTable, Mapping DEF MemInit
  <1> QED
    BY <1>1, <1>2, <1>3 DEF MemInit, Did, Flat!FlatInit, Flat!Cells, Addr

\* Every call a program can make.
LEMMA NextStep ==
  ASSUME MemInv, MemNext PROVE MemInv' /\ LoadReadsBack' /\ FlatStep
  <1>1. ASSUME NEW type \in {"RAM", "ROM"}, NEW start \in Addr, NEW size \in Addr,
               mem_region_add(type, start, size)
        PROVE  MemInv' /\ LoadReadsBack' /\ FlatStep
    BY <1>1, AddRamRomStep
  <1>2. ASSUME NEW start \in Addr, NEW size \in Addr, NEW h \in IoHandlers,
               mem_region_add_io(start, size, h[1], h[2])
        PROVE  MemInv' /\ LoadReadsBack' /\ FlatStep
    <2>1. h[1] \in BOOLEAN /\ h[2] \in BOOLEAN
      BY MemoryAssumption
    <2> QED
      BY <1>2, <2>1, AddIoStep
  <1>3. CASE mem_region_clear
    BY <1>3, ClearStep
  <1>4. CASE mem_region_init
    BY <1>4, ConnectStep
  <1>5. ASSUME NEW a \in Addr, NEW b \in MemByte, bus_write(a, b)
        PROVE  MemInv' /\ LoadReadsBack' /\ FlatStep
    BY <1>5, BusWriteStep
  <1>6. ASSUME NEW a \in Addr, NEW data \in Blobs, mem_region_load(a, data)
        PROVE  MemInv' /\ LoadReadsBack' /\ FlatStep
    <2>1. data \in Seq(MemByte) /\ Len(data) < ADDR_SPACE
      BY MemoryAssumption
    <2> QED
      BY <1>6, <2>1, LoadStep
  <1>7. ASSUME NEW a \in Addr, NEW lo \in MemByte, NEW hi \in MemByte,
               mem_region_set_vector(a, lo, hi)
        PROVE  MemInv' /\ LoadReadsBack' /\ FlatStep
    BY <1>7, VectorStep
  <1> QED
    BY <1>1, <1>2, <1>3, <1>4, <1>5, <1>6, <1>7 DEF MemNext

\* A step that changes nothing.
LEMMA StutterStep ==
  ASSUME MemInv, LoadReadsBack, UNCHANGED memVars
  PROVE  MemInv' /\ LoadReadsBack' /\ FlatStep
  <1>1. MemInv'
    BY DEF MemInv, memVars
  <1>2. LoadReadsBack'
    BY DEF LoadReadsBack, memVars, bus_read, region_bus_read, find_region
  <1>3. flatKind' = flatKind /\ flatVal' = flatVal /\ last' = last
    BY Mapping DEF memVars
  <1> QED
    BY <1>1, <1>2, <1>3 DEF FlatStep, Flat!flatVars

\* Whatever calls a program makes, and in whatever order, the region table
\* stays well-formed and free of overlaps, and loads read back.
THEOREM MemoryCorrect == MemSpec => [](TypeOK /\ RegionsDisjoint /\ LoadReadsBack)
  <1>1. MemInit => MemInv /\ LoadReadsBack
    BY InitInv
  <1>2. MemInv /\ LoadReadsBack /\ [MemNext]_memVars => (MemInv /\ LoadReadsBack)'
    BY NextStep, StutterStep
  <1>3. MemInv => TypeOK /\ RegionsDisjoint
    BY InvGives
  <1> QED
    BY <1>1, <1>2, <1>3, PTL DEF MemSpec

\* Such a program sees a flat address space.
THEOREM FlatCorrect == MemSpec => ImplementsFlatMemory
  <1>1. MemInit => MemInv /\ LoadReadsBack /\ Flat!FlatInit
    BY InitInv
  <1>2. MemInv /\ LoadReadsBack /\ [MemNext]_memVars
          => (MemInv /\ LoadReadsBack)' /\ [Flat!FlatNext]_(Flat!flatVars)
    BY NextStep, StutterStep DEF FlatStep
  <1> QED
    BY <1>1, <1>2, PTL DEF MemSpec, ImplementsFlatMemory, Flat!FlatSpec
=============================================================================
