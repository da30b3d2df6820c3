--------------------------- MODULE Machine_proofs ---------------------------
(***************************************************************************)
(* Proofs about load_bin_region and main, on top of those about the memory *)
(* they set up.                                                            *)
(***************************************************************************)
EXTENDS Machine, MemoryMap_proofs

----------------------------------------------------------------------------
(* load_bin_region *)

\* An address that is counted on from a wrapped one, counted in 32 bits, or
\* counted on once round the address space.
LEMMA Wrapping ==
  ASSUME NEW n \in Int, NEW j \in Int
  PROVE  /\ Short(n + ADDR_SPACE) = Short(n)
         /\ Short(Short(n) + j) = Short(n + j)
         /\ Short(Uint32(n)) = Short(n)
  <1> DEFINE m == ADDR_SPACE
             w == UINT32
  <1>1. m \in Nat \ {0} /\ w \in Nat \ {0} /\ w % m = 0
    BY MemoryAssumption, LoaderAssumption
  <1> HIDE DEF m, w
  <1>2. ASSUME NEW q \in Int, NEW r \in 0 .. m - 1, NEW t \in Int, t = m * q + r
        PROVE  t % m = r
    BY <1>1, <1>2
  <1>3. ASSUME NEW t \in Int, NEW k \in Int PROVE (t + m * k) % m = t % m
    <2> DEFINE q == t \div m
               r == t % m
               u == q + k
               v == t + m * k
    <2>1. t = m * q + r /\ q \in Int /\ r \in 0 .. m - 1
      BY <1>1
    <2> HIDE DEF q, r
    <2>2. u \in Int /\ v \in Int /\ v = m * u + r
      BY <1>1, <2>1
    <2> HIDE DEF u, v
    <2>3. v % m = r
      BY <1>2, <2>1, <2>2
    <2> QED
      BY <2>3 DEF v, r
  <1>4. (n + m) % m = n % m
    <2>1. (n + m * 1) % m = n % m
      BY <1>3
    <2>2. n + m * 1 = n + m
      BY <1>1
    <2> QED
      BY <2>1, <2>2
  <1>5. ((n % m) + j) % m = (n + j) % m
    <2> DEFINE q == n \div m
               t == (n % m) + j
    <2>1. n = m * q + (n % m) /\ q \in Int /\ n % m \in Int
      BY <1>1
    <2> HIDE DEF q
    <2>2. t \in Int /\ n + j = t + m * q
      BY <1>1, <2>1
    <2> HIDE DEF t
    <2>3. (t + m * q) % m = t % m
      BY <1>3, <2>1, <2>2
    <2> QED
      BY <2>2, <2>3 DEF t
  <1>6. (n % w) % m = n % m
    <2> DEFINE q == n \div w
               t == n % w
               k == w \div m
    <2>1. n = w * q + t /\ q \in Int /\ t \in Int
      BY <1>1
    <2>2. w = m * k + (w % m) /\ k \in Int
      BY <1>1
    <2>3. w = m * k
      BY <1>1, <2>2
    <2> HIDE DEF q, t, k
    <2>4. n = t + m * (k * q) /\ k * q \in Int
      BY <1>1, <2>1, <2>2, <2>3
    <2>5. (t + m * (k * q)) % m = t % m
      BY <1>3, <2>1, <2>4
    <2> QED
      BY <2>4, <2>5 DEF t
  <1> QED
    BY <1>4, <1>5, <1>6 DEF m, w, Short, Uint32

\* The first n bytes of a file lie from addr on, and the last of them, those
\* that were not overwritten after once round the address space, are in place.
Holds(R, addr, file, n) ==
  \A k \in 1 .. n :
    /\ KindAt(R, Short(addr + k - 1)) \in {"RAM", "ROM"}
    /\ k + ADDR_SPACE > n => ByteAt(R, Short(addr + k - 1)) = file[k]

\* What a load in progress has read so far is in memory; unless the size of
\* its file wrapped in the check, it stays below the end of the address space.
LoaderInv ==
  /\ loading \in [file : Seq(MemByte), addr : Addr, off : Nat,
                  err : BOOLEAN, active : BOOLEAN]
  /\ loading.active =>
       /\ loading.off <= Len(loading.file)
       /\ Measurable(loading.file)
            => loading.addr + Len(loading.file) <= ADDR_SPACE
       /\ Holds(REGIONS, loading.addr, loading.file, loading.off)

\* The size check is exact for measurable files.
LEMMA SizeChecked ==
  ASSUME NEW file \in Seq(MemByte), NEW addr \in Addr, SizeFits(file, addr),
         Measurable(file)
  PROVE  addr + Len(file) <= ADDR_SPACE
  <1> DEFINE n == Len(file)
             w == UINT32
             m == ADDR_SPACE
  <1>1. /\ n \in Nat /\ w \in Nat \ {0} /\ m \in Nat /\ addr \in 0 .. m - 1
        /\ n + m <= w /\ m > 0
    BY MemoryAssumption, LoaderAssumption DEF Measurable, Addr
  <1>2. (addr + (n % w)) % w <= m
    BY DEF SizeFits, Uint32
  <1> HIDE DEF n, w, m
  <1>3. n \in 0 .. w - 1 /\ addr + n \in 0 .. w - 1
    BY <1>1
  <1>4. \A t \in 0 .. w - 1 : t % w = t
    BY <1>1
  <1> QED
    BY <1>2, <1>3, <1>4 DEF n, m

\* load_bin_region opens the file and checks its size.
LEMMA OpenStep ==
  ASSUME MemInv, LoaderInv, NEW file \in Seq(MemByte), NEW addr \in Addr,
         load_bin_region(file, addr)
  PROVE  /\ MemInv' /\ LoadReadsBack' /\ FlatStep /\ LoaderInv'
         /\ REGIONS' = REGIONS /\ BUS' = BUS /\ last'.result = -1
         /\ loading'.active => loading'.file = file /\ loading'.addr = addr
  <1>1. /\ REGIONS' = REGIONS /\ BUS' = BUS /\ port' = port
        /\ last' = Failed("load_bin") /\ ~ loading.active
    BY DEF load_bin_region
  <1>2. last'.op = "load_bin" /\ last'.result = -1
    BY <1>1 DEF Failed
  <1>3. MemInv'
    BY <1>1 DEF MemInv
  <1>4. LoadReadsBack' /\ FlatStep
    BY <1>1, <1>2, NothingLoaded, FlatRejected
  <1>5. LoaderInv' /\ (loading'.active => loading'.file = file
                                          /\ loading'.addr = addr)
    <2>1. CASE loading' = loading
      BY <1>1, <2>1 DEF LoaderInv
    <2>2. CASE /\ SizeFits(file, addr)
               /\ loading' = [file |-> file, addr |-> addr, off |-> 0,
                              err |-> FALSE, active |-> TRUE]
      <3>1. Holds(REGIONS', addr, file, 0)
        BY DEF Holds
      <3>2. Measurable(file) => addr + Len(file) <= ADDR_SPACE
        BY <2>2, SizeChecked
      <3>3. /\ loading'.file = file /\ loading'.addr = addr /\ loading'.off = 0
            /\ loading' \in [file : Seq(MemByte), addr : Addr, off : Nat,
                             err : BOOLEAN, active : BOOLEAN]
        BY <2>2
      <3>4. 0 <= Len(file)
        OBVIOUS
      <3> QED
        BY <3>1, <3>2, <3>3, <3>4 DEF LoaderInv
    <2> QED
      BY <2>1, <2>2 DEF load_bin_region
  <1> QED
    BY <1>1, <1>2, <1>3, <1>4, <1>5

\* One turn of its loop.
LEMMA ChunkStep ==
  ASSUME MemInv, LoaderInv, NEW n \in 1 .. BUF_SIZE, Chunk(n)
  PROVE  /\ MemInv' /\ LoadReadsBack' /\ FlatStep /\ LoaderInv'
         /\ SameShape(REGIONS, REGIONS') /\ BUS' = BUS /\ last'.result = -1
         /\ loading'.active => /\ loading'.file = loading.file
                               /\ loading'.addr = loading.addr
         /\ Measurable(loading.file) =>
              \A a \in 0 .. loading.addr - 1 : bus_read(a)' = bus_read(a)
  <1> DEFINE file == loading.file
             off  == loading.off
             rest == Len(file) - off
             full == IF rest < BUF_SIZE THEN rest ELSE BUF_SIZE
             buf  == SubSeq(file, off + 1, off + n)
             addr == Short(Uint32(loading.addr + off))
  <1>1. /\ file \in Seq(MemByte) /\ loading.addr \in Addr /\ off \in Nat
        /\ Len(file) \in Nat /\ BUF_SIZE \in Nat /\ BUF_SIZE < ADDR_SPACE
        /\ ADDR_SPACE \in Nat /\ loading.addr \in Nat
    BY LoaderAssumption, MemoryAssumption DEF LoaderInv, Addr
  <1>2. /\ loading.active /\ n <= full
        /\ REGIONS' = Stored(addr, buf, Loadable(addr, n))
        /\ UNCHANGED <<BUS, port>>
        /\ \/ /\ AllLoadable(addr, n)
              /\ loading' = [loading EXCEPT !.off = off + n, !.err = n < full]
              /\ last' = Failed("load_bin")
           \/ /\ loading' = Idle /\ last' = Failed("load_bin")
    BY DEF Chunk, Return
  <1>3. /\ off <= Len(file)
        /\ Measurable(file) => loading.addr + Len(file) <= ADDR_SPACE
        /\ Holds(REGIONS, loading.addr, file, off)
    BY <1>2 DEF LoaderInv
  <1> HIDE DEF buf, addr, file, off, full, rest
  <1>4. off + n <= Len(file) /\ n \in Nat /\ n < ADDR_SPACE /\ n > 0
    <2>1. n <= full
      BY <1>2
    <2>2. n \in Nat /\ n > 0 /\ n <= BUF_SIZE
      BY <1>1
    <2>3. n <= Len(file) - off
      BY <1>1, <2>1, <2>2 DEF full, rest
    <2> QED
      BY <1>1, <2>2, <2>3
  <1>5. addr \in Addr /\ addr = Short(loading.addr + off)
    <2>1. loading.addr + off \in Int
      BY <1>1
    <2> QED
      BY <2>1, Wrapping, ShortIsAddr DEF addr
  <1>6. \A k \in 1 .. n : buf[k] = file[off + k] /\ buf[k] \in MemByte
    <2>1. off + 1 \in 1 .. Len(file) + 1 /\ off + n \in 0 .. Len(file)
      BY <1>1, <1>4
    <2> QED
      BY <1>1, <1>4, <2>1 DEF buf
  <1>7. last'.op = "load_bin" /\ last'.result = -1
    BY <1>2 DEF Failed
  <1>8. MemInv' /\ FlatStep
    BY <1>2, <1>4, <1>5, <1>6, <1>7, StoreStep
  <1>9. /\ SameShape(REGIONS, REGIONS')
        /\ Loadable(addr, n) \in 0 .. n
        /\ \A x \in Addr :
             ByteAt(REGIONS', x) = IF Short(x - addr) < Loadable(addr, n)
                                   THEN buf[Short(x - addr) + 1]
                                   ELSE ByteAt(REGIONS, x)
    BY <1>2, <1>4, <1>5, <1>6, LoadEffect
  \* Bytes from the n-th address after addr on stay.
  <1>10. ASSUME NEW k \in Addr, k >= n, NEW x \in Addr, x = Short(addr + k)
         PROVE  ByteAt(REGIONS', x) = ByteAt(REGIONS, x)
    <2>1. Short(x - addr) = k
      BY <1>5, <1>10, Around
    <2>2. ~ k < Loadable(addr, n)
      BY <1>1, <1>4, <1>9, <1>10 DEF Addr
    <2> QED
      BY <1>9, <2>1, <2>2
  <1>11. ASSUME Measurable(file), NEW a \in 0 .. loading.addr - 1
         PROVE  bus_read(a)' = bus_read(a)
    <2>1. /\ loading.addr + off \in Addr
          /\ loading.addr + off + n <= ADDR_SPACE
      BY <1>1, <1>3, <1>4, <1>11 DEF Addr
    <2>2. addr = loading.addr + off
      BY <1>5, <2>1, ShortOfAddr
    <2>3. a \in Addr /\ a \in Nat /\ a < addr /\ addr + n <= ADDR_SPACE
      BY <1>1, <2>1, <2>2 DEF Addr
    <2> DEFINE k == (a - addr) + ADDR_SPACE
    <2>4. k \in Addr /\ k >= n /\ addr + k = a + ADDR_SPACE
      BY <1>1, <1>4, <1>5, <2>3 DEF Addr
    <2>5. Short(a + ADDR_SPACE) = a
      BY <2>3, Wrapping, ShortOfAddr
    <2> HIDE DEF k
    <2>6. ByteAt(REGIONS', a) = ByteAt(REGIONS, a)
      BY <1>10, <2>3, <2>4, <2>5
    <2> QED
      BY <1>2, <1>9, <2>3, <2>6, ReadsAsBefore DEF MemInv
  <1>12. LoadReadsBack'
    BY <1>7, NothingLoaded
  <1>13. CASE loading' = Idle
    <2>1. LoaderInv'
      BY <1>13, MemoryAssumption DEF LoaderInv, Idle, Addr
    <2> QED
      BY <1>2, <1>7, <1>8, <1>9, <1>11, <1>12, <1>13, <2>1 DEF Idle, file
  <1>14. CASE /\ AllLoadable(addr, n)
              /\ loading' = [loading EXCEPT !.off = off + n, !.err = n < full]
    <2>1. /\ loading'.file = file /\ loading'.addr = loading.addr
          /\ loading'.off = off + n
      BY <1>14 DEF LoaderInv, file
    <2>2. loading' \in [file : Seq(MemByte), addr : Addr, off : Nat,
                        err : BOOLEAN, active : BOOLEAN]
      <3>1. (n < full) \in BOOLEAN /\ off + n \in Nat
        BY <1>1, <1>4
      <3> QED
        BY <1>14, <3>1 DEF LoaderInv
    <2>3. Holds(REGIONS', loading.addr, file, off + n)
      <3> DEFINE X(k) == Short(loading.addr + k - 1)
      <3> SUFFICES ASSUME NEW k \in 1 .. off + n
                   PROVE  /\ KindAt(REGIONS', X(k)) \in {"RAM", "ROM"}
                          /\ k + ADDR_SPACE > off + n
                               => ByteAt(REGIONS', X(k)) = file[k]
        BY DEF Holds
      <3>1. X(k) \in Addr /\ k \in Nat /\ loading.addr + k - 1 \in Int
        <4>1. loading.addr + k - 1 \in Int /\ k \in Nat
          BY <1>1, <1>4
        <4> QED
          BY <4>1, ShortIsAddr
      <3>2. CASE k <= off
        <4>1. k \in 1 .. off
          BY <1>1, <3>1, <3>2
        <4>2. /\ KindAt(REGIONS, X(k)) \in {"RAM", "ROM"}
              /\ k + ADDR_SPACE > off => ByteAt(REGIONS, X(k)) = file[k]
          BY <1>3, <4>1 DEF Holds
        <4>3. KindAt(REGIONS', X(k)) = KindAt(REGIONS, X(k))
          BY <1>9, <3>1, ShapeKept DEF MemInv
        <4>4. ASSUME k + ADDR_SPACE > off + n
              PROVE  ByteAt(REGIONS', X(k)) = file[k]
          <5> DEFINE j == (k - 1 - off) + ADDR_SPACE
                     b == loading.addr + off
          <5>1. j \in Addr /\ j >= n /\ k + ADDR_SPACE > off
            BY <1>1, <1>4, <3>1, <3>2, <4>4 DEF Addr
          <5>2. /\ b \in Int /\ j \in Int
                /\ b + j = (loading.addr + k - 1) + ADDR_SPACE
            BY <1>1, <3>1
          <5> HIDE DEF j, b
          <5>3. Short(Short(b) + j) = Short(b + j)
            BY <5>2, Wrapping
          <5>4. Short((loading.addr + k - 1) + ADDR_SPACE) = X(k)
            BY <3>1, Wrapping
          <5>5. X(k) = Short(addr + j)
            BY <1>5, <5>2, <5>3, <5>4 DEF b
          <5> HIDE DEF X
          <5> QED
            BY <1>10, <3>1, <4>2, <5>1, <5>5
        <4> QED
          BY <4>2, <4>3, <4>4
      <3>3. CASE k > off
        <4> DEFINE j == k - off
                   b == loading.addr + off
        <4>1. j \in 1 .. n /\ off + j = k /\ j - 1 \in Int
          BY <1>1, <1>4, <3>1, <3>3
        <4>2. b \in Int /\ b + (j - 1) = loading.addr + k - 1
          BY <1>1, <3>1
        <4> HIDE DEF j, b
        <4>3. Short(Short(b) + (j - 1)) = Short(b + (j - 1))
          BY <4>1, <4>2, Wrapping
        <4>4. addr + j - 1 = addr + (j - 1)
          BY <1>5, <4>1, MemoryAssumption DEF Addr
        <4>5. Short(addr + j - 1) = X(k)
          BY <1>5, <4>2, <4>3, <4>4 DEF b
        <4>6. \A i \in 1 .. n :
                /\ KindAt(REGIONS', Short(addr + i - 1)) \in {"RAM", "ROM"}
                /\ ByteAt(REGIONS', Short(addr + i - 1)) = buf[i]
          BY <1>2, <1>4, <1>5, <1>6, <1>14, LoadedAll
        <4> HIDE DEF X
        <4> QED
          BY <1>6, <4>1, <4>5, <4>6
      <3> QED
        BY <1>1, <3>1, <3>2, <3>3
    <2>4. LoaderInv'
      BY <1>1, <1>3, <1>4, <2>1, <2>2, <2>3 DEF LoaderInv, Measurable
    <2> QED
      BY <1>2, <1>7, <1>8, <1>9, <1>11, <1>12, <2>1, <2>4 DEF file
  <1> QED
    BY <1>2, <1>13, <1>14

\* The end of the file, or a read error.
LEMMA FinishStep ==
  ASSUME MemInv, LoaderInv, Finish
  PROVE  /\ MemInv' /\ LoadReadsBack' /\ FlatStep /\ LoaderInv'
         /\ REGIONS' = REGIONS /\ BUS' = BUS /\ port' = port
         /\ loading.active /\ ~ loading'.active
         /\ last'.result = 0 =>
              /\ Holds(REGIONS, loading.addr, loading.file, Len(loading.file))
              /\ Measurable(loading.file)
                   => loading.addr + Len(loading.file) <= ADDR_SPACE
  <1>1. /\ REGIONS' = REGIONS /\ BUS' = BUS /\ port' = port
        /\ loading.active /\ loading' = Idle
        /\ \/ /\ loading.off = Len(loading.file)
              /\ last' = Did("load_bin", loading.addr, loading.file)
           \/ last' = Failed("load_bin")
    BY DEF Finish, Return
  <1>2. MemInv' /\ last'.op = "load_bin"
    BY <1>1 DEF MemInv, Did, Failed
  <1>3. FlatStep
    BY <1>1, <1>2, FlatRejected
  <1>4. LoaderInv'
    BY <1>1, MemoryAssumption DEF LoaderInv, Idle, Addr
  <1>5. CASE last' = Failed("load_bin")
    <2>1. last'.result = -1
      BY <1>5 DEF Failed
    <2> QED
      BY <1>1, <1>2, <1>3, <1>4, <2>1, NothingLoaded DEF Idle
  <1>6. CASE /\ loading.off = Len(loading.file)
             /\ last' = Did("load_bin", loading.addr, loading.file)
    <2>0. PICK addr, file : addr = loading.addr /\ file = loading.file
      OBVIOUS
    <2>1. Holds(REGIONS, addr, file, Len(file)) /\ file \in Seq(MemByte)
      BY <1>1, <1>6, <2>0 DEF LoaderInv
    <2>2. /\ last'.addr = addr /\ last'.data = file
          /\ DOMAIN file = 1 .. Len(file)
      BY <1>6, <2>0, <2>1 DEF Did
    <2>3. ASSUME BUS' = "region", NEW k \in 1 .. Len(file),
                 k + ADDR_SPACE > Len(file)
          PROVE  bus_read(Short(addr + k - 1))' = file[k]
      <3> DEFINE x == Short(addr + k - 1)
      <3>1. x \in Addr
        <4>1. addr + k - 1 \in Int
          BY <2>0, <2>1, MemoryAssumption DEF LoaderInv, Addr
        <4> QED
          BY <4>1, ShortIsAddr
      <3>2. KindAt(REGIONS, x) \in {"RAM", "ROM"} /\ ByteAt(REGIONS, x) = file[k]
        BY <2>1, <2>3 DEF Holds
      <3> HIDE DEF x
      <3>3. bus_read(x)' = file[k]
        BY <1>1, <1>2, <2>3, <3>1, <3>2, BusReadsNext DEF MemInv
      <3> QED
        BY <3>3 DEF x
    <2>4. LoadReadsBack'
      BY <2>2, <2>3 DEF LoadReadsBack
    <2>5. Measurable(file) => addr + Len(file) <= ADDR_SPACE
      BY <1>1, <2>0 DEF LoaderInv
    <2> QED
      BY <1>1, <1>2, <1>3, <1>4, <2>0, <2>1, <2>4, <2>5 DEF Idle
  <1> QED
    BY <1>1, <1>5, <1>6
----------------------------------------------------------------------------
(* The command line *)

\* The 16-bit options are what was asked for, modulo 0x10000.
OptInv ==
  /\ opt \in Options /\ argv \in Seq(STRING)
  /\ opt.ram_start = asked.ram_start /\ opt.rom_start = asked.rom_start
  /\ asked.ram_size \in 0 .. ADDR_SPACE /\ opt.ram_size = Short(asked.ram_size)
  /\ asked.rom_size \in 0 .. ADDR_SPACE /\ opt.rom_size = Short(asked.rom_size)

\* A size that was stored as something else than 0 is the size asked for.
LEMMA SizeAsAsked ==
  ASSUME NEW n \in 0 .. ADDR_SPACE, Short(n) # 0 PROVE Short(n) = n
  <1> DEFINE m == ADDR_SPACE
  <1>1. m \in Nat \ {0} /\ n \in 0 .. m
    BY MemoryAssumption
  <1> HIDE DEF m
  <1>2. n % m # 0 => n % m = n
    <2>1. CASE n = m
      BY <1>1, <2>1
    <2>2. CASE n # m
      BY <1>1, <2>2
    <2> QED
      BY <2>1, <2>2
  <1> QED
    BY <1>2 DEF m, Short

\* An operand in range sets its option, and the extent asked for.
LEMMA NumericStep ==
  ASSUME OptInv, NEW arg \in DOMAIN NumericArg, NEW str,
         parse_numeric(arg, str),
         NEW v, v = Strtol[Base(arg)][str],
         opt' = [opt EXCEPT ![NumericArg[arg]] = Short(v)],
         asked' = [x \in Extents |-> IF x = NumericArg[arg] THEN v ELSE asked[x]],
         argv' \in Seq(STRING)
  PROVE  OptInv'
  <1>1. v \in RangeOf(arg)
    BY DEF parse_numeric
  <1>2. 1 .. ADDR_SPACE \subseteq Int /\ Addr \subseteq Int
    BY DEF Addr
  <1>3. v \in Int
    BY <1>1, <1>2 DEF RangeOf
  <1>4. Short(v) \in Addr
    BY <1>3, ShortIsAddr
  <1>5. v \in Addr => Short(v) = v
    BY ShortOfAddr
  <1>6. v \in 1 .. ADDR_SPACE => v \in 0 .. ADDR_SPACE
    BY MemoryAssumption
  <1>7. arg \in {"-a", "-r", "-R", "-s", "-S"}
    BY DEF NumericArg
  <1>8. /\ "ram_start" \in Extents /\ "ram_size" \in Extents
        /\ "rom_start" \in Extents /\ "rom_size" \in Extents
    BY DEF Extents
  <1>9. CASE arg = "-a"
    <2>1. NumericArg[arg] = "rom_addr" /\ v \in Addr
      BY <1>1, <1>9 DEF NumericArg, RangeOf, IsSize
    <2> QED
      BY <1>4, <1>8, <2>1 DEF OptInv, Options
  <1>10. CASE arg = "-r"
    <2>1. NumericArg[arg] = "ram_start" /\ v \in Addr
      BY <1>1, <1>10 DEF NumericArg, RangeOf, IsSize
    <2> QED
      BY <1>4, <1>5, <1>8, <2>1 DEF OptInv, Options
  <1>11. CASE arg = "-R"
    <2>1. NumericArg[arg] = "ram_size" /\ v \in 1 .. ADDR_SPACE
      BY <1>1, <1>11 DEF NumericArg, RangeOf, IsSize
    <2> QED
      BY <1>4, <1>6, <1>8, <2>1 DEF OptInv, Options
  <1>12. CASE arg = "-s"
    <2>1. NumericArg[arg] = "rom_start" /\ v \in Addr
      BY <1>1, <1>12 DEF NumericArg, RangeOf, IsSize
    <2> QED
      BY <1>4, <1>5, <1>8, <2>1 DEF OptInv, Options
  <1>13. CASE arg = "-S"
    <2>1. NumericArg[arg] = "rom_size" /\ v \in 1 .. ADDR_SPACE
      BY <1>1, <1>13 DEF NumericArg, RangeOf, IsSize
    <2> QED
      BY <1>4, <1>6, <1>8, <2>1 DEF OptInv, Options
  <1> QED
    BY <1>7, <1>9, <1>10, <1>11, <1>12, <1>13

\* Reading one argument, or an option and its operand.
LEMMA ArgumentStep ==
  ASSUME OptInv, argv # << >>,
         \/ Len(argv) > 1 /\ OperandArg(argv[1], argv[2])
         \/ PlainArg(Head(argv))
  PROVE  OptInv'
  <1>1. argv \in Seq(STRING) /\ opt \in Options
    BY DEF OptInv
  <1>2. CASE PlainArg(Head(argv))
    <2>1. argv' = Tail(argv) /\ asked' = asked
      BY <1>2 DEF PlainArg
    <2>2. argv' \in Seq(STRING)
      BY <1>1, <2>1
    <2>3. opt' = [opt EXCEPT
                    !.enable_trace = opt.enable_trace \/ Head(argv) = "-t",
                    !.enable_monitor = opt.enable_monitor \/ Head(argv) = "-m"]
      BY <1>2 DEF PlainArg
    <2> QED
      BY <2>1, <2>2, <2>3 DEF OptInv, Options
  <1>3. CASE Len(argv) > 1 /\ OperandArg(argv[1], argv[2])
    <2> DEFINE arg == argv[1]
               str == argv[2]
    <2>1. argv' = SubSeq(argv, 3, Len(argv)) /\ arg \in STRING /\ str \in STRING
      BY <1>1, <1>3 DEF OperandArg
    <2>2. argv' \in Seq(STRING)
      BY <1>1, <2>1
    <2>3. CASE /\ arg \in DOMAIN NumericArg /\ parse_numeric(arg, str)
               /\ opt' = [opt EXCEPT ![NumericArg[arg]] =
                            Short(Strtol[Base(arg)][str])]
               /\ asked' = [x \in Extents |->
                              IF x = NumericArg[arg] THEN Strtol[Base(arg)][str]
                              ELSE asked[x]]
      <3>1. PICK a, s, v : a = arg /\ s = str /\ v = Strtol[Base(a)][s]
        OBVIOUS
      <3>2. /\ a \in DOMAIN NumericArg /\ parse_numeric(a, s)
            /\ opt' = [opt EXCEPT ![NumericArg[a]] = Short(v)]
            /\ asked' = [x \in Extents |-> IF x = NumericArg[a] THEN v
                                           ELSE asked[x]]
        BY <2>3, <3>1
      <3> QED
        BY <2>2, <3>1, <3>2, NumericStep
    <2>4. CASE opt' = [opt EXCEPT !.rom_file = str] /\ asked' = asked
      BY <2>1, <2>2, <2>4 DEF OptInv, Options
    <2>5. CASE /\ str \in DOMAIN CpuNames
               /\ opt' = [opt EXCEPT !.cpu_variant = CpuNames[str]]
               /\ asked' = asked
      <3>1. str \in {"6502", "nmos", "65c02", "cmos"}
        BY <2>5 DEF CpuNames
      <3>2. CpuNames[str] \in {"CPU_VARIANT_NMOS_6502", "CPU_VARIANT_CMOS_65C02"}
        BY <3>1 DEF CpuNames
      <3> QED
        BY <2>1, <2>2, <2>5, <3>2 DEF OptInv, Options
    <2> QED
      BY <1>3, <2>3, <2>4, <2>5 DEF OperandArg
  <1> QED
    BY <1>2, <1>3
----------------------------------------------------------------------------
(* The invariant of main *)

\* The map with RAM alone, and with RAM and ROM, as asked for.
RamMapped ==
  /\ Len(REGIONS) = 1 /\ REGIONS[1].TYPE = "RAM"
  /\ \A a \in Addr :
       KindAt(REGIONS, a) = IF In(a, asked.ram_start, asked.ram_size)
                            THEN "RAM" ELSE "none"

Mapped ==
  /\ Len(REGIONS) = 2 /\ REGIONS[1].TYPE = "RAM" /\ REGIONS[2].TYPE = "ROM"
  /\ \A a \in Addr :
       /\ KindAt(REGIONS, a) = "RAM" <=> In(a, asked.ram_start, asked.ram_size)
       /\ KindAt(REGIONS, a) = "ROM" <=> In(a, asked.rom_start, asked.rom_size)

\* The file is in memory, all of it or, if it goes round, the last of it; and
\* what is left of that once the reset vector is set and the program runs.
FileHeld ==
  opt.rom_file # "NULL" =>
    /\ opt.rom_file \in DOMAIN Files
    /\ Measurable(Files[opt.rom_file])
         => opt.rom_addr + Len(Files[opt.rom_file]) <= ADDR_SPACE
    /\ Holds(REGIONS, opt.rom_addr, Files[opt.rom_file],
             Len(Files[opt.rom_file]))

FileKept ==
  opt.rom_file # "NULL" =>
    /\ opt.rom_file \in DOMAIN Files
    /\ Measurable(Files[opt.rom_file])
         => opt.rom_addr + Len(Files[opt.rom_file]) <= ADDR_SPACE
    /\ \A k \in 1 .. Len(Files[opt.rom_file]) :
         LET a == Short(opt.rom_addr + k - 1)
         IN  /\ a \in Addr /\ KindAt(REGIONS, a) \in {"RAM", "ROM"}
             /\ /\ k + ADDR_SPACE > Len(Files[opt.rom_file])
                /\ KindAt(REGIONS, a) = "ROM" /\ a \notin VectorCells
                => ByteAt(REGIONS, a) = Files[opt.rom_file][k]

\* The reset vector holds the load address, if there is memory for it.
VectorSet ==
  /\ KindAt(REGIONS, RESET_VECTOR) = KindAt(REGIONS, RESET_VECTOR + 1)
  /\ KindAt(REGIONS, RESET_VECTOR) # "none"
  => /\ KindAt(REGIONS, RESET_VECTOR) \in {"RAM", "ROM"}
     /\ ByteAt(REGIONS, RESET_VECTOR) = opt.rom_addr % BYTE
     /\ ByteAt(REGIONS, RESET_VECTOR + 1) = opt.rom_addr \div BYTE

Running == {"run", "monitor", "complete"}

\* What main has done by each of its phases.
PhaseInv ==
  /\ loading.active => phase \in {"loading", "library"}
  /\ phase = "ram" => REGIONS = << >>
  /\ phase = "rom" => RamMapped
  /\ phase \in {"load", "loading", "vector", "connect", "reset"} \cup Running
       => Mapped
  /\ phase = "loading" =>
       /\ opt.rom_file \in DOMAIN Files
       /\ loading.active => /\ loading.file = Files[opt.rom_file]
                            /\ loading.addr = opt.rom_addr
       /\ ~ loading.active /\ last.result = 0 => FileHeld
  /\ phase = "vector" => FileHeld
  /\ phase \in {"connect", "reset"} \cup Running => FileKept
  /\ phase \in {"connect", "reset"} => VectorSet
  /\ phase \in {"reset"} \cup Running => BUS = "region"

MachineInv == MemInv /\ LoadReadsBack /\ LoaderInv /\ OptInv /\ PhaseInv

----------------------------------------------------------------------------
(* One lemma per action of main *)

\* Steps that do not touch the loader, the arguments or the options.
LEMMA LoaderIdle ==
  ASSUME LoaderInv, ~ loading.active, loading' = loading PROVE LoaderInv'
  BY DEF LoaderInv

\* The options stay as they are once the arguments are read.
LEMMA OptionsKept ==
  ASSUME OptInv, argv' = argv, opt' = opt, asked' = asked PROVE OptInv'
  BY DEF OptInv

\* Storing bytes leaves the map as asked for.
LEMMA MapKept ==
  ASSUME MemInv, Mapped, SameShape(REGIONS, REGIONS'), asked' = asked
  PROVE  Mapped'
  <1>1. \A a \in Addr : KindAt(REGIONS', a) = KindAt(REGIONS, a)
    BY ShapeKept DEF MemInv
  <1>2. Len(REGIONS) = 2 => 1 \in DOMAIN REGIONS /\ 2 \in DOMAIN REGIONS
    BY DEF MemInv, Table
  <1> QED
    BY <1>1, <1>2 DEF Mapped, SameShape

\* main returns.
LEMMA ExitStep ==
  ASSUME MachineInv, ~ loading.active, NEW code, Exit(code)
  PROVE  MachineInv' /\ FlatStep
  <1>1. /\ mem_region_clear /\ phase' = "done"
        /\ UNCHANGED <<loading, argv, opt, asked>>
    BY DEF Exit
  <1>2. MemInv' /\ LoadReadsBack' /\ FlatStep
    BY <1>1, ClearStep DEF MachineInv
  <1>3. LoaderInv' /\ OptInv'
    BY <1>1, LoaderIdle, OptionsKept DEF MachineInv
  <1>4. PhaseInv'
    BY <1>1 DEF PhaseInv, Running
  <1> QED
    BY <1>2, <1>3, <1>4 DEF MachineInv

\* The argument loop.
LEMMA ParseStep ==
  ASSUME MachineInv, ParseArg PROVE MachineInv' /\ FlatStep
  <1>1. phase = "parse" /\ argv # << >> /\ ~ loading.active
    BY DEF ParseArg, MachineInv, PhaseInv
  <1>2. CASE BadOperand(argv[1], argv[2])
    BY <1>1, <1>2, ExitStep DEF BadOperand
  <1>3. CASE \/ Len(argv) > 1 /\ OperandArg(argv[1], argv[2])
             \/ PlainArg(Head(argv))
    <2>1. UNCHANGED <<loaderVars, phase>>
      BY <1>3 DEF OperandArg, PlainArg
    <2>2. UNCHANGED memVars /\ loading' = loading
      BY <2>1 DEF loaderVars
    <2>3. MemInv' /\ LoadReadsBack' /\ FlatStep
      BY <2>2, StutterStep DEF MachineInv
    <2>4. OptInv'
      BY <1>1, <1>3, ArgumentStep DEF MachineInv
    <2>5. LoaderInv'
      BY <1>1, <2>2, LoaderIdle DEF MachineInv
    <2>6. PhaseInv'
      BY <1>1, <2>1, <2>2 DEF PhaseInv, Running
    <2> QED
      BY <2>3, <2>4, <2>5, <2>6 DEF MachineInv
  <1> QED
    BY <1>2, <1>3 DEF ParseArg

\* The extents are checked and the regions cleared.
LEMMA ConfigureStep ==
  ASSUME MachineInv, Configure PROVE MachineInv' /\ FlatStep
  <1>1. phase = "parse" /\ ~ loading.active
    BY DEF Configure, MachineInv, PhaseInv
  <1>2. CASE Exit(1)
    BY <1>1, <1>2, ExitStep
  <1>3. CASE mem_region_clear /\ UNCHANGED loading /\ Goto("ram")
    <2>1. /\ mem_region_clear /\ REGIONS' = << >> /\ phase' = "ram"
          /\ UNCHANGED <<loading, argv, opt, asked>>
      BY <1>3 DEF Goto, mem_region_clear
    <2>2. MemInv' /\ LoadReadsBack' /\ FlatStep
      BY <2>1, ClearStep DEF MachineInv
    <2>3. LoaderInv' /\ OptInv'
      BY <1>1, <2>1, LoaderIdle, OptionsKept DEF MachineInv
    <2>4. PhaseInv'
      BY <1>1, <2>1 DEF PhaseInv, Running
    <2> QED
      BY <2>2, <2>3, <2>4 DEF MachineInv
  <1> QED
    BY <1>2, <1>3 DEF Configure

\* A region that was added has the extent asked for.
LEMMA Extent ==
  ASSUME NEW start \in Addr, NEW size \in Addr, size > 0,
         NEW n \in 0 .. ADDR_SPACE, size = Short(n)
  PROVE  n = size /\ \A a \in Addr : a \in start .. start + size - 1
                                      <=> In(a, start, n)
  <1>1. n = size
    BY SizeAsAsked, MemoryAssumption DEF Addr
  <1>2. ADDR_SPACE \in Nat /\ start \in Nat /\ size \in Nat
    BY MemoryAssumption DEF Addr
  <1>3. \A a \in Nat : a \in start .. start + size - 1 <=> In(a, start, size)
    BY <1>2 DEF In
  <1> QED
    BY <1>1, <1>2, <1>3 DEF Addr

\* What both mem_region_add calls of main have in common.
LEMMA RegionStep ==
  ASSUME MachineInv, NEW from \in {"ram", "rom"}, NEW to \in {"rom", "load"},
         NEW type \in {"RAM", "ROM"}, NEW start \in Addr, NEW size \in Addr,
         AddRegion(from, type, start, size, to)
  PROVE  /\ MemInv' /\ LoadReadsBack' /\ FlatStep /\ LoaderInv' /\ OptInv'
         /\ asked' = asked /\ ~ loading'.active
         /\ \/ phase' = "fail"
            \/ /\ phase' = to
               /\ Len(REGIONS') = Len(REGIONS) + 1
               /\ REGIONS'[Len(REGIONS) + 1].TYPE = type
               /\ \A i \in 1 .. Len(REGIONS) : REGIONS'[i] = REGIONS[i]
               /\ size > 0
               /\ \A a \in Addr :
                    IF a \in start .. start + size - 1
                    THEN /\ KindAt(REGIONS, a) = "none"
                         /\ KindAt(REGIONS', a) = type
                    ELSE KindAt(REGIONS', a) = KindAt(REGIONS, a)
  <1>1. /\ phase = from /\ mem_region_add(type, start, size)
        /\ UNCHANGED <<loading, argv, opt, asked>>
        /\ phase' = IF last'.result = 0 THEN to ELSE "fail"
    BY DEF AddRegion, Goto
  <1>2. ~ loading.active
    BY <1>1 DEF MachineInv, PhaseInv
  <1>3. MemInv' /\ LoadReadsBack' /\ FlatStep
    BY <1>1, AddRamRomStep DEF MachineInv
  <1>4. LoaderInv' /\ OptInv'
    BY <1>1, <1>2, LoaderIdle, OptionsKept DEF MachineInv
  <1>5. CASE AddFails
    <2>1. last'.result = -1
      BY <1>5 DEF AddFails, Failed
    <2> QED
      BY <1>1, <1>2, <1>3, <1>4, <2>1
  <1>6. CASE /\ Addable(start, size)
             /\ Add(Region(type, start, size, [o \in 0 .. size - 1 |-> 0],
                           FALSE, FALSE))
    <2> DEFINE data == [o \in 0 .. size - 1 |-> 0]
               r == Region(type, start, size, data, FALSE, FALSE)
    <2>1. REGIONS' = Append(REGIONS, r) /\ last'.result = 0
      BY <1>6 DEF Add, Did
    <2>2. r.TYPE = type
      BY DEF Region
    <2>3. /\ type \in {"RAM", "ROM", "IO"} /\ FALSE \in BOOLEAN
          /\ IF type = "IO" THEN data = NoData
             ELSE data = [o \in 0 .. size - 1 |-> 0]
          /\ Add(Region(type, start, size, data, FALSE, FALSE))
          /\ Addable(start, size) /\ MemInv
      BY <1>6 DEF MachineInv
    <2> HIDE DEF data, r
    <2>4. /\ size > 0
          /\ \A a \in Addr :
               IF a \in start .. start + size - 1
               THEN /\ KindAt(REGIONS, a) = "none"
                    /\ KindAt(REGIONS', a) = type
               ELSE KindAt(REGIONS', a) = KindAt(REGIONS, a)
      BY <2>3, AddEffect
    <2>5. /\ Len(REGIONS') = Len(REGIONS) + 1
          /\ REGIONS'[Len(REGIONS) + 1].TYPE = type
          /\ \A i \in 1 .. Len(REGIONS) : REGIONS'[i] = REGIONS[i]
      <3>1. REGIONS \in Seq(MEM_REGION)
        BY DEF MachineInv, MemInv, Table
      <3> QED
        BY <2>1, <2>2, <3>1
    <2> QED
      BY <1>1, <1>2, <1>3, <1>4, <2>1, <2>4, <2>5
  <1> QED
    BY <1>1, <1>5, <1>6 DEF mem_region_add

\* mem_region_add_ram, as main calls it.
LEMMA AddRamStep ==
  ASSUME MachineInv, AddRam PROVE MachineInv' /\ FlatStep
  <1>1. /\ opt.ram_start \in Addr /\ opt.ram_size \in Addr
        /\ opt.ram_start = asked.ram_start
        /\ asked.ram_size \in 0 .. ADDR_SPACE
        /\ opt.ram_size = Short(asked.ram_size)
    BY DEF MachineInv, OptInv, Options
  <1>2. AddRegion("ram", "RAM", opt.ram_start, opt.ram_size, "rom")
    BY DEF AddRam
  <1>3. REGIONS = << >>
    BY <1>2 DEF AddRegion, MachineInv, PhaseInv
  <1>4. /\ MemInv' /\ LoadReadsBack' /\ FlatStep /\ LoaderInv' /\ OptInv'
        /\ asked' = asked /\ ~ loading'.active
        /\ \/ phase' = "fail"
           \/ /\ phase' = "rom"
              /\ Len(REGIONS') = Len(REGIONS) + 1
              /\ REGIONS'[Len(REGIONS) + 1].TYPE = "RAM"
              /\ opt.ram_size > 0
              /\ \A a \in Addr :
                   IF a \in opt.ram_start .. opt.ram_start + opt.ram_size - 1
                   THEN /\ KindAt(REGIONS, a) = "none"
                        /\ KindAt(REGIONS', a) = "RAM"
                   ELSE KindAt(REGIONS', a) = KindAt(REGIONS, a)
    BY <1>1, <1>2, RegionStep
  <1>5. phase' = "rom" => RamMapped'
    <2> SUFFICES ASSUME phase' = "rom" PROVE RamMapped'
      OBVIOUS
    <2>1. \A a \in Addr :
            a \in opt.ram_start .. opt.ram_start + opt.ram_size - 1
              <=> In(a, asked.ram_start, asked.ram_size)
      BY <1>1, <1>4, Extent
    <2>2. \A a \in Addr : KindAt(REGIONS, a) = "none"
      BY <1>3, EmptyTable
    <2>3. Len(REGIONS) = 0
      BY <1>3
    <2> QED
      BY <1>4, <2>1, <2>2, <2>3 DEF RamMapped, In
  <1>6. PhaseInv'
    BY <1>4, <1>5 DEF PhaseInv, Running
  <1> QED
    BY <1>4, <1>6 DEF MachineInv

\* mem_region_add_rom, as main calls it.
LEMMA AddRomStep ==
  ASSUME MachineInv, AddRom PROVE MachineInv' /\ FlatStep
  <1>1. /\ opt.rom_start \in Addr /\ opt.rom_size \in Addr
        /\ opt.rom_start = asked.rom_start
        /\ asked.rom_size \in 0 .. ADDR_SPACE
        /\ opt.rom_size = Short(asked.rom_size)
    BY DEF MachineInv, OptInv, Options
  <1>2. AddRegion("rom", "ROM", opt.rom_start, opt.rom_size, "load")
    BY DEF AddRom
  <1>3. RamMapped
    BY <1>2 DEF AddRegion, MachineInv, PhaseInv
  <1>4. /\ MemInv' /\ LoadReadsBack' /\ FlatStep /\ LoaderInv' /\ OptInv'
        /\ asked' = asked /\ ~ loading'.active
        /\ \/ phase' = "fail"
           \/ /\ phase' = "load"
              /\ Len(REGIONS') = Len(REGIONS) + 1
              /\ REGIONS'[Len(REGIONS) + 1].TYPE = "ROM"
              /\ \A i \in 1 .. Len(REGIONS) : REGIONS'[i] = REGIONS[i]
              /\ opt.rom_size > 0
              /\ \A a \in Addr :
                   IF a \in opt.rom_start .. opt.rom_start + opt.rom_size - 1
                   THEN /\ KindAt(REGIONS, a) = "none"
                        /\ KindAt(REGIONS', a) = "ROM"
                   ELSE KindAt(REGIONS', a) = KindAt(REGIONS, a)
    BY <1>1, <1>2, RegionStep
  <1>5. phase' = "load" => Mapped'
    <2> SUFFICES ASSUME phase' = "load" PROVE Mapped'
      OBVIOUS
    <2>1. \A a \in Addr :
            a \in opt.rom_start .. opt.rom_start + opt.rom_size - 1
              <=> In(a, asked.rom_start, asked.rom_size)
      BY <1>1, <1>4, Extent
    <2>2. Len(REGIONS) = 1 /\ REGIONS[1].TYPE = "RAM"
      BY <1>3 DEF RamMapped
    <2>3. /\ Len(REGIONS') = 2 /\ REGIONS'[1].TYPE = "RAM"
          /\ REGIONS'[2].TYPE = "ROM"
      BY <1>4, <2>2
    <2>4. ASSUME NEW a \in Addr
          PROVE  /\ KindAt(REGIONS', a) = "RAM"
                      <=> In(a, asked.ram_start, asked.ram_size)
                 /\ KindAt(REGIONS', a) = "ROM"
                      <=> In(a, asked.rom_start, asked.rom_size)
      <3>1. KindAt(REGIONS, a) = IF In(a, asked.ram_start, asked.ram_size)
                                 THEN "RAM" ELSE "none"
        BY <1>3 DEF RamMapped
      <3> QED
        BY <1>4, <2>1, <3>1
    <2> QED
      BY <1>4, <2>3, <2>4 DEF Mapped, In
  <1>6. PhaseInv'
    BY <1>4, <1>5 DEF PhaseInv, Running
  <1> QED
    BY <1>4, <1>6 DEF MachineInv
\* main fails.
LEMMA FailStep ==
  ASSUME MachineInv, Fail PROVE MachineInv' /\ FlatStep
  <1>1. ~ loading.active /\ Exit(1)
    BY DEF Fail, MachineInv, PhaseInv
  <1> QED
    BY <1>1, ExitStep

\* The program is loaded from a file or from sample_rom.
LEMMA LoadProgramStep ==
  ASSUME MachineInv, Load PROVE MachineInv' /\ FlatStep
  <1>1. phase = "load" /\ ~ loading.active /\ Mapped /\ opt.rom_addr \in Addr
    BY DEF Load, MachineInv, PhaseInv, OptInv, Options
  <1>2. CASE Exit(1)
    BY <1>1, <1>2, ExitStep
  <1>3. CASE /\ opt.rom_file \in DOMAIN Files
             /\ load_bin_region(Files[opt.rom_file], opt.rom_addr)
             /\ Goto("loading")
    <2> DEFINE file == Files[opt.rom_file]
    <2>1. file \in Seq(MemByte)
      BY <1>3, LoaderAssumption
    <2>2. /\ MemInv' /\ LoadReadsBack' /\ FlatStep /\ LoaderInv'
          /\ REGIONS' = REGIONS /\ BUS' = BUS /\ last'.result = -1
          /\ loading'.active => /\ loading'.file = file
                                /\ loading'.addr = opt.rom_addr
      BY <1>1, <1>3, <2>1, OpenStep DEF MachineInv
    <2>3. phase' = "loading" /\ UNCHANGED <<argv, opt, asked>>
      BY <1>3 DEF Goto
    <2>4. OptInv'
      BY <2>3, OptionsKept DEF MachineInv
    <2>5. Mapped'
      BY <1>1, <2>2, <2>3 DEF Mapped
    <2>6. PhaseInv'
      BY <1>3, <2>2, <2>3, <2>5 DEF PhaseInv, Running
    <2> QED
      BY <2>2, <2>4, <2>6 DEF MachineInv
  <1>4. CASE /\ opt.rom_file = "NULL"
             /\ mem_region_load(opt.rom_addr, SampleRom) /\ UNCHANGED loading
             /\ Goto("vector")
    <2>1. /\ phase' = "vector" /\ UNCHANGED <<loading, argv, opt, asked>>
          /\ mem_region_load(opt.rom_addr, SampleRom)
      BY <1>4 DEF Goto
    <2>2. SampleRom \in Seq(MemByte) /\ Len(SampleRom) < ADDR_SPACE
      BY MachineAssumption
    <2>3. MemInv' /\ LoadReadsBack' /\ FlatStep
      BY <1>1, <2>1, <2>2, LoadStep DEF MachineInv
    <2>4. SameShape(REGIONS, REGIONS')
      <3>1. REGIONS' = Stored(opt.rom_addr, SampleRom,
                              Loadable(opt.rom_addr, Len(SampleRom)))
        BY <2>1 DEF mem_region_load
      <3>2. /\ Len(SampleRom) \in Nat
            /\ \A k \in 1 .. Len(SampleRom) : SampleRom[k] \in MemByte
        BY <2>2
      <3> QED
        BY <1>1, <2>2, <3>1, <3>2, LoadEffect DEF MachineInv
    <2>5. Mapped'
      BY <1>1, <2>1, <2>4, MapKept DEF MachineInv
    <2>6. LoaderInv' /\ OptInv'
      BY <1>1, <2>1, LoaderIdle, OptionsKept DEF MachineInv
    <2>7. PhaseInv'
      BY <1>1, <1>4, <2>1, <2>5 DEF PhaseInv, Running, FileHeld
    <2> QED
      BY <2>3, <2>6, <2>7 DEF MachineInv
  <1> QED
    BY <1>2, <1>3, <1>4 DEF Load

\* load_bin_region, as main calls it.
LEMMA LoadingStep ==
  ASSUME MachineInv, Loading PROVE MachineInv' /\ FlatStep
  <1>1. phase = "loading" /\ Mapped /\ opt.rom_file \in DOMAIN Files
    BY DEF Loading, MachineInv, PhaseInv
  <1>2. ASSUME NEW n \in 1 .. BUF_SIZE, Chunk(n), UNCHANGED mainVars
        PROVE  MachineInv' /\ FlatStep
    <2>1. /\ MemInv' /\ LoadReadsBack' /\ FlatStep /\ LoaderInv'
          /\ SameShape(REGIONS, REGIONS') /\ BUS' = BUS /\ last'.result = -1
          /\ loading'.active => /\ loading'.file = loading.file
                                /\ loading'.addr = loading.addr
      BY <1>2, ChunkStep DEF MachineInv
    <2>2. phase' = "loading" /\ UNCHANGED <<argv, opt, asked>>
      BY <1>1, <1>2 DEF mainVars
    <2>3. OptInv' /\ Mapped'
      BY <1>1, <2>1, <2>2, OptionsKept, MapKept DEF MachineInv
    <2>4. loading.active
      BY <1>2 DEF Chunk
    <2>5. loading.file = Files[opt.rom_file] /\ loading.addr = opt.rom_addr
      BY <1>1, <2>4 DEF MachineInv, PhaseInv
    <2>6. PhaseInv'
      BY <1>1, <2>1, <2>2, <2>3, <2>5 DEF PhaseInv, Running
    <2> QED
      BY <2>1, <2>3, <2>6 DEF MachineInv
  <1>3. CASE Finish /\ UNCHANGED mainVars
    <2>1. /\ MemInv' /\ LoadReadsBack' /\ FlatStep /\ LoaderInv'
          /\ REGIONS' = REGIONS /\ BUS' = BUS
          /\ loading.active /\ ~ loading'.active
          /\ last'.result = 0 =>
               /\ Holds(REGIONS, loading.addr, loading.file, Len(loading.file))
               /\ Measurable(loading.file)
                    => loading.addr + Len(loading.file) <= ADDR_SPACE
      BY <1>3, FinishStep DEF MachineInv
    <2>2. phase' = "loading" /\ UNCHANGED <<argv, opt, asked>>
      BY <1>1, <1>3 DEF mainVars
    <2>3. OptInv' /\ Mapped'
      BY <1>1, <2>1, <2>2, OptionsKept DEF MachineInv, Mapped
    <2>4. loading.file = Files[opt.rom_file] /\ loading.addr = opt.rom_addr
      BY <1>1, <2>1 DEF MachineInv, PhaseInv
    <2>5. last'.result = 0 => FileHeld'
      BY <1>1, <2>1, <2>2, <2>4 DEF FileHeld
    <2>6. PhaseInv'
      BY <1>1, <2>1, <2>2, <2>3, <2>5 DEF PhaseInv, Running
    <2> QED
      BY <2>1, <2>3, <2>6 DEF MachineInv
  <1>4. CASE /\ ~ loading.active /\ UNCHANGED loaderVars
             /\ Goto(IF last.result = 0 THEN "vector" ELSE "fail")
    <2>1. /\ UNCHANGED memVars /\ loading' = loading
          /\ UNCHANGED <<argv, opt, asked>>
          /\ phase' = IF last.result = 0 THEN "vector" ELSE "fail"
      BY <1>4 DEF loaderVars, Goto
    <2>2. MemInv' /\ LoadReadsBack' /\ FlatStep
      BY <2>1, StutterStep DEF MachineInv
    <2>3. LoaderInv' /\ OptInv' /\ REGIONS' = REGIONS
      BY <1>4, <2>1, LoaderIdle, OptionsKept DEF MachineInv, memVars
    <2>4. Mapped' /\ (last.result = 0 => FileHeld')
      BY <1>1, <1>4, <2>1, <2>3 DEF MachineInv, PhaseInv, Mapped, FileHeld
    <2>5. PhaseInv'
      BY <1>4, <2>1, <2>4 DEF PhaseInv, Running
    <2> QED
      BY <2>2, <2>3, <2>5 DEF MachineInv
  <1> QED
    BY <1>2, <1>3, <1>4 DEF Loading

\* There is one region of each kind, so two addresses of one kind share it.
LEMMA OneOfAKind ==
  ASSUME MemInv, Mapped, NEW a \in Addr, NEW b \in Addr,
         KindAt(REGIONS, a) = KindAt(REGIONS, b), KindAt(REGIONS, a) # "none"
  PROVE  /\ Find(REGIONS, a) = Find(REGIONS, b)
         /\ KindAt(REGIONS, a) \in {"RAM", "ROM"}
  <1>1. Table(REGIONS) /\ DOMAIN REGIONS = {1, 2}
    BY DEF MemInv, Mapped, Table
  <1>2. Find(REGIONS, a) # 0 /\ Find(REGIONS, b) # 0
    <2>1. REGIONS[1].TYPE # "none" /\ REGIONS[2].TYPE # "none"
      BY DEF Mapped
    <2> QED
      BY DEF KindAt
  <1>3. Find(REGIONS, a) \in {1, 2} /\ Find(REGIONS, b) \in {1, 2}
    BY <1>1, <1>2, Found
  <1> QED
    BY <1>2, <1>3 DEF KindAt, Mapped

\* An address below m * m has two digits in base m.
LEMMA TwoBytes ==
  ASSUME NEW m \in Nat \ {0}, NEW n \in Nat, n < m * m
  PROVE  /\ n \div m \in 0 .. m - 1 /\ n % m \in 0 .. m - 1
         /\ n = m * (n \div m) + (n % m)
  <1>1. n = m * (n \div m) + (n % m)
    OBVIOUS
  <1>2. n \div m \in Int /\ n % m \in 0 .. m - 1
    OBVIOUS
  <1>3. ASSUME NEW q \in Int, NEW r \in 0 .. m - 1, n = m * q + r
        PROVE  q \in 0 .. m - 1
    <2>1. CASE q < 0
      <3>1. m * q <= m * (-1)
        BY <2>1
      <3> QED
        BY <1>3, <2>1, <3>1
    <2>2. CASE q >= m
      <3>1. m * q >= m * m
        BY <2>2
      <3> QED
        BY <1>3, <2>2, <3>1
    <2> QED
      BY <2>1, <2>2
  <1> QED
    BY <1>1, <1>2, <1>3

\* mem_region_set_vector, as main calls it.
LEMMA SetVectorStep ==
  ASSUME MachineInv, SetVector PROVE MachineInv' /\ FlatStep
  <1> DEFINE lo == opt.rom_addr % BYTE
             hi == opt.rom_addr \div BYTE
  <1>1. /\ phase = "vector" /\ mem_region_set_vector(RESET_VECTOR, lo, hi)
        /\ phase' = "connect" /\ UNCHANGED <<loading, argv, opt, asked>>
    BY DEF SetVector, SetVectorThen, Goto
  <1>2. ~ loading.active /\ Mapped /\ FileHeld /\ MemInv
        /\ opt.rom_addr \in Addr
    BY <1>1 DEF MachineInv, PhaseInv, OptInv, Options
  <1>3. lo \in MemByte /\ hi \in MemByte
    <2>1. /\ BYTE \in Nat \ {0} /\ opt.rom_addr \in Nat
          /\ opt.rom_addr < BYTE * BYTE
      BY <1>2, MachineAssumption DEF Addr
    <2>2. lo \in 0 .. BYTE - 1
      BY <2>1
    <2>3. hi \in 0 .. BYTE - 1
      BY <2>1, TwoBytes
    <2> QED
      BY <2>2, <2>3, MachineAssumption
  <1> HIDE DEF lo, hi
  <1>4. RESET_VECTOR \in Addr /\ RESET_VECTOR + 1 \in Addr
        /\ RESET_VECTOR \in Int
    BY MachineAssumption, MemoryAssumption DEF Addr
  <1>5. MemInv' /\ LoadReadsBack' /\ FlatStep
    BY <1>1, <1>2, <1>3, <1>4, VectorStep
  <1>6. LoaderInv' /\ OptInv'
    BY <1>1, <1>2, LoaderIdle, OptionsKept DEF MachineInv
  <1>7. \/ /\ REGIONS' = REGIONS
           /\ ~ (/\ KindAt(REGIONS, RESET_VECTOR) \in {"RAM", "ROM"}
                 /\ Find(REGIONS, RESET_VECTOR + 1) = Find(REGIONS, RESET_VECTOR))
        \/ /\ SameShape(REGIONS, REGIONS')
           /\ KindAt(REGIONS, RESET_VECTOR) \in {"RAM", "ROM"}
           /\ \A x \in Addr :
                ByteAt(REGIONS', x) = IF x = RESET_VECTOR THEN lo
                                      ELSE IF x = RESET_VECTOR + 1 THEN hi
                                      ELSE ByteAt(REGIONS, x)
    BY <1>1, <1>2, <1>3, <1>4, VectorEffect
  <1>8. /\ SameShape(REGIONS, REGIONS')
        /\ \A x \in Addr \ VectorCells : ByteAt(REGIONS', x) = ByteAt(REGIONS, x)
    BY <1>2, <1>7, SameIsSame DEF VectorCells, MemInv
  <1>9. \A x \in Addr : KindAt(REGIONS', x) = KindAt(REGIONS, x)
    BY <1>2, <1>8, ShapeKept DEF MemInv
  <1>10. Mapped'
    BY <1>1, <1>2, <1>8, MapKept
  <1>11. FileKept'
    <2>1. CASE opt.rom_file = "NULL"
      BY <1>1, <2>1 DEF FileKept
    <2>2. CASE opt.rom_file # "NULL"
      <3>1. PICK file : file = Files[opt.rom_file]
        OBVIOUS
      <3>2. /\ opt.rom_file \in DOMAIN Files
            /\ Measurable(file) => opt.rom_addr + Len(file) <= ADDR_SPACE
            /\ Holds(REGIONS, opt.rom_addr, file, Len(file))
        BY <1>2, <2>2, <3>1 DEF FileHeld
      <3>3. \A k \in 1 .. Len(file) : Short(opt.rom_addr + k - 1) \in Addr
        <4>1. file \in Seq(MemByte) /\ opt.rom_addr \in Int
          BY <1>2, <3>1, <3>2, LoaderAssumption, MemoryAssumption DEF Addr
        <4>2. \A k \in 1 .. Len(file) : opt.rom_addr + k - 1 \in Int
          BY <4>1
        <4> QED
          BY <4>2, ShortIsAddr
      <3>4. ASSUME NEW k \in 1 .. Len(file),
                   NEW a, a = Short(opt.rom_addr + k - 1)
            PROVE  /\ a \in Addr /\ KindAt(REGIONS', a) \in {"RAM", "ROM"}
                   /\ k + ADDR_SPACE > Len(file) /\ a \notin VectorCells
                        => ByteAt(REGIONS', a) = file[k]
        <4>1. /\ KindAt(REGIONS, a) \in {"RAM", "ROM"}
              /\ k + ADDR_SPACE > Len(file) => ByteAt(REGIONS, a) = file[k]
          BY <3>2, <3>4 DEF Holds
        <4>2. a \in Addr
          BY <3>3, <3>4
        <4> QED
          BY <1>8, <1>9, <4>1, <4>2
      <3> QED
        BY <1>1, <3>1, <3>2, <3>4 DEF FileKept
    <2> QED
      BY <2>1, <2>2
  <1>12. VectorSet'
    <2> SUFFICES ASSUME KindAt(REGIONS, RESET_VECTOR)
                          = KindAt(REGIONS, RESET_VECTOR + 1),
                        KindAt(REGIONS, RESET_VECTOR) # "none"
                 PROVE  /\ KindAt(REGIONS', RESET_VECTOR) \in {"RAM", "ROM"}
                        /\ ByteAt(REGIONS', RESET_VECTOR) = lo
                        /\ ByteAt(REGIONS', RESET_VECTOR + 1) = hi
      BY <1>1, <1>4, <1>9 DEF VectorSet, lo, hi
    <2>1. /\ Find(REGIONS, RESET_VECTOR) = Find(REGIONS, RESET_VECTOR + 1)
          /\ KindAt(REGIONS, RESET_VECTOR) \in {"RAM", "ROM"}
      BY <1>2, <1>4, OneOfAKind
    <2>2. RESET_VECTOR + 1 # RESET_VECTOR
      BY <1>4
    <2> QED
      BY <1>4, <1>7, <1>9, <2>1, <2>2
  <1>13. PhaseInv'
    BY <1>1, <1>2, <1>10, <1>11, <1>12 DEF PhaseInv, Running
  <1> QED
    BY <1>5, <1>6, <1>13 DEF MachineInv

\* What the phases after loading rest on is untouched if the memory is.
LEMMA ProgramKept ==
  ASSUME REGIONS' = REGIONS, UNCHANGED <<opt, asked>>
  PROVE  /\ Mapped => Mapped'
         /\ FileKept => FileKept'
         /\ VectorSet => VectorSet'
  BY DEF Mapped, FileKept, VectorSet

\* mem_region_init, as main calls it.
LEMMA ConnectBusStep ==
  ASSUME MachineInv, Connect PROVE MachineInv' /\ FlatStep
  <1>1. /\ phase = "connect" /\ mem_region_init /\ phase' = "reset"
        /\ UNCHANGED <<loading, argv, opt, asked>>
    BY DEF Connect, Goto
  <1>2. ~ loading.active /\ Mapped /\ FileKept /\ VectorSet
    BY <1>1 DEF MachineInv, PhaseInv
  <1>3. REGIONS' = REGIONS /\ BUS' = "region"
    BY <1>1 DEF mem_region_init
  <1>4. MemInv' /\ LoadReadsBack' /\ FlatStep
    BY <1>1, ConnectStep DEF MachineInv
  <1>5. LoaderInv' /\ OptInv'
    BY <1>1, <1>2, LoaderIdle, OptionsKept DEF MachineInv
  <1>6. PhaseInv'
    BY <1>1, <1>2, <1>3, ProgramKept DEF PhaseInv, Running
  <1> QED
    BY <1>4, <1>5, <1>6 DEF MachineInv

\* cpu_reset.
LEMMA ResetCpuStep ==
  ASSUME MachineInv, Reset PROVE MachineInv' /\ FlatStep
  <1>1. /\ phase = "reset" /\ phase' \in {"monitor", "run"}
        /\ UNCHANGED <<argv, opt, asked>> /\ UNCHANGED loaderVars
    BY DEF Reset
  <1>2. ~ loading.active /\ Mapped /\ FileKept /\ BUS = "region"
    BY <1>1 DEF MachineInv, PhaseInv
  <1>3. /\ UNCHANGED memVars /\ REGIONS' = REGIONS /\ BUS' = BUS
        /\ loading' = loading
    BY <1>1 DEF loaderVars, memVars
  <1>4. MemInv' /\ LoadReadsBack' /\ FlatStep
    BY <1>3, StutterStep DEF MachineInv
  <1>5. LoaderInv' /\ OptInv'
    BY <1>1, <1>2, <1>3, LoaderIdle, OptionsKept DEF MachineInv
  <1>6. PhaseInv'
    BY <1>1, <1>2, <1>3, ProgramKept DEF PhaseInv, Running
  <1> QED
    BY <1>4, <1>5, <1>6 DEF MachineInv

\* A step of the CPU, from the run loop or from the monitor.
LEMMA CpuStep ==
  ASSUME MachineInv, phase \in Running, phase' \in Running, AbstractStep,
         UNCHANGED <<argv, opt, asked>>
  PROVE  MachineInv' /\ FlatStep
  <1>1. ~ loading.active /\ Mapped /\ FileKept /\ BUS = "region" /\ MemInv
    BY DEF MachineInv, PhaseInv, Running
  <1>2. loading' = loading
    BY DEF AbstractStep
  <1>3. LoaderInv' /\ OptInv'
    BY <1>1, <1>2, LoaderIdle, OptionsKept DEF MachineInv
  <1>4. CASE UNCHANGED memVars
    <2>1. REGIONS' = REGIONS /\ BUS' = BUS
      BY <1>4 DEF memVars
    <2>2. MemInv' /\ LoadReadsBack' /\ FlatStep
      BY <1>4, StutterStep DEF MachineInv
    <2>3. PhaseInv'
      BY <1>1, <1>2, <2>1, ProgramKept DEF PhaseInv, Running
    <2> QED
      BY <1>3, <2>2, <2>3 DEF MachineInv
  <1>5. ASSUME NEW a \in Addr, NEW b \in MemByte, bus_write(a, b)
        PROVE  MachineInv' /\ FlatStep
    <2>1. MemInv' /\ LoadReadsBack' /\ FlatStep
      BY <1>1, <1>5, BusWriteStep
    <2>2. /\ SameShape(REGIONS, REGIONS') /\ BUS' = BUS
          /\ \A x \in Addr :
               KindAt(REGIONS, x) = "ROM"
                 => ByteAt(REGIONS', x) = ByteAt(REGIONS, x)
      BY <1>1, <1>5, WriteEffect
    <2>3. \A x \in Addr : KindAt(REGIONS', x) = KindAt(REGIONS, x)
      BY <1>1, <2>2, ShapeKept DEF MemInv
    <2>4. Mapped'
      BY <1>1, <2>2, MapKept
    <2>5. FileKept'
      BY <1>1, <2>2, <2>3 DEF FileKept
    <2>6. PhaseInv'
      BY <1>1, <1>2, <2>2, <2>4, <2>5 DEF PhaseInv, Running
    <2> QED
      BY <1>3, <2>1, <2>6 DEF MachineInv
  <1> QED
    BY <1>4, <1>5 DEF AbstractStep

\* A turn of the run loop.
LEMMA RunTurnStep ==
  ASSUME MachineInv, RunTurn PROVE MachineInv' /\ FlatStep
  <1>1. /\ phase = "run" /\ AbstractStep /\ phase' \in {"complete", "run"}
        /\ UNCHANGED <<argv, opt, asked>>
    BY DEF RunTurn
  <1>2. phase \in Running /\ phase' \in Running
    BY <1>1 DEF Running
  <1> QED
    BY <1>1, <1>2, CpuStep

\* The end of the run loop: main returns.
LEMMA CompleteStep ==
  ASSUME MachineInv, Complete PROVE MachineInv' /\ FlatStep
  <1>1. phase \in {"complete", "run"} /\ Exit(0)
    BY DEF Complete
  <1>2. ~ loading.active
    BY <1>1 DEF MachineInv, PhaseInv
  <1> QED
    BY <1>1, <1>2, ExitStep

\* run_monitor_mode: CPU steps, then the return from main.
LEMMA MonitorModeStep ==
  ASSUME MachineInv, MonitorMode PROVE MachineInv' /\ FlatStep
  <1>1. CASE Exit(0)
    <2>1. ~ loading.active
      BY DEF MonitorMode, MachineInv, PhaseInv
    <2> QED
      BY <1>1, <2>1, ExitStep
  <1>2. CASE AbstractStep /\ UNCHANGED <<phase, argv, opt, asked>>
    <2>1. phase \in Running /\ phase' \in Running
      BY <1>2 DEF MonitorMode, Running
    <2> QED
      BY <1>2, <2>1, CpuStep
  <1> QED
    BY <1>1, <1>2 DEF MonitorMode

\* A program without main: the memory calls and the loader, in any order.
LEMMA LibraryStep ==
  ASSUME MachineInv, Library PROVE MachineInv' /\ FlatStep
  <1>1. /\ phase = "library" /\ phase' = "library" /\ LoaderNext
        /\ UNCHANGED <<argv, opt, asked>>
    BY DEF Library, mainVars
  <1>2. OptInv' /\ PhaseInv'
    BY <1>1, OptionsKept DEF MachineInv, PhaseInv, Running
  <1>3. MemInv /\ LoaderInv
    BY DEF MachineInv
  <1>4. CASE ~ loading.active /\ MemNext /\ UNCHANGED loading
    BY <1>2, <1>3, <1>4, NextStep, LoaderIdle DEF MachineInv
  <1>5. ASSUME NEW f \in DOMAIN Files, NEW addr \in Addr,
               load_bin_region(Files[f], addr)
        PROVE  MachineInv' /\ FlatStep
    <2>1. Files[f] \in Seq(MemByte)
      BY LoaderAssumption
    <2> QED
      BY <1>2, <1>3, <1>5, <2>1, OpenStep DEF MachineInv
  <1>6. ASSUME NEW n \in 1 .. BUF_SIZE, Chunk(n)
        PROVE  MachineInv' /\ FlatStep
    BY <1>2, <1>3, <1>6, ChunkStep DEF MachineInv
  <1>7. CASE Finish
    BY <1>2, <1>3, <1>7, FinishStep DEF MachineInv
  <1> QED
    BY <1>1, <1>4, <1>5, <1>6, <1>7 DEF LoaderNext

\* A sequence without elements has elements of any kind.
LEMMA NoArguments == ASSUME NEW S PROVE << >> \in Seq(S)
  OBVIOUS

\* The start of main, and of a program without it.
LEMMA StartInv ==
  ASSUME MainInit \/ LibraryInit PROVE MachineInv /\ Flat!FlatInit
  <1>1. /\ MemInit /\ loading = Idle /\ phase \in {"parse", "library"}
        /\ opt = Defaults /\ asked = [x \in Extents |-> Defaults[x]]
    BY DEF MainInit, LibraryInit, LoaderInit
  <1>2. argv \in Seq(STRING)
    <2>1. argv \in Argvs \/ argv = << >>
      BY DEF MainInit, LibraryInit
    <2>2. Argvs \subseteq Seq(STRING)
      BY MachineAssumption
    <2> QED
      BY <2>1, <2>2, NoArguments
  <1>3. MemInv /\ LoadReadsBack /\ Flat!FlatInit
    BY <1>1, InitInv
  <1>4. LoaderInv
    BY <1>1, MemoryAssumption DEF LoaderInv, Idle, Addr
  <1>5. OptInv
    <2>1. opt \in Options
      <3>1. Defaults \in Options
        BY MachineAssumption
      <3> QED
        BY <1>1, <3>1
    <2>2. /\ asked.ram_start = opt.ram_start /\ asked.ram_size = opt.ram_size
          /\ asked.rom_start = opt.rom_start /\ asked.rom_size = opt.rom_size
      BY <1>1 DEF Extents
    <2>3. /\ opt.ram_size \in Addr /\ opt.rom_size \in Addr
          /\ Addr \subseteq 0 .. ADDR_SPACE
      BY <2>1, MemoryAssumption DEF Options, Addr
    <2> QED
      BY <1>2, <2>1, <2>2, <2>3, ShortOfAddr DEF OptInv
  <1>6. PhaseInv
    BY <1>1 DEF PhaseInv, Running, Idle
  <1> QED
    BY <1>3, <1>4, <1>5, <1>6 DEF MachineInv

\* Every step of the machine, and a step that changes nothing.
LEMMA MachineStep ==
  ASSUME MachineInv, [MachineNext]_machineVars PROVE MachineInv' /\ FlatStep
  <1>1. CASE Main
    BY <1>1, ParseStep, ConfigureStep, AddRamStep, AddRomStep, FailStep,
       LoadProgramStep, LoadingStep, SetVectorStep, ConnectBusStep,
       ResetCpuStep, RunTurnStep, CompleteStep DEF Main
  <1>2. CASE UNCHANGED machineVars
    <2>1. /\ UNCHANGED memVars /\ loading' = loading
          /\ UNCHANGED <<phase, argv, opt, asked>>
          /\ REGIONS' = REGIONS /\ BUS' = BUS /\ last' = last
      BY <1>2 DEF machineVars, loaderVars, mainVars, memVars
    <2>2. MemInv' /\ LoadReadsBack' /\ FlatStep
      BY <2>1, StutterStep DEF MachineInv
    <2>3. LoaderInv' /\ OptInv'
      BY <2>1, OptionsKept DEF MachineInv, LoaderInv
    <2>4. PhaseInv'
      BY <2>1, ProgramKept DEF MachineInv, PhaseInv, RamMapped, FileHeld
    <2> QED
      BY <2>2, <2>3, <2>4 DEF MachineInv
  <1> QED
    BY <1>1, <1>2, MonitorModeStep, LibraryStep DEF MachineNext

----------------------------------------------------------------------------
(* What holds of main, and of a program without it *)

\* The invariant, from the first step on, with every step a step of the flat
\* address space.
LEMMA MachineInductive ==
  MachineSpec => /\ []MachineInv
                 /\ Flat!FlatInit /\ [][FlatStep]_machineVars
  <1>1. MainInit \/ LibraryInit => MachineInv /\ Flat!FlatInit
    BY StartInv
  <1>2. MachineInv /\ [MachineNext]_machineVars => MachineInv' /\ FlatStep
    BY MachineStep
  <1> QED
    BY <1>1, <1>2, PTL DEF MachineSpec

\* The locals of main that the invariant does not speak of.
LocalsInv ==
  /\ phase \in Phases /\ asked \in [Extents -> 0 .. ADDR_SPACE]
  /\ PC \in Addr /\ cycle_cnt \in 0 .. CPU_TEST_RUN_LIMIT
  /\ status \in IF phase = "done" THEN {0, 1} ELSE {-1}
  /\ loading.off <= Len(loading.file)

\* What the bus reads is a byte, on open bus 0xFF.
LEMMA ReadsByte ==
  ASSUME MemInv, NEW a \in Addr PROVE bus_read(a) \in Int
  <1>1. Table(REGIONS) /\ port \in MemByte /\ MemByte \subseteq Int /\ 255 \in Int
    BY MemoryAssumption DEF MemInv
  <1>2. KindAt(REGIONS, a) \in {"RAM", "ROM"} => ByteAt(REGIONS, a) \in MemByte
    BY <1>1, Memory
  <1>3. CASE BUS = "region" /\ KindAt(REGIONS, a) \in {"RAM", "ROM"}
    BY <1>1, <1>2, <1>3, BusReads
  <1>4. CASE BUS # "region"
    BY <1>4 DEF bus_read, MemInv
  <1>5. CASE BUS = "region" /\ KindAt(REGIONS, a) \notin {"RAM", "ROM"}
    <2>1. PICK i : i = Find(REGIONS, a)
      OBVIOUS
    <2>2. find_region(a) = i /\ (i = 0 \/ REGIONS[i].DATA = NoData)
      BY <1>1, <1>5, <2>1, InTheTable, Memory
    <2>3. bus_read(a) \in {255, port}
      BY <1>5, <2>2 DEF bus_read, region_bus_read
    <2> QED
      BY <1>1, <2>3
  <1> QED
    BY <1>3, <1>4, <1>5

\* The loader goes idle, stays as it is, or has a load in progress.
LEMMA OffsetStep ==
  ASSUME MachineInv', loading'.active \/ loading' \in {Idle, loading},
         loading.off <= Len(loading.file)
  PROVE  loading'.off <= Len(loading'.file)
  BY DEF MachineInv, LoaderInv, Idle

\* The extents asked for are set by operands in range only.
LEMMA AskedStep ==
  ASSUME LocalsInv, NEW arg \in DOMAIN NumericArg, NEW str, NEW v,
         parse_numeric(arg, str), v = Strtol[Base(arg)][str],
         asked' = [x \in Extents |-> IF x = NumericArg[arg] THEN v ELSE asked[x]]
  PROVE  asked' \in [Extents -> 0 .. ADDR_SPACE]
  <1>1. v \in RangeOf(arg)
    BY DEF parse_numeric
  <1>2. v \in 0 .. ADDR_SPACE
    BY <1>1, MemoryAssumption DEF RangeOf, Addr
  <1> QED
    BY <1>2 DEF LocalsInv

\* Every step keeps the types of the locals.
LEMMA LocalsStep ==
  ASSUME MachineInv, MachineInv', LocalsInv, [MachineNext]_machineVars
  PROVE  LocalsInv'
  <1> USE DEF LocalsInv
  <1>1. ASSUME NEW code \in {0, 1}, Exit(code) PROVE LocalsInv'
    BY <1>1 DEF Exit, Phases
  <1>2. ASSUME NEW p \in Phases \ {"done"}, Goto(p), phase # "done",
               loading'.active \/ loading' \in {Idle, loading}
        PROVE  LocalsInv'
    BY <1>2, OffsetStep DEF Goto
  <1>3. CASE UNCHANGED mainVars /\ (loading'.active \/ loading' \in {Idle, loading})
    BY <1>3, OffsetStep DEF mainVars
  <1>4. CASE ParseArg
    <2>1. CASE OperandArg(argv[1], argv[2])
      <3>1. /\ loading' = loading
            /\ UNCHANGED <<phase, PC, cycle_cnt, status>>
        BY <2>1 DEF OperandArg, loaderVars
      <3>2. asked' \in [Extents -> 0 .. ADDR_SPACE]
        <4>1. CASE asked' = asked
          BY <4>1
        <4>2. CASE /\ argv[1] \in DOMAIN NumericArg
                   /\ parse_numeric(argv[1], argv[2])
                   /\ asked' = [x \in Extents |->
                                  IF x = NumericArg[argv[1]]
                                  THEN Strtol[Base(argv[1])][argv[2]]
                                  ELSE asked[x]]
          <5>1. PICK a, t, v : a = argv[1] /\ t = argv[2] /\ v = Strtol[Base(a)][t]
            OBVIOUS
          <5>2. /\ a \in DOMAIN NumericArg /\ parse_numeric(a, t)
                /\ asked' = [x \in Extents |-> IF x = NumericArg[a] THEN v
                                               ELSE asked[x]]
            BY <4>2, <5>1
          <5> QED
            BY <5>1, <5>2, AskedStep
        <4> QED
          BY <2>1, <4>1, <4>2 DEF OperandArg
      <3> QED
        BY <3>1, <3>2
    <2>2. CASE PlainArg(Head(argv))
      BY <2>2 DEF PlainArg, loaderVars
    <2>3. CASE BadOperand(argv[1], argv[2])
      BY <1>1, <2>3 DEF BadOperand
    <2> QED
      BY <1>4, <2>1, <2>2, <2>3 DEF ParseArg
  <1>5. CASE Configure
    BY <1>1, <1>2, <1>5 DEF Configure, Phases
  <1>6. CASE AddRam \/ AddRom
    <2>1. /\ phase # "done" /\ loading' = loading
          /\ \E p \in {"rom", "load", "fail"} : Goto(p)
      BY <1>6 DEF AddRam, AddRom, AddRegion
    <2> QED
      BY <1>2, <2>1 DEF Phases
  <1>7. CASE Fail \/ Complete
    BY <1>1, <1>7 DEF Fail, Complete
  <1>8. ASSUME NEW file, NEW addr, load_bin_region(file, addr)
        PROVE  loading'.active \/ loading' \in {Idle, loading}
    BY <1>8 DEF load_bin_region
  <1>9. ASSUME (\E n \in 1 .. BUF_SIZE : Chunk(n)) \/ Finish
        PROVE  loading'.active \/ loading' \in {Idle, loading}
    <2>1. ASSUME NEW n \in 1 .. BUF_SIZE, Chunk(n)
          PROVE  loading'.active \/ loading' = Idle
      <3>1. CASE loading' = Idle
        BY <3>1
      <3>2. CASE \E o, e : loading' = [loading EXCEPT !.off = o, !.err = e]
        <4>1. loading.active /\ "active" \in DOMAIN loading
          BY <2>1 DEF Chunk, MachineInv, LoaderInv
        <4> QED
          BY <3>2, <4>1
      <3> QED
        BY <2>1, <3>1, <3>2, Zenon DEF Chunk, Return
    <2>2. CASE Finish
      BY <2>2 DEF Finish, Return
    <2> QED
      BY <1>9, <2>1, <2>2
  <1>10. CASE Load
    <2>1. CASE Exit(1)
      BY <1>1, <2>1
    <2>2. CASE /\ load_bin_region(Files[opt.rom_file], opt.rom_addr)
               /\ Goto("loading")
      BY <1>2, <1>8, <1>10, <2>2 DEF Load, Phases
    <2>3. CASE UNCHANGED loading /\ Goto("vector")
      BY <1>2, <1>10, <2>3 DEF Load, Phases
    <2> QED
      BY <1>10, <2>1, <2>2, <2>3 DEF Load
  <1>11. CASE Loading
    <2>1. CASE ((\E n \in 1 .. BUF_SIZE : Chunk(n)) \/ Finish) /\ UNCHANGED mainVars
      BY <1>3, <1>9, <2>1
    <2>2. CASE /\ UNCHANGED loaderVars
               /\ Goto(IF last.result = 0 THEN "vector" ELSE "fail")
      <3>1. loading' = loading /\ phase # "done"
        BY <1>11, <2>2 DEF loaderVars, Loading
      <3> QED
        BY <1>2, <2>2, <3>1 DEF Phases
    <2> QED
      BY <1>11, <2>1, <2>2 DEF Loading
  <1>12. CASE SetVector \/ Connect
    <2>1. /\ phase # "done" /\ loading' = loading
          /\ \E p \in {"connect", "reset"} : Goto(p)
      BY <1>12 DEF SetVector, SetVectorThen, Connect
    <2> QED
      BY <1>2, <2>1 DEF Phases
  <1>13. CASE Reset
    <2>1. /\ RESET_VECTOR \in Addr /\ RESET_VECTOR + 1 \in Addr /\ BYTE \in Int
          /\ Short(RESET_VECTOR + 1) = RESET_VECTOR + 1
      BY MachineAssumption, ShortOfAddr
    <2>2. bus_read16(RESET_VECTOR) \in Int
      <3>1. /\ bus_read(RESET_VECTOR) \in Int
            /\ bus_read(Short(RESET_VECTOR + 1)) \in Int
        BY <2>1, ReadsByte DEF MachineInv
      <3> QED
        BY <2>1, <3>1 DEF bus_read16
    <2>3. PC' \in Addr
      BY <1>13, <2>2, ShortIsAddr DEF Reset
    <2> QED
      BY <1>13, <2>3 DEF Reset, loaderVars, Phases
  <1>14. CASE RunTurn
    <2>1. cycle_cnt' \in 0 .. CPU_TEST_RUN_LIMIT
      BY <1>14, MachineAssumption DEF RunTurn
    <2> QED
      BY <1>14, <2>1 DEF RunTurn, AbstractStep, Phases
  <1>15. CASE MonitorMode
    <2>1. CASE Exit(0)
      BY <1>1, <2>1
    <2>2. CASE /\ AbstractStep
               /\ UNCHANGED <<phase, argv, opt, asked, cycle_cnt, status>>
      BY <2>2 DEF AbstractStep
    <2> QED
      BY <1>15, <2>1, <2>2 DEF MonitorMode
  <1>16. CASE Library
    BY <1>3, <1>8, <1>9, <1>16 DEF Library, LoaderNext
  <1>17. CASE UNCHANGED machineVars
    BY <1>3, <1>17 DEF machineVars, loaderVars
  <1> QED
    BY <1>4, <1>5, <1>6, <1>7, <1>10, <1>11, <1>12, <1>13, <1>14, <1>15, <1>16,
       <1>17 DEF MachineNext, Main

\* Whatever the command line, the files and the program are, the region table
\* stays within the C array, the loader within its file, the options keep their
\* 16 bits, the run loop its limit, and main has a result once it returned.
THEOREM MachineTypesCorrect == MachineSpec => []MachineTypes
  <1>1. MainInit \/ LibraryInit => MachineInv /\ LocalsInv
    <2> SUFFICES ASSUME MainInit \/ LibraryInit PROVE MachineInv /\ LocalsInv
      OBVIOUS
    <2>1. MachineInv
      BY StartInv
    <2>2. /\ loading = Idle /\ phase \in {"parse", "library"} /\ PC = 0
          /\ cycle_cnt = 0 /\ status = -1
          /\ asked = [x \in Extents |-> Defaults[x]]
      BY DEF MainInit, LibraryInit, LoaderInit
    <2>3. asked \in [Extents -> 0 .. ADDR_SPACE]
      <3>1. Defaults \in Options /\ Addr \subseteq 0 .. ADDR_SPACE
        BY MachineAssumption, MemoryAssumption DEF Addr
      <3>2. \A x \in Extents : Defaults[x] \in Addr
        BY <3>1 DEF Options, Extents
      <3> QED
        BY <2>2, <3>1, <3>2
    <2>4. 0 \in Addr /\ 0 \in 0 .. CPU_TEST_RUN_LIMIT
      BY MachineAssumption, MemoryAssumption DEF Addr
    <2> QED
      BY <2>1, <2>2, <2>3, <2>4 DEF LocalsInv, Phases, Idle
  <1>2. MachineInv /\ LocalsInv /\ [MachineNext]_machineVars
          => MachineInv' /\ LocalsInv'
    BY MachineStep, LocalsStep
  <1>3. MachineInv /\ LocalsInv => MachineTypes
    BY InvGives DEF MachineInv, LocalsInv, LoaderInv, OptInv, MachineTypes
  <1> QED
    BY <1>1, <1>2, <1>3, PTL DEF MachineSpec

\* No two regions share an address and no offset leaves its buffer.
THEOREM MachineDisjoint == MachineSpec => []RegionsDisjoint
  <1>1. MachineInv => RegionsDisjoint
    BY InvGives DEF MachineInv
  <1> QED
    BY <1>1, MachineInductive, PTL

\* What mem_region_load, mem_region_set_vector or load_bin_region reports as
\* stored is what the bus then reads; of a file that goes round the address
\* space, whose size wrapped in the check, its last ADDR_SPACE bytes.
THEOREM MachineReadsBack == MachineSpec => []LoadReadsBack
  <1>1. MachineInv => LoadReadsBack
    BY DEF MachineInv
  <1> QED
    BY <1>1, MachineInductive, PTL

\* main reaches cpu_step only with the memory the command line asked for.
THEOREM ConfigurationCorrect == MachineSpec => []RunsAsConfigured
  <1>1. MachineInv => RunsAsConfigured
    <2> SUFFICES ASSUME MachineInv, Started, NEW a \in Addr
                 PROVE  /\ TypeAt(a) = "RAM"
                             <=> In(a, asked.ram_start, asked.ram_size)
                        /\ TypeAt(a) = "ROM"
                             <=> In(a, asked.rom_start, asked.rom_size)
      BY DEF RunsAsConfigured
    <2>1. Mapped
      BY DEF MachineInv, PhaseInv, Started, Running
    <2> QED
      BY <2>1, InTheTable DEF Mapped
  <1> QED
    BY <1>1, MachineInductive, PTL

\* A machine that runs holds the file it was given: a measurable one in one
\* piece, a longer one with its last bytes; where it lies in ROM the CPU reads
\* it unchanged, the reset vector excepted.
THEOREM ProgramCorrect == MachineSpec => []ProgramIntact
  <1>1. MachineInv => ProgramIntact
    <2> DEFINE file == Files[opt.rom_file]
    <2> SUFFICES ASSUME MachineInv, Started, opt.rom_file # "NULL"
                 PROVE  /\ opt.rom_file \in DOMAIN Files
                        /\ Measurable(file)
                             => opt.rom_addr + Len(file) <= ADDR_SPACE
                        /\ \A k \in DOMAIN file :
                             LET a == Short(opt.rom_addr + k - 1)
                             IN  /\ TypeAt(a) \in {"RAM", "ROM"}
                                 /\ /\ k + ADDR_SPACE > Len(file)
                                    /\ TypeAt(a) = "ROM" /\ a \notin VectorCells
                                    => bus_read(a) = file[k]
      BY DEF ProgramIntact
    <2>1. FileKept /\ BUS = "region" /\ Table(REGIONS)
      BY DEF MachineInv, PhaseInv, Started, Running, MemInv
    <2>2. /\ opt.rom_file \in DOMAIN Files
          /\ Measurable(file) => opt.rom_addr + Len(file) <= ADDR_SPACE
      BY <2>1 DEF FileKept
    <2>3. DOMAIN file = 1 .. Len(file)
      <3>1. file \in Seq(MemByte)
        BY <2>2, LoaderAssumption
      <3> QED
        BY <3>1
    <2>4. ASSUME NEW k \in 1 .. Len(file),
                 NEW a, a = Short(opt.rom_addr + k - 1)
          PROVE  /\ TypeAt(a) \in {"RAM", "ROM"}
                 /\ /\ k + ADDR_SPACE > Len(file)
                    /\ TypeAt(a) = "ROM" /\ a \notin VectorCells
                    => bus_read(a) = file[k]
      <3>1. /\ a \in Addr /\ KindAt(REGIONS, a) \in {"RAM", "ROM"}
            /\ /\ k + ADDR_SPACE > Len(file)
               /\ KindAt(REGIONS, a) = "ROM" /\ a \notin VectorCells
               => ByteAt(REGIONS, a) = file[k]
        BY <2>1, <2>4 DEF FileKept
      <3>2. TypeAt(a) = KindAt(REGIONS, a)
        BY InTheTable
      <3>3. bus_read(a) = ByteAt(REGIONS, a)
        BY <2>1, <3>1, BusReads
      <3> QED
        BY <3>1, <3>2, <3>3
    <2> QED
      BY <2>2, <2>3, <2>4
  <1> QED
    BY <1>1, MachineInductive, PTL

\* main and the loader, too, see a flat address space.
THEOREM MachineFlat == MachineSpec => ImplementsFlatMemory
  <1>1. MainInit \/ LibraryInit => MachineInv /\ Flat!FlatInit
    BY StartInv
  <1>2. MachineInv /\ [MachineNext]_machineVars
          => MachineInv' /\ [Flat!FlatNext]_(Flat!flatVars)
    BY MachineStep DEF FlatStep
  <1> QED
    BY <1>1, <1>2, PTL DEF MachineSpec, ImplementsFlatMemory, Flat!FlatSpec

\* No chunk of a measurable file changes what lies below the load address.
THEOREM LoaderStaysAbove == MachineSpec => LoadBinStaysAbove
  <1>1. MainInit \/ LibraryInit => MachineInv
    BY StartInv
  <1>2. MachineInv /\ [MachineNext]_machineVars => MachineInv'
    BY MachineStep
  <1>3. ASSUME MachineInv, [MachineNext]_machineVars, loading.active,
               Measurable(loading.file), NEW a \in 0 .. loading.addr - 1
        PROVE  bus_read(a)' = bus_read(a)
    <2>1. phase \in {"loading", "library"} /\ MemInv /\ LoaderInv
      BY <1>3 DEF MachineInv, PhaseInv
    <2>2. ASSUME NEW n \in 1 .. BUF_SIZE, Chunk(n)
          PROVE  bus_read(a)' = bus_read(a)
      BY <1>3, <2>1, <2>2, ChunkStep
    <2>3. CASE REGIONS' = REGIONS /\ BUS' = BUS /\ port' = port
      BY <2>3 DEF bus_read, region_bus_read, find_region
    <2>4. CASE Finish
      BY <2>1, <2>3, <2>4, FinishStep
    <2>5. CASE UNCHANGED loaderVars
      BY <2>3, <2>5 DEF loaderVars, memVars
    <2>6. CASE UNCHANGED machineVars
      BY <2>5, <2>6 DEF machineVars
    <2>7. CASE Loading
      BY <2>2, <2>4, <2>5, <2>7 DEF Loading
    <2>8. CASE Library
      BY <1>3, <2>2, <2>4, <2>8 DEF Library, LoaderNext, load_bin_region
    <2>9. MachineNext => Loading \/ Library
      BY <2>1 DEF MachineNext, Main, MonitorMode, ParseArg, Configure, AddRam,
                  AddRom, AddRegion, Fail, Load, SetVector, SetVectorThen,
                  Connect, Reset, RunTurn, Complete
    <2> QED
      BY <1>3, <2>6, <2>7, <2>8, <2>9
  <1>4. MachineInv /\ [MachineNext]_machineVars
          => [loading.active /\ Measurable(loading.file) =>
                \A a \in 0 .. loading.addr - 1 : bus_read(a)' = bus_read(a)]_loaderVars
    BY <1>3
  <1> QED
    BY <1>1, <1>2, <1>4, PTL DEF MachineSpec, LoadBinStaysAbove

\* cpu_reset finds the load address in the vector that main set.
THEOREM BootCorrect == MachineSpec => BootsProgram
  <1>1. MainInit \/ LibraryInit => MachineInv
    BY StartInv
  <1>2. MachineInv /\ [MachineNext]_machineVars => MachineInv'
    BY MachineStep
  <1>3. ASSUME MachineInv, MachineNext, phase = "reset",
               TypeAt(RESET_VECTOR) = TypeAt(RESET_VECTOR + 1),
               TypeAt(RESET_VECTOR) # "none"
        PROVE  PC' = opt.rom_addr
    <2>1. /\ VectorSet /\ BUS = "region" /\ Table(REGIONS)
          /\ opt.rom_addr \in Addr
      BY <1>3 DEF MachineInv, PhaseInv, MemInv, OptInv, Options
    <2>2. PC' = Short(bus_read16(RESET_VECTOR))
      BY <1>3 DEF MachineNext, Main, MonitorMode, Library, ParseArg, Configure,
                  AddRam, AddRom, AddRegion, Fail, Load, Loading, SetVector,
                  SetVectorThen, Connect, Reset, RunTurn, Complete
    <2>3. /\ RESET_VECTOR \in Addr /\ RESET_VECTOR + 1 \in Addr
          /\ BYTE \in Nat \ {0} /\ ADDR_SPACE = BYTE * BYTE
      BY MachineAssumption
    <2>4. /\ KindAt(REGIONS, RESET_VECTOR) \in {"RAM", "ROM"}
          /\ KindAt(REGIONS, RESET_VECTOR + 1) \in {"RAM", "ROM"}
          /\ ByteAt(REGIONS, RESET_VECTOR) = opt.rom_addr % BYTE
          /\ ByteAt(REGIONS, RESET_VECTOR + 1) = opt.rom_addr \div BYTE
      BY <1>3, <2>1, InTheTable DEF VectorSet
    <2>5. /\ bus_read(RESET_VECTOR) = opt.rom_addr % BYTE
          /\ bus_read(Short(RESET_VECTOR + 1)) = opt.rom_addr \div BYTE
      BY <2>1, <2>3, <2>4, BusReads, ShortOfAddr
    <2>6. bus_read16(RESET_VECTOR)
            = (opt.rom_addr % BYTE) + BYTE * (opt.rom_addr \div BYTE)
      BY <2>5 DEF bus_read16
    <2>7. opt.rom_addr \in Nat /\ opt.rom_addr < BYTE * BYTE
      BY <2>1, <2>3, MemoryAssumption DEF Addr
    <2>8. bus_read16(RESET_VECTOR) = opt.rom_addr
      <3> DEFINE a == opt.rom_addr
                 q == opt.rom_addr \div BYTE
                 r == opt.rom_addr % BYTE
                 b == bus_read16(RESET_VECTOR)
      <3>1. a = BYTE * q + r /\ q \in 0 .. BYTE - 1 /\ r \in 0 .. BYTE - 1
        BY <2>3, <2>7, TwoBytes
      <3>2. b = r + BYTE * q /\ BYTE \in Nat
        BY <2>3, <2>6
      <3> HIDE DEF a, b, q, r
      <3>3. b = a
        BY <3>1, <3>2
      <3> QED
        BY <3>3 DEF a, b
    <2> QED
      BY <2>1, <2>2, <2>8, ShortOfAddr
  <1>4. MachineInv /\ [MachineNext]_machineVars
          => [/\ phase = "reset"
              /\ TypeAt(RESET_VECTOR) = TypeAt(RESET_VECTOR + 1)
              /\ TypeAt(RESET_VECTOR) # "none"
              => PC' = opt.rom_addr]_machineVars
    BY <1>3
  <1> QED
    BY <1>1, <1>2, <1>4, PTL DEF MachineSpec, BootsProgram
=============================================================================
