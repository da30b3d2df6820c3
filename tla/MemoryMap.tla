----------------------------- MODULE MemoryMap -----------------------------
(***************************************************************************)
(* src/memory.c and src/bus.c: the bus of the CPU, served by a table of    *)
(* memory regions.  The host builds the table and loads the memory, the    *)
(* CPU reads and writes through the bus.                                   *)
(*                                                                         *)
(* REGIONS is the used part of the C array, so REGION_COUNT is its length. *)
(* A region's DATA is a function on its offsets; the empty function is the *)
(* NULL pointer of an I/O region.  Addresses and sizes are unsigned short: *)
(* ADDR_SPACE is 0x10000.                                                  *)
(***************************************************************************)
EXTENDS Integers, Sequences

CONSTANTS
  ADDR_SPACE,          \* 0x10000
  MAX_MEM_REGIONS,     \* 16
  MemByte,             \* the bytes that are written
  Blobs,               \* the byte sequences that are loaded
  IoHandlers           \* which handlers I/O regions have: <<read, write>>

ASSUME MemoryAssumption ==
  /\ ADDR_SPACE \in Nat \ {0}
  /\ MAX_MEM_REGIONS \in Nat
  /\ MemByte \subseteq 0 .. 255
  /\ 0 \in MemByte
  /\ Blobs \subseteq Seq(MemByte)
  /\ \A data \in Blobs : Len(data) < ADDR_SPACE
  /\ IoHandlers \subseteq BOOLEAN \X BOOLEAN

VARIABLES
  REGIONS,
  BUS,          \* "NULL" until mem_region_init installs the region handlers
  port,         \* the byte behind the I/O handlers
  last          \* the last call: operation, result, and what it loaded

memVars == <<REGIONS, BUS, port, last>>

Addr == 0 .. ADDR_SPACE - 1
Short(n) == n % ADDR_SPACE                       \* MEM_TWO_WORDS

NoData == << >>                                  \* DATA = NULL
MEM_REGION ==
  [START : Addr, END : Addr, TYPE : {"RAM", "ROM", "IO"},
   READ_HANDLER : BOOLEAN, WRITE_HANDLER : BOOLEAN,
   DATA : {NoData} \cup UNION {[0 .. n -> MemByte] : n \in Addr}]

\* A call that returned 0, with what it stored, and one that returned -1.
Did(op, addr, data) == [op |-> op, addr |-> addr, data |-> data, result |-> 0]
Failed(op) == [op |-> op, addr |-> 0, data |-> << >>, result |-> -1]

MemInit ==
  /\ REGIONS = << >>
  /\ BUS = "NULL"
  /\ port = 0
  /\ last = Did("none", 0, << >>)

----------------------------------------------------------------------------
(* Regions *)

Covers(r, a) == r.START <= a /\ a <= r.END

\* Mutant: regions that share only their end points do not overlap.
region_overlaps_open(start, end) ==
  \E i \in DOMAIN REGIONS :
    start < REGIONS[i].END /\ REGIONS[i].START < end

region_overlaps(start, end) ==
  \E i \in DOMAIN REGIONS :
    start <= REGIONS[i].END /\ REGIONS[i].START <= end

\* The index of the first region that covers a; 0 is the NULL pointer.
find_region(a) ==
  LET hits == {i \in DOMAIN REGIONS : Covers(REGIONS[i], a)}
  IN  IF hits = {} THEN 0 ELSE CHOOSE i \in hits : \A j \in hits : i <= j

TypeAt(a) ==
  IF find_region(a) = 0 THEN "none" ELSE REGIONS[find_region(a)].TYPE

\* region && region->DATA
HasData(a) == find_region(a) # 0 /\ REGIONS[find_region(a)].DATA # NoData

\* Mutant: one region more than the array holds.
Addable_one_more(start, size) ==
  /\ Len(REGIONS) <= MAX_MEM_REGIONS
  /\ size # 0 /\ start + size <= ADDR_SPACE
  /\ ~ region_overlaps(start, Short(start + size - 1))

\* The checks the three mem_region_add functions make, in their order.
Addable(start, size) ==
  /\ Len(REGIONS) < MAX_MEM_REGIONS
  /\ size # 0 /\ start + size <= ADDR_SPACE
  /\ ~ region_overlaps(start, Short(start + size - 1))

Region(type, start, size, data, rh, wh) ==
  [START |-> start, END |-> Short(start + size - 1), TYPE |-> type,
   READ_HANDLER |-> rh, WRITE_HANDLER |-> wh, DATA |-> data]

Add(region) ==
  /\ REGIONS' = Append(REGIONS, region)
  /\ last' = Did("add", 0, << >>)

AddFails ==
  /\ last' = Failed("add")
  /\ UNCHANGED REGIONS

\* mem_region_add_ram and mem_region_add_rom; calloc may fail.
mem_region_add(type, start, size) ==
  /\ \/ /\ Addable(start, size)
        /\ Add(Region(type, start, size, [o \in 0 .. size - 1 |-> 0],
                      FALSE, FALSE))
     \/ AddFails
  /\ UNCHANGED <<BUS, port>>

\* rh and wh: is there a READ_HANDLER, a WRITE_HANDLER?
mem_region_add_io(start, size, rh, wh) ==
  /\ \/ /\ Addable(start, size)
        /\ Add(Region("IO", start, size, NoData, rh, wh))
     \/ ~ Addable(start, size) /\ AddFails
  /\ UNCHANGED <<BUS, port>>

mem_region_clear ==
  /\ REGIONS' = << >>
  /\ last' = Did("clear", 0, << >>)
  /\ UNCHANGED <<BUS, port>>

mem_region_init ==
  /\ BUS' = "region"
  /\ last' = Did("init", 0, << >>)
  /\ UNCHANGED <<REGIONS, port>>

----------------------------------------------------------------------------
(* The bus *)

region_bus_read(a) ==
  LET i == find_region(a)
  IN  IF i = 0 THEN 255
      ELSE IF REGIONS[i].TYPE = "IO" /\ REGIONS[i].READ_HANDLER THEN port
      ELSE IF REGIONS[i].DATA # NoData
           THEN REGIONS[i].DATA[Short(a - REGIONS[i].START)]
      ELSE 255

bus_read(a) == IF BUS = "NULL" THEN 0 ELSE region_bus_read(a)

\* Mutant: a write reaches ROM as well.
bus_write_rom(a, b) ==
  LET i == find_region(a)
  IN  /\ BUS = "region" /\ TypeAt(a) \in {"RAM", "ROM"}
      /\ REGIONS' = [REGIONS EXCEPT
                       ![i].DATA[Short(a - REGIONS[i].START)] = b]
      /\ last' = Did("bus_write", 0, << >>)
      /\ UNCHANGED <<BUS, port>>

\* The CPU's write of b at a: RAM takes it, an I/O handler gets it, ROM and
\* open bus ignore it.
bus_write(a, b) ==
  LET i == find_region(a)
      type == IF BUS = "NULL" THEN "none" ELSE TypeAt(a)
  IN  /\ \/ /\ type = "RAM"
            /\ REGIONS' = [REGIONS EXCEPT
                             ![i].DATA[Short(a - REGIONS[i].START)] = b]
            /\ UNCHANGED port
         \/ /\ type = "IO"
            /\ port' = IF REGIONS[i].WRITE_HANDLER THEN b ELSE port
            /\ UNCHANGED REGIONS
         \/ /\ type \in {"none", "ROM"}
            /\ UNCHANGED <<REGIONS, port>>
      /\ last' = Did("bus_write", 0, << >>)
      /\ UNCHANGED BUS

----------------------------------------------------------------------------
(* Loading *)

\* How many bytes mem_region_load stores before it meets an address without
\* data.
Loadable(addr, len) ==
  CHOOSE n \in 0 .. len :
    /\ \A k \in 0 .. n - 1 : HasData(Short(addr + k))
    /\ n < len => ~ HasData(Short(addr + n))

\* The regions with the first n bytes of data stored from addr on.
Stored(addr, data, n) ==
  [i \in DOMAIN REGIONS |->
    [REGIONS[i] EXCEPT !.DATA =
      [o \in DOMAIN @ |->
         LET a == REGIONS[i].START + o
             k == Short(a - addr)
         IN  IF k < n /\ find_region(a) = i THEN data[k + 1] ELSE @[o]]]]

\* Mutant: bytes that found no memory go unreported.
AllLoadable_unchecked(addr, len) == TRUE

AllLoadable(addr, len) == Loadable(addr, len) = len

mem_region_load(addr, data) ==
  /\ REGIONS' = Stored(addr, data, Loadable(addr, Len(data)))
  /\ last' = IF AllLoadable(addr, Len(data)) THEN Did("load", addr, data)
                                             ELSE Failed("load")
  /\ UNCHANGED <<BUS, port>>

mem_region_set_vector(vec, lo, hi) ==
  LET i == find_region(vec)
      offset == Short(vec - REGIONS[i].START)
      ok == /\ HasData(vec)
            /\ find_region(Short(vec + 1)) = i
            /\ offset + 2 <= REGIONS[i].END - REGIONS[i].START + 1
  IN  /\ \/ /\ ok
            /\ REGIONS' = [REGIONS EXCEPT ![i].DATA[offset] = lo,
                                          ![i].DATA[offset + 1] = hi]
            /\ last' = Did("set_vector", vec, <<lo, hi>>)
         \/ /\ ~ ok
            /\ last' = Failed("set_vector")
            /\ UNCHANGED REGIONS
      /\ UNCHANGED <<BUS, port>>

MemNext ==
  \/ \E type \in {"RAM", "ROM"}, start, size \in Addr :
       mem_region_add(type, start, size)
  \/ \E start, size \in Addr, h \in IoHandlers :
       mem_region_add_io(start, size, h[1], h[2])
  \/ mem_region_clear
  \/ mem_region_init
  \/ \E a \in Addr, b \in MemByte : bus_write(a, b)
  \/ \E a \in Addr, data \in Blobs : mem_region_load(a, data)
  \/ \E a \in Addr, lo, hi \in MemByte : mem_region_set_vector(a, lo, hi)

MemSpec == MemInit /\ [][MemNext]_memVars

----------------------------------------------------------------------------
(* Properties *)

\* The table holds well-formed regions and no more than the array has room
\* for.
TypeOK ==
  /\ REGIONS \in Seq(MEM_REGION)
  /\ Len(REGIONS) <= MAX_MEM_REGIONS
  /\ BUS \in {"NULL", "region"}
  /\ port \in MemByte

\* The buffer of a region covers exactly its addresses.
BufferFits(r) ==
  IF r.TYPE = "IO" THEN r.DATA = NoData
                   ELSE DOMAIN r.DATA = 0 .. r.END - r.START

\* No address belongs to two regions, so the order in which the table is
\* searched does not matter, and no offset leaves its buffer.
RegionsDisjoint ==
  /\ \A i \in DOMAIN REGIONS :
       REGIONS[i].START <= REGIONS[i].END /\ BufferFits(REGIONS[i])
  /\ \A i, j \in DOMAIN REGIONS :
       (\E a \in Addr : Covers(REGIONS[i], a) /\ Covers(REGIONS[j], a))
         => i = j

\* What a load or a vector reported as stored is what the CPU then reads,
\* wherever region boundaries fall in it; of a file that goes round the whole
\* address space, the part that was stored last.
LoadReadsBack ==
  /\ BUS = "region" /\ last.result = 0
  /\ last.op \in {"load", "set_vector", "load_bin"}
  => \A k \in DOMAIN last.data :
       k + ADDR_SPACE > Len(last.data)
         => bus_read(Short(last.addr + k - 1)) = last.data[k]

\* The table of regions is a flat address space: of every address, its kind
\* and its byte.
flatKind == [a \in Addr |-> TypeAt(a)]
flatVal ==
  [a \in Addr |->
    IF HasData(a)
    THEN REGIONS[find_region(a)].DATA[a - REGIONS[find_region(a)].START]
    ELSE 255]

Flat == INSTANCE FlatMemory WITH
          AddrSpace <- ADDR_SPACE, FlatByte <- MemByte,
          kind <- flatKind, val <- flatVal, op <- last.op

\* Adding, loading and clearing regions and writing through the bus give
\* every address one kind and one byte, and the bus never changes ROM.
ImplementsFlatMemory == Flat!FlatSpec
=============================================================================
