------------------------------- MODULE Loader -------------------------------
(***************************************************************************)
(* src/loader.c over the memory of MemoryMap: load_bin_region reads a file *)
(* in chunks and stores each with mem_region_load.  One step per chunk;    *)
(* the host makes no other call before the load returns.                   *)
(***************************************************************************)
EXTENDS MemoryMap

CONSTANTS
  BUF_SIZE,              \* 4096
  UINT32,                \* 2^32: a file may be longer
  Files                  \* name |-> contents, for the files that can be opened

ASSUME LoaderAssumption ==
  /\ BUF_SIZE \in Nat \ {0} /\ BUF_SIZE < ADDR_SPACE
  /\ UINT32 \in Nat /\ UINT32 > ADDR_SPACE /\ UINT32 % ADDR_SPACE = 0
  /\ \A f \in DOMAIN Files : Files[f] \in Seq(MemByte)

VARIABLE
  loading                \* the load in progress: file, ADDR, how many bytes
                         \* were read (off is that in 32 bits), ferror(f)

loaderVars == <<memVars, loading>>

Idle == [file |-> << >>, addr |-> 0, off |-> 0, err |-> FALSE,
         active |-> FALSE]

Uint32(n) == n % UINT32

LoaderInit == MemInit /\ loading = Idle

Return(outcome) == last' = outcome /\ loading' = Idle

\* Mutant: the size of the file is not checked.
load_bin_region_unchecked(file, addr) ==
  /\ ~ loading.active
  /\ loading' = [file |-> file, addr |-> addr, off |-> 0,
                 err |-> FALSE, active |-> TRUE]
  /\ last' = Failed("load_bin")
  /\ UNCHANGED <<REGIONS, BUS, port>>

\* The size check: the file's size is cut to 32 bits, and so is the sum.
SizeFits(file, addr) ==
  LET file_size == Uint32(Len(file))
  IN  Uint32(addr + file_size) <= ADDR_SPACE

\* fopen, and the size check.  The file may be missing or unseekable.
load_bin_region(file, addr) ==
  /\ ~ loading.active
  /\ \/ /\ SizeFits(file, addr)
        /\ loading' = [file |-> file, addr |-> addr, off |-> 0,
                       err |-> FALSE, active |-> TRUE]
        /\ last' = Failed("load_bin")
     \/ /\ last' = Failed("load_bin")
        /\ UNCHANGED loading
  /\ UNCHANGED <<REGIONS, BUS, port>>

\* One turn of the loop: fread delivers the n bytes of the next chunk, or
\* fewer if a read error interrupts it.
Chunk(n) ==
  LET rest == Len(loading.file) - loading.off
      full == IF rest < BUF_SIZE THEN rest ELSE BUF_SIZE
      buf  == SubSeq(loading.file, loading.off + 1, loading.off + n)
      addr == Short(Uint32(loading.addr + loading.off))
  IN  /\ loading.active /\ ~ loading.err
      /\ n <= full
      /\ REGIONS' = Stored(addr, buf, Loadable(addr, n))
      /\ \/ /\ AllLoadable(addr, n)
            /\ loading' = [loading EXCEPT !.off = @ + n, !.err = n < full]
            /\ last' = Failed("load_bin")
         \/ /\ ~ AllLoadable(addr, n)
            /\ Return(Failed("load_bin"))
      /\ UNCHANGED <<BUS, port>>

\* fread returns 0: at the end of the file, or on a read error.
Finish ==
  /\ loading.active
  /\ \/ /\ loading.off = Len(loading.file) /\ ~ loading.err
        /\ Return(Did("load_bin", loading.addr, loading.file))
     \/ Return(Failed("load_bin"))
  /\ UNCHANGED <<REGIONS, BUS, port>>

LoaderNext ==
  \/ ~ loading.active /\ MemNext /\ UNCHANGED loading
  \/ \E f \in DOMAIN Files, addr \in Addr : load_bin_region(Files[f], addr)
  \/ \E n \in 1 .. BUF_SIZE : Chunk(n)
  \/ Finish

LoaderSpec == LoaderInit /\ [][LoaderNext]_loaderVars

----------------------------------------------------------------------------
(* Properties *)

\* Files so short that the sum of the size check does not wrap, which is all
\* below 4 GiB - 64 KiB.
Measurable(file) == Len(file) + ADDR_SPACE <= UINT32

\* No chunk of a measurable file wraps around and changes what lies below its
\* address.
LoadBinStaysAbove ==
  [][loading.active /\ Measurable(loading.file) =>
       \A a \in 0 .. loading.addr - 1 : bus_read(a)' = bus_read(a)]_loaderVars

\* "Reject if the file would cross the 64KiB address-space boundary": a file
\* that was loaded lies between its address and the end of memory.
CrossingRejected ==
  last.op = "load_bin" /\ last.result = 0
    => last.addr + Len(last.data) <= ADDR_SPACE
=============================================================================
