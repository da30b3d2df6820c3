------------------------------ MODULE Machine ------------------------------
(***************************************************************************)
(* main.c up to the monitor: the command line, the memory map it asks for, *)
(* the program, the reset vector, the bus, the reset and the run loop.     *)
(* One step per turn of the argument loop and per call that main makes.    *)
(*                                                                         *)
(* The CPU is abstract here: a step leaves any PC and may write any byte   *)
(* through the bus (Cpu6502 says which).  A program that links the memory  *)
(* code without main, as the tests do, is the phase "library": it calls    *)
(* that code in any order.                                                 *)
(***************************************************************************)
EXTENDS Loader

CONSTANTS
  BYTE,                 \* 256: an address has two bytes
  RESET_VECTOR,         \* CPU_RESET_VECTOR_ADDRESS
  CPU_TEST_RUN_LIMIT,   \* 10000
  Defaults,             \* the options before the first argument is read
  SampleRom,            \* sample_rom
  Argvs,                \* the argument lists: sequences of tokens
  Strtol                \* base, then token |-> number, for what strtol accepts

\* The locals of main that the arguments set; addresses and sizes are
\* unsigned short.
Options ==
  [ram_start : Addr, ram_size : Addr, rom_start : Addr, rom_size : Addr,
   rom_addr : Addr, rom_file : STRING,
   cpu_variant : {"CPU_VARIANT_NMOS_6502", "CPU_VARIANT_CMOS_65C02"},
   enable_trace : BOOLEAN, enable_monitor : BOOLEAN]

ASSUME MachineAssumption ==
  /\ BYTE \in Nat \ {0} /\ ADDR_SPACE = BYTE * BYTE
  /\ 0 .. BYTE - 1 \subseteq MemByte
  /\ RESET_VECTOR \in Addr /\ RESET_VECTOR + 1 \in Addr
  /\ CPU_TEST_RUN_LIMIT \in Nat
  /\ Defaults \in Options
  /\ SampleRom \in Seq(MemByte) /\ Len(SampleRom) < ADDR_SPACE
  /\ Argvs \subseteq Seq(STRING)

VARIABLES
  phase,        \* where main is
  argv,         \* the arguments not read yet
  opt,          \* rom_file, rom_addr, ram_start, ..., enable_monitor
  asked,        \* history: the extents as given, before they become 16 bits
  PC,
  cycle_cnt,
  status        \* what main returned; -1 before

mainVars == <<phase, argv, opt, asked, PC, cycle_cnt, status>>
machineVars == <<loaderVars, mainVars>>

Extents == {"ram_start", "ram_size", "rom_start", "rom_size"}

MainInit ==
  /\ LoaderInit
  /\ phase = "parse" /\ argv \in Argvs
  /\ opt = Defaults /\ asked = [x \in Extents |-> Defaults[x]]
  /\ PC = 0 /\ cycle_cnt = 0 /\ status = -1

LibraryInit ==
  /\ LoaderInit
  /\ phase = "library" /\ argv = << >>
  /\ opt = Defaults /\ asked = [x \in Extents |-> Defaults[x]]
  /\ PC = 0 /\ cycle_cnt = 0 /\ status = -1

----------------------------------------------------------------------------
(* The command line *)

\* parse_arg: the options with an operand, by what the operand sets.
NumericArg == [t \in {"-a", "-r", "-R", "-s", "-S"} |->
  CASE t = "-a" -> "rom_addr"  [] t = "-r" -> "ram_start"
    [] t = "-R" -> "ram_size"  [] t = "-s" -> "rom_start"
    [] t = "-S" -> "rom_size"]

OperandArgs == DOMAIN NumericArg \cup {"-f", "-c"}

CpuNames == [t \in {"6502", "nmos", "65c02", "cmos"} |->
  IF t \in {"6502", "nmos"} THEN "CPU_VARIANT_NMOS_6502"
                            ELSE "CPU_VARIANT_CMOS_65C02"]

\* Sizes are read in base 0 and lie in 1 .. 0x10000, addresses in base 16.
IsSize(arg) == arg \in {"-R", "-S"}
Base(arg) == IF IsSize(arg) THEN 0 ELSE 16
RangeOf(arg) == IF IsSize(arg) THEN 1 .. ADDR_SPACE ELSE Addr

\* Mutant: the range of the value is not checked.
parse_numeric_unbounded(arg, str) == str \in DOMAIN Strtol[Base(arg)]

\* parse_numeric returns 0.
parse_numeric(arg, str) ==
  /\ str \in DOMAIN Strtol[Base(arg)]
  /\ Strtol[Base(arg)][str] \in RangeOf(arg)

\* return from main; the atexit handler frees the regions.
Exit(code) ==
  /\ mem_region_clear
  /\ phase' = "done" /\ status' = code
  /\ UNCHANGED <<loading, argv, opt, asked, PC, cycle_cnt>>

Goto(p) == phase' = p /\ UNCHANGED <<argv, opt, asked, PC, cycle_cnt, status>>

\* An option that takes what follows it, whatever that is.
OperandArg(arg, str) ==
  /\ argv' = SubSeq(argv, 3, Len(argv))
  /\ \/ /\ arg \in DOMAIN NumericArg /\ parse_numeric(arg, str)
        /\ LET v == Strtol[Base(arg)][str]
           IN  /\ opt' = [opt EXCEPT ![NumericArg[arg]] = Short(v)]
               /\ asked' = [x \in Extents |->
                              IF x = NumericArg[arg] THEN v ELSE asked[x]]
     \/ /\ arg = "-f" /\ opt' = [opt EXCEPT !.rom_file = str]
        /\ UNCHANGED asked
     \/ /\ arg = "-c" /\ str \in DOMAIN CpuNames
        /\ opt' = [opt EXCEPT !.cpu_variant = CpuNames[str]]
        /\ UNCHANGED asked
  /\ UNCHANGED <<loaderVars, phase, PC, cycle_cnt, status>>

BadOperand(arg, str) ==
  /\ \/ arg \in DOMAIN NumericArg /\ ~ parse_numeric(arg, str)
     \/ arg = "-c" /\ str \notin DOMAIN CpuNames
  /\ Exit(1)

\* A flag, an unknown argument, or an option that ends the list without its
\* operand: the last two change nothing.
PlainArg(arg) ==
  /\ argv' = Tail(argv)
  /\ opt' = [opt EXCEPT !.enable_trace = @ \/ arg = "-t",
                        !.enable_monitor = @ \/ arg = "-m"]
  /\ UNCHANGED <<loaderVars, phase, asked, PC, cycle_cnt, status>>

ParseArg ==
  /\ phase = "parse" /\ argv # << >>
  /\ \/ /\ Head(argv) \in OperandArgs /\ Len(argv) > 1
        /\ OperandArg(argv[1], argv[2]) \/ BadOperand(argv[1], argv[2])
     \/ /\ Head(argv) \notin OperandArgs \/ Len(argv) = 1
        /\ PlainArg(Head(argv))

----------------------------------------------------------------------------
(* Setting the machine up *)

\* The combined extents, in 32 bits.
ExtentsFit == /\ opt.ram_start + opt.ram_size <= ADDR_SPACE
              /\ opt.rom_start + opt.rom_size <= ADDR_SPACE

Configure ==
  /\ phase = "parse" /\ argv = << >>
  /\ \/ ~ ExtentsFit /\ Exit(1)
     \/ ExtentsFit /\ mem_region_clear /\ UNCHANGED loading /\ Goto("ram")

\* One call of mem_region_add_ram or mem_region_add_rom, and its result.
AddRegion(from, type, start, size, to) ==
  /\ phase = from
  /\ mem_region_add(type, start, size) /\ UNCHANGED loading
  /\ Goto(IF last'.result = 0 THEN to ELSE "fail")

AddRam == AddRegion("ram", "RAM", opt.ram_start, opt.ram_size, "rom")
AddRom == AddRegion("rom", "ROM", opt.rom_start, opt.rom_size, "load")

Fail == phase = "fail" /\ Exit(1)

\* load_bin_region opens the file; the result of loading the sample program
\* is ignored.
Load ==
  /\ phase = "load"
  /\ \/ /\ opt.rom_file \in DOMAIN Files
        /\ load_bin_region(Files[opt.rom_file], opt.rom_addr)
        /\ Goto("loading")
     \/ opt.rom_file \notin DOMAIN Files \cup {"NULL"} /\ Exit(1)
     \/ /\ opt.rom_file = "NULL"
        /\ mem_region_load(opt.rom_addr, SampleRom) /\ UNCHANGED loading
        /\ Goto("vector")

Loading ==
  /\ phase = "loading"
  /\ \/ ((\E n \in 1 .. BUF_SIZE : Chunk(n)) \/ Finish) /\ UNCHANGED mainVars
     \/ /\ ~ loading.active /\ UNCHANGED loaderVars
        /\ Goto(IF last.result = 0 THEN "vector" ELSE "fail")

SetVectorThen(next) ==
  /\ phase = "vector"
  /\ mem_region_set_vector(RESET_VECTOR, opt.rom_addr % BYTE,
                           opt.rom_addr \div BYTE)
  /\ UNCHANGED loading
  /\ Goto(next)

\* Mutant: the CPU is reset before the bus is connected.
SetVector_unconnected == SetVectorThen("reset")

\* The result is ignored: there may be no memory at the vector.
SetVector == SetVectorThen("connect")

Connect == /\ phase = "connect"
           /\ mem_region_init /\ UNCHANGED loading
           /\ Goto("reset")

bus_read16(a) == bus_read(a) + BYTE * bus_read(Short(a + 1))

\* cpu_reset; a read of open bus is 0xFF, whatever BYTE is.
Reset == /\ phase = "reset"
         /\ PC' = Short(bus_read16(RESET_VECTOR))
         /\ phase' = IF opt.enable_monitor THEN "monitor" ELSE "run"
         /\ UNCHANGED <<loaderVars, argv, opt, asked, cycle_cnt, status>>

----------------------------------------------------------------------------
(* Running *)

\* cpu_step: any PC, and at most one of its writes at a time.
AbstractStep ==
  /\ PC' \in Addr
  /\ \/ \E a \in Addr, b \in MemByte : bus_write(a, b)
     \/ UNCHANGED memVars
  /\ UNCHANGED loading

\* Mutant: the turns of the loop are not counted.
RunTurn_uncounted ==
  /\ phase = "run" /\ cycle_cnt < CPU_TEST_RUN_LIMIT
  /\ AbstractStep
  /\ phase' = IF PC' = 0 THEN "complete" ELSE phase
  /\ UNCHANGED <<argv, opt, asked, cycle_cnt, status>>

\* A turn of the run loop: PC = 0 ends it.
RunTurn ==
  /\ phase = "run" /\ cycle_cnt < CPU_TEST_RUN_LIMIT
  /\ AbstractStep
  /\ cycle_cnt' = cycle_cnt + 1
  /\ phase' = IF PC' = 0 THEN "complete" ELSE phase
  /\ UNCHANGED <<argv, opt, asked, status>>

Complete ==
  /\ phase = "complete" \/ (phase = "run" /\ cycle_cnt = CPU_TEST_RUN_LIMIT)
  /\ Exit(0)

\* run_monitor_mode, which Monitor models: it steps the CPU and returns when
\* the user quits.
MonitorMode ==
  /\ phase = "monitor"
  /\ \/ AbstractStep /\ UNCHANGED <<phase, argv, opt, asked, cycle_cnt, status>>
     \/ Exit(0)

----------------------------------------------------------------------------
Main == \/ ParseArg \/ Configure \/ AddRam \/ AddRom \/ Fail \/ Load
        \/ Loading \/ SetVector \/ Connect \/ Reset \/ RunTurn \/ Complete

Library == phase = "library" /\ LoaderNext /\ UNCHANGED mainVars

MachineNext == Main \/ MonitorMode \/ Library

\* main is one thread and runs until it returns.
MachineSpec == /\ MainInit \/ LibraryInit
               /\ [][MachineNext]_machineVars
               /\ WF_machineVars(Main)

----------------------------------------------------------------------------
(* Properties *)

Phases ==
  {"parse", "ram", "rom", "load", "loading", "vector", "connect", "reset",
   "run", "complete", "monitor", "fail", "done", "library"}

\* The types: the memory, the loader and the locals of main.  main has a
\* result exactly when it has returned.
MachineTypes ==
  /\ TypeOK
  /\ loading \in [file : Seq(MemByte), addr : Addr, off : Nat,
                  err : BOOLEAN, active : BOOLEAN]
  /\ loading.off <= Len(loading.file)
  /\ phase \in Phases /\ argv \in Seq(STRING)
  /\ opt \in Options /\ asked \in [Extents -> 0 .. ADDR_SPACE]
  /\ PC \in Addr /\ cycle_cnt \in 0 .. CPU_TEST_RUN_LIMIT
  /\ status \in IF phase = "done" THEN {0, 1} ELSE {-1}

Started == phase \in {"run", "monitor", "complete"}

In(a, start, size) == start <= a /\ a < start + size

\* A machine that runs has exactly the memory the command line asked for,
\* sizes of 64 KiB and more included, which do not fit in 16 bits: such a
\* request ends main instead.
RunsAsConfigured ==
  Started =>
    \A a \in Addr :
      /\ TypeAt(a) = "RAM" <=> In(a, asked.ram_start, asked.ram_size)
      /\ TypeAt(a) = "ROM" <=> In(a, asked.rom_start, asked.rom_size)

VectorCells == {RESET_VECTOR, RESET_VECTOR + 1}

\* The reset finds the bus connected: if there is memory at the reset vector,
\* the CPU starts at the load address, whatever the loaded file held there.
BootsProgram ==
  [][/\ phase = "reset"
     /\ TypeAt(RESET_VECTOR) = TypeAt(RESET_VECTOR + 1)
     /\ TypeAt(RESET_VECTOR) # "none"
     => PC' = opt.rom_addr]_machineVars

\* A machine runs the file it was given: a measurable one lies in memory as a
\* whole and in one piece, of a longer one the last bytes do, and where it lies
\* in ROM the CPU reads it unchanged for as long as the machine runs, the reset
\* vector excepted.
ProgramIntact ==
  LET file == Files[opt.rom_file]
  IN  Started /\ opt.rom_file # "NULL" =>
        /\ opt.rom_file \in DOMAIN Files
        /\ Measurable(file) => opt.rom_addr + Len(file) <= ADDR_SPACE
        /\ \A k \in DOMAIN file :
             LET a == Short(opt.rom_addr + k - 1)
             IN  /\ TypeAt(a) \in {"RAM", "ROM"}
                 /\ /\ k + ADDR_SPACE > Len(file)
                    /\ TypeAt(a) = "ROM" /\ a \notin VectorCells
                    => bus_read(a) = file[k]

\* Whatever the arguments, the file and the program are, main returns, unless
\* it was asked for the monitor.
MainReturns == phase = "parse" ~> phase \in {"done", "monitor"}
=============================================================================
