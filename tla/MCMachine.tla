----------------------------- MODULE MCMachine -----------------------------
(***************************************************************************)
(* Four addresses of two binary digits, the reset vector in the upper two. *)
(* The argument lists are all triples of the options below; "4" is a size  *)
(* that becomes 0 and "5" one that no range admits.                        *)
(***************************************************************************)
EXTENDS Machine

MCIoHandlers == {<<TRUE, FALSE>>}

MCBlobs == {<<1, 1, 0>>}

MCSample == <<1, 0, 1>>

\* Sizes in 32 bits are sizes modulo 8 here: "huge" passes for an empty file.
MCFiles == [f \in {"short", "long", "huge"} |->
              CASE f = "short" -> <<1>> [] f = "long" -> <<1, 1, 0>>
                [] f = "huge" -> <<0, 1, 0, 1, 1, 1, 0, 0>>]

MCStrtol ==
  LET digits == [t \in {"0", "1", "2", "3", "4", "5"} |->
                   CASE t = "0" -> 0 [] t = "1" -> 1 [] t = "2" -> 2
                     [] t = "3" -> 3 [] t = "4" -> 4 [] t = "5" -> 5]
  IN  [b \in {0, 16} |-> digits]

MCDefaults ==
  [ram_start |-> 0, ram_size |-> 2, rom_start |-> 2, rom_size |-> 2,
   rom_addr |-> 2, rom_file |-> "NULL", cpu_variant |-> "CPU_VARIANT_NMOS_6502",
   enable_trace |-> FALSE, enable_monitor |-> FALSE]

MCOptions ==
  {<< >>, <<"-R", "1">>, <<"-R", "4">>, <<"-R", "5">>, <<"-r", "3">>,
   <<"-s", "1">>, <<"-S", "1">>, <<"-S", "3">>, <<"-a", "1">>, <<"-a", "3">>,
   <<"-R", "1", "-s", "1", "-S", "3">>, <<"-f", "long", "-a", "1">>,
   <<"-f", "short">>, <<"-f", "long">>, <<"-f", "huge">>, <<"-f", "missing">>, <<"-f">>,
   <<"-m">>, <<"-t">>, <<"-c", "cmos">>, <<"-c", "z80">>, <<"-?">>}

MCArgvs == {a \o b \o c : a, b, c \in MCOptions}
=============================================================================
