---------------------------- MODULE Disassembler ----------------------------
(***************************************************************************)
(* How many operand bytes the two disassemblers step over: that of         *)
(* src/debugger.c and the panel of src/tui_monitor.c.  Both read the mode  *)
(* of INST_TABLE and know no variant, while cpu_step overrides the mode of *)
(* some opcodes.                                                           *)
(***************************************************************************)
EXTENDS Types6502, Opcodes

OneByteModes ==
  {"IMM", "ZP", "ZPX", "ZPY", "INDX", "INDY", "REL", "ZP_IND"}

TwoByteModes == {"ABS", "ABSX", "ABSY", "IND", "ABS_IND_X"}

OperandSize(mode, one, two) ==
  IF mode \in one THEN 1 ELSE IF mode \in two THEN 2 ELSE 0

\* Mutant: the two operand bytes of BBR and BBS are counted as one.
debugger_operand_size_short(op) ==
  OperandSize(Entry(INST_TABLE, op), OneByteModes \cup {"ZPREL"}, TwoByteModes)

\* operand_size of debugger_disassemble
debugger_operand_size(op) ==
  OperandSize(Entry(INST_TABLE, op), OneByteModes, TwoByteModes \cup {"ZPREL"})

\* operand_size of draw_disassembly
monitor_operand_size(op) ==
  OperandSize(Entry(INST_TABLE, op), OneByteModes \cup {"ZPREL"}, TwoByteModes)

\* The address of the line below the one for address a.
NextLine(a, operand_size) == MEM_TWO_WORDS(a + 1 + operand_size)

\* Opcodes whose length depends on the variant and that the table gives the
\* other one's: the undocumented opcodes of the NMOS 6502, and five one-byte
\* NOPs of the 65C02.
Mislisted(op, variant) ==
  \/ variant = NMOS /\ NMOS_HANDLER(op) # "NULL"
  \/ variant = NMOS /\ nmos_addr_override(op) # "NONE"
  \/ variant = CMOS /\ op \in {\h0B, \h2B, \h4B, \h6B, \hEB}
=============================================================================
