------------------------------ MODULE Opcodes ------------------------------
(***************************************************************************)
(* The decode tables: addressing mode (src/instructions_table.c and the    *)
(* overrides of src/cpu.c), handler (src/instructions_handlers.c) and base *)
(* cycle count (src/cpu.c) of every opcode, for both CPU variants.  A      *)
(* table entry is TABLE[opcode >> 4][opcode & 0x0F], one-based.            *)
(***************************************************************************)
EXTENDS Types6502, Sequences

Entry(table, op) == table[(op \div 16) + 1][(op % 16) + 1]

\* The ADDR fields of INST_TABLE, by row.
INST_ROW_0 ==
  << "NONE", "INDX", "IMM", "NONE", "ZP", "ZP", "ZP", "ZP",
     "NONE", "IMM", "ACC", "IMM", "ABS", "ABS", "ABS", "ZPREL" >>
INST_ROW_1 ==
  << "REL", "INDY", "ZP_IND", "NONE", "ZP", "ZPX", "ZPX", "ZP",
     "NONE", "ABSY", "ACC", "NONE", "ABS", "ABSX", "ABSX", "ZPREL" >>
INST_ROW_2 ==
  << "ABS", "INDX", "IMM", "NONE", "ZP", "ZP", "ZP", "ZP",
     "NONE", "IMM", "ACC", "IMM", "ABS", "ABS", "ABS", "ZPREL" >>
INST_ROW_3 ==
  << "REL", "INDY", "ZP_IND", "NONE", "ZPX", "ZPX", "ZPX", "ZP",
     "NONE", "ABSY", "ACC", "NONE", "ABSX", "ABSX", "ABSX", "ZPREL" >>
INST_ROW_4 ==
  << "NONE", "INDX", "IMM", "NONE", "ZP", "ZP", "ZP", "ZP",
     "NONE", "IMM", "ACC", "IMM", "ABS", "ABS", "ABS", "ZPREL" >>
INST_ROW_5 ==
  << "REL", "INDY", "ZP_IND", "NONE", "ZPX", "ZPX", "ZPX", "ZP",
     "NONE", "ABSY", "NONE", "NONE", "ABS", "ABSX", "ABSX", "ZPREL" >>
INST_ROW_6 ==
  << "NONE", "INDX", "IMM", "NONE", "ZP", "ZP", "ZP", "ZP",
     "NONE", "IMM", "ACC", "IMM", "IND", "ABS", "ABS", "ZPREL" >>
INST_ROW_7 ==
  << "REL", "INDY", "ZP_IND", "NONE", "ZPX", "ZPX", "ZPX", "ZP",
     "NONE", "ABSY", "NONE", "NONE", "ABS_IND_X", "ABSX", "ABSX", "ZPREL" >>
INST_ROW_8 ==
  << "REL", "INDX", "IMM", "NONE", "ZP", "ZP", "ZP", "ZP",
     "NONE", "IMM", "NONE", "NONE", "ABS", "ABS", "ABS", "ZPREL" >>
INST_ROW_9 ==
  << "REL", "INDY", "ZP_IND", "NONE", "ZPX", "ZPX", "ZPY", "ZP",
     "NONE", "ABSY", "NONE", "NONE", "ABS", "ABSX", "ABSX", "ZPREL" >>
INST_ROW_A ==
  << "IMM", "INDX", "IMM", "NONE", "ZP", "ZP", "ZP", "ZP",
     "NONE", "IMM", "NONE", "NONE", "ABS", "ABS", "ABS", "ZPREL" >>
INST_ROW_B ==
  << "REL", "INDY", "ZP_IND", "NONE", "ZPX", "ZPX", "ZPY", "ZP",
     "NONE", "ABSY", "NONE", "NONE", "ABSX", "ABSX", "ABSY", "ZPREL" >>
INST_ROW_C ==
  << "IMM", "INDX", "IMM", "NONE", "ZP", "ZP", "ZP", "ZP",
     "NONE", "IMM", "NONE", "NONE", "ABS", "ABS", "ABS", "ZPREL" >>
INST_ROW_D ==
  << "REL", "INDY", "ZP_IND", "NONE", "ZPX", "ZPX", "ZPX", "ZP",
     "NONE", "ABSY", "NONE", "NONE", "ABS", "ABSX", "ABSX", "ZPREL" >>
INST_ROW_E ==
  << "IMM", "INDX", "IMM", "NONE", "ZP", "ZP", "ZP", "ZP",
     "NONE", "IMM", "NONE", "IMM", "ABS", "ABS", "ABS", "ZPREL" >>
INST_ROW_F ==
  << "REL", "INDY", "ZP_IND", "NONE", "ZPX", "ZPX", "ZPX", "ZP",
     "NONE", "ABSY", "NONE", "NONE", "ABSX", "ABSX", "ABSX", "ZPREL" >>

INST_TABLE ==
  << INST_ROW_0, INST_ROW_1, INST_ROW_2, INST_ROW_3,
     INST_ROW_4, INST_ROW_5, INST_ROW_6, INST_ROW_7,
     INST_ROW_8, INST_ROW_9, INST_ROW_A, INST_ROW_B,
     INST_ROW_C, INST_ROW_D, INST_ROW_E, INST_ROW_F >>

\* The 65C02 handlers.
INSTR_HANDLERS == <<
  << "BRK", "ORA", "NOP", "NOP", "TSB", "ORA", "ASL", "RMB",
     "PHP", "ORA", "ASL", "NOP", "TSB", "ORA", "ASL", "BBR_" >>,   \* 0_
  << "BPL_", "ORA", "ORA", "NOP", "TRB", "ORA", "ASL", "RMB",
     "CLC", "ORA", "INC_A", "NOP", "TRB", "ORA", "ASL", "BBR_" >>,   \* 1_
  << "JSR", "AND", "NOP", "NOP", "BIT", "AND", "ROL", "RMB",
     "PLP", "AND", "ROL", "NOP", "BIT", "AND", "ROL", "BBR_" >>,   \* 2_
  << "BMI_", "AND", "AND", "NOP", "BIT", "AND", "ROL", "RMB",
     "SEC", "AND", "DEC_A", "NOP", "BIT", "AND", "ROL", "BBR_" >>,   \* 3_
  << "RTI", "EOR", "NOP", "NOP", "NOP_READ", "EOR", "LSR", "RMB",
     "PHA", "EOR", "LSR", "NOP", "JMP", "EOR", "LSR", "BBR_" >>,   \* 4_
  << "BVC_", "EOR", "EOR", "NOP", "NOP_READ", "EOR", "LSR", "RMB",
     "CLI", "EOR", "PHY", "NOP", "NOP_READ", "EOR", "LSR", "BBR_" >>,   \* 5_
  << "RTS", "ADC", "NOP", "NOP", "STZ", "ADC", "ROR", "RMB",
     "PLA", "ADC", "ROR", "NOP", "JMP", "ADC", "ROR", "BBR_" >>,   \* 6_
  << "BVS_", "ADC", "ADC", "NOP", "STZ", "ADC", "ROR", "RMB",
     "SEI", "ADC", "PLY", "NOP", "JMP", "ADC", "ROR", "BBR_" >>,   \* 7_
  << "BRA_", "STA", "NOP", "NOP", "STY", "STA", "STX", "SMB",
     "DEY", "BIT", "TXA", "NOP", "STY", "STA", "STX", "BBS_" >>,   \* 8_
  << "BCC_", "STA", "STA", "NOP", "STY", "STA", "STX", "SMB",
     "TYA", "STA", "TXS", "NOP", "STZ", "STA", "STZ", "BBS_" >>,   \* 9_
  << "LDY", "LDA", "LDX", "NOP", "LDY", "LDA", "LDX", "SMB",
     "TAY", "LDA", "TAX", "NOP", "LDY", "LDA", "LDX", "BBS_" >>,   \* A_
  << "BCS_", "LDA", "LDA", "NOP", "LDY", "LDA", "LDX", "SMB",
     "CLV", "LDA", "TSX", "NOP", "LDY", "LDA", "LDX", "BBS_" >>,   \* B_
  << "CPY", "CMP", "NOP", "NOP", "CPY", "CMP", "DEC", "SMB",
     "INY", "CMP", "DEX", "WAI", "CPY", "CMP", "DEC", "BBS_" >>,   \* C_
  << "BNE_", "CMP", "CMP", "NOP", "NOP_READ", "CMP", "DEC", "SMB",
     "CLD", "CMP", "PHX", "STP", "NOP_READ", "CMP", "DEC", "BBS_" >>,   \* D_
  << "CPX", "SBC", "NOP", "NOP", "CPX", "SBC", "INC", "SMB",
     "INX", "SBC", "NOP", "NOP", "CPX", "SBC", "INC", "BBS_" >>,   \* E_
  << "BEQ_", "SBC", "SBC", "NOP", "NOP_READ", "SBC", "INC", "SMB",
     "SED", "SBC", "PLX", "NOP", "NOP_READ", "SBC", "INC", "BBS_" >>   \* F_
>>

\* The handlers that differ on the NMOS 6502; "NULL" keeps the 65C02 one.
NMOS_HANDLER(op) ==
  CASE op \in {\h02, \h12, \h22, \h32, \h42, \h52, \h62, \h72, \h92,
               \hB2, \hD2, \hF2} -> "op_kil"
    [] op \in {\h03, \h07, \h0F, \h13, \h17, \h1B, \h1F} -> "SLO"
    [] op \in {\h04, \h0C, \h14, \h1C, \h34, \h3C, \h64, \h74, \h7C, \h93} -> "NOP_READ"
    [] op \in {\h0B, \h2B} -> "ANC"
    [] op \in {\h1A, \h3A, \h5A, \h7A, \h89, \hDA, \hFA} -> "NOP"
    [] op \in {\h23, \h27, \h2F, \h33, \h37, \h3B, \h3F} -> "RLA"
    [] op \in {\h43, \h47, \h4F, \h53, \h57, \h5B, \h5F} -> "SRE"
    [] op \in {\h4B} -> "ALR"
    [] op \in {\h63, \h67, \h6F, \h73, \h77, \h7B, \h7F} -> "RRA"
    [] op \in {\h6B} -> "ARR"
    [] op \in {\h83, \h87, \h8F, \h97} -> "SAX"
    [] op \in {\h8B, \h9B, \h9F, \hAB, \hBB, \hCB, \hDB} -> "op_illegal"
    [] op \in {\hA3, \hA7, \hAF, \hB3, \hB7, \hBF} -> "LAX"
    [] op \in {\hC3, \hC7, \hCF, \hD3, \hD7, \hDF} -> "DCP"
    [] op \in {\hE3, \hE7, \hEF, \hF3, \hF7, \hFB, \hFF} -> "ISC"
    [] op \in {\hEB} -> "ALT_SBC"
    [] OTHER -> "NULL"

instr_dispatch(op, variant) ==
  IF variant = NMOS /\ NMOS_HANDLER(op) # "NULL"
  THEN NMOS_HANDLER(op)
  ELSE Entry(INSTR_HANDLERS, op)

\* Addressing modes of the NMOS-only opcodes; "NONE" keeps the table's mode.
nmos_addr_override(op) ==
  CASE op \in {\h03, \h23, \h43, \h63, \h83, \hA3, \hC3, \hE3} -> "INDX"
    [] op \in {\h13, \h33, \h53, \h73, \hB3, \hD3, \hF3} -> "INDY"
    [] op \in {\h1B, \h3B, \h5B, \h7B, \h93, \h9F, \hBF, \hDB, \hFB} -> "ABSY"
    [] op \in {\h07, \h27, \h47, \h67, \h87, \hA7, \hC7, \hE7} -> "ZP"
    [] op \in {\h14, \h17, \h34, \h37, \h54, \h57, \h74, \h77, \hD4,
               \hD7, \hF4, \hF7} -> "ZPX"
    [] op \in {\h97, \hB7} -> "ZPY"
    [] op \in {\h0B, \h2B, \h4B, \h6B, \h82, \hC2, \hE2, \hEB} -> "IMM"
    [] op \in {\h0F, \h2F, \h4F, \h6F, \h8F, \hAF, \hCF, \hEF} -> "ABS"
    [] op \in {\h1C, \h1F, \h3C, \h3F, \h5C, \h5F, \h7C, \h7F, \hDC,
               \hDF, \hFC, \hFF} -> "ABSX"
    [] OTHER -> "NONE"

\* Opcodes that take no operand on the 65C02.
cmos_addr_override ==
  {\h0B, \h1B, \h2B, \h3B, \h4B, \h5B, \h6B, \h7B, \h8B, \h9B, \hAB, \hBB,
   \hEB, \hFB}

\* The mode cpu_step passes to addr_resolve.
AddrMode(op, variant) ==
  IF variant = NMOS
  THEN IF nmos_addr_override(op) # "NONE" THEN nmos_addr_override(op)
                                          ELSE Entry(INST_TABLE, op)
  ELSE IF op \in cmos_addr_override THEN "NONE" ELSE Entry(INST_TABLE, op)

----------------------------------------------------------------------------
(* Cycle counts *)

CYCLE_ROW_0 == << 7, 6, 0, 8, 3, 3, 5, 5, 3, 2, 2, 2, 4, 4, 6, 6 >>
CYCLE_ROW_1 == << 2, 5, 5, 8, 4, 4, 6, 6, 2, 4, 2, 7, 4, 4, 7, 7 >>
CYCLE_ROW_2 == << 6, 6, 0, 8, 3, 3, 5, 5, 4, 2, 2, 2, 4, 4, 6, 6 >>
CYCLE_ROW_3 == << 2, 5, 5, 8, 4, 4, 6, 6, 2, 4, 2, 7, 4, 4, 7, 7 >>
CYCLE_ROW_4 == << 6, 6, 0, 8, 3, 3, 5, 5, 3, 2, 2, 2, 3, 4, 6, 6 >>
CYCLE_ROW_5 == << 2, 5, 5, 8, 4, 4, 6, 6, 2, 4, 2, 7, 4, 4, 7, 7 >>
CYCLE_ROW_6 == << 6, 6, 0, 8, 3, 3, 5, 5, 4, 2, 2, 2, 5, 4, 6, 6 >>
CYCLE_ROW_7 == << 2, 5, 5, 8, 4, 4, 6, 6, 2, 4, 2, 7, 6, 4, 7, 7 >>
CYCLE_ROW_8 == << 2, 6, 2, 6, 3, 3, 3, 3, 2, 2, 2, 2, 4, 4, 4, 4 >>
CYCLE_ROW_9 == << 2, 6, 5, 6, 4, 4, 4, 4, 2, 5, 2, 5, 5, 5, 5, 5 >>
CYCLE_ROW_A == << 2, 6, 2, 6, 3, 3, 3, 3, 2, 2, 2, 2, 4, 4, 4, 4 >>
CYCLE_ROW_B == << 2, 5, 5, 5, 4, 4, 4, 4, 2, 4, 2, 4, 4, 4, 4, 4 >>
CYCLE_ROW_C == << 2, 6, 2, 8, 3, 3, 5, 5, 2, 2, 2, 2, 4, 4, 6, 6 >>
CYCLE_ROW_D == << 2, 5, 5, 8, 4, 4, 6, 6, 2, 4, 2, 7, 4, 4, 7, 7 >>
CYCLE_ROW_E == << 2, 6, 2, 8, 3, 3, 5, 5, 2, 2, 2, 2, 4, 4, 6, 6 >>
CYCLE_ROW_F == << 2, 5, 5, 8, 4, 4, 6, 6, 2, 4, 2, 7, 4, 4, 7, 7 >>

CYCLE_BASE ==
  << CYCLE_ROW_0, CYCLE_ROW_1, CYCLE_ROW_2, CYCLE_ROW_3,
     CYCLE_ROW_4, CYCLE_ROW_5, CYCLE_ROW_6, CYCLE_ROW_7,
     CYCLE_ROW_8, CYCLE_ROW_9, CYCLE_ROW_A, CYCLE_ROW_B,
     CYCLE_ROW_C, CYCLE_ROW_D, CYCLE_ROW_E, CYCLE_ROW_F >>

\* Mutant: the two-byte NOPs keep the 0 cycles of the NMOS KIL.
cy65_cycle_free_nops(op) ==
  CASE op \in {\hCB, \hDB, \hDA, \h5A} -> 3
    [] op \in {\hFA, \h7A, \h9C} -> 4
    [] op \in {\h04, \h14, \hDC, \hFC} -> 5
    [] op \in {16 * n + \h0F : n \in 0 .. 15} -> 5
    [] op \in {\h0C, \h1C} -> 6
    [] OTHER -> 0

\* 65C02 timings that replace CYCLE_BASE; 0 keeps it.
cy65_cycle(op) ==
  CASE op \in {\h02, \h22, \h42, \h62} -> 2
    [] op \in {\hCB, \hDB, \hDA, \h5A} -> 3
    [] op \in {\hFA, \h7A, \h9C} -> 4
    [] op \in {\h04, \h14, \hDC, \hFC} -> 5
    [] op \in {16 * n + \h0F : n \in 0 .. 15} -> 5
    [] op \in {\h0C, \h1C} -> 6
    [] OTHER -> 0

BaseCycles(op, variant) ==
  IF variant = CMOS /\ cy65_cycle(op) # 0 THEN cy65_cycle(op)
                                          ELSE Entry(CYCLE_BASE, op)

\* Mutant: STA with an indexed operand is not in the list.
op_suppresses_pagecross_no_sta ==
  {\h9E, \h91, \h1E, \h5E, \h3E, \h7E, \hFE, \hDE}

\* Indexed writes whose cycle count does not depend on a page crossing.
op_suppresses_pagecross ==
  {\h9D, \h99, \h9E, \h91, \h1E, \h5E, \h3E, \h7E, \hFE, \hDE}
=============================================================================
