--------------------------- MODULE MCTransparency ---------------------------
(***************************************************************************)
(* A main program that keeps live state in A, the carry, the decimal flag, *)
(* the stack and a zero-page cell, and two handlers that overwrite them    *)
(* all but restore what they must.  Once per round it waits for an         *)
(* interrupt (on the NMOS 6502 $CB is a NOP and the loop spins):           *)
(*   8000 CLI                        8020 NMI: PHA                         *)
(*   8001 SED                        8021      LDA #$00                    *)
(*   8002 LDA #$09                   8023      PLA                         *)
(*   8004 JSR 8010                   8024      RTI                         *)
(*   8007 WAI                        8028 IRQ: SEC                         *)
(*   8008 JMP 8002                   8029      RTI                         *)
(*   8010 ADC #$01                                                         *)
(*   8012 STA $10                                                          *)
(*   8014 RTS                                                              *)
(***************************************************************************)
EXTENDS Transparency

MCRAM == {\h10} \cup (\h01F0 .. \h01FF)

Code(start, bytes) == [a \in start .. start + Len(bytes) - 1 |->
                         bytes[a - start + 1]]

Union(f, g) == [a \in DOMAIN f \cup DOMAIN g |->
                  IF a \in DOMAIN f THEN f[a] ELSE g[a]]

Vectors == Code(\hFFFA, <<\h20, \h80, \h00, \h80, \h28, \h80>>)

Handlers == Union(Code(\h8020, <<\h48, \hA9, \h00, \h68, \h40>>),
                  Code(\h8028, <<\h38, \h40>>))

Main == Union(Code(\h8000, <<\h58, \hF8, \hA9, \h09, \h20, \h10, \h80, \hCB,
                             \h4C, \h02, \h80>>),
              Code(\h8010, <<\h69, \h01, \h85, \h10, \h60>>))

MCROM == Union(Main, Union(Handlers, Vectors))

MCImages == {[a \in MCRAM |-> 0]}
=============================================================================
