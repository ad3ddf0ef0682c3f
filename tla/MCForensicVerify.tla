-------------------------- MODULE MCForensicVerify --------------------------
(***************************************************************************)
(* An instance of ForensicVerify for TLC: every file of up to MaxLen bytes *)
(* over two printable bytes and a zero, two signatures that overlap.       *)
(***************************************************************************)
EXTENDS ForensicVerify

CONSTANT MaxLen

MCByte == {0, 77, 90}
MCPrintable == {77, 90}
MCMagic == {<<77, 90>>, <<90, 0, 77>>}
MCContents == UNION {[1..n -> MCByte] : n \in 0..MaxLen}
=============================================================================
