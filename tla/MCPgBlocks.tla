----------------------------- MODULE MCPgBlocks -----------------------------
(***************************************************************************)
(* PgBlocks for the model checker: blocks of two bytes, a file of up to    *)
(* two blocks and a byte, and three byte values, so that a write covers a  *)
(* block, part of a block, or one of each, and a truncate cuts inside a    *)
(* block, at its edge, or past the end of the file.                        *)
(***************************************************************************)
EXTENDS PgBlocks

MCBytes == 0..2

=============================================================================
