------------------------- MODULE MCRegisterAllocator -------------------------
(***************************************************************************)
(* Two argument registers instead of six; a function with three parameters *)
(* (one on the stack) and one spilled register that makes calls with up to *)
(* four arguments (two on the stack, so both parities of stack arguments). *)
(***************************************************************************)
EXTENDS RegisterAllocator

CONSTANTS this, x, y, r

MCArgRegs == <<"di", "si">>
MCArgRegs1 == <<"di">>
MCPassed1 == {<<this, x>>}
MCValues == {Junk, this, x, y, r}
MCPassed == {<<this, x, y>>}
=============================================================================
