-------------------------------- MODULE World --------------------------------
(***************************************************************************)
(* What the triggers keep true of one world: the map of its locations      *)
(* (WorldStructure) beside the rulesets it allows (Rulesets).  Different   *)
(* tables, different migrations, and no state in common.                   *)
(***************************************************************************)
EXTENDS WorldStructure

CONSTANTS
  Rulesets,  \* that a world may allow
  Rows,      \* that use one: defaults, builds, item instances
  KindOf     \* which of these a row is

VARIABLES allowed, newAllowed, uses, newUses, shared, writer, rowWriter

AllowList == INSTANCE Rulesets
rulesets == <<allowed, newAllowed, uses, newUses, shared, writer, rowWriter>>

\* What a row uses is allowed for its world (Rulesets).
UsedIsAllowed == AllowList!UsedIsAllowed
=============================================================================
