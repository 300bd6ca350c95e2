----------------------------- MODULE MCDataCommands -----------------------------
(***************************************************************************)
(* Two processes, one that runs init until it succeeds and one that runs   *)
(* either command once.  One source has both products, a source sync also  *)
(* takes the other.                                                        *)
(***************************************************************************)
EXTENDS DataCommands, TLC

CONSTANTS a, b, ui, ace, retail, addon

MCKindsOf      == (a :> {"init"}) @@ (b :> {"init", "sync"})
MCSourceOf     == [p \in Products |-> ui]
MCSelectionsOf == (a :> {Products}) @@ (b :> {{retail}})
==============================================================================
