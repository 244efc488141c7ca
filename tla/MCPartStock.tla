----------------------------- MODULE MCPartStock -----------------------------
(***************************************************************************)
(* The instance of PartStock for TLC.  A behaviour is about the            *)
(* allocations beside the receipts of one line, or about the whole order   *)
(* beside the owner's counts: the two have the stock in common, and both   *)
(* at once are too many states.                                            *)
(***************************************************************************)
EXTENDS PartStock, TLC

CONSTANT Line  \* the line received beside the allocations

VARIABLE scene  \* what this behaviour is about

SceneInit == Init /\ scene \in {"allocations", "order"}

SceneNext ==
    /\ Next
    /\ \A s \in Sessions :
          /\ scene = "allocations" => /\ req'[s].op \notin {"cancel", "count"}
                                     /\ req'[s].row \notin Lines \ {Line}
          /\ scene = "order" => req'[s].row \notin Allocations
    /\ UNCHANGED scene

SceneSpec == SceneInit /\ [][SceneNext]_<<vars, scene>>

Symmetry == Permutations(Sessions)
=============================================================================
