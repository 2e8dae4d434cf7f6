------------------------------- MODULE MCDfu -------------------------------
(***************************************************************************)
(* Small instances of DfuStateMachine: two fragments to a sector, a flash  *)
(* of one factory sector, two upgrade sectors and one data sector.         *)
(***************************************************************************)
EXTENDS DfuRefinement

\* Fragments an upload reads per alternate setting
MCReadableFrags ==
  [a \in AltSettings |-> CASE a = "factory" -> 1 [] a = "upgrade" -> 2
                           [] a = "data" -> 3 [] OTHER -> 0]
=============================================================================
