------------------------------ MODULE MCImages ------------------------------
(* Images and their versions, as two parts of one run: the DFU state       *)
(* machine, and the script that numbers what is built.  Each state belongs *)
(* to the part that Init chose, and the other one rests.                   *)
EXTENDS MCDfu, Versioning

\* One tag with three sources, two of which git does not tell apart, and
\* another tag
MCWorkspaces ==
  {[tag |-> 1, source |-> "clean"], [tag |-> 1, source |-> "staged"],
   [tag |-> 1, source |-> "changed"], [tag |-> 2, source |-> "clean"]}

\* A change that is staged is not in the output of `git diff`.
MCGitSees == [s \in {"clean", "staged", "changed"} |->
                IF s = "changed" THEN s ELSE "clean"]

\* "v1.2.3" begins "v1.2.30".
MCPrefixes == {<<1, 2>>}

VARIABLE part

ImagesInit ==
  /\ part \in {"dfu", "versions"}
  /\ Init /\ VersioningInit
  /\ part = "dfu" => lastTag = 1 /\ source = "clean"

ImagesNext ==
  /\ UNCHANGED part
  /\ \/ part = "dfu" /\ Next /\ UNCHANGED versioningVars
     \/ part = "versions" /\ VersioningNext /\ UNCHANGED vars

\* Fairness, for the part it belongs to
PartFairness ==
  /\ WF_vars(part = "dfu" /\ Servicer)
  /\ WF_vars(part = "dfu" /\ StateMachine)
  /\ WF_vars(part = "dfu" /\ WatchdogReset)

ImagesSpec ==
  ImagesInit /\ [][ImagesNext]_<<vars, versioningVars, part>> /\ PartFairness
=============================================================================
