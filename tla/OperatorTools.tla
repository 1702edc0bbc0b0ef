---------------------------- MODULE OperatorTools ----------------------------
(***************************************************************************)
(* The tools an operator runs beside the store: the recovery tools and the *)
(* consensus command, while clients write the store, and the portable      *)
(* bundle.  They have only the store in common and never wait for one      *)
(* another, so a behaviour is of one suite.                                *)
(***************************************************************************)
EXTENDS ArkRecovery, PortableBundle, ConsensusProposal

VARIABLE suite

vars == <<suite, live, arkVars, portableVars, consensusVars>>

Init ==
  /\ suite \in {"recovery", "portable", "consensus"}
  /\ live = Start
  /\ suite # "recovery" => disk = [d \in Outputs |-> Nothing]
  /\ ArkInit
  /\ PortableInit
  /\ ConsensusInit

\* A write that is made while no tool reads the store commutes with all the
\* tools do until one reads again, and is counted there.
BeingRead ==
  \/ \E j \in Jobs : job[j].at \in {"privacy", "validate", "verify_run", "collect"}
  \/ \E p \in Proposers : proposals[p].at = "fingerprint"

ClientsWrite ==
  /\ BeingRead
  /\ LiveNext
  /\ UNCHANGED <<suite, arkVars, portableVars, consensusVars>>

RecoveryStep ==
  /\ suite = "recovery" /\ ArkNext
  /\ UNCHANGED <<suite, portableVars, consensusVars>>

PortableStep ==
  /\ suite = "portable" /\ PortableNext
  /\ UNCHANGED <<suite, live, arkVars, consensusVars>>

ConsensusStep ==
  /\ suite = "consensus" /\ ConsensusNext
  /\ UNCHANGED <<suite, live, arkVars, portableVars>>

Next == ClientsWrite \/ RecoveryStep \/ PortableStep \/ ConsensusStep

Spec == Init /\ [][Next]_vars


\* The types of the three tools, and no job that has ended holds anything.
TypeOK == ArkTypeOK /\ PortableTypeOK /\ ConsensusTypeOK
=============================================================================
