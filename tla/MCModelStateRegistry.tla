----------------------- MODULE MCModelStateRegistry -----------------------
(***************************************************************************)
(* ModelStateRegistry, and with it InteractionStore, with two clients, one *)
(* model state and one ordinary event, and record sets that agree and      *)
(* disagree with what the clients append.                                  *)
(***************************************************************************)
EXTENDS ModelStateRegistry

CONSTANTS c1, c2, m1, p1

Recorded(p, parents) == [payload |-> p, parents |-> parents]

\* Nothing, one event, and two chains of three that part at the second.
MCRecordSets ==
  { <<>>,
    <<Recorded(p1, {})>>,
    <<Recorded(p1, {}), Recorded(m1, {0}), Recorded(p1, {1})>>,
    <<Recorded(p1, {}), Recorded(p1, {0}), Recorded(m1, {0, 1})>> }
=============================================================================
