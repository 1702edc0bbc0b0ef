--------------------------- MODULE MCControlStore ---------------------------
(***************************************************************************)
(* ControlStore with three clients, two Files the Collection may hold (they*)
(* share their bytes) and one it may not.                                  *)
(***************************************************************************)
EXTENDS ControlStore

CONSTANTS c1, c2, c3, f1, f2, f3, o1, o2

MCFiles == {f1, f2, f3}
MCObjects == {o1, o2}
MCObjectOf == [f \in MCFiles |-> IF f = f3 THEN o2 ELSE o1]
\* PUBLIC, INTERNAL, RESTRICTED in an INTERNAL Collection
MCPrivacyRank == [f \in MCFiles |-> CASE f = f1 -> 0 [] f = f2 -> 1 [] f = f3 -> 2]
MCChanges ==
  { [add |-> {f1}, remove |-> {}], [add |-> {f3}, remove |-> {}],
    [add |-> {f2}, remove |-> {f1}], [add |-> {f1}, remove |-> {f1}] }
=============================================================================
