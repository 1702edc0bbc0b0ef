--------------------------- MODULE MCRemoteGateway ---------------------------
(***************************************************************************)
(* RemoteGateway with two connections, a principal that may do everything  *)
(* up to INTERNAL and one that may only read, a PUBLIC and an INTERNAL     *)
(* record.                                                                 *)
(***************************************************************************)
EXTENDS RemoteGateway

CONSTANTS t1, t2, p1, p2, r0, r1

MCPrivacy == [r \in {r0, r1} |-> IF r = r0 THEN 0 ELSE 1]
MCCeiling == [p \in {p1, p2} |-> 1]
MCConfigured == [p \in {p1, p2} |-> {}]
MCAllowed == [p \in {p1, p2} |-> IF p = p1 THEN {"create", "read"} ELSE {"read"}]
=============================================================================
