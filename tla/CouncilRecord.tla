---------------------------- MODULE CouncilRecord ----------------------------
(***************************************************************************)
(* adapters/nexus.py, _validate_and_render: what CONTROL recomputes from a *)
(* council session that NEXUS committed before it renders the session: one *)
(* vote per seat, sealed ballots that open to what was committed, and the  *)
(* tally, disposition, label and minority that follow from them.           *)
(*                                                                         *)
(* A commitment is the hash of the member, choice and rationale it seals;  *)
(* here it is that pair itself, the rationale left out.  A phase is the    *)
(* sequence of the members that submitted to it.                           *)
(***************************************************************************)
EXTENDS Naturals, Sequences, FiniteSets

NoSingle == "NO_SINGLE_DISPOSITION"
NoConsensus == "NO_CONSENSUS"

Members(s) == [i \in DOMAIN s.roster |-> s.roster[i].member]
Voters(ballots) == [i \in DOMAIN ballots |-> ballots[i].member]

IsList(l) == Len(l) \in Nat /\ DOMAIN l = 1 .. Len(l)

\* Members are distinct and every seat has one vote and no privilege.
RosterIsOrdinary(s) ==
  /\ IsList(s.roster) /\ s.roster # <<>>
  /\ \A i, j \in DOMAIN s.roster :
       s.roster[i].member = s.roster[j].member => i = j
  /\ \A i \in DOMAIN s.roster :
       s.roster[i].weight = 1 /\ s.roster[i].privilege = "none"

PolicyIsValid(s) ==
  /\ s.weight = 1 /\ s.sealed
  /\ s.numerator \in Nat /\ s.denominator \in Nat
  /\ s.numerator > 0 /\ s.numerator <= s.denominator

\* Every phase holds one submission of each seat, in roster order.
PhasesFollowRoster(s) ==
  \A phase \in DOMAIN s.phases : s.phases[phase] = Members(s)

CommitmentsUnopened(s) ==
  /\ IsList(s.commitments) /\ IsList(s.revealed)
  /\ Voters(s.commitments) = Members(s)
  /\ Voters(s.revealed) = Members(s)

\* Each seat sealed one ballot and opened that one.
BallotsOpenCommitments(s) ==
  /\ IsList(s.commitments) /\ IsList(s.revealed)
  /\ Voters(s.commitments) = Members(s)
  /\ Voters(s.revealed) = Members(s)
  /\ s.revealed = s.commitments

-----------------------------------------------------------------------------
(* The count                                                               *)

Choices(s) == {s.revealed[i].choice : i \in DOMAIN s.revealed}
Votes(s, c) == Cardinality({i \in DOMAIN s.revealed : s.revealed[i].choice = c})
Total(s) == Len(s.revealed)
Tally(s) == [c \in Choices(s) |-> Votes(s, c)]

Winners(s) == {c \in Choices(s) : \A d \in Choices(s) : Votes(s, d) <= Votes(s, c)}
SingleWinner(s) == Cardinality(Winners(s)) = 1
Top(s) == Votes(s, CHOOSE c \in Winners(s) : TRUE)
Disposition(s) ==
  IF SingleWinner(s) THEN CHOOSE c \in Winners(s) : TRUE ELSE NoSingle

ThresholdMet(s) ==
  SingleWinner(s) /\ Top(s) * s.denominator >= Total(s) * s.numerator

Label(s) ==
  CASE SingleWinner(s) /\ Top(s) = Total(s) -> "UNANIMOUS"
    [] SingleWinner(s) /\ Top(s) < Total(s) /\ ThresholdMet(s)
         /\ Top(s) * 5 >= Total(s) * 4 -> "STRONG_CONSENSUS"
    [] SingleWinner(s) /\ Top(s) < Total(s) /\ ThresholdMet(s)
         /\ Top(s) * 5 < Total(s) * 4 -> "CONSENSUS"
    [] SingleWinner(s) /\ ~ThresholdMet(s) /\ Top(s) * 2 > Total(s)
         -> "MAJORITY_NO_CONSENSUS"
    [] OTHER -> "NO_CONSENSUS"

Outcome(s) == IF ThresholdMet(s) THEN Disposition(s) ELSE NoConsensus

Dissents(s, ballot) ==
  s.result.disposition = NoSingle \/ ballot.choice # s.result.disposition
Minority(s) == SelectSeq(s.revealed, LAMBDA b : Dissents(s, b))

\* The committed result is the one its ballots and policy yield.
ResultFollowsBallots(s) ==
  /\ s.result.numerator = s.numerator /\ s.result.denominator = s.denominator
  /\ s.result.tally = Tally(s)
  /\ Total(s) >= 1
  /\ s.result.disposition = Disposition(s)
  /\ s.result.label = Label(s)
  /\ s.result.minority = Minority(s)
=============================================================================
