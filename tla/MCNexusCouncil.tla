---------------------------- MODULE MCNexusCouncil ----------------------------
(* NexusCouncil with two questions, and sessions of which one is sound for    *)
(* each question while the others break one rule each: s2 seats a member      *)
(* twice, s3 opens a ballot that was not sealed.                              *)
EXTENDS NexusCouncil, TLC

Ballot(m, c) == [member |-> m, choice |-> c]
Seats(a, b, c) == [i \in 1 .. 3 |-> [member |-> <<a, b, c>>[i], weight |-> 1,
                                      privilege |-> "none"]]

\* A session's result, with the tally, disposition, label and minority given.
Result(tally, disposition, label, minority) ==
  [numerator |-> 2, denominator |-> 3, state |-> "known", tally |-> tally,
   disposition |-> disposition, label |-> label, minority |-> minority]
Session3(q, evidence, presence, seats, committed, revealed, result) ==
  [type |-> "council_session", clean |-> TRUE, question |-> q,
   mode |-> "analytical", presence |-> presence, evidence |-> evidence, roster |-> seats,
   weight |-> 1, sealed |-> TRUE, numerator |-> 2, denominator |-> 3,
   phases |-> [SEALED_BALLOT |-> <<seats[1].member, seats[2].member, seats[3].member>>],
   commitments |-> committed, revealed |-> revealed, replayable |-> FALSE,
   result |-> result]
Receipt(session, q, evidence, presence) ==
  [type |-> "receipt", clean |-> TRUE, result |-> session, replayable |-> FALSE,
   inputs |-> <<q, evidence, presence>>]
Presence(q, members) ==
  [type |-> "world_presence", clean |-> TRUE, mode |-> "analytical",
   question |-> q, members |-> members]

Evidence(q) ==
  [type |-> "evidence_snapshot", clean |-> TRUE, included |-> <<>>,
   state |-> "known", question |-> q]

XXY == <<Ballot("m1", "x"), Ballot("m2", "x"), Ballot("m3", "y")>>
XYY == <<Ballot("m1", "x"), Ballot("m2", "y"), Ballot("m3", "y")>>
XYZ == <<Ballot("m1", "x"), Ballot("m2", "y"), Ballot("m3", "z")>>
Twice == <<Ballot("m1", "x"), Ballot("m1", "x"), Ballot("m3", "y")>>
TwoOfThree == Result([x |-> 2, y |-> 1], "x", "CONSENSUS", <<Ballot("m3", "y")>>)
Three == Seats("m1", "m2", "m3")

MCWorld ==
  [qa |-> [type |-> "question", clean |-> TRUE, text |-> "qa"],
   qb |-> [type |-> "question", clean |-> TRUE, text |-> "qb"],
   ea |-> Evidence("qa"), eb |-> Evidence("qb"),
   pa |-> Presence("qa", <<"m1", "m2", "m3">>),
   pb |-> Presence("qb", <<"m1", "m2", "m3">>),
   p2 |-> Presence("qa", <<"m1", "m1", "m3">>),
   sa |-> Session3("qa", "ea", "pa", Three, XXY, XXY, TwoOfThree),
   sb |-> Session3("qb", "eb", "pb", Three, XYZ, XYZ,
                   Result([x |-> 1, y |-> 1, z |-> 1], NoSingle, "NO_CONSENSUS", XYZ)),
   s2 |-> Session3("qa", "ea", "p2", Seats("m1", "m1", "m3"), Twice, Twice, TwoOfThree),
   s3 |-> Session3("qa", "ea", "pa", Three, XYY, XXY, TwoOfThree),
   ra |-> Receipt("sa", "qa", "ea", "pa"), rb |-> Receipt("sb", "qb", "eb", "pb"),
   r2 |-> Receipt("s2", "qa", "ea", "p2"), r3 |-> Receipt("s3", "qa", "ea", "pa"),
   ep |-> [type |-> "council_epoch_admission_receipt", clean |-> TRUE,
           session |-> "sa"]]

Told(session, receipt, q, evidence, presence, epoch, result, clean) ==
  [session |-> session, receipt |-> receipt, question |-> q,
   presence |-> presence, evidence |-> evidence, epoch |-> epoch,
   mode |-> "analytical", result |-> result, replayable |-> FALSE,
   chair |-> <<>>, addedVotes |-> 0, clean |-> clean]
MCRunAnswers ==
  [a |-> Told("sa", "ra", "qa", "ea", "pa", "ep", TwoOfThree, TRUE),
   b |-> Told("sb", "rb", "qb", "eb", "pb", NoRef,
              Result([x |-> 1, y |-> 1, z |-> 1], NoSingle, "NO_CONSENSUS", XYZ), TRUE),
   two |-> Told("s2", "r2", "qa", "ea", "p2", NoRef, TwoOfThree, TRUE),
   switched |-> Told("s3", "r3", "qa", "ea", "pa", NoRef, TwoOfThree, TRUE),
   unclean |-> Told("sa", "ra", "qa", "ea", "pa", NoRef, TwoOfThree, FALSE)]

MCForged == {"qa"}
Asked(q, members, kept, run) ==
  [clean |-> TRUE, question |-> q, mode |-> "analytical", state |-> "known",
   evidence |-> <<>>, members |-> members, kept |-> kept, run |-> run]
MCRequests ==
  {Asked("qa", <<"m1", "m2", "m3">>, TRUE, "run1"),
   Asked("qb", <<"m1", "m2", "m3">>, TRUE, "run1"),
   Asked("qb", <<"m1">>, FALSE, NoRun),
   Asked("qa", <<"m1", "m1">>, TRUE, NoRun)}
MCLong == {Asked("qa", <<"m1", "m2", "m3">>, TRUE, "run1")}
MCTarget ==
  [r \in {"run1"} |-> [mode |-> "council", question |-> "qa", state |-> "known"]]
=============================================================================
