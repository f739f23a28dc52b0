--------------------------- MODULE MCMessageBases ---------------------------
(* Instances of MessageBases for TLC.                                      *)
EXTENDS MessageBases, TLC

CONSTANTS s1, s2, sysop, mate, nobody

TwoMovers == (s1 :> sysop) @@ (s2 :> mate)

\* One private message in the first base, from mate to the sysop.
LetterFromMate ==
    {[b \in Bases |-> [n \in Numbers |->
        IF b = 1 /\ n = 1
          THEN [state |-> "mail", author |-> mate, addressee |-> sysop,
                visibility |-> "Private", received |-> FALSE, body |-> <<1, 1>>]
          ELSE NoFile]]}

\* Two callers in one base who write and delete, or answer, readdress and
\* delete, and two in two bases who move messages.
OneBase(asked_for) == [bases |-> {1}, operations |-> asked_for, recipients |-> {mate, nobody},
                       room |-> 2, faults |-> 1]
TwoBases(n) == [bases |-> {1, 2}, operations |-> {"again", "kill", "edit"},
                recipients |-> {mate}, room |-> 3, faults |-> n]
AllWorkloads == {OneBase({"post", "kill"}), OneBase({"reply", "forward", "kill", "edit"}), TwoBases(1)}
MovesThatFail == {TwoBases(1)}
=============================================================================
