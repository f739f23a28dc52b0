------------------------------ MODULE MCBoard -------------------------------
(* Three callers for two nodes, and one message all may delete or move.      *)
EXTENDS Board, TLC

CONSTANTS c1, c2, c3, sysop, mate, nobody

UserOfCaller == (c1 :> sysop) @@ (c2 :> mate) @@ (c3 :> mate)
LetterFromMate ==
    {[b \in Bases |-> [n \in 1 .. MaxNumber |->
        IF b = 1 /\ n = 1
          THEN [state |-> "mail", author |-> mate, addressee |-> sysop,
                visibility |-> "Private", received |-> FALSE, body |-> <<1, 1>>]
          ELSE [state |-> "none"]]]}
Undisturbed == {[bases |-> {1, 2}, operations |-> {"kill"}, recipients |-> {mate},
                 room |-> 3, faults |-> 0]}
=============================================================================
