------------------------------ MODULE MailLog ------------------------------
(* What the message bases promise whoever keeps a message number: each base
   is a log.  A message gets the next number of its base and keeps it; its
   author and its text never change; it is received once; a deletion is
   final.  Only damage to its file takes a message out of the log.         *)
EXTENDS Naturals

CONSTANTS Bases, Numbers, Users, Nobody, Bodies, Visibilities

VARIABLE log    \* what stands under each number of each base

NoMail == [state |-> "none"]
Lost == [state |-> "lost"]
Mail == [state : {"mail"}, author : Users, addressee : Users \cup {Nobody},
         visibility : Visibilities \cup {"Deleted"}, received : BOOLEAN, body : Bodies]
Entry == Mail \cup {NoMail, Lost}

IsLive(entry) == entry.state = "mail" /\ entry.visibility # "Deleted"

\* Every base is numbered without a gap.
Init == /\ log \in [Bases -> [Numbers -> Entry]]
        /\ \A b \in Bases, n, k \in Numbers :
             k < n /\ log[b][n] # NoMail => log[b][k] # NoMail

Append(b, n) ==
    /\ log[b][n] = NoMail
    /\ \A k \in Numbers : k < n => log[b][k] # NoMail
    /\ log'[b][n] \in Mail /\ ~ log'[b][n].received
    /\ log' = [log EXCEPT ![b][n] = log'[b][n]]

Receive(b, n) ==
    /\ IsLive(log[b][n]) /\ ~ log[b][n].received
    /\ log' = [log EXCEPT ![b][n].received = TRUE]

Readdress(b, n, to) ==
    /\ log[b][n].state = "mail"
    /\ log' = [log EXCEPT ![b][n].addressee = to]

\* A message that is deleted has no receipt any more.
Delete(b, n) ==
    /\ IsLive(log[b][n])
    /\ log' = [log EXCEPT ![b][n].visibility = "Deleted", ![b][n].received = FALSE]

Damage(hit) ==
    /\ \A place \in hit : log[place[1]][place[2]].state = "mail"
    /\ log' = [b \in Bases |-> [n \in Numbers |->
                 IF <<b, n>> \in hit THEN Lost ELSE log[b][n]]]

Next ==
    \/ \E b \in Bases, n \in Numbers :
         \/ Append(b, n)
         \/ Receive(b, n)
         \/ \E to \in Users \cup {Nobody} : Readdress(b, n, to)
         \/ Delete(b, n)
    \/ \E hit \in SUBSET (Bases \X Numbers) : Damage(hit)

Spec == Init /\ [][Next]_log
=============================================================================
