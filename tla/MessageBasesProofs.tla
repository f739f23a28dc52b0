------------------------- MODULE MessageBasesProofs -------------------------
(* Theorems about MessageBases, for any number of bases, messages, sessions
   and users, any failed writes and any crashes.                           *)
EXTENDS MessageBases, TLAPS, WellFoundedInduction, SequenceTheorems

Stages == {"Menu", "Prompt", "Showing", "Waiting", "Writing", "Advancing", "Dead"}
Posts == {"post", "reply", "forward"}
Ops == Reads \cup Posts \cup {"kill", "edit", "move"}
Steps == [base : Bases, number : Numbers, mail : Mail] \cup {Panic}
Session == [stage : Stages, base : Bases, next : Int, loaded : Int, op : Ops \cup {"none"},
            target : Bases \cup {NoBase}, writes : Seq(Steps)]

TypeOK == /\ files \in [Bases -> [Numbers -> Mail \cup {NoFile, Torn}]]
          /\ highest \in [Bases -> 0 .. MaxNumber]
          /\ owner \in [Bases -> {Free} \cup {HeldBy(s) : s \in Sessions}]
          /\ asked \in Workloads
          /\ task \in [Sessions -> Session]
          /\ up \in BOOLEAN
          /\ faults \in Nat

\* The bases an operation needs the locks of.
Wants(t) == {t.base} \cup ({t.target} \ {NoBase})
WellAimed(t) == (t.op = "move" <=> t.target # NoBase) /\ t.target # t.base

\* Between two operations; a message about to be shown is to be read.
Idle == {"Menu", "Prompt", "Showing", "Advancing", "Dead"}
IsIdle(t) == /\ t.stage \in Idle /\ t.op # "move" /\ t.target = NoBase
             /\ t.stage = "Showing" => t.op \in Reads

\* Who writes holds the locks it needs and no other; who waits for two holds
\* only one of them; nobody else holds any.
LocksSound(s) ==
    /\ WellAimed(task[s])
    /\ At(s, "Waiting") => task[s].op = "move"
    /\ Held(s) \subseteq Wants(task[s])
    /\ At(s, "Writing") => Held(s) = Wants(task[s])
    /\ ~ At(s, "Writing") /\ ~ At(s, "Waiting") => Held(s) = {} /\ IsIdle(task[s])

\* What a rule may still have to write when the bases are as they are: to the
\* message it loaded, which is still there; to the number after the mark; for a
\* move, what is left of the copy, its receipt and the deletion.
OwesChange(t, u, file) ==
    \E new \in Mail :
        /\ IsMail(file)
        /\ t.writes = <<Write(t.base, Number(t), new)>>
        /\ \/ t.op \in Reads /\ new = RecordReadBy(u, file)
           \/ t.op = "kill" /\ ~ IsDeleted(file) /\ CanDelete(u, file) /\ new = SoftDeleted(file)
           \/ t.op = "edit" /\ \E to \in Users : new \in {file, [file EXCEPT !.addressee = to]}

OwesPost(t, high) ==
    \E new \in Mail :
        /\ t.op \in Posts
        /\ t.writes = <<Write(t.base, high + 1, new)>>
        /\ ~ new.received /\ new.body = <<t.base, high + 1>>

Copy(mail) == [mail EXCEPT !.received = FALSE]
LastOfMove(t, file) ==
    IF IsDeleted(file) THEN Panic ELSE Write(t.base, t.loaded, SoftDeleted(file))
OwesMove(t, file, target, high) ==
    /\ t.op = "move" /\ IsMail(file)
    /\ \/ t.writes = <<Write(t.target, high + 1, Copy(file)), Write(t.target, high + 1, file),
                       LastOfMove(t, file)>>
       \/ \E n \in Numbers : /\ n <= high /\ target[n] = Copy(file)
                             /\ t.writes = <<Write(t.target, n, file), LastOfMove(t, file)>>
       \/ \E n \in Numbers : target[n] = file /\ t.writes = <<LastOfMove(t, file)>>

Owes(t, u, fs, hi) ==
    \/ Number(t) \in Numbers /\ OwesChange(t, u, fs[t.base][Number(t)])
    \/ hi[t.base] + 1 \in Numbers /\ OwesPost(t, hi[t.base])
    \/ /\ t.target \in Bases /\ t.loaded \in Numbers
       /\ hi[t.target] + 1 \in Numbers \/ Len(t.writes) < 3
       /\ OwesMove(t, fs[t.base][t.loaded], fs[t.target], hi[t.target])
WritesSound(s) == At(s, "Writing") => Owes(task[s], UserOf[s], files, highest)

\* A deletion takes the receipt along (mail.rs soft_delete).
NoReceiptOnDeleted ==
    \A b \in Bases, n \in Numbers :
        IsMail(files[b][n]) /\ IsDeleted(files[b][n]) => ~ files[b][n].received

IInv == /\ TypeOK
        /\ HighestMessageMatchesMaxNumber
        /\ NoReceiptOnDeleted
        /\ \A s \in Sessions : LocksSound(s) /\ WritesSound(s)

----------------------------------------------------------------------------
(* Minima and maxima, which the model takes of bounded sets of numbers.     *)

LEMMA MinOf ==
    ASSUME NEW S, S \subseteq Nat, S # {}
    PROVE  Min(S) \in S /\ \A k \in S : Min(S) <= k
<1>1. PICK n \in S : \A k \in S : ~ (<<k, n>> \in OpToRel(<, Nat))
  BY NatLessThanWellFounded, WFMin
<1>2. ASSUME NEW k \in S PROVE n <= k
  <2>1. n \in Nat /\ k \in Nat /\ <<k, n>> \in Nat \X Nat
    BY <1>1
  <2>2. ~ (k < n)
    BY <1>1, <2>1 DEF OpToRel
  <2> QED
    BY <2>1, <2>2
<1> QED
  BY <1>2 DEF Min

LEMMA MaxOf ==
    ASSUME NEW top \in Nat, NEW S, S \subseteq 0 .. top, S # {}
    PROVE  Max(S) \in S /\ \A k \in S : Max(S) >= k
<1> DEFINE gaps == {top - k : k \in S}
<1>1. gaps \subseteq Nat /\ gaps # {}
  <2>1. \A k \in S : k \in 0 .. top
    OBVIOUS
  <2>2. \A k \in S : top - k \in Nat
    BY <2>1
  <2> QED
    BY <2>2
<1>2. PICK g \in gaps : \A k \in gaps : ~ (<<k, g>> \in OpToRel(<, Nat))
  BY <1>1, NatLessThanWellFounded, WFMin
<1>3. PICK n \in S : g = top - n
  BY <1>2
<1>4. ASSUME NEW k \in S PROVE n >= k
  <2>1. top - k \in gaps
    OBVIOUS
  <2>2. ~ (top - k < g)
    BY <1>1, <1>2, <2>1 DEF OpToRel
  <2> QED
    BY <1>3, <2>2
<1> QED
  BY <1>3, <1>4 DEF Max

LEMMA MaxOfTwo ==
    ASSUME NEW i \in Nat, NEW k \in Nat
    PROVE  Max({i, k}) = IF i >= k THEN i ELSE k
<1>1. {i, k} \subseteq 0 .. i + k /\ {i, k} # {} /\ i + k \in Nat
  OBVIOUS
<1>2. Max({i, k}) \in {i, k} /\ \A n \in {i, k} : Max({i, k}) >= n
  BY <1>1, MaxOf
<1> QED
  BY <1>2

\* What the board finds when it opens a base.
LEMMA ScannedHighestIsTop ==
    ASSUME NEW file
    PROVE  /\ ScannedHighest(file) \in 0 .. MaxNumber
           /\ ScannedHighest(file) # 0 => IsMail(file[ScannedHighest(file)])
           /\ \A n \in Numbers : IsMail(file[n]) => n <= ScannedHighest(file)
<1> DEFINE S == {n \in Numbers : IsMail(file[n])} \cup {0}
<1>1. S \subseteq 0 .. MaxNumber /\ S # {}
  BY NumbersAssumption DEF Numbers
<1>2. Max(S) \in S /\ \A n \in S : Max(S) >= n
  BY <1>1, MaxOf, NumbersAssumption
<1>3. ScannedHighest(file) = Max(S)
  BY DEF ScannedHighest
<1> HIDE DEF S
<1>4. ScannedHighest(file) \in S /\ \A n \in S : n <= ScannedHighest(file)
  <2>1. \A n \in S : n \in Int
    BY <1>1
  <2> QED
    BY <1>2, <1>3, <2>1
<1> QED
  BY <1>1, <1>4, NumbersAssumption DEF S, Numbers

LEMMA LowestIsNumber ==
    ASSUME TypeOK, NEW b \in Bases
    PROVE  Lowest(b) \in Nat
<1> DEFINE S == {n \in 1 .. highest[b] : IsLive(files[b][n])} \cup {highest[b] + 1}
<1>1. S \subseteq Nat /\ S # {}
  BY DEF TypeOK
<1>2. Min(S) \in S
  BY <1>1, MinOf
<1> QED
  BY <1>1, <1>2 DEF Lowest

----------------------------------------------------------------------------
(* The rules: what they ask to be written is what a session may owe.        *)

\* A file that can be read is a message.
LEMMA ReadableIsMail ==
    ASSUME NEW file \in Mail \cup {NoFile, Torn}, IsMail(file)
    PROVE  file \in Mail
BY DEF IsMail, NoFile, Torn

LEMMA ChangesStayMail ==
    ASSUME NEW mail \in Mail, NEW u, NEW to \in Users \cup {Nobody}
    PROVE  /\ RecordReadBy(u, mail) \in Mail
           /\ SoftDeleted(mail) \in Mail
           /\ Copy(mail) \in Mail
           /\ [mail EXCEPT !.addressee = to] \in Mail
<1>1. RecordReadBy(u, mail) \in Mail
  BY DEF RecordReadBy, Mail
<1>2. SoftDeleted(mail) \in Mail
  BY DEF SoftDeleted, Mail
<1>3. Copy(mail) \in Mail /\ [mail EXCEPT !.addressee = to] \in Mail
  BY DEF Copy, Mail
<1> QED
  BY <1>1, <1>2, <1>3

\* The session with a rule's writes before it.
Begun(t, writes) == [t EXCEPT !.stage = "Writing", !.writes = writes]

LEMMA BegunIsWriting ==
    ASSUME NEW t \in Session, NEW writes \in Seq(Steps)
    PROVE  /\ Begun(t, writes) \in Session
           /\ Begun(t, writes).stage = "Writing" /\ Begun(t, writes).writes = writes
           /\ Begun(t, writes).base = t.base /\ Begun(t, writes).target = t.target
           /\ Begun(t, writes).op = t.op /\ Begun(t, writes).loaded = t.loaded
           /\ Number(Begun(t, writes)) = Number(t)
BY DEF Begun, Session, Stages, Number

LEMMA LoadedIsThere ==
    ASSUME TypeOK, NEW t \in Session, NEW mail \in Loaded(t)
    PROVE  /\ Number(t) \in Numbers
           /\ mail = files[t.base][Number(t)] /\ mail \in Mail /\ IsMail(mail)
<1>1. PICK n \in {Number(t)} \cap Numbers : mail = files[t.base][n] /\ IsMail(mail)
  BY DEF Loaded
<1>2. files[t.base][n] \in Mail \cup {NoFile, Torn}
  BY DEF TypeOK, Session
<1> QED
  BY <1>1, <1>2, ReadableIsMail

LEMMA InsertedIsNext ==
    ASSUME NEW b \in Bases, NEW mail, NEW writes \in Inserted(b, mail)
    PROVE  highest[b] + 1 \in Numbers /\ writes = <<Write(b, highest[b] + 1, mail)>>
BY DEF Inserted, NextNumber

LEMMA WriteIsStep ==
    ASSUME NEW b \in Bases, NEW n \in Numbers, NEW mail \in Mail
    PROVE  Write(b, n, mail) \in Steps /\ Write(b, n, mail) # Panic
BY BasesAssumption DEF Write, Steps, Panic, NoBase

LEMMA PostIsOwed ==
    ASSUME TypeOK, NEW t \in Session, NEW u \in Users, NEW to \in Users \cup {Nobody},
           NEW private, NEW echo, t.op \in Posts,
           NEW writes \in ApplyPostMail(t, u, to, private, echo)
    PROVE  writes \in Seq(Steps) /\ Owes(Begun(t, writes), u, files, highest)
<1>1. PICK n \in NextNumber(t.base) :
        writes \in Inserted(t.base,
             [state |-> "mail", author |-> u, addressee |-> to,
              visibility |-> VisibilityOf(u, private, echo), received |-> FALSE,
              body |-> <<t.base, n>>])
  BY DEF ApplyPostMail
<1> DEFINE new == [state |-> "mail", author |-> u, addressee |-> to,
                   visibility |-> VisibilityOf(u, private, echo), received |-> FALSE,
                   body |-> <<t.base, n>>]
<1>2. t.base \in Bases /\ n = highest[t.base] + 1 /\ n \in Numbers
  BY <1>1 DEF NextNumber, Session
<1>3. new \in Mail
  <2>1. VisibilityOf(u, private, echo) \in Visibilities
    BY DEF VisibilityOf, Visibilities
  <2> QED
    BY <1>2, <2>1 DEF Mail, Bodies
<1>4. writes = <<Write(t.base, n, new)>>
  BY <1>1, <1>2, InsertedIsNext
<1>5. writes \in Seq(Steps)
  BY <1>2, <1>3, <1>4, WriteIsStep
<1>6. ~ new.received /\ new.body = <<t.base, n>>
  OBVIOUS
<1> HIDE DEF new
<1> DEFINE w == Begun(t, writes)
<1>7. w.writes = writes /\ w.base = t.base /\ w.op = t.op
  BY <1>5, BegunIsWriting
<1> HIDE DEF w
<1>8. OwesPost(w, highest[t.base])
  BY <1>2, <1>3, <1>4, <1>6, <1>7 DEF OwesPost
<1> QED
  BY <1>2, <1>5, <1>7, <1>8 DEF Owes, w

\* A rule that changes the message it loaded.
LEMMA ChangeIsOwed ==
    ASSUME TypeOK, NEW t \in Session, NEW u \in Users, NEW mail \in Loaded(t), NEW new \in Mail,
           \/ t.op \in Reads /\ new = RecordReadBy(u, mail)
           \/ t.op = "kill" /\ ~ IsDeleted(mail) /\ CanDelete(u, mail) /\ new = SoftDeleted(mail)
           \/ t.op = "edit" /\ \E to \in Users : new \in {mail, [mail EXCEPT !.addressee = to]}
    PROVE  Saved(t, new) \in Seq(Steps) /\ Owes(Begun(t, Saved(t, new)), u, files, highest)
<1>1. /\ Number(t) \in Numbers /\ t.base \in Bases
      /\ mail = files[t.base][Number(t)] /\ IsMail(mail)
  BY LoadedIsThere DEF Session
<1>2. Saved(t, new) = <<Write(t.base, Number(t), new)>> /\ Saved(t, new) \in Seq(Steps)
  BY <1>1, WriteIsStep DEF Saved
<1> DEFINE w == Begun(t, Saved(t, new))
<1>3. /\ w.writes = Saved(t, new) /\ w.base = t.base /\ Number(w) = Number(t) /\ w.op = t.op
  BY <1>2, BegunIsWriting
<1> HIDE DEF w
<1>4. OwesChange(w, u, mail)
  BY <1>1, <1>2, <1>3 DEF OwesChange
<1> QED
  BY <1>1, <1>2, <1>3, <1>4 DEF Owes, w

LEMMA OneAndTwo == \A x, y, z : <<x>> \o <<y, z>> = <<x, y, z>>
<1> SUFFICES ASSUME NEW x, NEW y, NEW z
             PROVE  <<x>> \o <<y, z>> = <<x, y, z>>
  OBVIOUS
<1> DEFINE S == {x, y, z}
<1>1. <<x>> \in Seq(S) /\ <<y, z>> \in Seq(S) /\ <<x, y, z>> \in Seq(S)
  OBVIOUS
<1>2. Len(<<x>> \o <<y, z>>) = 3 /\ Len(<<x, y, z>>) = 3
  BY <1>1, ConcatProperties
<1>3. \A i \in 1 .. 3 : (<<x>> \o <<y, z>>)[i] = <<x, y, z>>[i]
  BY <1>1, ConcatProperties
<1> QED
  BY <1>1, <1>2, <1>3, SeqEqual, ConcatProperties

LEMMA MoveIsOwed ==
    ASSUME TypeOK, NEW t \in Session, NEW u \in Users, t.op = "move", WellAimed(t),
           NEW writes \in MoveMail(t, u)
    PROVE  writes \in Seq(Steps) /\ Owes(Begun(t, writes), u, files, highest)
<1>1. PICK mail \in Loaded(t) : CanMove(u) /\ writes \in
        {MoveSteps(insert, Write(t.target, insert[1].number, mail),
                   IF IsDeleted(mail) THEN Panic ELSE Saved(t, SoftDeleted(mail))[1]) :
           insert \in Inserted(t.target, [mail EXCEPT !.received = FALSE])}
  BY DEF MoveMail
<1>2. PICK insert \in Inserted(t.target, Copy(mail)) :
        writes = MoveSteps(insert, Write(t.target, insert[1].number, mail),
                           IF IsDeleted(mail) THEN Panic ELSE Saved(t, SoftDeleted(mail))[1])
  BY <1>1 DEF Copy
<1>3. /\ Number(t) = t.loaded /\ t.loaded \in Numbers /\ t.base \in Bases
      /\ mail = files[t.base][t.loaded] /\ mail \in Mail /\ IsMail(mail)
  BY LoadedIsThere DEF Number, Session
<1>4. t.target \in Bases
  BY DEF WellAimed, Session
<1> DEFINE n == highest[t.target] + 1
           last == IF IsDeleted(mail) THEN Panic ELSE Write(t.base, t.loaded, SoftDeleted(mail))
<1>5. n \in Numbers /\ insert = <<Write(t.target, n, Copy(mail))>>
  BY <1>4, InsertedIsNext
<1>6. insert[1].number = n
  BY <1>5 DEF Write
<1>7. last = IF IsDeleted(mail) THEN Panic ELSE Saved(t, SoftDeleted(mail))[1]
  BY <1>3 DEF Saved
<1>8. writes = <<Write(t.target, n, Copy(mail)), Write(t.target, n, mail), last>>
  <2>1. writes = <<Write(t.target, n, Copy(mail))>> \o <<Write(t.target, n, mail), last>>
    BY <1>2, <1>5, <1>6, <1>7 DEF MoveSteps
  <2>2. \A x, y, z : <<x>> \o <<y, z>> = <<x, y, z>>
    BY OneAndTwo
  <2> QED
    BY <2>1, <2>2
<1>9. Copy(mail) \in Mail /\ SoftDeleted(mail) \in Mail
  BY <1>3, ChangesStayMail, UsersAssumption
<1>10. last \in Steps
  BY <1>3, <1>9, WriteIsStep DEF Steps
<1>11. writes \in Seq(Steps)
  BY <1>3, <1>4, <1>5, <1>8, <1>9, <1>10, WriteIsStep
<1> DEFINE w == Begun(t, writes)
<1>12. /\ w.writes = writes /\ w.base = t.base /\ w.target = t.target /\ w.loaded = t.loaded
       /\ w.op = t.op
  BY <1>11, BegunIsWriting
<1>13. last = LastOfMove(w, mail)
  BY <1>12 DEF LastOfMove
<1> HIDE DEF w, last, n
<1>14. OwesMove(w, mail, files[t.target], highest[t.target])
  BY <1>3, <1>8, <1>12, <1>13 DEF OwesMove, n
<1> QED
  BY <1>3, <1>4, <1>5, <1>11, <1>12, <1>14 DEF Owes, w, n

LEMMA RuleIsOwed ==
    ASSUME TypeOK, NEW t \in Session, NEW u \in Users, t.op \in Ops, WellAimed(t),
           NEW writes \in WritesOf(t, u)
    PROVE  /\ writes \in Seq(Steps)
           /\ Owes(Begun(t, writes), u, files, highest)
<1>1. Sysop \in Users /\ asked.recipients \subseteq Users \cup {Nobody}
  BY UsersAssumption, WorkloadsAssumption DEF TypeOK
<1>2. CASE t.op \in Reads
  <2>1. PICK mail \in Loaded(t) : writes = Saved(t, RecordReadBy(u, mail))
    BY <1>2 DEF WritesOf, Reads, ReadMail
  <2>2. RecordReadBy(u, mail) \in Mail
    BY LoadedIsThere, ChangesStayMail, <1>1
  <2> QED
    BY <1>2, <2>1, <2>2, ChangeIsOwed
<1>3. CASE t.op = "post"
  <2>1. t.op \in Posts /\ writes \in PostMail(t, u)
    BY <1>3 DEF WritesOf, Reads, Posts
  <2>2. \/ writes \in ApplyPostMail(t, u, Sysop, TRUE, FALSE)
        \/ \E to \in asked.recipients, private \in BOOLEAN :
             \/ writes \in ApplyPostMail(t, u, to, private, FALSE)
             \/ writes \in ApplyPostMail(t, u, Nobody, FALSE, TRUE)
    <3> DEFINE Sent(to) == ApplyPostMail(t, u, to, TRUE, FALSE)
                             \cup ApplyPostMail(t, u, to, FALSE, FALSE)
                             \cup ApplyPostMail(t, u, Nobody, FALSE, TRUE)
    <3>1. \/ writes \in ApplyPostMail(t, u, Sysop, TRUE, FALSE)
          \/ \E to \in asked.recipients : writes \in Sent(to)
      BY <2>1 DEF PostMail
    <3> QED
      BY <3>1
  <2> QED
    BY <1>1, <2>1, <2>2, PostIsOwed
<1>4. CASE t.op = "reply"
  <2>1. t.op \in Posts /\ writes \in ReplyToMail(t, u)
    BY <1>4 DEF WritesOf, Reads, Posts
  <2>2. PICK mail \in Loaded(t) : writes \in ApplyPostMail(t, u, mail.author, FALSE, FALSE)
    BY <2>1 DEF ReplyToMail
  <2>3. mail.author \in Users
    BY LoadedIsThere DEF Mail
  <2> QED
    BY <2>1, <2>2, <2>3, PostIsOwed
<1>5. CASE t.op = "forward"
  <2>1. t.op \in Posts /\ writes \in ForwardMail(t, u)
    BY <1>5 DEF WritesOf, Reads, Posts
  <2>2. PICK mail \in Loaded(t) :
          writes \in UNION {ApplyPostMail(t, u, to, mail.visibility # "Public", FALSE) :
                             to \in asked.recipients \cap Users}
    BY <2>1 DEF ForwardMail
  <2>3. PICK to \in asked.recipients \cap Users :
          writes \in ApplyPostMail(t, u, to, mail.visibility # "Public", FALSE)
    BY <2>2
  <2> QED
    BY <2>1, <2>3, PostIsOwed
<1>6. CASE t.op = "kill"
  <2>1. PICK mail \in Loaded(t) :
          writes = Saved(t, SoftDeleted(mail)) /\ ~ IsDeleted(mail) /\ CanDelete(u, mail)
    BY <1>6 DEF WritesOf, Reads, DeleteMail
  <2>2. SoftDeleted(mail) \in Mail
    BY LoadedIsThere, ChangesStayMail, <1>1
  <2> QED
    BY <1>6, <2>1, <2>2, ChangeIsOwed
<1>7. CASE t.op = "edit"
  <2>1. PICK mail \in Loaded(t) :
          \/ writes = Saved(t, mail)
          \/ \E to \in Users : writes = Saved(t, [mail EXCEPT !.addressee = to])
    <3>1. writes \in EditMailHeader(t, u)
      BY <1>7 DEF WritesOf, Reads
    <3>2. PICK mail \in Loaded(t) :
            writes \in {Saved(t, mail)}
                         \cup {Saved(t, [mail EXCEPT !.addressee = to]) :
                                to \in asked.recipients \cap Users}
      BY <3>1 DEF EditMailHeader
    <3> QED
      BY <3>2
  <2>2. PICK to \in Users : \E new \in {mail, [mail EXCEPT !.addressee = to]} : writes = Saved(t, new)
    BY <1>1, <2>1
  <2>3. PICK new \in {mail, [mail EXCEPT !.addressee = to]} : writes = Saved(t, new)
    BY <2>2
  <2>4. new \in Mail
    BY LoadedIsThere, ChangesStayMail
  <2> QED
    BY <1>7, <2>3, <2>4, ChangeIsOwed
<1>8. CASE t.op = "move"
  BY <1>8, MoveIsOwed DEF WritesOf, Reads
<1> QED
  BY <1>2, <1>3, <1>4, <1>5, <1>6, <1>7, <1>8 DEF Ops, Posts

----------------------------------------------------------------------------
(* What a step leaves as it is.                                            *)

LEMMA Holders ==
    ASSUME NEW s, NEW r
    PROVE  HeldBy(s) # Free /\ (HeldBy(s) = HeldBy(r) => s = r)
BY DEF HeldBy, Free

\* What a session owes is a matter of the bases it needs the locks of.
LEMMA OwesOnlyThere ==
    ASSUME NEW t, NEW u, NEW fs, NEW hi, NEW gs, NEW hj,
           gs[t.base] = fs[t.base] /\ hj[t.base] = hi[t.base],
           t.target \in Bases => gs[t.target] = fs[t.target] /\ hj[t.target] = hi[t.target],
           Owes(t, u, fs, hi)
    PROVE  Owes(t, u, gs, hj)
BY DEF Owes

\* A session whose locks and bases a step does not touch.
LEMMA OthersKeep ==
    ASSUME TypeOK, NEW r \in Sessions, LocksSound(r), WritesSound(r), task'[r] = task[r],
           \A b \in Bases : owner'[b] = HeldBy(r) <=> owner[b] = HeldBy(r),
           \A b \in Held(r) : files'[b] = files[b] /\ highest'[b] = highest[b]
    PROVE  LocksSound(r)' /\ WritesSound(r)'
<1>1. Held(r)' = Held(r)
  BY DEF Held
<1>2. LocksSound(r)'
  BY <1>1 DEF LocksSound, At
<1>3. ASSUME At(r, "Writing")
      PROVE  Owes(task[r], UserOf[r], files', highest')
  <2>1. Held(r) = Wants(task[r]) /\ Owes(task[r], UserOf[r], files, highest)
    BY <1>3 DEF LocksSound, WritesSound
  <2>2. task[r].base \in Held(r) /\ (task[r].target \in Bases => task[r].target \in Held(r))
    BY <2>1, BasesAssumption DEF Wants
  <2> QED
    BY <2>1, <2>2, OwesOnlyThere
<1> QED
  BY <1>2, <1>3 DEF WritesSound, At

LEMMA SameFilesKeep ==
    ASSUME HighestMessageMatchesMaxNumber, NoReceiptOnDeleted, UNCHANGED <<files, highest>>
    PROVE  HighestMessageMatchesMaxNumber' /\ NoReceiptOnDeleted'
BY DEF HighestMessageMatchesMaxNumber, NoReceiptOnDeleted

LEMMA MenuIsIdle ==
    ASSUME NEW b \in Bases
    PROVE  AtMenu(b) \in Session /\ IsIdle(AtMenu(b)) /\ AtMenu(b).base = b
<1>1. <<>> \in Seq(Steps)
  OBVIOUS
<1> QED
  BY <1>1 DEF AtMenu, Session, IsIdle, Idle, Stages

LEMMA AfterIsIdle ==
    ASSUME NEW t \in Session, t.op \in Ops, NEW ok
    PROVE  After(t, ok) \in Session /\ IsIdle(After(t, ok)) /\ After(t, ok).base = t.base
<1> DEFINE done == [t EXCEPT !.stage = "Prompt", !.op = "none", !.target = NoBase, !.writes = <<>>]
           shown == [done EXCEPT !.loaded = t.next, !.next = t.next + 1]
           moves == [done EXCEPT !.stage = "Advancing"]
           again == [done EXCEPT !.stage = "Showing", !.op = "again"]
<1>1. <<>> \in Seq(Steps)
  OBVIOUS
<1>2. done \in Session /\ IsIdle(done) /\ done.base = t.base
  BY <1>1 DEF Session, IsIdle, Idle, Stages
<1>3. shown \in Session /\ IsIdle(shown) /\ shown.base = t.base
  <2>1. t.next \in Int /\ t.next + 1 \in Int
    BY DEF Session
  <2> HIDE DEF done
  <2>2. shown \in Session
    BY <1>2, <2>1 DEF Session
  <2>3. shown.stage = done.stage /\ shown.op = done.op /\ shown.target = done.target
        /\ shown.base = done.base
    BY <1>2 DEF Session
  <2> QED
    BY <1>2, <2>2, <2>3 DEF IsIdle
<1>4. moves \in Session /\ IsIdle(moves) /\ moves.base = t.base
  BY <1>1 DEF Session, IsIdle, Idle, Stages
<1>5. again \in Session /\ IsIdle(again) /\ again.base = t.base
  BY <1>1 DEF Session, IsIdle, Idle, Stages, Ops, Reads
<1>6. AtMenu(t.base) \in Session /\ IsIdle(AtMenu(t.base)) /\ AtMenu(t.base).base = t.base
  BY MenuIsIdle DEF Session
<1>7. After(t, ok) \in {done, shown, moves, again, AtMenu(t.base)}
  BY DEF After, Ops, Reads, Posts
<1> HIDE DEF done, shown, moves, again
<1> QED
  BY <1>2, <1>3, <1>4, <1>5, <1>6, <1>7

\* A session that lets go of its locks and goes on to something else.
LEMMA LettingGoKeeps ==
    ASSUME TypeOK, NEW s \in Sessions, NEW t \in Session, IsIdle(t),
           \A r \in Sessions : LocksSound(r) /\ WritesSound(r),
           task' = [task EXCEPT ![s] = t], owner' = Released(s),
           \A b \in Bases \ Held(s) : files'[b] = files[b] /\ highest'[b] = highest[b]
    PROVE  /\ task' \in [Sessions -> Session]
           /\ owner' \in [Bases -> {Free} \cup {HeldBy(r) : r \in Sessions}]
           /\ \A r \in Sessions : LocksSound(r)' /\ WritesSound(r)'
<1>1. task' \in [Sessions -> Session] /\ task'[s] = t
      /\ \A r \in Sessions \ {s} : task'[r] = task[r]
  BY DEF TypeOK
<1>2. owner' \in [Bases -> {Free} \cup {HeldBy(r) : r \in Sessions}]
  BY DEF TypeOK, Released
<1>3. \A b \in Bases : owner'[b] = IF owner[b] = HeldBy(s) THEN Free ELSE owner[b]
  BY DEF Released
<1>4. LocksSound(s)' /\ WritesSound(s)'
  <2>1. Held(s)' = {}
    BY <1>3, Holders DEF Held
  <2>2. t.base # NoBase
    BY BasesAssumption DEF Session
  <2> QED
    BY <1>1, <2>1, <2>2 DEF LocksSound, WritesSound, At, IsIdle, Idle, WellAimed
<1>5. ASSUME NEW r \in Sessions, r # s
      PROVE  LocksSound(r)' /\ WritesSound(r)'
  <2>1. \A b \in Bases : owner'[b] = HeldBy(r) <=> owner[b] = HeldBy(r)
    BY <1>3, <1>5, Holders
  <2>2. \A b \in Held(r) : b \in Bases \ Held(s)
    BY <1>5, Holders DEF Held
  <2> QED
    BY <1>1, <1>5, <2>1, <2>2, OthersKeep
<1> QED
  BY <1>1, <1>2, <1>4, <1>5

----------------------------------------------------------------------------
(* Steps that write nothing.                                               *)

LEMMA InitInvariant == Init => IInv
<1> SUFFICES ASSUME Init PROVE IInv
  OBVIOUS
<1>1. files \in Seeds /\ files \in [Bases -> [Numbers -> Mail \cup {NoFile, Torn}]]
  BY SeedsAssumption DEF Init
<1>2. \A b \in Bases : highest[b] = ScannedHighest(files[b]) /\ highest[b] \in 0 .. MaxNumber
  BY ScannedHighestIsTop DEF Init
<1>3. TypeOK
  <2>1. \A b \in asked.bases : b \in Bases /\ AtMenu(b) \in Session
    BY WorkloadsAssumption, MenuIsIdle DEF Init
  <2> QED
    BY <1>1, <1>2, <2>1 DEF Init, TypeOK
<1>4. HighestMessageMatchesMaxNumber
  <2> SUFFICES ASSUME NEW b \in Bases, NEW n \in Numbers
               PROVE  /\ n <= highest[b] => files[b][n] # NoFile
                      /\ n > highest[b] => files[b][n] = NoFile
    <3>1. \A b \in Bases, n \in Numbers : n > highest[b] + 1 => n > highest[b]
      BY <1>2 DEF Numbers
    <3> QED
      BY <3>1 DEF HighestMessageMatchesMaxNumber, IsMail, NoFile
  <2>1. files[b] \in [Numbers -> Mail \cup {NoFile}] /\ n \in Nat /\ n # 0
    BY <1>1, SeedsAssumption DEF Numbers
  <2>2. n <= highest[b] => IsMail(files[b][n])
    <3>1. ASSUME n <= highest[b], n # highest[b] PROVE IsMail(files[b][n])
      <4>1. highest[b] \in Numbers /\ n < highest[b] /\ IsMail(files[b][highest[b]])
        BY <1>2, <2>1, <3>1, ScannedHighestIsTop, NumbersAssumption DEF Numbers
      <4> QED
        BY <1>1, <4>1, SeedsAssumption
    <3>2. ASSUME n = highest[b] PROVE IsMail(files[b][n])
      BY <1>2, <2>1, <3>2, ScannedHighestIsTop
    <3> QED
      BY <3>1, <3>2
  <2>3. n > highest[b] => ~ IsMail(files[b][n])
    BY <1>2, <2>1, ScannedHighestIsTop
  <2> QED
    BY <2>1, <2>2, <2>3 DEF IsMail, NoFile, Mail
<1>5. NoReceiptOnDeleted
  BY <1>1, SeedsAssumption DEF NoReceiptOnDeleted
<1>6. ASSUME NEW s \in Sessions PROVE LocksSound(s) /\ WritesSound(s)
  <2>1. PICK b \in Bases : task[s] = AtMenu(b)
    BY WorkloadsAssumption DEF Init
  <2>2. Held(s) = {}
    BY Holders DEF Held, Init
  <2>3. b # NoBase
    BY BasesAssumption
  <2> QED
    BY <2>1, <2>2, <2>3, MenuIsIdle DEF LocksSound, WritesSound, At, IsIdle, Idle, WellAimed
<1> QED
  BY <1>3, <1>4, <1>5, <1>6 DEF IInv

\* Whoever gets the last lock of an operation: its rule has something to
\* write, or the operation is over.
LEMMA BeginsKeeps ==
    ASSUME IInv, NEW s \in Sessions, NEW t \in Session, NEW b \in Bases,
           t.op \in Ops, WellAimed(t), Held(s) \cup {b} = Wants(t),
           Begins(s, t, b), asked' = asked
    PROVE  IInv'
<1>1. /\ UNCHANGED <<files, highest, up, faults>> /\ owner[b] = Free
      /\ UserOf[s] \in Users
  BY UsersAssumption DEF Begins, IsFree
<1>2. HighestMessageMatchesMaxNumber' /\ NoReceiptOnDeleted'
  BY <1>1, SameFilesKeep DEF IInv
<1>3. CASE \E writes \in WritesOf(t, UserOf[s]) :
             /\ task' = [task EXCEPT ![s] = [t EXCEPT !.stage = "Writing", !.writes = writes]]
             /\ owner' = [owner EXCEPT ![b] = HeldBy(s)]
  <2>1. PICK writes \in WritesOf(t, UserOf[s]) :
          /\ task' = [task EXCEPT ![s] = Begun(t, writes)]
          /\ owner' = [owner EXCEPT ![b] = HeldBy(s)]
    BY <1>3 DEF Begun
  <2> DEFINE w == Begun(t, writes)
  <2>2. writes \in Seq(Steps) /\ Owes(w, UserOf[s], files, highest)
    BY <1>1, RuleIsOwed DEF IInv
  <2>3. /\ w \in Session /\ w.stage = "Writing" /\ w.op = t.op
        /\ w.base = t.base /\ w.target = t.target
    BY <2>2, BegunIsWriting
  <2> HIDE DEF w
  <2>4. task'[s] = w /\ \A r \in Sessions \ {s} : task'[r] = task[r]
    BY <2>1 DEF w, IInv, TypeOK
  <2>5. owner'[b] = HeldBy(s) /\ \A c \in Bases \ {b} : owner'[c] = owner[c]
    BY <2>1 DEF IInv, TypeOK
  <2>6. TypeOK'
    BY <1>1, <2>1, <2>3 DEF w, IInv, TypeOK
  <2>7. LocksSound(s)' /\ WritesSound(s)'
    <3>1. Held(s)' = Held(s) \cup {b}
      BY <2>5 DEF Held
    <3>2. Wants(w) = Wants(t) /\ WellAimed(w)
      BY <2>3 DEF Wants, WellAimed
    <3> QED
      BY <1>1, <2>2, <2>3, <2>4, <3>1, <3>2 DEF LocksSound, WritesSound, At
  <2>8. ASSUME NEW r \in Sessions, r # s PROVE LocksSound(r)' /\ WritesSound(r)'
    <3>1. \A c \in Bases : owner'[c] = HeldBy(r) <=> owner[c] = HeldBy(r)
      BY <1>1, <2>5, <2>8, Holders
    <3> QED
      BY <1>1, <2>4, <2>8, <3>1, OthersKeep DEF IInv
  <2> QED
    BY <1>2, <2>6, <2>7, <2>8 DEF IInv
<1>4. CASE Ends(s, t, FALSE)
  <2>1. After(t, FALSE) \in Session /\ IsIdle(After(t, FALSE))
    BY AfterIsIdle
  <2>2. /\ task' \in [Sessions -> Session]
        /\ owner' \in [Bases -> {Free} \cup {HeldBy(r) : r \in Sessions}]
        /\ \A r \in Sessions : LocksSound(r)' /\ WritesSound(r)'
    BY <1>1, <1>4, <2>1, LettingGoKeeps DEF Ends, IInv
  <2> QED
    BY <1>1, <1>2, <2>2 DEF IInv, TypeOK
<1> QED
  BY <1>3, <1>4 DEF Begins

\* A session that goes on without a lock, to a prompt or to wait for two.
LEMMA GoesOnKeeps ==
    ASSUME IInv, NEW s \in Sessions, NEW t \in Session, GoesOn(s, t), asked' = asked,
           ~ At(s, "Writing"), ~ At(s, "Waiting"),
           IsIdle(t) \/ (t.stage = "Waiting" /\ t.op = "move" /\ WellAimed(t))
    PROVE  IInv'
<1>1. UNCHANGED <<files, highest, owner, up, faults>> /\ task' = [task EXCEPT ![s] = t]
  BY DEF GoesOn
<1>2. HighestMessageMatchesMaxNumber' /\ NoReceiptOnDeleted'
  BY <1>1, SameFilesKeep DEF IInv
<1>3. TypeOK'
  BY <1>1 DEF IInv, TypeOK
<1>4. task'[s] = t /\ \A r \in Sessions \ {s} : task'[r] = task[r]
  BY <1>1 DEF IInv, TypeOK
<1>5. LocksSound(s)' /\ WritesSound(s)'
  <2>1. Held(s)' = {}
    BY <1>1 DEF Held, IInv, LocksSound
  <2>2. t.base # NoBase
    BY BasesAssumption DEF Session
  <2> QED
    BY <1>4, <2>1, <2>2 DEF LocksSound, WritesSound, At, IsIdle, Idle, WellAimed
<1>6. ASSUME NEW r \in Sessions, r # s PROVE LocksSound(r)' /\ WritesSound(r)'
  BY <1>1, <1>4, <1>6, OthersKeep DEF IInv
<1> QED
  BY <1>2, <1>3, <1>5, <1>6 DEF IInv

LEMMA TakeFirstLockKeeps ==
    ASSUME IInv, NEW s \in Sessions, TakeFirstLock(s), asked' = asked
    PROVE  IInv'
<1> DEFINE b == FirstLock(task[s])
<1>1. /\ At(s, "Waiting") /\ Held(s) = {} /\ owner[b] = Free
      /\ owner' = [owner EXCEPT ![b] = HeldBy(s)]
      /\ UNCHANGED <<files, highest, task, up, faults>>
  BY DEF TakeFirstLock, IsFree
<1>2. task[s].base \in Bases /\ task[s].target \in Bases
  BY <1>1 DEF IInv, TypeOK, LocksSound, WellAimed, Session
<1>3. b \in {task[s].base, task[s].target}
  <2>1. {task[s].base, task[s].target} \subseteq Nat
    BY <1>2, BasesAssumption
  <2> QED
    BY <2>1, MinOf DEF FirstLock
<1> HIDE DEF b
<1>4. b \in Bases /\ b \in Wants(task[s])
  BY <1>2, <1>3, BasesAssumption DEF Wants
<1>5. owner'[b] = HeldBy(s) /\ \A c \in Bases \ {b} : owner'[c] = owner[c]
  BY <1>1, <1>4 DEF IInv, TypeOK
<1>6. TypeOK'
  BY <1>1, <1>4 DEF IInv, TypeOK
<1>7. HighestMessageMatchesMaxNumber' /\ NoReceiptOnDeleted'
  BY <1>1, SameFilesKeep DEF IInv
<1>8. LocksSound(s)' /\ WritesSound(s)'
  <2>1. Held(s)' = {b}
    BY <1>1, <1>4, <1>5 DEF Held
  <2> QED
    BY <1>1, <1>4, <2>1 DEF IInv, LocksSound, WritesSound, At
<1>9. ASSUME NEW r \in Sessions, r # s PROVE LocksSound(r)' /\ WritesSound(r)'
  <2>1. \A c \in Bases : owner'[c] = HeldBy(r) <=> owner[c] = HeldBy(r)
    BY <1>1, <1>5, <1>9, Holders
  <2> QED
    BY <1>1, <1>9, <2>1, OthersKeep DEF IInv
<1> QED
  BY <1>6, <1>7, <1>8, <1>9 DEF IInv

----------------------------------------------------------------------------
(* Steps that write.                                                       *)

\* What may become of a message that is there.
Changed(old, new) ==
    \/ new = old
    \/ ~ IsDeleted(old) /\ ~ old.received /\ new = [old EXCEPT !.received = TRUE]
    \/ \E to \in Users : new = [old EXCEPT !.addressee = to]
    \/ ~ IsDeleted(old) /\ new = SoftDeleted(old)

LEMMA ReceiptChanges ==
    ASSUME NEW mail \in Mail, NEW u
    PROVE  Changed(mail, RecordReadBy(u, mail))
<1> DEFINE read == mail.addressee = u /\ ~ IsDeleted(mail)
<1>1. RecordReadBy(u, mail) = IF ~ mail.received /\ read THEN [mail EXCEPT !.received = TRUE] ELSE mail
  BY DEF RecordReadBy, Mail
<1> QED
  BY <1>1 DEF Changed

LEMMA CopyRestored ==
    ASSUME NEW mail \in Mail, IsDeleted(mail) => ~ mail.received
    PROVE  /\ Copy(mail) \in Mail /\ IsMail(Copy(mail)) /\ ~ Copy(mail).received
           /\ IsDeleted(Copy(mail)) = IsDeleted(mail)
           /\ Changed(Copy(mail), mail)
<1>1. /\ Copy(mail) \in Mail /\ IsMail(Copy(mail)) /\ ~ Copy(mail).received
      /\ IsDeleted(Copy(mail)) = IsDeleted(mail)
  BY DEF Copy, Mail, IsMail, IsDeleted
<1>2. CASE mail.received
  <2>1. mail = [Copy(mail) EXCEPT !.received = TRUE]
    BY <1>2 DEF Copy, Mail
  <2> QED
    BY <1>1, <1>2, <2>1 DEF Changed
<1>3. CASE ~ mail.received
  <2>1. mail = Copy(mail)
    BY <1>3 DEF Copy, Mail
  <2> QED
    BY <1>1, <2>1 DEF Changed
<1> QED
  BY <1>1, <1>2, <1>3

LEMMA DeletedHasNoReceipt ==
    ASSUME NEW mail \in Mail
    PROVE  /\ SoftDeleted(mail) \in Mail /\ ~ SoftDeleted(mail).received
           /\ IsDeleted(SoftDeleted(mail))
BY DEF SoftDeleted, Mail, IsDeleted

LEMMA ChangedKeepsReceipts ==
    ASSUME NEW old \in Mail, NEW new \in Mail, Changed(old, new), IsDeleted(old) => ~ old.received
    PROVE  IsDeleted(new) => ~ new.received
<1>1. ASSUME NEW to PROVE LET m == [old EXCEPT !.addressee = to] IN
                           m.received = old.received /\ m.visibility = old.visibility
  BY DEF Mail
<1>2. [old EXCEPT !.received = TRUE].visibility = old.visibility
  BY DEF Mail
<1> QED
  BY <1>1, <1>2, DeletedHasNoReceipt DEF Changed, IsDeleted

\* The write a session comes to next is in a base it holds, and is the next
\* message of that base or a change of one that is there.
Due(w) ==
    \/ w.number = highest[w.base] + 1 /\ ~ w.mail.received
    \/ /\ w.number <= highest[w.base] /\ IsMail(files[w.base][w.number])
       /\ Changed(files[w.base][w.number], w.mail)
       /\ IsDeleted(w.mail) => ~ w.mail.received

LEMMA Readable ==
    ASSUME IInv, NEW b \in Bases, NEW n \in Numbers, IsMail(files[b][n])
    PROVE  /\ files[b][n] \in Mail /\ n <= highest[b]
           /\ IsDeleted(files[b][n]) => ~ files[b][n].received
<1>1. files[b][n] \in Mail
  BY ReadableIsMail DEF IInv, TypeOK
<1>2. highest[b] \in Int /\ n \in Int
  BY DEF IInv, TypeOK, Numbers
<1> QED
  BY <1>1, <1>2 DEF IInv, HighestMessageMatchesMaxNumber, NoReceiptOnDeleted

LEMMA HeadIsDue ==
    ASSUME IInv, NEW s \in Sessions, Writes(s), NEW w, w = Head(task[s].writes)
    PROVE  /\ w \in [base : Bases, number : Numbers, mail : Mail]
           /\ w.base \in Held(s)
           /\ Due(w)
<1> DEFINE t == task[s]
           u == UserOf[s]
           old == files[t.base][t.loaded]
<1>1. t \in Session /\ t.stage = "Writing" /\ Owes(t, u, files, highest) /\ Held(s) = Wants(t)
      /\ w = Head(t.writes) /\ w # Panic
  BY DEF IInv, TypeOK, Writes, At, WritesSound, LocksSound
<1> HIDE DEF t, u
<1>2. t.base \in Bases /\ t.base \in Held(s) /\ (t.target \in Bases => t.target \in Held(s))
  BY <1>1, BasesAssumption DEF Wants, Session
<1>3. CASE Number(t) \in Numbers /\ OwesChange(t, u, files[t.base][Number(t)])
  <2> DEFINE file == files[t.base][Number(t)]
  <2>1. PICK new \in Mail :
          /\ IsMail(file) /\ t.writes = <<Write(t.base, Number(t), new)>>
          /\ \/ t.op \in Reads /\ new = RecordReadBy(u, file)
             \/ t.op = "kill" /\ ~ IsDeleted(file) /\ CanDelete(u, file) /\ new = SoftDeleted(file)
             \/ t.op = "edit" /\ \E to \in Users : new \in {file, [file EXCEPT !.addressee = to]}
    BY <1>3 DEF OwesChange
  <2>2. file \in Mail /\ Number(t) <= highest[t.base] /\ (IsDeleted(file) => ~ file.received)
    BY <1>2, <1>3, <2>1, Readable
  <2>3. w = Write(t.base, Number(t), new)
    BY <1>1, <2>1
  <2>4. w.base = t.base /\ w.number = Number(t) /\ w.mail = new
        /\ w \in [base : Bases, number : Numbers, mail : Mail]
    BY <1>2, <1>3, <2>3 DEF Write
  <2> HIDE DEF file
  <2>5. Changed(file, new)
    BY <2>1, <2>2, ReceiptChanges DEF Changed
  <2>6. IsDeleted(new) => ~ new.received
    BY <2>2, <2>5, ChangedKeepsReceipts
  <2> QED
    BY <1>2, <2>1, <2>2, <2>4, <2>5, <2>6 DEF Due, file
<1>4. CASE highest[t.base] + 1 \in Numbers /\ OwesPost(t, highest[t.base])
  <2>1. PICK new \in Mail :
          t.writes = <<Write(t.base, highest[t.base] + 1, new)>> /\ ~ new.received
    BY <1>4 DEF OwesPost
  <2>2. w = Write(t.base, highest[t.base] + 1, new)
    BY <1>1, <2>1
  <2>3. w.base = t.base /\ w.number = highest[t.base] + 1 /\ w.mail = new
        /\ w \in [base : Bases, number : Numbers, mail : Mail]
    BY <1>2, <1>4, <2>2 DEF Write
  <2> QED
    BY <1>2, <2>1, <2>3 DEF Due
<1>5. CASE /\ t.target \in Bases /\ t.loaded \in Numbers
           /\ highest[t.target] + 1 \in Numbers \/ Len(t.writes) < 3
           /\ OwesMove(t, old, files[t.target], highest[t.target])
  <2>1. old \in Mail /\ IsMail(old) /\ t.loaded <= highest[t.base]
        /\ (IsDeleted(old) => ~ old.received)
    BY <1>2, <1>5, Readable DEF OwesMove
  <2>2. /\ Copy(old) \in Mail /\ IsMail(Copy(old)) /\ ~ Copy(old).received
        /\ Changed(Copy(old), old)
    BY <2>1, CopyRestored
  <2> HIDE DEF old
  <2>3. CASE t.writes = <<Write(t.target, highest[t.target] + 1, Copy(old)),
                          Write(t.target, highest[t.target] + 1, old), LastOfMove(t, old)>>
    <3>1. w = Write(t.target, highest[t.target] + 1, Copy(old)) /\ Len(t.writes) = 3
      BY <1>1, <2>3
    <3>2. w.base = t.target /\ w.number = highest[t.target] + 1 /\ w.mail = Copy(old)
          /\ w \in [base : Bases, number : Numbers, mail : Mail]
      BY <1>5, <2>2, <3>1 DEF Write
    <3> QED
      BY <1>2, <1>5, <2>2, <3>2 DEF Due
  <2>4. CASE \E n \in Numbers : /\ n <= highest[t.target] /\ files[t.target][n] = Copy(old)
                               /\ t.writes = <<Write(t.target, n, old), LastOfMove(t, old)>>
    <3>1. PICK n \in Numbers : /\ n <= highest[t.target] /\ files[t.target][n] = Copy(old)
                               /\ t.writes = <<Write(t.target, n, old), LastOfMove(t, old)>>
      BY <2>4
    <3>2. w = Write(t.target, n, old)
      BY <1>1, <3>1
    <3>3. w.base = t.target /\ w.number = n /\ w.mail = old
          /\ w \in [base : Bases, number : Numbers, mail : Mail]
      BY <1>5, <2>1, <3>2 DEF Write
    <3> QED
      BY <1>2, <1>5, <2>1, <2>2, <3>1, <3>3 DEF Due
  <2>5. CASE \E n \in Numbers : files[t.target][n] = old /\ t.writes = <<LastOfMove(t, old)>>
    <3>1. w = LastOfMove(t, old) /\ w # Panic
      BY <1>1, <2>5
    <3>2. ~ IsDeleted(old) /\ w = Write(t.base, t.loaded, SoftDeleted(old))
      BY <3>1 DEF LastOfMove
    <3>3. SoftDeleted(old) \in Mail /\ ~ SoftDeleted(old).received
      BY <2>1, DeletedHasNoReceipt
    <3>4. w.base = t.base /\ w.number = t.loaded /\ w.mail = SoftDeleted(old)
          /\ w \in [base : Bases, number : Numbers, mail : Mail]
      BY <1>2, <1>5, <3>2, <3>3 DEF Write
    <3> QED
      BY <1>2, <2>1, <3>2, <3>3, <3>4 DEF Due, Changed, old
  <2> QED
    BY <1>5, <2>3, <2>4, <2>5 DEF OwesMove
<1> QED
  BY <1>1, <1>3, <1>4, <1>5 DEF Owes

\* What the next write leaves in the base, done or torn.
LEMMA WrittenFilesKeep ==
    ASSUME IInv, NEW b \in Bases, NEW n \in Numbers, NEW file \in Mail \cup {Torn},
           n <= highest[b] + 1, IsMail(file) /\ IsDeleted(file) => ~ file.received,
           files' = [files EXCEPT ![b][n] = file],
           highest' = IF IsMail(file) THEN [highest EXCEPT ![b] = Max({@, n})] ELSE highest
    PROVE  /\ files' \in [Bases -> [Numbers -> Mail \cup {NoFile, Torn}]]
           /\ highest' \in [Bases -> 0 .. MaxNumber]
           /\ HighestMessageMatchesMaxNumber' /\ NoReceiptOnDeleted'
<1>1. /\ files \in [Bases -> [Numbers -> Mail \cup {NoFile, Torn}]]
      /\ highest \in [Bases -> 0 .. MaxNumber] /\ n \in 1 .. MaxNumber /\ MaxNumber \in Nat
  BY NumbersAssumption DEF IInv, TypeOK, Numbers
<1>2. files' \in [Bases -> [Numbers -> Mail \cup {NoFile, Torn}]]
  BY <1>1
<1>3. Max({highest[b], n}) = IF highest[b] >= n THEN highest[b] ELSE n
  BY <1>1, MaxOfTwo
<1>4. highest' \in [Bases -> 0 .. MaxNumber]
  BY <1>1, <1>3
<1>5. /\ files'[b][n] = file /\ file # NoFile
      /\ \A k \in Numbers \ {n} : files'[b][k] = files[b][k]
      /\ \A c \in Bases \ {b} : files'[c] = files[c] /\ highest'[c] = highest[c]
  BY <1>1 DEF NoFile, Torn, Mail
<1>6. highest'[b] = IF IsMail(file) /\ n > highest[b] THEN n ELSE highest[b]
  BY <1>1, <1>3
<1>7. HighestMessageMatchesMaxNumber'
  <2> SUFFICES ASSUME NEW c \in Bases, NEW k \in Numbers
               PROVE  /\ k <= highest'[c] => files'[c][k] # NoFile
                      /\ k > highest'[c] => ~ IsMail(files'[c][k])
                      /\ k > highest'[c] + 1 => files'[c][k] = NoFile
    BY DEF HighestMessageMatchesMaxNumber
  <2>1. /\ k <= highest[c] => files[c][k] # NoFile
        /\ k > highest[c] => ~ IsMail(files[c][k])
        /\ k > highest[c] + 1 => files[c][k] = NoFile
        /\ k \in Nat /\ highest[c] \in Nat
    BY <1>1 DEF IInv, HighestMessageMatchesMaxNumber, Numbers
  <2>2. CASE c # b
    BY <1>5, <2>1, <2>2
  <2>3. CASE c = b /\ k = n
    BY <1>1, <1>5, <1>6, <2>1, <2>3
  <2>4. CASE c = b /\ k # n
    BY <1>1, <1>5, <1>6, <2>1, <2>4
  <2> QED
    BY <2>2, <2>3, <2>4
<1>8. NoReceiptOnDeleted'
  BY <1>5 DEF IInv, NoReceiptOnDeleted
<1> QED
  BY <1>2, <1>4, <1>7, <1>8

LEMMA WriteFileKeeps ==
    ASSUME IInv, NEW s \in Sessions, WriteFile(s), asked' = asked
    PROVE  IInv'
<1> DEFINE t == task[s]
           w == Head(t.writes)
           b == w.base
           n == w.number
<1>1. /\ Writes(s) /\ UNCHANGED <<up, faults>>
      /\ files' = [files EXCEPT ![b][n] = w.mail]
      /\ highest' = [highest EXCEPT ![b] = Max({@, n})]
  BY DEF WriteFile
<1>2. w \in [base : Bases, number : Numbers, mail : Mail] /\ b \in Held(s) /\ Due(w)
  BY <1>1, HeadIsDue
<1>3. b \in Bases /\ n \in Numbers /\ w.mail \in Mail /\ IsMail(w.mail)
      /\ n <= highest[b] + 1 /\ (IsDeleted(w.mail) => ~ w.mail.received)
  BY <1>2 DEF Due, Mail, IsMail, IInv, TypeOK, Numbers
<1>4. /\ files' \in [Bases -> [Numbers -> Mail \cup {NoFile, Torn}]]
      /\ highest' \in [Bases -> 0 .. MaxNumber]
      /\ HighestMessageMatchesMaxNumber' /\ NoReceiptOnDeleted'
  BY <1>1, <1>3, WrittenFilesKeep
<1>5. /\ t \in Session /\ t.stage = "Writing" /\ Owes(t, UserOf[s], files, highest)
      /\ Held(s) = Wants(t) /\ w # Panic /\ WellAimed(t)
  BY <1>1 DEF IInv, TypeOK, Writes, At, WritesSound, LocksSound
<1>6. \A c \in Bases \ Held(s) : files'[c] = files[c] /\ highest'[c] = highest[c]
  BY <1>1, <1>2 DEF IInv, TypeOK
<1>7. t.op \in Ops
  BY <1>5 DEF Owes, OwesChange, OwesPost, OwesMove, Ops, Posts
<1>8. CASE Len(t.writes) = 1
  <2>1. Ends(s, t, TRUE)
    BY <1>8 DEF WriteFile
  <2>2. After(t, TRUE) \in Session /\ IsIdle(After(t, TRUE))
    BY <1>5, <1>7, AfterIsIdle
  <2>3. /\ task' \in [Sessions -> Session]
        /\ owner' \in [Bases -> {Free} \cup {HeldBy(r) : r \in Sessions}]
        /\ \A r \in Sessions : LocksSound(r)' /\ WritesSound(r)'
    BY <1>6, <2>1, <2>2, LettingGoKeeps DEF Ends, IInv
  <2> QED
    BY <1>1, <1>4, <2>3 DEF IInv, TypeOK
<1>9. CASE Len(t.writes) # 1
  <2>1. task' = [task EXCEPT ![s].writes = Tail(@)] /\ owner' = owner
    BY <1>9 DEF WriteFile
  <2> DEFINE v == [t EXCEPT !.writes = Tail(@)]
             old == files[t.base][t.loaded]
  <2>2. /\ t.target \in Bases /\ t.loaded \in Numbers /\ t.base \in Bases /\ t.base # t.target
        /\ highest[t.target] + 1 \in Numbers \/ Len(t.writes) < 3
        /\ OwesMove(t, old, files[t.target], highest[t.target])
    <3> HIDE DEF t
    <3>1. ~ OwesChange(t, UserOf[s], files[t.base][Number(t)]) /\ ~ OwesPost(t, highest[t.base])
      <4>1. \A x : t.writes # <<x>>
        BY <1>9
      <4> QED
        BY <4>1, Zenon DEF OwesChange, OwesPost
    <3>2. t.base \in Bases /\ t.base # t.target
      BY <1>5 DEF WellAimed, Session
    <3> QED
      BY <1>5, <3>1, <3>2 DEF Owes, old
  <2>3. /\ old \in Mail /\ IsMail(old) /\ (IsDeleted(old) => ~ old.received)
        /\ LastOfMove(t, old) \in Steps
    <3>1. old \in Mail /\ IsMail(old) /\ (IsDeleted(old) => ~ old.received)
      BY <2>2, Readable DEF OwesMove
    <3> QED
      BY <2>2, <3>1, DeletedHasNoReceipt, WriteIsStep DEF LastOfMove, Steps
  <2>4. t.writes # <<>> /\ Tail(t.writes) \in Seq(Steps)
    BY <1>5, <2>2 DEF OwesMove, Session
  <2>5. /\ v \in Session /\ v.writes = Tail(t.writes) /\ v.stage = "Writing"
        /\ v.base = t.base /\ v.target = t.target /\ v.op = t.op /\ v.loaded = t.loaded
    BY <1>5, <2>4 DEF Session
  <2>6. task'[s] = v /\ task' \in [Sessions -> Session]
        /\ \A r \in Sessions \ {s} : task'[r] = task[r]
    BY <2>1, <2>5 DEF IInv, TypeOK
  <2>7. LastOfMove(v, old) = LastOfMove(t, old)
    BY <2>5 DEF LastOfMove
  <2> HIDE DEF v, old
  <2>8. Owes(v, UserOf[s], files', highest')
    <3>1. CASE t.writes = <<Write(t.target, highest[t.target] + 1, Copy(old)),
                            Write(t.target, highest[t.target] + 1, old), LastOfMove(t, old)>>
      <4> DEFINE m == highest[t.target] + 1
      <4>1. w = Write(t.target, m, Copy(old)) /\ Len(t.writes) = 3
            /\ Tail(t.writes) = <<Write(t.target, m, old), LastOfMove(t, old)>>
        BY <3>1
      <4>2. b = t.target /\ n = m /\ w.mail = Copy(old) /\ m \in Numbers
        BY <2>2, <4>1 DEF Write
      <4>3. /\ files'[t.target][m] = Copy(old) /\ files'[t.base] = files[t.base]
            /\ highest'[t.target] = m
        <5>1. Max({highest[t.target], m}) = m
          <6>1. highest[t.target] \in Nat /\ m \in Nat /\ m > highest[t.target]
            BY <2>2 DEF IInv, TypeOK
          <6> QED
            BY <6>1, MaxOfTwo
        <5> QED
          BY <1>1, <2>2, <4>2, <5>1 DEF IInv, TypeOK
      <4> HIDE DEF m
      <4>4. OwesMove(v, old, files'[t.target], highest'[t.target])
        BY <2>2, <2>3, <2>5, <2>7, <4>1, <4>2, <4>3 DEF OwesMove, Numbers
      <4>5. Len(v.writes) < 3
        BY <2>5, <4>1
      <4> QED
        BY <2>2, <2>5, <4>3, <4>4, <4>5 DEF Owes, old
    <3>2. CASE \E k \in Numbers : /\ k <= highest[t.target] /\ files[t.target][k] = Copy(old)
                                 /\ t.writes = <<Write(t.target, k, old), LastOfMove(t, old)>>
      <4>1. PICK k \in Numbers : /\ k <= highest[t.target] /\ files[t.target][k] = Copy(old)
                                 /\ t.writes = <<Write(t.target, k, old), LastOfMove(t, old)>>
        BY <3>2
      <4>2. w = Write(t.target, k, old) /\ Tail(t.writes) = <<LastOfMove(t, old)>>
        BY <4>1
      <4>3. b = t.target /\ n = k /\ w.mail = old
        BY <4>2 DEF Write
      <4>4. files'[t.target][k] = old /\ files'[t.base] = files[t.base]
        BY <1>1, <2>2, <4>1, <4>3 DEF IInv, TypeOK
      <4>5. OwesMove(v, old, files'[t.target], highest'[t.target]) /\ Len(v.writes) < 3
        BY <2>2, <2>3, <2>5, <2>7, <4>1, <4>2, <4>4 DEF OwesMove
      <4> QED
        BY <2>2, <2>5, <4>4, <4>5 DEF Owes, old
    <3>3. ~ \E k \in Numbers : files[t.target][k] = old /\ t.writes = <<LastOfMove(t, old)>>
      BY <1>9
    <3> QED
      BY <2>2, <3>1, <3>2, <3>3 DEF OwesMove
  <2>9. LocksSound(s)' /\ WritesSound(s)'
    <3>1. Held(s)' = Held(s) /\ Wants(v) = Wants(t) /\ WellAimed(v)
      BY <1>5, <2>1, <2>5 DEF Held, Wants, WellAimed
    <3> QED
      BY <1>5, <2>5, <2>6, <2>8, <3>1 DEF LocksSound, WritesSound, At
  <2>10. ASSUME NEW r \in Sessions, r # s PROVE LocksSound(r)' /\ WritesSound(r)'
    <3>1. \A c \in Held(r) : c \in Bases \ Held(s)
      BY <2>10, Holders DEF Held
    <3> QED
      BY <1>6, <2>1, <2>6, <2>10, <3>1, OthersKeep DEF IInv
  <2> QED
    BY <1>1, <1>4, <2>1, <2>6, <2>9, <2>10 DEF IInv, TypeOK
<1> QED
  BY <1>8, <1>9

LEMMA WriteFailsKeeps ==
    ASSUME IInv, NEW s \in Sessions, WriteFails(s), asked' = asked
    PROVE  IInv'
<1> DEFINE t == task[s]
           w == Head(t.writes)
<1>1. /\ Writes(s) /\ UNCHANGED <<highest, up>> /\ faults' = faults + 1
      /\ files' = files \/ files' = [files EXCEPT ![w.base][w.number] = Torn]
      /\ Ends(s, t, FALSE)
  BY DEF WriteFails
<1>2. w \in [base : Bases, number : Numbers, mail : Mail] /\ w.base \in Held(s) /\ Due(w)
  BY <1>1, HeadIsDue
<1>3. w.base \in Bases /\ w.number \in Numbers /\ w.number <= highest[w.base] + 1
  BY <1>2 DEF Due, IInv, TypeOK, Numbers
<1>4. /\ files' \in [Bases -> [Numbers -> Mail \cup {NoFile, Torn}]]
      /\ HighestMessageMatchesMaxNumber' /\ NoReceiptOnDeleted'
  <2>1. CASE files' = files
    BY <1>1, <2>1, SameFilesKeep DEF IInv, TypeOK
  <2>2. CASE files' = [files EXCEPT ![w.base][w.number] = Torn]
    <3>1. ~ IsMail(Torn)
      BY DEF IsMail, Torn
    <3> QED
      BY <1>1, <1>3, <2>2, <3>1, WrittenFilesKeep
  <2> QED
    BY <1>1, <2>1, <2>2
<1>5. t \in Session /\ Owes(t, UserOf[s], files, highest)
  BY <1>1 DEF IInv, TypeOK, Writes, WritesSound
<1>6. t.op \in Ops
  BY <1>5 DEF Owes, OwesChange, OwesPost, OwesMove, Ops, Posts
<1>7. \A c \in Bases \ Held(s) : files'[c] = files[c] /\ highest'[c] = highest[c]
  BY <1>1, <1>2 DEF IInv, TypeOK
<1>8. After(t, FALSE) \in Session /\ IsIdle(After(t, FALSE))
  BY <1>5, <1>6, AfterIsIdle
<1>9. /\ task' \in [Sessions -> Session]
      /\ owner' \in [Bases -> {Free} \cup {HeldBy(r) : r \in Sessions}]
      /\ \A r \in Sessions : LocksSound(r)' /\ WritesSound(r)'
  BY <1>1, <1>7, <1>8, LettingGoKeeps DEF Ends, IInv
<1> QED
  BY <1>1, <1>4, <1>9 DEF IInv, TypeOK

LEMMA PanicsKeeps ==
    ASSUME IInv, NEW s \in Sessions, Panics(s), asked' = asked
    PROVE  IInv'
<1> DEFINE dead == [AtMenu(task[s].base) EXCEPT !.stage = "Dead"]
<1>1. /\ UNCHANGED <<files, highest, up, faults>> /\ owner' = Released(s)
      /\ task' = [task EXCEPT ![s] = dead]
  BY DEF Panics, IInv, TypeOK
<1>2. dead \in Session /\ IsIdle(dead)
  <2>1. AtMenu(task[s].base) \in Session /\ IsIdle(AtMenu(task[s].base))
    BY MenuIsIdle DEF IInv, TypeOK, Session
  <2> QED
    BY <2>1 DEF Session, IsIdle, Idle, Stages
<1>3. HighestMessageMatchesMaxNumber' /\ NoReceiptOnDeleted'
  BY <1>1, SameFilesKeep DEF IInv
<1> HIDE DEF dead
<1>4. /\ task' \in [Sessions -> Session]
      /\ owner' \in [Bases -> {Free} \cup {HeldBy(r) : r \in Sessions}]
      /\ \A r \in Sessions : LocksSound(r)' /\ WritesSound(r)'
  BY <1>1, <1>2, LettingGoKeeps DEF IInv
<1> QED
  BY <1>1, <1>3, <1>4 DEF IInv, TypeOK

\* The files a crash may have cut.
Cut(b, n) == \E s \in Sessions : /\ Writes(s)
                                /\ Head(task[s].writes).base = b /\ Head(task[s].writes).number = n

LEMMA CrashTears ==
    ASSUME IInv, Crash
    PROVE  /\ files' \in [Bases -> [Numbers -> Mail \cup {NoFile, Torn}]]
           /\ \A b \in Bases, n \in Numbers :
                \/ files'[b][n] = files[b][n]
                \/ files'[b][n] = Torn /\ Cut(b, n)
           /\ up' \in BOOLEAN
           /\ up' => files' = files
           /\ highest' = highest
<1>1. PICK cut \in SUBSET {s \in Sessions : Writes(s)} :
        files' = [b \in Bases |-> [n \in Numbers |->
                    IF \E write \in {Head(task[s].writes) : s \in cut} :
                         write.base = b /\ write.number = n
                      THEN Torn ELSE files[b][n]]]
  BY DEF Crash
<1>2. /\ up' = \A b \in Bases, n \in Numbers : files'[b][n] # Torn
      /\ highest' = IF up' THEN [b \in Bases |-> ScannedHighest(files'[b])] ELSE highest
  BY DEF Crash
<1>3. \A b \in Bases, n \in Numbers : \/ files'[b][n] = files[b][n]
                                      \/ files'[b][n] = Torn /\ Cut(b, n)
  BY <1>1 DEF Cut
<1>4. files' \in [Bases -> [Numbers -> Mail \cup {NoFile, Torn}]]
  <2>1. \A b \in Bases, n \in Numbers : files[b][n] \in Mail \cup {NoFile, Torn}
    BY DEF IInv, TypeOK
  <2> QED
    BY <1>1, <2>1
<1>5. up' => files' = files
  <2> SUFFICES ASSUME up' PROVE files' = files
    OBVIOUS
  <2>1. \A b \in Bases, n \in Numbers : files'[b][n] = files[b][n]
    BY <1>2, <1>3
  <2>2. files \in [Bases -> [Numbers -> Mail \cup {NoFile, Torn}]]
    BY DEF IInv, TypeOK
  <2>3. \A b \in Bases : files'[b] = files[b]
    BY <1>4, <2>1, <2>2
  <2> QED
    BY <1>4, <2>2, <2>3
<1>6. highest' = highest
  <2> SUFFICES ASSUME up' PROVE highest' = highest
    BY <1>2
  <2>1. ASSUME NEW b \in Bases PROVE ScannedHighest(files[b]) = highest[b]
    <3> DEFINE top == ScannedHighest(files[b])
    <3>1. /\ top \in 0 .. MaxNumber /\ (top # 0 => IsMail(files[b][top]))
          /\ \A n \in Numbers : IsMail(files[b][n]) => n <= top
      BY ScannedHighestIsTop
    <3> HIDE DEF top
    <3>2. highest[b] \in 0 .. MaxNumber /\ MaxNumber \in Nat
      BY NumbersAssumption DEF IInv, TypeOK
    <3>3. top # 0 => top <= highest[b]
      BY <3>1, <3>2, Readable DEF Numbers
    <3>4. highest[b] # 0 => IsMail(files[b][highest[b]])
      <4> SUFFICES ASSUME highest[b] # 0 PROVE IsMail(files[b][highest[b]])
        OBVIOUS
      <4>1. highest[b] \in Numbers /\ highest[b] <= highest[b]
        BY <3>2 DEF Numbers
      <4>2. files[b][highest[b]] # NoFile
        BY <4>1 DEF IInv, HighestMessageMatchesMaxNumber
      <4>3. files[b][highest[b]] # Torn
        BY <1>2, <1>5, <4>1
      <4>4. files[b][highest[b]] \in Mail \cup {NoFile, Torn}
        BY <4>1 DEF IInv, TypeOK
      <4> QED
        BY <4>2, <4>3, <4>4 DEF Mail, IsMail
    <3>5. highest[b] # 0 => highest[b] <= top
      BY <3>1, <3>2, <3>4 DEF Numbers
    <3>6. top = highest[b]
      BY <3>1, <3>2, <3>3, <3>5
    <3> QED
      BY <3>6 DEF top
  <2>2. highest \in [Bases -> 0 .. MaxNumber]
    BY DEF IInv, TypeOK
  <2> QED
    BY <1>2, <1>5, <2>1, <2>2
<1> QED
  BY <1>2, <1>3, <1>4, <1>5, <1>6

LEMMA CutIsNear ==
    ASSUME IInv, NEW b \in Bases, NEW n \in Numbers, Cut(b, n)
    PROVE  n <= highest[b] + 1 /\ (n <= highest[b] => IsMail(files[b][n]))
<1>1. PICK s \in Sessions : Writes(s) /\ Head(task[s].writes).base = b
                           /\ Head(task[s].writes).number = n
  BY DEF Cut
<1>2. Due(Head(task[s].writes))
  BY <1>1, HeadIsDue
<1>3. highest[b] \in Int /\ n \in Int
  BY DEF IInv, TypeOK, Numbers
<1> QED
  BY <1>1, <1>2, <1>3 DEF Due

LEMMA CrashKeeps ==
    ASSUME IInv, Crash, asked' = asked
    PROVE  IInv'
<1>1. /\ faults' = faults + 1
      /\ owner' = [b \in Bases |-> Free]
      /\ task' = [s \in Sessions |-> AtMenu(task[s].base)]
  BY DEF Crash
<1>2. \A s \in Sessions : AtMenu(task[s].base) \in Session /\ IsIdle(AtMenu(task[s].base))
                          /\ task[s].base \in Bases
  BY MenuIsIdle DEF IInv, TypeOK, Session
<1>3. TypeOK'
  BY <1>1, <1>2, CrashTears DEF IInv, TypeOK
<1>4. ASSUME NEW s \in Sessions PROVE LocksSound(s)' /\ WritesSound(s)'
  <2>1. Held(s)' = {}
    BY <1>1, Holders DEF Held
  <2>2. task'[s] = AtMenu(task[s].base) /\ IsIdle(task'[s]) /\ task'[s].base # NoBase
    BY <1>1, <1>2, BasesAssumption, MenuIsIdle
  <2> QED
    BY <2>1, <2>2 DEF LocksSound, WritesSound, At, IsIdle, Idle, WellAimed
<1>5. ~ IsMail(Torn) /\ NoFile # Torn
  BY DEF IsMail, Torn, NoFile
<1>6. HighestMessageMatchesMaxNumber'
  <2> SUFFICES ASSUME NEW b \in Bases, NEW n \in Numbers
               PROVE  /\ n <= highest[b] => files'[b][n] # NoFile
                      /\ n > highest[b] => ~ IsMail(files'[b][n])
                      /\ n > highest[b] + 1 => files'[b][n] = NoFile
    BY CrashTears DEF HighestMessageMatchesMaxNumber
  <2>1. highest[b] \in Int /\ n \in Int
    BY DEF IInv, TypeOK, Numbers
  <2>2. CASE files'[b][n] = files[b][n]
    BY <2>2 DEF IInv, HighestMessageMatchesMaxNumber
  <2>3. CASE files'[b][n] = Torn /\ Cut(b, n)
    BY <1>5, <2>1, <2>3, CutIsNear
  <2> QED
    BY <2>2, <2>3, CrashTears
<1>7. NoReceiptOnDeleted'
  BY <1>5, CrashTears DEF IInv, NoReceiptOnDeleted
<1> QED
  BY <1>3, <1>4, <1>6, <1>7 DEF IInv

----------------------------------------------------------------------------
(* Every step, and the theorems.                                           *)

\* The operations begun at a prompt need the lock of one base.
LEMMA AskedKeeps ==
    ASSUME IInv, NEW s \in Sessions, NEW t \in Session, asked' = asked,
           ~ At(s, "Writing"), ~ At(s, "Waiting"), Begins(s, t, task[s].base),
           t.base = task[s].base, t.target = task[s].target, t.op \in Ops \ {"move"}
    PROVE  IInv'
<1>1. Held(s) = {} /\ t.target = NoBase /\ t.base \in Bases /\ t.base # NoBase
  BY BasesAssumption DEF IInv, LocksSound, IsIdle, Session
<1> QED
  BY <1>1, BeginsKeeps DEF WellAimed, Wants

LEMMA AnswersKeep ==
    ASSUME IInv, NEW s \in Sessions, Answers(s), asked' = asked
    PROVE  IInv'
<1>1. task[s] \in Session /\ asked.bases \subseteq Bases
  BY WorkloadsAssumption DEF IInv, TypeOK
<1>2. ~ At(s, "Writing") /\ ~ At(s, "Waiting") => IsIdle(task[s])
  BY DEF IInv, LocksSound
<1>3. CASE \E b \in asked.bases : Join(s, b)
  <2>1. PICK b \in asked.bases : Join(s, b)
    BY <1>3
  <2>2. AtMenu(b) \in Session /\ IsIdle(AtMenu(b))
    BY <1>1, MenuIsIdle
  <2> QED
    BY <2>1, <2>2, GoesOnKeeps DEF Join, At
<1>4. CASE \E b \in asked.bases : AskToMove(s, b)
  <2>1. PICK b \in asked.bases : AskToMove(s, b)
    BY <1>4
  <2> DEFINE t == [task[s] EXCEPT !.stage = "Waiting", !.op = "move", !.target = b]
  <2>2. At(s, "Prompt") /\ b # task[s].base /\ b \in Bases /\ GoesOn(s, t)
    BY <1>1, <2>1 DEF AskToMove
  <2>3. t \in Session /\ t.stage = "Waiting" /\ t.op = "move" /\ WellAimed(t)
    BY <1>1, <2>2, BasesAssumption DEF Session, Stages, Ops, WellAimed
  <2> QED
    BY <2>2, <2>3, GoesOnKeeps DEF At
<1>5. CASE \E n \in Numbers : BeginRead(s, n)
  <2>1. PICK n \in Numbers : BeginRead(s, n)
    BY <1>5
  <2> DEFINE t == [task[s] EXCEPT !.op = "read", !.next = n]
  <2>2. At(s, "Menu") /\ Begins(s, t, task[s].base)
    BY <2>1 DEF BeginRead
  <2>3. t \in Session /\ t.base = task[s].base /\ t.target = task[s].target
        /\ t.op \in Ops \ {"move"}
    <3>1. n \in Int /\ "read" \in Ops \ {"move"}
      BY DEF Numbers, Ops, Reads
    <3> QED
      BY <1>1, <3>1 DEF Session
  <2> QED
    BY <2>2, <2>3, AskedKeeps DEF At
<1>6. CASE BeginPost(s)
  <2> DEFINE t == [task[s] EXCEPT !.op = "post"]
  <2>1. At(s, "Menu") /\ Begins(s, t, task[s].base)
    BY <1>6 DEF BeginPost
  <2>2. t \in Session /\ t.base = task[s].base /\ t.target = task[s].target
        /\ t.op \in Ops \ {"move"}
    BY <1>1 DEF Session, Ops, Posts
  <2> QED
    BY <2>1, <2>2, AskedKeeps DEF At
<1>7. CASE OpenAtPointer(s)
  <2>1. PICK n \in Lowest(task[s].base) .. highest[task[s].base] + 1 :
          GoesOn(s, [task[s] EXCEPT !.stage = "Prompt", !.next = n])
    BY <1>7 DEF OpenAtPointer
  <2> DEFINE t == [task[s] EXCEPT !.stage = "Prompt", !.next = n]
  <2>2. At(s, "Menu") /\ n \in Int
    BY <1>7, <2>1 DEF OpenAtPointer
  <2>3. IsIdle(task[s])
    BY <1>2, <2>2 DEF At
  <2>4. t \in Session /\ IsIdle(t)
    BY <1>1, <2>2, <2>3 DEF Session, Stages, IsIdle, Idle
  <2> QED
    BY <2>1, <2>2, <2>4, GoesOnKeeps DEF At
<1>8. CASE \E op \in asked.operations : BeginOption(s, op)
  <2>1. PICK op \in asked.operations : BeginOption(s, op)
    BY <1>8
  <2> DEFINE t == [task[s] EXCEPT !.op = op]
  <2>2. /\ At(s, "Prompt") /\ Begins(s, t, task[s].base)
        /\ op \in {"again", "reply", "forward", "kill", "edit"}
    BY <2>1 DEF BeginOption
  <2>3. t \in Session /\ t.base = task[s].base /\ t.target = task[s].target
        /\ t.op \in Ops \ {"move"}
    <3>1. op \in Ops \ {"move"}
      BY <2>2 DEF Ops, Posts, Reads
    <3> QED
      BY <1>1, <3>1 DEF Session
  <2> QED
    BY <2>2, <2>3, AskedKeeps DEF At
<1>9. CASE Leave(s)
  <2>1. AtMenu(task[s].base) \in Session /\ IsIdle(AtMenu(task[s].base))
    BY <1>1, MenuIsIdle DEF Session
  <2> QED
    BY <1>9, <2>1, GoesOnKeeps DEF Leave, At
<1> QED
  BY <1>3, <1>4, <1>5, <1>6, <1>7, <1>8, <1>9 DEF Answers

LEMMA LocksKeep ==
    ASSUME IInv, NEW s \in Sessions, Locks(s), asked' = asked
    PROVE  IInv'
<1>1. task[s] \in Session /\ task[s].base \in Bases
  BY DEF IInv, TypeOK, Session
<1>2. CASE Advance(s)
  <2> DEFINE t == [task[s] EXCEPT !.stage = "Showing", !.op = "advance"]
  <2>1. /\ task[s].stage \in {"Prompt", "Advancing"}
        /\ GoesOn(s, t) \/ GoesOn(s, AtMenu(task[s].base))
    BY <1>2 DEF Advance
  <2>2. IsIdle(task[s])
    BY <2>1 DEF IInv, LocksSound, At
  <2>3. t \in Session /\ IsIdle(t)
    BY <1>1, <2>2 DEF Session, Stages, IsIdle, Idle, Ops, Reads
  <2>4. AtMenu(task[s].base) \in Session /\ IsIdle(AtMenu(task[s].base))
    BY <1>1, MenuIsIdle
  <2> HIDE DEF t
  <2> QED
    BY <2>1, <2>3, <2>4, GoesOnKeeps DEF At
<1>3. CASE Show(s)
  <2>1. At(s, "Showing") /\ Begins(s, task[s], task[s].base)
    BY <1>3 DEF Show
  <2>2. task[s].op \in Ops \ {"move"}
    BY <2>1 DEF IInv, LocksSound, IsIdle, At, Ops, Reads
  <2> QED
    BY <1>1, <2>1, <2>2, AskedKeeps DEF At
<1>4. CASE TakeFirstLock(s)
  BY <1>4, TakeFirstLockKeeps
<1>5. CASE BeginMove(s)
  <2>1. PICK b \in {task[s].base, task[s].target} :
          /\ Held(s) = {task[s].base, task[s].target} \ {b}
          /\ Begins(s, task[s], b)
    BY <1>5 DEF BeginMove
  <2>2. At(s, "Waiting") /\ task[s].op = "move" /\ WellAimed(task[s])
    BY <1>5 DEF BeginMove, IInv, LocksSound
  <2>3. task[s].target \in Bases /\ task[s].op \in Ops
    BY <1>1, <2>2 DEF WellAimed, Session, Ops
  <2>4. b \in Bases /\ Held(s) \cup {b} = Wants(task[s])
    BY <1>1, <2>1, <2>3, BasesAssumption DEF Wants
  <2> QED
    BY <1>1, <2>1, <2>2, <2>3, <2>4, BeginsKeeps
<1> QED
  BY <1>2, <1>3, <1>4, <1>5 DEF Locks

LEMMA NextInvariant == IInv /\ [Next]_vars => IInv'
<1> SUFFICES ASSUME IInv, [Next]_vars PROVE IInv'
  OBVIOUS
<1>1. CASE UNCHANGED vars
  <2>1. ASSUME NEW s \in Sessions PROVE LocksSound(s)' /\ WritesSound(s)'
    BY <1>1, OthersKeep DEF vars, IInv
  <2> QED
    BY <1>1, <2>1, SameFilesKeep DEF vars, IInv, TypeOK
<1>2. ASSUME NEW s \in Sessions, Answers(s) \/ Locks(s) \/ Runs(s), asked' = asked
      PROVE  IInv'
  BY <1>2, AnswersKeep, LocksKeep, WriteFileKeeps, WriteFailsKeeps, PanicsKeeps DEF Runs
<1> QED
  BY <1>1, <1>2, CrashKeeps DEF Next

\* Only writes, failed writes and crashes touch the files.
LEMMA FilesOnlyWritten ==
    ASSUME [Next]_vars
    PROVE  \/ UNCHANGED <<files, highest>>
           \/ \E s \in Sessions : WriteFile(s) \/ WriteFails(s)
           \/ Crash
<1>1. ASSUME NEW s \in Sessions, Answers(s) PROVE UNCHANGED <<files, highest>>
  BY <1>1 DEF Answers, Join, AskToMove, BeginRead, BeginPost, OpenAtPointer, BeginOption,
              Leave, GoesOn, Begins
<1>2. ASSUME NEW s \in Sessions, Locks(s) PROVE UNCHANGED <<files, highest>>
  BY <1>2 DEF Locks, Advance, Show, TakeFirstLock, BeginMove, GoesOn, Begins
<1> QED
  BY <1>1, <1>2 DEF Next, Runs, Panics, vars

\* IInv holds in every reachable state: every lock is with the session that
\* writes under it, and what a session has still to write fits what the bases hold.
THEOREM Invariance == Spec => []IInv
BY InitInvariant, NextInvariant, PTL DEF Spec

\* Every base is numbered without a gap up to its mark, whatever fails.
THEOREM NumbersStayWithoutGaps == Spec => []HighestMessageMatchesMaxNumber
BY Invariance, PTL DEF IInv

\* The files, locks and sessions keep their types.
THEOREM TypeCorrect == Spec => []TypeOK
BY Invariance, PTL DEF IInv

----------------------------------------------------------------------------
(* MessageBases implements MailLog: whatever sessions write, fail to write or
   leave cut by a crash, each base stays a log, for any number of bases,
   messages, sessions and users.                                           *)

\* What the log shows of a base (the mapping of MessageBases).
kept == [b \in Bases |-> [n \in Numbers |->
           IF files[b][n] # Torn THEN files[b][n]
           ELSE IF n <= highest[b] THEN [state |-> "lost"] ELSE NoFile]]

LEMMA KeptEntry ==
    ASSUME IInv, NEW b \in Bases, NEW n \in Numbers
    PROVE  /\ kept[b][n] \in Log!Entry
           /\ IsMail(files[b][n]) => kept[b][n] = files[b][n]
           /\ n <= highest[b] => kept[b][n] # Log!NoMail
           /\ n > highest[b] => kept[b][n] = Log!NoMail
<1>1. kept[b][n] = IF files[b][n] # Torn THEN files[b][n]
                   ELSE IF n <= highest[b] THEN [state |-> "lost"] ELSE NoFile
  BY DEF kept
<1>2. files[b][n] \in Mail \cup {NoFile, Torn}
  BY DEF IInv, TypeOK
<1>3. highest[b] \in Int /\ n \in Int
  BY DEF IInv, TypeOK, Numbers
<1>4. Log!Mail = Mail /\ Log!NoMail = NoFile
  BY DEF Log!Mail, Mail, Log!NoMail, NoFile
<1>5. /\ n <= highest[b] => files[b][n] # NoFile
      /\ n > highest[b] => ~ IsMail(files[b][n])
  BY DEF IInv, HighestMessageMatchesMaxNumber
<1>6. \A mail \in Mail : IsMail(mail) /\ mail # NoFile /\ mail # Torn
  BY DEF Mail, IsMail, NoFile, Torn
<1>7. ~ IsMail(Torn) /\ ~ IsMail(NoFile) /\ [state |-> "lost"] # NoFile
  BY DEF IsMail, Torn, NoFile
<1> QED
  BY <1>1, <1>2, <1>3, <1>4, <1>5, <1>6, <1>7 DEF Log!Entry, Log!Lost

LEMMA LogInit == Init => Log!Init
<1> SUFFICES ASSUME Init PROVE Log!Init
  OBVIOUS
<1>1. IInv
  BY InitInvariant
<1>2. kept \in [Bases -> [Numbers -> Log!Entry]]
  <2>1. \A b \in Bases, n \in Numbers : kept[b][n] \in Log!Entry
    BY <1>1, KeptEntry
  <2> QED
    BY <2>1 DEF kept
<1>3. ASSUME NEW b \in Bases, NEW n \in Numbers, NEW k \in Numbers, k < n,
             kept[b][n] # Log!NoMail
      PROVE  kept[b][k] # Log!NoMail
  <2>1. highest[b] \in Int /\ n \in Int /\ k \in Int
    BY <1>1 DEF IInv, TypeOK, Numbers
  <2>2. n <= highest[b]
    BY <1>1, <1>3, <2>1, KeptEntry
  <2>3. k <= highest[b]
    BY <1>3, <2>1, <2>2
  <2> QED
    BY <1>1, <2>3, KeptEntry
<1> QED
  BY <1>2, <1>3 DEF Log!Init, kept

\* A step of the log, or none.
LogStep == Log!Next \/ kept' = kept

LEMMA SameFilesSameLog ==
    ASSUME UNCHANGED <<files, highest>>
    PROVE  LogStep
BY DEF LogStep, kept

\* One message more, or one changed.
LEMMA WrittenEntry ==
    ASSUME IInv, IInv', NEW b \in Bases, NEW n \in Numbers, NEW mail \in Mail,
           files' = [files EXCEPT ![b][n] = mail],
           highest' = [highest EXCEPT ![b] = Max({@, n})],
           n <= highest[b] + 1
    PROVE  kept' = [kept EXCEPT ![b][n] = mail]
<1>1. /\ files \in [Bases -> [Numbers -> Mail \cup {NoFile, Torn}]]
      /\ highest \in [Bases -> 0 .. MaxNumber] /\ n \in Nat /\ MaxNumber \in Nat
  BY NumbersAssumption DEF IInv, TypeOK, Numbers
<1>2. highest'[b] = IF n = highest[b] + 1 THEN n ELSE highest[b]
  BY <1>1, MaxOfTwo
<1>3. IsMail(mail)
  BY DEF Mail, IsMail
<1>4. kept'[b][n] = mail
  <2>1. files'[b][n] = mail
    BY <1>1
  <2> QED
    BY <1>3, <2>1, KeptEntry DEF IsMail, kept, Torn
<1>5. ASSUME NEW c \in Bases, NEW k \in Numbers, c # b \/ k # n
      PROVE  kept'[c][k] = kept[c][k]
  <2>1. files'[c][k] = files[c][k] /\ k \in Int
    BY <1>1, <1>5 DEF Numbers
  <2>2. k <= highest'[c] <=> k <= highest[c]
    <3>1. CASE c # b
      BY <1>1, <3>1
    <3>2. CASE c = b
      BY <1>1, <1>2, <1>5, <2>1, <3>2
    <3> QED
      BY <3>1, <3>2
  <2> QED
    BY <2>1, <2>2 DEF kept
<1>6. kept' = [c \in Bases |-> [k \in Numbers |-> kept'[c][k]]]
      /\ kept = [c \in Bases |-> [k \in Numbers |-> kept[c][k]]]
  BY DEF kept
<1> DEFINE new == [kept EXCEPT ![b][n] = mail]
<1>7. new = [c \in Bases |-> [k \in Numbers |-> IF c = b /\ k = n THEN mail ELSE kept[c][k]]]
  BY <1>6
<1> QED
  BY <1>4, <1>5, <1>6, <1>7

----------------------------------------------------------------------------
(* Every step is a step of the log, or leaves it as it is.                  *)

LEMMA EntryOfMail ==
    ASSUME NEW b \in Bases, NEW n \in Numbers, IsMail(files[b][n])
    PROVE  kept[b][n] = files[b][n] /\ kept[b][n].state = "mail"
BY DEF kept, IsMail, Torn

\* The message that gets the next number of its base.
LEMMA InsertAppends ==
    ASSUME IInv, IInv', NEW b \in Bases, NEW n \in Numbers, NEW mail \in Mail,
           kept' = [kept EXCEPT ![b][n] = mail], n = highest[b] + 1, ~ mail.received
    PROVE  LogStep
<1>1. highest[b] \in Int /\ \A k \in Numbers : k \in Int
  BY DEF IInv, TypeOK, Numbers
<1>2. kept[b][n] = Log!NoMail
  BY <1>1, KeptEntry
<1>3. \A k \in Numbers : k < n => kept[b][k] # Log!NoMail
  <2>1. \A k \in Numbers : k < n => k <= highest[b]
    BY <1>1
  <2> QED
    BY <2>1, KeptEntry
<1>4. kept'[b][n] = mail
  BY DEF kept
<1>5. mail \in Log!Mail
  BY DEF Mail, Log!Mail
<1>6. kept' = [kept EXCEPT ![b][n] = kept'[b][n]] /\ kept'[b][n] \in Log!Mail /\ ~ kept'[b][n].received
  BY <1>4, <1>5
<1>7. Log!Append(b, n)
  BY <1>2, <1>3, <1>6, Zenon DEF Log!Append, kept
<1> QED
  BY <1>7, Zenon DEF LogStep, Log!Next

\* A message that is there and is changed by a rule.
LEMMA ChangeIsLogged ==
    ASSUME IInv, NEW b \in Bases, NEW n \in Numbers, NEW mail \in Mail,
           kept' = [kept EXCEPT ![b][n] = mail],
           IsMail(files[b][n]), Changed(files[b][n], mail)
    PROVE  LogStep
<1>1. kept[b][n] = files[b][n] /\ kept[b][n].state = "mail" /\ kept[b][n] \in Mail
  BY EntryOfMail, Readable
<1>2. kept = [c \in Bases |-> [k \in Numbers |-> kept[c][k]]]
  BY DEF kept
<1>3. CASE mail = kept[b][n]
  <2>1. kept' = kept
    BY <1>2, <1>3
  <2> QED
    BY <2>1 DEF LogStep
<1>4. CASE ~ IsDeleted(kept[b][n]) /\ ~ kept[b][n].received /\ mail = [kept[b][n] EXCEPT !.received = TRUE]
  <2>1. Log!IsLive(kept[b][n])
    BY <1>1, <1>4 DEF Log!IsLive, IsDeleted
  <2>2. kept' = [kept EXCEPT ![b][n].received = TRUE]
    BY <1>2, <1>4
  <2>3. Log!Receive(b, n)
    BY <1>4, <2>1, <2>2, Zenon DEF Log!Receive, kept
  <2> QED
    BY <2>3, Zenon DEF LogStep, Log!Next
<1>5. CASE \E to \in Users : mail = [kept[b][n] EXCEPT !.addressee = to]
  <2>1. PICK to \in Users \cup {Nobody} : mail = [kept[b][n] EXCEPT !.addressee = to]
    BY <1>5
  <2>2. kept' = [kept EXCEPT ![b][n].addressee = to]
    BY <1>2, <2>1
  <2>3. Log!Readdress(b, n, to)
    BY <1>1, <2>2, Zenon DEF Log!Readdress, kept
  <2> QED
    BY <2>3, Zenon DEF LogStep, Log!Next
<1>6. CASE ~ IsDeleted(kept[b][n]) /\ mail = SoftDeleted(kept[b][n])
  <2>1. Log!IsLive(kept[b][n])
    BY <1>1, <1>6 DEF Log!IsLive, IsDeleted
  <2>2. kept' = [kept EXCEPT ![b][n].visibility = "Deleted", ![b][n].received = FALSE]
    BY <1>2, <1>6 DEF SoftDeleted
  <2>3. Log!Delete(b, n)
    BY <2>1, <2>2, Zenon DEF Log!Delete, kept
  <2> QED
    BY <2>3, Zenon DEF LogStep, Log!Next
<1> QED
  BY <1>1, <1>3, <1>4, <1>5, <1>6 DEF Changed

LEMMA WriteIsLogged ==
    ASSUME IInv, IInv', NEW s \in Sessions, WriteFile(s)
    PROVE  LogStep
<1> DEFINE w == Head(task[s].writes)
<1>1. /\ Writes(s)
      /\ files' = [files EXCEPT ![w.base][w.number] = w.mail]
      /\ highest' = [highest EXCEPT ![w.base] = Max({@, w.number})]
  BY DEF WriteFile
<1>2. w.base \in Bases /\ w.number \in Numbers /\ w.mail \in Mail /\ Due(w)
  BY <1>1, HeadIsDue
<1> HIDE DEF w
<1>3. w.number <= highest[w.base] + 1
  BY <1>2 DEF Due, IInv, TypeOK, Numbers
<1>4. kept' = [kept EXCEPT ![w.base][w.number] = w.mail]
  BY <1>1, <1>2, <1>3, WrittenEntry
<1> QED
  BY <1>2, <1>4, InsertAppends, ChangeIsLogged DEF Due

\* Files that are cut leave the log, and an insert that is cut was never in it.
LEMMA TearsAreLogged ==
    ASSUME IInv, highest' = highest,
           files' \in [Bases -> [Numbers -> Mail \cup {NoFile, Torn}]],
           \A b \in Bases, n \in Numbers :
             \/ files'[b][n] = files[b][n]
             \/ /\ files'[b][n] = Torn
                /\ n <= highest[b] => IsMail(files[b][n])
    PROVE  LogStep
<1> PICK hit \in SUBSET (Bases \X Numbers) :
        hit = {p \in Bases \X Numbers : files'[p[1]][p[2]] = Torn /\ IsMail(files[p[1]][p[2]])}
  OBVIOUS
<1>1. \A place \in hit : kept[place[1]][place[2]].state = "mail"
  BY EntryOfMail
<1>2. ASSUME NEW b \in Bases, NEW n \in Numbers
      PROVE  kept'[b][n] = IF <<b, n>> \in hit THEN Log!Lost ELSE kept[b][n]
  <2>1. kept'[b][n] = IF files'[b][n] # Torn THEN files'[b][n]
                      ELSE IF n <= highest[b] THEN [state |-> "lost"] ELSE NoFile
    BY DEF kept
  <2>2. kept[b][n] = IF files[b][n] # Torn THEN files[b][n]
                     ELSE IF n <= highest[b] THEN [state |-> "lost"] ELSE NoFile
    BY DEF kept
  <2>3. <<b, n>> \in hit <=> files'[b][n] = Torn /\ IsMail(files[b][n])
    OBVIOUS
  <2>4. IsMail(files[b][n]) => n <= highest[b] /\ files[b][n] # Torn
    BY Readable DEF IsMail, Torn
  <2>5. n > highest[b] <=> ~ (n <= highest[b])
    BY DEF IInv, TypeOK, Numbers
  <2>6. ~ IsMail(files[b][n]) /\ files'[b][n] = Torn => kept'[b][n] = kept[b][n]
    <3>1. CASE n <= highest[b]
      BY <2>1, <2>2, <3>1
    <3>2. CASE n > highest[b]
      BY <2>1, <2>5, <3>2, KeptEntry DEF Log!NoMail, NoFile
    <3> QED
      BY <2>5, <3>1, <3>2
  <2>7. <<b, n>> \in hit => kept'[b][n] = Log!Lost
    BY <2>1, <2>3, <2>4 DEF Log!Lost
  <2>8. files'[b][n] # Torn => kept'[b][n] = kept[b][n]
    BY <2>1, <2>2
  <2> QED
    BY <2>3, <2>6, <2>7, <2>8
<1>3. kept' = [b \in Bases |-> [n \in Numbers |-> IF <<b, n>> \in hit THEN Log!Lost ELSE kept[b][n]]]
  <2>1. kept' = [b \in Bases |-> [n \in Numbers |-> kept'[b][n]]]
    BY DEF kept
  <2> QED
    BY <1>2, <2>1
<1>4. Log!Damage(hit)
  BY <1>1, <1>3, Zenon DEF Log!Damage, kept
<1> QED
  BY <1>4, Zenon DEF LogStep, Log!Next

LEMMA FailureIsLogged ==
    ASSUME IInv, IInv', NEW s \in Sessions, WriteFails(s)
    PROVE  LogStep
<1> DEFINE w == Head(task[s].writes)
<1>1. /\ Writes(s) /\ highest' = highest
      /\ files' = files \/ files' = [files EXCEPT ![w.base][w.number] = Torn]
  BY DEF WriteFails
<1>2. w.base \in Bases /\ w.number \in Numbers /\ Cut(w.base, w.number)
  BY <1>1, HeadIsDue DEF Cut
<1> HIDE DEF w
<1>3. /\ files \in [Bases -> [Numbers -> Mail \cup {NoFile, Torn}]]
      /\ files' \in [Bases -> [Numbers -> Mail \cup {NoFile, Torn}]]
  BY DEF IInv, TypeOK
<1>4. ASSUME NEW b \in Bases, NEW n \in Numbers
      PROVE  \/ files'[b][n] = files[b][n]
             \/ /\ files'[b][n] = Torn
                /\ n <= highest[b] => IsMail(files[b][n])
  <2>1. CASE b = w.base /\ n = w.number
    BY <1>1, <1>2, <1>3, <2>1, CutIsNear
  <2>2. CASE b # w.base \/ n # w.number
    BY <1>1, <1>3, <2>2
  <2> QED
    BY <2>1, <2>2
<1> QED
  BY <1>1, <1>3, <1>4, TearsAreLogged

LEMMA CrashIsLogged ==
    ASSUME IInv, Crash
    PROVE  LogStep
<1>1. ASSUME NEW b \in Bases, NEW n \in Numbers
      PROVE  \/ files'[b][n] = files[b][n]
             \/ /\ files'[b][n] = Torn
                /\ n <= highest[b] => IsMail(files[b][n])
  BY CrashTears, CutIsNear
<1>2. highest' = highest /\ files' \in [Bases -> [Numbers -> Mail \cup {NoFile, Torn}]]
  BY CrashTears
<1> QED
  BY <1>1, <1>2, TearsAreLogged

LEMMA LogNext == IInv /\ IInv' /\ [Next]_vars => LogStep
<1> SUFFICES ASSUME IInv, IInv', [Next]_vars PROVE LogStep
  OBVIOUS
<1> QED
  BY FilesOnlyWritten, SameFilesSameLog, WriteIsLogged, FailureIsLogged, CrashIsLogged

\* Whatever sessions write, fail to write or leave cut by a crash, each base
\* stays a log: a number is given once, a deletion stands, a receipt is not
\* lost, and no author or text changes (the rules that load a message and
\* save all of it, under the lock of its base).
THEOREM BasesAreLogs == Spec => BasesKeepTheLog
<1>1. LogStep => [Log!Next]_kept
  BY DEF LogStep
<1> QED
  BY <1>1, LogInit, LogNext, Invariance, PTL DEF Spec, BasesKeepTheLog, Log!Spec, kept

----------------------------------------------------------------------------
(* What a move of MessageBases does to the message it moves: while nothing
   failed it is in two places only under the locks of both, and it is in none
   only when somebody who may deletes it or its own file is cut.           *)

\* No body is the name of a place that nothing was posted to yet.
PostedBelow ==
    \A b \in Bases, n \in Numbers :
        IsMail(files[b][n]) =>
            LET first == files[b][n].body IN first[2] <= highest[first[1]]

Twins(b, n, c, k) ==
    /\ IsLive(files[b][n]) /\ IsLive(files[c][k])
    /\ files[b][n].body = files[c][k].body
    /\ <<b, n>> # <<c, k>>

\* The move of a session that has copied message n of b to c.
Moves(s, b, n, c) ==
    /\ At(s, "Writing") /\ task[s].op = "move" /\ Len(task[s].writes) <= 2
    /\ task[s].base = b /\ task[s].loaded = n /\ task[s].target = c

\* Two copies are the two ends of a move that is being made.
TwinsAreMoved ==
    faults = 0 =>
        \A b, c \in Bases, n, k \in Numbers :
            Twins(b, n, c, k) => \E s \in Sessions : Moves(s, b, n, c) \/ Moves(s, c, k, b)

MovesInv == IInv /\ PostedBelow /\ TwinsAreMoved

\* The message a session has loaded.
Source(t) == files[t.base][t.loaded]

----------------------------------------------------------------------------
(* What the next write of a session is.                                    *)

LEMMA ChangedStays ==
    ASSUME NEW old \in Mail, NEW new \in Mail, Changed(old, new)
    PROVE  new.body = old.body /\ (IsLive(new) => IsLive(old))
<1>1. ASSUME NEW to
      PROVE  /\ [old EXCEPT !.addressee = to].body = old.body
             /\ [old EXCEPT !.addressee = to].visibility = old.visibility
  BY DEF Mail
<1>2. /\ [old EXCEPT !.received = TRUE].body = old.body
      /\ [old EXCEPT !.received = TRUE].visibility = old.visibility
  BY DEF Mail
<1>3. SoftDeleted(old).body = old.body
  BY DEF SoftDeleted, Mail
<1>4. IsMail(old)
  BY DEF Mail, IsMail
<1>5. IsDeleted(SoftDeleted(old)) /\ SoftDeleted(old).body = old.body
  BY <1>3, DeletedHasNoReceipt
<1>6. CASE \E to \in Users : new = [old EXCEPT !.addressee = to]
  BY <1>1, <1>4, <1>6 DEF IsLive, IsDeleted
<1>7. CASE new = [old EXCEPT !.received = TRUE]
  BY <1>2, <1>4, <1>7 DEF IsLive, IsDeleted
<1>8. CASE new = SoftDeleted(old)
  BY <1>5, <1>8 DEF IsLive
<1> QED
  BY <1>6, <1>7, <1>8 DEF Changed

LEMMA CopyIsTwin ==
    ASSUME NEW mail \in Mail
    PROVE  Copy(mail).body = mail.body /\ (IsLive(Copy(mail)) => IsLive(mail))
BY DEF Copy, Mail, IsLive, IsMail, IsDeleted

\* Who writes, with what and where.
LEMMA Writer ==
    ASSUME IInv, NEW s \in Sessions, At(s, "Writing")
    PROVE  /\ task[s] \in Session /\ Owes(task[s], UserOf[s], files, highest)
           /\ Held(s) = Wants(task[s])
           /\ task[s].base \in Bases /\ task[s].base \in Held(s) /\ task[s].base # task[s].target
           /\ task[s].target \in Bases => task[s].target \in Held(s)
<1>1. /\ task[s] \in Session /\ Owes(task[s], UserOf[s], files, highest)
      /\ Held(s) = Wants(task[s]) /\ task[s].base # task[s].target
  BY DEF IInv, TypeOK, WritesSound, LocksSound, WellAimed
<1> QED
  BY <1>1, BasesAssumption DEF Wants, Session

\* Two sessions that write share no base.
LEMMA WritersApart ==
    ASSUME NEW s, NEW r, NEW b \in Held(s), b \in Held(r)
    PROVE  s = r
BY Holders DEF Held

\* What a move has still to write.
LEMMA MoveOwes ==
    ASSUME IInv, NEW s \in Sessions, At(s, "Writing"), task[s].op = "move"
    PROVE  LET t == task[s] IN
             /\ t.target \in Bases /\ t.loaded \in Numbers
             /\ Source(t) \in Mail /\ IsMail(Source(t))
             /\ OwesMove(t, Source(t), files[t.target], highest[t.target])
<1> DEFINE t == task[s]
<1>1. ~ OwesChange(t, UserOf[s], files[t.base][Number(t)]) /\ ~ OwesPost(t, highest[t.base])
  BY DEF OwesChange, OwesPost, Reads, Posts
<1>2. /\ t.target \in Bases /\ t.loaded \in Numbers
      /\ OwesMove(t, Source(t), files[t.target], highest[t.target])
  <2> HIDE DEF t
  <2>1. Owes(t, UserOf[s], files, highest)
    BY Writer DEF t
  <2> QED
    BY <1>1, <2>1 DEF Owes, Source
<1>3. Source(t) \in Mail /\ IsMail(Source(t))
  BY <1>2, Writer, Readable DEF OwesMove, Source
<1> QED
  BY <1>2, <1>3

\* The last write of a move deletes what it moved.
LEMMA LastDeletes ==
    ASSUME IInv, NEW s \in Sessions, Writes(s), task[s].op = "move", Len(task[s].writes) = 1
    PROVE  LET t == task[s] IN
             /\ ~ IsDeleted(Source(t))
             /\ Head(t.writes) = Write(t.base, t.loaded, SoftDeleted(Source(t)))
             /\ \E n \in Numbers : files[t.target][n] = Source(t)
<1> DEFINE t == task[s]
           mail == Source(t)
<1>1. OwesMove(t, mail, files[t.target], highest[t.target]) /\ Head(t.writes) # Panic
  BY MoveOwes DEF Writes
<1> HIDE DEF mail
<1>2. PICK n \in Numbers : files[t.target][n] = mail /\ t.writes = <<LastOfMove(t, mail)>>
  BY <1>1 DEF OwesMove
<1>3. LastOfMove(t, mail) # Panic /\ Head(t.writes) = LastOfMove(t, mail)
  BY <1>1, <1>2
<1> QED
  BY <1>2, <1>3 DEF LastOfMove, mail

\* A message that gets a new number is a post, or the copy of a move.
LEMMA NewIsPostOrCopy ==
    ASSUME IInv, NEW s \in Sessions, Writes(s), NEW w, w = Head(task[s].writes),
           w.number = highest[w.base] + 1
    PROVE  \/ w.mail.body = <<w.base, w.number>>
           \/ LET t == task[s] IN
                /\ t.op = "move" /\ Len(t.writes) = 3 /\ w.base = t.target
                /\ w.mail = Copy(Source(t))
<1> DEFINE t == task[s]
           mail == Source(t)
<1>1. t \in Session /\ Owes(t, UserOf[s], files, highest) /\ t.base \in Bases
  BY Writer DEF Writes
<1>2. \A b \in Bases, n \in Numbers : IsMail(files[b][n]) => n # highest[b] + 1
  BY Readable DEF IInv, TypeOK, Numbers
<1>3. CASE Number(t) \in Numbers /\ OwesChange(t, UserOf[s], files[t.base][Number(t)])
  <2>1. PICK new \in Mail :
          IsMail(files[t.base][Number(t)]) /\ t.writes = <<Write(t.base, Number(t), new)>>
    BY <1>3 DEF OwesChange
  <2>2. w = Write(t.base, Number(t), new)
    BY <2>1
  <2>3. w.base = t.base /\ w.number = Number(t)
    BY <2>2 DEF Write
  <2> QED
    BY <1>1, <1>2, <1>3, <2>1, <2>3
<1>4. CASE highest[t.base] + 1 \in Numbers /\ OwesPost(t, highest[t.base])
  <2>1. PICK new \in Mail : /\ t.writes = <<Write(t.base, highest[t.base] + 1, new)>>
                           /\ new.body = <<t.base, highest[t.base] + 1>>
    BY <1>4 DEF OwesPost
  <2>2. w = Write(t.base, highest[t.base] + 1, new)
    BY <2>1
  <2> QED
    BY <2>1, <2>2 DEF Write
<1>5. CASE t.target \in Bases /\ t.loaded \in Numbers
           /\ OwesMove(t, mail, files[t.target], highest[t.target])
  <2>1. t.op = "move" /\ IsMail(mail)
    BY <1>5 DEF OwesMove
  <2> HIDE DEF mail
  <2>2. CASE t.writes = <<Write(t.target, highest[t.target] + 1, Copy(mail)),
                          Write(t.target, highest[t.target] + 1, mail), LastOfMove(t, mail)>>
    <3>1. w = Write(t.target, highest[t.target] + 1, Copy(mail)) /\ Len(t.writes) = 3
      BY <2>2
    <3>2. w.base = t.target /\ w.mail = Copy(mail)
      BY <3>1 DEF Write
    <3> QED
      BY <2>1, <3>1, <3>2 DEF mail
  <2>3. CASE \E n \in Numbers : /\ n <= highest[t.target]
                               /\ t.writes = <<Write(t.target, n, mail), LastOfMove(t, mail)>>
    <3>1. PICK n \in Numbers : /\ n <= highest[t.target]
                               /\ t.writes = <<Write(t.target, n, mail), LastOfMove(t, mail)>>
      BY <2>3
    <3>2. w = Write(t.target, n, mail)
      BY <3>1
    <3>3. w.base = t.target /\ w.number = n
      BY <3>2 DEF Write
    <3>4. highest[t.target] \in Int /\ n \in Int
      BY <1>5 DEF IInv, TypeOK, Numbers
    <3> QED
      BY <3>1, <3>3, <3>4
  <2>4. CASE t.writes = <<LastOfMove(t, mail)>>
    <3>1. w = Write(t.base, t.loaded, SoftDeleted(mail))
      BY <2>1, <2>4, LastDeletes DEF mail
    <3>2. w.base = t.base /\ w.number = t.loaded
      BY <3>1 DEF Write
    <3> QED
      BY <1>1, <1>2, <1>5, <2>1, <3>2 DEF mail, Source
  <2> QED
    BY <1>5, <2>2, <2>3, <2>4 DEF OwesMove
<1> QED
  BY <1>1, <1>3, <1>4, <1>5 DEF Owes, Source

----------------------------------------------------------------------------
(* Nobody posts to a place twice.                                          *)

LEMMA MarkRises ==
    ASSUME IInv, NEW b \in Bases, NEW n \in Numbers,
           highest' = [highest EXCEPT ![b] = Max({@, n})]
    PROVE  highest'[b] >= n /\ \A c \in Bases : highest'[c] >= highest[c]
<1>1. highest \in [Bases -> 0 .. MaxNumber] /\ n \in Nat /\ MaxNumber \in Nat
  BY NumbersAssumption DEF IInv, TypeOK, Numbers
<1>2. Max({highest[b], n}) = IF highest[b] >= n THEN highest[b] ELSE n
  BY <1>1, MaxOfTwo
<1>3. highest'[b] = IF highest[b] >= n THEN highest[b] ELSE n
  BY <1>1, <1>2
<1>4. \A c \in Bases \ {b} : highest'[c] = highest[c]
  BY <1>1
<1> QED
  BY <1>1, <1>3, <1>4

LEMMA BodyIsPlace ==
    ASSUME NEW mail \in Mail
    PROVE  mail.body[1] \in Bases /\ mail.body[2] \in Numbers
BY DEF Mail, Bodies

\* The body of what is written next is that of a message that is there, or
\* the place it is written to.
LEMMA WrittenBody ==
    ASSUME IInv, NEW s \in Sessions, Writes(s), NEW w, w = Head(task[s].writes)
    PROVE  \/ w.mail.body = <<w.base, w.number>>
           \/ \E b \in Bases, n \in Numbers :
                IsMail(files[b][n]) /\ w.mail.body = files[b][n].body
<1>1. w.base \in Bases /\ w.number \in Numbers /\ w.mail \in Mail /\ Due(w)
  BY HeadIsDue
<1>2. CASE w.number = highest[w.base] + 1
  <2>1. CASE task[s].op = "move" /\ w.mail = Copy(Source(task[s]))
    <3>1. /\ task[s].base \in Bases /\ task[s].loaded \in Numbers
          /\ Source(task[s]) \in Mail /\ IsMail(Source(task[s]))
      BY <2>1, MoveOwes, Writer DEF Writes
    <3>2. w.mail.body = Source(task[s]).body
      BY <2>1, <3>1, CopyIsTwin
    <3> QED
      BY <3>1, <3>2 DEF Source
  <2> QED
    BY <1>2, <2>1, NewIsPostOrCopy
<1>3. CASE IsMail(files[w.base][w.number]) /\ Changed(files[w.base][w.number], w.mail)
  BY <1>1, <1>3, Readable, ChangedStays
<1> QED
  BY <1>1, <1>2, <1>3 DEF Due

LEMMA PostedBelowKept == IInv /\ PostedBelow /\ [Next]_vars => PostedBelow'
<1> SUFFICES ASSUME IInv, PostedBelow, [Next]_vars PROVE PostedBelow'
  OBVIOUS
<1>1. ASSUME UNCHANGED <<files, highest>> PROVE PostedBelow'
  BY <1>1 DEF PostedBelow
<1>2. ASSUME NEW s \in Sessions, WriteFile(s) PROVE PostedBelow'
  <2> DEFINE w == Head(task[s].writes)
  <2>1. /\ Writes(s)
        /\ files' = [files EXCEPT ![w.base][w.number] = w.mail]
        /\ highest' = [highest EXCEPT ![w.base] = Max({@, w.number})]
    BY <1>2 DEF WriteFile
  <2>2. w.base \in Bases /\ w.number \in Numbers /\ w.mail \in Mail
    BY <2>1, HeadIsDue
  <2>3. \/ w.mail.body = <<w.base, w.number>>
        \/ \E b \in Bases, n \in Numbers :
             IsMail(files[b][n]) /\ w.mail.body = files[b][n].body
    BY <2>1, WrittenBody
  <2> HIDE DEF w
  <2>4. highest'[w.base] >= w.number /\ \A c \in Bases : highest'[c] >= highest[c]
    BY <2>1, <2>2, MarkRises
  <2>5. \A c \in Bases : highest[c] \in Int /\ highest'[c] \in Int
    BY <1>2, NextInvariant DEF IInv, TypeOK
  <2>6. ASSUME NEW b \in Bases, NEW n \in Numbers, IsMail(files[b][n])
        PROVE  files[b][n].body[2] <= highest'[files[b][n].body[1]]
    <3>1. /\ files[b][n].body[1] \in Bases /\ files[b][n].body[2] \in Int
      BY <2>6, Readable, BodyIsPlace DEF Numbers
    <3>2. files[b][n].body[2] <= highest[files[b][n].body[1]]
      BY <2>6 DEF PostedBelow
    <3> QED
      BY <2>4, <2>5, <3>1, <3>2
  <2>7. w.mail.body[2] <= highest'[w.mail.body[1]]
    <3>1. CASE w.mail.body = <<w.base, w.number>>
      BY <2>2, <2>4, <2>5, <3>1 DEF Numbers
    <3> QED
      BY <2>3, <2>6, <3>1
  <2>8. \A b \in Bases, n \in Numbers : files'[b][n] = files[b][n] \/ files'[b][n] = w.mail
    BY <2>1, <2>2 DEF IInv, TypeOK
  <2> QED
    BY <2>6, <2>7, <2>8 DEF PostedBelow
<1>3. ASSUME NEW s \in Sessions, WriteFails(s) PROVE PostedBelow'
  <2> DEFINE w == Head(task[s].writes)
  <2>1. /\ Writes(s) /\ highest' = highest
        /\ files' = files \/ files' = [files EXCEPT ![w.base][w.number] = Torn]
    BY <1>3 DEF WriteFails
  <2>2. w.base \in Bases /\ w.number \in Numbers
    BY <2>1, HeadIsDue
  <2> HIDE DEF w
  <2>3. \A b \in Bases, n \in Numbers : files'[b][n] = files[b][n] \/ files'[b][n] = Torn
    BY <2>1, <2>2 DEF IInv, TypeOK
  <2> QED
    BY <2>1, <2>3 DEF PostedBelow, IsMail, Torn
<1>4. ASSUME Crash PROVE PostedBelow'
  BY <1>4, CrashTears DEF PostedBelow, IsMail, Torn
<1> QED
  BY <1>1, <1>2, <1>3, <1>4, FilesOnlyWritten

----------------------------------------------------------------------------
(* Two copies are the ends of a move that is being made.                   *)

\* A move that is being made holds the bases of both its ends.
LEMMA MoverHolds ==
    ASSUME IInv, NEW r \in Sessions, NEW b, NEW n, NEW c, Moves(r, b, n, c)
    PROVE  /\ At(r, "Writing") /\ Held(r) = {b, c} /\ c # b
           /\ Source(task[r]) = files[b][n] /\ n \in Numbers
<1>1. /\ At(r, "Writing") /\ task[r].base = b /\ task[r].loaded = n /\ task[r].target = c
      /\ task[r].op = "move"
  BY DEF Moves
<1>2. Held(r) = Wants(task[r]) /\ c \in Bases /\ n \in Numbers /\ b # c
  BY <1>1, Writer, MoveOwes
<1> QED
  BY <1>1, <1>2, BasesAssumption DEF Wants, Source

\* A step of another session leaves a move as it is; its own writes do, but
\* for the last, which deletes the message it moved.
LEMMA MoverStays ==
    ASSUME IInv, NEW s \in Sessions, WriteFile(s),
           NEW r \in Sessions, NEW b \in Bases, NEW n \in Numbers, NEW c, Moves(r, b, n, c),
           IsLive(files'[b][n])
    PROVE  Moves(r, b, n, c)'
<1>1. task \in [Sessions -> Session]
  BY DEF IInv, TypeOK
<1>2. CASE r # s
  <2>1. task'[r] = task[r]
    BY <1>1, <1>2 DEF WriteFile, Ends
  <2> QED
    BY <2>1 DEF Moves, At
<1>3. CASE r = s
  <2> DEFINE t == task[s]
             w == Head(t.writes)
  <2>1. /\ Writes(s) /\ t.op = "move" /\ Len(t.writes) <= 2
        /\ t.base = b /\ t.loaded = n /\ t.target = c /\ t.stage = "Writing"
    BY <1>3 DEF WriteFile, Moves, At
  <2>2. t.writes \in Seq(Steps) /\ t.writes # <<>>
    BY <1>1, <2>1, MoveOwes DEF Session, OwesMove, Writes
  <2>3. Len(t.writes) # 1
    <3> SUFFICES ASSUME Len(t.writes) = 1 PROVE FALSE
      OBVIOUS
    <3>1. /\ w = Write(b, n, SoftDeleted(Source(t)))
          /\ Source(t) \in Mail
      <4>1. Head(task[s].writes) = Write(task[s].base, task[s].loaded, SoftDeleted(Source(task[s])))
        BY <2>1, LastDeletes
      <4>2. Source(task[s]) \in Mail
        BY <2>1, MoveOwes DEF Writes
      <4> QED
        BY <2>1, <4>1, <4>2
    <3>2. files' = [files EXCEPT ![w.base][w.number] = w.mail]
      BY DEF WriteFile
    <3> HIDE DEF w
    <3>3. w.base = b /\ w.number = n /\ w.mail = SoftDeleted(Source(t))
      BY <3>1 DEF Write
    <3>4. files'[b][n] = SoftDeleted(Source(t))
      BY <3>2, <3>3 DEF IInv, TypeOK
    <3> QED
      BY <3>1, <3>4, DeletedHasNoReceipt DEF IsLive
  <2>4. task' = [task EXCEPT ![s].writes = Tail(@)]
    BY <2>3 DEF WriteFile
  <2> DEFINE v == [t EXCEPT !.writes = Tail(@)]
  <2>5. task'[s] = v
    BY <1>1, <2>4
  <2>6. /\ v.stage = "Writing" /\ v.op = "move" /\ v.base = b /\ v.loaded = n /\ v.target = c
        /\ v.writes = Tail(t.writes)
    BY <1>1, <2>1 DEF Session
  <2>7. Len(Tail(t.writes)) <= 2
    BY <2>1, <2>2
  <2> HIDE DEF v
  <2> QED
    BY <1>3, <2>5, <2>6, <2>7 DEF Moves, At
<1> QED
  BY <1>2, <1>3

\* Two copies there were already.
LEMMA OldTwins ==
    ASSUME MovesInv, faults = 0, NEW s \in Sessions, WriteFile(s),
           NEW b \in Bases, NEW c \in Bases, NEW n \in Numbers, NEW k \in Numbers,
           Twins(b, n, c, k), IsLive(files'[b][n]), IsLive(files'[c][k])
    PROVE  \E r \in Sessions : (Moves(r, b, n, c) \/ Moves(r, c, k, b))'
<1>1. PICK r \in Sessions : Moves(r, b, n, c) \/ Moves(r, c, k, b)
  BY DEF MovesInv, TwinsAreMoved
<1> QED
  BY <1>1, MoverStays DEF MovesInv

\* The message a write leaves at a new number has no other copy than the one
\* it is moved from.
LEMMA NewTwin ==
    ASSUME MovesInv, faults = 0, NEW s \in Sessions, WriteFile(s), NEW w, w = Head(task[s].writes),
           w.number = highest[w.base] + 1,
           NEW c \in Bases, NEW k \in Numbers, <<c, k>> # <<w.base, w.number>>,
           IsLive(files[c][k]), IsLive(w.mail), files[c][k].body = w.mail.body
    PROVE  Moves(s, c, k, w.base)'
<1>1. IInv /\ Writes(s) /\ At(s, "Writing")
  BY DEF MovesInv, WriteFile, Writes
<1>2. /\ w.base \in Bases /\ w.number \in Numbers /\ w.mail \in Mail
      /\ highest[w.base] \in Int /\ task \in [Sessions -> Session]
  <2>1. w.base \in Bases /\ w.number \in Numbers /\ w.mail \in Mail
    BY <1>1, HeadIsDue
  <2> QED
    BY <1>1, <2>1 DEF IInv, TypeOK
<1>3. w.mail.body # <<w.base, w.number>>
  <2>1. files[c][k].body[2] <= highest[files[c][k].body[1]]
    BY DEF MovesInv, PostedBelow, IsLive
  <2> QED
    BY <1>2, <2>1
<1> DEFINE t == task[s]
<1>4. t.op = "move" /\ Len(t.writes) = 3 /\ w.base = t.target /\ w.mail = Copy(Source(t))
  BY <1>1, <1>3, NewIsPostOrCopy
<1>5. /\ t.base \in Bases /\ t.loaded \in Numbers /\ t.target \in Bases /\ t.base # t.target
      /\ Source(t) \in Mail /\ t.stage = "Writing" /\ t.base \in Held(s)
  BY <1>1, <1>4, MoveOwes, Writer DEF At
<1>6. IsLive(Source(t)) /\ Source(t).body = files[c][k].body
  BY <1>4, <1>5, CopyIsTwin
<1>7. c = t.base /\ k = t.loaded
  <2> SUFFICES ASSUME ~ (c = t.base /\ k = t.loaded) PROVE FALSE
    OBVIOUS
  <2>1. Twins(t.base, t.loaded, c, k)
    BY <1>6 DEF Twins, Source
  <2>2. PICK r \in Sessions : Moves(r, t.base, t.loaded, c) \/ Moves(r, c, k, t.base)
    BY <1>5, <2>1 DEF MovesInv, TwinsAreMoved
  <2>3. t.base \in Held(r)
    BY <1>1, <2>2, MoverHolds
  <2>4. r = s
    BY <1>5, <2>3, WritersApart
  <2>5. Len(task[r].writes) <= 2
    BY <2>2 DEF Moves
  <2>6. Len(task[s].writes) = 3
    BY <1>4
  <2> QED
    BY <2>4, <2>5, <2>6
<1>8. task' = [task EXCEPT ![s].writes = Tail(@)]
  BY <1>4 DEF WriteFile
<1> DEFINE v == [t EXCEPT !.writes = Tail(@)]
<1>9. task'[s] = v
  BY <1>2, <1>8
<1>10. /\ v.stage = "Writing" /\ v.op = "move" /\ v.base = c /\ v.loaded = k /\ v.target = w.base
       /\ v.writes = Tail(t.writes)
  BY <1>2, <1>4, <1>5, <1>7 DEF Session
<1>11. Len(Tail(task[s].writes)) = 2
  <2>1. task[s].writes \in Seq(Steps)
    BY <1>2 DEF Session
  <2>2. Len(task[s].writes) = 3 /\ task[s].writes # <<>>
    BY <1>4, <2>1
  <2> QED
    BY <2>1, <2>2, HeadTailProperties
<1> HIDE DEF v
<1>12. Len(v.writes) <= 2
  <2>1. Len(v.writes) = 2
    BY <1>10, <1>11
  <2> QED
    BY <2>1
<1> QED
  BY <1>9, <1>10, <1>12 DEF Moves, At

LEMMA TwinsMovedByWrite ==
    ASSUME MovesInv, NEW s \in Sessions, WriteFile(s), faults' = 0,
           NEW b \in Bases, NEW c \in Bases, NEW n \in Numbers, NEW k \in Numbers,
           Twins(b, n, c, k)'
    PROVE  \E r \in Sessions : (Moves(r, b, n, c) \/ Moves(r, c, k, b))'
<1> PICK w : w = Head(task[s].writes)
  OBVIOUS
<1>1. /\ IInv /\ Writes(s) /\ faults = 0
      /\ files' = [files EXCEPT ![w.base][w.number] = w.mail]
  BY DEF MovesInv, WriteFile
<1>2. w.base \in Bases /\ w.number \in Numbers /\ w.mail \in Mail /\ Due(w)
  BY <1>1, HeadIsDue
<1>3. /\ files'[w.base][w.number] = w.mail
      /\ \A d \in Bases, i \in Numbers :
           <<d, i>> # <<w.base, w.number>> => files'[d][i] = files[d][i]
  BY <1>1, <1>2 DEF IInv, TypeOK
<1>4. /\ IsLive(files'[b][n]) /\ IsLive(files'[c][k]) /\ files'[b][n].body = files'[c][k].body
      /\ <<b, n>> # <<c, k>>
  BY DEF Twins
<1>5. CASE /\ IsMail(files[w.base][w.number])
           /\ Changed(files[w.base][w.number], w.mail)
  <2>1. \A d \in Bases, i \in Numbers :
          IsLive(files'[d][i]) => IsLive(files[d][i]) /\ files'[d][i].body = files[d][i].body
    <3>1. files[w.base][w.number] \in Mail
      BY <1>1, <1>2, <1>5, Readable
    <3>2. w.mail.body = files[w.base][w.number].body
          /\ (IsLive(w.mail) => IsLive(files[w.base][w.number]))
      BY <1>2, <1>5, <3>1, ChangedStays
    <3> QED
      BY <1>3, <3>2
  <2>2. Twins(b, n, c, k)
    BY <1>4, <2>1 DEF Twins
  <2> QED
    BY <1>1, <1>4, <2>2, OldTwins
<1>6. CASE w.number = highest[w.base] + 1
  <2>1. CASE <<b, n>> = <<w.base, w.number>>
    <3>1. Moves(s, c, k, w.base)'
      BY <1>1, <1>3, <1>4, <1>6, <2>1, NewTwin
    <3> QED
      BY <2>1, <3>1
  <2>2. CASE <<c, k>> = <<w.base, w.number>>
    <3>1. Moves(s, b, n, w.base)'
      BY <1>1, <1>3, <1>4, <1>6, <2>2, NewTwin
    <3> QED
      BY <2>2, <3>1
  <2>3. CASE <<b, n>> # <<w.base, w.number>> /\ <<c, k>> # <<w.base, w.number>>
    <3>1. Twins(b, n, c, k)
      BY <1>3, <1>4, <2>3 DEF Twins
    <3> QED
      BY <1>1, <1>4, <3>1, OldTwins
  <2> QED
    BY <2>1, <2>2, <2>3
<1> QED
  BY <1>2, <1>5, <1>6 DEF Due

\* A session that is between two operations, or waits, makes no move.
LEMMA OnlyWritersStop ==
    ASSUME IInv, NEW s \in Sessions, Answers(s) \/ Locks(s), NEW r \in Sessions, At(r, "Writing")
    PROVE  task'[r] = task[r]
<1>1. task \in [Sessions -> Session] /\ task[r].stage = "Writing"
  BY DEF IInv, TypeOK, At
<1>2. ASSUME NEW t, GoesOn(s, t), r # s PROVE task'[r] = task[r]
  BY <1>1, <1>2 DEF GoesOn
<1>3. ASSUME NEW t, NEW b, Begins(s, t, b), r # s PROVE task'[r] = task[r]
  BY <1>1, <1>3 DEF Begins, Ends
<1>4. r # s \/ TakeFirstLock(s)
  BY <1>1 DEF Answers, Locks, Join, AskToMove, BeginRead, BeginPost, OpenAtPointer, BeginOption,
              Leave, Advance, Show, BeginMove, At
<1>5. ASSUME Answers(s), r # s PROVE task'[r] = task[r]
  BY <1>2, <1>3, <1>5 DEF Answers, Join, AskToMove, BeginRead, BeginPost, OpenAtPointer,
                          BeginOption, Leave
<1>6. ASSUME Locks(s), r # s PROVE task'[r] = task[r]
  BY <1>2, <1>3, <1>6 DEF Locks, Advance, Show, TakeFirstLock, BeginMove
<1> QED
  BY <1>4, <1>5, <1>6 DEF TakeFirstLock

\* A move that panics had a message to delete that was deleted already, and
\* its copy is as deleted.
LEMMA PanicLeavesNoTwin ==
    ASSUME IInv, NEW s \in Sessions, Panics(s), NEW b, NEW n, NEW c, Moves(s, b, n, c)
    PROVE  ~ IsLive(files[b][n])
<1> DEFINE t == task[s]
           mail == Source(t)
<1>1. At(s, "Writing") /\ t.op = "move" /\ Len(t.writes) <= 2 /\ Head(t.writes) = Panic
  BY DEF Moves, Panics
<1>2. mail \in Mail /\ t.target \in Bases /\ OwesMove(t, mail, files[t.target], highest[t.target])
  BY <1>1, MoveOwes
<1> HIDE DEF mail
<1>3. ASSUME NEW x, NEW y, NEW z PROVE t.writes # <<x, y, z>>
  <2>1. Len(<<x, y, z>>) = 3
    OBVIOUS
  <2>2. ~ (Len(t.writes) = 3)
    <3>1. \A k : k = 3 => ~ (k <= 2)
      OBVIOUS
    <3> QED
      BY <1>1, <3>1, Zenon
  <2> QED
    BY <2>1, <2>2, Zenon
<1>4. t.writes = <<LastOfMove(t, mail)>>
  <2>1. ASSUME NEW i \in Numbers, t.writes = <<Write(t.target, i, mail), LastOfMove(t, mail)>>
        PROVE  FALSE
    <3>1. Head(t.writes) = Write(t.target, i, mail)
      BY <2>1
    <3> QED
      BY <1>1, <1>2, <3>1, WriteIsStep
  <2> QED
    BY <1>2, <1>3, <2>1, Zenon DEF OwesMove
<1>5. LastOfMove(t, mail) = Panic
  BY <1>1, <1>4
<1>6. IsDeleted(mail)
  <2>1. CASE ~ IsDeleted(mail)
    <3>1. t.base \in Bases /\ t.loaded \in Numbers /\ SoftDeleted(mail) \in Mail
      BY <1>1, <1>2, Writer, MoveOwes, DeletedHasNoReceipt
    <3> QED
      BY <1>5, <2>1, <3>1, WriteIsStep DEF LastOfMove
  <2> QED
    BY <2>1
<1> QED
  BY <1>6, MoverHolds DEF IsLive, mail

LEMMA TwinsAreMovedKept == MovesInv /\ [Next]_vars => TwinsAreMoved'
<1> SUFFICES ASSUME MovesInv, [Next]_vars, faults' = 0,
                    NEW b \in Bases, NEW c \in Bases, NEW n \in Numbers, NEW k \in Numbers,
                    Twins(b, n, c, k)'
             PROVE  \E r \in Sessions : (Moves(r, b, n, c) \/ Moves(r, c, k, b))'
  BY DEF TwinsAreMoved
<1>1. IInv /\ faults \in Nat
  BY DEF MovesInv, IInv, TypeOK
<1>2. ASSUME UNCHANGED <<files, faults>>,
             \A r \in Sessions, d, e \in Bases, i, j \in Numbers :
               Moves(r, d, i, e) /\ Twins(d, i, e, j) => task'[r] = task[r]
      PROVE  \E r \in Sessions : (Moves(r, b, n, c) \/ Moves(r, c, k, b))'
  <2>1. Twins(b, n, c, k) /\ Twins(c, k, b, n) /\ faults = 0
    BY <1>2 DEF Twins
  <2>2. PICK r \in Sessions : Moves(r, b, n, c) \/ Moves(r, c, k, b)
    BY <2>1 DEF MovesInv, TwinsAreMoved
  <2>3. task'[r] = task[r]
    BY <1>2, <2>1, <2>2
  <2> QED
    BY <2>2, <2>3 DEF Moves, At
<1>3. CASE UNCHANGED vars
  BY <1>2, <1>3 DEF vars
<1>4. ASSUME NEW s \in Sessions, Answers(s) \/ Locks(s)
      PROVE  \E r \in Sessions : (Moves(r, b, n, c) \/ Moves(r, c, k, b))'
  <2>1. UNCHANGED <<files, faults>>
    BY <1>4 DEF Answers, Locks, Join, AskToMove, BeginRead, BeginPost, OpenAtPointer,
                BeginOption, Leave, Advance, Show, TakeFirstLock, BeginMove, GoesOn, Begins
  <2>2. \A r \in Sessions : At(r, "Writing") => task'[r] = task[r]
    BY <1>1, <1>4, OnlyWritersStop
  <2> QED
    BY <1>2, <2>1, <2>2 DEF Moves
<1>5. ASSUME NEW s \in Sessions, Panics(s)
      PROVE  \E r \in Sessions : (Moves(r, b, n, c) \/ Moves(r, c, k, b))'
  <2>1. UNCHANGED <<files, faults>>
    BY <1>5 DEF Panics
  <2>2. \A r \in Sessions \ {s} : task'[r] = task[r]
    BY <1>1, <1>5 DEF Panics, IInv, TypeOK
  <2>3. \A d, e \in Bases, i, j \in Numbers : ~ (Moves(s, d, i, e) /\ Twins(d, i, e, j))
    BY <1>1, <1>5, PanicLeavesNoTwin DEF Twins
  <2> QED
    BY <1>2, <2>1, <2>2, <2>3
<1>6. ASSUME NEW s \in Sessions, WriteFile(s)
      PROVE  \E r \in Sessions : (Moves(r, b, n, c) \/ Moves(r, c, k, b))'
  BY <1>6, TwinsMovedByWrite
<1>7. (\E s \in Sessions : WriteFails(s)) \/ Crash => faults' # 0
  <2>1. (\E s \in Sessions : WriteFails(s)) \/ Crash => faults' = faults + 1
    BY DEF WriteFails, Crash
  <2>2. faults + 1 # 0
    BY <1>1
  <2> QED
    BY <2>1, <2>2
<1> QED
  BY <1>3, <1>4, <1>5, <1>6, <1>7 DEF Next, Runs

LEMMA InitMoves == Init => MovesInv
<1> SUFFICES ASSUME Init PROVE MovesInv
  OBVIOUS
<1>1. IInv /\ files \in Seeds
  BY InitInvariant DEF Init
<1>2. PostedBelow
  <2> SUFFICES ASSUME NEW b \in Bases, NEW n \in Numbers, IsMail(files[b][n])
               PROVE  files[b][n].body[2] <= highest[files[b][n].body[1]]
    BY DEF PostedBelow
  <2>1. files[b][n].body[1] \in Bases /\ files[b][n].body[2] \in Numbers
    BY <1>1, Readable, BodyIsPlace
  <2>2. IsMail(files[files[b][n].body[1]][files[b][n].body[2]])
    BY <1>1, SeedsAssumption
  <2> QED
    BY <1>1, <2>1, <2>2, Readable
<1>3. TwinsAreMoved
  BY <1>1, SeedsAssumption DEF TwinsAreMoved, Twins
<1> QED
  BY <1>1, <1>2, <1>3 DEF MovesInv

\* While nothing failed, MovesInv: two copies of a message are the ends of a
\* move under way, in every reachable state.
THEOREM MovesInvariant == Spec => []MovesInv
<1>1. MovesInv /\ [Next]_vars => MovesInv'
  BY NextInvariant, PostedBelowKept, TwinsAreMovedKept DEF MovesInv
<1> QED
  BY <1>1, InitMoves, PTL DEF Spec

\* While no write failed, a message is in two places only inside the move
\* that holds the locks of both bases (lock_pair).
THEOREM NeverCopiedApart == Spec => []InOnePlace
<1>1. MovesInv => InOnePlace
  <2> SUFFICES ASSUME MovesInv, faults = 0,
                      NEW b \in Bases, NEW c \in Bases, NEW n \in Numbers, NEW k \in Numbers,
                      Twins(b, n, c, k)
               PROVE  \E s \in Sessions : At(s, "Writing") /\ {b, c} = Held(s)
    BY DEF InOnePlace, Twins
  <2>1. PICK s \in Sessions : Moves(s, b, n, c) \/ Moves(s, c, k, b)
    BY DEF MovesInv, TwinsAreMoved
  <2>2. IInv
    BY DEF MovesInv
  <2> QED
    BY <2>1, <2>2, MoverHolds
<1> QED
  BY <1>1, MovesInvariant, PTL

----------------------------------------------------------------------------
(* Nothing is lost but by a deletion or a cut.                             *)

Kills(s, mail) ==
    task[s].op = "kill" /\ mail \in Loaded(task[s]) /\ CanDelete(UserOf[s], mail)
StandsElsewhere(b, mail) == \E c \in Bases, n \in Numbers : c # b /\ files[c][n] = mail

\* A write leaves the message that stood there as live as it was, unless it
\* is deleted; the move that deletes it has its copy.
LEMMA WriteKeepsOrKills ==
    ASSUME IInv, NEW s \in Sessions, Writes(s), NEW w, w = Head(task[s].writes),
           NEW old, old = files[w.base][w.number], IsLive(old)
    PROVE  \/ IsLive(w.mail) /\ w.mail.body = old.body
           \/ Kills(s, old)
           \/ StandsElsewhere(w.base, old)
<1> DEFINE t == task[s]
           u == UserOf[s]
<1>1. /\ t \in Session /\ Owes(t, u, files, highest) /\ t.base \in Bases /\ t.base # t.target
      /\ w.base \in Bases /\ w.number \in Numbers /\ w.mail \in Mail
      /\ highest[w.base] \in Int
  <2>1. At(s, "Writing")
    BY DEF Writes
  <2>2. w.base \in Bases /\ w.number \in Numbers /\ w.mail \in Mail
    BY HeadIsDue
  <2> QED
    BY <2>1, <2>2, Writer DEF IInv, TypeOK
<1>2. old \in Mail /\ IsMail(old) /\ ~ IsDeleted(old)
  BY <1>1, Readable DEF IsLive
<1>3. CASE Number(t) \in Numbers /\ OwesChange(t, u, files[t.base][Number(t)])
  <2> DEFINE file == files[t.base][Number(t)]
  <2>1. PICK new \in Mail :
          /\ t.writes = <<Write(t.base, Number(t), new)>>
          /\ \/ t.op \in Reads /\ new = RecordReadBy(u, file)
             \/ t.op = "kill" /\ CanDelete(u, file)
             \/ t.op = "edit" /\ \E to \in Users : new \in {file, [file EXCEPT !.addressee = to]}
    BY <1>3 DEF OwesChange
  <2>2. w = Write(t.base, Number(t), new)
    BY <2>1
  <2>3. w.base = t.base /\ w.number = Number(t) /\ w.mail = new /\ old = file
    BY <2>2 DEF Write
  <2> HIDE DEF file
  <2>4. CASE t.op \in Reads /\ new = RecordReadBy(u, file)
    BY <1>2, <2>3, <2>4 DEF RecordReadBy, Mail, IsLive, IsMail, IsDeleted
  <2>5. CASE t.op = "kill" /\ CanDelete(u, file)
    BY <1>2, <1>3, <2>3, <2>5 DEF Kills, Loaded, file
  <2>6. CASE \E to \in Users : new \in {file, [file EXCEPT !.addressee = to]}
    BY <1>2, <2>3, <2>6 DEF Mail, IsLive, IsMail, IsDeleted
  <2> QED
    BY <2>1, <2>4, <2>5, <2>6
<1>4. w.number # highest[w.base] + 1
  <2>1. w.number <= highest[w.base]
    BY <1>1, <1>2, Readable
  <2> QED
    BY <1>1, <2>1 DEF Numbers
<1>5. CASE t.op = "move"
  <2> DEFINE mail == Source(t)
  <2>1. /\ t.target \in Bases /\ t.loaded \in Numbers /\ mail \in Mail
        /\ OwesMove(t, mail, files[t.target], highest[t.target])
    BY <1>5, MoveOwes DEF Writes
  <2> HIDE DEF mail
  <2>2. CASE Len(t.writes) = 1
    <3>1. w = Write(t.base, t.loaded, SoftDeleted(mail))
          /\ \E n \in Numbers : files[t.target][n] = mail
      BY <1>5, <2>2, LastDeletes DEF mail
    <3>2. w.base = t.base /\ w.number = t.loaded
      BY <3>1 DEF Write
    <3> QED
      BY <1>1, <2>1, <3>1, <3>2 DEF mail, Source, StandsElsewhere
  <2>3. CASE \E n \in Numbers : /\ files[t.target][n] = Copy(mail)
                               /\ t.writes = <<Write(t.target, n, mail), LastOfMove(t, mail)>>
    <3>1. PICK n \in Numbers : /\ files[t.target][n] = Copy(mail)
                               /\ t.writes = <<Write(t.target, n, mail), LastOfMove(t, mail)>>
      BY <2>3
    <3>2. w = Write(t.target, n, mail)
      BY <3>1
    <3>3. w.base = t.target /\ w.number = n /\ w.mail = mail
      BY <3>2 DEF Write
    <3>4. old = Copy(mail)
      BY <3>1, <3>3
    <3> QED
      BY <2>1, <3>3, <3>4, CopyIsTwin
  <2>4. CASE t.writes = <<Write(t.target, highest[t.target] + 1, Copy(mail)),
                          Write(t.target, highest[t.target] + 1, mail), LastOfMove(t, mail)>>
    <3> HIDE DEF t
    <3>1. Head(t.writes) = Write(t.target, highest[t.target] + 1, Copy(mail))
      <4>1. \A x, y, z : Head(<<x, y, z>>) = x
        OBVIOUS
      <4> QED
        BY <2>4, <4>1, Zenon
    <3>2. w.base = t.target /\ w.number = highest[t.target] + 1
      BY <3>1 DEF Write, t
    <3> QED
      BY <1>4, <3>2
  <2>5. t.writes = <<LastOfMove(t, mail)>> => Len(t.writes) = 1
    <3>1. \A x : Len(<<x>>) = 1
      OBVIOUS
    <3> QED
      BY <3>1, Zenon
  <2> QED
    BY <2>1, <2>2, <2>3, <2>4, <2>5 DEF OwesMove
<1>6. ~ OwesPost(t, highest[t.base])
  <2> SUFFICES ASSUME OwesPost(t, highest[t.base]) PROVE FALSE
    OBVIOUS
  <2>1. PICK new \in Mail : t.writes = <<Write(t.base, highest[t.base] + 1, new)>>
    BY DEF OwesPost
  <2>2. Head(t.writes) = Write(t.base, highest[t.base] + 1, new)
    <3>1. \A x : Head(<<x>>) = x
      OBVIOUS
    <3> QED
      BY <2>1, <3>1, Zenon
  <2>3. w.base = t.base /\ w.number = highest[t.base] + 1
    BY <2>2 DEF Write
  <2> QED
    BY <1>4, <2>3
<1>7. OwesMove(t, files[t.base][t.loaded], files[t.target], highest[t.target]) => t.op = "move"
  BY DEF OwesMove
<1> HIDE DEF t, u
<1> QED
  BY <1>1, <1>3, <1>5, <1>6, <1>7 DEF Owes

\* A message that can be read can be read until somebody who may deletes it
\* or a write to its own file is cut: at no point of a move is it nowhere
\* (move_mail copies, then deletes).
THEOREM NeverNowhere == Spec => KeptUntilKilled
<1> DEFINE Killed(body) ==
      \/ \E s \in Sessions :
           /\ At(s, "Writing") /\ task[s].op = "kill"
           /\ \E mail \in Loaded(task[s]) : mail.body = body /\ CanDelete(UserOf[s], mail)
      \/ \E b \in Bases, n \in Numbers :
           IsMail(files[b][n]) /\ files[b][n].body = body /\ files'[b][n] = Torn
<1>1. ASSUME IInv, [Next]_vars, NEW body \in Bodies,
             LiveSomewhere(body), ~ LiveSomewhere(body)'
      PROVE  Killed(body)
  <2>1. PICK b \in Bases, n \in Numbers : IsLive(files[b][n]) /\ files[b][n].body = body
    BY <1>1 DEF LiveSomewhere
  <2>2. \A c \in Bases, k \in Numbers : ~ (IsLive(files'[c][k]) /\ files'[c][k].body = body)
    BY <1>1 DEF LiveSomewhere
  <2>3. files'[b][n] # files[b][n]
    BY <2>1, <2>2
  <2>4. files'[b][n] = Torn => Killed(body)
    BY <2>1 DEF IsLive
  <2>5. ASSUME NEW s \in Sessions, WriteFile(s) PROVE Killed(body)
    <3> PICK w : w = Head(task[s].writes)
      OBVIOUS
    <3>1. Writes(s) /\ At(s, "Writing") /\ files' = [files EXCEPT ![w.base][w.number] = w.mail]
      BY <2>5 DEF WriteFile, Writes
    <3>2. w.base \in Bases /\ w.number \in Numbers /\ w.mail \in Mail
      BY <1>1, <3>1, HeadIsDue
    <3>3. /\ files'[w.base][w.number] = w.mail
          /\ \A d \in Bases, i \in Numbers :
               d # w.base \/ i # w.number => files'[d][i] = files[d][i]
      BY <1>1, <3>1, <3>2 DEF IInv, TypeOK
    <3>4. b = w.base /\ n = w.number
      BY <2>3, <3>3
    <3>5. ~ (IsLive(w.mail) /\ w.mail.body = body)
      BY <2>2, <3>2, <3>3
    <3> PICK old : old = files[w.base][w.number]
      OBVIOUS
    <3>6. IsLive(old) /\ old.body = body
      BY <2>1, <3>4
    <3>7. ~ StandsElsewhere(w.base, old)
      <4> SUFFICES ASSUME NEW d \in Bases, NEW i \in Numbers, d # w.base, files[d][i] = old
                   PROVE  FALSE
        BY DEF StandsElsewhere
      <4>1. files'[d][i] = old
        BY <3>3
      <4> QED
        BY <2>2, <3>6, <4>1
    <3>8. Kills(s, old)
      BY <1>1, <3>1, <3>5, <3>6, <3>7, WriteKeepsOrKills
    <3> QED
      BY <3>1, <3>6, <3>8 DEF Kills
  <2>6. ASSUME NEW s \in Sessions, WriteFails(s) PROVE files'[b][n] = Torn
    <3> PICK w : w = Head(task[s].writes)
      OBVIOUS
    <3>1. /\ Writes(s)
          /\ files' = files \/ files' = [files EXCEPT ![w.base][w.number] = Torn]
      BY <2>6 DEF WriteFails
    <3> QED
      BY <1>1, <2>3, <3>1 DEF IInv, TypeOK
  <2>7. Crash => files'[b][n] = Torn
    BY <1>1, <2>3, CrashTears
  <2> QED
    BY <1>1, <2>3, <2>4, <2>5, <2>6, <2>7, FilesOnlyWritten
<1>2. IInv /\ [Next]_vars =>
        [\A body \in Bodies : LiveSomewhere(body) /\ ~ LiveSomewhere(body)' => Killed(body)]_vars
  BY <1>1
<1> QED
  BY <1>2, Invariance, PTL DEF Spec, KeptUntilKilled
=============================================================================
