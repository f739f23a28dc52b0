--------------------------- MODULE CallersProofs ---------------------------
(* Proofs about Conferences: one visit in a granted conference, mail that is
   announced once and never passed over, a scan that leaves the caller where
   he was, and edits of scan flags that no other call undoes; and about
   MailDesk: words arrive as they were typed.

   The invariant of the first speaks of one session at a time; most actions
   give a call a session that has been nowhere new and scanned nothing, and
   one lemma is enough for all of these.                                   *)
EXTENDS Conferences, MailDesk, WellFoundedInduction, SequenceTheorems, TLAPS

----------------------------------------------------------------------------
(* The invariant.                                                           *)

Kinds == {"mine", "all", "seen", "other", "gone"}
Stages == {"out", "menu", "askConf", "askBase", "arriving", "scanning", "showing", "offer",
           "opening", "reading", "flags", "leaving", "ended"}
AccountCopies == [last : Places \cup {NoPlace}, read : [Places -> Nat], scanned : [Places -> Nat],
             flags : [Conferences -> SUBSET Flags]]
Wants == {None} \cup [base : Numbers \cup {None}]
                \cup [conference : Conferences, clamp : {TRUE, FALSE}]
Finds == [place : Places, rows : SUBSET (1 .. MaxMail)]
Sessions == [stage : Stages, account : AccountCopies, base : AccountCopies, open : Seq(Places),
             name : Range(NameTypeOf) \cup {None}, want : Wants, todo : SUBSET Places,
             found : Seq(Finds), home : Places \cup {NoPlace}, next : Nat]

TypeOK ==
    /\ mail \in [Places -> Seq(Kinds)] /\ \A p \in Places : Len(mail[p]) <= MaxMail
    /\ granted \subseteq Conferences
    /\ stored \in AccountCopies
    /\ call \in [Calls -> Sessions]
    /\ told \in [Calls -> [Places -> [1 .. MaxMail -> 0 .. 2]]]
    /\ passed \in [Calls -> [Places -> SUBSET Nat]]
    /\ editor \in [Conferences -> Calls \cup {None}]

GrantedPlaces == {p \in Places : p[1] \in granted}

\* Where the session is; home is set during a detour and only then.
Placed(session) ==
    session.stage \notin {"out", "ended"} =>
        /\ \E p \in GrantedPlaces :
              /\ session.open = <<p>>
              /\ session.account.last = IF session.home = NoPlace THEN p ELSE session.home
        /\ session.name = NameTypeOf[session.account.last[1]]
        /\ session.home \in GrantedPlaces \cup {NoPlace}
        /\ session.home # NoPlace => session.stage \in {"opening", "reading"}

\* What is to be scanned and what was found is in granted conferences, and
\* what was found lies below the scan pointer, each message in one listing.
Listed(session) ==
    /\ session.todo \subseteq GrantedPlaces
    /\ \A i \in 1 .. Len(session.found) :
         LET f == session.found[i] IN
         /\ f.place \in GrantedPlaces
         /\ f.rows # {} /\ \A n \in f.rows : n <= session.account.scanned[f.place]
         /\ \A j \in 1 .. Len(session.found) :
              i # j /\ session.found[j].place = f.place => session.found[j].rows \cap f.rows = {}

\* No pointer is ahead of the mail.
Within(account) == \A p \in Places : account.scanned[p] <= Len(mail[p])

\* Nothing above the pointer was told, nor what is still to be shown; what an
\* offer is about was.
Untold(session, toldOf) ==
    /\ \A p \in Places, n \in 1 .. MaxMail :
         toldOf[p][n] <= 1 /\ (n > session.account.scanned[p] => toldOf[p][n] = 0)
    /\ session.stage \notin {"leaving", "ended"} =>
         \A i \in 1 .. Len(session.found) :
           i # 1 \/ session.stage # "offer" => \A n \in session.found[i].rows :
             toldOf[session.found[i].place][n] = 0
    /\ session.stage = "offer" =>
         session.found # <<>> /\ \A n \in session.found[1].rows :
           toldOf[session.found[1].place][n] > 0

\* Every unread message below the pointer was told, passed by a read, or is
\* about to be told.
Covered(session, toldOf, passedOf) ==
    session.stage \notin {"out", "leaving", "ended"} =>
        \A p \in Places : \A n \in 1 .. session.account.scanned[p] :
            IsUnreadFor(mail[p][n]) =>
                \/ toldOf[p][n] > 0 \/ n \in passedOf[p]
                \/ \E i \in 1 .. Len(session.found) :
                     session.found[i].place = p /\ n \in session.found[i].rows

Sound(session, toldOf, passedOf) ==
    /\ session.stage = "out" => session = NoCall
    /\ Placed(session) /\ Listed(session) /\ Within(session.account)
    /\ Untold(session, toldOf) /\ Covered(session, toldOf, passedOf)

\* Whoever set the flags of a conference last has ended, so his copy stays.
Edits == \A n \in Conferences : editor[n] # None => At(editor[n], "ended")

IInv ==
    /\ TypeOK /\ Within(stored) /\ Edits /\ FlagEditsSurvive
    /\ \A c \in Calls : Sound(call[c], told[c], passed[c])

----------------------------------------------------------------------------
(* Numbers, the catalogue, and sequences of finds.                          *)

LEMMA MaxOfTwo ==
    ASSUME NEW a \in Nat, NEW b \in Nat
    PROVE  Max({a, b}) = IF a >= b THEN a ELSE b
<1> DEFINE larger == IF a >= b THEN a ELSE b
<1>1. larger \in {a, b} /\ \A y \in {a, b} : larger >= y
  OBVIOUS
<1>2. \A x \in {a, b} : (\A y \in {a, b} : x >= y) => x = larger
  OBVIOUS
<1> QED
  BY <1>1, <1>2 DEF Max

LEMMA MinOfSet ==
    ASSUME NEW S, S \subseteq Nat, S # {}
    PROVE  Min(S) \in S /\ \A y \in S : Min(S) <= y
<1>1. PICK x \in S : \A y \in S : ~ (<<y, x>> \in OpToRel(<, Nat))
  BY NatLessThanWellFounded, WFMin
<1>2. \A y \in S : x <= y
  <2> TAKE y \in S
  <2>1. x \in Nat /\ y \in Nat /\ <<y, x>> \in Nat \X Nat
    BY <1>1
  <2>2. ~ (y < x)
    BY <1>1, <2>1 DEF OpToRel
  <2> QED
    BY <2>1, <2>2
<1> QED
  BY <1>2 DEF Min

LEMMA PlaceIs ==
    /\ \A n \in Conferences : \A b \in Range(BasesOf[n]) :
         <<n, b>> \in Places /\ <<n, b>>[1] = n
    /\ \A p \in Places : p[1] \in Conferences
    /\ NoPlace \notin Places
<1>1. \A p \in Places : \E n \in Conferences : \E b \in Range(BasesOf[n]) : p = <<n, b>>
  BY DEF Places
<1>2. \A n, b : <<n, b>> # NoPlace /\ <<n, b>>[1] = n
  BY DEF NoPlace
<1> QED
  BY <1>1, <1>2 DEF Places

LEMMA BasesThere ==
    ASSUME NEW n \in Conferences
    PROVE  PrimaryMsgbase(n) \in Range(BasesOf[n])
<1>1. BasesOf[n] # <<>> /\ BasesOf[n] \in Seq(Nat)
  BY CatalogueAssumption
<1>2. Head(BasesOf[n]) = BasesOf[n][1] /\ 1 \in DOMAIN BasesOf[n]
  BY <1>1, EmptySeq, LenProperties
<1>3. Head(BasesOf[n]) \in Range(BasesOf[n])
  BY <1>2 DEF Range
<1> QED
  BY <1>3 DEF PrimaryMsgbase, Holds

LEMMA GrantedPlaceIs ==
    ASSUME granted \subseteq Conferences, NEW n \in granted, NEW b
    PROVE  /\ <<n, PrimaryMsgbase(n)>> \in GrantedPlaces
           /\ ResolvePlace(n, b) \in GrantedPlaces
           /\ <<n, PrimaryMsgbase(n)>>[1] = n /\ ResolvePlace(n, b)[1] = n
<1>1. n \in Conferences
  OBVIOUS
<1>2. PrimaryMsgbase(n) \in Range(BasesOf[n])
  BY <1>1, BasesThere
<1>3. (IF Holds(n, b) THEN b ELSE PrimaryMsgbase(n)) \in Range(BasesOf[n])
  BY <1>2 DEF Holds
<1> QED
  BY <1>1, <1>2, <1>3, PlaceIs DEF ResolvePlace, GrantedPlaces

LEMMA TailOfFinds ==
    ASSUME NEW finds \in Seq(Finds), finds # <<>>
    PROVE  /\ Tail(finds) \in Seq(Finds) /\ Len(Tail(finds)) = Len(finds) - 1
           /\ \A i \in 1 .. Len(Tail(finds)) : Tail(finds)[i] = finds[i + 1]
           /\ Head(finds) = finds[1] /\ Head(finds) \in Finds
           /\ 1 \in 1 .. Len(finds)
<1>1. Len(finds) \in Nat \ {0} /\ 1 \in 1 .. Len(finds) /\ Len(finds) \in 1 .. Len(finds)
  BY EmptySeq
<1>2. SubSeq(finds, 1, Len(finds)) = finds
  BY SubSeqFull
<1>3. Head(SubSeq(finds, 1, Len(finds))) = finds[1]
  BY <1>1, HeadTailOfSubSeq
<1> QED
  BY <1>1, <1>2, <1>3, HeadTailProperties

LEMMA OneVisit ==
    ASSUME NEW p
    PROVE  Head(<<p>>) = p /\ Len(<<p>>) = 1
  OBVIOUS

----------------------------------------------------------------------------
(* One session changes.                                                     *)

\* A session that has scanned nothing and found nothing new.
LEMMA StillSound ==
    ASSUME NEW old, NEW new, NEW toldOf, NEW passedOf,
           Sound(old, toldOf, passedOf), Placed(new),
           new.stage \notin {"out", "offer"}, new.found = old.found,
           new.todo \subseteq GrantedPlaces, new.account.scanned = old.account.scanned,
           new.stage \in {"leaving", "ended"} \/ old.stage \notin {"out", "leaving", "ended", "offer"}
    PROVE  Sound(new, toldOf, passedOf)
<1>1. Listed(new)
  BY DEF Sound, Listed
<1>2. Within(new.account)
  BY DEF Sound, Within
<1>3. Untold(new, toldOf)
  BY DEF Sound, Untold
<1>4. Covered(new, toldOf, passedOf)
  BY DEF Sound, Covered
<1> QED
  BY <1>1, <1>2, <1>3, <1>4 DEF Sound

\* Mail grows, and what was seen or deleted stays so.
MailAges ==
    \A p \in Places :
        /\ Len(mail[p]) <= Len(mail'[p])
        /\ \A n \in 1 .. Len(mail[p]) : IsUnreadFor(mail'[p][n]) => IsUnreadFor(mail[p][n])

LEMMA SoundAsMailAges ==
    ASSUME TypeOK, TypeOK', MailAges, granted' = granted,
           NEW session \in Sessions, NEW toldOf, NEW passedOf, Sound(session, toldOf, passedOf)
    PROVE  Sound(session, toldOf, passedOf)'
<1>1. \A p \in Places : Len(mail[p]) \in Nat /\ Len(mail'[p]) \in Nat
  BY LenProperties DEF TypeOK
<1>2. \A p \in Places : session.account.scanned[p] \in Nat
  BY DEF Sessions, AccountCopies
<1>3. \A p \in Places : session.account.scanned[p] <= Len(mail[p])
  BY DEF Sound, Within
<1>4. Within(session.account)'
  BY <1>1, <1>2, <1>3 DEF Within, MailAges
<1>5. \A p \in Places : \A n \in 1 .. session.account.scanned[p] :
        IsUnreadFor(mail'[p][n]) => IsUnreadFor(mail[p][n])
  BY <1>1, <1>2, <1>3 DEF MailAges
<1>6. Covered(session, toldOf, passedOf)'
  BY <1>5 DEF Sound, Covered
<1> QED
  BY <1>4, <1>6 DEF Sound, Placed, Listed, Untold, GrantedPlaces

\* What a step of one call has to show.
LEMMA CallsStaySound ==
    ASSUME TypeOK, TypeOK', \A d \in Calls : Sound(call[d], told[d], passed[d]), MailAges,
           granted' = granted, NEW c \in Calls, NEW new \in Sessions, NEW toldOf, NEW passedOf,
           call' = [call EXCEPT ![c] = new], toldOf = told'[c], passedOf = passed'[c],
           \A d \in Calls \ {c} : told'[d] = told[d] /\ passed'[d] = passed[d],
           Sound(new, toldOf, passedOf)
    PROVE  \A d \in Calls : Sound(call[d], told[d], passed[d])'
<1>1. ASSUME NEW d \in Calls \ {c}
      PROVE  Sound(call[d], told[d], passed[d])'
  <2>1. call'[d] = call[d] /\ call[d] \in Sessions
    BY DEF TypeOK
  <2>2. PICK session, t, s : session = call[d] /\ t = told[d] /\ s = passed[d]
    OBVIOUS
  <2>3. Sound(session, t, s)'
    BY <2>1, <2>2, SoundAsMailAges
  <2> QED
    BY <2>1, <2>2, <2>3
<1>2. Sound(new, toldOf, passedOf)'
  BY SoundAsMailAges
<1>3. call'[c] = new
  BY DEF TypeOK
<1> QED
  BY <1>1, <1>2, <1>3

LEMMA StoredStaysWithin ==
    ASSUME TypeOK, TypeOK', MailAges, Within(stored)
    PROVE  \A p \in Places : stored.scanned[p] <= Len(mail'[p])
<1>1. \A p \in Places : Len(mail[p]) \in Nat /\ Len(mail'[p]) \in Nat
  BY LenProperties DEF TypeOK
<1> QED
  BY <1>1 DEF TypeOK, Within, MailAges, AccountCopies

LEMMA StepKeeps ==
    ASSUME IInv, TypeOK', MailAges, NEW c \in Calls, NEW new \in Sessions,
           NEW toldOf, NEW passedOf, toldOf = told'[c], passedOf = passed'[c],
           call' = [call EXCEPT ![c] = new], UNCHANGED <<granted, stored, editor>>,
           \A d \in Calls \ {c} : told'[d] = told[d] /\ passed'[d] = passed[d],
           ~ At(c, "ended"), Sound(new, toldOf, passedOf)
    PROVE  IInv'
<1>1. \A d \in Calls \ {c} : call'[d] = call[d]
  BY DEF IInv, TypeOK
<1>2. \A d \in Calls : Sound(call[d], told[d], passed[d])'
  BY CallsStaySound DEF IInv
<1>3. Within(stored)'
  BY StoredStaysWithin DEF IInv, Within
<1>4. \A n \in Conferences : editor[n] # None =>
        editor[n] \in Calls \ {c} /\ call'[editor[n]] = call[editor[n]]
  BY <1>1 DEF IInv, TypeOK, Edits
<1>5. Edits'
  BY <1>4 DEF IInv, Edits, At
<1>6. FlagEditsSurvive'
  BY <1>4 DEF IInv, FlagEditsSurvive
<1> QED
  BY <1>2, <1>3, <1>5, <1>6 DEF IInv

LEMMA BecomesKeeps ==
    ASSUME IInv, NEW c \in Calls, NEW new \in Sessions, Becomes(c, new),
           ~ At(c, "ended"), Sound(new, told[c], passed[c])
    PROVE  IInv'
<1>1. MailAges
  BY LenProperties DEF MailAges, Becomes, IInv, TypeOK
<1>2. TypeOK'
  BY DEF Becomes, IInv, TypeOK
<1>3. PICK t, s : t = told[c] /\ s = passed[c]
  OBVIOUS
<1> QED
  BY <1>1, <1>2, <1>3, StepKeeps DEF Becomes

\* A session that stays where it is and has scanned nothing.
LEMMA StayingKeeps ==
    ASSUME IInv, NEW c \in Calls, NEW new \in Sessions, Becomes(c, new),
           call[c].stage \notin {"out", "leaving", "ended", "offer"},
           new.stage \notin {"out", "offer"},
           new.home # NoPlace => new.stage \in {"opening", "reading"},
           new.open = call[c].open, new.name = call[c].name, new.home = call[c].home,
           new.account.last = call[c].account.last,
           new.account.scanned = call[c].account.scanned,
           new.found = call[c].found, new.todo \subseteq GrantedPlaces
    PROVE  IInv'
<1>1. Sound(call[c], told[c], passed[c])
  BY DEF IInv
<1>2. Placed(new)
  BY <1>1 DEF Sound, Placed
<1>3. Sound(new, told[c], passed[c])
  BY <1>1, <1>2, StillSound
<1> QED
  BY <1>3, BecomesKeeps DEF At

LEMMA SessionTyped == IInv => \A c \in Calls :
    /\ call[c] \in Sessions /\ call[c].todo \subseteq GrantedPlaces
    /\ call[c].stage \notin {"out", "ended", "opening", "reading"} => call[c].home = NoPlace
  BY DEF IInv, TypeOK, Sound, Listed, Placed

\* The stages a session is in while it waits at the menu or a prompt of it.
Settled == {"menu", "askConf", "askBase", "arriving", "scanning", "showing", "flags"}

LEMMA AskingKeeps ==
    ASSUME IInv, NEW c \in Calls, call[c].stage \in Settled,
           NEW stage \in Stages \ {"out", "offer"}, NEW want \in Wants,
           \/ GoesTo(c, stage)
           \/ Becomes(c, [call[c] EXCEPT !.stage = stage, !.want = want])
    PROVE  IInv'
<1>1. call[c] \in Sessions /\ call[c].todo \subseteq GrantedPlaces /\ call[c].home = NoPlace
  BY SessionTyped DEF Settled
<1>2. [call[c] EXCEPT !.stage = stage] \in Sessions
  BY <1>1 DEF Sessions
<1>3. [call[c] EXCEPT !.stage = stage, !.want = want] \in Sessions
  BY <1>1 DEF Sessions
<1>4. CASE GoesTo(c, stage)
  <2> DEFINE new == [call[c] EXCEPT !.stage = stage]
  <2>1. /\ new.stage = stage /\ new.open = call[c].open /\ new.name = call[c].name
        /\ new.home = NoPlace /\ new.account = call[c].account
        /\ new.found = call[c].found /\ new.todo = call[c].todo
    BY <1>1 DEF Sessions
  <2> HIDE DEF new
  <2>2. Becomes(c, new) /\ new \in Sessions
    BY <1>2, <1>4 DEF GoesTo, new
  <2> QED
    BY <1>1, <2>1, <2>2, StayingKeeps DEF Settled
<1>5. CASE Becomes(c, [call[c] EXCEPT !.stage = stage, !.want = want])
  <2> DEFINE new == [call[c] EXCEPT !.stage = stage, !.want = want]
  <2>1. /\ new.stage = stage /\ new.open = call[c].open /\ new.name = call[c].name
        /\ new.home = NoPlace /\ new.account = call[c].account
        /\ new.found = call[c].found /\ new.todo = call[c].todo
    BY <1>1 DEF Sessions
  <2> HIDE DEF new
  <2>2. Becomes(c, new) /\ new \in Sessions
    BY <1>3, <1>5 DEF new
  <2> QED
    BY <1>1, <2>1, <2>2, StayingKeeps DEF Settled
<1> QED
  BY <1>4, <1>5

----------------------------------------------------------------------------
(* Joins, and the prompts on the way to them.                               *)

LEMMA JoinedIs ==
    ASSUME NEW session \in Sessions, NEW p \in Places
    PROVE  LET new == Joined(session, p) IN
           /\ new \in Sessions /\ new.open = <<p>> /\ new.account.last = p
           /\ new.account.scanned = session.account.scanned
           /\ new.account \in AccountCopies
           /\ new.name = NameTypeOf[p[1]] /\ new.stage = session.stage
           /\ new.home = session.home /\ new.found = session.found /\ new.todo = session.todo
<1> DEFINE account == [session.account EXCEPT !.last = p]
<1>1. /\ account \in AccountCopies /\ account.last = p
      /\ account.scanned = session.account.scanned
  BY DEF Sessions, AccountCopies
<1>2. NameTypeOf[p[1]] \in Range(NameTypeOf)
  BY PlaceIs, CatalogueAssumption DEF Range
<1>3. Joined(session, p) = [session EXCEPT !.account = account, !.name = NameTypeOf[p[1]],
                                           !.open = <<p>>]
  BY DEF Joined, Attach, Sessions
<1> HIDE DEF account
<1>4. <<p>> \in Seq(Places)
  OBVIOUS
<1> QED
  BY <1>1, <1>2, <1>3, <1>4 DEF Sessions

LEMMA JoinKeeps ==
    ASSUME IInv, NEW c \in Calls, call[c].stage \in Settled, NEW n, NEW b, ExplicitJoin(c, n, b)
    PROVE  IInv'
<1>1. call[c] \in Sessions /\ call[c].todo \subseteq GrantedPlaces /\ call[c].home = NoPlace
  BY SessionTyped DEF Settled
<1>2. CASE HasMembership(n)
  <2> DEFINE p == ResolvePlace(n, b)
             joined == Joined(call[c], p)
             new == [joined EXCEPT !.stage = "arriving", !.want = None]
  <2>1. p \in GrantedPlaces /\ p[1] = n /\ p \in Places
    BY <1>2, GrantedPlaceIs DEF IInv, TypeOK, HasMembership, GrantedPlaces
  <2> HIDE DEF p
  <2>2. /\ joined \in Sessions /\ joined.open = <<p>> /\ joined.account.last = p
        /\ joined.account.scanned = call[c].account.scanned
        /\ joined.name = NameTypeOf[p[1]] /\ joined.home = NoPlace
        /\ joined.found = call[c].found /\ joined.todo = call[c].todo
    BY <1>1, <2>1, JoinedIs
  <2> HIDE DEF joined
  <2>3. /\ new \in Sessions /\ new.stage = "arriving" /\ new.open = <<p>>
        /\ new.account = joined.account /\ new.name = joined.name
        /\ new.home = NoPlace /\ new.found = call[c].found /\ new.todo = call[c].todo
    BY <2>2 DEF Sessions, Stages, Wants
  <2>4. Becomes(c, new)
    BY <1>2 DEF ExplicitJoin, new, joined, p
  <2> HIDE DEF new
  <2>5. Placed(new)
    BY <2>1, <2>2, <2>3 DEF Placed
  <2>6. Sound(new, told[c], passed[c])
    <3>1. Sound(call[c], told[c], passed[c])
      BY DEF IInv
    <3>2. call[c].stage \notin {"out", "leaving", "ended", "offer"}
      BY DEF Settled
    <3> QED
      BY <1>1, <2>2, <2>3, <2>5, <3>1, <3>2, StillSound
  <2> QED
    BY <2>3, <2>4, <2>6, BecomesKeeps DEF At, Settled
<1>3. CASE ~ HasMembership(n)
  <2>1. Becomes(c, [call[c] EXCEPT !.stage = "menu", !.want = None])
    BY <1>3 DEF ExplicitJoin
  <2> QED
    BY <2>1, AskingKeeps DEF Stages, Wants
<1> QED
  BY <1>2, <1>3

LEMMA WantsAre ==
    /\ None \in Wants
    /\ \A b \in Numbers \cup {None} : [base |-> b] \in Wants
    /\ \A n \in Conferences : /\ [conference |-> n, clamp |-> TRUE] \in Wants
                              /\ [conference |-> n, clamp |-> FALSE] \in Wants
  BY DEF Wants

LEMMA AskConferenceKeeps ==
    ASSUME IInv, NEW c \in Calls, call[c].stage \in Settled, NEW b \in Numbers \cup {None},
           AskConference(c, b)
    PROVE  IInv'
  BY AskingKeeps, WantsAre DEF AskConference, Stages

LEMMA TargetKeeps ==
    ASSUME IInv, NEW c \in Calls, call[c].stage \in Settled, NEW n, NEW b, Target(c, n, b)
    PROVE  IInv'
<1>1. CASE ExplicitJoin(c, n, 0) \/ ExplicitJoin(c, n, b)
  BY <1>1, JoinKeeps
<1>2. CASE GoesTo(c, "menu")
  BY <1>2, AskingKeeps, WantsAre DEF Stages
<1>3. CASE /\ HasMembership(n)
           /\ Becomes(c, [call[c] EXCEPT !.stage = "askBase",
                                         !.want = [conference |-> n, clamp |-> FALSE]])
  <2>1. n \in Conferences
    BY <1>3 DEF IInv, TypeOK, HasMembership
  <2> QED
    BY <1>3, <2>1, AskingKeeps, WantsAre DEF Stages
<1> QED
  BY <1>1, <1>2, <1>3 DEF Target

\* The session is in a conference of its account.
LEMMA CurrentIs ==
    ASSUME IInv, NEW c \in Calls, call[c].stage \notin {"out", "ended"}
    PROVE  /\ Current(call[c]) \in GrantedPlaces /\ call[c].open = <<Current(call[c])>>
           /\ CurrentConference(c) \in granted /\ CurrentConference(c) \in Conferences
<1>1. PICK p \in GrantedPlaces : call[c].open = <<p>>
  BY DEF IInv, Sound, Placed
<1>2. Current(call[c]) = p
  BY <1>1, OneVisit DEF Current
<1> QED
  BY <1>1, <1>2, PlaceIs DEF CurrentConference, GrantedPlaces

LEMMA JoinBaseKeeps ==
    ASSUME IInv, NEW c \in Calls, call[c].stage = "menu", NEW b, JoinBase(c, b)
    PROVE  IInv'
<1>1. CurrentConference(c) \in Conferences /\ call[c].stage \in Settled
  BY CurrentIs DEF Settled
<1>2. CASE GoesTo(c, "menu")
  BY <1>1, <1>2, AskingKeeps, WantsAre DEF Stages
<1>3. CASE ExplicitJoin(c, CurrentConference(c), b)
  BY <1>1, <1>3, JoinKeeps
<1>4. CASE AskBase(c, CurrentConference(c))
  BY <1>1, <1>4, AskingKeeps, WantsAre DEF AskBase, Stages
<1> QED
  BY <1>2, <1>3, <1>4 DEF JoinBase

LEMMA JoiningKeeps ==
    ASSUME IInv, NEW c \in Calls,
           \/ \E n \in Numbers \cup {None}, b \in Numbers \cup {None} : JoinCommand(c, n, b)
           \/ \E answer \in Numbers \cup {None} : AnswerConference(c, answer) \/ AnswerBase(c, answer)
           \/ \E b \in Numbers \cup {None} : JoinMsgbaseCommand(c, b)
           \/ PrevConference(c) \/ NextConference(c) \/ PrevMsgbase(c) \/ NextMsgbase(c)
    PROVE  IInv'
<1>1. ASSUME NEW n \in Numbers \cup {None}, NEW b \in Numbers \cup {None}, JoinCommand(c, n, b)
      PROVE  IInv'
  BY <1>1, TargetKeeps, AskConferenceKeeps DEF JoinCommand, At, Settled
<1>2. ASSUME NEW answer, AnswerConference(c, answer) PROVE IInv'
  BY <1>2, TargetKeeps, AskingKeeps, WantsAre DEF AnswerConference, At, Settled, Stages
<1>3. ASSUME NEW answer, AnswerBase(c, answer) PROVE IInv'
  BY <1>3, JoinKeeps, AskingKeeps, WantsAre DEF AnswerBase, At, Settled, Stages
<1>4. ASSUME NEW b, JoinMsgbaseCommand(c, b) PROVE IInv'
  BY <1>4, JoinBaseKeeps DEF JoinMsgbaseCommand, At
<1>5. CASE PrevConference(c) \/ NextConference(c)
  BY <1>5, JoinKeeps, AskConferenceKeeps
     DEF PrevConference, NextConference, AsksToWalk, WalkConferences, At, Settled
<1>6. CASE PrevMsgbase(c) \/ NextMsgbase(c)
  BY <1>6, JoinKeeps, JoinBaseKeeps DEF PrevMsgbase, NextMsgbase, AsksToWalk, StepMsgbase, At, Settled
<1> QED
  BY <1>1, <1>2, <1>3, <1>4, <1>5, <1>6

----------------------------------------------------------------------------
(* Reading, and the end of a read or of the call.                           *)

LEMMA EndReadIs ==
    ASSUME NEW session \in Sessions, Placed(session), session.stage \notin {"out", "ended"}
    PROVE  LET new == EndRead(session) IN
           /\ new \in Sessions /\ new.stage \in {"menu", "showing"} /\ new.home = NoPlace
           /\ new.open = IF session.home = NoPlace THEN session.open ELSE <<session.home>>
           /\ new.account = session.account /\ new.name = session.name
           /\ new.found = session.found /\ new.todo = session.todo /\ Placed(new)
<1> DEFINE new == EndRead(session)
<1>1. CASE session.home = NoPlace
  <2>1. new = [session EXCEPT !.stage = "menu", !.next = 0]
    BY <1>1 DEF EndRead
  <2> HIDE DEF new
  <2>2. /\ new \in Sessions /\ new.stage = "menu" /\ new.home = NoPlace
        /\ new.open = session.open /\ new.account = session.account /\ new.name = session.name
        /\ new.found = session.found /\ new.todo = session.todo
    BY <1>1, <2>1 DEF Sessions, Stages
  <2>3. Placed(new)
    BY <1>1, <2>2 DEF Placed
  <2> QED
    BY <1>1, <2>2, <2>3 DEF new
<1>2. CASE session.home # NoPlace
  <2>1. new = [session EXCEPT !.open = <<session.home>>, !.stage = "showing",
                              !.home = NoPlace, !.next = 0]
    BY <1>2 DEF EndRead, Attach, Sessions
  <2>2. session.home \in GrantedPlaces /\ session.home \in Places
    BY <1>2 DEF Placed, GrantedPlaces
  <2>3. <<session.home>> \in Seq(Places)
    BY <2>2
  <2> HIDE DEF new
  <2>4. /\ new \in Sessions /\ new.stage = "showing" /\ new.home = NoPlace
        /\ new.open = <<session.home>> /\ new.account = session.account /\ new.name = session.name
        /\ new.found = session.found /\ new.todo = session.todo
    BY <2>1, <2>3 DEF Sessions, Stages
  <2>5. Placed(new)
    BY <1>2, <2>2, <2>4 DEF Placed
  <2> QED
    BY <1>2, <2>4, <2>5 DEF new
<1> QED
  BY <1>1, <1>2

LEMMA EndReadKeeps ==
    ASSUME IInv, NEW c \in Calls, call[c].stage \in {"opening", "reading"},
           Becomes(c, EndRead(call[c]))
    PROVE  IInv'
<1> DEFINE new == EndRead(call[c])
<1>1. /\ call[c] \in Sessions /\ Sound(call[c], told[c], passed[c]) /\ Placed(call[c])
      /\ call[c].todo \subseteq GrantedPlaces
  BY DEF IInv, TypeOK, Sound, Listed
<1>2. /\ new \in Sessions /\ new.stage \in {"menu", "showing"} /\ Placed(new)
      /\ new.account = call[c].account /\ new.found = call[c].found /\ new.todo = call[c].todo
  BY <1>1, EndReadIs
<1> HIDE DEF new
<1>3. Sound(new, told[c], passed[c])
  BY <1>1, <1>2, StillSound
<1> QED
  BY <1>2, <1>3, BecomesKeeps DEF At, new

LEMMA HangsUpKeeps ==
    ASSUME IInv, NEW c \in Calls, call[c].stage \notin {"out", "ended"}, HangsUp(c)
    PROVE  IInv'
<1> DEFINE back == EndRead(call[c])
           new == [back EXCEPT !.stage = "leaving"]
<1>1. /\ call[c] \in Sessions /\ Sound(call[c], told[c], passed[c]) /\ Placed(call[c])
      /\ call[c].todo \subseteq GrantedPlaces
  BY DEF IInv, TypeOK, Sound, Listed
<1>2. /\ back \in Sessions /\ back.stage \in {"menu", "showing"} /\ Placed(back)
      /\ back.home = NoPlace /\ back.account = call[c].account
      /\ back.found = call[c].found /\ back.todo = call[c].todo
  BY <1>1, EndReadIs
<1>3. Becomes(c, new)
  BY DEF HangsUp
<1> HIDE DEF back
<1>4. /\ new \in Sessions /\ new.stage = "leaving" /\ new.home = NoPlace
      /\ new.open = back.open /\ new.name = back.name /\ new.account = back.account
      /\ new.found = back.found /\ new.todo = back.todo
  BY <1>2 DEF Sessions, Stages
<1> HIDE DEF new
<1>5. Placed(new)
  BY <1>2, <1>4 DEF Placed
<1>6. Sound(new, told[c], passed[c])
  BY <1>1, <1>2, <1>4, <1>5, StillSound
<1> QED
  BY <1>3, <1>4, <1>6, BecomesKeeps DEF At

\* The number a read goes on to.
LEMMA ReadingOnKeeps ==
    ASSUME IInv, NEW c \in Calls, call[c].stage \in {"menu", "reading"}, NEW n \in Nat,
           \/ Becomes(c, [call[c] EXCEPT !.stage = "opening", !.next = n])
           \/ Becomes(c, [call[c] EXCEPT !.stage = "reading", !.next = n])
           \/ call[c].stage = "reading" /\ Becomes(c, [call[c] EXCEPT !.next = n])
    PROVE  IInv'
<1>1. /\ call[c] \in Sessions /\ call[c].todo \subseteq GrantedPlaces
  BY SessionTyped
<1>2. ASSUME NEW stage \in {"opening", "reading"},
             Becomes(c, [call[c] EXCEPT !.stage = stage, !.next = n])
      PROVE  IInv'
  <2> DEFINE new == [call[c] EXCEPT !.stage = stage, !.next = n]
  <2>1. /\ new \in Sessions /\ new.stage = stage /\ new.open = call[c].open
        /\ new.name = call[c].name /\ new.home = call[c].home /\ new.account = call[c].account
        /\ new.found = call[c].found /\ new.todo = call[c].todo
    BY <1>1 DEF Sessions, Stages
  <2> HIDE DEF new
  <2> QED
    BY <1>1, <1>2, <2>1, StayingKeeps DEF new
<1>3. CASE call[c].stage = "reading" /\ Becomes(c, [call[c] EXCEPT !.next = n])
  <2> DEFINE new == [call[c] EXCEPT !.next = n]
  <2>1. /\ new \in Sessions /\ new.stage = "reading" /\ new.open = call[c].open
        /\ new.name = call[c].name /\ new.home = call[c].home /\ new.account = call[c].account
        /\ new.found = call[c].found /\ new.todo = call[c].todo
    BY <1>1, <1>3 DEF Sessions, Stages
  <2> HIDE DEF new
  <2> QED
    BY <1>1, <1>3, <2>1, StayingKeeps DEF new
<1> QED
  BY <1>2, <1>3

LEMMA LowestIs ==
    ASSUME TypeOK, NEW p \in Places
    PROVE  LowestUndeleted(p) \in Nat
<1>1. Len(mail[p]) \in Nat /\ DOMAIN mail[p] = 1 .. Len(mail[p])
  BY LenProperties DEF TypeOK
<1> DEFINE S == {n \in DOMAIN mail[p] : mail[p][n] # "gone"} \cup {Len(mail[p]) + 1}
<1>2. S \subseteq Nat /\ S # {}
  BY <1>1
<1>3. Min(S) \in S
  BY <1>2, MinOfSet
<1> QED
  BY <1>2, <1>3 DEF LowestUndeleted

LEMMA ReadAtPointerKeeps ==
    ASSUME IInv, NEW c \in Calls, ReadAtPointer(c)
    PROVE  IInv'
<1>1. call[c].stage = "menu"
  BY DEF ReadAtPointer, At
<1> DEFINE p == Current(call[c])
<1>2. p \in Places
  BY <1>1, CurrentIs DEF GrantedPlaces
<1>3. LowestUndeleted(p) \in Nat /\ call[c].account.read[p] + 1 \in Nat
  <2>1. TypeOK /\ call[c] \in Sessions
    BY DEF IInv, TypeOK
  <2>2. call[c].account \in AccountCopies
    BY <2>1 DEF Sessions
  <2> HIDE DEF p
  <2> QED
    BY <1>2, <2>1, <2>2, LowestIs DEF AccountCopies
<1>4. Max({call[c].account.read[p] + 1, LowestUndeleted(p)}) \in Nat
  BY <1>3, MaxOfTwo
<1> QED
  BY <1>1, <1>4, ReadingOnKeeps DEF ReadAtPointer

----------------------------------------------------------------------------
(* A message that is read.                                                  *)

LEMMA ReadUpToIs ==
    ASSUME NEW account \in AccountCopies, NEW p \in Places, NEW n \in Nat
    PROVE  LET new == ReadUpTo(account, p, n) IN
           /\ new \in AccountCopies /\ new.last = account.last
           /\ new.scanned[p] = IF account.scanned[p] >= n THEN account.scanned[p] ELSE n
           /\ \A q \in Places \ {p} : new.scanned[q] = account.scanned[q]
<1>1. account.read[p] \in Nat /\ account.scanned[p] \in Nat
  BY DEF AccountCopies
<1>2. /\ Max({account.read[p], n}) = IF account.read[p] >= n THEN account.read[p] ELSE n
      /\ Max({account.scanned[p], n}) = IF account.scanned[p] >= n THEN account.scanned[p] ELSE n
  BY <1>1, MaxOfTwo
<1> DEFINE high == Max({account.read[p], n})
           scanned == Max({account.scanned[p], n})
<1>3. high \in Nat /\ scanned \in Nat
  BY <1>1, <1>2
<1>4. ReadUpTo(account, p, n) = [account EXCEPT !.read = [account.read EXCEPT ![p] = high],
                                               !.scanned = [account.scanned EXCEPT ![p] = scanned]]
  BY DEF ReadUpTo, AccountCopies
<1> HIDE DEF high, scanned
<1>5. /\ [account.read EXCEPT ![p] = high] \in [Places -> Nat]
      /\ [account.scanned EXCEPT ![p] = scanned] \in [Places -> Nat]
      /\ [account.scanned EXCEPT ![p] = scanned][p] = scanned
      /\ \A q \in Places \ {p} : [account.scanned EXCEPT ![p] = scanned][q] = account.scanned[q]
  BY <1>3 DEF AccountCopies
<1> QED
  BY <1>2, <1>4, <1>5 DEF AccountCopies, scanned

LEMMA ReadKeeps ==
    ASSUME IInv, NEW c \in Calls, call[c].stage \in {"opening", "reading"}, ReadThis(c)
    PROVE  IInv'
<1> PICK p, n : p = Current(call[c]) /\ n = call[c].next
  OBVIOUS
<1>1. /\ p \in Places /\ call[c] \in Sessions /\ call[c].account \in AccountCopies
      /\ n \in 1 .. Len(mail[p]) /\ Len(mail[p]) \in Nat /\ n \in Nat
      /\ mail[p] \in Seq(Kinds)
  <2>1. p \in Places /\ call[c] \in Sessions /\ mail[p] \in Seq(Kinds)
    BY CurrentIs DEF GrantedPlaces, IInv, TypeOK
  <2>2. n \in DOMAIN mail[p]
    BY DEF ReadThis
  <2> QED
    BY <2>1, <2>2, LenProperties DEF Sessions
<1> PICK before : before = call[c].account.scanned[p]
  OBVIOUS
<1>2. Sound(call[c], told[c], passed[c])
  BY DEF IInv
<1>3. before <= Len(mail[p]) /\ before \in Nat
  BY <1>1, <1>2 DEF Sound, Within, AccountCopies
<1> DEFINE account == ReadUpTo(call[c].account, p, n)
           new == [call[c] EXCEPT !.stage = "reading", !.next = n + 1, !.account = account]
<1>4. /\ account \in AccountCopies /\ account.last = call[c].account.last
      /\ account.scanned[p] = IF before >= n THEN before ELSE n
      /\ \A q \in Places \ {p} : account.scanned[q] = call[c].account.scanned[q]
  BY <1>1, ReadUpToIs
<1>6. call' = [call EXCEPT ![c] = new]
  BY DEF ReadThis
<1> HIDE DEF account
<1>5. /\ new \in Sessions /\ new.stage = "reading" /\ new.open = call[c].open
      /\ new.name = call[c].name /\ new.home = call[c].home /\ new.account = account
      /\ new.found = call[c].found /\ new.todo = call[c].todo
  <2>1. call[c] \in Sessions /\ account \in AccountCopies /\ n + 1 \in Nat
    BY <1>1, <1>4
  <2> QED
    BY <2>1 DEF Sessions, Stages
<1> HIDE DEF new
<1>7. /\ mail' = [mail EXCEPT ![p][n] = IF @ = "mine" THEN "seen" ELSE @]
      /\ passed' = [passed EXCEPT ![c][p] = @ \cup (before + 1 .. n)]
      /\ UNCHANGED <<granted, stored, asked, posts, told, editor>>
  BY DEF ReadThis
<1>8. /\ mail' \in [Places -> Seq(Kinds)] /\ \A q \in Places : Len(mail'[q]) = Len(mail[q])
      /\ \A q \in Places : \A k \in 1 .. Len(mail[q]) :
           mail'[q][k] = mail[q][k] \/ mail'[q][k] = "seen"
  <2> DEFINE kind == IF mail[p][n] = "mine" THEN "seen" ELSE mail[p][n]
             there == [mail[p] EXCEPT ![n] = kind]
  <2>1. kind \in Kinds
    BY <1>1, ElementOfSeq DEF Kinds
  <2> HIDE DEF kind
  <2>2. /\ there \in Seq(Kinds) /\ Len(there) = Len(mail[p])
        /\ \A k \in 1 .. Len(mail[p]) : there[k] = IF k = n THEN kind ELSE mail[p][k]
    BY <1>1, <2>1, ExceptSeq
  <2>3. mail \in [Places -> Seq(Kinds)]
    BY DEF IInv, TypeOK
  <2>4. mail' = [mail EXCEPT ![p] = there]
    BY <1>1, <1>7, <2>3 DEF kind
  <2>5. kind = mail[p][n] \/ kind = "seen"
    BY DEF kind
  <2> HIDE DEF there
  <2> QED
    BY <1>1, <2>2, <2>3, <2>4, <2>5
<1>9. MailAges
  <2>1. \A q \in Places : Len(mail[q]) \in Nat
    BY LenProperties DEF IInv, TypeOK
  <2> QED
    BY <1>8, <2>1 DEF MailAges, IsUnreadFor
<1>10. TypeOK'
  <2>1. (before + 1 .. n) \subseteq Nat
    BY <1>1, <1>3
  <2>2. passed' \in [Calls -> [Places -> SUBSET Nat]]
    BY <1>1, <1>7, <2>1 DEF IInv, TypeOK
  <2> QED
    BY <1>5, <1>6, <1>7, <1>8, <2>2 DEF IInv, TypeOK
<1>11. /\ passed'[c][p] = passed[c][p] \cup (before + 1 .. n)
       /\ \A q \in Places \ {p} : passed'[c][q] = passed[c][q]
       /\ \A d \in Calls \ {c} : passed'[d] = passed[d] /\ told'[d] = told[d]
       /\ told'[c] = told[c]
  BY <1>1, <1>7 DEF IInv, TypeOK
<1>12. PICK toldOf, passedOf : toldOf = told'[c] /\ passedOf = passed'[c]
  OBVIOUS
<1>13. Sound(new, toldOf, passedOf)
  <2>1. \A q \in Places : /\ account.scanned[q] >= call[c].account.scanned[q]
                          /\ account.scanned[q] <= Len(mail[q])
    <3>1. \A q \in Places : /\ call[c].account.scanned[q] \in Nat
                            /\ call[c].account.scanned[q] <= Len(mail[q])
      BY <1>1, <1>2 DEF Sound, Within, AccountCopies
    <3> QED
      BY <1>1, <1>3, <1>4, <3>1
  <2>2. \A q \in Places : call[c].account.scanned[q] \in Nat /\ account.scanned[q] \in Nat
    BY <1>1, <1>4 DEF AccountCopies
  <2>3. Placed(new)
    BY <1>2, <1>4, <1>5 DEF Sound, Placed
  <2>4. Listed(new)
    <3>1. \A i \in 1 .. Len(call[c].found) :
            LET f == call[c].found[i] IN f.place \in Places /\ \A m \in f.rows : m \in Nat
      <4>1. call[c].found \in Seq(Finds)
        BY <1>1 DEF Sessions
      <4>2. \A i \in 1 .. Len(call[c].found) : call[c].found[i] \in Finds
        BY <4>1, ElementOfSeq
      <4> QED
        BY <4>2 DEF Finds
    <3>2. ASSUME NEW i \in 1 .. Len(call[c].found), NEW m \in call[c].found[i].rows
          PROVE  m <= account.scanned[call[c].found[i].place]
      <4>1. /\ call[c].found[i].place \in Places /\ m \in Nat
            /\ m <= call[c].account.scanned[call[c].found[i].place]
        BY <1>2, <3>1, <3>2 DEF Sound, Listed
      <4> QED
        BY <2>1, <2>2, <4>1
    <3> QED
      BY <1>2, <1>5, <3>2 DEF Sound, Listed
  <2>5. Within(new.account)
    BY <1>5, <2>1 DEF Within
  <2>6. Untold(new, toldOf)
    BY <1>2, <1>5, <1>11, <1>12, <2>1, <2>2 DEF Sound, Untold
  <2>7. Covered(new, toldOf, passedOf)
    <3> SUFFICES ASSUME NEW q \in Places, NEW m \in 1 .. account.scanned[q],
                        IsUnreadFor(mail[q][m])
                 PROVE  \/ toldOf[q][m] > 0 \/ m \in passedOf[q]
                        \/ \E i \in 1 .. Len(new.found) :
                             new.found[i].place = q /\ m \in new.found[i].rows
      BY <1>5 DEF Covered
    <3>1. CASE m <= call[c].account.scanned[q]
      <4>1. m \in 1 .. call[c].account.scanned[q]
        BY <2>2, <3>1
      <4> QED
        <5>1. Covered(call[c], told[c], passed[c])
          BY <1>2 DEF Sound
        <5>2. new.found = call[c].found
          BY <1>5
        <5> QED
          BY <1>11, <1>12, <4>1, <5>1, <5>2 DEF Covered
    <3>2. CASE ~ (m <= call[c].account.scanned[q])
      <4>1. q = p /\ m \in before + 1 .. n
        BY <1>1, <1>4, <2>2, <3>2 DEF AccountCopies
      <4> QED
        BY <1>11, <1>12, <4>1
    <3> QED
      BY <3>1, <3>2
  <2> QED
    BY <1>5, <2>3, <2>4, <2>5, <2>6, <2>7 DEF Sound
<1> QED
  BY <1>5, <1>6, <1>7, <1>9, <1>10, <1>11, <1>12, <1>13, StepKeeps DEF At

LEMMA ReadingKeeps ==
    ASSUME IInv, NEW c \in Calls,
           \/ \E n \in 1 .. MaxMail : ReadCommand(c, n)
           \/ ReadAtPointer(c) \/ ReadOn(c) \/ LeaveRead(c) \/ Open(c)
    PROVE  IInv'
<1>1. ASSUME NEW n \in 1 .. MaxMail, ReadCommand(c, n) PROVE IInv'
  <2>1. n \in Nat
    OBVIOUS
  <2> QED
    BY <1>1, <2>1, ReadingOnKeeps DEF ReadCommand, At
<1>2. CASE ReadAtPointer(c)
  BY <1>2, ReadAtPointerKeeps
<1>3. CASE ReadOn(c)
  <2>1. CASE ReadThis(c)
    BY <1>3, <2>1, ReadKeeps DEF ReadOn, At
  <2>2. CASE Becomes(c, [call[c] EXCEPT !.next = @ + 1])
    <3>1. call[c].next + 1 \in Nat /\ call[c].stage = "reading"
      BY <1>3, SessionTyped DEF Sessions, ReadOn, At
    <3> QED
      BY <2>2, <3>1, ReadingOnKeeps
  <2> QED
    BY <1>3, <2>1, <2>2 DEF ReadOn
<1>4. CASE LeaveRead(c)
  BY <1>4, EndReadKeeps DEF LeaveRead, At
<1>5. CASE Open(c)
  BY <1>5, EndReadKeeps, ReadKeeps DEF Open, At
<1> QED
  BY <1>1, <1>2, <1>3, <1>4, <1>5

----------------------------------------------------------------------------
(* The scan of a base, and what is shown of it.                             *)

LEMMA ScannedIs ==
    ASSUME TypeOK, NEW account \in AccountCopies, Within(account), NEW p \in Places
    PROVE  LET new == Scanned(account, p) IN
           /\ new \in AccountCopies /\ new.last = account.last
           /\ new.scanned[p] = Len(mail[p])
           /\ \A q \in Places \ {p} : new.scanned[q] = account.scanned[q]
<1>1. Len(mail[p]) \in Nat /\ account.scanned[p] \in Nat /\ account.scanned[p] <= Len(mail[p])
  BY LenProperties DEF TypeOK, Within, AccountCopies
<1> PICK high : high = Len(mail[p])
  OBVIOUS
<1>2. Max({account.scanned[p], high}) = high
  BY <1>1, MaxOfTwo
<1>3. Scanned(account, p) = [account EXCEPT !.scanned = [account.scanned EXCEPT ![p] = high]]
  BY <1>2 DEF Scanned, AccountCopies
<1>4. /\ [account.scanned EXCEPT ![p] = high] \in [Places -> Nat]
      /\ [account.scanned EXCEPT ![p] = high][p] = high
      /\ \A q \in Places \ {p} : [account.scanned EXCEPT ![p] = high][q] = account.scanned[q]
  BY <1>1 DEF AccountCopies
<1> QED
  BY <1>3, <1>4 DEF AccountCopies

LEMMA ListingIs ==
    ASSUME TypeOK, NEW account \in AccountCopies, NEW p \in Places
    PROVE  /\ Listing(account, p) \in SUBSET (1 .. MaxMail)
           /\ \A n \in Listing(account, p) :
                n \in Nat /\ n > account.scanned[p] /\ n <= Len(mail[p])
           /\ \A n \in 1 .. Len(mail[p]) :
                n > account.scanned[p] /\ IsUnreadFor(mail[p][n]) => n \in Listing(account, p)
<1>1. /\ Len(mail[p]) \in Nat /\ account.scanned[p] \in Nat
      /\ Len(mail[p]) <= MaxMail /\ MaxMail \in Nat
  BY LenProperties, ConferenceBounds DEF TypeOK, AccountCopies
<1>2. \A n \in account.scanned[p] + 1 .. Len(mail[p]) :
        n \in 1 .. MaxMail /\ n \in Nat /\ n > account.scanned[p] /\ n <= Len(mail[p])
  BY <1>1
<1>3. \A n \in 1 .. Len(mail[p]) :
        n > account.scanned[p] => n \in account.scanned[p] + 1 .. Len(mail[p])
  BY <1>1
<1> QED
  BY <1>2, <1>3 DEF Listing, From

\* What a call is told of, when it was not told of it before.
LEMMA TellIs ==
    ASSUME TypeOK, NEW c \in Calls, NEW p \in Places, NEW rows, Tell(c, p, rows),
           \A n \in 1 .. MaxMail : n \in rows => told[c][p][n] = 0
    PROVE  /\ told' \in [Calls -> [Places -> [1 .. MaxMail -> 0 .. 2]]]
           /\ \A d \in Calls \ {c} : told'[d] = told[d]
           /\ \A q \in Places : \A n \in 1 .. MaxMail :
                told'[c][q][n] = IF q = p /\ n \in rows THEN 1 ELSE told[c][q][n]
<1>1. Min({1, 2}) = 1
  <2>1. \A x \in {1, 2} : (\A y \in {1, 2} : x <= y) <=> x = 1
    OBVIOUS
  <2> QED
    BY <2>1 DEF Min
<1> DEFINE shown == [n \in 1 .. MaxMail |-> IF n \in rows THEN Min({told[c][p][n] + 1, 2})
                                                         ELSE told[c][p][n]]
           after == [n \in 1 .. MaxMail |-> IF n \in rows THEN 1 ELSE told[c][p][n]]
<1>2. told[c][p] \in [1 .. MaxMail -> 0 .. 2] /\ told[c] \in [Places -> [1 .. MaxMail -> 0 .. 2]]
  BY DEF TypeOK
<1>3. shown = after
  BY <1>1
<1>4. told' = [told EXCEPT ![c] = [told[c] EXCEPT ![p] = shown]]
  BY <1>2 DEF Tell, TypeOK
<1>5. after \in [1 .. MaxMail -> 0 .. 2]
  <2>1. \A n \in 1 .. MaxMail : told[c][p][n] \in 0 .. 2
    BY <1>2
  <2>2. 1 \in 0 .. 2
    OBVIOUS
  <2>3. \A n \in 1 .. MaxMail : (IF n \in rows THEN 1 ELSE told[c][p][n]) \in 0 .. 2
    BY <2>1, <2>2, Zenon
  <2> QED
    BY <2>3
<1>6. told' = [told EXCEPT ![c] = [told[c] EXCEPT ![p] = after]]
  BY <1>3, <1>4
<1>7. \A n \in 1 .. MaxMail : after[n] = IF n \in rows THEN 1 ELSE told[c][p][n]
  OBVIOUS
<1> HIDE DEF after
<1> QED
  BY <1>2, <1>5, <1>6, <1>7 DEF TypeOK

LEMMA FoundIs ==
    ASSUME TypeOK, NEW session \in Sessions, NEW p \in Places
    PROVE  LET rows == Listing(session.account, p)
               found == Found(session, p)
           IN /\ found \in Seq(Finds)
              /\ rows = {} => found = session.found
              /\ rows # {} =>
                   /\ Len(found) = Len(session.found) + 1
                   /\ \A i \in 1 .. Len(session.found) : found[i] = session.found[i]
                   /\ found[Len(found)].place = p /\ found[Len(found)].rows = rows
<1> PICK rows : rows = Listing(session.account, p)
  OBVIOUS
<1> DEFINE find == [place |-> p, rows |-> rows]
<1>1. session.account \in AccountCopies /\ session.found \in Seq(Finds)
  BY DEF Sessions
<1>2. find \in Finds /\ find.place = p /\ find.rows = rows
  BY <1>1, ListingIs DEF Finds
<1>3. Found(session, p) = IF rows = {} THEN session.found ELSE Append(session.found, find)
  BY DEF Found
<1> HIDE DEF find
<1>4. /\ Append(session.found, find) \in Seq(Finds)
      /\ Len(Append(session.found, find)) = Len(session.found) + 1
      /\ \A i \in 1 .. Len(session.found) : Append(session.found, find)[i] = session.found[i]
      /\ Append(session.found, find)[Len(session.found) + 1] = find
  BY <1>1, <1>2, AppendProperties
<1> QED
  BY <1>1, <1>2, <1>3, <1>4

LEMMA ScanBaseKeeps ==
    ASSUME IInv, NEW c \in Calls, ScanBase(c)
    PROVE  IInv'
<1>1. PICK p \in Places :
        /\ NextToScan(c, p)
        /\ Becomes(c, [call[c] EXCEPT !.todo = @ \ {p}, !.found = Found(call[c], p),
                                      !.account = Scanned(@, p)])
  BY DEF ScanBase
<1> DEFINE old == call[c]
           rows == Listing(old.account, p)
           found == Found(old, p)
           account == Scanned(old.account, p)
           new == [old EXCEPT !.todo = old.todo \ {p}, !.found = found, !.account = account]
<1>2. /\ old \in Sessions /\ old.account \in AccountCopies /\ old.found \in Seq(Finds)
      /\ old.stage = "scanning" /\ p \in old.todo /\ TypeOK
  BY <1>1 DEF IInv, TypeOK, NextToScan, At, Sessions
<1>3. Sound(old, told[c], passed[c])
  BY DEF IInv
<1>4. /\ account \in AccountCopies /\ account.last = old.account.last
      /\ account.scanned[p] = Len(mail[p])
      /\ \A q \in Places \ {p} : account.scanned[q] = old.account.scanned[q]
  BY <1>2, <1>3, ScannedIs DEF Sound
<1>5. /\ found \in Seq(Finds)
      /\ rows = {} => found = old.found
      /\ rows # {} =>
           /\ Len(found) = Len(old.found) + 1
           /\ \A i \in 1 .. Len(old.found) : found[i] = old.found[i]
           /\ found[Len(found)].place = p /\ found[Len(found)].rows = rows
  BY <1>2, FoundIs
<1>6. /\ \A n \in rows : n \in Nat /\ n > old.account.scanned[p] /\ n <= Len(mail[p])
      /\ rows \in SUBSET (1 .. MaxMail)
      /\ \A n \in 1 .. Len(mail[p]) :
           n > old.account.scanned[p] /\ IsUnreadFor(mail[p][n]) => n \in rows
  BY <1>2, ListingIs
<1>7. Becomes(c, new)
  BY <1>1
<1> HIDE DEF account, found, rows
<1>8. /\ new \in Sessions /\ new.stage = "scanning" /\ new.open = old.open
      /\ new.name = old.name /\ new.home = old.home /\ new.account = account
      /\ new.found = found /\ new.todo = old.todo \ {p}
  BY <1>2, <1>4, <1>5 DEF Sessions
<1> HIDE DEF new
<1>9. \A q \in Places : /\ account.scanned[q] \in Nat /\ old.account.scanned[q] \in Nat
                        /\ old.account.scanned[q] <= account.scanned[q]
                        /\ Len(mail[q]) \in Nat
  <2>1. \A q \in Places : Len(mail[q]) \in Nat
    BY <1>2, LenProperties DEF TypeOK
  <2>2. \A q \in Places : account.scanned[q] \in Nat /\ old.account.scanned[q] \in Nat
    BY <1>2, <1>4 DEF AccountCopies
  <2>3. \A q \in Places : old.account.scanned[q] <= Len(mail[q])
    BY <1>3 DEF Sound, Within
  <2> QED
    BY <1>4, <2>1, <2>2, <2>3
<1>10. Len(old.found) \in Nat /\ Len(found) \in Nat
  BY <1>2, <1>5, LenProperties
<1>11. \A i \in 1 .. Len(found) :
         \/ i \in 1 .. Len(old.found) /\ found[i] = old.found[i]
         \/ rows # {} /\ i = Len(old.found) + 1 /\ found[i].place = p /\ found[i].rows = rows
  BY <1>5, <1>10
<1>12. \A i \in 1 .. Len(old.found) :
         /\ i \in 1 .. Len(found) /\ found[i] = old.found[i]
         /\ old.found[i].place \in Places /\ old.found[i].rows \subseteq 1 .. MaxMail
  <2>1. \A i \in 1 .. Len(old.found) : old.found[i] \in Finds
    BY <1>2, ElementOfSeq
  <2> QED
    BY <1>5, <1>10, <2>1 DEF Finds
<1> HIDE DEF old
<1>13. Placed(new)
  BY <1>2, <1>3, <1>4, <1>8 DEF Sound, Placed
<1>14. Listed(new)
  <2>1. p \in GrantedPlaces /\ new.todo \subseteq GrantedPlaces
    BY <1>2, <1>3, <1>8 DEF Sound, Listed
  <2>2. ASSUME NEW i \in 1 .. Len(found)
        PROVE  /\ found[i].place \in GrantedPlaces /\ found[i].rows # {}
               /\ \A n \in found[i].rows : n <= account.scanned[found[i].place]
    <3>1. CASE i \in 1 .. Len(old.found) /\ found[i] = old.found[i]
      <4>1. /\ found[i].place \in GrantedPlaces /\ found[i].rows # {}
            /\ \A n \in found[i].rows : n <= old.account.scanned[found[i].place]
        BY <1>3, <3>1 DEF Sound, Listed
      <4>2. found[i].place \in Places /\ \A n \in found[i].rows : n \in Nat
        BY <1>12, <3>1
      <4> QED
        BY <1>9, <4>1, <4>2
    <3>2. CASE rows # {} /\ found[i].place = p /\ found[i].rows = rows
      BY <1>4, <1>6, <2>1, <3>2
    <3> QED
      BY <1>11, <3>1, <3>2
  <2>3. ASSUME NEW i \in 1 .. Len(found), NEW j \in 1 .. Len(found), i # j,
               found[j].place = found[i].place
        PROVE  found[j].rows \cap found[i].rows = {}
    <3>1. ASSUME NEW k \in 1 .. Len(old.found), old.found[k].place = p
          PROVE  old.found[k].rows \cap rows = {}
      <4>1. \A n \in old.found[k].rows : n <= old.account.scanned[p] /\ n \in Nat
        BY <1>3, <1>12, <3>1 DEF Sound, Listed
      <4> QED
        BY <1>6, <1>9, <4>1
    <3>2. CASE i \in 1 .. Len(old.found) /\ j \in 1 .. Len(old.found)
      BY <1>3, <1>12, <2>3, <3>2 DEF Sound, Listed
    <3>3. CASE i \in 1 .. Len(old.found) /\ ~ (j \in 1 .. Len(old.found))
      BY <1>11, <2>3, <3>1, <3>3
    <3>4. CASE ~ (i \in 1 .. Len(old.found)) /\ j \in 1 .. Len(old.found)
      BY <1>11, <2>3, <3>1, <3>4
    <3>5. CASE ~ (i \in 1 .. Len(old.found)) /\ ~ (j \in 1 .. Len(old.found))
      BY <1>11, <2>3, <3>5
    <3> QED
      BY <3>2, <3>3, <3>4, <3>5
  <2> QED
    BY <1>8, <2>1, <2>2, <2>3 DEF Listed
<1>15. Within(new.account)
  BY <1>3, <1>4, <1>8, <1>9 DEF Sound, Within
<1>16. Untold(new, told[c])
  <2>1. ASSUME NEW q \in Places, NEW n \in 1 .. MaxMail
        PROVE  /\ told[c][q][n] <= 1
               /\ n > account.scanned[q] => told[c][q][n] = 0
    <3>1. n \in Nat
      OBVIOUS
    <3> QED
      BY <1>3, <1>9, <3>1 DEF Sound, Untold
  <2>2. ASSUME NEW i \in 1 .. Len(found), NEW n \in found[i].rows
        PROVE  told[c][found[i].place][n] = 0
    <3>1. CASE i \in 1 .. Len(old.found) /\ found[i] = old.found[i]
      BY <1>2, <1>3, <2>2, <3>1 DEF Sound, Untold
    <3>2. CASE found[i].place = p /\ found[i].rows = rows
      BY <1>3, <1>6, <2>2, <3>2 DEF Sound, Untold
    <3> QED
      BY <1>11, <3>1, <3>2
  <2> QED
    BY <1>8, <2>1, <2>2 DEF Untold
<1>17. Covered(new, told[c], passed[c])
  <2> SUFFICES ASSUME NEW q \in Places, NEW n \in 1 .. account.scanned[q],
                      IsUnreadFor(mail[q][n])
               PROVE  \/ told[c][q][n] > 0 \/ n \in passed[c][q]
                      \/ \E i \in 1 .. Len(found) : found[i].place = q /\ n \in found[i].rows
    BY <1>8 DEF Covered
  <2>1. CASE n <= old.account.scanned[q]
    <3>1. n \in 1 .. old.account.scanned[q]
      BY <1>9, <2>1
    <3>2. \/ told[c][q][n] > 0 \/ n \in passed[c][q]
          \/ \E i \in 1 .. Len(old.found) : old.found[i].place = q /\ n \in old.found[i].rows
      BY <1>2, <1>3, <3>1 DEF Sound, Covered
    <3> QED
      BY <1>12, <3>2
  <2>2. CASE ~ (n <= old.account.scanned[q])
    <3>1. q = p /\ n \in 1 .. Len(mail[p]) /\ n > old.account.scanned[p]
      BY <1>4, <1>9, <2>2
    <3>2. n \in rows
      BY <1>6, <3>1
    <3>3. Len(found) \in 1 .. Len(found) /\ found[Len(found)].place = p /\ n \in found[Len(found)].rows
      BY <1>5, <1>10, <3>2
    <3> QED
      BY <3>1, <3>3
  <2> QED
    BY <2>1, <2>2
<1>18. Sound(new, told[c], passed[c])
  BY <1>8, <1>13, <1>14, <1>15, <1>16, <1>17 DEF Sound
<1> QED
  BY <1>2, <1>7, <1>8, <1>18, BecomesKeeps DEF At, old

LEMMA ScanOnJoinKeeps ==
    ASSUME IInv, NEW c \in Calls, ScanOnJoin(c)
    PROVE  IInv'
<1> DEFINE old == call[c]
<1> PICK p : p = Current(old)
  OBVIOUS
<1> DEFINE rows == Listing(old.account, p)
           account == Scanned(old.account, p)
           new == [old EXCEPT !.account = account, !.stage = "menu"]
<1>1. /\ call' = [call EXCEPT ![c] = new] /\ Tell(c, p, rows) /\ old.stage = "arriving"
      /\ UNCHANGED <<mail, granted, stored, asked, posts, passed, editor>>
  BY DEF ScanOnJoin, At
<1>2. /\ old \in Sessions /\ old.account \in AccountCopies /\ old.found \in Seq(Finds)
      /\ TypeOK /\ p \in Places /\ Sound(old, told[c], passed[c]) /\ old.home = NoPlace
  <2>1. old \in Sessions /\ TypeOK /\ Sound(old, told[c], passed[c])
    BY DEF IInv, TypeOK
  <2>2. p \in Places
    BY <1>1, CurrentIs DEF GrantedPlaces
  <2> QED
    BY <1>1, <2>1, <2>2 DEF Sessions, Sound, Placed
<1>3. /\ account \in AccountCopies /\ account.last = old.account.last
      /\ account.scanned[p] = Len(mail[p])
      /\ \A q \in Places \ {p} : account.scanned[q] = old.account.scanned[q]
  BY <1>2, ScannedIs DEF Sound
<1>4. /\ \A n \in rows : n \in Nat /\ n > old.account.scanned[p] /\ n <= Len(mail[p])
      /\ rows \in SUBSET (1 .. MaxMail)
      /\ \A n \in 1 .. Len(mail[p]) :
           n > old.account.scanned[p] /\ IsUnreadFor(mail[p][n]) => n \in rows
  BY <1>2, ListingIs
<1> HIDE DEF account, rows
<1>5. /\ new \in Sessions /\ new.stage = "menu" /\ new.open = old.open
      /\ new.name = old.name /\ new.home = old.home /\ new.account = account
      /\ new.found = old.found /\ new.todo = old.todo
  BY <1>2, <1>3 DEF Sessions, Stages
<1> HIDE DEF new
<1>6. \A q \in Places : /\ account.scanned[q] \in Nat /\ old.account.scanned[q] \in Nat
                        /\ old.account.scanned[q] <= account.scanned[q]
                        /\ Len(mail[q]) \in Nat
  <2>1. \A q \in Places : Len(mail[q]) \in Nat
    BY <1>2, LenProperties DEF TypeOK
  <2>2. \A q \in Places : account.scanned[q] \in Nat /\ old.account.scanned[q] \in Nat
    BY <1>2, <1>3 DEF AccountCopies
  <2>3. \A q \in Places : old.account.scanned[q] <= Len(mail[q])
    BY <1>2 DEF Sound, Within
  <2> QED
    BY <1>3, <2>1, <2>2, <2>3
<1>7. \A n \in 1 .. MaxMail : n \in rows => told[c][p][n] = 0
  BY <1>2, <1>4 DEF Sound, Untold
<1>8. /\ told' \in [Calls -> [Places -> [1 .. MaxMail -> 0 .. 2]]]
      /\ \A d \in Calls \ {c} : told'[d] = told[d]
      /\ \A q \in Places : \A n \in 1 .. MaxMail :
           told'[c][q][n] = IF q = p /\ n \in rows THEN 1 ELSE told[c][q][n]
  BY <1>1, <1>2, <1>7, TellIs
<1>9. TypeOK'
  BY <1>1, <1>2, <1>5, <1>8 DEF TypeOK
<1>10. MailAges
  BY <1>1, <1>6 DEF MailAges
<1>11. PICK toldOf, passedOf : toldOf = told'[c] /\ passedOf = passed'[c]
  OBVIOUS
<1>12. passedOf = passed[c]
  BY <1>1, <1>11
<1>13. \A i \in 1 .. Len(old.found) :
         old.found[i].place \in Places /\ old.found[i].rows \subseteq 1 .. MaxMail
  <2>1. \A i \in 1 .. Len(old.found) : old.found[i] \in Finds
    BY <1>2, ElementOfSeq
  <2> QED
    BY <2>1 DEF Finds
<1> HIDE DEF old
<1>14. ASSUME NEW i \in 1 .. Len(old.found), NEW n \in old.found[i].rows
       PROVE  /\ n \in 1 .. MaxMail /\ n \in Nat
              /\ n <= old.account.scanned[old.found[i].place]
  <2>1. Listed(old)
    BY <1>2 DEF Sound
  <2> QED
    BY <1>13, <1>14, <2>1 DEF Listed
<1>15. Placed(new)
  BY <1>1, <1>2, <1>3, <1>5 DEF Sound, Placed
<1>16. Listed(new)
  <2>1. ASSUME NEW i \in 1 .. Len(old.found), NEW n \in old.found[i].rows
        PROVE  n <= account.scanned[old.found[i].place]
    BY <1>6, <1>13, <1>14, <2>1
  <2> QED
    BY <1>2, <1>5, <2>1 DEF Sound, Listed
<1>17. Within(new.account)
  BY <1>2, <1>3, <1>5, <1>6 DEF Sound, Within
<1>18. Untold(new, toldOf)
  <2>1. ASSUME NEW q \in Places, NEW n \in 1 .. MaxMail
        PROVE  toldOf[q][n] <= 1 /\ (n > account.scanned[q] => toldOf[q][n] = 0)
    <3>1. CASE q = p /\ n \in rows
      BY <1>3, <1>4, <1>6, <1>8, <1>11, <3>1
    <3>2. CASE ~ (q = p /\ n \in rows)
      <4>1. toldOf[q][n] = told[c][q][n] /\ n \in Nat
        BY <1>8, <1>11, <3>2
      <4> QED
        BY <1>2, <1>6, <4>1 DEF Sound, Untold
    <3> QED
      BY <3>1, <3>2
  <2>2. ASSUME NEW i \in 1 .. Len(old.found), NEW n \in old.found[i].rows
        PROVE  toldOf[old.found[i].place][n] = 0
    <3>1. told[c][old.found[i].place][n] = 0
      BY <1>1, <1>2, <2>2 DEF Sound, Untold
    <3>2. ~ (old.found[i].place = p /\ n \in rows)
      BY <1>4, <1>6, <1>13, <1>14, <2>2
    <3> QED
      BY <1>8, <1>11, <1>13, <1>14, <2>2, <3>1, <3>2
  <2> QED
    BY <1>5, <2>1, <2>2 DEF Untold
<1>19. Covered(new, toldOf, passedOf)
  <2> SUFFICES ASSUME NEW q \in Places, NEW n \in 1 .. account.scanned[q],
                      IsUnreadFor(mail[q][n])
               PROVE  \/ toldOf[q][n] > 0 \/ n \in passedOf[q]
                      \/ \E i \in 1 .. Len(old.found) :
                           old.found[i].place = q /\ n \in old.found[i].rows
    BY <1>5 DEF Covered
  <2>1. CASE n <= old.account.scanned[q]
    <3>1. n \in 1 .. old.account.scanned[q]
      BY <1>6, <2>1
    <3>2. \/ told[c][q][n] > 0 \/ n \in passed[c][q]
          \/ \E i \in 1 .. Len(old.found) : old.found[i].place = q /\ n \in old.found[i].rows
      BY <1>1, <1>2, <3>1 DEF Sound, Covered
    <3>3. n \in 1 .. MaxMail
      <4>1. account.scanned[q] <= Len(mail[q]) /\ Len(mail[q]) <= MaxMail /\ MaxMail \in Nat
        BY <1>2, <1>5, <1>17, ConferenceBounds DEF Within, TypeOK
      <4> QED
        BY <1>6, <4>1
    <3>4. toldOf[q][n] = IF q = p /\ n \in rows THEN 1 ELSE told[c][q][n]
      BY <1>8, <1>11, <3>3
    <3> QED
      BY <1>12, <3>2, <3>4
  <2>2. CASE ~ (n <= old.account.scanned[q])
    <3>1. q = p /\ n \in 1 .. Len(mail[p]) /\ n > old.account.scanned[p]
      BY <1>3, <1>6, <2>2
    <3>2. n \in rows /\ n \in 1 .. MaxMail
      BY <1>4, <3>1
    <3> QED
      BY <1>8, <1>11, <3>1, <3>2
  <2> QED
    BY <2>1, <2>2
<1>20. Sound(new, toldOf, passedOf)
  BY <1>5, <1>15, <1>16, <1>17, <1>18, <1>19 DEF Sound
<1> QED
  BY <1>1, <1>5, <1>8, <1>9, <1>10, <1>11, <1>20, StepKeeps DEF At, old

LEMMA ShowListingKeeps ==
    ASSUME IInv, NEW c \in Calls, ShowListing(c)
    PROVE  IInv'
<1> DEFINE old == call[c]
           new == [old EXCEPT !.stage = "offer"]
<1>1. /\ old \in Sessions /\ old.found \in Seq(Finds) /\ old.found # <<>> /\ old.stage = "showing"
      /\ TypeOK /\ Sound(old, told[c], passed[c]) /\ old.home = NoPlace
  <2>1. old \in Sessions /\ TypeOK /\ Sound(old, told[c], passed[c])
    BY DEF IInv, TypeOK
  <2> QED
    BY <2>1 DEF ShowListing, At, Sessions, Sound, Placed
<1>2. /\ Head(old.found) = old.found[1] /\ 1 \in 1 .. Len(old.found)
  BY <1>1, TailOfFinds
<1> PICK p, rows : p = old.found[1].place /\ rows = old.found[1].rows
  OBVIOUS
<1>3. /\ call' = [call EXCEPT ![c] = new] /\ Tell(c, p, rows)
      /\ UNCHANGED <<mail, granted, stored, asked, posts, passed, editor>>
  BY <1>2 DEF ShowListing
<1>4. \A i \in 1 .. Len(old.found) :
         old.found[i].place \in Places /\ old.found[i].rows \subseteq 1 .. MaxMail
  <2>1. \A i \in 1 .. Len(old.found) : old.found[i] \in Finds
    BY <1>1, ElementOfSeq
  <2> QED
    BY <2>1 DEF Finds
<1>5. /\ new \in Sessions /\ new.stage = "offer" /\ new.open = old.open
      /\ new.name = old.name /\ new.home = old.home /\ new.account = old.account
      /\ new.found = old.found /\ new.todo = old.todo
  BY <1>1 DEF Sessions, Stages
<1> HIDE DEF new
<1>6. p \in Places /\ \A n \in rows : n \in 1 .. MaxMail
  BY <1>2, <1>4
<1>7. \A n \in 1 .. MaxMail : n \in rows => told[c][p][n] = 0
  BY <1>1, <1>2 DEF Sound, Untold
<1>8. /\ told' \in [Calls -> [Places -> [1 .. MaxMail -> 0 .. 2]]]
      /\ \A d \in Calls \ {c} : told'[d] = told[d]
      /\ \A q \in Places : \A n \in 1 .. MaxMail :
           told'[c][q][n] = IF q = p /\ n \in rows THEN 1 ELSE told[c][q][n]
  <2>1. TypeOK /\ Tell(c, p, rows) /\ p \in Places
    BY <1>1, <1>3, <1>6
  <2> QED
    BY <2>1, <1>7, TellIs, Z3
<1>9. TypeOK'
  BY <1>1, <1>3, <1>5, <1>8 DEF TypeOK
<1>10. MailAges
  <2>1. \A q \in Places : Len(mail[q]) \in Nat
    BY <1>1, LenProperties DEF TypeOK
  <2> QED
    BY <1>3, <2>1 DEF MailAges
<1>11. PICK toldOf, passedOf : toldOf = told'[c] /\ passedOf = passed'[c]
  OBVIOUS
<1>12. passedOf = passed[c]
  BY <1>3, <1>11
<1> HIDE DEF old
<1>13. \A q \in Places : /\ old.account.scanned[q] \in Nat
                         /\ old.account.scanned[q] <= MaxMail /\ MaxMail \in Nat
  <2>1. \A q \in Places : Len(mail[q]) \in Nat /\ Len(mail[q]) <= MaxMail
    BY <1>1, LenProperties DEF TypeOK
  <2>2. \A q \in Places : old.account.scanned[q] \in Nat
    BY <1>1 DEF Sessions, AccountCopies
  <2> QED
    BY <1>1, <2>1, <2>2, ConferenceBounds DEF Sound, Within
<1>14. Placed(new)
  BY <1>1, <1>5 DEF Sound, Placed
<1>15. Listed(new) /\ Within(new.account)
  BY <1>1, <1>5 DEF Sound, Listed, Within
<1>16. Untold(new, toldOf)
  <2>1. ASSUME NEW q \in Places, NEW n \in 1 .. MaxMail
        PROVE  toldOf[q][n] <= 1 /\ (n > old.account.scanned[q] => toldOf[q][n] = 0)
    <3>1. CASE q = p /\ n \in rows
      <4>1. n <= old.account.scanned[p] /\ n \in Nat
        BY <1>1, <1>2, <3>1 DEF Sound, Listed
      <4> QED
        BY <1>8, <1>11, <1>13, <3>1, <4>1
    <3>2. CASE ~ (q = p /\ n \in rows)
      BY <1>1, <1>8, <1>11, <3>2 DEF Sound, Untold
    <3> QED
      BY <3>1, <3>2
  <2>2. ASSUME NEW i \in 1 .. Len(old.found), i # 1, NEW n \in old.found[i].rows
        PROVE  toldOf[old.found[i].place][n] = 0
    <3>1. told[c][old.found[i].place][n] = 0 /\ n \in 1 .. MaxMail /\ old.found[i].place \in Places
      BY <1>1, <1>4, <2>2 DEF Sound, Untold
    <3>2. ~ (old.found[i].place = p /\ n \in rows)
      BY <1>1, <1>2, <2>2 DEF Sound, Listed
    <3> QED
      BY <1>8, <1>11, <3>1, <3>2
  <2>3. ASSUME NEW n \in old.found[1].rows
        PROVE  toldOf[old.found[1].place][n] > 0
    BY <1>6, <1>8, <1>11, <2>3
  <2> QED
    BY <1>1, <1>5, <2>1, <2>2, <2>3 DEF Untold
<1>17. Covered(new, toldOf, passedOf)
  <2> SUFFICES ASSUME NEW q \in Places, NEW n \in 1 .. old.account.scanned[q],
                      IsUnreadFor(mail[q][n])
               PROVE  \/ toldOf[q][n] > 0 \/ n \in passedOf[q]
                      \/ \E i \in 1 .. Len(old.found) :
                           old.found[i].place = q /\ n \in old.found[i].rows
    BY <1>5 DEF Covered
  <2>1. \/ told[c][q][n] > 0 \/ n \in passed[c][q]
        \/ \E i \in 1 .. Len(old.found) : old.found[i].place = q /\ n \in old.found[i].rows
    BY <1>1 DEF Sound, Covered
  <2>2. n \in 1 .. MaxMail
    BY <1>13
  <2>3. toldOf[q][n] = IF q = p /\ n \in rows THEN 1 ELSE told[c][q][n]
    BY <1>8, <1>11, <2>2
  <2> QED
    BY <1>12, <2>1, <2>3
<1>18. Sound(new, toldOf, passedOf)
  BY <1>5, <1>14, <1>15, <1>16, <1>17 DEF Sound
<1> QED
  BY <1>1, <1>3, <1>5, <1>8, <1>9, <1>10, <1>11, <1>18, StepKeeps DEF At, old

\* The find that was shown is left behind.
LEMMA TailSound ==
    ASSUME NEW old \in Sessions, NEW new, NEW toldOf, NEW passedOf,
           Sound(old, toldOf, passedOf), Placed(new), old.stage = "offer",
           new.stage \notin {"out", "offer"}, new.found = Tail(old.found),
           new.todo = old.todo, new.account.scanned = old.account.scanned
    PROVE  Sound(new, toldOf, passedOf)
<1>1. old.found \in Seq(Finds) /\ old.found # <<>>
  BY DEF Sessions, Sound, Untold
<1>2. /\ Len(new.found) = Len(old.found) - 1 /\ Len(old.found) \in Nat
      /\ \A i \in 1 .. Len(new.found) : new.found[i] = old.found[i + 1]
  BY <1>1, TailOfFinds, LenProperties
<1>3. \A i \in 1 .. Len(new.found) : i + 1 \in 1 .. Len(old.found) /\ i + 1 # 1
  BY <1>2
<1>4. \A i \in 1 .. Len(old.found) : i # 1 => i - 1 \in 1 .. Len(new.found) /\ (i - 1) + 1 = i
  BY <1>2
<1>5. Listed(new)
  <2>1. \A i, j \in 1 .. Len(new.found) : i # j => i + 1 # j + 1
    OBVIOUS
  <2> QED
    BY <1>2, <1>3, <2>1 DEF Sound, Listed
<1>6. Within(new.account)
  BY DEF Sound, Within
<1>7. Untold(new, toldOf)
  BY <1>2, <1>3 DEF Sound, Untold
<1>8. Covered(new, toldOf, passedOf)
  <2> SUFFICES ASSUME NEW q \in Places, NEW n \in 1 .. old.account.scanned[q],
                      IsUnreadFor(mail[q][n]), ~ (toldOf[q][n] > 0), n \notin passedOf[q]
               PROVE  \E i \in 1 .. Len(new.found) :
                        new.found[i].place = q /\ n \in new.found[i].rows
    BY DEF Covered
  <2>1. PICK i \in 1 .. Len(old.found) : old.found[i].place = q /\ n \in old.found[i].rows
    BY DEF Sound, Covered
  <2>2. i # 1
    BY <2>1 DEF Sound, Untold
  <2>3. i - 1 \in 1 .. Len(new.found) /\ new.found[i - 1] = old.found[i]
    BY <1>2, <1>4, <2>2
  <2> QED
    BY <2>1, <2>3
<1> QED
  BY <1>5, <1>6, <1>7, <1>8 DEF Sound

LEMMA DeclinesKeeps ==
    ASSUME IInv, NEW c \in Calls, Declines(c)
    PROVE  IInv'
<1> DEFINE old == call[c]
           new == [old EXCEPT !.stage = "showing", !.found = Tail(old.found)]
<1>1. /\ old \in Sessions /\ old.found \in Seq(Finds) /\ old.found # <<>> /\ old.stage = "offer"
      /\ Sound(old, told[c], passed[c]) /\ Becomes(c, new) /\ old.home = NoPlace
  <2>1. old \in Sessions /\ Sound(old, told[c], passed[c]) /\ old.stage = "offer"
    BY DEF IInv, TypeOK, Declines, At
  <2>2. old.found \in Seq(Finds)
    BY <2>1 DEF Sessions
  <2>3. old.found # <<>>
    BY <2>1 DEF Sound, Untold, Placed
  <2>4. old.home = NoPlace
    BY <2>1 DEF Sound, Placed
  <2>5. Becomes(c, new)
    BY DEF Declines
  <2> QED
    BY <2>1, <2>2, <2>3, <2>4, <2>5
<1>2. Tail(old.found) \in Seq(Finds)
  BY <1>1, TailOfFinds
<1> HIDE DEF old
<1>3. /\ new \in Sessions /\ new.stage = "showing" /\ new.open = old.open
      /\ new.name = old.name /\ new.home = old.home /\ new.account = old.account
      /\ new.found = Tail(old.found) /\ new.todo = old.todo
  BY <1>1, <1>2 DEF Sessions, Stages
<1> HIDE DEF new
<1>4. Placed(new)
  BY <1>1, <1>3 DEF Sound, Placed
<1>5. Sound(new, told[c], passed[c])
  BY <1>1, <1>3, <1>4, TailSound
<1>6. ~ At(c, "ended")
  BY <1>1 DEF At, old
<1> QED
  BY <1>1, <1>3, <1>5, <1>6, BecomesKeeps

LEMMA DetourKeeps ==
    ASSUME IInv, NEW c \in Calls, BeginReadDetour(c)
    PROVE  IInv'
<1> DEFINE old == call[c]
<1>1. /\ old \in Sessions /\ old.found \in Seq(Finds) /\ old.found # <<>> /\ old.stage = "offer"
      /\ Sound(old, told[c], passed[c]) /\ old.home = NoPlace
  <2>1. old \in Sessions /\ Sound(old, told[c], passed[c]) /\ old.stage = "offer"
    BY DEF IInv, TypeOK, BeginReadDetour, At
  <2> QED
    BY <2>1 DEF Sessions, Sound, Untold, Placed
<1>2. /\ Tail(old.found) \in Seq(Finds) /\ Head(old.found) \in Finds
      /\ Head(old.found) = old.found[1] /\ 1 \in 1 .. Len(old.found)
  BY <1>1, TailOfFinds
<1> PICK f, home : f = Head(old.found) /\ home = Current(old)
  OBVIOUS
<1>3. f.place \in GrantedPlaces /\ f.place \in Places
  BY <1>1, <1>2 DEF Sound, Listed, GrantedPlaces
<1>4. Min(f.rows) \in Nat
  <2>1. f.rows # {} /\ f.rows \subseteq Nat
    BY <1>1, <1>2 DEF Sound, Listed, Finds
  <2> QED
    BY <2>1, MinOfSet
<1>5. home \in GrantedPlaces /\ home \in Places /\ old.open = <<home>> /\ home # NoPlace
  BY <1>1, CurrentIs, PlaceIs DEF GrantedPlaces
<1> DEFINE new == [old EXCEPT !.open = <<f.place>>, !.stage = "opening", !.home = home,
                              !.next = Min(f.rows), !.found = Tail(old.found)]
<1>6. Becomes(c, new)
  <2>1. [Attach(old, f.place) EXCEPT !.stage = "opening", !.home = home,
                                     !.next = Min(f.rows), !.found = Tail(@)] = new
    BY <1>1 DEF Attach, Sessions
  <2> QED
    BY <2>1 DEF BeginReadDetour
<1>7. <<f.place>> \in Seq(Places)
  BY <1>3
<1> HIDE DEF old
<1>8. /\ new \in Sessions /\ new.stage = "opening" /\ new.open = <<f.place>>
      /\ new.name = old.name /\ new.home = home /\ new.account = old.account
      /\ new.found = Tail(old.found) /\ new.todo = old.todo
  BY <1>1, <1>2, <1>4, <1>5, <1>7 DEF Sessions, Stages
<1> HIDE DEF new
<1>9. Placed(new)
  <2>1. old.account.last = home /\ old.name = NameTypeOf[old.account.last[1]]
    <3>1. PICK p \in GrantedPlaces : old.open = <<p>> /\ old.account.last = p
      BY <1>1 DEF Sound, Placed
    <3>2. p = home
      BY <1>5, <3>1, OneVisit
    <3> QED
      BY <1>1, <3>1, <3>2 DEF Sound, Placed
  <2> QED
    BY <1>3, <1>5, <1>8, <2>1 DEF Placed
<1>10. Sound(new, told[c], passed[c])
  BY <1>1, <1>8, <1>9, TailSound
<1> QED
  BY <1>1, <1>6, <1>8, <1>10, BecomesKeeps DEF At, old

\* The rest of a scan, and the command that begins one.
LEMMA ScanningKeeps ==
    ASSUME IInv, NEW c \in Calls,
           \/ ScanAllMail(c) \/ ScanOnJoin(c) \/ ScanBase(c) \/ ScanFails(c) \/ ScanDone(c)
           \/ ShowListing(c) \/ ShownAll(c) \/ Declines(c) \/ BeginReadDetour(c)
    PROVE  IInv'
<1>1. ASSUME NEW todo \in SUBSET GrantedPlaces, NEW stage \in {"scanning"},
             call[c].stage \in {"menu", "scanning"},
             Becomes(c, [call[c] EXCEPT !.stage = stage, !.todo = todo])
      PROVE  IInv'
  <2> DEFINE new == [call[c] EXCEPT !.stage = stage, !.todo = todo]
  <2>1. call[c] \in Sessions /\ call[c].home = NoPlace /\ todo \in SUBSET Places
    BY <1>1, SessionTyped DEF GrantedPlaces
  <2>2. /\ new \in Sessions /\ new.stage = "scanning" /\ new.open = call[c].open
        /\ new.name = call[c].name /\ new.home = call[c].home /\ new.account = call[c].account
        /\ new.found = call[c].found /\ new.todo = todo
    BY <2>1 DEF Sessions, Stages
  <2>3. Becomes(c, new)
    BY <1>1
  <2> HIDE DEF new
  <2> QED
    BY <1>1, <2>1, <2>2, <2>3, StayingKeeps
<1>2. CASE ScanAllMail(c)
  <2>1. ToScan(granted) \in SUBSET GrantedPlaces
    BY DEF ToScan, GrantedPlaces
  <2> QED
    BY <1>1, <1>2, <2>1 DEF ScanAllMail, At
<1>3. CASE ScanFails(c)
  <2>1. ASSUME NEW p \in Places, NextToScan(c, p), Becomes(c, [call[c] EXCEPT !.todo = @ \ {p}])
        PROVE  IInv'
    <3>1. call[c] \in Sessions /\ call[c].stage = "scanning" /\ call[c].todo \ {p} \in SUBSET GrantedPlaces
      BY <2>1, SessionTyped DEF NextToScan, At
    <3>2. [call[c] EXCEPT !.todo = @ \ {p}]
            = [call[c] EXCEPT !.stage = "scanning", !.todo = call[c].todo \ {p}]
      BY <3>1 DEF Sessions
    <3> QED
      BY <1>1, <2>1, <3>1, <3>2
  <2>2. CASE At(c, "arriving") /\ GoesTo(c, "menu")
    BY <2>2, AskingKeeps, WantsAre DEF At, Settled, Stages
  <2> QED
    BY <1>3, <2>1, <2>2 DEF ScanFails
<1>4. CASE ScanDone(c) \/ ShownAll(c)
  BY <1>4, AskingKeeps, WantsAre DEF ScanDone, ShownAll, At, Settled, Stages
<1> QED
  BY <1>2, <1>3, <1>4, ScanOnJoinKeeps, ScanBaseKeeps, ShowListingKeeps, DeclinesKeeps, DetourKeeps

----------------------------------------------------------------------------
(* The flag editor, and the beginning and the end of a call.                *)

LEMMA EditKeeps ==
    ASSUME IInv, NEW c \in Calls, NEW flag \in Flags, NEW how \in {"on", "off", "toggle"}, NEW which,
           ApplyScanFlagEdit(c, flag, how, which)
    PROVE  IInv'
<1> DEFINE flags == [n \in Conferences |-> IF n \in which \cap granted
                        THEN Edited(call[c].account.flags[n], flag, how)
                        ELSE call[c].account.flags[n]]
           account == [call[c].account EXCEPT !.flags = flags]
           new == [call[c] EXCEPT !.account = account]
<1>1. /\ call[c] \in Sessions /\ call[c].stage = "flags" /\ call[c].home = NoPlace
      /\ call[c].todo \subseteq GrantedPlaces /\ call[c].account \in AccountCopies
  BY SessionTyped DEF ApplyScanFlagEdit, At, Sessions
<1>2. flags \in [Conferences -> SUBSET Flags]
  <2>1. \A n \in Conferences : call[c].account.flags[n] \in SUBSET Flags
    BY <1>1 DEF AccountCopies
  <2>2. \A on \in SUBSET Flags : Edited(on, flag, how) \in SUBSET Flags
    BY DEF Edited
  <2> QED
    BY <2>1, <2>2
<1>3. Becomes(c, new)
  <2>1. [call[c] EXCEPT !.account.flags = [n \in Conferences |->
           IF n \in which \cap granted THEN Edited(@[n], flag, how) ELSE @[n]]] = new
    BY <1>1 DEF Sessions, AccountCopies
  <2> QED
    BY <2>1 DEF ApplyScanFlagEdit
<1> HIDE DEF flags
<1>4. /\ account \in AccountCopies /\ account.last = call[c].account.last
      /\ account.scanned = call[c].account.scanned
  BY <1>1, <1>2 DEF AccountCopies
<1> HIDE DEF account
<1>5. /\ new \in Sessions /\ new.stage = "flags" /\ new.open = call[c].open
      /\ new.name = call[c].name /\ new.home = call[c].home /\ new.account = account
      /\ new.found = call[c].found /\ new.todo = call[c].todo
  BY <1>1, <1>4 DEF Sessions
<1> HIDE DEF new
<1> QED
  BY <1>1, <1>3, <1>4, <1>5, StayingKeeps

LEMMA FlagsKeep ==
    ASSUME IInv, NEW c \in Calls,
           \/ ConferenceFlags(c) \/ LeaveFlags(c) \/ Logoff(c)
           \/ \E flag \in Flags, how \in {"on", "off", "toggle"}, which \in SUBSET Conferences :
                ApplyScanFlagEdit(c, flag, how, which)
    PROVE  IInv'
<1>1. CASE ConferenceFlags(c) \/ LeaveFlags(c) \/ Logoff(c)
  BY <1>1, AskingKeeps, WantsAre DEF ConferenceFlags, LeaveFlags, Logoff, At, Settled, Stages
<1> QED
  BY <1>1, EditKeeps

LEMMA DroppedKeeps ==
    ASSUME IInv, NEW c \in Calls, Dropped(c) \/ IdleTimedOut(c)
    PROVE  IInv'
  BY HangsUpKeeps DEF Dropped, IdleTimedOut, Online, Waiting

LEMMA FreshIs ==
    /\ Fresh \in AccountCopies /\ NoCall \in Sessions /\ Fresh.last = NoPlace
    /\ NoCall.stage = "out" /\ NoCall.found = <<>> /\ NoCall.todo = {} /\ NoCall.home = NoPlace
    /\ NoCall.account = Fresh /\ \A p \in Places : Fresh.scanned[p] = 0
<1>1. Fresh \in AccountCopies
  BY AccountAssumption DEF Fresh, AccountCopies
<1>2. <<>> \in Seq(Places) /\ <<>> \in Seq(Finds)
  OBVIOUS
<1>3. NoCall \in Sessions
  BY <1>1, <1>2 DEF NoCall, Sessions, Stages, Wants
<1> QED
  BY <1>1, <1>3 DEF NoCall, Fresh

\* Where a returning caller is put.
LEMMA RejoinedIs ==
    ASSUME TypeOK, granted # {}, NEW account \in AccountCopies
    PROVE  Rejoined(account) \in GrantedPlaces
<1>1. granted \subseteq Nat
  BY CatalogueAssumption DEF TypeOK
<1>2. FirstAccessible \in granted
  BY <1>1, MinOfSet DEF FirstAccessible
<1>3. \A n \in granted : <<n, PrimaryMsgbase(n)>> \in GrantedPlaces
  BY GrantedPlaceIs DEF TypeOK
<1> QED
  BY <1>2, <1>3 DEF Rejoined, HasMembership

LEMMA SignInKeeps ==
    ASSUME IInv, NEW c \in Calls, SignIn(c)
    PROVE  IInv'
<1>1. /\ call[c] = NoCall /\ Sound(call[c], told[c], passed[c]) /\ TypeOK /\ call[c].stage = "out"
      /\ NoCall \in Sessions
  BY FreshIs DEF IInv, Sound, SignIn, At
<1>2. CASE granted = {}
  <2> DEFINE new == [call[c] EXCEPT !.stage = "ended"]
  <2>1. Becomes(c, new)
    BY <1>1, <1>2 DEF SignIn, Becomes, TypeOK
  <2>2. /\ new \in Sessions /\ new.stage = "ended" /\ new.found = call[c].found
        /\ new.todo = call[c].todo /\ new.account = call[c].account
    BY <1>1 DEF Sessions, Stages
  <2> HIDE DEF new
  <2>3. Placed(new) /\ new.todo \subseteq GrantedPlaces
    BY <1>1, <2>2, FreshIs DEF Placed
  <2>4. Sound(new, told[c], passed[c])
    BY <1>1, <2>2, <2>3, StillSound
  <2> QED
    BY <1>1, <2>1, <2>2, <2>4, BecomesKeeps DEF At
<1>3. CASE granted # {}
  <2> PICK p : p = Rejoined(stored)
    OBVIOUS
  <2> DEFINE loaded == [NoCall EXCEPT !.account = stored, !.base = stored]
             session == Joined(loaded, p)
             new == [session EXCEPT !.base = session.account, !.stage = "scanning",
                                    !.todo = LogonScan(session)]
  <2>1. /\ stored' = session.account /\ call' = [call EXCEPT ![c] = new]
        /\ passed' = [passed EXCEPT ![c] = [q \in Places |-> 1 .. stored.scanned[q]]]
        /\ UNCHANGED <<mail, granted, asked, posts, told, editor>>
    BY <1>3 DEF SignIn
  <2>2. p \in GrantedPlaces /\ p \in Places /\ stored \in AccountCopies
    BY <1>1, <1>3, RejoinedIs DEF TypeOK, GrantedPlaces
  <2>3. /\ loaded \in Sessions /\ loaded.stage = "out" /\ loaded.account = stored
        /\ loaded.found = <<>> /\ loaded.home = NoPlace
    BY <1>1, <2>2, FreshIs DEF Sessions
  <2> HIDE DEF loaded
  <2>4. /\ session \in Sessions /\ session.open = <<p>> /\ session.account.last = p
        /\ session.account \in AccountCopies /\ session.account.scanned = stored.scanned
        /\ session.name = NameTypeOf[p[1]] /\ session.home = NoPlace /\ session.found = <<>>
    BY <2>2, <2>3, JoinedIs
  <2>flags. session.account.flags = stored.flags
    BY <2>2, <2>3 DEF Joined, Attach, Sessions, AccountCopies
  <2> HIDE DEF session
  <2>5. LogonScan(session) \subseteq GrantedPlaces /\ LogonScan(session) \in SUBSET Places
    BY DEF LogonScan, ToScan, GrantedPlaces
  <2>6. /\ new \in Sessions /\ new.stage = "scanning" /\ new.open = <<p>>
        /\ new.account = session.account /\ new.name = session.name /\ new.home = NoPlace
        /\ new.found = <<>> /\ new.todo = LogonScan(session)
    BY <2>4, <2>5 DEF Sessions, Stages
  <2> HIDE DEF new
  <2>7. \A q \in Places : /\ stored.scanned[q] \in Nat /\ Len(mail[q]) \in Nat
                          /\ stored.scanned[q] <= Len(mail[q])
    <3>1. \A q \in Places : Len(mail[q]) \in Nat
      BY <1>1, LenProperties DEF TypeOK
    <3> QED
      BY <2>2, <3>1 DEF IInv, Within, AccountCopies
  <2>8. TypeOK'
    <3>1. [q \in Places |-> 1 .. stored.scanned[q]] \in [Places -> SUBSET Nat]
      BY <2>7
    <3> QED
      BY <1>1, <2>1, <2>4, <2>6, <3>1 DEF TypeOK
  <2>9. MailAges
    BY <2>1, <2>7 DEF MailAges
  <2>10. PICK toldOf, passedOf : toldOf = told'[c] /\ passedOf = passed'[c]
    OBVIOUS
  <2>11. toldOf = told[c] /\ \A q \in Places : passedOf[q] = 1 .. stored.scanned[q]
    BY <1>1, <2>1, <2>10 DEF TypeOK
  <2>12. Sound(new, toldOf, passedOf)
    <3>1. Len(new.found) = 0
      BY <2>6
    <3>2. Placed(new)
      BY <2>2, <2>4, <2>6 DEF Placed
    <3>3. Listed(new)
      BY <2>5, <2>6, <3>1 DEF Listed
    <3>4. Within(new.account)
      BY <2>4, <2>6, <2>7 DEF Within
    <3>5. Untold(new, toldOf)
      <4>1. \A q \in Places, n \in 1 .. MaxMail : toldOf[q][n] = 0
        <5>1. \A n \in 1 .. MaxMail : n > 0
          OBVIOUS
        <5> QED
          BY <1>1, <2>11, <5>1, FreshIs DEF Sound, Untold
      <4> QED
        BY <2>6, <3>1, <4>1 DEF Untold
    <3>6. Covered(new, toldOf, passedOf)
      BY <2>4, <2>6, <2>11 DEF Covered
    <3> QED
      BY <2>6, <3>2, <3>3, <3>4, <3>5, <3>6 DEF Sound
  <2>13. \A d \in Calls : Sound(call[d], told[d], passed[d])'
    <3>1. \A d \in Calls \ {c} : told'[d] = told[d] /\ passed'[d] = passed[d]
      BY <1>1, <2>1 DEF TypeOK
    <3>2. \A d \in Calls : Sound(call[d], told[d], passed[d])
      BY DEF IInv
    <3> QED
      BY <1>1, <2>1, <2>6, <2>8, <2>9, <2>10, <2>12, <3>1, <3>2, CallsStaySound
  <2>14. Within(stored)'
    BY <2>1, <2>4, <2>7 DEF Within
  <2>15. \A n \in Conferences : editor[n] # None =>
           editor[n] \in Calls \ {c} /\ call'[editor[n]] = call[editor[n]]
    BY <1>1, <2>1 DEF IInv, TypeOK, Edits, At
  <2>16. Edits'
    BY <2>1, <2>15 DEF IInv, Edits, At
  <2>17. FlagEditsSurvive'
    BY <2>1, <2>flags, <2>15 DEF IInv, FlagEditsSurvive
  <2> QED
    BY <2>8, <2>13, <2>14, <2>16, <2>17 DEF IInv
<1> QED
  BY <1>2, <1>3

LEMMA FinaliseKeeps ==
    ASSUME IInv, NEW c \in Calls, FinaliseLogoff(c)
    PROVE  IInv'
<1> DEFINE old == call[c]
           new == [old EXCEPT !.stage = "ended"]
<1>1. /\ old \in Sessions /\ TypeOK /\ old.stage = "leaving" /\ Sound(old, told[c], passed[c])
      /\ stored \in AccountCopies
  BY DEF IInv, TypeOK, FinaliseLogoff, At
<1>2. old.account \in AccountCopies /\ old.base \in AccountCopies
  BY <1>1 DEF Sessions
<1>3. /\ call' = [call EXCEPT ![c] = new]
      /\ UNCHANGED <<mail, granted, asked, posts, told, passed>>
  BY <1>1 DEF FinaliseLogoff, TypeOK
<1>4. /\ new \in Sessions /\ new.stage = "ended" /\ new.found = old.found
      /\ new.todo = old.todo /\ new.account = old.account
  BY <1>1 DEF Sessions, Stages
<1>5. /\ stored'.last \in Places \cup {NoPlace}
      /\ stored' = [last |-> stored'.last,
                    read |-> [p \in Places |-> Max({stored.read[p], old.account.read[p]})],
                    scanned |-> [p \in Places |-> Max({stored.scanned[p], old.account.scanned[p]})],
                    flags |-> [n \in Conferences |-> IF FlagsChanged(old, n)
                                 THEN old.account.flags[n] ELSE stored.flags[n]]]
  <2>1. stored'.last = IF old.account.last = old.base.last THEN stored.last ELSE old.account.last
    BY DEF FinaliseLogoff
  <2> QED
    BY <1>1, <1>2, <2>1 DEF FinaliseLogoff, AccountCopies
<1>6. \A p \in Places :
        /\ stored.read[p] \in Nat /\ old.account.read[p] \in Nat
        /\ stored.scanned[p] \in Nat /\ old.account.scanned[p] \in Nat
  BY <1>1, <1>2 DEF AccountCopies
<1>7. \A p \in Places :
        /\ Max({stored.read[p], old.account.read[p]}) \in Nat
        /\ Max({stored.scanned[p], old.account.scanned[p]}) \in {stored.scanned[p], old.account.scanned[p]}
  BY <1>6, MaxOfTwo
<1>8. \A n \in Conferences : old.account.flags[n] \in SUBSET Flags /\ stored.flags[n] \in SUBSET Flags
  BY <1>1, <1>2 DEF AccountCopies
<1>9. editor' = [n \in Conferences |-> IF FlagsChanged(old, n) THEN c ELSE editor[n]]
  BY DEF FinaliseLogoff, FlagsChanged
<1> HIDE DEF old, new
<1>10. /\ stored' \in AccountCopies
       /\ \A p \in Places : stored'.scanned[p] \in {stored.scanned[p], old.account.scanned[p]}
       /\ \A n \in Conferences : stored'.flags[n] = IF FlagsChanged(old, n)
                                   THEN old.account.flags[n] ELSE stored.flags[n]
  <2> DEFINE read == [p \in Places |-> Max({stored.read[p], old.account.read[p]})]
             scanned == [p \in Places |-> Max({stored.scanned[p], old.account.scanned[p]})]
             flags == [n \in Conferences |-> IF FlagsChanged(old, n)
                         THEN old.account.flags[n] ELSE stored.flags[n]]
  <2>1. read \in [Places -> Nat]
    BY <1>7
  <2>2. scanned \in [Places -> Nat]
    BY <1>6, <1>7
  <2>3. flags \in [Conferences -> SUBSET Flags]
    BY <1>8
  <2>4. \A p \in Places : scanned[p] \in {stored.scanned[p], old.account.scanned[p]}
    BY <1>7
  <2>5. \A n \in Conferences : flags[n] = IF FlagsChanged(old, n)
                                  THEN old.account.flags[n] ELSE stored.flags[n]
    OBVIOUS
  <2>6. stored' = [last |-> stored'.last, read |-> read, scanned |-> scanned, flags |-> flags]
    BY <1>5
  <2> HIDE DEF read, scanned, flags
  <2>7. [last |-> stored'.last, read |-> read, scanned |-> scanned, flags |-> flags] \in AccountCopies
    BY <1>5, <2>1, <2>2, <2>3 DEF AccountCopies
  <2>8. stored'.scanned = scanned /\ stored'.flags = flags
    BY <2>6
  <2> QED
    BY <2>4, <2>5, <2>6, <2>7, <2>8
<1>11. TypeOK'
  BY <1>1, <1>3, <1>4, <1>9, <1>10 DEF TypeOK
<1>12. MailAges
  <2>1. \A q \in Places : Len(mail[q]) \in Nat
    BY <1>1, LenProperties DEF TypeOK
  <2> QED
    BY <1>3, <2>1 DEF MailAges
<1>13. Sound(new, told[c], passed[c])
  <2>1. Placed(new) /\ new.todo \subseteq GrantedPlaces
    BY <1>1, <1>4 DEF Placed, Sound, Listed
  <2> QED
    BY <1>1, <1>4, <2>1, StillSound
<1>14. \A d \in Calls : Sound(call[d], told[d], passed[d])'
  <2>1. PICK toldOf, passedOf : toldOf = told[c] /\ passedOf = passed[c]
    OBVIOUS
  <2>2. \A d \in Calls : Sound(call[d], told[d], passed[d])
    BY DEF IInv
  <2>3. toldOf = told'[c] /\ passedOf = passed'[c] /\ Sound(new, toldOf, passedOf)
    BY <1>3, <1>13, <2>1
  <2>4. \A d \in Calls \ {c} : told'[d] = told[d] /\ passed'[d] = passed[d]
    BY <1>3
  <2> QED
    BY <1>1, <1>3, <1>4, <1>11, <1>12, <2>2, <2>3, <2>4, CallsStaySound
<1>15. Within(stored)'
  <2>1. \A p \in Places : stored.scanned[p] <= Len(mail[p]) /\ old.account.scanned[p] <= Len(mail[p])
    BY <1>1 DEF IInv, Sound, Within
  <2> QED
    BY <1>3, <1>10, <2>1 DEF Within
<1>16. call'[c] = new /\ c # None /\ \A d \in Calls \ {c} : call'[d] = call[d]
  BY <1>1, <1>3, AccountAssumption DEF TypeOK
<1>17. \A n \in Conferences : editor[n] # None =>
         editor[n] \in Calls \ {c} /\ call[editor[n]].stage = "ended"
  BY <1>1 DEF IInv, TypeOK, Edits, At, old
<1>18. Edits'
  BY <1>4, <1>9, <1>16, <1>17 DEF Edits, At
<1>19. FlagEditsSurvive'
  <2> SUFFICES ASSUME NEW n \in Conferences
               PROVE  stored'.flags[n] = IF editor'[n] = None THEN Fresh.flags[n]
                                         ELSE call'[editor'[n]].account.flags[n]
    BY DEF FlagEditsSurvive
  <2>1. CASE FlagsChanged(old, n)
    BY <1>4, <1>9, <1>10, <1>16, <2>1
  <2>2. CASE ~ FlagsChanged(old, n)
    BY <1>9, <1>10, <1>16, <1>17, <2>2 DEF IInv, FlagEditsSurvive
  <2> QED
    BY <2>1, <2>2
<1> QED
  BY <1>11, <1>14, <1>15, <1>18, <1>19 DEF IInv

----------------------------------------------------------------------------
(* The others, and all steps.                                               *)

LEMMA AgingKeeps ==
    ASSUME IInv, TypeOK', MailAges, UNCHANGED <<granted, stored, call, told, passed, editor>>
    PROVE  IInv'
<1>1. ASSUME NEW d \in Calls
      PROVE  Sound(call[d], told[d], passed[d])'
  <2>1. PICK session, t, s : session = call[d] /\ t = told[d] /\ s = passed[d]
    OBVIOUS
  <2>2. session \in Sessions /\ Sound(session, t, s)
    BY <2>1 DEF IInv, TypeOK
  <2>3. Sound(session, t, s)'
    BY <2>2, SoundAsMailAges DEF IInv
  <2> QED
    BY <2>1, <2>3
<1>2. Within(stored)'
  BY StoredStaysWithin DEF IInv, Within
<1> QED
  BY <1>1, <1>2 DEF IInv, Edits, At, FlagEditsSurvive

LEMMA OthersKeep ==
    ASSUME IInv,
           \/ \E p \in Places, kind \in {"mine", "all", "other"} : OthersPost(p, kind)
           \/ \E p \in Places, n \in 1 .. MaxMail : Delete(p, n)
    PROVE  IInv'
<1>1. /\ mail \in [Places -> Seq(Kinds)] /\ TypeOK /\ MaxMail \in Nat
      /\ \A p \in Places : Len(mail[p]) \in Nat /\ Len(mail[p]) <= MaxMail
                           /\ DOMAIN mail[p] = 1 .. Len(mail[p])
  <2>1. TypeOK
    BY DEF IInv
  <2> QED
    BY <2>1, LenProperties, ConferenceBounds DEF TypeOK
<1>2. ASSUME NEW p \in Places, NEW there \in Seq(Kinds),
             Len(mail[p]) <= Len(there), Len(there) <= MaxMail,
             \A n \in 1 .. Len(mail[p]) : there[n] = mail[p][n] \/ there[n] = "gone",
             mail' = [mail EXCEPT ![p] = there],
             UNCHANGED <<granted, stored, call, told, passed, editor>>
      PROVE  IInv'
  <2>1. TypeOK'
    BY <1>1, <1>2 DEF TypeOK
  <2>2. MailAges
    BY <1>1, <1>2 DEF MailAges, IsUnreadFor
  <2> QED
    BY <1>2, <2>1, <2>2, AgingKeeps
<1>3. ASSUME NEW p \in Places, NEW kind \in {"mine", "all", "other"}, OthersPost(p, kind)
      PROVE  IInv'
  <2> DEFINE there == Append(mail[p], kind)
  <2>1. kind \in Kinds /\ mail[p] \in Seq(Kinds)
    BY <1>1 DEF Kinds
  <2>2. /\ there \in Seq(Kinds) /\ Len(there) = Len(mail[p]) + 1
        /\ \A n \in 1 .. Len(mail[p]) : there[n] = mail[p][n]
    BY <2>1, AppendProperties
  <2>3. /\ mail' = [mail EXCEPT ![p] = there] /\ Len(mail[p]) < MaxMail
        /\ UNCHANGED <<granted, stored, call, told, passed, editor>>
    BY <1>1, <1>3 DEF OthersPost, Others
  <2> HIDE DEF there
  <2>4. Len(mail[p]) <= Len(there) /\ Len(there) <= MaxMail
    BY <1>1, <2>2, <2>3
  <2> QED
    BY <1>2, <2>2, <2>3, <2>4
<1>4. ASSUME NEW p \in Places, NEW n \in 1 .. MaxMail, Delete(p, n)
      PROVE  IInv'
  <2> DEFINE there == [mail[p] EXCEPT ![n] = "gone"]
  <2>1. "gone" \in Kinds /\ mail[p] \in Seq(Kinds) /\ n \in 1 .. Len(mail[p])
    BY <1>1, <1>4 DEF Kinds, Delete
  <2>2. /\ there \in Seq(Kinds) /\ Len(there) = Len(mail[p])
        /\ \A k \in 1 .. Len(mail[p]) : there[k] = IF k = n THEN "gone" ELSE mail[p][k]
    BY <2>1, ExceptSeq
  <2>3. /\ mail' = [mail EXCEPT ![p] = there]
        /\ UNCHANGED <<granted, stored, call, told, passed, editor>>
    BY <1>1, <1>4 DEF Delete, Others
  <2> HIDE DEF there
  <2>4. Len(mail[p]) <= Len(there) /\ Len(there) <= MaxMail
    BY <1>1, <2>2
  <2> QED
    BY <1>2, <2>2, <2>3, <2>4
<1> QED
  BY <1>3, <1>4

LEMMA InitHolds == Init => IInv
<1> SUFFICES ASSUME Init PROVE IInv
  OBVIOUS
<1>1. <<>> \in Seq(Kinds) /\ Len(<<>>) = 0
  OBVIOUS
<1>2. 0 \in 0 .. 2 /\ {} \in SUBSET Nat
  OBVIOUS
<1>3. /\ mail = [p \in Places |-> <<>>] /\ granted \subseteq Conferences /\ stored = Fresh
      /\ call = [c \in Calls |-> NoCall] /\ told = [c \in Calls |-> Zero]
      /\ passed = [c \in Calls |-> [p \in Places |-> {}]]
      /\ editor = [n \in Conferences |-> None]
  BY AccountAssumption DEF Init
<1>4. TypeOK
  <2>1. mail \in [Places -> Seq(Kinds)] /\ \A p \in Places : Len(mail[p]) <= MaxMail
    BY <1>1, <1>3, ConferenceBounds
  <2>2. told \in [Calls -> [Places -> [1 .. MaxMail -> 0 .. 2]]]
    BY <1>2, <1>3 DEF Zero
  <2>3. passed \in [Calls -> [Places -> SUBSET Nat]]
    BY <1>2, <1>3
  <2>4. editor \in [Conferences -> Calls \cup {None}]
    BY <1>3
  <2>5. stored \in AccountCopies /\ call \in [Calls -> Sessions]
    BY <1>3, FreshIs
  <2> QED
    BY <1>3, <2>1, <2>2, <2>3, <2>4, <2>5 DEF TypeOK
<1>5. Within(Fresh)
  BY <1>1, <1>3, FreshIs DEF Within
<1>6. ASSUME NEW c \in Calls
      PROVE  Sound(call[c], told[c], passed[c])
  <2>1. call[c] = NoCall /\ \A p \in Places, n \in 1 .. MaxMail : told[c][p][n] = 0
    BY <1>3 DEF Zero
  <2>2. Placed(NoCall) /\ Listed(NoCall) /\ Within(NoCall.account) /\ Covered(NoCall, told[c], passed[c])
    BY <1>1, <1>5, FreshIs DEF Placed, Listed, Covered
  <2>3. Untold(NoCall, told[c])
    BY <1>1, <2>1, FreshIs DEF Untold
  <2> QED
    BY <2>1, <2>2, <2>3 DEF Sound
<1>7. Edits /\ FlagEditsSurvive
  BY <1>3 DEF Edits, FlagEditsSurvive
<1> QED
  BY <1>3, <1>4, <1>5, <1>6, <1>7 DEF IInv

LEMMA NextHolds == IInv /\ [Next]_vars => IInv'
<1> SUFFICES ASSUME IInv, [Next]_vars PROVE IInv'
  OBVIOUS
<1>1. ASSUME NEW c \in Calls, SignIn(c) PROVE IInv'
  BY <1>1, SignInKeeps
<1>2. ASSUME NEW c \in Calls, Answers(c) PROVE IInv'
  BY <1>2, JoiningKeeps, ScanningKeeps, ReadingKeeps, FlagsKeep DEF Answers
<1>3. ASSUME NEW c \in Calls, Runs(c) PROVE IInv'
  BY <1>3, ScanningKeeps, ReadingKeeps, FinaliseKeeps DEF Runs
<1>4. ASSUME NEW c \in Calls, Dropped(c) \/ IdleTimedOut(c) PROVE IInv'
  BY <1>4, DroppedKeeps
<1>5. CASE \/ \E p \in Places, kind \in {"mine", "all", "other"} : OthersPost(p, kind)
           \/ \E p \in Places, n \in 1 .. MaxMail : Delete(p, n)
  BY <1>5, OthersKeep
<1>6. CASE UNCHANGED vars
  <2>1. TypeOK' /\ MailAges
    BY <1>6, LenProperties DEF vars, IInv, TypeOK, MailAges
  <2> QED
    BY <1>6, <2>1, AgingKeeps DEF vars
<1> QED
  BY <1>1, <1>2, <1>3, <1>4, <1>5, <1>6 DEF Next

\* IInv, in every reachable state: visits, what a scan found, what was told of
\* it and the flags of the account fit together whatever the calls and those
\* who post and delete do meanwhile.
THEOREM Invariance == Spec => []IInv
  BY InitHolds, NextHolds, PTL DEF Spec

\* A call has one open visit, in a granted conference that has that base, and
\* the account and the name it goes by are those of the last join (attach,
\* begin_read_detour, end_read_detour).
THEOREM VisitsAreLegal == Spec => []VisitIsLegal
<1>1. IInv => VisitIsLegal
  <2> SUFFICES ASSUME IInv, NEW c \in Calls, call[c].stage \notin {"out", "ended"}
               PROVE  /\ Len(call[c].open) = 1
                      /\ Current(call[c]) \in Places /\ HasMembership(CurrentConference(c))
                      /\ call[c].account.last = IF call[c].home = NoPlace THEN Current(call[c])
                                                                         ELSE call[c].home
                      /\ call[c].name = NameTypeOf[call[c].account.last[1]]
    BY DEF VisitIsLegal
  <2>1. Placed(call[c])
    BY DEF IInv, Sound
  <2>2. PICK p \in GrantedPlaces :
          /\ call[c].open = <<p>>
          /\ call[c].account.last = IF call[c].home = NoPlace THEN p ELSE call[c].home
    BY <2>1 DEF Placed
  <2>3. Current(call[c]) = p /\ Len(call[c].open) = 1
    BY <2>2, OneVisit DEF Current
  <2> QED
    BY <2>1, <2>2, <2>3 DEF Placed, GrantedPlaces, CurrentConference, HasMembership
<1> QED
  BY <1>1, Invariance, PTL

\* No scan tells a call of a message a second time, and none leaves an unread
\* message behind its pointer that it did not tell of (scan_mail).
THEOREM MailIsAnnouncedOnce == Spec => []AnnouncedOnce
<1>1. IInv => AnnouncedOnce
  <2> SUFFICES ASSUME IInv, NEW c \in Calls, NEW p \in Places
               PROVE  /\ \A n \in 1 .. MaxMail : told[c][p][n] <= 1
                      /\ Online(c) => \A n \in 1 .. call[c].account.scanned[p] :
                           n \in DOMAIN mail[p] /\ IsUnreadFor(mail[p][n]) =>
                             \/ told[c][p][n] > 0 \/ n \in passed[c][p]
                             \/ \E f \in Range(call[c].found) : f.place = p /\ n \in f.rows
    BY DEF AnnouncedOnce
  <2>1. Untold(call[c], told[c]) /\ Covered(call[c], told[c], passed[c])
    BY DEF IInv, Sound
  <2>2. \A i \in 1 .. Len(call[c].found) : call[c].found[i] \in Range(call[c].found)
    <3>1. call[c].found \in Seq(Finds)
      BY DEF IInv, TypeOK, Sessions
    <3> QED
      BY <3>1, LenProperties DEF Range
  <2> QED
    BY <2>1, <2>2 DEF Untold, Covered, Online
<1> QED
  BY <1>1, Invariance, PTL

\* No call undoes the flags another one set in a conference it did not edit
\* itself (UserPatch::between).
THEOREM EditsSurvive == Spec => []FlagEditsSurvive
  BY Invariance, PTL DEF IInv

----------------------------------------------------------------------------
(* A scan leaves the caller where he was.                                   *)

Home(session) == IF session.home = NoPlace THEN Current(session) ELSE session.home

\* The steps a call can take during a scan.
LEMMA InScanSteps ==
    ASSUME NEW c \in Calls, InScan(call[c]),
           SignIn(c) \/ Answers(c) \/ Runs(c) \/ Dropped(c) \/ IdleTimedOut(c)
    PROVE  \/ ScanBase(c) \/ ScanFails(c) \/ ScanDone(c) \/ ShowListing(c) \/ ShownAll(c)
           \/ Declines(c) \/ BeginReadDetour(c) \/ Open(c) \/ ReadOn(c) \/ LeaveRead(c)
           \/ HangsUp(c)
<1>1. call[c].stage \in {"scanning", "showing", "offer", "opening", "reading"}
  BY DEF InScan
<1>2. CASE SignIn(c) \/ Runs(c) \/ Dropped(c) \/ IdleTimedOut(c)
  <2>1. ~ SignIn(c) /\ ~ ScanOnJoin(c) /\ ~ FinaliseLogoff(c)
    BY <1>1 DEF SignIn, ScanOnJoin, FinaliseLogoff, At
  <2> QED
    BY <1>2, <2>1 DEF Runs, Dropped, IdleTimedOut
<1>3. CASE Answers(c)
  <2>1. \A n, b : ~ JoinCommand(c, n, b) /\ ~ AnswerConference(c, n) /\ ~ AnswerBase(c, n)
                 /\ ~ JoinMsgbaseCommand(c, b)
    BY <1>1 DEF JoinCommand, AnswerConference, AnswerBase, JoinMsgbaseCommand, At
  <2>2. ~ PrevConference(c) /\ ~ NextConference(c) /\ ~ PrevMsgbase(c) /\ ~ NextMsgbase(c)
    BY <1>1 DEF PrevConference, NextConference, PrevMsgbase, NextMsgbase, AsksToWalk, At
  <2>3. ~ ScanAllMail(c) /\ (\A n : ~ ReadCommand(c, n)) /\ ~ ReadAtPointer(c)
    BY <1>1 DEF ScanAllMail, ReadCommand, ReadAtPointer, At
  <2>4. /\ ~ ConferenceFlags(c) /\ ~ LeaveFlags(c) /\ ~ Logoff(c)
        /\ \A flag, how, which : ~ ApplyScanFlagEdit(c, flag, how, which)
    BY <1>1 DEF ConferenceFlags, LeaveFlags, ApplyScanFlagEdit, Logoff, At
  <2> QED
    BY <1>3, <2>1, <2>2, <2>3, <2>4 DEF Answers
<1> QED
  BY <1>2, <1>3

LEMMA BecomesIs ==
    ASSUME TypeOK, NEW c \in Calls, NEW new, Becomes(c, new) \/ call' = [call EXCEPT ![c] = new]
    PROVE  call'[c] = new
  BY DEF Becomes, TypeOK

LEMMA EndReadLeavesHome ==
    ASSUME NEW session \in Sessions, Placed(session), session.stage \notin {"out", "ended"}
    PROVE  /\ Home(EndRead(session)) = Home(session)
           /\ Home([EndRead(session) EXCEPT !.stage = "leaving"]) = Home(session)
<1> PICK new : new = EndRead(session)
  OBVIOUS
<1>1. /\ new \in Sessions /\ new.home = NoPlace
      /\ new.open = IF session.home = NoPlace THEN session.open ELSE <<session.home>>
  BY EndReadIs
<1>2. Home(new) = Home(session)
  BY <1>1, OneVisit DEF Home, Current
<1>3. /\ [new EXCEPT !.stage = "leaving"].home = new.home
      /\ [new EXCEPT !.stage = "leaving"].open = new.open
  BY <1>1 DEF Sessions
<1> QED
  BY <1>2, <1>3 DEF Home, Current

LEMMA ScanStaysHome ==
    ASSUME IInv, NEW c \in Calls, InScan(call[c]),
           SignIn(c) \/ Answers(c) \/ Runs(c) \/ Dropped(c) \/ IdleTimedOut(c)
    PROVE  Home(call'[c]) = Home(call[c])
<1> DEFINE old == call[c]
<1>1. old \in Sessions /\ Placed(old) /\ TypeOK /\ old.stage \notin {"out", "ended"}
  BY DEF IInv, TypeOK, Sound, InScan
<1>2. CASE ScanBase(c)
  <2>1. PICK p \in Places :
          call'[c] = [old EXCEPT !.todo = @ \ {p}, !.found = Found(old, p), !.account = Scanned(@, p)]
    BY <1>1, <1>2, BecomesIs DEF ScanBase
  <2>2. call'[c].home = old.home /\ call'[c].open = old.open
    BY <1>1, <2>1 DEF Sessions
  <2> QED
    BY <2>2 DEF Home, Current
<1>3. CASE ScanFails(c) \/ ScanDone(c) \/ ShownAll(c) \/ ShowListing(c)
  <2>1. \/ \E p : call'[c] = [old EXCEPT !.todo = @ \ {p}]
        \/ \E stage : call'[c] = [old EXCEPT !.stage = stage]
    BY <1>1, <1>3, BecomesIs DEF ScanFails, ScanDone, ShownAll, ShowListing, GoesTo
  <2>2. call'[c].home = old.home /\ call'[c].open = old.open
    BY <1>1, <2>1 DEF Sessions
  <2> QED
    BY <2>2 DEF Home, Current
<1>4. CASE Declines(c)
  <2>1. call'[c] = [old EXCEPT !.stage = "showing", !.found = Tail(@)]
    BY <1>1, <1>4, BecomesIs DEF Declines
  <2>2. call'[c].home = old.home /\ call'[c].open = old.open
    BY <1>1, <2>1 DEF Sessions
  <2> QED
    BY <2>2 DEF Home, Current
<1>5. CASE BeginReadDetour(c)
  <2>1. old.stage = "offer" /\ old.home = NoPlace
    BY <1>1, <1>5 DEF BeginReadDetour, At, Placed
  <2>2. Current(old) # NoPlace
    BY <1>1, CurrentIs, PlaceIs DEF GrantedPlaces
  <2>3. PICK f, n : call'[c] = [Attach(old, f) EXCEPT !.stage = "opening", !.home = Current(old),
                                                    !.next = n, !.found = Tail(@)]
    BY <1>1, <1>5, BecomesIs DEF BeginReadDetour
  <2>4. call'[c].home = Current(old)
    BY <1>1, <2>3 DEF Sessions, Attach
  <2> QED
    BY <2>1, <2>2, <2>4 DEF Home
<1>6. CASE ReadThis(c)
  <2>1. PICK account, n : call'[c] = [old EXCEPT !.stage = "reading", !.next = n, !.account = account]
    BY <1>1, <1>6, BecomesIs DEF ReadThis
  <2>2. call'[c].home = old.home /\ call'[c].open = old.open
    BY <1>1, <2>1 DEF Sessions
  <2> QED
    BY <2>2 DEF Home, Current
<1>7. CASE Becomes(c, EndRead(old)) \/ HangsUp(c)
  <2>1. call'[c] = EndRead(old) \/ call'[c] = [EndRead(old) EXCEPT !.stage = "leaving"]
    BY <1>1, <1>7, BecomesIs DEF HangsUp
  <2> QED
    BY <1>1, <2>1, EndReadLeavesHome
<1>8. CASE ReadOn(c) /\ ~ ReadThis(c)
  <2>1. call'[c] = [old EXCEPT !.next = @ + 1]
    BY <1>1, <1>8, BecomesIs DEF ReadOn
  <2>2. call'[c].home = old.home /\ call'[c].open = old.open
    BY <1>1, <2>1 DEF Sessions
  <2> QED
    BY <2>2 DEF Home, Current
<1>9. Open(c) \/ LeaveRead(c) => ReadThis(c) \/ Becomes(c, EndRead(old))
  BY DEF Open, LeaveRead
<1> QED
  BY <1>2, <1>3, <1>4, <1>5, <1>6, <1>7, <1>8, <1>9, InScanSteps

\* The steps of a call are its own.
LEMMA OthersRest ==
    ASSUME TypeOK, NEW c \in Calls, NEW d \in Calls \ {c},
           SignIn(d) \/ Answers(d) \/ Runs(d) \/ Dropped(d) \/ IdleTimedOut(d)
    PROVE  call'[c] = call[c]
<1>1. \A new : Becomes(d, new) \/ call' = [call EXCEPT ![d] = new] => call'[c] = call[c]
  BY DEF Becomes, TypeOK
<1>2. \A n, b : ExplicitJoin(d, n, b) => call'[c] = call[c]
  BY <1>1, Zenon DEF ExplicitJoin
<1>3. \A stage : GoesTo(d, stage) => call'[c] = call[c]
  BY <1>1, Zenon DEF GoesTo
<1>4. \A n, b : Target(d, n, b) \/ AskConference(d, b) \/ JoinBase(d, b) => call'[c] = call[c]
  BY <1>1, <1>2, <1>3 DEF Target, AskConference, JoinBase, AskBase
<1>5. CASE SignIn(d)
  BY <1>5 DEF SignIn, TypeOK
<1>6. ASSUME \/ \E n \in Numbers \cup {None}, b \in Numbers \cup {None} : JoinCommand(d, n, b)
             \/ \E answer \in Numbers \cup {None} : AnswerConference(d, answer) \/ AnswerBase(d, answer)
             \/ \E b \in Numbers \cup {None} : JoinMsgbaseCommand(d, b)
             \/ PrevConference(d) \/ NextConference(d) \/ PrevMsgbase(d) \/ NextMsgbase(d)
      PROVE  call'[c] = call[c]
  <2>1. \A n, b : JoinCommand(d, n, b) => call'[c] = call[c]
    BY <1>4 DEF JoinCommand
  <2>2. \A answer : AnswerConference(d, answer) => call'[c] = call[c]
    BY <1>1, <1>2, <1>4 DEF AnswerConference
  <2>3. \A answer : AnswerBase(d, answer) => call'[c] = call[c]
    BY <1>1, <1>2, <1>4 DEF AnswerBase
  <2>4. \A b : JoinMsgbaseCommand(d, b) => call'[c] = call[c]
    BY <1>4 DEF JoinMsgbaseCommand
  <2>5. PrevConference(d) \/ NextConference(d) => call'[c] = call[c]
    BY <1>1, <1>2, <1>4 DEF PrevConference, NextConference, WalkConferences
  <2>6. PrevMsgbase(d) \/ NextMsgbase(d) => call'[c] = call[c]
    BY <1>1, <1>2, <1>4 DEF PrevMsgbase, NextMsgbase, StepMsgbase
  <2> QED
    BY <1>6, <2>1, <2>2, <2>3, <2>4, <2>5, <2>6
<1>7. CASE \/ ScanAllMail(d) \/ Declines(d) \/ BeginReadDetour(d) \/ ScanOnJoin(d) \/ ScanBase(d)
           \/ ScanFails(d) \/ ScanDone(d) \/ ShowListing(d) \/ ShownAll(d)
  BY <1>1, <1>3, <1>7, Zenon
     DEF ScanAllMail, Declines, BeginReadDetour, ScanOnJoin, ScanBase, ScanFails, ScanDone,
         ShowListing, ShownAll
<1>8. CASE \/ \E n \in 1 .. MaxMail : ReadCommand(d, n)
           \/ ReadAtPointer(d) \/ ReadOn(d) \/ LeaveRead(d) \/ Open(d)
  BY <1>1, <1>8 DEF ReadCommand, ReadAtPointer, ReadOn, LeaveRead, Open, ReadThis
<1>9. CASE \/ ConferenceFlags(d) \/ LeaveFlags(d) \/ Logoff(d) \/ Dropped(d) \/ IdleTimedOut(d)
           \/ \E flag \in Flags, how \in {"on", "off", "toggle"}, which \in SUBSET Conferences :
                ApplyScanFlagEdit(d, flag, how, which)
  BY <1>1, <1>3, <1>9
     DEF ConferenceFlags, LeaveFlags, Logoff, Dropped, IdleTimedOut, HangsUp, ApplyScanFlagEdit
<1>10. CASE FinaliseLogoff(d)
  BY <1>10 DEF FinaliseLogoff, TypeOK
<1> QED
  BY <1>5, <1>6, <1>7, <1>8, <1>9, <1>10 DEF Answers, Runs

\* Whatever a scan finds, is read of it, fails or is cut off, the caller is
\* back in the base he asked from, or will be (begin_read_detour,
\* end_read_detour, which is called on the error path too).
THEOREM ScansComeHome == Spec => ScanLeavesPlaceAlone
<1>1. IInv /\ [Next]_vars => \A c \in Calls : InScan(call[c]) => Home(call'[c]) = Home(call[c])
  <2> SUFFICES ASSUME IInv, [Next]_vars, NEW c \in Calls, InScan(call[c])
               PROVE  Home(call'[c]) = Home(call[c])
    OBVIOUS
  <2>1. ASSUME NEW d \in Calls,
               SignIn(d) \/ Answers(d) \/ Runs(d) \/ Dropped(d) \/ IdleTimedOut(d)
        PROVE  Home(call'[c]) = Home(call[c])
    BY <2>1, ScanStaysHome, OthersRest DEF IInv
  <2>2. CASE UNCHANGED call
    BY <2>2
  <2>3. \A p, kind, n : OthersPost(p, kind) \/ Delete(p, n) => UNCHANGED call
    BY DEF OthersPost, Delete, Others
  <2> QED
    BY <2>1, <2>2, <2>3 DEF Next, vars
<1>2. IInv /\ [Next]_vars => [\A c \in Calls : InScan(call[c]) =>
         LET place(session) == IF session.home = NoPlace THEN Current(session) ELSE session.home
         IN place(call'[c]) = place(call[c])]_vars
  BY <1>1 DEF Home
<1> QED
  BY <1>2, Invariance, PTL DEF Spec, ScanLeavesPlaceAlone

----------------------------------------------------------------------------
(* The mail desk.  What a file says follows from what its author typed and,
   for an answer or a forwarded message, from what the one before it says.   *)

SlotsOf(whom) == {Accounts[h].slot : h \in whom}
Recipients == (UNION {w.names : w \in DeskWorkloads}) \cup Handles \cup {"ALL", "Sysop"}
Mails ==
    [visibility : {"Public", "Private", "PrivateToSysop", "Deleted"}, to_name : Recipients,
     broadcast_to : {"None", "All", "Eall"}, author_slot : SlotsOf(Handles),
     addressee_slot : SUBSET SlotsOf(Handles), subject : Seq(Words), body : Seq(Words),
     received : BOOLEAN]
Meanings ==
    [text : Seq(Words), subject : Seq(Words), to : Recipients, whom : SUBSET Handles,
     secret : BOOLEAN]
DeskPrompts ==
    {"to", "subject", "private", "line", "options", "abort?", "body", "forward to", "note",
     "read", "delete?", "new subject", "new to"}
Desks ==
    [at : DeskPrompts, command : {"E", "C", "R", "RP", "FW", "EH", "K"}, by : Handles,
     number : Nat, to : Recipients \cup {""}, subject : Seq(Words), private : BOOLEAN,
     body : Seq(Words)]

Says(file, meaning) ==
    ~ IsDeleted(file) =>
      /\ file.body = meaning.text
      /\ file.subject = meaning.subject
      /\ file.to_name = meaning.to
      /\ file.addressee_slot = SlotsOf(meaning.whom)
      /\ meaning.secret => file.visibility # "Public"

\* While something is composed, the body has the lines that were typed.
Typed == \/ desk = AtMenu /\ said = <<>>
         \/ desk \in Desks /\ said = desk.body
Filed == /\ files \in Seq(Mails) /\ meant \in Seq(Meanings)
         /\ Len(files) = Len(meant)
         /\ \A n \in 1 .. Len(files) : Says(files[n], meant[n])
DeskInv == /\ errand \in [work : DeskWorkloads, restarts : Nat]
           /\ Typed /\ Filed

LEMMA FiledAsTyped == Filed => PostedAsTyped
BY DEF Filed, PostedAsTyped, Says, SlotsOf

LEMMA WordsOfCode ==
    /\ Header \in Seq(Words) /\ Divider \in Seq(Words)
    /\ <<"Re:">> \in Seq(Words) /\ <<"Fwd:">> \in Seq(Words)
BY WordSizes DEF Header, Divider

LEMMA Everyone ==
    /\ Handles \subseteq Recipients /\ "ALL" \in Recipients /\ "Sysop" \in Recipients
    /\ SlotsOf({}) = {}
    /\ \A h \in Handles : SlotsOf({h}) = {Accounts[h].slot} /\ SlotsOf({h}) \subseteq SlotsOf(Handles)
<1>1. Handles \subseteq Recipients /\ "ALL" \in Recipients /\ "Sysop" \in Recipients
  <2> DEFINE named == UNION {w.names : w \in DeskWorkloads}
  <2>1. Recipients = named \cup Handles \cup {"ALL", "Sysop"}
    BY DEF Recipients
  <2> HIDE DEF named
  <2> QED
    BY <2>1
<1>2. \A h \in Handles : SlotsOf({h}) = {Accounts[h].slot} /\ SlotsOf({h}) \subseteq SlotsOf(Handles)
  BY DEF SlotsOf
<1> QED
  BY <1>1, <1>2 DEF SlotsOf

\* Only a message that is there is loaded, and as it is.
LEMMA LoadIs ==
    ASSUME Filed, NEW n, NEW m \in Load(n)
    PROVE  /\ n \in 1 .. Len(files) /\ m = files[n] /\ m \in Mails
           /\ meant[n] \in Meanings /\ Says(m, meant[n])
<1>1. n \in DOMAIN files /\ m = files[n]
  BY DEF Load
<1> QED
  BY <1>1 DEF Filed

\* Nobody at the desk, and the files as they were.
LEMMA LeaveKeeps ==
    ASSUME DeskInv, Leave, UNCHANGED <<files, meant>>, errand' \in [work : DeskWorkloads, restarts : Nat]
    PROVE  DeskInv'
BY DEF DeskInv, Typed, Filed, Leave, Says, IsDeleted, SlotsOf

\* Another prompt, and the files as they were.
LEMMA PromptKeeps ==
    ASSUME DeskInv, UNCHANGED <<files, meant, errand>>, desk' \in Desks, said' = desk'.body
    PROVE  DeskInv'
BY DEF DeskInv, Typed, Filed, Says, IsDeleted, SlotsOf

\* One more file, which says what was meant.
LEMMA PostKeeps ==
    ASSUME DeskInv, UNCHANGED errand, NEW drafts, NEW meaning, Post(drafts, meaning),
           \A draft \in drafts :
             MailOf(draft) \in Mails /\ meaning \in Meanings /\ Says(MailOf(draft), meaning)
    PROVE  DeskInv'
<1>1. CASE UNCHANGED <<files, meant>>
  BY <1>1, LeaveKeeps DEF Post, DeskInv
<1>2. ASSUME NEW draft \in drafts, files' = Append(files, MailOf(draft)),
             meant' = Append(meant, meaning)
      PROVE  DeskInv'
  <2>1. MailOf(draft) \in Mails /\ meaning \in Meanings /\ Says(MailOf(draft), meaning)
    OBVIOUS
  <2>2. files \in Seq(Mails) /\ meant \in Seq(Meanings) /\ Len(files) = Len(meant)
    BY DEF DeskInv, Filed
  <2>3. /\ files' \in Seq(Mails) /\ Len(files') = Len(files) + 1
        /\ files'[Len(files) + 1] = MailOf(draft)
        /\ \A n \in 1 .. Len(files) : files'[n] = files[n]
    BY <1>2, <2>1, <2>2
  <2>4. /\ meant' \in Seq(Meanings) /\ Len(meant') = Len(meant) + 1
        /\ meant'[Len(meant) + 1] = meaning
        /\ \A n \in 1 .. Len(meant) : meant'[n] = meant[n]
    BY <1>2, <2>1, <2>2
  <2>5. \A n \in 1 .. Len(files) + 1 : Says(files'[n], meant'[n])
    <3> TAKE n \in 1 .. Len(files) + 1
    <3>1. CASE n = Len(files) + 1
      BY <3>1, <2>1, <2>2, <2>3, <2>4
    <3>2. CASE n \in 1 .. Len(files)
      BY <3>2, <2>2, <2>3, <2>4 DEF DeskInv, Filed
    <3> QED
      BY <3>1, <3>2, <2>2
  <2>6. Filed'
    BY <2>2, <2>3, <2>4, <2>5 DEF Filed, Says, IsDeleted, SlotsOf
  <2>7. Typed'
    BY DEF Post, Leave, Typed
  <2> QED
    BY <2>6, <2>7 DEF DeskInv
<1> QED
  BY <1>1, <1>2 DEF Post, Unchanged

\* One file as it was but for these parts.
LEMMA SaveKeeps ==
    ASSUME DeskInv, UNCHANGED errand, Leave, NEW n \in 1 .. Len(files), NEW file \in Mails,
           NEW meaning \in Meanings, Says(file, meaning),
           files' = [files EXCEPT ![n] = file], meant' = [meant EXCEPT ![n] = meaning]
    PROVE  DeskInv'
<1>1. files \in Seq(Mails) /\ meant \in Seq(Meanings) /\ Len(files) = Len(meant)
  BY DEF DeskInv, Filed
<1>2. /\ files' \in Seq(Mails) /\ Len(files') = Len(files) /\ files'[n] = file
      /\ \A k \in 1 .. Len(files) : k # n => files'[k] = files[k]
  BY <1>1
<1>3. /\ meant' \in Seq(Meanings) /\ Len(meant') = Len(meant) /\ meant'[n] = meaning
      /\ \A k \in 1 .. Len(meant) : k # n => meant'[k] = meant[k]
  BY <1>1
<1>4. \A k \in 1 .. Len(files) : Says(files'[k], meant'[k])
  BY <1>1, <1>2, <1>3 DEF DeskInv, Filed
<1>5. Filed'
  BY <1>1, <1>2, <1>3, <1>4 DEF Filed, Says, IsDeleted, SlotsOf
<1>6. Typed'
  BY DEF Leave, Typed
<1> QED
  BY <1>5, <1>6 DEF DeskInv

LEMMA NamedBySlot ==
    ASSUME NEW slot \in SlotsOf(Handles)
    PROVE  /\ NameOfSlot(slot) \in Handles /\ Accounts[NameOfSlot(slot)].slot = slot
           /\ SlotsOf({NameOfSlot(slot)}) = {slot}
BY DEF SlotsOf, NameOfSlot

Addressed(draft) ==
    /\ draft.to_name \in Recipients /\ draft.broadcast_to \in {"None", "All", "Eall"}
    /\ draft.addressee_slot \subseteq SlotsOf(Handles) /\ draft.from \in Handles
    /\ draft.subject \in Seq(Words) /\ draft.body \in Seq(Words) /\ draft.private \in BOOLEAN

\* What becomes of a draft: who sees it follows from what was asked for and
\* from its author, and the rest is the draft's.
LEMMA MailOfDraft ==
    ASSUME NEW draft, Addressed(draft)
    PROVE  /\ MailOf(draft) \in Mails
           /\ MailOf(draft).body = draft.body /\ MailOf(draft).subject = draft.subject
           /\ MailOf(draft).to_name = draft.to_name
           /\ MailOf(draft).addressee_slot = draft.addressee_slot
           /\ draft.broadcast_to # "Eall" /\ (draft.private \/ Accounts[draft.from].censored)
                => MailOf(draft).visibility # "Public"
<1>1. Accounts[draft.from].slot \in SlotsOf(Handles)
  BY DEF Addressed, SlotsOf
<1>2. /\ Visibility(draft) \in {"Public", "Private", "PrivateToSysop"}
      /\ draft.broadcast_to # "Eall" /\ (draft.private \/ Accounts[draft.from].censored)
           => Visibility(draft) # "Public"
  BY DEF Visibility
<1> QED
  BY <1>1, <1>2 DEF MailOf, Mails, Addressed

LEMMA AtADesk ==
    ASSUME Typed, desk # AtMenu
    PROVE  /\ desk \in Desks /\ said = desk.body
           /\ desk.by \in Handles /\ desk.to \in Recipients \cup {""}
           /\ desk.subject \in Seq(Words) /\ desk.private \in BOOLEAN /\ desk.body \in Seq(Words)
           /\ Accounts[desk.by].censored \in BOOLEAN
BY WritersHaveAccounts DEF Typed, Desks

LEMMA PostMailKeeps ==
    ASSUME DeskInv, desk # AtMenu, PostMail, UNCHANGED errand
    PROVE  DeskInv'
<1> DEFINE drafts == {d \in ClassifyRecipient(desk.to) : HasAccess(desk.by, "EnterMessage")}
           meaning ==
             [text |-> said, subject |-> desk.subject,
              to |-> IF desk.to = "" THEN "ALL" ELSE desk.to,
              whom |-> IF desk.to \in {"", "ALL", "EALL"} THEN {} ELSE {desk.to},
              secret |-> desk.to # "EALL" /\ (desk.private \/ Accounts[desk.by].censored)]
<1>1. /\ desk \in Desks /\ desk.by \in Handles /\ said = desk.body /\ desk.to \in Recipients \cup {""}
      /\ desk.subject \in Seq(Words) /\ desk.private \in BOOLEAN /\ desk.body \in Seq(Words)
      /\ Accounts[desk.by].censored \in BOOLEAN
  BY AtADesk DEF DeskInv
<1>2. SlotsOf({}) = {} /\ "ALL" \in Recipients
  BY Everyone
<1>3. ASSUME NEW draft \in drafts
      PROVE  MailOf(draft) \in Mails /\ meaning \in Meanings /\ Says(MailOf(draft), meaning)
  <2>1. draft \in ClassifyRecipient(desk.to)
    OBVIOUS
  <2>2. CASE desk.to \in {"", "ALL"}
    <3>1. draft = Draft("ALL", "All", SlotsOf({}), desk.subject, desk.body, desk.private)
      BY <2>1, <2>2, <1>2 DEF ClassifyRecipient
    <3>5. /\ draft.to_name = "ALL" /\ draft.broadcast_to = "All"
          /\ draft.addressee_slot = SlotsOf({}) /\ draft.from = desk.by
          /\ draft.subject = desk.subject /\ draft.body = desk.body /\ draft.private = desk.private
      BY <3>1 DEF Draft
    <3>6. Addressed(draft)
      BY <1>1, <1>2, <3>5 DEF Addressed
    <3>2. /\ MailOf(draft) \in Mails /\ MailOf(draft).body = desk.body
          /\ MailOf(draft).subject = desk.subject /\ MailOf(draft).to_name = "ALL"
          /\ MailOf(draft).addressee_slot = SlotsOf({})
          /\ desk.private \/ Accounts[desk.by].censored => MailOf(draft).visibility # "Public"
      BY <1>1, <3>5, <3>6, MailOfDraft
    <3>3. meaning = [text |-> desk.body, subject |-> desk.subject, to |-> "ALL", whom |-> {},
                     secret |-> desk.private \/ Accounts[desk.by].censored]
      BY <1>1, <2>2
    <3>4. meaning \in Meanings
      BY <1>1, <1>2, <3>3 DEF Meanings
    <3> QED
      BY <3>2, <3>3, <3>4 DEF Says
  <2>3. CASE desk.to = "EALL"
    <3>1. draft = Draft("EALL", "Eall", SlotsOf({}), desk.subject, desk.body, desk.private)
      BY <2>1, <2>3, <1>2 DEF ClassifyRecipient
    <3>5. /\ draft.to_name = "EALL" /\ draft.broadcast_to = "Eall"
          /\ draft.addressee_slot = SlotsOf({}) /\ draft.from = desk.by
          /\ draft.subject = desk.subject /\ draft.body = desk.body /\ draft.private = desk.private
      BY <3>1 DEF Draft
    <3>6. Addressed(draft)
      BY <1>1, <1>2, <2>3, <3>5 DEF Addressed
    <3>2. /\ MailOf(draft) \in Mails /\ MailOf(draft).body = desk.body
          /\ MailOf(draft).subject = desk.subject /\ MailOf(draft).to_name = "EALL"
          /\ MailOf(draft).addressee_slot = SlotsOf({})
      BY <1>1, <3>5, <3>6, MailOfDraft
    <3>3. meaning = [text |-> desk.body, subject |-> desk.subject, to |-> "EALL", whom |-> {},
                     secret |-> FALSE]
      BY <1>1, <2>3
    <3>4. meaning \in Meanings
      BY <1>1, <2>3, <3>3 DEF Meanings
    <3> QED
      BY <3>2, <3>3, <3>4 DEF Says
  <2>4. CASE desk.to \notin {"", "ALL", "EALL"}
    <3>1. PICK h \in Handles :
            /\ h = desk.to
            /\ draft = Draft(h, "None", {Accounts[h].slot}, desk.subject, desk.body, desk.private)
      BY <2>1, <2>4 DEF ClassifyRecipient
    <3>2. /\ SlotsOf({h}) = {Accounts[h].slot} /\ h \in Recipients
          /\ SlotsOf({h}) \subseteq SlotsOf(Handles)
      BY Everyone
    <3>6. /\ draft.to_name = h /\ draft.broadcast_to = "None"
          /\ draft.addressee_slot = SlotsOf({h}) /\ draft.from = desk.by
          /\ draft.subject = desk.subject /\ draft.body = desk.body /\ draft.private = desk.private
      BY <3>1, <3>2 DEF Draft
    <3>7. Addressed(draft)
      BY <1>1, <3>2, <3>6 DEF Addressed
    <3>3. /\ MailOf(draft) \in Mails /\ MailOf(draft).body = desk.body
          /\ MailOf(draft).subject = desk.subject /\ MailOf(draft).to_name = h
          /\ MailOf(draft).addressee_slot = SlotsOf({h})
          /\ desk.private \/ Accounts[desk.by].censored => MailOf(draft).visibility # "Public"
      BY <1>1, <3>6, <3>7, MailOfDraft
    <3>4. meaning = [text |-> desk.body, subject |-> desk.subject, to |-> h, whom |-> {h},
                     secret |-> desk.private \/ Accounts[desk.by].censored]
      BY <1>1, <2>4, <3>1
    <3>5. meaning \in Meanings
      BY <1>1, <3>2, <3>4 DEF Meanings
    <3> QED
      BY <3>3, <3>4, <3>5 DEF Says
  <2> QED
    BY <2>2, <2>3, <2>4
<1>4. Post(drafts, meaning)
  BY DEF PostMail
<1> HIDE DEF drafts, meaning
<1> QED
  BY <1>3, <1>4, PostKeeps

LEMMA CommentKeeps ==
    ASSUME DeskInv, desk # AtMenu, PostCommentToSysop, UNCHANGED errand
    PROVE  DeskInv'
<1> DEFINE drafts == {Draft("Sysop", "None", {Accounts[s].slot}, desk.subject, desk.body, TRUE) :
                        s \in {s \in Sysops : HasAccess(desk.by, "CommentToSysop")}}
           meaning == [text |-> said, subject |-> desk.subject, to |-> "Sysop", whom |-> Sysops,
                       secret |-> TRUE]
<1>1. /\ desk \in Desks /\ desk.by \in Handles /\ said = desk.body /\ desk.subject \in Seq(Words)
      /\ desk.body \in Seq(Words)
  BY AtADesk DEF DeskInv
<1>2. "Sysop" \in Recipients /\ Sysops \subseteq Handles
  BY Everyone DEF Sysops
<1>5. SlotsOf(Sysops) \subseteq SlotsOf(Handles)
  BY DEF SlotsOf, Sysops
<1>3. ASSUME NEW draft \in drafts
      PROVE  MailOf(draft) \in Mails /\ meaning \in Meanings /\ Says(MailOf(draft), meaning)
  <2>1. PICK s \in Sysops :
          draft = Draft("Sysop", "None", {Accounts[s].slot}, desk.subject, desk.body, TRUE)
    OBVIOUS
  <2>2. SlotsOf(Sysops) = {Accounts[s].slot}
    BY DEF SlotsOf, Sysops
  <2>3. draft = Draft("Sysop", "None", SlotsOf(Sysops), desk.subject, desk.body, TRUE)
    BY <2>1, <2>2
  <2>6. /\ draft.to_name = "Sysop" /\ draft.broadcast_to = "None"
        /\ draft.addressee_slot = SlotsOf(Sysops) /\ draft.from = desk.by
        /\ draft.subject = desk.subject /\ draft.body = desk.body /\ draft.private = TRUE
    BY <2>3 DEF Draft
  <2>7. Addressed(draft)
    BY <1>1, <1>2, <1>5, <2>6 DEF Addressed
  <2>4. /\ MailOf(draft) \in Mails /\ MailOf(draft).body = desk.body
        /\ MailOf(draft).subject = desk.subject /\ MailOf(draft).to_name = "Sysop"
        /\ MailOf(draft).addressee_slot = SlotsOf(Sysops)
        /\ MailOf(draft).visibility # "Public"
    BY <1>1, <2>6, <2>7, MailOfDraft
  <2>5. meaning \in Meanings
    BY <1>1, <1>2 DEF Meanings
  <2> QED
    BY <1>1, <2>4, <2>5 DEF Says
<1>4. Post(drafts, meaning)
  BY DEF PostCommentToSysop
<1> HIDE DEF drafts, meaning
<1> QED
  BY <1>3, <1>4, PostKeeps

\* RP: the answer is public, as is what it says of the subject.
LEMMA ReplyKeeps ==
    ASSUME DeskInv, desk # AtMenu, ReplyToMail, UNCHANGED errand
    PROVE  DeskInv'
<1>1. /\ desk \in Desks /\ desk.by \in Handles /\ said = desk.body /\ desk.body \in Seq(Words)
  BY AtADesk DEF DeskInv
<1>2. CASE Leave /\ Unchanged
  BY <1>2, LeaveKeeps DEF Unchanged, DeskInv
<1>3. ASSUME NEW source \in Load(desk.number),
             Post({Draft(NameOfSlot(source.author_slot), "None", {source.author_slot},
                         <<"Re:">> \o source.subject, desk.body, FALSE) :
                     m \in {m \in {source} : CanRead(desk.by, m) /\ HasAccess(desk.by, "EnterMessage")}},
                  [text |-> said, subject |-> <<"Re:">> \o meant[desk.number].subject,
                   to |-> NameOfSlot(source.author_slot),
                   whom |-> {NameOfSlot(source.author_slot)}, secret |-> FALSE])
      PROVE  DeskInv'
  <2> DEFINE author == NameOfSlot(source.author_slot)
             answer == Draft(author, "None", {source.author_slot},
                             <<"Re:">> \o source.subject, desk.body, FALSE)
             drafts == {answer : m \in {m \in {source} : /\ CanRead(desk.by, m)
                                                         /\ HasAccess(desk.by, "EnterMessage")}}
             meaning == [text |-> said, subject |-> <<"Re:">> \o meant[desk.number].subject,
                         to |-> author, whom |-> {author}, secret |-> FALSE]
  <2>1. source \in Mails /\ meant[desk.number] \in Meanings /\ Says(source, meant[desk.number])
    BY LoadIs DEF DeskInv
  <2>2. /\ author \in Handles /\ author \in Recipients
        /\ SlotsOf({author}) = {source.author_slot} /\ SlotsOf({author}) \subseteq SlotsOf(Handles)
    <3>1. source.author_slot \in SlotsOf(Handles)
      BY <2>1 DEF Mails
    <3> QED
      BY <3>1, NamedBySlot, Everyone
  <2> HIDE DEF author
  <2>3. ASSUME NEW draft \in drafts
        PROVE  MailOf(draft) \in Mails /\ meaning \in Meanings /\ Says(MailOf(draft), meaning)
    <3>1. draft = answer /\ CanRead(desk.by, source)
      OBVIOUS
    <3>2. source.subject = meant[desk.number].subject /\ source.subject \in Seq(Words)
      BY <2>1, <3>1 DEF CanRead, Says, Mails
    <3>3. <<"Re:">> \o source.subject \in Seq(Words)
      BY <3>2, WordsOfCode
    <3>6. /\ draft.to_name = author /\ draft.broadcast_to = "None"
          /\ draft.addressee_slot = SlotsOf({author}) /\ draft.from = desk.by
          /\ draft.subject = <<"Re:">> \o source.subject /\ draft.body = desk.body /\ draft.private = FALSE
      BY <2>2, <3>1 DEF Draft
    <3>7. Addressed(draft)
      BY <1>1, <2>2, <3>3, <3>6 DEF Addressed
    <3>4. /\ MailOf(draft) \in Mails /\ MailOf(draft).body = desk.body
          /\ MailOf(draft).subject = <<"Re:">> \o source.subject
          /\ MailOf(draft).to_name = author /\ MailOf(draft).addressee_slot = SlotsOf({author})
      BY <1>1, <3>6, <3>7, MailOfDraft
    <3>5. meaning \in Meanings
      BY <1>1, <2>2, <3>2, <3>3 DEF Meanings
    <3> QED
      BY <1>1, <3>2, <3>4, <3>5 DEF Says
  <2>4. Post(drafts, meaning)
    BY <1>3 DEF author
  <2> HIDE DEF drafts, meaning
  <2> QED
    BY <2>3, <2>4, PostKeeps
<1> QED
  BY <1>2, <1>3 DEF ReplyToMail

\* FW: words that were written in private, of whoever, go on in private.
LEMMA ForwardKeeps ==
    ASSUME DeskInv, desk # AtMenu, NEW note \in Seq(Words), ForwardMail(note, note), UNCHANGED errand
    PROVE  DeskInv'
<1>1. /\ desk \in Desks /\ desk.by \in Handles /\ Accounts[desk.by].censored \in BOOLEAN
  BY AtADesk DEF DeskInv
<1>2. CASE Leave /\ Unchanged
  BY <1>2, LeaveKeeps DEF Unchanged, DeskInv
<1>3. ASSUME NEW source \in Load(desk.number), desk.to \in Handles,
             Post({Draft(desk.to, "None", {Accounts[desk.to].slot}, <<"Fwd:">> \o source.subject,
                         ComposedBody(source, note), StaysPrivate(source)) :
                     m \in {m \in {source} : CanRead(desk.by, m) /\ HasAccess(desk.by, "EnterMessage")}},
                  [text |-> Header \o meant[desk.number].text
                              \o (IF note = <<>> THEN <<>> ELSE Divider \o note),
                   subject |-> <<"Fwd:">> \o meant[desk.number].subject,
                   to |-> desk.to, whom |-> {desk.to}, secret |-> meant[desk.number].secret])
      PROVE  DeskInv'
  <2> DEFINE forwarded == Draft(desk.to, "None", {Accounts[desk.to].slot},
                                <<"Fwd:">> \o source.subject, ComposedBody(source, note),
                                StaysPrivate(source))
             drafts == {forwarded : m \in {m \in {source} : /\ CanRead(desk.by, m)
                                                            /\ HasAccess(desk.by, "EnterMessage")}}
             meaning == [text |-> Header \o meant[desk.number].text
                                    \o (IF note = <<>> THEN <<>> ELSE Divider \o note),
                         subject |-> <<"Fwd:">> \o meant[desk.number].subject,
                         to |-> desk.to, whom |-> {desk.to}, secret |-> meant[desk.number].secret]
  <2>1. source \in Mails /\ meant[desk.number] \in Meanings /\ Says(source, meant[desk.number])
    BY LoadIs DEF DeskInv
  <2>2. /\ desk.to \in Recipients /\ SlotsOf({desk.to}) = {Accounts[desk.to].slot}
        /\ SlotsOf({desk.to}) \subseteq SlotsOf(Handles)
    BY <1>3, Everyone
  <2>3. ASSUME NEW draft \in drafts
        PROVE  MailOf(draft) \in Mails /\ meaning \in Meanings /\ Says(MailOf(draft), meaning)
    <3>1. draft = forwarded /\ CanRead(desk.by, source)
      OBVIOUS
    <3>2. /\ source.subject = meant[desk.number].subject /\ source.subject \in Seq(Words)
          /\ source.body = meant[desk.number].text /\ source.body \in Seq(Words)
          /\ meant[desk.number].secret \in BOOLEAN
          /\ meant[desk.number].secret => StaysPrivate(source)
      BY <2>1, <3>1 DEF CanRead, Says, Mails, Meanings, StaysPrivate
    <3> DEFINE subject == <<"Fwd:">> \o source.subject
               added == IF note = <<>> THEN <<>> ELSE Divider \o note
               body == Header \o source.body \o added
    <3>3. subject \in Seq(Words)
      BY <3>2, WordsOfCode
    <3>4. added \in Seq(Words)
      BY WordsOfCode
    <3>5. body \in Seq(Words)
      <4>1. Header \o source.body \in Seq(Words)
        BY <3>2, WordsOfCode
      <4> HIDE DEF added
      <4> QED
        BY <4>1, <3>4
    <3>6. ComposedBody(source, note) = body
      BY DEF ComposedBody
    <3>7. meaning = [text |-> body, subject |-> subject, to |-> desk.to, whom |-> {desk.to},
                     secret |-> meant[desk.number].secret]
      BY <3>2
    <3>8. draft = Draft(desk.to, "None", SlotsOf({desk.to}), subject, body, StaysPrivate(source))
      BY <2>2, <3>1, <3>6
    <3> HIDE DEF subject, body, meaning
    <3>9. StaysPrivate(source) \in BOOLEAN
      BY DEF StaysPrivate
    <3>12. /\ draft.to_name = desk.to /\ draft.broadcast_to = "None"
           /\ draft.addressee_slot = SlotsOf({desk.to}) /\ draft.from = desk.by
           /\ draft.subject = subject /\ draft.body = body /\ draft.private = StaysPrivate(source)
      BY <3>8 DEF Draft
    <3>13. Addressed(draft)
      BY <1>1, <2>2, <3>3, <3>5, <3>9, <3>12 DEF Addressed
    <3>10. /\ MailOf(draft) \in Mails /\ MailOf(draft).body = body
           /\ MailOf(draft).subject = subject /\ MailOf(draft).to_name = desk.to
           /\ MailOf(draft).addressee_slot = SlotsOf({desk.to})
           /\ StaysPrivate(source) => MailOf(draft).visibility # "Public"
      BY <3>12, <3>13, MailOfDraft
    <3>11. meaning \in Meanings
      BY <1>3, <2>2, <3>2, <3>3, <3>5, <3>7 DEF Meanings
    <3> QED
      BY <3>2, <3>7, <3>10, <3>11 DEF Says
  <2>4. Post(drafts, meaning)
    BY <1>3
  <2> HIDE DEF drafts, meaning
  <2> QED
    BY <2>3, <2>4, PostKeeps
<1> QED
  BY <1>2, <1>3 DEF ForwardMail

\* A line that fits is kept, with the words typed.
LEMMA LineKeeps ==
    ASSUME DeskInv, desk # AtMenu, NEW line \in Words, NEW TooLong, UNCHANGED errand,
           AppendLineWithNewline(line, TooLong), TooLong => DeskInv'
    PROVE  DeskInv'
<1>1. desk \in Desks /\ said = desk.body /\ desk.body \in Seq(Words)
  BY AtADesk DEF DeskInv
<1>2. CASE desk' = [desk EXCEPT !.body = Append(@, line)] /\ said' = Append(said, line) /\ Unchanged
  <2>1. Append(desk.body, line) \in Seq(Words)
    BY <1>1
  <2>2. desk' \in Desks /\ desk'.body = Append(desk.body, line)
    BY <1>1, <1>2, <2>1 DEF Desks
  <2> QED
    BY <1>1, <1>2, <2>2, PromptKeeps DEF Unchanged
<1> QED
  BY <1>2 DEF AppendLineWithNewline

\* Another prompt with something more of the header.
LEMMA TypedKeeps ==
    ASSUME DeskInv, UNCHANGED <<files, meant, errand, said>>, desk # AtMenu,
           NEW at \in DeskPrompts, NEW to \in Recipients \cup {""}, NEW subject \in Seq(Words),
           NEW private \in BOOLEAN,
           desk' = [desk EXCEPT !.at = at, !.to = to, !.subject = subject, !.private = private]
    PROVE  DeskInv'
<1>1. desk \in Desks /\ said = desk.body
  BY AtADesk DEF DeskInv
<1>2. desk' \in Desks /\ desk'.body = desk.body
  BY <1>1 DEF Desks
<1> QED
  BY <1>1, <1>2, PromptKeeps

LEMMA GoesKeeps ==
    ASSUME DeskInv, UNCHANGED <<files, meant, errand>>, desk # AtMenu, NEW at \in DeskPrompts, Goes(at)
    PROVE  DeskInv'
<1>1. desk \in Desks /\ said = desk.body
  BY AtADesk DEF DeskInv
<1>2. desk' = [desk EXCEPT !.at = at] /\ UNCHANGED said
  BY DEF Goes
<1>3. desk' \in Desks /\ desk'.body = desk.body
  BY <1>1, <1>2 DEF Desks
<1> QED
  BY <1>1, <1>2, <1>3, PromptKeeps

LEMMA Seated == \A prompt \in DeskPrompts : AtPrompt(prompt) => desk # AtMenu
<1>1. AtMenu.at = "menu"
  BY DEF AtMenu
<1>2. "menu" \notin DeskPrompts
  BY DEF DeskPrompts
<1> QED
  BY <1>1, <1>2 DEF AtPrompt

LEMMA CommandKeeps == ASSUME DeskInv, Command PROVE DeskInv'
<1>1. PICK by \in errand.work.callers, command \in errand.work.commands :
        \/ command \in {"E", "C"} /\ SitDown(by, command, 0)
        \/ \E n \in DOMAIN files :
             command \in {"R", "RP", "FW", "EH", "K"} /\ SitDown(by, command, n)
  BY DEF Command
<1>2. by \in Handles
  BY WritersHaveAccounts DEF DeskInv
<1>3. ASSUME NEW n \in Nat, command \in {"E", "C", "R", "RP", "FW", "EH", "K"}, SitDown(by, command, n)
      PROVE  DeskInv'
  <2>1. PICK at \in DeskPrompts : desk' = Start(at, command, by, n)
    BY <1>3 DEF SitDown, DeskPrompts
  <2>2. desk' \in Desks /\ desk'.body = <<>>
    <3>1. command \in {"E", "C", "R", "RP", "FW", "EH", "K"} /\ <<>> \in Seq(Words)
      BY <1>3
    <3>2. desk' = [at |-> at, command |-> command, by |-> by, number |-> n, to |-> "",
                   subject |-> <<>>, private |-> FALSE, body |-> <<>>]
      BY <2>1 DEF Start
    <3> QED
      BY <1>2, <3>1, <3>2 DEF Desks
  <2>3. desk = AtMenu /\ said = <<>> /\ UNCHANGED <<said, errand, files, meant>>
    BY DEF Command, Unchanged, DeskInv, Typed, Desks, DeskPrompts, AtMenu
  <2> QED
    BY <2>2, <2>3, PromptKeeps
<1>4. CASE command \in {"E", "C"} /\ SitDown(by, command, 0)
  BY <1>3, <1>4
<1>5. ASSUME NEW n \in DOMAIN files, command \in {"R", "RP", "FW", "EH", "K"}, SitDown(by, command, n)
      PROVE  DeskInv'
  <2>1. n \in Nat
    BY <1>5 DEF DeskInv, Filed
  <2> QED
    BY <1>3, <1>5, <2>1
<1> QED
  BY <1>1, <1>4, <1>5

LEMMA HeaderKeeps ==
    ASSUME DeskInv, EnterTo \/ EnterSubject \/ EnterPrivate \/ EnterNewSubject \/ ForwardTo
    PROVE  DeskInv'
<1>1. /\ UNCHANGED <<files, meant, errand>> /\ desk # AtMenu /\ desk \in Desks
      /\ desk.to \in Recipients \cup {""} /\ desk.subject \in Seq(Words) /\ desk.private \in BOOLEAN
  <2>1. desk # AtMenu
    BY Seated DEF EnterTo, EnterSubject, EnterPrivate, EnterNewSubject, ForwardTo, DeskPrompts
  <2> QED
    BY <2>1, AtADesk DEF EnterTo, EnterSubject, EnterPrivate, EnterNewSubject, ForwardTo, Prompted,
       Composing, Unchanged, DeskInv
<1>2. \A work \in {errand.work} : work \in DeskWorkloads /\ work.names \subseteq Recipients
                                 /\ work.subjects \subseteq Words
  BY WordSizes DEF DeskInv, Recipients
<1>3. CASE Leave
  BY <1>1, <1>3, LeaveKeeps DEF DeskInv
<1>4. CASE EnterTo
  <2>1. PICK typed \in errand.work.names : desk' = [desk EXCEPT !.to = typed, !.at = "subject"]
    BY <1>4 DEF EnterTo
  <2>2. desk' = [desk EXCEPT !.at = "subject", !.to = typed, !.subject = desk.subject,
                             !.private = desk.private]
    BY <1>1, <2>1 DEF Desks
  <2>3. typed \in Recipients \cup {""} /\ "subject" \in DeskPrompts /\ UNCHANGED said
    BY <1>2, <1>4, <2>1 DEF DeskPrompts, EnterTo
  <2> QED
    BY <1>1, <2>2, <2>3, TypedKeeps
<1>5. CASE EnterSubject /\ ~ Leave
  <2>1. PICK typed \in errand.work.subjects :
          desk' = [desk EXCEPT !.subject = <<typed>>,
                               !.at = IF desk.command = "E" THEN "private" ELSE "line"]
    BY <1>5 DEF EnterSubject
  <2>2. PICK at \in DeskPrompts : at = IF desk.command = "E" THEN "private" ELSE "line"
    BY DEF DeskPrompts
  <2>3. desk' = [desk EXCEPT !.at = at, !.to = desk.to, !.subject = <<typed>>,
                             !.private = desk.private]
    BY <1>1, <2>1, <2>2 DEF Desks
  <2>4. typed \in Words
    BY <1>2
  <2>5. <<typed>> \in Seq(Words)
    BY <2>4
  <2>6. UNCHANGED said
    BY <1>5 DEF EnterSubject
  <2> QED
    BY <1>1, <2>3, <2>5, <2>6, TypedKeeps
<1>6. CASE EnterPrivate
  <2>1. PICK private \in BOOLEAN : desk' = [desk EXCEPT !.private = private, !.at = "line"]
    BY <1>6 DEF EnterPrivate
  <2>2. desk' = [desk EXCEPT !.at = "line", !.to = desk.to, !.subject = desk.subject,
                             !.private = private]
    BY <1>1, <2>1 DEF Desks
  <2>3. "line" \in DeskPrompts /\ UNCHANGED said
    BY <1>6 DEF DeskPrompts, EnterPrivate
  <2> QED
    BY <1>1, <2>2, <2>3, TypedKeeps
<1>7. CASE EnterNewSubject
  <2>1. PICK typed \in {<<>>} \cup {<<t>> : t \in errand.work.subjects} :
          desk' = [desk EXCEPT !.subject = typed, !.at = "new to"]
    BY <1>7 DEF EnterNewSubject
  <2>2. desk' = [desk EXCEPT !.at = "new to", !.to = desk.to, !.subject = typed,
                             !.private = desk.private]
    BY <1>1, <2>1 DEF Desks
  <2>3. typed \in Seq(Words)
    <3>1. CASE typed = <<>>
      BY <3>1
    <3>2. ASSUME NEW t \in errand.work.subjects, typed = <<t>> PROVE typed \in Seq(Words)
      <4>1. t \in Words
        BY <1>2
      <4> QED
        BY <3>2, <4>1
    <3> QED
      BY <3>1, <3>2
  <2>4. "new to" \in DeskPrompts /\ UNCHANGED said
    BY <1>7 DEF DeskPrompts, EnterNewSubject
  <2> QED
    BY <1>1, <2>2, <2>3, <2>4, TypedKeeps
<1>8. CASE ForwardTo /\ ~ Leave
  <2>1. PICK typed \in errand.work.names : desk' = [desk EXCEPT !.to = typed, !.at = "note"]
    BY <1>8 DEF ForwardTo
  <2>2. desk' = [desk EXCEPT !.at = "note", !.to = typed, !.subject = desk.subject,
                             !.private = desk.private]
    BY <1>1, <2>1 DEF Desks
  <2>3. typed \in Recipients \cup {""} /\ "note" \in DeskPrompts /\ UNCHANGED said
    BY <1>2, <1>8, <2>1 DEF DeskPrompts, ForwardTo
  <2> QED
    BY <1>1, <2>2, <2>3, TypedKeeps
<1> QED
  BY <1>3, <1>4, <1>5, <1>6, <1>7, <1>8

LEMMA EditorKeeps ==
    ASSUME DeskInv, EditorLine \/ EditorOptions \/ ConfirmEditorAbort \/ PostBodyLine \/ ForwardNoteLine
    PROVE  DeskInv'
<1>1. UNCHANGED errand /\ desk # AtMenu
  <2>1. desk # AtMenu
    BY Seated DEF EditorLine, EditorOptions, ConfirmEditorAbort, PostBodyLine, ForwardNoteLine,
       DeskPrompts
  <2> QED
    BY <2>1 DEF EditorLine, EditorOptions, ConfirmEditorAbort, PostBodyLine, ForwardNoteLine,
       Prompted, Composing
<1>2. errand.work \in DeskWorkloads /\ errand.work.words \subseteq Words
  BY WordSizes DEF DeskInv
<1>3. desk \in Desks /\ said = desk.body /\ desk.body \in Seq(Words)
  BY <1>1, AtADesk DEF DeskInv
<1>4. CASE Leave /\ Unchanged
  BY <1>1, <1>4, LeaveKeeps DEF Unchanged, DeskInv
<1>5. ASSUME NEW at \in {"line", "options", "abort?"}, Goes(at), Unchanged PROVE DeskInv'
  BY <1>1, <1>5, GoesKeeps DEF DeskPrompts, Unchanged
<1>6. ASSUME DropNote PROVE DeskInv'
  <2>1. ForwardMail(<<>>, <<>>) /\ <<>> \in Seq(Words)
    BY <1>6 DEF DropNote
  <2> QED
    BY <1>1, <2>1, ForwardKeeps
<1>7. ASSUME NEW line \in errand.work.words, AppendLineWithNewline(line, Leave /\ Unchanged)
      PROVE  DeskInv'
  BY <1>1, <1>2, <1>4, <1>7, LineKeeps
<1>8. ASSUME NEW line \in errand.work.words, AppendLineWithNewline(line, DropNote) PROVE DeskInv'
  BY <1>1, <1>2, <1>6, <1>8, LineKeeps
<1>9. CASE EditorLine
  BY <1>5, <1>7, <1>9 DEF EditorLine
<1>10. CASE EditorOptions
  BY <1>1, <1>5, <1>10, PostMailKeeps, CommentKeeps DEF EditorOptions, ContinueText
<1>11. CASE ConfirmEditorAbort
  BY <1>4, <1>5, <1>11 DEF ConfirmEditorAbort, Prompted
<1>12. CASE PostBodyLine
  BY <1>1, <1>4, <1>7, <1>12, ReplyKeeps DEF PostBodyLine
<1>13. CASE ForwardNoteLine
  <2>1. CASE ForwardMail(desk.body, said)
    BY <1>1, <1>3, <2>1, ForwardKeeps
  <2> QED
    BY <1>6, <1>8, <1>13, <2>1 DEF ForwardNoteLine
<1> QED
  BY <1>9, <1>10, <1>11, <1>12, <1>13

\* What commands make of a message that is there.
LEMMA MessageKeeps ==
    ASSUME DeskInv, ReadMail \/ HandleKill \/ EditMailHeader
    PROVE  DeskInv'
<1>1. UNCHANGED errand /\ Leave
  BY DEF ReadMail, HandleKill, EditMailHeader, Composing
<1>2. CASE Unchanged
  BY <1>1, <1>2, LeaveKeeps DEF Unchanged, DeskInv
<1> DEFINE n == desk.number
           meaning == meant[n]
<1>3. \A m \in Load(n) : /\ n \in 1 .. Len(files) /\ m = files[n] /\ m \in Mails
                         /\ meaning \in Meanings /\ Says(m, meaning)
  BY LoadIs DEF DeskInv
<1>4. ASSUME NEW m \in Load(n), NEW file \in Mails, Says(file, meaning),
             files' = [files EXCEPT ![n] = file], UNCHANGED meant
      PROVE  DeskInv'
  <2>1. meant' = [meant EXCEPT ![n] = meaning]
    BY <1>3, <1>4 DEF DeskInv, Filed
  <2> QED
    BY <1>1, <1>3, <1>4, <2>1, SaveKeeps
<1>5. CASE ReadMail
  <2>1. CASE UNCHANGED files
    BY <1>2, <1>5, <2>1 DEF ReadMail, Unchanged
  <2>2. ASSUME NEW m \in Load(n),
               Saved([files[n] EXCEPT
                        !.received = @ \/ files[n].addressee_slot = {Accounts[desk.by].slot}])
        PROVE  DeskInv'
    <3> DEFINE file == [files[n] EXCEPT
                          !.received = @ \/ files[n].addressee_slot = {Accounts[desk.by].slot}]
    <3>1. m \in Mails /\ Says(m, meaning) /\ m = files[n]
      BY <1>3
    <3>2. file \in Mails
      BY <3>1 DEF Mails
    <3>3. Says(file, meaning)
      BY <3>1 DEF Says, IsDeleted, Mails
    <3>4. files' = [files EXCEPT ![n] = file] /\ UNCHANGED meant
      BY <1>5, <2>2 DEF ReadMail, Saved
    <3> QED
      BY <1>4, <3>2, <3>3, <3>4
  <2> QED
    BY <1>5, <2>1, <2>2 DEF ReadMail
<1>6. CASE HandleKill
  <2>1. CASE UNCHANGED files
    BY <1>2, <1>6, <2>1 DEF HandleKill, Unchanged
  <2>2. ASSUME NEW m \in Load(n), Saved([m EXCEPT !.visibility = "Deleted", !.received = FALSE])
        PROVE  DeskInv'
    <3> DEFINE file == [m EXCEPT !.visibility = "Deleted", !.received = FALSE]
    <3>1. m \in Mails
      BY <1>3
    <3>2. file \in Mails /\ IsDeleted(file)
      BY <3>1 DEF Mails, IsDeleted
    <3>3. files' = [files EXCEPT ![n] = file] /\ UNCHANGED meant
      BY <1>6, <2>2 DEF HandleKill, Saved
    <3> HIDE DEF file
    <3> QED
      BY <1>4, <3>2, <3>3 DEF Says
  <2> QED
    BY <1>6, <2>1, <2>2 DEF HandleKill
<1>7. CASE EditMailHeader /\ ~ Unchanged
  <2>1. PICK typed \in errand.work.names : \E mail_found \in Load(n) :
          /\ typed \in Handles \cup {""}
          /\ Saved([mail_found EXCEPT
                !.subject = IF desk.subject = <<>> THEN @ ELSE desk.subject,
                !.to_name = IF typed = "" THEN @ ELSE typed,
                !.addressee_slot = IF typed = "" THEN @ ELSE {Accounts[typed].slot}])
          /\ meant' = [meant EXCEPT
                ![desk.number].subject = IF desk.subject = <<>> THEN @ ELSE desk.subject,
                ![desk.number].to = IF typed = "" THEN @ ELSE typed,
                ![desk.number].whom = IF typed = "" THEN @ ELSE {typed}]
    BY <1>7 DEF EditMailHeader
  <2>2. PICK m \in Load(n) :
          /\ typed \in Handles \cup {""}
          /\ Saved([m EXCEPT
                !.subject = IF desk.subject = <<>> THEN @ ELSE desk.subject,
                !.to_name = IF typed = "" THEN @ ELSE typed,
                !.addressee_slot = IF typed = "" THEN @ ELSE {Accounts[typed].slot}])
          /\ meant' = [meant EXCEPT
                ![desk.number].subject = IF desk.subject = <<>> THEN @ ELSE desk.subject,
                ![desk.number].to = IF typed = "" THEN @ ELSE typed,
                ![desk.number].whom = IF typed = "" THEN @ ELSE {typed}]
    BY <2>1
  <2> DEFINE file == [m EXCEPT
                        !.subject = IF desk.subject = <<>> THEN @ ELSE desk.subject,
                        !.to_name = IF typed = "" THEN @ ELSE typed,
                        !.addressee_slot = IF typed = "" THEN @ ELSE {Accounts[typed].slot}]
             changed == [meaning EXCEPT
                           !.subject = IF desk.subject = <<>> THEN @ ELSE desk.subject,
                           !.to = IF typed = "" THEN @ ELSE typed,
                           !.whom = IF typed = "" THEN @ ELSE {typed}]
  <2>3. n \in 1 .. Len(files) /\ m \in Mails /\ meaning \in Meanings /\ Says(m, meaning)
    BY <1>3
  <2>4. meant' = [meant EXCEPT ![n] = changed]
    BY <2>2, <2>3 DEF DeskInv, Filed
  <2>5. files' = [files EXCEPT ![n] = file]
    BY <2>2 DEF Saved
  <2>6. desk.subject \in Seq(Words)
    BY <1>7, Seated, AtADesk DEF EditMailHeader, DeskInv, DeskPrompts
  <2>7. typed # "" => typed \in Handles /\ typed \in Recipients /\ SlotsOf({typed}) = {Accounts[typed].slot}
                      /\ SlotsOf({typed}) \subseteq SlotsOf(Handles)
    BY <2>2, Everyone
  <2>8. file \in Mails
    BY <2>3, <2>6, <2>7 DEF Mails
  <2>9. changed \in Meanings
    BY <2>3, <2>6, <2>7 DEF Meanings
  <2>10. Says(file, changed)
    BY <2>3, <2>7 DEF Says, IsDeleted, Mails, Meanings
  <2> HIDE DEF file, changed
  <2> QED
    BY <1>1, <2>3, <2>4, <2>5, <2>8, <2>9, <2>10, SaveKeeps
<1> QED
  BY <1>2, <1>5, <1>6, <1>7

LEMMA DeskStarts == DeskInit => DeskInv
BY DEF DeskInit, DeskInv, Typed, Filed

LEMMA DeskStepKeeps == DeskInv /\ [DeskNext]_deskvars => DeskInv'
<1> SUFFICES ASSUME DeskInv, [DeskNext]_deskvars PROVE DeskInv'
  OBVIOUS
<1>1. CASE UNCHANGED deskvars
  BY <1>1 DEF deskvars, DeskInv, Typed, Filed, Says, IsDeleted, SlotsOf
<1>2. CASE LoseCaller
  <2>1. UNCHANGED <<errand, files, meant>> /\ Leave
    BY <1>2 DEF LoseCaller, Prompted, Composing, Unchanged
  <2> QED
    BY <2>1, LeaveKeeps DEF DeskInv
<1>3. CASE OpenMailStores
  <2>1. errand' \in [work : DeskWorkloads, restarts : Nat] /\ Leave /\ UNCHANGED <<files, meant>>
    <3>1. errand \in [work : DeskWorkloads, restarts : Nat]
      BY DEF DeskInv
    <3>2. errand' = [errand EXCEPT !.restarts = @ + 1]
      BY <1>3 DEF OpenMailStores
    <3>3. Leave /\ UNCHANGED <<files, meant>>
      BY <1>3 DEF OpenMailStores, Unchanged
    <3> QED
      BY <3>1, <3>2, <3>3
  <2> QED
    BY <2>1, LeaveKeeps
<1> QED
  BY <1>1, <1>2, <1>3, CommandKeeps, HeaderKeeps, EditorKeeps, MessageKeeps DEF DeskNext

\* What is composed has the lines that were typed, and every file what its
\* author meant (post_mail, reply_to_mail, forward_mail, edit_mail_header).
THEOREM WordsAreKept == DeskSpec => []DeskInv
BY DeskStarts, DeskStepKeeps, PTL DEF DeskSpec

\* Words arrive as they were typed, at the one they were addressed to, and what
\* was written in private is in no public message, however often it was
\* answered, forwarded and readdressed (menu_flow/post_mail.rs, reply_forward.rs).
THEOREM WordsArriveAsTyped == DeskSpec => []PostedAsTyped
BY WordsAreKept, FiledAsTyped, PTL DEF DeskInv

=============================================================================
