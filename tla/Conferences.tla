---------------------------- MODULE Conferences ----------------------------
(* The calls of one account among the conferences: joining them, walking to
   the next one, scanning all of them for new mail with a detour to read what
   was found, and editing their scan flags.  A call works on its own copy of
   the account, which is patched into the stored one when it ends; meanwhile
   other callers post and delete mail.

   Each scan and each read runs under the lock of one base and is one step
   here (MessageBases has the locks); a call may be dropped wherever it waits
   for its caller or writes to him.

   A definition called a mistake is a near copy of the one after it that the
   properties are tried against; the model uses the second of the two.      *)
EXTENDS Naturals, SequencesExt, FiniteSetsExt

CONSTANTS BasesOf,     \* the catalogue: the numbers of the bases of each conference
          NameTypeOf,  \* accepted_name_type
          Calls,
          Flags,       \* MailScan and some of the other scan flags
          Numbers,     \* bound: numbers callers type
          None,        \* no number, no name, nobody
          Grants,      \* the possible sets of conferences the account is let into
          Programs,    \* bound: what each call asks for, and under None what others do
          MaxMail,     \* bound: messages in a base
          MaxPosts     \* bound: messages others post during the calls

VARIABLES mail,     \* each message of each base, as it is to the account: mine and
                    \* unread, to all, seen, to others, gone
          granted,  \* the conferences the account is a member of
          stored,   \* the account as stored
          call,     \* what each call is doing
          asked,    \* the commands of this behaviour
          posts,
          told,     \* history: how often, up to twice, a scan told the call of a message
          passed,   \* history: messages a read took the scan pointer past
          editor    \* history: the last call whose patch set the flags of a conference
vars == <<mail, granted, stored, call, asked, posts, told, passed, editor>>

Conferences == DOMAIN BasesOf
Places == UNION {{<<n, b>> : b \in Range(BasesOf[n])} : n \in Conferences}
MailScan == "M"
NoPlace == <<>>

ASSUME CatalogueAssumption ==
    /\ Conferences \subseteq Nat \ {0} /\ IsFiniteSet(Conferences)
    /\ \A n \in Conferences : BasesOf[n] # <<>> /\ BasesOf[n] \in Seq(Nat)
    /\ DOMAIN NameTypeOf = Conferences
ASSUME AccountAssumption ==
    MailScan \in Flags /\ (\A g \in Grants : g \subseteq Conferences) /\ None \notin Calls
ASSUME ConferenceBounds == {MaxMail, MaxPosts} \subseteq Nat /\ Numbers \subseteq Nat

----------------------------------------------------------------------------
(* The catalogue.                                                           *)

Highest == Max(Conferences \cup {0})
Count(n) == Len(BasesOf[n])
Holds(n, b) == b \in Range(BasesOf[n])
\* Base 1, or the first one listed.
PrimaryMsgbase(n) == IF Holds(n, 1) THEN 1 ELSE Head(BasesOf[n])

HasMembership(n) == n \in granted
FirstAccessible == Min(granted)
NextAccessible(n) == {m \in granted : m > n /\ \A k \in granted : k > n => m <= k}
PrevAccessible(n) == {m \in granted : m < n /\ \A k \in granted : k < n => m >= k}

\* A scan takes all bases of the conferences in ns, in ascending order.
ToScan(ns) == {p \in Places : p[1] \in ns}
Before(p, q) == p[1] < q[1] \/ (p[1] = q[1] /\ p[2] < q[2])

----------------------------------------------------------------------------
(* A call: its copy of the account, the copy it was loaded as, the visits
   that are open, and what it waits for.                                    *)

\* An account: the place it joined last, the highest number read and scanned in
\* each base, and the scan flags of each conference.
Fresh == [last |-> NoPlace, read |-> [p \in Places |-> 0], scanned |-> [p \in Places |-> 0],
          flags |-> [n \in Conferences |-> {MailScan}]]

\* want: the conference and base a prompt is about; todo: bases still to be
\* scanned; found: what was found and not yet shown; home: the visit a detour
\* goes back to; next: the message to be read; logon: is this the logon scan.
NoCall == [stage |-> "out", account |-> Fresh, base |-> Fresh, open |-> <<>>,
           name |-> None, want |-> None, todo |-> {}, found |-> <<>>,
           home |-> NoPlace, next |-> 0]

At(c, stage) == call[c].stage = stage
\* The visit the session takes for the current one.
Current(session) == Head(session.open)
CurrentConference(c) == Current(call[c])[1]

Becomes(c, session) == /\ call' = [call EXCEPT ![c] = session]
                       /\ UNCHANGED <<mail, granted, stored, asked, posts, told, passed, editor>>
GoesTo(c, stage) == Becomes(c, [call[c] EXCEPT !.stage = stage])

Zero == [p \in Places |-> [n \in 1 .. MaxMail |-> 0]]

Init == /\ mail \in {[p \in Places |-> <<>>]}
        /\ granted \in Grants
        /\ stored = Fresh
        /\ call = [c \in Calls |-> NoCall]
        /\ asked \in Programs
        /\ posts = 0
        /\ told = [c \in Calls |-> Zero]
        /\ passed = [c \in Calls |-> [p \in Places |-> {}]]
        /\ editor = [n \in Conferences |-> None]

----------------------------------------------------------------------------
(* Visits and joins.                                                        *)

\* Mistake: the visit before stays open.
AttachOnly(session, p) == [session EXCEPT !.open = Append(@, p)]
\* Every open visit is closed, then a new one opened.
Attach(session, p) == [session EXCEPT !.open = <<p>>]

\* record_join, the promotion of the name type, and the visit.
Joined(session, p) ==
    Attach([session EXCEPT !.account.last = p, !.name = NameTypeOf[p[1]]], p)

\* The base asked for when the conference holds it, else the primary one; a
\* conference that is not granted leaves everything as it is.
ResolvePlace(n, b) == <<n, IF Holds(n, b) THEN b ELSE PrimaryMsgbase(n)>>
ExplicitJoin(c, n, b) ==
    Becomes(c, IF HasMembership(n)
                 THEN [Joined(call[c], ResolvePlace(n, b)) EXCEPT !.stage = "arriving", !.want = None]
                 ELSE [call[c] EXCEPT !.stage = "menu", !.want = None])

\* Loads the account, rejoins, writes what that changed, and scans the
\* conferences flagged for it.
Rejoined(account) ==
    LET n == IF account.last # NoPlace /\ HasMembership(account.last[1])
               THEN account.last[1] ELSE FirstAccessible
    IN <<n, PrimaryMsgbase(n)>>

Flagged(account, n) == MailScan \in account.flags[n]
LogonScan(session) == ToScan({n \in granted : Flagged(session.account, n)})

SignIn(c) ==
    /\ At(c, "out") /\ asked[c] # {}
    /\ IF granted = {}
         THEN call' = [call EXCEPT ![c].stage = "ended"] /\ UNCHANGED <<stored, passed>>
         ELSE LET session == Joined([NoCall EXCEPT !.account = stored, !.base = stored],
                                    Rejoined(stored))
              IN /\ stored' = session.account
                 /\ call' = [call EXCEPT ![c] = [session EXCEPT !.base = session.account, !.stage = "scanning",
                               !.todo = LogonScan(session)]]
                 /\ passed' = [passed EXCEPT ![c] = [p \in Places |-> 1 .. stored.scanned[p]]]
    /\ UNCHANGED <<mail, granted, asked, posts, told, editor>>

\* The target of J is known.  With a base the access is checked before the
\* base is asked for.
Target(c, n, b) ==
    IF b = None THEN ExplicitJoin(c, n, 0)
    ELSE IF ~ HasMembership(n) THEN GoesTo(c, "menu")
    ELSE IF Holds(n, b) THEN ExplicitJoin(c, n, b)
    ELSE Becomes(c, [call[c] EXCEPT !.stage = "askBase",
                                    !.want = [conference |-> n, clamp |-> FALSE]])

AskConference(c, b) == Becomes(c, [call[c] EXCEPT !.stage = "askConf", !.want = [base |-> b]])

\* J with a number in range goes on; any other, and none, asks.
JoinCommand(c, n, b) ==
    /\ At(c, "menu") /\ "join" \in asked[c]
    /\ n = None => b = None
    /\ IF n \in 1 .. Highest THEN Target(c, n, b) ELSE AskConference(c, b)

\* An empty line gives up; a number is moved into the range.
Clamp(value, low, high) == Max({low, Min({value, high})})
AnswerConference(c, answer) ==
    /\ At(c, "askConf")
    /\ IF answer = None THEN Becomes(c, [call[c] EXCEPT !.stage = "menu", !.want = None])
       ELSE Target(c, Clamp(answer, 1, Highest), call[c].want.base)

AskBase(c, n) == Becomes(c, [call[c] EXCEPT !.stage = "askBase",
                                            !.want = [conference |-> n, clamp |-> TRUE]])
\* J passes the number on as it is, JM moves it into 1 .. count.
AnswerBase(c, answer) ==
    LET n == call[c].want.conference IN
    /\ At(c, "askBase")
    /\ IF answer = None THEN Becomes(c, [call[c] EXCEPT !.stage = "menu", !.want = None])
       ELSE ExplicitJoin(c, n, IF call[c].want.clamp THEN Clamp(answer, 1, Count(n)) ELSE answer)

\* JM: nothing to choose in a conference of one base.
JoinBase(c, b) ==
    LET n == CurrentConference(c) IN
    IF Count(n) = 1 THEN GoesTo(c, "menu")
    ELSE IF b # None /\ Holds(n, b) THEN ExplicitJoin(c, n, b)
    ELSE AskBase(c, n)
JoinMsgbaseCommand(c, b) == At(c, "menu") /\ "join" \in asked[c] /\ JoinBase(c, b)

\* < and >: the neighbouring conference of the account, or J.
AsksToWalk(c) == At(c, "menu") /\ "walk" \in asked[c]
WalkConferences(c, to) ==
    /\ \/ \E n \in to : ExplicitJoin(c, n, 0)
       \/ to = {} /\ AskConference(c, None)
PrevConference(c) == AsksToWalk(c) /\ WalkConferences(c, PrevAccessible(CurrentConference(c)))
NextConference(c) == AsksToWalk(c) /\ WalkConferences(c, NextAccessible(CurrentConference(c)))

\* << and >>: the number beside the current one if it is in 1 .. count, or JM.
StepMsgbase(c, b) ==
    LET n == CurrentConference(c) IN
    IF b \in 1 .. Count(n) THEN ExplicitJoin(c, n, b) ELSE JoinBase(c, None)
PrevMsgbase(c) == AsksToWalk(c) /\ StepMsgbase(c, Current(call[c])[2] - 1)
NextMsgbase(c) == AsksToWalk(c) /\ StepMsgbase(c, Current(call[c])[2] + 1)

----------------------------------------------------------------------------
(* The scan of a base.                                                      *)

Readable(kind) == kind \in {"mine", "all", "seen"}
IsUnreadFor(kind) == kind \in {"mine", "all"}

\* Mistake: the scan begins with the message the last one ended with.
FromTheLast(account, p) == Max({account.scanned[p], 1})
From(account, p) == account.scanned[p] + 1
Listing(account, p) == {n \in From(account, p) .. Len(mail[p]) : IsUnreadFor(mail[p][n])}

Scanned(account, p) == [account EXCEPT !.scanned[p] = Max({@, Len(mail[p])})]

Tell(c, p, rows) ==
    told' = [told EXCEPT ![c][p] = [n \in DOMAIN @ |-> IF n \in rows THEN Min({@[n] + 1, 2}) ELSE @[n]]]

\* scan_mail_on_join tells how many there are and which is the first.
ScanOnJoin(c) ==
    LET p == Current(call[c]) IN
    /\ At(c, "arriving")
    /\ call' = [call EXCEPT ![c] = [call[c] EXCEPT !.account = Scanned(@, p), !.stage = "menu"]]
    /\ Tell(c, p, Listing(call[c].account, p))
    /\ UNCHANGED <<mail, granted, stored, asked, posts, passed, editor>>

\* MS: every base of every conference, whatever their flags.
ScanAllMail(c) ==
    /\ At(c, "menu") /\ "scan" \in asked[c]
    /\ Becomes(c, [call[c] EXCEPT !.stage = "scanning", !.todo = ToScan(granted)])

NextToScan(c, p) == /\ At(c, "scanning") /\ p \in call[c].todo
                    /\ \A q \in call[c].todo \ {p} : Before(p, q)

\* All bases are scanned before anything is shown, and only those with
\* something to list are of interest then.
Found(session, p) ==
    LET rows == Listing(session.account, p) IN
    IF rows = {} THEN session.found ELSE Append(session.found, [place |-> p, rows |-> rows])
ScanBase(c) ==
    \E p \in Places :
        /\ NextToScan(c, p)
        /\ Becomes(c, [call[c] EXCEPT !.todo = @ \ {p}, !.found = Found(call[c], p),
                                      !.account = Scanned(@, p)])

\* A message that cannot be loaded ends the scan of its base, and its pointer
\* stays; the scan of an arrival likewise.
ScanFails(c) ==
    \/ \E p \in Places : NextToScan(c, p) /\ Becomes(c, [call[c] EXCEPT !.todo = @ \ {p}])
    \/ At(c, "arriving") /\ GoesTo(c, "menu")

ScanDone(c) == At(c, "scanning") /\ call[c].todo = {} /\ GoesTo(c, "showing")

ShowListing(c) ==
    LET f == Head(call[c].found) IN
    /\ At(c, "showing") /\ call[c].found # <<>>
    /\ call' = [call EXCEPT ![c] = [call[c] EXCEPT !.stage = "offer"]]
    /\ Tell(c, f.place, f.rows)
    /\ UNCHANGED <<mail, granted, stored, asked, posts, passed, editor>>

ShownAll(c) == At(c, "showing") /\ call[c].found = <<>> /\ GoesTo(c, "menu")

\* Mistake: the offer that was declined is made again.
OffersAgain(c) == At(c, "offer") /\ GoesTo(c, "showing")
Declines(c) == At(c, "offer") /\ Becomes(c, [call[c] EXCEPT !.stage = "showing", !.found = Tail(@)])

\* The visit is moved to where the mail is, and the read begins with the first
\* row of the listing, whatever has become of it.
BeginReadDetour(c) ==
    LET f == Head(call[c].found) IN
    /\ At(c, "offer")
    /\ Becomes(c, [Attach(call[c], f.place) EXCEPT
                     !.stage = "opening", !.home = Current(call[c]),
                     !.next = Min(f.rows), !.found = Tail(@)])

\* Mistake: the way home is forgotten.
StayThere(session) == [session EXCEPT !.stage = IF session.home = NoPlace THEN "menu" ELSE "showing",
                                      !.home = NoPlace, !.next = 0]
EndRead(session) ==
    IF session.home = NoPlace
      THEN [session EXCEPT !.stage = "menu", !.next = 0]
      ELSE [Attach(session, session.home) EXCEPT !.stage = "showing", !.home = NoPlace, !.next = 0]

----------------------------------------------------------------------------
(* Reading.                                                                 *)

ReadCommand(c, n) ==
    /\ At(c, "menu") /\ "read" \in asked[c]
    /\ n \in 1 .. MaxMail
    /\ Becomes(c, [call[c] EXCEPT !.stage = "opening", !.next = n])

LowestUndeleted(p) ==
    Min({n \in DOMAIN mail[p] : mail[p][n] # "gone"} \cup {Len(mail[p]) + 1})

\* R without a number asks at once, beginning after the last message read.
ReadAtPointer(c) ==
    LET p == Current(call[c]) IN
    /\ At(c, "menu") /\ "read" \in asked[c]
    /\ Becomes(c, [call[c] EXCEPT !.stage = "reading",
                     !.next = Max({call[c].account.read[p] + 1, LowestUndeleted(p)})])

\* A message that was read takes both pointers along.
ReadUpTo(account, p, n) == [account EXCEPT !.read[p] = Max({@, n}), !.scanned[p] = Max({@, n})]
ReadThis(c) ==
    LET p == Current(call[c])
        n == call[c].next
        before == call[c].account.scanned[p]
    IN /\ n \in DOMAIN mail[p] /\ Readable(mail[p][n])
       /\ mail' = [mail EXCEPT ![p][n] = IF @ = "mine" THEN "seen" ELSE @]
       /\ call' = [call EXCEPT ![c] = [call[c] EXCEPT !.stage = "reading", !.next = n + 1,
                                                      !.account = ReadUpTo(@, p, n)]]
       /\ passed' = [passed EXCEPT ![c][p] = @ \cup (before + 1 .. n)]
       /\ UNCHANGED <<granted, stored, asked, posts, told, editor>>

\* The message asked for has to be there.
Open(c) ==
    LET p == Current(call[c])
        n == call[c].next
    IN /\ At(c, "opening")
       /\ \/ ReadThis(c)
          \/ /\ n \in DOMAIN mail[p] => ~ Readable(mail[p][n])
             /\ Becomes(c, EndRead(call[c]))

\* An empty line goes on, past a message that cannot be read.  A displays the
\* last one again and changes nothing; what else can be done there to a message
\* is in MessageBases.
ReadOn(c) ==
    LET p == Current(call[c])
        n == call[c].next
    IN /\ At(c, "reading") /\ n \in LowestUndeleted(p) .. Len(mail[p])
       /\ \/ ReadThis(c)
          \/ /\ ~ Readable(mail[p][n])
             /\ Becomes(c, [call[c] EXCEPT !.next = @ + 1])

\* Q, or an empty line when the next message is out of range.
LeaveRead(c) == At(c, "reading") /\ Becomes(c, EndRead(call[c]))

----------------------------------------------------------------------------
(* CF, for who may edit flags.                                              *)

ConferenceFlags(c) == At(c, "menu") /\ "flags" \in asked[c] /\ GoesTo(c, "flags")

\* One flag, turned on, off or over in the conferences named; only granted
\* ones are edited.  A number named twice is turned over twice.
Edited(on, flag, how) ==
    CASE how = "on" -> on \cup {flag}
      [] how = "off" -> on \ {flag}
      [] how = "toggle" -> IF flag \in on THEN on \ {flag} ELSE on \cup {flag}
ApplyScanFlagEdit(c, flag, how, which) ==
    /\ At(c, "flags")
    /\ how \in {"on", "off"} => which = Conferences
    /\ Becomes(c, [call[c] EXCEPT !.account.flags = [n \in Conferences |->
                     IF n \in which \cap granted THEN Edited(@[n], flag, how) ELSE @[n]]])

LeaveFlags(c) == At(c, "flags") /\ GoesTo(c, "menu")

----------------------------------------------------------------------------
(* The end of a call.                                                       *)

\* Where the call waits for its caller or writes to him.
Online(c) == call[c].stage \notin {"out", "scanning", "opening", "leaving", "ended"}

Logoff(c) == At(c, "menu") /\ GoesTo(c, "leaving")
\* A detour is ended on the error path too.
HangsUp(c) == Becomes(c, [EndRead(call[c]) EXCEPT !.stage = "leaving"])
\* Carrier loss or a failing write; the idle timeout of a line that is awaited.
Dropped(c) == Online(c) /\ HangsUp(c)
Waiting == {"menu", "askConf", "askBase", "offer", "reading", "flags"}
IdleTimedOut(c) == call[c].stage \in Waiting /\ HangsUp(c)

\* Mistake: the flags of every conference are written.
AllFlags(session, n) == TRUE
FlagsChanged(session, n) == session.account.flags[n] # session.base.flags[n]

\* What the call changed is written: flags as a set, pointers only upwards.
FinaliseLogoff(c) ==
    LET session == call[c] IN
    /\ At(c, "leaving")
    /\ stored' = [last |-> IF session.account.last = session.base.last
                             THEN stored.last ELSE session.account.last,
                  read |-> [p \in Places |-> Max({stored.read[p], session.account.read[p]})],
                  scanned |-> [p \in Places |-> Max({stored.scanned[p], session.account.scanned[p]})],
                  flags |-> [n \in Conferences |-> IF FlagsChanged(session, n)
                               THEN session.account.flags[n] ELSE stored.flags[n]]]
    /\ editor' = [n \in Conferences |->
                    IF session.account.flags[n] # session.base.flags[n] THEN c ELSE editor[n]]
    /\ call' = [call EXCEPT ![c].stage = "ended"]
    /\ UNCHANGED <<mail, granted, asked, posts, told, passed>>

----------------------------------------------------------------------------
(* Everybody else.                                                          *)

Others(change) == /\ "post" \in asked[None]
                  /\ mail' = change
                  /\ posts' = posts + 1 /\ posts < MaxPosts
                  /\ UNCHANGED <<granted, stored, call, asked, told, passed, editor>>

OthersPost(p, kind) == Len(mail[p]) < MaxMail /\ Others([mail EXCEPT ![p] = Append(@, kind)])
Delete(p, n) == n \in DOMAIN mail[p] /\ mail[p][n] # "gone" /\ Others([mail EXCEPT ![p][n] = "gone"])

----------------------------------------------------------------------------
Answers(c) ==
    \/ \E n \in Numbers \cup {None}, b \in Numbers \cup {None} : JoinCommand(c, n, b)
    \/ \E answer \in Numbers \cup {None} : AnswerConference(c, answer) \/ AnswerBase(c, answer)
    \/ \E b \in Numbers \cup {None} : JoinMsgbaseCommand(c, b)
    \/ PrevConference(c) \/ NextConference(c) \/ PrevMsgbase(c) \/ NextMsgbase(c)
    \/ ScanAllMail(c) \/ Declines(c) \/ BeginReadDetour(c)
    \/ \E n \in 1 .. MaxMail : ReadCommand(c, n)
    \/ ReadAtPointer(c) \/ ReadOn(c) \/ LeaveRead(c)
    \/ ConferenceFlags(c) \/ LeaveFlags(c)
    \/ \E flag \in Flags, how \in {"on", "off", "toggle"}, which \in SUBSET Conferences :
         ApplyScanFlagEdit(c, flag, how, which)
    \/ Logoff(c)

Runs(c) == \/ ScanOnJoin(c) \/ ScanBase(c) \/ ScanFails(c) \/ ScanDone(c)
           \/ ShowListing(c) \/ ShownAll(c) \/ Open(c) \/ FinaliseLogoff(c)

Next == \/ \E c \in Calls : SignIn(c) \/ Answers(c) \/ Runs(c) \/ Dropped(c) \/ IdleTimedOut(c)
        \/ \E p \in Places, kind \in {"mine", "all", "other"} : OthersPost(p, kind)
        \/ \E p \in Places, n \in 1 .. MaxMail : Delete(p, n)

Spec == Init /\ [][Next]_vars

\* What the board does by itself goes on, and an idle caller is dropped.
FairSpec == Spec /\ \A c \in Calls : WF_vars(Runs(c)) /\ WF_vars(IdleTimedOut(c))

----------------------------------------------------------------------------
(* Properties.                                                              *)

\* A call has one open visit, in a base that exists, of a conference the
\* account is a member of; outside a detour it is the place the account was
\* recorded to have joined last and the caller goes by the kind of name that
\* conference takes (conferences.allium SessionsHaveAtMostOneOpenVisit,
\* VisitedMsgBaseBelongsToVisitedConference).
VisitIsLegal ==
    \A c \in Calls : call[c].stage \notin {"out", "ended"} =>
        /\ Len(call[c].open) = 1
        /\ Current(call[c]) \in Places /\ HasMembership(CurrentConference(c))
        /\ call[c].account.last = IF call[c].home = NoPlace THEN Current(call[c]) ELSE call[c].home
        /\ call[c].name = NameTypeOf[call[c].account.last[1]]

InScan(session) == \/ session.stage \in {"scanning", "showing", "offer"}
                   \/ session.stage \in {"opening", "reading"} /\ session.home # NoPlace

\* Whatever a scan finds and however often its mail is read on the way, the
\* caller comes back from it to the base the scan was asked for in
\* (begin_read_detour, end_read_detour).
ScanLeavesPlaceAlone ==
    [][\A c \in Calls : InScan(call[c]) =>
         LET place(session) == IF session.home = NoPlace THEN Current(session) ELSE session.home
         IN place(call'[c]) = place(call[c])]_vars

\* A call is told of a message once, by whichever scan comes first: the logon
\* scan, MS, or the scan of an arrival.  And its scan pointer leaves no unread
\* message behind that the call was not told of or is about to be, but those it
\* was already past at sign-in and those a read of a later message took it past
\* (scan_mail).
AnnouncedOnce ==
    \A c \in Calls, p \in Places :
        /\ \A n \in 1 .. MaxMail : told[c][p][n] <= 1
        /\ Online(c) => \A n \in 1 .. call[c].account.scanned[p] :
             n \in DOMAIN mail[p] /\ IsUnreadFor(mail[p][n]) =>
               \/ told[c][p][n] > 0 \/ n \in passed[c][p]
               \/ \E f \in Range(call[c].found) : f.place = p /\ n \in f.rows

\* The stored flags of a conference are those of the last call that changed
\* them: a call that did not edit a conference undoes nobody's edit of it
\* (UserPatch::between, scan_flags as a set).
FlagEditsSurvive ==
    \A n \in Conferences :
        stored.flags[n] = IF editor[n] = None THEN Fresh.flags[n]
                                              ELSE call[editor[n]].account.flags[n]

\* A scan comes to its end, or the call does: with a caller who answers, with
\* one who is silent, with mail deleted before it is read.
ScansEnd == \A c \in Calls : InScan(call[c]) ~> ~ InScan(call[c])
=============================================================================
