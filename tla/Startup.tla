------------------------------ MODULE Startup ------------------------------
(* The start of the board, again and again: what it reads from the disk, what
   it makes there itself, and what the next start finds.

   A start loads the conferences, opens the database of the accounts and seeds
   it when it is empty, opens a store for every message base, and listens.  An
   error on the way ends the process, and so does a crash at any point; what
   was written stays.  The sysop edits the directories of the conferences
   whenever he likes, which the next start sees.  What is in the mail
   files is the matter of MessageBases.

   A definition that is followed by a near copy of itself is a mistake the
   properties are tried against; the model uses the second of the two.      *)
EXTENDS Naturals, SequencesExt, FiniteSetsExt

CONSTANT Sites        \* bound: the directories at first, the sysop's edits, whether
                      \* accounts are kept in a database, and how many faults there are

VARIABLES dirs,       \* the conference directories and what is in each
          mailbases,  \* the directories of message bases
          database,   \* the accounts on disk
          board,      \* the process
          edits, faults,  \* so far
          edited,     \* history: has the sysop edited them since they last loaded
          site
startvars == <<dirs, mailbases, database, board, edits, faults, edited, site>>

\* A directory as it is named: Conf01, or Conf1 for the same number.
Dir(n, padded) == [number |-> n, padded |-> padded]
\* What is in it.  A conference file that cannot be read or parsed is as
\* none; with no message bases it is refused by Conference::new.
Absent == [is |-> "absent"]
NoToml == [is |-> "directory"]
Toml(n, bases) == [is |-> "conference", number |-> n, msgbases |-> bases]
Contents == {Absent, NoToml} \cup [is : {"conference"}, number : Nat, msgbases : Seq(Nat)]

NoDatabase == [is |-> "absent"]
NoUsers == [is |-> "empty"]
Users(granted, password) == [is |-> "users", granted |-> granted, password |-> password]

\* conf and base stand where open_mail_stores is in its two loops.
Down == [stage |-> "down", failure |-> "none", conferences |-> <<>>, users |-> NoUsers,
         conf |-> 1, base |-> 1, mail_stores |-> {}]
Failed(why) == [Down EXCEPT !.stage = "failed", !.failure = why]

ASSUME SitesAssumption ==
    \A s \in Sites : /\ IsFiniteSet(DOMAIN s.dirs) /\ s.durable \in BOOLEAN
                     /\ {s.most_edits, s.faults} \subseteq Nat
                     /\ \A e \in s.edits : e.dir \in DOMAIN s.dirs
                     /\ DOMAIN s.dirs \subseteq [number : Nat, padded : BOOLEAN]
                     /\ \A d \in DOMAIN s.dirs : Dir(d.number, TRUE) \in DOMAIN s.dirs
                     /\ s.dirs \in [DOMAIN s.dirs -> Contents] /\ \A e \in s.edits : e.holds \in Contents

StartInit ==
    /\ site \in Sites
    /\ dirs = site.dirs /\ mailbases = {} /\ database = NoDatabase
    /\ board = Down
    /\ edits = 0 /\ faults = 0 /\ edited = TRUE

----------------------------------------------------------------------------
(* The conferences, in the order of their numbers.  Two directories of one
   number come in the order the file system lists them.                      *)

There == {d \in DOMAIN dirs : dirs[d] # Absent}
Listings ==
    {listing \in SetToSeqs(There) :
       \A i, k \in DOMAIN listing : i < k => listing[i].number <= listing[k].number}

\* Conference::new on what the file says.
IsConference(d) ==
    dirs[d].is = "conference" /\ dirs[d].number = d.number /\ dirs[d].msgbases # <<>>
Seen(listing, i) == \E k \in 1 .. i - 1 : listing[k].number = listing[i].number

\* The first directory that fails ends the loading.
Bad(listing) == {i \in DOMAIN listing : Seen(listing, i) \/ ~ IsConference(listing[i])}
Failure(listing) == IF Seen(listing, Min(Bad(listing))) THEN "duplicate" ELSE "conference"
LoadAll(listing) ==
    [i \in DOMAIN listing |-> [number |-> listing[i].number, msgbases |-> dirs[listing[i]].msgbases]]

Numbers(conferences) == {c.number : c \in Range(conferences)}

----------------------------------------------------------------------------
(* The steps of a start.                                                    *)

IsAt(stage) == board.stage = stage
Goes(next) == board' = next /\ UNCHANGED <<edits, site>>
Proceeds(next) == Goes(next) /\ UNCHANGED <<faults, edited>>

Start == /\ board.stage \in {"down", "failed"}
         /\ Proceeds([Down EXCEPT !.stage = "load conferences"])
         /\ UNCHANGED <<dirs, mailbases, database>>

LoadConferences ==
    /\ IsAt("load conferences")
    /\ \E listing \in Listings :
         IF Bad(listing) # {} THEN Proceeds(Failed(Failure(listing)))
         ELSE /\ Goes([board EXCEPT !.stage = "open users", !.conferences = LoadAll(listing)])
              /\ edited' = FALSE /\ UNCHANGED faults
    /\ UNCHANGED <<dirs, mailbases, database>>

\* The default sysop with a membership in every conference.
SeededSysop == Users(Numbers(board.conferences), "sysop")

\* Creates the database with its tables, or keeps the accounts in memory.
OpenUsers ==
    /\ IsAt("open users")
    /\ Proceeds([board EXCEPT !.stage = IF site.durable THEN "seed" ELSE "open mail",
                              !.users = IF site.durable THEN NoUsers ELSE SeededSysop])
    /\ database' = IF site.durable /\ database = NoDatabase THEN NoUsers ELSE database
    /\ UNCHANGED <<dirs, mailbases>>

\* One transaction (UserRows has its statements).
SeedAlways ==
    /\ IsAt("seed")
    /\ database' = SeededSysop
    /\ Proceeds([board EXCEPT !.stage = "open mail"])
    /\ UNCHANGED <<dirs, mailbases>>
SeedWhenEmpty ==
    /\ IsAt("seed")
    /\ database' = IF database = NoUsers THEN SeededSysop ELSE database
    /\ Proceeds([board EXCEPT !.stage = "open mail"])
    /\ UNCHANGED <<dirs, mailbases>>

\* Where the messages of a base are: MsgBase for base 1, or with its number.
AllInOne(n, b) == [dir |-> Dir(n, TRUE), name |-> <<"MsgBase">>]
AsConfigured(n, b) == [dir |-> Dir(n, FALSE), name |-> <<"MsgBase", b>>]
MailDir(n, b) ==
    [dir |-> Dir(n, TRUE), name |-> IF b = 1 THEN <<"MsgBase">> ELSE <<"MsgBase", b>>]

OpenMail ==
    /\ IsAt("open mail")
    /\ Proceeds([board EXCEPT !.stage = "open mail stores"])
    /\ UNCHANGED <<dirs, mailbases, database>>

\* A store for every base of every conference in turn.  The directories on the
\* way are made too.
AllOpened == board.conf > Len(board.conferences)
OpenMailStore ==
    /\ IsAt("open mail stores") /\ ~ AllOpened
    /\ LET c == board.conferences[board.conf]
           coord == <<c.number, c.msgbases[board.base]>>
           at == MailDir(coord[1], coord[2])
           last == board.base = Len(c.msgbases)
       IN  /\ mailbases' = mailbases \cup {at}
           /\ dirs' = [d \in DOMAIN dirs |-> IF d = at.dir /\ dirs[d] = Absent
                                               THEN NoToml ELSE dirs[d]]
           /\ Proceeds([board EXCEPT !.conf = IF last THEN @ + 1 ELSE @,
                                      !.base = IF last THEN 1 ELSE @ + 1,
                                      !.mail_stores = {m \in @ : m.base # coord}
                                                        \cup {[base |-> coord, at |-> at]}])
    /\ UNCHANGED database

\* The screens, the demo files and the store of the flagged files need nothing
\* of the disk that can be missing; then the port.
Listen ==
    /\ IsAt("open mail stores") /\ AllOpened
    /\ Proceeds([board EXCEPT !.stage = "listening"])
    /\ UNCHANGED <<dirs, mailbases, database>>

\* An error of the disk or of the port in a start, or the end of the process
\* at any time.
Stops(next) ==
    /\ board.stage \notin {"down", "failed"} /\ faults < site.faults
    /\ faults' = faults + 1
    /\ Goes(next)
    /\ UNCHANGED <<dirs, mailbases, database, edited>>
Fails == ~ IsAt("listening") /\ Stops(Failed("fault"))
Crash == Stops(Down)

\* Nothing is lost when a board that listens is shut down.
ShutDown == /\ IsAt("listening") /\ Proceeds(Down)
            /\ UNCHANGED <<dirs, mailbases, database>>

Edit ==
    /\ edits < site.most_edits /\ edits' = edits + 1 /\ edited' = TRUE
    /\ \E e \in site.edits : dirs' = [dirs EXCEPT ![e.dir] = e.holds]
    /\ UNCHANGED <<mailbases, database, board, faults, site>>

\* The accounts the board works on.
Live == IF site.durable THEN database ELSE board.users

\* The sysop calls and chooses a password of his own.
ChangePassword ==
    /\ IsAt("listening")
    /\ IF site.durable THEN database' = [database EXCEPT !.password = "his own"] /\ UNCHANGED board
       ELSE board' = [board EXCEPT !.users.password = "his own"] /\ UNCHANGED database
    /\ UNCHANGED <<dirs, mailbases, edits, faults, edited, site>>

StartNext ==
    \/ Start \/ LoadConferences \/ OpenUsers \/ SeedWhenEmpty \/ OpenMail \/ OpenMailStore
    \/ Listen \/ Fails \/ Crash \/ ShutDown \/ Edit \/ ChangePassword

StartSpec == StartInit /\ [][StartNext]_startvars

----------------------------------------------------------------------------
(* Properties.                                                              *)

\* The board keeps the mail of a conference in a directory named as it names
\* it, Conf01.  For a conference that is in Conf1 a start makes that directory
\* beside it, and there are two of one number.
MadeBeside(d) ==
    LET own == Dir(d.number, TRUE)
    IN  dirs[own] = NoToml /\ \E m \in mailbases : m.dir = own
Doubled == \E d \in There : ~ d.padded /\ IsConference(d) /\ MadeBeside(d)

\* Conferences that were loaded once are loaded again, until the sysop edits
\* them: nothing that a start makes on disk, even one that was cut short, stands
\* in the way of the next, but the second directory it makes for a conference
\* whose own is named another way (open_mail_stores, conference_dir, load_all).
ComesUpAgain == board.failure \in {"conference", "duplicate"} => edited \/ Doubled

\* A board that listens has the conferences of the disk in strictly ascending
\* order, as the walks over them rely on, one store for every base of each,
\* and no directory for two bases (load_all, open_mail_stores).
CatalogueServed ==
    IsAt("listening") =>
        /\ \A i, k \in DOMAIN board.conferences :
             i < k => board.conferences[i].number < board.conferences[k].number
        /\ \A c \in Range(board.conferences) : \A b \in Range(c.msgbases) :
             \E m \in board.mail_stores : m.base = <<c.number, b>> /\ m.at \in mailbases
        /\ \A m, k \in board.mail_stores : m.at = k.at => m = k

\* Whatever starts were cut short before, and between them and ever after, the
\* sysop is made once: on a board whose conferences were never edited he may join
\* all of them, and no later start gives an account in the database its first
\* password back (is_empty guards insert_seed, which overwrites).
SysopSeededOnce ==
    /\ [](IsAt("listening") /\ edits = 0 => Live.granted = Numbers(board.conferences))
    /\ [][database.is = "users" /\ database.password = "his own" => database' = database]_startvars
=============================================================================
