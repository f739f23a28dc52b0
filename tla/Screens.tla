------------------------------ MODULE Screens ------------------------------
(* The screens of the board: files a sysop installs, read when a session
   first shows them and kept from then on.

   A lookup looks into the cache under its lock, lets go of the lock while it
   walks over the places the file may be in, one read at a time, and takes the
   lock again to store what it found.  Other sessions, and the sysop at the
   files, come in between.  A read that fails for any reason counts as a file
   that is not there.

   A definition that is followed by a near copy of itself is a mistake the
   properties are tried against; the model uses the second of the two.      *)
EXTENDS Naturals, SequencesExt, FiniteSetsExt

CONSTANTS Viewers,      \* the sessions that show screens
          Plans         \* bound: the screens asked for, the files the sysop may have
                        \* installed, his changes and the reads that fail

VARIABLES installed, \* the version of each file, 0 while it is not installed
          cache,     \* the screens kept
          lookup,    \* what each session looks up
          shown,     \* history: what was shown of each screen, topics excepted
          changes, failures, \* so far
          plan
screenvars == <<installed, cache, lookup, shown, changes, failures, plan>>

KeyKinds == {"fixed", "default_menu", "conference_menu", "joinmsgbase", "topic_help"}
FileNames == {"screen", "Menu", "menu", "JoinMsgBase", "help"}

\* The files are named as lookups name them: no lookup reads one of another name.
ASSUME PlansAssumption ==
    \A p \in Plans :
        /\ p.keys \subseteq [kind : KeyKinds, conf : Nat, level : Nat]
        /\ p.files \subseteq [dir : Nat, name : FileNames, level : Nat]
        /\ {p.changes, p.failures} \subseteq Nat
        /\ \A f \in p.files :
             CASE f.name = "Menu" -> f.level % 5 = 0
               [] f.name = "help" -> f.level > 0 /\ f.dir = 0
               [] f.name = "screen" -> f.level = 0 /\ f.dir = 0
               [] OTHER -> f.level = 0

\* A screen asked for: a fixed one, the menu of a level, the menu of a
\* conference for a level, the base prompt of a conference, help on a topic.
Fixed == [kind |-> "fixed", conf |-> 0, level |-> 0]
DefaultMenu(level) == [kind |-> "default_menu", conf |-> 0, level |-> level]
ConferenceMenu(n, level) == [kind |-> "conference_menu", conf |-> n, level |-> level]
JoinMsgBase(n) == [kind |-> "joinmsgbase", conf |-> n, level |-> 0]
\* A topic of so many characters that are safe in a name, 0 when some are not.
TopicHelp(length) == [kind |-> "topic_help", conf |-> 0, level |-> length]

\* A file: its directory, a conference's number or one of the board's own, its
\* name, and the level or the length the name ends in.
SystemDir == 0
File(dir, name, level) == [dir |-> dir, name |-> name, level |-> level]
Screen(file, version) == [file |-> file, version |-> version]
\* The text built in, and what a lookup has before it found anything.
NoFile == File(SystemDir, "built in", 0)
Fallback == Screen(NoFile, 0)
NotCached == Screen(NoFile, 1)

----------------------------------------------------------------------------
(* Where a screen is looked for.                                            *)

DefaultConference == 2
MinSecurityLevel == 5

\* Menu<N>.txt for the multiples of five from the caller's level down.
UnlessLowest(n, level) ==
    [i \in 1 .. level \div 5 - 1 |-> File(n, "Menu", 5 * (level \div 5 + 1 - i))]
SecurityWalk(n, level) ==
    [i \in 1 .. level \div 5 |-> File(n, "Menu", 5 * (level \div 5 + 1 - i))]

ResolveDefaultMenu(level) ==
    Append(SecurityWalk(DefaultConference, level), File(DefaultConference, "Menu", 0))
ResolveConferenceMenu(n, level) ==
    SecurityWalk(n, level) \o <<File(n, "menu", 0), File(n, "Menu", 0)>>
ResolveJoinMsgBase(n) ==
    <<File(n, "JoinMsgBase", 0), File(SystemDir, "JoinMsgBase", 0)>>
\* The topic, then its prefixes, the longest first.
TopicWalk(length) == [i \in 1 .. length |-> File(SystemDir, "help", length + 1 - i)]

Walk(key) ==
    CASE key.kind = "fixed" -> <<File(SystemDir, "screen", 0)>>
      [] key.kind = "default_menu" -> ResolveDefaultMenu(key.level)
      [] key.kind = "conference_menu" -> ResolveConferenceMenu(key.conf, key.level)
      [] key.kind = "joinmsgbase" -> ResolveJoinMsgBase(key.conf)
      [] key.kind = "topic_help" -> TopicWalk(key.level)

IsKept(key) == key.kind # "topic_help"

----------------------------------------------------------------------------
Keys == UNION {p.keys : p \in Plans}
\* A menu of a conference falls through to the menu of its level.
Slots == Keys \cup {DefaultMenu(key.level) : key \in Keys}
Files == UNION {p.files : p \in Plans}
Installed(file) == file \in Files /\ installed[file] > 0

\* stage: idle; reading the head of walk; storing found under slot.
NoLookup == [stage |-> "idle", key |-> Fixed, slot |-> Fixed, walk |-> <<>>, found |-> Fallback]

ScreensInit ==
    /\ plan \in Plans
    /\ installed \in {[f \in Files |-> IF f \in there THEN 1 ELSE 0] : there \in SUBSET plan.files}
    /\ cache = [s \in Slots |-> NotCached]
    /\ lookup = [v \in Viewers |-> NoLookup]
    /\ shown = [s \in Slots |-> {}]
    /\ changes = 0 /\ failures = 0

Does(v, next) == /\ lookup' = [lookup EXCEPT ![v] = next]
                 /\ UNCHANGED <<installed, changes, failures, plan>>
Looks(v, next) == Does(v, next) /\ UNCHANGED <<cache, shown>>
Shows(v, screen) ==
    /\ Does(v, NoLookup)
    /\ shown' = IF IsKept(lookup[v].key)
                  THEN [shown EXCEPT ![lookup[v].key] = @ \cup {screen}] ELSE shown

\* Finds slot in the cache, or starts to walk.
LookInCache(v, key, slot) ==
    IF IsKept(slot) /\ cache[slot] # NotCached
      THEN [lookup[v] EXCEPT !.stage = "storing", !.key = key, !.slot = slot,
                             !.found = cache[slot]]
      ELSE [lookup[v] EXCEPT !.stage = "reading", !.key = key, !.slot = slot,
                             !.walk = Walk(slot)]

AskScreen(v) == /\ lookup[v].stage = "idle"
                /\ \E key \in plan.keys : Looks(v, LookInCache(v, key, key))

\* The head of the walk is read.
Read(v) ==
    LET file == Head(lookup[v].walk)
    IN  /\ lookup[v].stage = "reading" /\ lookup[v].walk # <<>>
        /\ Looks(v, IF Installed(file)
                      THEN [lookup[v] EXCEPT !.stage = "storing", !.walk = <<>>,
                                             !.found = Screen(file, installed[file])]
                      ELSE [lookup[v] EXCEPT !.walk = Tail(@)])

ReadFails(v) ==
    /\ lookup[v].stage = "reading" /\ lookup[v].walk # <<>>
    /\ Installed(Head(lookup[v].walk)) /\ failures < plan.failures
    /\ failures' = failures + 1
    /\ lookup' = [lookup EXCEPT ![v].walk = Tail(@)]
    /\ UNCHANGED <<installed, cache, shown, changes, plan>>

\* A conference without a menu shows the one of the level; anything else
\* shows the text built in.
NothingFound(v) ==
    /\ lookup[v].stage = "reading" /\ lookup[v].walk = <<>>
    /\ Looks(v, IF lookup[v].slot.kind = "conference_menu"
                 THEN LookInCache(v, lookup[v].key, DefaultMenu(lookup[v].key.level))
                 ELSE [lookup[v] EXCEPT !.stage = "storing"])

\* What another session has stored meanwhile stays; the menu of a level is
\* stored for its conference next.
StoreTheLast(v) ==
    LET slot == lookup[v].slot
    IN  /\ lookup[v].stage = "storing"
        /\ cache' = IF IsKept(slot) THEN [cache EXCEPT ![slot] = lookup[v].found] ELSE cache
        /\ IF slot = lookup[v].key THEN Shows(v, lookup[v].found)
           ELSE Does(v, [lookup[v] EXCEPT !.slot = lookup[v].key]) /\ UNCHANGED shown
StoreFound(v) ==
    LET slot == lookup[v].slot
        kept == IF IsKept(slot) /\ cache[slot] # NotCached THEN cache[slot] ELSE lookup[v].found
    IN  /\ lookup[v].stage = "storing"
        /\ cache' = IF IsKept(slot) THEN [cache EXCEPT ![slot] = kept] ELSE cache
        /\ IF slot = lookup[v].key THEN Shows(v, kept)
           ELSE Does(v, [lookup[v] EXCEPT !.slot = lookup[v].key, !.found = kept])
                /\ UNCHANGED shown

\* A file is installed, replaced or removed while the board runs.
Change ==
    /\ changes < plan.changes
    /\ \E file \in plan.files, version \in {0, changes + 2} :
         /\ version # installed[file]
         /\ installed' = [installed EXCEPT ![file] = version]
    /\ changes' = changes + 1
    /\ UNCHANGED <<cache, lookup, shown, failures, plan>>

ScreensNext ==
    \/ \E v \in Viewers : AskScreen(v) \/ Read(v) \/ ReadFails(v) \/ NothingFound(v) \/ StoreFound(v)
    \/ Change

ScreensSpec == ScreensInit /\ [][ScreensNext]_screenvars

----------------------------------------------------------------------------
(* Properties.                                                              *)

\* Of any screen every session sees the same text for as long as the board
\* runs, whoever looked first and whatever the sysop changed in between: the
\* session whose walk ended later shows what the other one has stored
\* (cached_file, or_insert_with).  And the conferences of one level that have no
\* menu of their own share the menu of the level, even when it was replaced
\* between their first lookups (conference_menu falls through to default_menu
\* and its cache).
Own(s) == cache[s].file.dir = s.conf
EveryoneSeesTheSame ==
    \A s \in Slots :
        /\ Cardinality(shown[s]) <= 1
        /\ s.kind = "conference_menu" /\ cache[s] # NotCached /\ ~ Own(s) =>
             cache[s] = cache[DefaultMenu(s.level)]

\* While nobody touches the files and every read succeeds, what is kept is the
\* best file there is: of the menus of a directory the one of the highest
\* level the caller has, then the plain one, lower case first; of the base
\* prompts the conference's own.
Better(file, other) ==
    \/ file.level > other.level
    \/ file.level = other.level /\ <<file.name, other.name>> = <<"menu", "Menu">>
    \/ file.level = other.level /\ file.name = "JoinMsgBase" /\ file.dir > other.dir
Suits(s, f) ==
    CASE s.kind = "fixed" -> f.name = "screen"
      [] s.kind = "joinmsgbase" -> f.name = "JoinMsgBase" /\ f.dir \in {s.conf, SystemDir}
      [] s.kind = "default_menu" -> f.name = "Menu" /\ f.dir = DefaultConference /\ f.level <= s.level
      [] s.kind = "conference_menu" -> f.name \in {"Menu", "menu"} /\ f.dir = s.conf /\ f.level <= s.level
      [] OTHER -> f.name = "help" /\ f.level <= s.level
Suited(s) == {f \in Files : Installed(f) /\ Suits(s, f)}
IsBest(s, screen) ==
    IF Suited(s) = {} THEN screen.file \notin {f \in Files : Suits(s, f)}
    ELSE /\ screen.file \in Suited(s) /\ screen.version = installed[screen.file]
         /\ \A f \in Suited(s) \ {screen.file} : Better(screen.file, f)
BestScreenKept ==
    changes = 0 /\ failures = 0 =>
        /\ \A s \in Slots : cache[s] # NotCached => IsBest(s, cache[s])
        /\ \A v \in Viewers :
             lookup[v].stage = "storing" /\ ~ IsKept(lookup[v].slot) =>
                 IsBest(lookup[v].slot, lookup[v].found)
=============================================================================
