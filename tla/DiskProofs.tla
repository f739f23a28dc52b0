----------------------------- MODULE DiskProofs -----------------------------
(* Proofs about what is read from the disk.  Screens: whatever is looked up,
   stored and changed in whichever order, of any screen every session sees one
   text, menus that fall through share one, and on files left alone the best
   one is kept.  Startup: whatever starts are cut short, shut down or edited in
   between, a board that listens serves what is on disk, comes up again, and
   has made its sysop once.                                                  *)
EXTENDS Startup, Screens, FiniteSetTheorems, SequenceTheorems, TLAPS

----------------------------------------------------------------------------
(* The walks.                                                               *)

Names == [dir : Nat, name : FileNames, level : Nat]
KeySet == [kind : KeyKinds, conf : Nat, level : Nat]

\* What a file that a sysop may have installed is called.
Known(f) ==
    /\ f \in Names
    /\ f.name = "Menu" => f.level % 5 = 0
    /\ f.name = "help" => f.level > 0 /\ f.dir = 0
    /\ f.name = "screen" => f.level = 0 /\ f.dir = 0
    /\ f.name \in {"menu", "JoinMsgBase"} => f.level = 0

LEMMA FilesKnown == \A f \in Files : Known(f)
<1> SUFFICES ASSUME NEW f \in Files PROVE Known(f)
  OBVIOUS
<1>1. PICK p \in Plans : f \in p.files
  BY DEF Files
<1>2. f \in Names
  BY <1>1, PlansAssumption DEF Names
<1>3. (CASE f.name = "Menu" -> f.level % 5 = 0
         [] f.name = "help" -> f.level > 0 /\ f.dir = 0
         [] f.name = "screen" -> f.level = 0 /\ f.dir = 0
         [] OTHER -> f.level = 0)
  BY <1>1, PlansAssumption
<1> QED
  BY <1>2, <1>3 DEF Known, Names, FileNames

LEMMA SlotsTyped == Slots \subseteq KeySet /\ Keys \subseteq Slots
<1>1. Keys \subseteq KeySet
  BY PlansAssumption DEF Keys, KeySet
<1>2. \A key \in Keys : DefaultMenu(key.level) \in KeySet
  BY <1>1 DEF DefaultMenu, KeySet, KeyKinds
<1> QED
  BY <1>1, <1>2 DEF Slots

LEMMA Fives ==
  ASSUME NEW level \in Nat
  PROVE  /\ level \div 5 \in Nat
         /\ 5 * (level \div 5) <= level /\ level < 5 * (level \div 5) + 5
         /\ level % 5 = 0 => level = 5 * (level \div 5)
OBVIOUS

LEMMA FileFields ==
  \A d, name, level : /\ File(d, name, level).dir = d
                      /\ File(d, name, level).name = name
                      /\ File(d, name, level).level = level
BY DEF File

\* A walk tries the files that suit, all of them, the better ones first.
Tries(s, W) ==
    /\ W \in Seq(Names)
    /\ \A i \in 1 .. Len(W) : Suits(s, W[i])
    /\ \A f \in Names : Known(f) /\ Suits(s, f) => \E i \in 1 .. Len(W) : W[i] = f
    /\ \A i, j \in 1 .. Len(W) : i < j /\ W[i] # W[j] => Better(W[i], W[j])

\* The menus of the levels, and those after them.
LEMMA WalkOfLevels ==
  ASSUME NEW n \in Nat, NEW level \in Nat
  PROVE  /\ SecurityWalk(n, level) \in Seq(Names)
         /\ Len(SecurityWalk(n, level)) = level \div 5
         /\ \A i \in 1 .. level \div 5 :
              /\ SecurityWalk(n, level)[i] = File(n, "Menu", 5 * (level \div 5 + 1 - i))
              /\ 5 * (level \div 5 + 1 - i) \in 5 .. level
<1> DEFINE q == level \div 5
<1>1. q \in Nat /\ 5 * q <= level
  BY Fives
<1> HIDE DEF q
<1>2. \A i \in 1 .. q : 5 * (q + 1 - i) \in 5 .. level
  BY <1>1
<1> DEFINE e(i) == File(n, "Menu", 5 * (q + 1 - i))
<1>3. \A i \in 1 .. q : e(i) \in Names
  BY <1>2, <1>1 DEF File, Names, FileNames
<1> HIDE DEF e
<1>4. [i \in 1 .. q |-> e(i)] \in Seq(Names)
  BY <1>3, <1>1, IsASeq
<1>5. Len([i \in 1 .. q |-> e(i)]) = q
  BY <1>1
<1>6. SecurityWalk(n, level) = [i \in 1 .. q |-> e(i)]
  BY DEF SecurityWalk, e, q
<1>7. \A i \in 1 .. q : SecurityWalk(n, level)[i] = e(i)
  BY <1>6
<1>8. SecurityWalk(n, level) \in Seq(Names) /\ Len(SecurityWalk(n, level)) = q
  BY <1>4, <1>5, <1>6
<1> QED
  BY <1>2, <1>7, <1>8 DEF e, q

\* A file of the walk over the levels is the menu of a level the caller has.
LEMMA LevelsTried ==
  ASSUME NEW n \in Nat, NEW level \in Nat, NEW f, Known(f), f.name = "Menu",
         f.dir = n, f.level <= level, f.level # 0
  PROVE  \E i \in 1 .. level \div 5 : SecurityWalk(n, level)[i] = f
<1> DEFINE q == level \div 5   k == f.level \div 5   i == q + 1 - k
<1>1. f \in Names /\ f.level \in Nat
  BY DEF Known, Names
<1>2. f.level = 5 * k /\ k \in Nat
  BY <1>1, Fives DEF Known
<1>3. q \in Nat /\ level < 5 * q + 5
  BY Fives
<1> HIDE DEF q, k
<1>4. i \in 1 .. q /\ q + 1 - i = k
  BY <1>2, <1>3
<1>5. f = File(n, "Menu", 5 * k)
  BY <1>1, <1>2 DEF File, Names
<1>6. SecurityWalk(n, level)[i] = File(n, "Menu", 5 * (q + 1 - i))
  BY <1>4, WalkOfLevels DEF q
<1>7. SecurityWalk(n, level)[i] = f
  BY <1>4, <1>5, <1>6
<1> QED
  BY <1>4, <1>7 DEF q

\* The menus of a level, then those without: the plain one last.
LEMMA DefaultTries ==
  ASSUME NEW s \in KeySet, s.kind = "default_menu"
  PROVE  Tries(s, Walk(s))
<1> DEFINE A == SecurityWalk(DefaultConference, s.level)   q == s.level \div 5
           last == File(DefaultConference, "Menu", 0)
           W == Append(A, last)
<1>1. Walk(s) = W
  BY DEF Walk, ResolveDefaultMenu
<1>2. s.level \in Nat /\ DefaultConference \in Nat /\ q \in Nat
  BY Fives DEF KeySet, DefaultConference
<1>3. A \in Seq(Names) /\ Len(A) = q
  BY <1>2, WalkOfLevels
<1>4. \A i \in 1 .. q : A[i] = File(DefaultConference, "Menu", 5 * (q + 1 - i)) /\ 5 * (q + 1 - i) \in 5 .. s.level
  BY <1>2, WalkOfLevels
<1>5. last \in Names
  BY <1>2 DEF File, Names, FileNames
<1>6. W \in Seq(Names) /\ Len(W) = q + 1 /\ W[q + 1] = last /\ \A i \in 1 .. q : W[i] = A[i]
  <2> HIDE DEF A, last, q
  <2> QED BY <1>3, <1>5, AppendProperties
<1>7. \A f \in Names : Known(f) /\ Suits(s, f) => \E i \in 1 .. q + 1 : W[i] = f
  <2> SUFFICES ASSUME NEW f \in Names, Known(f), Suits(s, f)
               PROVE  \E i \in 1 .. q + 1 : W[i] = f
    OBVIOUS
  <2>1. f.name = "Menu" /\ f.dir = DefaultConference /\ f.level <= s.level
    BY DEF Suits
  <2>2. CASE f.level = 0
    <3>1. f = last
      BY <2>1, <2>2 DEF File, Names
    <3> HIDE DEF W, last, q
    <3> QED BY <3>1, <1>6, <1>2
  <2>3. CASE f.level # 0
    <3>1. PICK i \in 1 .. q : A[i] = f
      BY <2>1, <2>3, <1>2, LevelsTried
    <3> HIDE DEF W, A, q
    <3> QED BY <3>1, <1>6, <1>2
  <2> QED BY <2>2, <2>3
<1> DEFINE L(i) == IF i = q + 1 THEN 0 ELSE 5 * (q + 1 - i)
<1>8. \A i \in 1 .. q + 1 : W[i] = File(DefaultConference, "Menu", L(i)) /\ L(i) \in 0 .. s.level
  <2> SUFFICES ASSUME NEW i \in 1 .. q + 1
               PROVE  W[i] = File(DefaultConference, "Menu", L(i)) /\ L(i) \in 0 .. s.level
    OBVIOUS
  <2>1. CASE i = q + 1
    <3>1. L(i) = 0 /\ 0 \in 0 .. s.level
      BY <2>1, <1>2
    <3> HIDE DEF W, L, q
    <3> QED BY <3>1, <2>1, <1>6
  <2>2. CASE i # q + 1
    <3>1. i \in 1 .. q
      BY <2>2, <1>2
    <3>2. L(i) = 5 * (q + 1 - i)
      BY <2>2
    <3>3. W[i] = A[i]
      BY <3>1, <1>6
    <3>4. 5 .. s.level \subseteq 0 .. s.level
      BY <1>2
    <3> HIDE DEF W, A, L, q
    <3> QED BY <3>1, <3>2, <3>3, <3>4, <1>4
  <2> QED BY <2>1, <2>2
<1>L. \A i, j \in 1 .. q + 1 : i < j => L(i) > L(j)
  <2> HIDE DEF W, A, q
  <2> QED BY <1>2
<1> HIDE DEF W, L, q
<1>9. \A i \in 1 .. q + 1 : Suits(s, W[i])
  <2> SUFFICES ASSUME NEW i \in 1 .. q + 1 PROVE Suits(s, W[i])
    OBVIOUS
  <2>1. /\ W[i].name = "Menu" /\ W[i].dir = DefaultConference
        /\ W[i].level <= s.level
    BY <1>8, <1>2, FileFields
  <2> QED BY <2>1 DEF Suits
<1>10. \A i, j \in 1 .. q + 1 : i < j => Better(W[i], W[j])
  <2> SUFFICES ASSUME NEW i \in 1 .. q + 1, NEW j \in 1 .. q + 1, i < j
               PROVE  Better(W[i], W[j])
    OBVIOUS
  <2>1. W[i].level > W[j].level
    BY <1>8, <1>L, FileFields
  <2> QED BY <2>1 DEF Better
<1> QED
  BY <1>1, <1>6, <1>7, <1>9, <1>10 DEF Tries

LEMMA ConferenceTries ==
  ASSUME NEW s \in KeySet, s.kind = "conference_menu"
  PROVE  Tries(s, Walk(s))
<1> DEFINE n == s.conf
           A == SecurityWalk(n, s.level)   q == s.level \div 5
           lower == File(n, "menu", 0)   upper == File(n, "Menu", 0)
           both == <<lower, upper>>
           W == A \o both
<1>1. Walk(s) = W
  BY DEF Walk, ResolveConferenceMenu
<1>2. s.level \in Nat /\ n \in Nat /\ q \in Nat
  BY Fives DEF KeySet
<1>3. A \in Seq(Names) /\ Len(A) = q
  BY <1>2, WalkOfLevels
<1>4. \A i \in 1 .. q : A[i] = File(n, "Menu", 5 * (q + 1 - i)) /\ 5 * (q + 1 - i) \in 5 .. s.level
  BY <1>2, WalkOfLevels
<1>5. lower \in Names /\ upper \in Names
  BY <1>2 DEF File, Names, FileNames
<1>6. both \in Seq(Names) /\ Len(both) = 2 /\ both[1] = lower /\ both[2] = upper
  <2> HIDE DEF lower, upper
  <2> QED BY <1>5
<1>7. /\ W \in Seq(Names) /\ Len(W) = q + 2
      /\ \A i \in 1 .. q + 2 : W[i] = IF i <= q THEN A[i] ELSE both[i - q]
  <2> HIDE DEF A, both, q
  <2>1. W \in Seq(Names) /\ Len(W) = Len(A) + Len(both)
    BY <1>3, <1>6, ConcatProperties
  <2>2. \A i \in 1 .. Len(A) + Len(both) : W[i] = IF i <= Len(A) THEN A[i] ELSE both[i - Len(A)]
    BY <1>3, <1>6, ConcatProperties
  <2> HIDE DEF W
  <2> QED BY <1>2, <1>3, <1>6, <2>1, <2>2
<1>8. /\ \A i \in 1 .. q : W[i] = A[i]
      /\ W[q + 1] = lower /\ W[q + 2] = upper
  <2> HIDE DEF A, both, q, W, lower, upper
  <2> QED BY <1>7, <1>6, <1>2
<1>9. \A f \in Names : Known(f) /\ Suits(s, f) => \E i \in 1 .. q + 2 : W[i] = f
  <2> SUFFICES ASSUME NEW f \in Names, Known(f), Suits(s, f)
               PROVE  \E i \in 1 .. q + 2 : W[i] = f
    OBVIOUS
  <2>1. f.name \in {"Menu", "menu"} /\ f.dir = n /\ f.level <= s.level
    BY DEF Suits
  <2>2. CASE f.name = "menu"
    <3>1. f = lower
      BY <2>1, <2>2 DEF File, Names, Known
    <3> HIDE DEF W, lower, q
    <3> QED BY <3>1, <1>8, <1>2
  <2>3. CASE f.name = "Menu" /\ f.level = 0
    <3>1. f = upper
      BY <2>1, <2>3 DEF File, Names
    <3> HIDE DEF W, upper, q
    <3> QED BY <3>1, <1>8, <1>2
  <2>4. CASE f.name = "Menu" /\ f.level # 0
    <3>1. PICK i \in 1 .. q : A[i] = f
      BY <2>1, <2>4, <1>2, LevelsTried
    <3> HIDE DEF W, A, q
    <3> QED BY <3>1, <1>8, <1>2
  <2> QED BY <2>1, <2>2, <2>3, <2>4
<1> DEFINE L(i) == IF i > q THEN 0 ELSE 5 * (q + 1 - i)
           N(i) == IF i = q + 1 THEN "menu" ELSE "Menu"
<1>10. \A i \in 1 .. q + 2 : /\ W[i] = File(n, N(i), L(i)) /\ L(i) \in 0 .. s.level
                             /\ \A j \in 1 .. q + 2 : i < j => (L(i) > L(j) \/ (L(i) = L(j) /\ N(i) = "menu" /\ N(j) = "Menu"))
  <2> HIDE DEF W, A, q
  <2>1. \A i \in 1 .. q + 2 : i = q + 2 \/ i = q + 1 \/ i \in 1 .. q
    BY <1>2
  <2>2. \A i \in 1 .. q + 2 : W[i] = File(n, N(i), L(i)) /\ L(i) \in 0 .. s.level
    BY <2>1, <1>8, <1>4, <1>2
  <2>3. \A i, j \in 1 .. q + 2 : i < j => (L(i) > L(j) \/ (L(i) = L(j) /\ N(i) = "menu" /\ N(j) = "Menu"))
    BY <2>1, <1>2
  <2> QED BY <2>2, <2>3
<1> HIDE DEF W, L, N, q
<1>11. \A i \in 1 .. q + 2 : Suits(s, W[i])
  <2> SUFFICES ASSUME NEW i \in 1 .. q + 2 PROVE Suits(s, W[i])
    OBVIOUS
  <2>1. /\ W[i].name \in {"Menu", "menu"} /\ W[i].dir = n
        /\ W[i].level <= s.level
    BY <1>10, <1>2, FileFields DEF N
  <2> QED BY <2>1 DEF Suits
<1>12. \A i, j \in 1 .. q + 2 : i < j => Better(W[i], W[j])
  <2> SUFFICES ASSUME NEW i \in 1 .. q + 2, NEW j \in 1 .. q + 2, i < j
               PROVE  Better(W[i], W[j])
    OBVIOUS
  <2>1. \/ W[i].level > W[j].level
        \/ W[i].level = W[j].level /\ W[i].name = "menu" /\ W[j].name = "Menu"
    BY <1>10, FileFields
  <2> QED BY <2>1 DEF Better
<1> QED
  BY <1>1, <1>7, <1>9, <1>11, <1>12 DEF Tries

LEMMA TopicTries ==
  ASSUME NEW s \in KeySet, s.kind = "topic_help"
  PROVE  Tries(s, Walk(s))
<1> DEFINE n == s.level
           e(i) == File(SystemDir, "help", n + 1 - i)
           W == [i \in 1 .. n |-> e(i)]
<1>1. Walk(s) = W
  BY DEF Walk, TopicWalk
<1>2. n \in Nat
  BY DEF KeySet
<1>3. \A i \in 1 .. n : e(i) \in Names
  BY <1>2 DEF File, Names, FileNames, SystemDir
<1>4. W \in Seq(Names)
  <2> HIDE DEF e, n
  <2> QED BY <1>2, <1>3, IsASeq
<1>5. Len(W) = n /\ \A i \in 1 .. n : W[i] = e(i)
  BY <1>2
<1>6. \A f \in Names : Known(f) /\ Suits(s, f) => \E i \in 1 .. n : W[i] = f
  <2> SUFFICES ASSUME NEW f \in Names, Known(f), Suits(s, f)
               PROVE  \E i \in 1 .. n : W[i] = f
    OBVIOUS
  <2>1. f.name = "help" /\ f.level <= n
    BY DEF Suits
  <2>2. f = File(SystemDir, "help", f.level) /\ f.level \in 1 .. n
    BY <2>1 DEF Known, Names, File, SystemDir
  <2>3. e(n + 1 - f.level) = f /\ n + 1 - f.level \in 1 .. n
    BY <2>2, <1>2
  <2> HIDE DEF W, e, n
  <2> QED BY <2>3, <1>5
<1>7. \A i \in 1 .. n : Suits(s, W[i])
  BY <1>5, <1>2 DEF Suits, File
<1>8. \A i, j \in 1 .. n : i < j => Better(W[i], W[j])
  BY <1>5, <1>2 DEF Better, File
<1> HIDE DEF W
<1> QED
  BY <1>1, <1>4, <1>5, <1>6, <1>7, <1>8 DEF Tries

LEMMA FixedTries ==
  ASSUME NEW s \in KeySet, s.kind = "fixed"
  PROVE  Tries(s, Walk(s))
<1> DEFINE file == File(SystemDir, "screen", 0)   W == <<file>>
<1>1. Walk(s) = W
  BY DEF Walk
<1>2. file \in Names
  BY DEF File, Names, FileNames, SystemDir
<1>3. W \in Seq(Names) /\ Len(W) = 1 /\ W[1] = file
  <2> HIDE DEF file
  <2> QED BY <1>2
<1>4. \A f \in Names : Known(f) /\ Suits(s, f) => f = file
  BY DEF Suits, Known, File, Names, SystemDir
<1>5. Suits(s, file)
  BY DEF Suits, File
<1> HIDE DEF W, file
<1> QED
  BY <1>1, <1>3, <1>4, <1>5 DEF Tries

LEMMA PromptTries ==
  ASSUME NEW s \in KeySet, s.kind = "joinmsgbase"
  PROVE  Tries(s, Walk(s))
<1> DEFINE own == File(s.conf, "JoinMsgBase", 0)   shared == File(SystemDir, "JoinMsgBase", 0)
           W == <<own, shared>>
<1>1. Walk(s) = W
  BY DEF Walk, ResolveJoinMsgBase
<1>2. own \in Names /\ shared \in Names
  BY DEF File, Names, FileNames, SystemDir, KeySet
<1>3. W \in Seq(Names) /\ Len(W) = 2 /\ W[1] = own /\ W[2] = shared
  <2> HIDE DEF own, shared
  <2> QED BY <1>2
<1>4. \A f \in Names : Known(f) /\ Suits(s, f) => f = own \/ f = shared
  BY DEF Suits, Known, File, Names, SystemDir
<1>5. Suits(s, own) /\ Suits(s, shared)
  BY DEF Suits, File
<1>6. own # shared => Better(own, shared)
  BY DEF Better, File, KeySet, SystemDir
<1> HIDE DEF W, own, shared
<1>7. \A i \in 1 .. 2 : i = 1 \/ i = 2
  OBVIOUS
<1> QED
  BY <1>1, <1>3, <1>4, <1>5, <1>6, <1>7 DEF Tries

LEMMA WalksTry == \A s \in Slots : Tries(s, Walk(s))
BY SlotsTyped, DefaultTries, ConferenceTries, TopicTries, FixedTries, PromptTries DEF KeySet, KeyKinds

----------------------------------------------------------------------------
(* The invariant.                                                           *)

ScreenSet == [file : Names \cup {NoFile}, version : Nat]
LookupSet == [stage : {"idle", "reading", "storing"}, key : KeySet, slot : KeySet,
              walk : Seq(Names), found : ScreenSet]

ScreensTypeOK ==
    /\ plan \in Plans /\ changes \in Nat /\ failures \in Nat
    /\ installed \in [Files -> Nat]
    /\ cache \in [Slots -> ScreenSet]
    /\ lookup \in [Viewers -> LookupSet]
    /\ shown \in [Slots -> SUBSET ScreenSet]

\* Nobody has touched the files and every read succeeded.
Quiet == changes = 0 /\ failures = 0

\* What was found for a screen may be kept for it: a menu of a conference comes
\* from its own directory or is the one kept for the level, and while all was
\* quiet it is the best there is.
StillThere(screen) == screen.file # NoFile => screen.file \in Files /\ Installed(screen.file)
Shared(s, screen) ==
    cache[DefaultMenu(s.level)] # NotCached /\ screen = cache[DefaultMenu(s.level)]
MayKeep(s, screen) ==
    /\ screen # NotCached
    /\ s.kind = "conference_menu" => screen.file.dir = s.conf \/ Shared(s, screen)
    /\ Quiet => IsBest(s, screen) /\ StillThere(screen)

\* What is left of a walk, and that nothing was there before it.
Left(s, rest) ==
    /\ Len(rest) <= Len(Walk(s))
    /\ \A i \in 1 .. Len(rest) : rest[i] = Walk(s)[Len(Walk(s)) - Len(rest) + i]
    /\ Quiet => \A i \in 1 .. Len(Walk(s)) - Len(rest) : ~ Installed(Walk(s)[i])

\* A lookup is for the screen asked for, or for the menu of the level of one
\* that has no menu of its own.
Leads(key, slot) ==
    \/ slot = key
    \/ /\ key.kind = "conference_menu" /\ slot = DefaultMenu(key.level)
       /\ Quiet => Suited(key) = {}

LooksRight(l) ==
    /\ l.stage # "idle" => l.key \in Keys /\ Leads(l.key, l.slot)
    /\ l.stage # "storing" => l.found = Fallback
    /\ l.stage = "reading" => Left(l.slot, l.walk)
    /\ l.stage = "storing" => MayKeep(l.slot, l.found)

Kept == \A s \in Slots : cache[s] # NotCached => MayKeep(s, cache[s])
Told == \A s \in Slots : \A x \in shown[s] : x = cache[s] /\ x # NotCached
Looking == \A v \in Viewers : LooksRight(lookup[v])

LookupsOK == ScreensTypeOK /\ Kept /\ Told /\ Looking

----------------------------------------------------------------------------
(* What lookups rest on.                                                    *)

LEMMA NoFileIsNone == NoFile \notin Names /\ \A f \in Files : f \in Names
BY FilesKnown DEF NoFile, File, Names, FileNames, Known

LEMMA SpecialScreens == Fallback \in ScreenSet /\ NotCached \in ScreenSet /\ Fallback # NotCached
BY DEF Fallback, NotCached, Screen, ScreenSet

LEMMA MenusFallThrough ==
  ASSUME NEW s \in Slots, s.kind = "conference_menu"
  PROVE  s \in Keys /\ DefaultMenu(s.level) \in Slots /\ DefaultMenu(s.level).kind = "default_menu"
BY DEF Slots, DefaultMenu

\* Where nothing was found there is nothing that suits.
LEMMA NothingThere ==
  ASSUME NEW s \in Slots, \A i \in 1 .. Len(Walk(s)) : ~ Installed(Walk(s)[i])
  PROVE  Suited(s) = {}
<1> SUFFICES ASSUME NEW f \in Suited(s) PROVE FALSE
  OBVIOUS
<1>1. f \in Files /\ Installed(f) /\ Suits(s, f)
  BY DEF Suited
<1>2. f \in Names /\ Known(f)
  BY <1>1, FilesKnown DEF Known
<1> QED
  BY <1>1, <1>2, WalksTry DEF Tries

\* The first that is there is the best.
LEMMA FirstIsBest ==
  ASSUME NEW s \in Slots, NEW n \in 1 .. Len(Walk(s)), Installed(Walk(s)[n]),
         \A i \in 1 .. n - 1 : ~ Installed(Walk(s)[i])
  PROVE  IsBest(s, Screen(Walk(s)[n], installed[Walk(s)[n]]))
<1> DEFINE W == Walk(s)   file == W[n]
<1>1. Tries(s, W)
  BY WalksTry
<1>2. file \in Suited(s)
  BY <1>1 DEF Suited, Tries, Installed
<1>3. ASSUME NEW f \in Suited(s) \ {file} PROVE Better(file, f)
  <2>1. f \in Names /\ Known(f) /\ Suits(s, f) /\ Installed(f)
    BY FilesKnown DEF Suited, Known
  <2> HIDE DEF W
  <2>2. PICK j \in 1 .. Len(W) : W[j] = f
    BY <2>1, <1>1 DEF Tries
  <2>3. j \notin 1 .. n - 1
    BY <2>1, <2>2 DEF W
  <2>4. Len(W) \in Nat
    BY <1>1 DEF Tries
  <2>5. n \in 1 .. Len(W)
    BY DEF W
  <2>6. n < j /\ W[n] # W[j]
    BY <2>2, <2>3, <2>4, <2>5
  <2> QED
    BY <2>2, <2>5, <2>6, <1>1 DEF Tries
<1> DEFINE screen == Screen(file, installed[file])
<1>4. screen.file = file /\ screen.version = installed[file]
  BY DEF Screen
<1> HIDE DEF screen, file
<1>5. IsBest(s, screen)
  BY <1>2, <1>3, <1>4 DEF IsBest
<1> QED
  BY <1>5 DEF screen, file

\* A screen that is there suits no other screen than those it is found for.
LEMMA NothingSuits ==
  ASSUME NEW s, NEW screen, Suited(s) = {}, StillThere(screen)
  PROVE  IsBest(s, screen)
<1>1. ASSUME screen.file \in Files, Suits(s, screen.file) PROVE FALSE
  <2>1. screen.file # NoFile
    BY <1>1, NoFileIsNone
  <2> QED
    BY <1>1, <2>1 DEF StillThere, Suited
<1> QED
  BY <1>1 DEF IsBest

\* What is kept stays while nobody touches the files.
Settled ==
    /\ \A s \in Slots : cache[s] # NotCached => cache'[s] = cache[s]
    /\ Quiet' => Quiet /\ installed' = installed

LEMMA SuitedStays ==
  ASSUME NEW s, installed' = installed PROVE Suited(s)' = Suited(s)
BY DEF Suited, Installed

LEMMA MayKeepStays ==
  ASSUME NEW s \in Slots, NEW screen, Settled, MayKeep(s, screen) PROVE MayKeep(s, screen)'
<1>1. s.kind = "conference_menu" /\ Shared(s, screen) => Shared(s, screen)'
  BY MenusFallThrough DEF Settled, Shared
<1>2. Quiet' /\ IsBest(s, screen) => IsBest(s, screen)'
  <2> SUFFICES ASSUME Quiet', IsBest(s, screen) PROVE IsBest(s, screen)'
    OBVIOUS
  <2>1. installed' = installed
    BY DEF Settled
  <2>2. Suited(s)' = Suited(s)
    BY <2>1, SuitedStays
  <2> QED
    BY <2>1, <2>2 DEF IsBest
<1>3. Quiet' /\ StillThere(screen) => StillThere(screen)'
  BY DEF Settled, StillThere, Installed
<1> QED
  BY <1>1, <1>2, <1>3 DEF MayKeep, Settled

LEMMA LooksStays ==
  ASSUME NEW l \in LookupSet, Settled, LooksRight(l), l.stage # "idle" => l.slot \in Slots
  PROVE  LooksRight(l)'
<1>1. l.stage # "idle" /\ Leads(l.key, l.slot) => Leads(l.key, l.slot)'
  BY SuitedStays DEF Leads, Settled
<1>2. l.stage = "reading" => Left(l.slot, l.walk)'
  BY DEF Left, Settled, LooksRight, Installed
<1>3. l.stage = "storing" => MayKeep(l.slot, l.found)'
  BY MayKeepStays DEF LooksRight
<1> QED
  BY <1>1, <1>2, <1>3 DEF LooksRight

\* A lookup under way is for a screen that is kept or may be.
LEMMA SlotOfLookup ==
  ASSUME NEW l, LooksRight(l), l.stage # "idle" PROVE l.key \in Slots /\ l.slot \in Slots
BY SlotsTyped, MenusFallThrough DEF LooksRight, Leads

----------------------------------------------------------------------------
(* The steps.                                                               *)

\* Whoever looks into the cache finds what may be kept, or begins to walk.
LEMMA LookingIn ==
  ASSUME NEW v \in Viewers, LookupsOK, lookup[v].stage # "storing",
         NEW key \in Keys, NEW slot \in Slots, Leads(key, slot)
  PROVE  LookInCache(v, key, slot) \in LookupSet /\ LooksRight(LookInCache(v, key, slot))
<1> DEFINE l == lookup[v]
           hit == [l EXCEPT !.stage = "storing", !.key = key, !.slot = slot, !.found = cache[slot]]
           miss == [l EXCEPT !.stage = "reading", !.key = key, !.slot = slot, !.walk = Walk(slot)]
<1>1. l \in LookupSet /\ LooksRight(l) /\ l.found = Fallback
  BY DEF LookupsOK, ScreensTypeOK, Looking, LooksRight
<1>2. key \in KeySet /\ slot \in KeySet /\ cache[slot] \in ScreenSet /\ Walk(slot) \in Seq(Names)
  BY SlotsTyped, WalksTry DEF Tries, LookupsOK, ScreensTypeOK
<1>3. hit \in LookupSet /\ miss \in LookupSet
  <2> HIDE DEF l
  <2> QED BY <1>1, <1>2 DEF LookupSet
<1>4. /\ hit.stage = "storing" /\ hit.key = key /\ hit.slot = slot /\ hit.found = cache[slot]
      /\ miss.stage = "reading" /\ miss.key = key /\ miss.slot = slot /\ miss.walk = Walk(slot)
      /\ miss.found = Fallback
  <2> HIDE DEF l
  <2> QED BY <1>1 DEF LookupSet
<1>5. LookInCache(v, key, slot) = IF IsKept(slot) /\ cache[slot] # NotCached THEN hit ELSE miss
  BY DEF LookInCache
<1> HIDE DEF hit, miss, l
<1>6. cache[slot] # NotCached => LooksRight(hit)
  BY <1>4 DEF LooksRight, LookupsOK, Kept
<1>7. Left(slot, Walk(slot))
  BY <1>2 DEF Left
<1>8. LooksRight(miss)
  BY <1>4, <1>7 DEF LooksRight
<1> QED
  BY <1>3, <1>5, <1>6, <1>8

\* A lookup that changes while the cache and what was shown stay.
LEMMA LookupMoves ==
  ASSUME LookupsOK, NEW v \in Viewers, NEW l \in LookupSet, LooksRight(l),
         l.stage # "idle" => l.slot \in Slots, Looks(v, l)
  PROVE  LookupsOK'
<1>1. /\ lookup' = [lookup EXCEPT ![v] = l]
      /\ UNCHANGED <<installed, changes, failures, plan, cache, shown>>
  BY DEF Looks, Does
<1>2. Settled
  BY <1>1 DEF Settled, Quiet
<1>3. ScreensTypeOK'
  BY <1>1 DEF LookupsOK, ScreensTypeOK
<1>4. Kept'
  BY <1>1, <1>2, MayKeepStays DEF LookupsOK, Kept
<1>5. Told'
  BY <1>1 DEF LookupsOK, Told
<1>6. LooksRight(l)'
  BY <1>2, LooksStays
<1>7. ASSUME NEW w \in Viewers PROVE LooksRight(lookup[w])'
  <2>1. CASE w = v
    <3>1. lookup'[w] = l
      BY <1>1, <2>1 DEF LookupsOK, ScreensTypeOK
    <3> QED BY <3>1, <1>6
  <2>2. CASE w # v
    <3>1. lookup'[w] = lookup[w] /\ lookup[w] \in LookupSet /\ LooksRight(lookup[w])
      BY <1>1, <2>2 DEF LookupsOK, ScreensTypeOK, Looking
    <3>2. \A k \in LookupSet : k = lookup[w] => LooksRight(k)'
      BY <3>1, <1>2, SlotOfLookup, LooksStays
    <3> QED BY <3>1, <3>2
  <2> QED BY <2>1, <2>2
<1> QED
  BY <1>3, <1>4, <1>5, <1>7 DEF LookupsOK, Looking

LEMMA AskScreenKeeps == ASSUME LookupsOK, NEW v \in Viewers, AskScreen(v) PROVE LookupsOK'
<1>1. PICK key \in plan.keys : lookup[v].stage = "idle" /\ Looks(v, LookInCache(v, key, key))
  BY DEF AskScreen
<1>2. key \in Keys /\ key \in Slots
  BY SlotsTyped DEF Keys, LookupsOK, ScreensTypeOK
<1>3. LookInCache(v, key, key) \in LookupSet /\ LooksRight(LookInCache(v, key, key))
  BY <1>1, <1>2, LookingIn DEF Leads
<1> QED
  BY <1>1, <1>3, SlotOfLookup, LookupMoves

\* What a session that reads has before it.
LEMMA Before ==
  ASSUME LookupsOK, NEW v \in Viewers, lookup[v].stage = "reading"
  PROVE  /\ lookup[v].slot \in Slots /\ lookup[v].key \in Keys
         /\ Leads(lookup[v].key, lookup[v].slot)
         /\ lookup[v] \in LookupSet /\ lookup[v].found = Fallback
         /\ Left(lookup[v].slot, lookup[v].walk)
         /\ Tries(lookup[v].slot, Walk(lookup[v].slot))
         /\ lookup[v].walk \in Seq(Names)
BY SlotOfLookup, WalksTry DEF LookupsOK, Looking, LooksRight, ScreensTypeOK, LookupSet

LEMMA TailOfWalk ==
  ASSUME NEW s \in Slots, NEW rest \in Seq(Names), rest # <<>>, Left(s, rest),
         Tries(s, Walk(s))
  PROVE  /\ Len(Walk(s)) \in Nat /\ Len(rest) \in Nat \ {0} /\ Len(rest) <= Len(Walk(s))
         /\ Len(Tail(rest)) = Len(rest) - 1
         /\ \A i \in 1 .. Len(Tail(rest)) :
              Tail(rest)[i] = Walk(s)[Len(Walk(s)) - Len(Tail(rest)) + i]
<1> DEFINE W == Walk(s)
<1>1. Len(W) \in Nat /\ Len(rest) \in Nat \ {0} /\ Len(rest) <= Len(W)
  BY EmptySeq DEF Tries, Left
<1>2. /\ Len(Tail(rest)) = Len(rest) - 1
      /\ \A i \in 1 .. Len(Tail(rest)) : Tail(rest)[i] = rest[i + 1]
  BY HeadTailProperties
<1>3. ASSUME NEW i \in 1 .. Len(Tail(rest))
      PROVE  Tail(rest)[i] = W[Len(W) - Len(Tail(rest)) + i]
  <2>1. i + 1 \in 1 .. Len(rest) /\ Len(W) - Len(Tail(rest)) + i = Len(W) - Len(rest) + (i + 1)
    BY <1>1, <1>2
  <2>2. rest[i + 1] = W[Len(W) - Len(rest) + (i + 1)]
    BY <2>1 DEF Left
  <2> QED BY <2>1, <2>2, <1>2
<1> QED BY <1>1, <1>2, <1>3

\* The rest of a walk, and the file at its head.
LEMMA HeadOfWalk ==
  ASSUME NEW s \in Slots, NEW rest \in Seq(Names), rest # <<>>, Left(s, rest),
         Tries(s, Walk(s))
  PROVE  \E n \in 1 .. Len(Walk(s)) :
           /\ Head(rest) = Walk(s)[n]
           /\ Quiet => \A i \in 1 .. n - 1 : ~ Installed(Walk(s)[i])
           /\ (Quiet => ~ Installed(Head(rest))) => Left(s, Tail(rest))
<1> DEFINE W == Walk(s)   n == Len(W) - Len(rest) + 1
<1>1. Len(W) \in Nat /\ Len(rest) \in Nat \ {0} /\ Len(rest) <= Len(W)
  BY EmptySeq DEF Tries, Left
<1>2. n \in 1 .. Len(W)
  <2> HIDE DEF W
  <2> QED BY <1>1
<1>3. Head(rest) = rest[1]
  BY <1>1
<1>4. Head(rest) = W[n]
  <2>1. rest[1] = W[Len(W) - Len(rest) + 1]
    BY <1>1 DEF Left
  <2> QED BY <1>3, <2>1
<1>5. Quiet => \A i \in 1 .. n - 1 : ~ Installed(W[i])
  <2>1. n - 1 = Len(W) - Len(rest)
    BY <1>1
  <2> QED BY <2>1 DEF Left
<1>6. /\ Len(Tail(rest)) = Len(rest) - 1
      /\ \A i \in 1 .. Len(Tail(rest)) : Tail(rest)[i] = W[Len(W) - Len(Tail(rest)) + i]
  BY TailOfWalk
<1>7. ASSUME Quiet => ~ Installed(Head(rest)) PROVE Left(s, Tail(rest))
  <2>1. Len(Tail(rest)) <= Len(W)
    BY <1>1, <1>6
  <2>3. Len(W) - Len(Tail(rest)) = n
    BY <1>1, <1>6
  <2>4. Quiet => \A i \in 1 .. n : ~ Installed(W[i])
    <3>1. \A i \in 1 .. n : i = n \/ i \in 1 .. n - 1
      <4> HIDE DEF W
      <4> QED BY <1>2, <1>1
    <3> QED BY <3>1, <1>4, <1>5, <1>7
  <2> QED BY <2>1, <1>6, <2>3, <2>4 DEF Left
<1> QED
  BY <1>2, <1>4, <1>5, <1>7

\* The best file there is may be kept.
LEMMA FoundMayBeKept ==
  ASSUME NEW s \in Slots, NEW n \in 1 .. Len(Walk(s)), Tries(s, Walk(s)),
         Installed(Walk(s)[n]), Quiet => \A i \in 1 .. n - 1 : ~ Installed(Walk(s)[i]), ScreensTypeOK
  PROVE  /\ Screen(Walk(s)[n], installed[Walk(s)[n]]) \in ScreenSet
         /\ MayKeep(s, Screen(Walk(s)[n], installed[Walk(s)[n]]))
<1> DEFINE file == Walk(s)[n]   screen == Screen(file, installed[file])
<1>1. screen.file = file /\ screen.version = installed[file]
  BY DEF Screen
<1>2. file \in Files /\ Suits(s, file)
  BY DEF Installed, Tries
<1>3. file \in Names /\ file # NoFile
  BY <1>2, NoFileIsNone
<1>4. screen \in ScreenSet
  BY <1>2, <1>3 DEF Screen, ScreenSet, ScreensTypeOK
<1>5. NotCached.file = NoFile
  BY DEF NotCached, Screen
<1>6. Quiet => IsBest(s, screen)
  BY FirstIsBest
<1>7. StillThere(screen)
  BY <1>1, <1>2 DEF StillThere
<1>8. s.kind = "conference_menu" => file.dir = s.conf
  BY <1>2 DEF Suits
<1> HIDE DEF screen
<1>9. MayKeep(s, screen)
  BY <1>1, <1>3, <1>5, <1>6, <1>7, <1>8 DEF MayKeep
<1> QED
  BY <1>4, <1>9 DEF screen

LEMMA ReadKeeps == ASSUME LookupsOK, NEW v \in Viewers, Read(v) PROVE LookupsOK'
<1> DEFINE l == lookup[v]   file == Head(l.walk)   s == l.slot
           hit == [l EXCEPT !.stage = "storing", !.walk = <<>>, !.found = Screen(file, installed[file])]
           miss == [l EXCEPT !.walk = Tail(@)]
<1>1. l.stage = "reading" /\ l.walk # <<>>
  BY DEF Read
<1>2. /\ s \in Slots /\ l.key \in Keys /\ Leads(l.key, s) /\ l \in LookupSet
      /\ l.found = Fallback /\ Left(s, l.walk) /\ Tries(s, Walk(s)) /\ l.walk \in Seq(Names)
  BY <1>1, Before
<1> HIDE DEF l
<1>3. PICK n \in 1 .. Len(Walk(s)) :
           /\ file = Walk(s)[n]
           /\ Quiet => \A i \in 1 .. n - 1 : ~ Installed(Walk(s)[i])
           /\ (Quiet => ~ Installed(file)) => Left(s, Tail(l.walk))
  BY <1>1, <1>2, HeadOfWalk
<1>4. CASE Installed(file)
  <2>1. Looks(v, hit)
    BY <1>4 DEF Read, l
  <2>2. Screen(file, installed[file]) \in ScreenSet /\ MayKeep(s, Screen(file, installed[file]))
    BY <1>2, <1>3, <1>4, FoundMayBeKept DEF LookupsOK
  <2> DEFINE screen == Screen(file, installed[file])
  <2> HIDE DEF screen
  <2>5. hit = [l EXCEPT !.stage = "storing", !.walk = <<>>, !.found = screen]
    BY DEF screen
  <2>6. screen \in ScreenSet /\ <<>> \in Seq(Names)
    BY <2>2 DEF screen
  <2> HIDE DEF hit
  <2>3. /\ hit \in LookupSet /\ hit.stage = "storing" /\ hit.key = l.key /\ hit.slot = s
        /\ hit.found = screen
    BY <2>5, <2>6, <1>2 DEF LookupSet
  <2>4. LooksRight(hit)
    BY <2>2, <2>3, <1>2 DEF LooksRight, screen
  <2> QED
    BY <2>1, <2>3, <2>4, SlotOfLookup, LookupMoves
<1>5. CASE ~ Installed(file)
  <2>1. Looks(v, miss)
    BY <1>5 DEF Read, l
  <2>2. Tail(l.walk) \in Seq(Names)
    BY <1>1, <1>2, HeadTailProperties
  <2>3. /\ miss \in LookupSet /\ miss.stage = "reading" /\ miss.key = l.key /\ miss.slot = s
        /\ miss.found = Fallback /\ miss.walk = Tail(l.walk)
    BY <2>2, <1>1, <1>2 DEF LookupSet
  <2> HIDE DEF miss
  <2>4. LooksRight(miss)
    BY <2>3, <1>2, <1>3, <1>5 DEF LooksRight
  <2> QED
    BY <2>1, <2>3, <2>4, SlotOfLookup, LookupMoves
<1> QED BY <1>4, <1>5

LEMMA ReadFailsKeeps == ASSUME LookupsOK, NEW v \in Viewers, ReadFails(v) PROVE LookupsOK'
<1>a. PICK l : l = lookup[v]
  OBVIOUS
<1>b. PICK rest : rest = Tail(l.walk)
  OBVIOUS
<1>c. PICK next : next = [l EXCEPT !.walk = rest]
  OBVIOUS
<1>1. /\ l.stage = "reading" /\ l.walk # <<>> /\ failures' = failures + 1
      /\ lookup' = [lookup EXCEPT ![v].walk = Tail(@)]
      /\ UNCHANGED <<installed, cache, shown, changes, plan>>
  BY <1>a DEF ReadFails
<1>2. /\ l.slot \in Slots /\ l.key \in Keys /\ Leads(l.key, l.slot) /\ l \in LookupSet
      /\ l.found = Fallback /\ Left(l.slot, l.walk) /\ Tries(l.slot, Walk(l.slot)) /\ l.walk \in Seq(Names)
  BY <1>a, <1>1, Before
<1>3. lookup' = [lookup EXCEPT ![v] = next]
  BY <1>a, <1>b, <1>c, <1>1
<1>4. ~ Quiet'
  BY <1>1 DEF Quiet, LookupsOK, ScreensTypeOK
<1>5. rest \in Seq(Names)
  BY <1>b, <1>1, <1>2, HeadTailProperties
<1>6. /\ next \in LookupSet /\ next.stage = "reading" /\ next.key = l.key /\ next.slot = l.slot
      /\ next.found = Fallback /\ next.walk = rest
  BY <1>c, <1>5, <1>1, <1>2 DEF LookupSet
<1>7. Len(rest) <= Len(Walk(l.slot))
      /\ \A i \in 1 .. Len(rest) : rest[i] = Walk(l.slot)[Len(Walk(l.slot)) - Len(rest) + i]
  <2>1. /\ Len(Walk(l.slot)) \in Nat /\ Len(l.walk) \in Nat \ {0} /\ Len(l.walk) <= Len(Walk(l.slot))
        /\ Len(rest) = Len(l.walk) - 1
        /\ \A i \in 1 .. Len(rest) :
             rest[i] = Walk(l.slot)[Len(Walk(l.slot)) - Len(rest) + i]
    BY <1>b, <1>1, <1>2, TailOfWalk
  <2>2. ASSUME NEW i \in Nat \ {0}, NEW j \in Nat, NEW k, i <= j, k = i - 1 PROVE k <= j
    BY <2>2
  <2>3. Len(rest) <= Len(Walk(l.slot))
    BY <2>1, <2>2
  <2> QED BY <2>1, <2>3
<1>13. Left(l.slot, rest)'
  BY <1>4, <1>7 DEF Left
<1>14. Leads(l.key, l.slot)'
  BY <1>4, <1>2 DEF Leads
<1>8. LooksRight(next)'
  BY <1>2, <1>6, <1>13, <1>14 DEF LooksRight
<1>9. Settled
  BY <1>1, <1>4 DEF Settled
<1>10. ScreensTypeOK'
  <2>1. lookup' \in [Viewers -> LookupSet]
    BY <1>3, <1>6 DEF LookupsOK, ScreensTypeOK
  <2> QED BY <1>1, <2>1 DEF LookupsOK, ScreensTypeOK
<1>11. Kept' /\ Told'
  BY <1>1, <1>9, MayKeepStays DEF LookupsOK, Kept, Told
<1>12. ASSUME NEW w \in Viewers PROVE LooksRight(lookup[w])'
  <2>1. CASE w = v
    <3>1. lookup'[w] = next
      BY <1>3, <2>1 DEF LookupsOK, ScreensTypeOK
    <3> QED BY <3>1, <1>8
  <2>2. CASE w # v
    <3>1. lookup'[w] = lookup[w] /\ lookup[w] \in LookupSet /\ LooksRight(lookup[w])
      BY <1>3, <2>2 DEF LookupsOK, ScreensTypeOK, Looking
    <3>2. \A k \in LookupSet : k = lookup[w] => LooksRight(k)'
      BY <3>1, <1>9, SlotOfLookup, LooksStays
    <3> QED BY <3>1, <3>2
  <2> QED BY <2>1, <2>2
<1> QED
  BY <1>10, <1>11, <1>12 DEF LookupsOK, Looking

LEMMA NothingFoundKeeps == ASSUME LookupsOK, NEW v \in Viewers, NothingFound(v) PROVE LookupsOK'
<1> DEFINE l == lookup[v]   s == l.slot   level == DefaultMenu(l.key.level)
           next == [l EXCEPT !.stage = "storing"]
<1>1. /\ l.stage = "reading" /\ l.walk = <<>>
      /\ Looks(v, IF s.kind = "conference_menu" THEN LookInCache(v, l.key, level) ELSE next)
  BY DEF NothingFound
<1>2. /\ s \in Slots /\ l.key \in Keys /\ Leads(l.key, s) /\ l \in LookupSet
      /\ l.found = Fallback /\ Left(s, l.walk) /\ Tries(s, Walk(s))
  BY <1>1, Before
<1>3. Quiet => Suited(s) = {}
  <2>1. Len(l.walk) = 0 /\ Len(Walk(s)) \in Nat
    BY <1>1, <1>2 DEF Tries
  <2>2. Quiet => \A i \in 1 .. Len(Walk(s)) : ~ Installed(Walk(s)[i])
    BY <2>1, <1>2 DEF Left
  <2> QED BY <2>2, <1>2, NothingThere
<1>4. CASE s.kind = "conference_menu"
  <2>1. s = l.key
    BY <1>2, <1>4 DEF Leads, DefaultMenu
  <2>2. level \in Slots /\ Leads(l.key, level)
    BY <2>1, <1>2, <1>3, <1>4, MenusFallThrough DEF Leads
  <2>3. LookInCache(v, l.key, level) \in LookupSet /\ LooksRight(LookInCache(v, l.key, level))
    BY <1>1, <1>2, <2>2, LookingIn
  <2>4. Looks(v, LookInCache(v, l.key, level))
    BY <1>1, <1>4
  <2> QED
    BY <2>3, <2>4, SlotOfLookup, LookupMoves
<1>5. CASE s.kind # "conference_menu"
  <2>1. Looks(v, next)
    BY <1>1, <1>5
  <2> HIDE DEF l
  <2>2. /\ next \in LookupSet /\ next.stage = "storing" /\ next.key = l.key /\ next.slot = s
        /\ next.found = Fallback
    BY <1>2 DEF LookupSet
  <2>3. StillThere(Fallback)
    BY DEF StillThere, Fallback, Screen
  <2>4. MayKeep(s, Fallback)
    BY <2>3, <1>3, <1>5, NothingSuits, SpecialScreens DEF MayKeep
  <2> HIDE DEF next
  <2>5. LooksRight(next)
    BY <2>2, <2>4, <1>2 DEF LooksRight
  <2> QED
    BY <2>1, <2>2, <2>5, SlotOfLookup, LookupMoves
<1> QED BY <1>4, <1>5

LEMMA ChangeKeeps == ASSUME LookupsOK, Change PROVE LookupsOK'
<1>1. changes' = changes + 1 /\ UNCHANGED <<cache, lookup, shown, failures, plan>>
  BY DEF Change
<1>2. ~ Quiet'
  BY <1>1 DEF Quiet, LookupsOK, ScreensTypeOK
<1>3. Settled
  BY <1>1, <1>2 DEF Settled
<1>4. installed' \in [Files -> Nat]
  <2>1. PICK file \in plan.files, version \in {0, changes + 2} :
          installed' = [installed EXCEPT ![file] = version]
    BY DEF Change
  <2>2. version \in Nat /\ installed \in [Files -> Nat]
    BY DEF LookupsOK, ScreensTypeOK
  <2> QED BY <2>1, <2>2
<1>5. ScreensTypeOK'
  BY <1>1, <1>4 DEF LookupsOK, ScreensTypeOK
<1>6. Kept' /\ Told'
  BY <1>1, <1>3, MayKeepStays DEF LookupsOK, Kept, Told
<1>7. ASSUME NEW w \in Viewers PROVE LooksRight(lookup[w])'
  <2>1. lookup'[w] = lookup[w] /\ lookup[w] \in LookupSet /\ LooksRight(lookup[w])
    BY <1>1 DEF LookupsOK, ScreensTypeOK, Looking
  <2>2. \A k \in LookupSet : k = lookup[w] => LooksRight(k)'
    BY <2>1, <1>3, SlotOfLookup, LooksStays
  <2> QED BY <2>1, <2>2
<1> QED
  BY <1>5, <1>6, <1>7 DEF LookupsOK, Looking

\* What another session has stored meanwhile stays; what is stored may be kept.
Stores(v, l, kept) ==
    /\ l = lookup[v] /\ l.stage = "storing"
    /\ kept = IF IsKept(l.slot) /\ cache[l.slot] # NotCached THEN cache[l.slot] ELSE l.found
    /\ cache' = IF IsKept(l.slot) THEN [cache EXCEPT ![l.slot] = kept] ELSE cache
    /\ UNCHANGED <<installed, changes, failures, plan>>

LEMMA Storing ==
  ASSUME LookupsOK, NEW v \in Viewers, NEW l, NEW kept, Stores(v, l, kept)
  PROVE  /\ l \in LookupSet /\ l.key \in Keys /\ l.key \in Slots /\ l.slot \in Slots
         /\ Leads(l.key, l.slot)' /\ kept \in ScreenSet
         /\ MayKeep(l.slot, kept)' /\ Settled
         /\ cache' \in [Slots -> ScreenSet] /\ Kept'
         /\ IsKept(l.slot) => cache'[l.slot] = kept
         /\ \A s \in Slots : s # l.slot => cache'[s] = cache[s]
         /\ ~ IsKept(l.slot) => cache' = cache
<1>1. l \in LookupSet /\ LooksRight(l)
  BY DEF LookupsOK, ScreensTypeOK, Looking, Stores
<1>2. l.key \in Keys /\ l.key \in Slots /\ l.slot \in Slots /\ Leads(l.key, l.slot)
  BY <1>1, SlotOfLookup DEF LooksRight, Stores
<1>3. MayKeep(l.slot, l.found)
  BY <1>1 DEF LooksRight, Stores
<1>4. MayKeep(l.slot, kept)
  BY <1>2, <1>3 DEF LookupsOK, Kept, Stores
<1>5. kept \in ScreenSet
  BY <1>1, <1>2 DEF LookupSet, LookupsOK, ScreensTypeOK, Stores
<1>6. cache \in [Slots -> ScreenSet]
  BY DEF LookupsOK, ScreensTypeOK
<1>7. /\ cache' \in [Slots -> ScreenSet]
      /\ IsKept(l.slot) => cache'[l.slot] = kept
      /\ \A s \in Slots : s # l.slot => cache'[s] = cache[s]
      /\ ~ IsKept(l.slot) => cache' = cache
  BY <1>2, <1>5, <1>6 DEF Stores
<1>8. Settled
  <2>1. ASSUME NEW s \in Slots, cache[s] # NotCached PROVE cache'[s] = cache[s]
    BY <2>1, <1>7 DEF Stores
  <2> QED BY <2>1 DEF Settled, Quiet, Stores
<1>9. MayKeep(l.slot, kept)'
  BY <1>2, <1>4, <1>8, MayKeepStays
<1>10. Leads(l.key, l.slot)'
  <2>1. Suited(l.key)' = Suited(l.key)
    BY SuitedStays DEF Stores
  <2> QED BY <1>2, <1>8, <2>1 DEF Leads, Settled
<1>11. Kept'
  <2> SUFFICES ASSUME NEW s \in Slots, cache'[s] # NotCached PROVE MayKeep(s, cache[s])'
    BY DEF Kept
  <2>1. CASE s = l.slot /\ IsKept(s)
    <3>1. cache'[s] = kept
      BY <2>1, <1>7
    <3> QED BY <3>1, <2>1, <1>9
  <2>2. CASE s # l.slot \/ ~ IsKept(s)
    <3>1. cache'[s] = cache[s]
      BY <2>2, <1>7
    <3>2. MayKeep(s, cache[s])
      BY <3>1 DEF LookupsOK, Kept
    <3>3. \A x : x = cache[s] /\ MayKeep(s, x) => MayKeep(s, x)'
      BY <1>8, MayKeepStays
    <3> QED BY <3>1, <3>2, <3>3
  <2> QED BY <2>1, <2>2
<1> QED
  BY <1>1, <1>2, <1>5, <1>7, <1>8, <1>9, <1>10, <1>11

\* Others look on as before.
LEMMA OthersLook ==
  ASSUME LookupsOK, Settled, NEW v \in Viewers, NEW l \in LookupSet,
         lookup' = [lookup EXCEPT ![v] = l], LooksRight(l)'
  PROVE  Looking' /\ lookup' \in [Viewers -> LookupSet]
<1>1. lookup' \in [Viewers -> LookupSet]
  BY DEF LookupsOK, ScreensTypeOK
<1>2. ASSUME NEW w \in Viewers PROVE LooksRight(lookup[w])'
  <2>1. CASE w = v
    <3>1. lookup'[w] = l
      BY <2>1 DEF LookupsOK, ScreensTypeOK
    <3> QED BY <3>1
  <2>2. CASE w # v
    <3>1. lookup'[w] = lookup[w] /\ lookup[w] \in LookupSet /\ LooksRight(lookup[w])
      BY <2>2 DEF LookupsOK, ScreensTypeOK, Looking
    <3>2. \A k \in LookupSet : k = lookup[w] => LooksRight(k)'
      BY <3>1, SlotOfLookup, LooksStays
    <3> QED BY <3>1, <3>2
  <2> QED BY <2>1, <2>2
<1> QED
  BY <1>1, <1>2 DEF Looking

LEMMA StoreFoundKeeps == ASSUME LookupsOK, NEW v \in Viewers, StoreFound(v) PROVE LookupsOK'
<1>a. PICK l : l = lookup[v]
  OBVIOUS
<1>b. PICK kept : kept = IF IsKept(l.slot) /\ cache[l.slot] # NotCached THEN cache[l.slot] ELSE l.found
  OBVIOUS
<1>1. /\ l.stage = "storing"
      /\ cache' = IF IsKept(l.slot) THEN [cache EXCEPT ![l.slot] = kept] ELSE cache
      /\ UNCHANGED <<installed, changes, failures, plan>>
  BY <1>a, <1>b DEF StoreFound, Shows, Does
<1>c. Stores(v, l, kept)
  BY <1>a, <1>b, <1>1 DEF Stores
<1>2. /\ l \in LookupSet /\ l.key \in Keys /\ l.key \in Slots /\ l.slot \in Slots
      /\ Leads(l.key, l.slot)' /\ kept \in ScreenSet
      /\ MayKeep(l.slot, kept)' /\ Settled
      /\ cache' \in [Slots -> ScreenSet] /\ Kept'
      /\ IsKept(l.slot) => cache'[l.slot] = kept
      /\ \A s \in Slots : s # l.slot => cache'[s] = cache[s]
      /\ ~ IsKept(l.slot) => cache' = cache
  BY <1>c, Storing
<1>3. kept # NotCached
  BY <1>2 DEF MayKeep
<1>4. \A s \in Slots : \A x \in shown[s] : x = cache'[s] /\ x # NotCached
  BY <1>2 DEF LookupsOK, Told, Settled
<1>5. CASE l.slot = l.key
  <2>1. /\ lookup' = [lookup EXCEPT ![v] = NoLookup]
        /\ shown' = IF IsKept(l.key) THEN [shown EXCEPT ![l.key] = @ \cup {kept}] ELSE shown
    BY <1>a, <1>b, <1>5 DEF StoreFound, Shows, Does
  <2>2. NoLookup \in LookupSet /\ NoLookup.stage = "idle" /\ NoLookup.found = Fallback
    BY SpecialScreens, EmptySeq DEF NoLookup, LookupSet, Fixed, KeySet, KeyKinds
  <2>3. LooksRight(NoLookup)'
    <3>1. \A k : k.stage = "idle" /\ k.found = Fallback => LooksRight(k)'
      BY DEF LooksRight
    <3> QED BY <3>1, <2>2 DEF LooksRight
  <2>4. Looking' /\ lookup' \in [Viewers -> LookupSet]
    BY <2>1, <2>2, <2>3, <1>2, OthersLook
  <2>5. shown' \in [Slots -> SUBSET ScreenSet]
    BY <2>1, <1>2 DEF LookupsOK, ScreensTypeOK
  <2>6. Told'
    <3> SUFFICES ASSUME NEW s \in Slots, NEW x \in shown'[s] PROVE x = cache'[s] /\ x # NotCached
      BY DEF Told
    <3>1. x \in shown[s] \/ (s = l.key /\ IsKept(s) /\ x = kept)
      BY <2>1, <1>2 DEF LookupsOK, ScreensTypeOK
    <3> QED BY <3>1, <1>2, <1>3, <1>4, <1>5
  <2> QED
    BY <2>4, <2>5, <2>6, <1>1, <1>2 DEF LookupsOK, ScreensTypeOK
<1>6. CASE l.slot # l.key
  <2>a. PICK next : next = [l EXCEPT !.slot = l.key, !.found = kept]
    OBVIOUS
  <2>1. lookup' = [lookup EXCEPT ![v] = next] /\ shown' = shown
    BY <1>a, <1>b, <2>a, <1>6 DEF StoreFound, Does
  <2>2. /\ next \in LookupSet /\ next.stage = "storing" /\ next.key = l.key /\ next.slot = l.key
        /\ next.found = kept
    BY <2>a, <1>1, <1>2, SlotsTyped DEF LookupSet
  <2>3. /\ l.key.kind = "conference_menu" /\ l.slot = DefaultMenu(l.key.level)
        /\ Quiet' => Suited(l.key)' = {}
    BY <1>2, <1>6 DEF Leads
  <2>4. IsKept(l.slot)
    BY <2>3 DEF IsKept, DefaultMenu
  <2>5. Shared(l.key, kept)'
    BY <2>3, <2>4, <1>2, <1>3 DEF Shared
  <2>6. Quiet' => StillThere(kept)' /\ IsBest(l.key, kept)'
    <3>1. Quiet' => StillThere(kept)'
      BY <1>2 DEF MayKeep
    <3>2. Suited(l.key)' = Suited(l.key) /\ (StillThere(kept)' <=> StillThere(kept))
      BY <1>1, SuitedStays DEF StillThere, Installed
    <3>3. Quiet' => IsBest(l.key, kept)
      BY <3>1, <3>2, <2>3, NothingSuits
    <3>4. IsBest(l.key, kept) => IsBest(l.key, kept)'
      BY <3>2, <1>1 DEF IsBest
    <3> QED BY <3>1, <3>3, <3>4
  <2>7. MayKeep(l.key, kept)'
    BY <2>3, <2>5, <2>6, <1>3 DEF MayKeep
  <2>8. LooksRight(next)'
    BY <2>2, <2>7, <1>2 DEF LooksRight, Leads
  <2>9. Looking' /\ lookup' \in [Viewers -> LookupSet]
    BY <2>1, <2>2, <2>8, <1>2, OthersLook
  <2>10. Told'
    BY <2>1, <1>4 DEF Told
  <2> QED
    BY <2>1, <2>9, <2>10, <1>1, <1>2 DEF LookupsOK, ScreensTypeOK
<1> QED BY <1>5, <1>6

----------------------------------------------------------------------------
(* The theorems.                                                            *)

LEMMA InitiallyConsistent == ScreensInit => LookupsOK
<1> SUFFICES ASSUME ScreensInit PROVE LookupsOK
  OBVIOUS
<1>1. NoLookup \in LookupSet /\ NoLookup.stage = "idle" /\ NoLookup.found = Fallback
  BY SpecialScreens, EmptySeq DEF NoLookup, LookupSet, Fixed, KeySet, KeyKinds
<1>2. installed \in [Files -> Nat]
  <2>1. PICK there \in SUBSET plan.files : installed = [f \in Files |-> IF f \in there THEN 1 ELSE 0]
    BY DEF ScreensInit
  <2> QED BY <2>1
<1>3. ScreensTypeOK
  BY <1>1, <1>2, SpecialScreens DEF ScreensTypeOK, ScreensInit
<1>4. Kept /\ Told
  BY DEF Kept, Told, ScreensInit
<1>5. Looking
  BY <1>1 DEF Looking, LooksRight, ScreensInit
<1> QED
  BY <1>3, <1>4, <1>5 DEF LookupsOK

LEMMA StepsKeepConsistent == LookupsOK /\ [ScreensNext]_screenvars => LookupsOK'
<1> SUFFICES ASSUME LookupsOK, [ScreensNext]_screenvars PROVE LookupsOK'
  OBVIOUS
<1>1. CASE UNCHANGED screenvars
  <2>1. UNCHANGED <<installed, cache, lookup, shown, changes, failures, plan>>
    BY <1>1 DEF screenvars
  <2>2. Settled
    BY <2>1 DEF Settled, Quiet
  <2>3. Kept' /\ Told'
    BY <2>1, <2>2, MayKeepStays DEF LookupsOK, Kept, Told
  <2>4. ASSUME NEW w \in Viewers PROVE LooksRight(lookup[w])'
    <3>1. lookup'[w] = lookup[w] /\ lookup[w] \in LookupSet /\ LooksRight(lookup[w])
      BY <2>1 DEF LookupsOK, ScreensTypeOK, Looking
    <3>2. \A k \in LookupSet : k = lookup[w] => LooksRight(k)'
      BY <3>1, <2>2, SlotOfLookup, LooksStays
    <3> QED BY <3>1, <3>2
  <2>5. ScreensTypeOK'
    BY <2>1 DEF LookupsOK, ScreensTypeOK
  <2> QED
    BY <2>3, <2>4, <2>5 DEF LookupsOK, Looking
<1>2. CASE Change
  BY <1>2, ChangeKeeps
<1>3. ASSUME NEW v \in Viewers,
             AskScreen(v) \/ Read(v) \/ ReadFails(v) \/ NothingFound(v) \/ StoreFound(v)
      PROVE  LookupsOK'
  BY <1>3, AskScreenKeeps, ReadKeeps, ReadFailsKeeps, NothingFoundKeeps, StoreFoundKeeps
<1> QED
  BY <1>1, <1>2, <1>3 DEF ScreensNext

\* What is kept and what every session has found, at every point between its
\* steps, may be shown: for any sessions, screens and files, whatever is changed
\* and whichever reads fail.
THEOREM LookupsAreConsistent == ScreensSpec => []LookupsOK
BY InitiallyConsistent, StepsKeepConsistent, PTL DEF ScreensSpec

\* Of any screen every session sees the same text for as long as the board
\* runs, and menus that fall through share the one of the level (cached_file).
THEOREM OneTextForAll == ScreensSpec => []EveryoneSeesTheSame
<1>1. LookupsOK => EveryoneSeesTheSame
  <2> SUFFICES ASSUME LookupsOK, NEW s \in Slots
               PROVE  /\ Cardinality(shown[s]) <= 1
                      /\ s.kind = "conference_menu" /\ cache[s] # NotCached /\ ~ Own(s) =>
                           cache[s] = cache[DefaultMenu(s.level)]
    BY DEF EveryoneSeesTheSame
  <2>1. shown[s] = {} \/ shown[s] = {cache[s]}
    BY DEF LookupsOK, Told
  <2>2. Cardinality(shown[s]) <= 1
    <3>1. Cardinality({}) = 0 /\ Cardinality({cache[s]}) = 1
      BY FS_EmptySet, FS_Singleton
    <3>2. CASE shown[s] = {}
      BY <3>1, <3>2
    <3>3. CASE shown[s] = {cache[s]}
      BY <3>1, <3>3
    <3> QED BY <2>1, <3>2, <3>3
  <2>3. s.kind = "conference_menu" /\ cache[s] # NotCached /\ ~ Own(s) =>
           cache[s] = cache[DefaultMenu(s.level)]
    BY DEF LookupsOK, Kept, MayKeep, Shared, Own
  <2> QED BY <2>2, <2>3
<1> QED
  BY <1>1, LookupsAreConsistent, PTL

\* On files left alone what is kept is the best there is, of any files and for
\* any level (resolve_default_menu, resolve_conference_menu, topic_help_bytes).
THEOREM BestIsKept == ScreensSpec => []BestScreenKept
<1>1. LookupsOK => BestScreenKept
  BY DEF LookupsOK, Kept, Looking, LooksRight, MayKeep, Quiet, BestScreenKept
<1> QED
  BY <1>1, LookupsAreConsistent, PTL

----------------------------------------------------------------------------
(* Starts of the board: the invariant.                                      *)

ConferenceSet == [number : Nat, msgbases : Seq(Nat)]
UsersSet == [is : {"users"}, granted : SUBSET Nat, password : {"sysop", "his own"}]
StoreOf(coord) == [base |-> coord, at |-> MailDir(coord[1], coord[2])]
Stages == {"down", "failed", "load conferences", "open users", "seed", "open mail",
           "open mail stores", "listening"}
Boards == [stage : Stages, failure : {"none", "fault", "conference", "duplicate"},
           conferences : Seq(ConferenceSet), users : {NoUsers} \cup UsersSet,
           conf : Nat, base : Nat, mail_stores : SUBSET {StoreOf(coord) : coord \in Nat \X Nat}]

StartTypeOK ==
    /\ site \in Sites
    /\ dirs \in [DOMAIN site.dirs -> Contents]
    /\ database \in {NoDatabase, NoUsers} \cup UsersSet
    /\ board \in Boards
    /\ edits \in Nat /\ faults \in Nat /\ edited \in BOOLEAN

Unloaded == board.stage \in {"down", "failed", "load conferences"}

\* The conferences, and the stores opened for them so far.
HasStore(n, b) == MailDir(n, b) \in mailbases /\ StoreOf(<<n, b>>) \in board.mail_stores
Ascending(conferences) ==
    \A i, k \in 1 .. Len(conferences) : i < k => conferences[i].number < conferences[k].number
Serving ==
    /\ Unloaded => board.conferences = <<>> /\ board.conf = 1 /\ board.base = 1
    /\ Ascending(board.conferences)
    /\ \A i \in 1 .. Len(board.conferences) : board.conferences[i].msgbases # <<>>
    /\ board.conf \in 1 .. Len(board.conferences) + 1 /\ board.base >= 1
    /\ ~ AllOpened => board.base <= Len(board.conferences[board.conf].msgbases)
    /\ \A i \in 1 .. Len(board.conferences) :
         \A k \in 1 .. Len(board.conferences[i].msgbases) :
           i < board.conf \/ (i = board.conf /\ k < board.base) =>
             HasStore(board.conferences[i].number, board.conferences[i].msgbases[k])
    /\ IsAt("listening") => AllOpened

\* The accounts, and what the sysop was granted when they were made.
Here == {d.number : d \in There}
GrantsAll(users) == users.is = "users" => users.granted = Here
Seeding ==
    /\ IsAt("seed") => site.durable /\ database # NoDatabase
    /\ board.stage \in {"open mail", "open mail stores", "listening"} => Live.is = "users"
    /\ edits = 0 => /\ GrantsAll(database) /\ GrantsAll(board.users)
                    /\ ~ Unloaded => Numbers(board.conferences) = Here

\* What was loaded can be loaded again, unless it was doubled.
MayLoad ==
    /\ \A d \in There : ~ IsConference(d) => d.padded /\ Dir(d.number, FALSE) \in There
    /\ \A d \in There : ~ d.padded /\ Dir(d.number, TRUE) \in There => MadeBeside(d)
    /\ \A i \in 1 .. Len(board.conferences) :
         \E d \in There : d.number = board.conferences[i].number
Loading ==
    /\ board.failure \in {"conference", "duplicate"} => edited \/ Doubled
    /\ ~ IsAt("failed") => board.failure = "none"
    /\ ~ edited => MayLoad

StartInv == StartTypeOK /\ Serving /\ Seeding /\ Loading

----------------------------------------------------------------------------
(* The listings.                                                            *)

LEMMA DirsTyped ==
  ASSUME StartTypeOK
  PROVE  /\ There \subseteq DOMAIN dirs /\ IsFiniteSet(There)
         /\ DOMAIN dirs = DOMAIN site.dirs
         /\ \A d \in DOMAIN dirs : /\ d = Dir(d.number, d.padded) /\ d.number \in Nat /\ d.padded \in BOOLEAN
                                   /\ dirs[d] \in Contents /\ Dir(d.number, TRUE) \in DOMAIN dirs
<1>1. IsFiniteSet(DOMAIN site.dirs) /\ DOMAIN site.dirs \subseteq [number : Nat, padded : BOOLEAN]
      /\ \A d \in DOMAIN site.dirs : Dir(d.number, TRUE) \in DOMAIN site.dirs
  BY SitesAssumption DEF StartTypeOK
<1>2. DOMAIN dirs = DOMAIN site.dirs /\ \A d \in DOMAIN dirs : dirs[d] \in Contents
  BY DEF StartTypeOK
<1>3. There \in SUBSET DOMAIN dirs
  BY DEF There
<1>4. IsFiniteSet(There)
  BY <1>1, <1>2, <1>3, FS_Subset
<1>5. \A d \in [number : Nat, padded : BOOLEAN] : d = Dir(d.number, d.padded) /\ d.number \in Nat /\ d.padded \in BOOLEAN
  BY DEF Dir
<1> QED
  BY <1>1, <1>2, <1>3, <1>4, <1>5

\* A listing has every directory, once.
LEMMA ListingIsAll ==
  ASSUME StartTypeOK, NEW listing \in Listings
  PROVE  \E n \in Nat : /\ listing \in [1 .. n -> There]
                        /\ \A i, k \in 1 .. n : i # k => listing[i] # listing[k]
                        /\ \A d \in There : \E i \in 1 .. n : listing[i] = d
                        /\ \A i, k \in 1 .. n : i < k => listing[i].number <= listing[k].number
<1> DEFINE n == Cardinality(There)
<1>1. IsFiniteSet(There) /\ n \in Nat
  BY DirsTyped, FS_CardinalityType
<1>2. /\ listing \in [1 .. n -> There]
      /\ \A i, k \in 1 .. n : i # k => listing[i] # listing[k]
  BY DEF Listings, SetToSeqs
<1>3. \A i, k \in 1 .. n : i < k => listing[i].number <= listing[k].number
  BY <1>2 DEF Listings
<1>4. listing \in Injection(1 .. n, There)
  BY <1>2 DEF Injection, IsInjective
<1>5. IsFiniteSet(1 .. n) /\ Cardinality(1 .. n) = n
  BY <1>1, FS_Interval
<1>6. listing \in Surjection(1 .. n, There)
  BY <1>1, <1>4, <1>5, FS_Injection
<1>7. \A d \in There : \E i \in 1 .. n : listing[i] = d
  BY <1>6 DEF Surjection
<1> QED
  BY <1>1, <1>2, <1>3, <1>7

\* What is loaded without an error.
LEMMA LoadedWell ==
  ASSUME StartTypeOK, NEW listing \in Listings, Bad(listing) = {}
  PROVE  /\ LoadAll(listing) \in Seq(ConferenceSet)
         /\ Ascending(LoadAll(listing))
         /\ \A i \in 1 .. Len(LoadAll(listing)) : LoadAll(listing)[i].msgbases # <<>>
         /\ Numbers(LoadAll(listing)) = Here
         /\ \A d \in There : IsConference(d)
         /\ \A d, e \in There : d.number = e.number => d = e
         /\ \A i \in 1 .. Len(LoadAll(listing)) : \E d \in There : d.number = LoadAll(listing)[i].number
<1>1. PICK n \in Nat : /\ listing \in [1 .. n -> There]
                       /\ \A i, k \in 1 .. n : i # k => listing[i] # listing[k]
                       /\ \A d \in There : \E i \in 1 .. n : listing[i] = d
                       /\ \A i, k \in 1 .. n : i < k => listing[i].number <= listing[k].number
  BY ListingIsAll
<1>2. \A i \in 1 .. n : IsConference(listing[i]) /\ ~ Seen(listing, i)
  BY <1>1 DEF Bad
<1>3. \A i, k \in 1 .. n : k < i => listing[k].number # listing[i].number
  BY <1>2 DEF Seen
<1>4. \A i \in 1 .. n : /\ listing[i].number \in Nat /\ listing[i] \in There
                        /\ dirs[listing[i]].msgbases \in Seq(Nat) /\ dirs[listing[i]].msgbases # <<>>
  <2> SUFFICES ASSUME NEW i \in 1 .. n
               PROVE  /\ listing[i].number \in Nat /\ listing[i] \in There
                      /\ dirs[listing[i]].msgbases \in Seq(Nat) /\ dirs[listing[i]].msgbases # <<>>
    OBVIOUS
  <2>1. listing[i] \in There
    BY <1>1
  <2>2. listing[i] \in DOMAIN dirs /\ dirs[listing[i]] \in Contents /\ listing[i].number \in Nat
    BY <2>1, DirsTyped
  <2>3. dirs[listing[i]].is = "conference" /\ dirs[listing[i]].msgbases # <<>>
    BY <1>2 DEF IsConference
  <2>4. dirs[listing[i]].msgbases \in Seq(Nat)
    BY <2>2, <2>3 DEF Contents, Absent, NoToml
  <2> QED BY <2>1, <2>2, <2>3, <2>4
<1> DEFINE L == LoadAll(listing)
           c(i) == [number |-> listing[i].number, msgbases |-> dirs[listing[i]].msgbases]
<1>5. L = [i \in 1 .. n |-> c(i)]
  BY <1>1 DEF LoadAll
<1>6. \A i \in 1 .. n : c(i) \in ConferenceSet /\ c(i).number = listing[i].number
                        /\ c(i).msgbases = dirs[listing[i]].msgbases
  BY <1>4 DEF ConferenceSet
<1> HIDE DEF L, c
<1>7. L \in Seq(ConferenceSet) /\ Len(L) = n /\ \A i \in 1 .. n : L[i] = c(i)
  BY <1>5, <1>6, IsASeq
<1>8. \A i \in 1 .. n : L[i].number = listing[i].number /\ L[i].msgbases # <<>>
  BY <1>4, <1>6, <1>7
<1>9. Ascending(L)
  <2> SUFFICES ASSUME NEW i \in 1 .. n, NEW k \in 1 .. n, i < k PROVE L[i].number < L[k].number
    BY <1>7 DEF Ascending
  <2>1. listing[i].number <= listing[k].number /\ listing[i].number # listing[k].number
    BY <1>1, <1>3
  <2> QED BY <2>1, <1>4, <1>8
<1>10. Numbers(L) = Here
  <2>1. Numbers(L) = {L[i].number : i \in 1 .. n}
    BY <1>7 DEF Numbers, Range
  <2>2. {L[i].number : i \in 1 .. n} = {listing[i].number : i \in 1 .. n}
    BY <1>8
  <2>3. {listing[i].number : i \in 1 .. n} = Here
    BY <1>1, <1>4 DEF Here
  <2> QED BY <2>1, <2>2, <2>3
<1>11. \A d \in There : IsConference(d)
  BY <1>1, <1>2
<1>12. ASSUME NEW d \in There, NEW e \in There, d.number = e.number PROVE d = e
  <2>1. PICK i \in 1 .. n : listing[i] = d
    BY <1>1
  <2>2. PICK k \in 1 .. n : listing[k] = e
    BY <1>1
  <2>3. ~ (i < k) /\ ~ (k < i)
    BY <2>1, <2>2, <1>3, <1>12
  <2> QED BY <2>1, <2>2, <2>3
<1> QED
  BY <1>4, <1>7, <1>8, <1>9, <1>10, <1>11, <1>12 DEF L

\* Conferences that are all right, each in one directory, are loaded.
LEMMA LoadsSingle ==
  ASSUME StartTypeOK, \A d \in There : IsConference(d),
         \A d, e \in There : d.number = e.number => d = e, NEW listing \in Listings
  PROVE  Bad(listing) = {}
<1>1. PICK n \in Nat : /\ listing \in [1 .. n -> There]
                       /\ \A i, k \in 1 .. n : i # k => listing[i] # listing[k]
  BY ListingIsAll
<1>2. ASSUME NEW i \in 1 .. n PROVE IsConference(listing[i]) /\ ~ Seen(listing, i)
  <2>1. listing[i] \in There
    BY <1>1
  <2>2. ASSUME NEW k \in 1 .. i - 1, listing[k].number = listing[i].number PROVE FALSE
    <3>1. k \in 1 .. n /\ k # i /\ listing[k] \in There
      BY <1>1
    <3>2. listing[k] = listing[i]
      BY <2>1, <2>2, <3>1
    <3> QED BY <1>1, <3>1, <3>2
  <2> QED BY <2>1, <2>2 DEF Seen
<1> QED
  BY <1>1, <1>2 DEF Bad

\* A board that was loaded once fails to load only when it was doubled.
LEMMA LoadsUndoubled ==
  ASSUME StartTypeOK, MayLoad, ~ Doubled, NEW listing \in Listings
  PROVE  Bad(listing) = {}
<1>1. \A d \in There : /\ d = Dir(d.number, d.padded) /\ d.padded \in BOOLEAN
                        /\ Dir(d.number, FALSE).padded = FALSE
                        /\ Dir(d.number, FALSE).number = d.number
  BY DirsTyped DEF Dir
<1>2. ASSUME NEW d \in There, ~ d.padded PROVE IsConference(d) /\ Dir(d.number, TRUE) \notin There
  BY <1>2 DEF MayLoad, Doubled
<1>3. ASSUME NEW d \in There PROVE IsConference(d)
  <2> SUFFICES ASSUME ~ IsConference(d) PROVE FALSE
    OBVIOUS
  <2>1. d.padded /\ Dir(d.number, FALSE) \in There
    BY DEF MayLoad
  <2>2. d = Dir(d.number, TRUE)
    BY <1>1, <2>1
  <2>3. Dir(Dir(d.number, FALSE).number, TRUE) \notin There
    BY <1>1, <1>2, <2>1
  <2> QED BY <1>1, <2>2, <2>3
<1>4. ASSUME NEW d \in There, NEW e \in There, d.number = e.number PROVE d = e
  <2> SUFFICES ASSUME d # e PROVE FALSE
    OBVIOUS
  <2>1. d.padded # e.padded
    BY <1>1, <1>4
  <2>2. CASE d.padded
    <3>1. ~ e.padded /\ d = Dir(e.number, TRUE)
      BY <1>1, <1>4, <2>1, <2>2
    <3> QED BY <1>2, <3>1
  <2>3. CASE ~ d.padded
    <3>1. e = Dir(d.number, TRUE)
      BY <1>1, <1>4, <2>1, <2>3
    <3> QED BY <1>2, <2>3, <3>1
  <2> QED BY <2>2, <2>3
<1> QED
  BY <1>3, <1>4, LoadsSingle

----------------------------------------------------------------------------
(* The steps.                                                               *)

LEMMA DownTyped ==
  /\ Down \in Boards /\ Down.stage = "down" /\ Down.failure = "none" /\ Down.conferences = <<>>
  /\ Down.users = NoUsers /\ Down.conf = 1 /\ Down.base = 1 /\ Down.mail_stores = {}
<1>1. <<>> \in Seq(ConferenceSet)
  BY EmptySeq
<1> QED
  BY <1>1 DEF Down, Boards, Stages

\* A board that begins anew, or is no more.
Blank(b) ==
    /\ b \in Boards /\ b.stage \in {"down", "failed", "load conferences"}
    /\ b.conferences = <<>> /\ b.users = NoUsers /\ b.conf = 1 /\ b.base = 1
    /\ b.stage # "failed" => b.failure = "none"

LEMMA BlankBoards ==
  /\ Blank(Down) /\ Down.failure = "none"
  /\ Blank([Down EXCEPT !.stage = "load conferences"])
  /\ [Down EXCEPT !.stage = "load conferences"].failure = "none"
  /\ \A why \in {"fault", "conference", "duplicate"} : Blank(Failed(why)) /\ Failed(why).failure = why
BY DownTyped DEF Blank, Failed, Boards, Stages

LEMMA SameDisk ==
  ASSUME UNCHANGED <<dirs, mailbases>>
  PROVE  /\ There' = There /\ (Doubled' <=> Doubled)
         /\ \A d : (IsConference(d)' <=> IsConference(d)) /\ (MadeBeside(d)' <=> MadeBeside(d))
<1>1. There' = There
  BY DEF There
<1>2. \A d : (IsConference(d)' <=> IsConference(d)) /\ (MadeBeside(d)' <=> MadeBeside(d))
  BY DEF IsConference, MadeBeside
<1> QED
  BY <1>1, <1>2 DEF Doubled

LEMMA BeginsAnew ==
  ASSUME StartInv, Blank(board'), UNCHANGED <<dirs, mailbases, database, edits, site, edited>>,
         faults' \in Nat, board'.failure \in {"none", "fault"} \/ edited \/ Doubled
  PROVE  StartInv'
<1>1. StartTypeOK'
  BY DEF StartInv, StartTypeOK, Blank
<1>2. Serving'
  <2>1. board'.stage \in {"down", "failed", "load conferences"}
    BY DEF Blank
  <2>2. board'.conferences = <<>> /\ board'.conf = 1 /\ board'.base = 1
    BY DEF Blank
  <2>3. Len(board'.conferences) = 0 /\ 1 .. Len(board'.conferences) = {}
    BY <2>2
  <2>4. AllOpened'
    BY <2>2, <2>3 DEF AllOpened
  <2>5. board'.conf \in 1 .. Len(board'.conferences) + 1 /\ board'.base >= 1
    BY <2>2, <2>3
  <2>6. IsAt("listening")' => AllOpened'
    BY <2>4
  <2>7. Unloaded' => board'.conferences = <<>> /\ board'.conf = 1 /\ board'.base = 1
    BY <2>2
  <2> QED BY <2>3, <2>4, <2>5, <2>6, <2>7 DEF Serving, Ascending
<1>3. Seeding'
  <2>1. There' = There /\ Here' = Here
    BY DEF There, Here
  <2>2. /\ board'.stage \in {"down", "failed", "load conferences"}
        /\ board'.users = NoUsers
    BY DEF Blank
  <2>3. edits' = 0 => GrantsAll(database)' /\ GrantsAll(board.users)'
    <3>3. NoUsers.is = "empty" /\ board'.users = NoUsers
      BY <2>2 DEF NoUsers
    <3>1. board'.users.is = "empty"
      BY <3>3
    <3>2. edits' = 0 => GrantsAll(database)'
      BY <2>1 DEF StartInv, Seeding, GrantsAll
    <3> QED BY <3>1, <3>2 DEF GrantsAll
  <2> QED BY <2>2, <2>3 DEF Seeding, IsAt, Unloaded
<1>4. Loading'
  <2>1. board'.conferences = <<>> /\ (board'.stage # "failed" => board'.failure = "none")
    BY DEF Blank
  <2>2. board'.failure \in {"conference", "duplicate"} => edited' \/ Doubled'
    BY SameDisk
  <2>3. ~ edited' => MayLoad'
    <3>1. 1 .. Len(board'.conferences) = {}
      BY <2>1
    <3> QED BY <3>1, SameDisk DEF StartInv, Loading, MayLoad
  <2> QED BY <2>1, <2>2, <2>3 DEF Loading, IsAt
<1> QED
  BY <1>1, <1>2, <1>3, <1>4 DEF StartInv

LEMMA StartKeeps == ASSUME StartInv, Start PROVE StartInv'
BY BlankBoards, BeginsAnew DEF Start, Proceeds, Goes, StartInv, StartTypeOK

LEMMA ShutDownKeeps == ASSUME StartInv, ShutDown PROVE StartInv'
BY BlankBoards, BeginsAnew DEF ShutDown, Proceeds, Goes, StartInv, StartTypeOK

LEMMA StopsKeeps ==
  ASSUME StartInv, NEW next, Blank(next), next.failure \in {"none", "fault"}, Stops(next)
  PROVE  StartInv'
BY BeginsAnew DEF Stops, Goes, StartInv, StartTypeOK

LEMMA LoadingLeavesUsers ==
  /\ LoadConferences => database' = database
  /\ OpenMailStore => database' = database
<1>1. ASSUME LoadConferences PROVE database' = database
  <2>1. IsAt("load conferences") /\ UNCHANGED <<dirs, mailbases, database>>
    BY <1>1, ZenonT(40) DEF LoadConferences
  <2> QED BY <2>1
<1>2. ASSUME OpenMailStore PROVE database' = database
  BY <1>2 DEF OpenMailStore
<1> QED
  BY <1>1, <1>2

LEMMA LoadConferencesKeeps == ASSUME StartInv, LoadConferences PROVE StartInv'
<1>1. PICK listing \in Listings :
         IF Bad(listing) # {} THEN Proceeds(Failed(Failure(listing)))
         ELSE /\ Goes([board EXCEPT !.stage = "open users", !.conferences = LoadAll(listing)])
              /\ edited' = FALSE /\ UNCHANGED faults
  BY DEF LoadConferences
<1>2. IsAt("load conferences") /\ UNCHANGED <<dirs, mailbases, database>>
  BY DEF LoadConferences
<1>3. CASE Bad(listing) # {}
  <2>1. Failure(listing) \in {"conference", "duplicate"}
    BY DEF Failure
  <2>2. edited \/ Doubled
    BY <1>3, LoadsUndoubled DEF StartInv, Loading
  <2>3. Blank(Failed(Failure(listing)))
    BY <2>1, BlankBoards
  <2>4. board' = Failed(Failure(listing)) /\ UNCHANGED <<edits, site, edited, faults>>
    BY <1>1, <1>3 DEF Proceeds, Goes
  <2> QED
    BY <1>2, <2>2, <2>3, <2>4, BeginsAnew DEF StartInv, StartTypeOK
<1>4. CASE Bad(listing) = {}
  <2> DEFINE L == LoadAll(listing)
  <2>1. /\ L \in Seq(ConferenceSet) /\ Ascending(L)
        /\ \A i \in 1 .. Len(L) : L[i].msgbases # <<>>
        /\ Numbers(L) = Here
        /\ \A d \in There : IsConference(d)
        /\ \A d, e \in There : d.number = e.number => d = e
        /\ \A i \in 1 .. Len(L) : \E d \in There : d.number = L[i].number
    BY <1>4, LoadedWell DEF StartInv
  <2>2. /\ board' = [board EXCEPT !.stage = "open users", !.conferences = L]
        /\ edited' = FALSE /\ UNCHANGED <<faults, edits, site>>
    BY <1>1, <1>4 DEF Goes
  <2> HIDE DEF L
  <2>3. /\ board' \in Boards /\ board'.stage = "open users" /\ board'.conferences = L
        /\ board'.users = board.users /\ board'.conf = board.conf /\ board'.base = board.base
        /\ board'.failure = board.failure
    BY <2>1, <2>2 DEF StartInv, StartTypeOK, Boards, Stages
  <2>4. StartTypeOK'
    BY <1>2, <2>2, <2>3 DEF StartInv, StartTypeOK
  <2>5. board.conf = 1 /\ board.base = 1
    BY <1>2 DEF StartInv, Serving, Unloaded, IsAt
  <2>6. Len(L) \in Nat /\ board'.conf = 1 /\ board'.base = 1 /\ board'.conferences = L
    <3>1. Len(L) \in Nat
      BY <2>1
    <3>2. board'.conf = 1 /\ board'.base = 1 /\ board'.conferences = L
      BY <2>3, <2>5
    <3> QED BY <3>1, <3>2
  <2>7. There' = There /\ Here' = Here /\ \A d \in There : IsConference(d)' <=> IsConference(d)
    BY <1>2 DEF There, Here, IsConference
  <2>8. Serving'
    <3>1. Ascending(board.conferences)' /\ \A i \in 1 .. Len(board'.conferences) : board'.conferences[i].msgbases # <<>>
      BY <2>1, <2>6 DEF Ascending
    <3>2. board'.conf \in 1 .. Len(board'.conferences) + 1 /\ board'.base >= 1
      BY <2>6
    <3>3. ASSUME ~ AllOpened' PROVE board'.base <= Len(board'.conferences[board'.conf].msgbases)
      <4>1. 1 <= Len(L)
        BY <3>3, <2>6 DEF AllOpened
      <4>2. L[1] \in ConferenceSet /\ L[1].msgbases # <<>>
        BY <4>1, <2>1, <2>6
      <4>3. L[1].msgbases \in Seq(Nat)
        BY <4>2 DEF ConferenceSet
      <4>4. Len(L[1].msgbases) \in Nat \ {0}
        BY <4>2, <4>3, EmptySeq
      <4> QED BY <4>4, <2>6
    <3>4. \A i \in 1 .. Len(L) : \A k \in 1 .. Len(L[i].msgbases) :
             ~ (i < board'.conf \/ (i = board'.conf /\ k < board'.base))
      BY <2>6
    <3>5. ~ Unloaded' /\ ~ IsAt("listening")'
      BY <2>3 DEF Unloaded, IsAt
    <3> QED BY <3>1, <3>2, <3>3, <3>4, <3>5, <2>6 DEF Serving
  <2>9. Seeding'
    <3>1. edits' = 0 => GrantsAll(database)' /\ GrantsAll(board.users)'
      BY <1>2, <2>2, <2>3, <2>7 DEF StartInv, Seeding, GrantsAll
    <3>2. Numbers(board.conferences)' = Here'
      BY <2>1, <2>3, <2>7 DEF Numbers
    <3> QED BY <2>3, <3>1, <3>2 DEF Seeding, IsAt, Unloaded
  <2>10. Loading'
    <3>1. board'.failure = "none"
      BY <1>2, <2>3 DEF StartInv, Loading, IsAt
    <3>2. \A d \in There : ~ d.padded => Dir(d.number, TRUE) \notin There
      BY <2>1 DEF Dir
    <3>3. MayLoad'
      BY <1>2, <2>1, <2>3, <2>7, <3>2 DEF MayLoad
    <3> QED BY <3>1, <3>3 DEF Loading
  <2> QED
    BY <2>4, <2>8, <2>9, <2>10 DEF StartInv
<1> QED BY <1>3, <1>4

\* A step of a start that loads and opens nothing.
Onwards(next, users) == board' = [board EXCEPT !.stage = next, !.users = users]

LEMMA OnwardsBoard ==
  ASSUME StartTypeOK, NEW next \in Stages, NEW users \in {NoUsers} \cup UsersSet, Onwards(next, users)
  PROVE  /\ board' \in Boards /\ board'.stage = next /\ board'.users = users
         /\ board'.conferences = board.conferences /\ board'.conf = board.conf
         /\ board'.base = board.base /\ board'.mail_stores = board.mail_stores
         /\ board'.failure = board.failure
BY DEF Onwards, StartTypeOK, Boards

LEMMA ServingOn ==
  ASSUME Serving, mailbases' = mailbases, Unloaded' => Unloaded,
         board'.conferences = board.conferences, board'.conf = board.conf,
         board'.base = board.base, board'.mail_stores = board.mail_stores,
         IsAt("listening")' => AllOpened
  PROVE  Serving'
<1>1. AllOpened' <=> AllOpened
  BY DEF AllOpened
<1>2. \A n, b : HasStore(n, b)' <=> HasStore(n, b)
  BY DEF HasStore
<1> QED
  BY <1>1, <1>2 DEF Serving, Ascending

LEMMA LoadingOn ==
  ASSUME Loading, UNCHANGED <<dirs, mailbases, edited>>, board'.conferences = board.conferences,
         board'.failure = board.failure, ~ IsAt("failed")
  PROVE  Loading'
<1>1. board'.failure = "none"
  BY DEF Loading
<1>2. ~ edited' => MayLoad'
  BY SameDisk DEF Loading, MayLoad
<1> QED
  BY <1>1, <1>2 DEF Loading

LEMMA OnwardsKeeps ==
  ASSUME StartInv, NEW next \in {"open mail", "open mail stores", "listening"},
         board.stage \in {"open mail", "open mail stores"},
         board' = [board EXCEPT !.stage = next], next = "listening" => AllOpened,
         UNCHANGED <<dirs, mailbases, database, edits, faults, edited, site>>
  PROVE  StartInv'
<1>1. Onwards(next, board.users) /\ board.users \in {NoUsers} \cup UsersSet /\ next \in Stages
  BY DEF Onwards, StartInv, StartTypeOK, Boards, Stages
<1>2. /\ board' \in Boards /\ board'.stage = next /\ board'.users = board.users
      /\ board'.conferences = board.conferences /\ board'.conf = board.conf
      /\ board'.base = board.base /\ board'.mail_stores = board.mail_stores
      /\ board'.failure = board.failure
  BY <1>1, OnwardsBoard DEF StartInv
<1>3. StartTypeOK'
  BY <1>2 DEF StartInv, StartTypeOK
<1>4. Serving'
  BY <1>2, ServingOn DEF StartInv, Unloaded, IsAt
<1>5. Loading'
  BY <1>2, LoadingOn DEF StartInv, IsAt
<1>6. Seeding'
  <2>1. There' = There /\ Here' = Here /\ Numbers(board.conferences)' = Numbers(board.conferences)
    BY <1>2 DEF There, Here, Numbers
  <2>2. Live' = Live
    BY <1>2 DEF Live
  <2>3. GrantsAll(database)' = GrantsAll(database) /\ GrantsAll(board.users)' = GrantsAll(board.users)
    BY <1>2, <2>1 DEF GrantsAll
  <2> QED BY <1>2, <2>1, <2>2, <2>3 DEF StartInv, Seeding, IsAt, Unloaded
<1> QED
  BY <1>3, <1>4, <1>5, <1>6 DEF StartInv

LEMMA OpenMailKeeps == ASSUME StartInv, OpenMail PROVE StartInv'
BY OnwardsKeeps DEF OpenMail, Proceeds, Goes, IsAt

LEMMA ListenKeeps == ASSUME StartInv, Listen PROVE StartInv'
BY OnwardsKeeps DEF Listen, Proceeds, Goes, IsAt

\* The accounts are made with every conference that is there.
LEMMA SysopGranted ==
  ASSUME StartTypeOK
  PROVE  /\ SeededSysop \in UsersSet /\ SeededSysop.is = "users"
         /\ SeededSysop.granted = Numbers(board.conferences)
<1>1. board.conferences \in Seq(ConferenceSet)
  BY DEF StartTypeOK, Boards
<1>4. DOMAIN board.conferences = 1 .. Len(board.conferences)
      /\ \A i \in 1 .. Len(board.conferences) : board.conferences[i] \in ConferenceSet
  BY <1>1, LenProperties, ElementOfSeq
<1>2. \A i \in DOMAIN board.conferences : board.conferences[i].number \in Nat
  BY <1>4 DEF ConferenceSet
<1>3. Numbers(board.conferences) \in SUBSET Nat
  BY <1>2 DEF Numbers, Range
<1> QED
  BY <1>3 DEF SeededSysop, Users, UsersSet

LEMMA OpenUsersKeeps == ASSUME StartInv, OpenUsers PROVE StartInv'
<1> DEFINE next == IF site.durable THEN "seed" ELSE "open mail"
           users == IF site.durable THEN NoUsers ELSE SeededSysop
<1>1. /\ IsAt("open users") /\ board' = [board EXCEPT !.stage = next, !.users = users]
      /\ database' = IF site.durable /\ database = NoDatabase THEN NoUsers ELSE database
      /\ UNCHANGED <<dirs, mailbases, edits, faults, edited, site>>
  BY DEF OpenUsers, Proceeds, Goes
<1>2. next \in Stages /\ users \in {NoUsers} \cup UsersSet
  BY SysopGranted DEF Stages, StartInv
<1>3. Onwards(next, users)
  BY <1>1 DEF Onwards
<1> HIDE DEF next, users
<1>4. /\ board' \in Boards /\ board'.stage = next /\ board'.users = users
      /\ board'.conferences = board.conferences /\ board'.conf = board.conf
      /\ board'.base = board.base /\ board'.mail_stores = board.mail_stores
      /\ board'.failure = board.failure
  BY <1>2, <1>3, OnwardsBoard DEF StartInv
<1>5. StartTypeOK'
  BY <1>1, <1>4 DEF StartInv, StartTypeOK
<1>6. next \in {"seed", "open mail"}
  BY DEF next
<1>7. Serving'
  BY <1>1, <1>4, <1>6, ServingOn DEF StartInv, Unloaded, IsAt
<1>8. Loading'
  BY <1>1, <1>4, LoadingOn DEF StartInv, IsAt
<1>9. Seeding'
  <2>1. There' = There /\ Here' = Here /\ Numbers(board.conferences)' = Numbers(board.conferences)
    BY <1>1, <1>4 DEF There, Here, Numbers
  <2>2. NoUsers.is = "empty" /\ NoDatabase.is = "absent" /\ NoUsers # NoDatabase
    BY DEF NoUsers, NoDatabase
  <2>3. IsAt("seed")' => site'.durable /\ database' # NoDatabase
    <3>1. IsAt("seed")' => site.durable
      BY <1>4 DEF next, IsAt
    <3>2. site.durable => database' # NoDatabase
      BY <1>1, <2>2
    <3> QED BY <1>1, <3>1, <3>2
  <2>4. board'.stage \in {"open mail", "open mail stores", "listening"} => Live'.is = "users"
    <3>1. board'.stage = "open mail" => ~ site.durable
      BY <1>4 DEF next
    <3>2. ~ site.durable => Live' = SeededSysop
      BY <1>1, <1>4 DEF users, Live
    <3>3. board'.stage \in {"seed", "open mail"}
      BY <1>4, <1>6
    <3>4. SeededSysop.is = "users"
      BY SysopGranted DEF StartInv
    <3> QED BY <3>1, <3>2, <3>3, <3>4
  <2>5. ASSUME edits = 0 PROVE Numbers(board.conferences) = Here /\ GrantsAll(database)
    BY <1>1, <2>5 DEF StartInv, Seeding, IsAt, Unloaded
  <2>6. ASSUME edits = 0 PROVE GrantsAll(database)' /\ GrantsAll(board.users)'
    <3>1. GrantsAll(database)'
      BY <1>1, <2>1, <2>2, <2>5, <2>6 DEF GrantsAll
    <3>2. users.is = "users" => users.granted = Here
      BY <2>2, <2>5, <2>6, SysopGranted DEF users, StartInv
    <3> QED BY <3>1, <3>2, <1>4, <2>1 DEF GrantsAll
  <2> QED BY <1>1, <2>1, <2>3, <2>4, <2>5, <2>6 DEF Seeding
<1> QED
  BY <1>5, <1>7, <1>8, <1>9 DEF StartInv

LEMMA SeedWhenEmptyKeeps == ASSUME StartInv, SeedWhenEmpty PROVE StartInv'
<1>1. /\ IsAt("seed") /\ board' = [board EXCEPT !.stage = "open mail"]
      /\ database' = IF database = NoUsers THEN SeededSysop ELSE database
      /\ UNCHANGED <<dirs, mailbases, edits, faults, edited, site>>
  BY DEF SeedWhenEmpty, Proceeds, Goes
<1>2. Onwards("open mail", board.users) /\ board.users \in {NoUsers} \cup UsersSet /\ "open mail" \in Stages
  BY <1>1 DEF Onwards, StartInv, StartTypeOK, Boards, Stages
<1>3. /\ board' \in Boards /\ board'.stage = "open mail" /\ board'.users = board.users
      /\ board'.conferences = board.conferences /\ board'.conf = board.conf
      /\ board'.base = board.base /\ board'.mail_stores = board.mail_stores
      /\ board'.failure = board.failure
  BY <1>2, OnwardsBoard DEF StartInv
<1>4. /\ SeededSysop \in UsersSet /\ SeededSysop.is = "users"
      /\ SeededSysop.granted = Numbers(board.conferences)
  BY SysopGranted DEF StartInv
<1>5. StartTypeOK'
  BY <1>1, <1>3, <1>4 DEF StartInv, StartTypeOK
<1>6. Serving'
  BY <1>1, <1>3, ServingOn DEF StartInv, Unloaded, IsAt
<1>7. Loading'
  BY <1>1, <1>3, LoadingOn DEF StartInv, IsAt
<1>8. Seeding'
  <2>1. There' = There /\ Here' = Here /\ Numbers(board.conferences)' = Numbers(board.conferences)
    BY <1>1, <1>3 DEF There, Here, Numbers
  <2>2. database' \in UsersSet
    BY <1>1, <1>4 DEF StartInv, Seeding, StartTypeOK, IsAt
  <2>3. site'.durable /\ database'.is = "users"
    BY <1>1, <2>2 DEF StartInv, Seeding, IsAt, UsersSet
  <2>4. ASSUME edits = 0 PROVE /\ Numbers(board.conferences) = Here
                               /\ GrantsAll(database) /\ GrantsAll(board.users)
    BY <1>1, <2>4 DEF StartInv, Seeding, IsAt, Unloaded
  <2>5. ASSUME edits = 0 PROVE GrantsAll(database)' /\ GrantsAll(board.users)'
    BY <1>1, <1>3, <1>4, <2>1, <2>4, <2>5 DEF GrantsAll
  <2>6. Live'.is = "users"
    BY <2>3 DEF Live
  <2>7. ~ IsAt("seed")'
    BY <1>3 DEF IsAt
  <2> QED BY <1>1, <2>1, <2>4, <2>5, <2>6, <2>7 DEF Seeding
<1> QED
  BY <1>5, <1>6, <1>7, <1>8 DEF StartInv

\* A base has a directory of its own.
LEMMA MailDirsDiffer ==
  ASSUME NEW n \in Nat, NEW b \in Nat, NEW m \in Nat, NEW c \in Nat, MailDir(n, b) = MailDir(m, c)
  PROVE  n = m /\ b = c
<1> DEFINE name(x) == IF x = 1 THEN <<"MsgBase">> ELSE <<"MsgBase", x>>
<1>1. /\ MailDir(n, b).dir = Dir(n, TRUE) /\ MailDir(n, b).name = name(b)
      /\ MailDir(m, c).dir = Dir(m, TRUE) /\ MailDir(m, c).name = name(c)
  BY DEF MailDir
<1>2. Dir(n, TRUE).number = n /\ Dir(m, TRUE).number = m
  BY DEF Dir
<1>3. n = m
  BY <1>1, <1>2
<1>4. \A x : Len(name(x)) = (IF x = 1 THEN 1 ELSE 2) /\ (x # 1 => name(x)[2] = x)
  OBVIOUS
<1>5. name(b) = name(c)
  BY <1>1
<1> HIDE DEF name
<1>6. b = c
  BY <1>4, <1>5
<1> QED BY <1>3, <1>6

\* The base whose turn it is.
LEMMA Turn ==
  ASSUME StartTypeOK, Serving, ~ AllOpened
  PROVE  /\ board.conf \in 1 .. Len(board.conferences)
         /\ board.conferences[board.conf].number \in Nat
         /\ board.conferences[board.conf].msgbases \in Seq(Nat)
         /\ board.base \in 1 .. Len(board.conferences[board.conf].msgbases)
         /\ board.conferences[board.conf].msgbases[board.base] \in Nat
<1> DEFINE C == board.conferences   c == C[board.conf]
<1>1. C \in Seq(ConferenceSet) /\ board.conf \in Nat /\ board.base \in Nat
  BY DEF StartTypeOK, Boards
<1>2. Len(C) \in Nat
  BY <1>1
<1>3. board.conf \in 1 .. Len(C)
  BY <1>1, <1>2 DEF Serving, AllOpened
<1>4. c \in ConferenceSet
  BY <1>1, <1>3, ElementOfSeq
<1>5. c.number \in Nat /\ c.msgbases \in Seq(Nat)
  BY <1>4 DEF ConferenceSet
<1>6. Len(c.msgbases) \in Nat
  BY <1>5
<1>7. board.base \in 1 .. Len(c.msgbases)
  BY <1>1, <1>6 DEF Serving
<1>8. c.msgbases[board.base] \in Nat
  BY <1>5, <1>7, ElementOfSeq
<1> QED BY <1>3, <1>5, <1>7, <1>8

LEMMA ServingKept ==
  ASSUME Serving, UNCHANGED <<board, mailbases>>
  PROVE  Serving'
<1>1. AllOpened' = AllOpened
  BY DEF AllOpened
<1>2. \A n, b : HasStore(n, b)' = HasStore(n, b)
  BY DEF HasStore
<1>3. Unloaded' = Unloaded /\ Ascending(board.conferences)' = Ascending(board.conferences)
  BY DEF Unloaded, Ascending
<1>4. /\ (Unloaded => board.conferences = <<>> /\ board.conf = 1 /\ board.base = 1)'
      /\ Ascending(board.conferences)'
  BY <1>3 DEF Serving
<1>5. /\ (\A i \in 1 .. Len(board.conferences) : board.conferences[i].msgbases # <<>>)'
      /\ (board.conf \in 1 .. Len(board.conferences) + 1 /\ board.base >= 1)'
      /\ (~ AllOpened => board.base <= Len(board.conferences[board.conf].msgbases))'
      /\ (IsAt("listening") => AllOpened)'
  BY <1>1 DEF Serving, IsAt
<1>6. (\A i \in 1 .. Len(board.conferences) :
         \A k \in 1 .. Len(board.conferences[i].msgbases) :
           i < board.conf \/ (i = board.conf /\ k < board.base) =>
             HasStore(board.conferences[i].number, board.conferences[i].msgbases[k]))'
  BY <1>2 DEF Serving
<1> QED
  BY <1>4, <1>5, <1>6 DEF Serving

LEMMA OpenMailStoreKeeps == ASSUME StartInv, OpenMailStore PROVE StartInv'
<1>a. PICK C : C = board.conferences
  OBVIOUS
<1>b. PICK conf : conf = board.conf
  OBVIOUS
<1>c. PICK base : base = board.base
  OBVIOUS
<1>d. PICK c : c = C[conf]
  OBVIOUS
<1>e. PICK coord : coord = <<c.number, c.msgbases[base]>>
  OBVIOUS
<1>f. PICK at : at = MailDir(coord[1], coord[2])
  OBVIOUS
<1>h. PICK conf2 : conf2 = IF base = Len(c.msgbases) THEN conf + 1 ELSE conf
  OBVIOUS
<1>i. PICK base2 : base2 = IF base = Len(c.msgbases) THEN 1 ELSE base + 1
  OBVIOUS
<1>j. PICK stores : stores = {m \in board.mail_stores : m.base # coord} \cup {[base |-> coord, at |-> at]}
  OBVIOUS
<1>1. IsAt("open mail stores") /\ ~ AllOpened
  BY Zenon DEF OpenMailStore
<1>k. /\ mailbases' = mailbases \cup {at}
      /\ dirs' = [d \in DOMAIN dirs |-> IF d = at.dir /\ dirs[d] = Absent THEN NoToml ELSE dirs[d]]
      /\ board' = [board EXCEPT !.conf = IF board.base = Len(c.msgbases) THEN @ + 1 ELSE @,
                               !.base = IF board.base = Len(c.msgbases) THEN 1 ELSE @ + 1,
                               !.mail_stores = {m \in @ : m.base # coord}
                                                 \cup {[base |-> coord, at |-> at]}]
      /\ UNCHANGED <<database, edits, faults, edited, site>>
  <2>1. c = board.conferences[board.conf]
    BY <1>a, <1>b, <1>d
  <2>2. coord = <<c.number, c.msgbases[board.base]>>
    BY <1>c, <1>e
  <2> QED
    BY <2>1, <2>2, <1>f, Zenon DEF OpenMailStore, Proceeds, Goes
<1>2. /\ mailbases' = mailbases \cup {at}
      /\ dirs' = [d \in DOMAIN dirs |-> IF d = at.dir /\ dirs[d] = Absent THEN NoToml ELSE dirs[d]]
      /\ UNCHANGED <<database, edits, faults, edited, site>>
  BY <1>k
<1>3. board' = [board EXCEPT !.conf = conf2, !.base = base2, !.mail_stores = stores]
  BY <1>k, <1>b, <1>c, <1>h, <1>i, <1>j
<1>4. /\ conf \in 1 .. Len(C) /\ c.number \in Nat /\ c.msgbases \in Seq(Nat)
      /\ base \in 1 .. Len(c.msgbases) /\ c.msgbases[base] \in Nat
  BY <1>1, <1>a, <1>b, <1>c, <1>d, Turn DEF StartInv
<1>5. C \in Seq(ConferenceSet) /\ Len(C) \in Nat /\ Len(c.msgbases) \in Nat
  BY <1>4, <1>a DEF StartInv, StartTypeOK, Boards
<1>6. coord \in Nat \X Nat /\ coord[1] = c.number /\ coord[2] = c.msgbases[base] /\ StoreOf(coord) = [base |-> coord, at |-> at]
  BY <1>4, <1>e, <1>f DEF StoreOf
<1>7. at.dir = Dir(c.number, TRUE)
  BY <1>6, <1>f DEF MailDir
<1>8. conf2 \in Nat /\ base2 \in Nat
  BY <1>4, <1>5, <1>h, <1>i
<1>9. stores \in SUBSET {StoreOf(x) : x \in Nat \X Nat}
  BY <1>6, <1>j DEF StartInv, StartTypeOK, Boards
<1>10. board' \in Boards
  BY <1>3, <1>8, <1>9 DEF StartInv, StartTypeOK, Boards
<1>11. /\ board'.stage = board.stage /\ board'.users = board.users /\ board'.failure = board.failure
  BY <1>3 DEF StartInv, StartTypeOK, Boards
<1>12. /\ board'.conferences = C /\ board'.conf = conf2 /\ board'.base = base2
       /\ board'.mail_stores = stores
  BY <1>3, <1>a DEF StartInv, StartTypeOK, Boards
<1>13. StartTypeOK'
  <2>1. NoToml \in Contents
    BY DEF Contents
  <2>2. dirs' \in [DOMAIN site'.dirs -> Contents]
    BY <1>2, <2>1 DEF StartInv, StartTypeOK
  <2> QED BY <1>2, <1>10, <2>2 DEF StartInv, StartTypeOK
<1>15. /\ There \subseteq There' /\ There' \subseteq There \cup {Dir(c.number, TRUE)}
       /\ \A d \in There : dirs'[d] = dirs[d]
  BY <1>2, <1>7 DEF There
<1>16. Serving'
  <2>1. \A n, b : HasStore(n, b) => HasStore(n, b)'
    <3> SUFFICES ASSUME NEW n, NEW b, HasStore(n, b) PROVE HasStore(n, b)'
      OBVIOUS
    <3>1. MailDir(n, b) \in mailbases'
      BY <1>2 DEF HasStore
    <3>2. CASE coord = <<n, b>>
      BY <3>1, <3>2, <1>6, <1>12, <1>j DEF HasStore
    <3>3. CASE coord # <<n, b>>
      <4>1. StoreOf(<<n, b>>).base # coord
        BY <3>3 DEF StoreOf
      <4>2. StoreOf(<<n, b>>) \in stores
        BY <4>1, <1>j DEF HasStore
      <4> QED BY <3>1, <4>2, <1>12 DEF HasStore
    <3> QED BY <3>2, <3>3
  <2>2. HasStore(c.number, c.msgbases[base])'
    BY <1>2, <1>6, <1>12, <1>e, <1>f, <1>j DEF HasStore
  <2>3. ASSUME NEW i \in 1 .. Len(C), NEW k \in 1 .. Len(C[i].msgbases),
               i < conf2 \/ (i = conf2 /\ k < base2)
        PROVE  HasStore(C[i].number, C[i].msgbases[k])'
    <3>1. C[i].msgbases \in Seq(Nat)
      <4>1. C[i] \in ConferenceSet
        BY <1>5, ElementOfSeq
      <4> QED BY <4>1 DEF ConferenceSet
    <3>2. Len(C[i].msgbases) \in Nat
      BY <3>1
    <3>3. \/ i < conf \/ (i = conf /\ k < base)
          \/ i = conf /\ k = base
      <4>1. CASE base = Len(c.msgbases)
        <5>1. conf2 = conf + 1 /\ base2 = 1
          BY <4>1, <1>h, <1>i
        <5>2. i < conf \/ i = conf
          BY <5>1, <2>3, <1>4, <1>5
        <5>3. i = conf => k <= base
          BY <4>1, <1>d
        <5>4. i = conf => k < base \/ k = base
          BY <5>3, <3>2, <1>4, <1>5
        <5> QED BY <5>2, <5>4
      <4>2. CASE base # Len(c.msgbases)
        <5>1. conf2 = conf /\ base2 = base + 1
          BY <4>2, <1>h, <1>i
        <5> QED BY <5>1, <2>3, <3>2, <1>4, <1>5
      <4> QED BY <4>1, <4>2
    <3>4. CASE i < conf \/ (i = conf /\ k < base)
      <4>1. HasStore(C[i].number, C[i].msgbases[k])
        BY <3>4, <1>a, <1>b, <1>c DEF StartInv, Serving
      <4> QED BY <4>1, <2>1
    <3>5. CASE i = conf /\ k = base
      BY <3>5, <2>2, <1>d
    <3> QED BY <3>3, <3>4, <3>5
  <2>4. Ascending(board'.conferences) /\ \A i \in 1 .. Len(C) : C[i].msgbases # <<>>
    BY <1>12, <1>a DEF StartInv, Serving
  <2>5. conf2 \in 1 .. Len(C) + 1 /\ base2 >= 1
    BY <1>4, <1>5, <1>h, <1>i
  <2>6. ASSUME ~ AllOpened' PROVE base2 <= Len(C[conf2].msgbases)
    <3>1. conf2 \in 1 .. Len(C)
      BY <2>5, <2>6, <1>5, <1>12 DEF AllOpened
    <3>2. CASE base = Len(c.msgbases)
      <4>0. C[conf2] \in ConferenceSet
        BY <3>1, <1>5, ElementOfSeq
      <4>1. C[conf2].msgbases \in Seq(Nat) /\ C[conf2].msgbases # <<>>
        BY <4>0, <3>1, <2>4 DEF ConferenceSet
      <4>2. Len(C[conf2].msgbases) \in Nat \ {0}
        BY <4>1, EmptySeq
      <4> QED BY <3>2, <4>2, <1>i
    <3>3. CASE base # Len(c.msgbases)
      <4>1. conf2 = conf /\ base2 = base + 1
        BY <3>3, <1>h, <1>i
      <4>2. base + 1 <= Len(c.msgbases)
        BY <3>3, <1>4, <1>5
      <4> QED BY <4>1, <4>2, <1>d
    <3> QED BY <3>2, <3>3
  <2>7. ~ Unloaded' /\ ~ IsAt("listening")'
    BY <1>1, <1>11 DEF Unloaded, IsAt
  <2> QED BY <2>3, <2>4, <2>5, <2>6, <2>7, <1>12 DEF Serving
<1>17. c.number \in Numbers(board.conferences)
  <2>1. DOMAIN C = 1 .. Len(C)
    BY <1>5, LenProperties
  <2>2. c \in Range(C)
    BY <2>1, <1>4, <1>d DEF Range
  <2> QED BY <2>2, <1>a DEF Numbers
<1>18. Seeding'
  <2>1. Live' = Live
    BY <1>2, <1>11 DEF Live
  <2>2. ~ Unloaded /\ board'.stage = "open mail stores"
    BY <1>1, <1>11 DEF Unloaded, IsAt
  <2>3. Live'.is = "users"
    BY <2>1, <2>2, <1>11 DEF StartInv, Seeding
  <2>4. ASSUME edits = 0 PROVE Here' = Here
    <3>1. c.number \in Here
      BY <2>2, <2>4, <1>17 DEF StartInv, Seeding
    <3>2. Dir(c.number, TRUE).number = c.number
      BY DEF Dir
    <3> QED BY <3>1, <3>2, <1>15 DEF Here
  <2>5. Numbers(board.conferences)' = Numbers(board.conferences)
    BY <1>12, <1>a DEF Numbers
  <2>6. ASSUME edits = 0 PROVE GrantsAll(database)' /\ GrantsAll(board.users)' /\ Numbers(board.conferences)' = Here'
    BY <2>2, <2>4, <2>5, <2>6, <1>2, <1>11 DEF StartInv, Seeding, GrantsAll
  <2>7. ~ IsAt("seed")'
    BY <2>2 DEF IsAt
  <2> QED BY <2>3, <2>6, <2>7, <1>2 DEF Seeding
<1>19. Loading'
  <2>1. ~ IsAt("failed")
    BY <1>1 DEF IsAt
  <2>2. board'.failure = "none"
    BY <2>1, <1>11 DEF StartInv, Loading
  <2>3. ASSUME ~ edited PROVE MayLoad'
    <3> DEFINE own == Dir(c.number, TRUE)
    <3>1. own.number = c.number /\ own.padded = TRUE
      BY DEF Dir
    <3>2. PICK home \in There : home.number = c.number
      BY <2>3, <1>4, <1>a, <1>d DEF StartInv, Loading, MayLoad
    <3>3. /\ home = Dir(home.number, home.padded) /\ home.padded \in BOOLEAN
          /\ own \in DOMAIN dirs
      BY <3>2, DirsTyped DEF StartInv
    <3>4. own \in There'
      BY <1>2, <1>7, <3>3 DEF There, NoToml, Absent
    <3>5. There' = There \cup {own} /\ \A d \in There : dirs'[d] = dirs[d]
      BY <1>15, <3>4
    <3>6. own \notin There => dirs'[own] = NoToml /\ Dir(c.number, FALSE) \in There
      <4> SUFFICES ASSUME own \notin There PROVE dirs'[own] = NoToml /\ Dir(c.number, FALSE) \in There
        OBVIOUS
      <4>1. dirs[own] = Absent
        BY <3>3 DEF There
      <4>2. home.padded = FALSE
        BY <3>2, <3>3
      <4> QED BY <4>1, <4>2, <1>2, <1>7, <3>2, <3>3
    <3>7. \E m \in mailbases' : m.dir = own
      BY <1>2, <1>7
    <3> HIDE DEF own
    <3>8. \A d \in There : IsConference(d)' <=> IsConference(d)
      BY <3>5 DEF IsConference
    <3>9. ASSUME NEW d \in There', ~ IsConference(d)'
          PROVE  d.padded /\ Dir(d.number, FALSE) \in There'
      <4>1. CASE d \in There
        BY <4>1, <3>5, <3>8, <3>9, <2>3 DEF StartInv, Loading, MayLoad
      <4>2. CASE d \notin There
        BY <4>2, <3>1, <3>5, <3>6, <3>9
      <4> QED BY <4>1, <4>2
    <3>10. ASSUME NEW d \in There', ~ d.padded, Dir(d.number, TRUE) \in There'
           PROVE  MadeBeside(d)'
      <4>1. d \in There
        BY <3>1, <3>5, <3>10
      <4>2. CASE Dir(d.number, TRUE) \in There
        <5>1. MadeBeside(d)
          BY <4>1, <4>2, <3>10, <2>3 DEF StartInv, Loading, MayLoad
        <5> QED BY <5>1, <4>2, <3>5, <1>2 DEF MadeBeside
      <4>3. CASE Dir(d.number, TRUE) \notin There
        <5>1. Dir(d.number, TRUE) = own /\ own \notin There
          BY <4>3, <3>5, <3>10
        <5> QED BY <5>1, <3>6, <3>7 DEF MadeBeside
      <4> QED BY <4>2, <4>3
    <3>11. \A i \in 1 .. Len(board'.conferences) :
              \E d \in There' : d.number = board'.conferences[i].number
      BY <2>3, <3>5, <1>12, <1>a DEF StartInv, Loading, MayLoad
    <3> QED BY <3>9, <3>10, <3>11 DEF MayLoad
  <2> QED BY <2>2, <2>3, <1>2 DEF Loading
<1> QED
  BY <1>13, <1>16, <1>18, <1>19 DEF StartInv

LEMMA EditKeeps == ASSUME StartInv, Edit PROVE StartInv'
<1>1. PICK e \in site.edits : dirs' = [dirs EXCEPT ![e.dir] = e.holds]
  BY DEF Edit
<1>2. edits' = edits + 1 /\ edited' = TRUE /\ UNCHANGED <<mailbases, database, board, faults, site>>
  BY DEF Edit
<1>3. e.dir \in DOMAIN site.dirs /\ e.holds \in Contents
  BY SitesAssumption DEF StartInv, StartTypeOK
<1>4. edits' \in Nat /\ edits' # 0
  BY <1>2 DEF StartInv, StartTypeOK
<1>5. StartTypeOK'
  BY <1>1, <1>2, <1>3, <1>4 DEF StartInv, StartTypeOK
<1>6. Serving'
  BY <1>2, ServingKept DEF StartInv
<1>7. Seeding'
  <2>1. Live' = Live
    BY <1>2 DEF Live
  <2> QED BY <2>1, <1>2, <1>4 DEF StartInv, Seeding, IsAt
<1>8. Loading'
  BY <1>2 DEF StartInv, Loading, IsAt
<1> QED
  BY <1>5, <1>6, <1>7, <1>8 DEF StartInv

LEMMA ChangePasswordKeeps == ASSUME StartInv, ChangePassword PROVE StartInv'
<1>1. /\ IsAt("listening") /\ UNCHANGED <<dirs, mailbases, edits, faults, edited, site>>
      /\ IF site.durable THEN database' = [database EXCEPT !.password = "his own"] /\ UNCHANGED board
         ELSE board' = [board EXCEPT !.users.password = "his own"] /\ UNCHANGED database
  BY DEF ChangePassword
<1>2. Live.is = "users" /\ ~ Unloaded
  BY <1>1 DEF StartInv, Seeding, IsAt, Unloaded
<1>3. \A users \in {NoDatabase, NoUsers} \cup UsersSet : users.is = "users" =>
         LET next == [users EXCEPT !.password = "his own"]
         IN  next \in UsersSet /\ next.is = "users" /\ next.granted = users.granted
  <2> SUFFICES ASSUME NEW users \in {NoDatabase, NoUsers} \cup UsersSet, users.is = "users"
               PROVE  LET next == [users EXCEPT !.password = "his own"]
                      IN  next \in UsersSet /\ next.is = "users" /\ next.granted = users.granted
    OBVIOUS
  <2>1. NoDatabase.is = "absent" /\ NoUsers.is = "empty"
    BY DEF NoUsers, NoDatabase
  <2>2. users # NoDatabase /\ users # NoUsers
    BY <2>1
  <2>3. users \in UsersSet
    BY <2>2
  <2> QED BY <2>3 DEF UsersSet
<1>4. /\ board'.stage = board.stage /\ board'.conferences = board.conferences /\ board'.conf = board.conf
      /\ board'.base = board.base /\ board'.mail_stores = board.mail_stores
      /\ board'.failure = board.failure
  <2>1. board \in Boards
    BY DEF StartInv, StartTypeOK
  <2> QED BY <2>1, <1>1 DEF Boards
<1>5. Serving'
  BY <1>1, <1>4, ServingOn DEF StartInv, IsAt, Unloaded, Serving
<1>6. Loading'
  BY <1>1, <1>4, LoadingOn DEF StartInv, IsAt
<1>7. There' = There /\ Here' = Here /\ Numbers(board.conferences)' = Numbers(board.conferences)
  BY <1>1, <1>4 DEF There, Here, Numbers
<1>8. ~ IsAt("seed")' /\ ~ Unloaded'
  BY <1>1, <1>4 DEF IsAt, Unloaded
<1>9. CASE site.durable
  <2>1. database' \in UsersSet /\ database'.is = "users" /\ database'.granted = database.granted
    BY <1>1, <1>2, <1>3, <1>9 DEF Live, StartInv, StartTypeOK
  <2>2. StartTypeOK'
    BY <1>1, <1>9, <2>1 DEF StartInv, StartTypeOK
  <2>3. GrantsAll(database) => GrantsAll(database)'
    BY <2>1, <1>1, <1>2, <1>7, <1>9 DEF GrantsAll, Live
  <2>4. GrantsAll(board.users) => GrantsAll(board.users)'
    BY <1>1, <1>7, <1>9 DEF GrantsAll
  <2>5. Live'.is = "users"
    BY <2>1, <1>1, <1>9 DEF Live
  <2>6. Seeding'
    BY <1>1, <1>2, <1>7, <1>8, <2>3, <2>4, <2>5 DEF StartInv, Seeding
  <2> QED
    BY <1>5, <1>6, <2>2, <2>6 DEF StartInv
<1>10. CASE ~ site.durable
  <2> PICK users : users = board.users
    OBVIOUS
  <2> PICK next : next = [users EXCEPT !.password = "his own"]
    OBVIOUS
  <2>1. users \in {NoUsers} \cup UsersSet /\ users.is = "users"
    BY <1>2, <1>10 DEF Live, StartInv, StartTypeOK, Boards
  <2>2. next \in UsersSet /\ next.is = "users" /\ next.granted = users.granted
    BY <2>1, <1>3
  <2>3. board' = [board EXCEPT !.users = next] /\ database' = database
    BY <1>1, <1>10
  <2>4. board' \in Boards /\ board'.users = next
    BY <2>2, <2>3 DEF StartInv, StartTypeOK, Boards
  <2>5. StartTypeOK'
    BY <1>1, <2>3, <2>4 DEF StartInv, StartTypeOK
  <2>6. GrantsAll(database) => GrantsAll(database)'
    BY <1>7, <2>3 DEF GrantsAll
  <2>7. GrantsAll(board.users) => GrantsAll(board.users)'
    BY <2>1, <2>2, <2>4, <1>7 DEF GrantsAll
  <2>8. Live'.is = "users"
    BY <2>2, <2>4, <1>1, <1>10 DEF Live
  <2>9. Seeding'
    BY <1>1, <1>2, <1>7, <1>8, <2>6, <2>7, <2>8 DEF StartInv, Seeding
  <2> QED
    BY <1>5, <1>6, <2>5, <2>9 DEF StartInv
<1> QED BY <1>9, <1>10

----------------------------------------------------------------------------
(* The theorems.                                                            *)

LEMMA StartsConsistent == StartInit => StartInv
<1> SUFFICES ASSUME StartInit PROVE StartInv
  OBVIOUS
<1>1. site.dirs \in [DOMAIN site.dirs -> Contents]
  BY SitesAssumption DEF StartInit
<1>2. Blank(board) /\ board.failure = "none" /\ board.stage = "down"
  BY BlankBoards, DownTyped DEF StartInit
<1>3. StartTypeOK
  BY <1>1, <1>2 DEF StartInit, StartTypeOK, Blank
<1>4. Serving
  <2>1. board.conferences = <<>> /\ board.conf = 1 /\ board.base = 1
    BY <1>2 DEF Blank
  <2>2. Len(board.conferences) = 0 /\ 1 .. Len(board.conferences) = {}
    BY <2>1
  <2>3. AllOpened
    BY <2>1, <2>2 DEF AllOpened
  <2>4. board.conf \in 1 .. Len(board.conferences) + 1 /\ board.base >= 1
    BY <2>1, <2>2
  <2> QED BY <2>1, <2>2, <2>3, <2>4 DEF Serving, Ascending
<1>5. Seeding
  <2>1. ~ IsAt("seed") /\ Unloaded /\ board.stage \notin {"open mail", "open mail stores", "listening"}
    BY <1>2 DEF IsAt, Unloaded
  <2>2. NoDatabase.is = "absent" /\ NoUsers.is = "empty"
    BY DEF NoUsers, NoDatabase
  <2>3. database = NoDatabase /\ board.users = NoUsers
    BY <1>2 DEF StartInit, Blank
  <2>4. GrantsAll(database) /\ GrantsAll(board.users)
    BY <2>2, <2>3 DEF GrantsAll
  <2> QED BY <2>1, <2>4 DEF Seeding
<1>6. Loading
  BY <1>2 DEF StartInit, Loading
<1> QED
  BY <1>3, <1>4, <1>5, <1>6 DEF StartInv

LEMMA StepsKeepStarts == StartInv /\ [StartNext]_startvars => StartInv'
<1> SUFFICES ASSUME StartInv, [StartNext]_startvars PROVE StartInv'
  OBVIOUS
<1>1. CASE UNCHANGED startvars
  <2>1. UNCHANGED <<dirs, mailbases, database, board, edits, faults, edited, site>>
    BY <1>1 DEF startvars
  <2>2. StartTypeOK'
    BY <2>1 DEF StartInv, StartTypeOK
  <2>3. Serving'
    BY <2>1, ServingKept DEF StartInv
  <2>4. Seeding'
    BY <2>1 DEF StartInv, Seeding, IsAt, Unloaded, Live, GrantsAll, Here, There
  <2>5. Loading'
    BY <2>1, SameDisk DEF StartInv, Loading, MayLoad, IsAt
  <2> QED BY <2>2, <2>3, <2>4, <2>5 DEF StartInv
<1>2. CASE Fails
  BY <1>2, StopsKeeps, BlankBoards DEF Fails
<1>3. CASE Crash
  BY <1>3, StopsKeeps, BlankBoards DEF Crash
<1> QED
  BY <1>1, <1>2, <1>3, StartKeeps, LoadConferencesKeeps, OpenUsersKeeps, SeedWhenEmptyKeeps, OpenMailKeeps,
     OpenMailStoreKeeps, ListenKeeps, ShutDownKeeps, EditKeeps, ChangePasswordKeeps DEF StartNext

\* At every point of any number of starts, cut short or not, with any edits of
\* the directories between them: what is loaded is in order, what is opened so
\* far is there, and what was loaded can be loaded again.
THEOREM StartsStayConsistent == StartSpec => []StartInv
BY StartsConsistent, StepsKeepStarts, PTL DEF StartSpec

\* A board that listens has the conferences in strictly ascending order, a store
\* for every base of each, and no directory for two bases (load_all, open_mail_stores).
THEOREM CatalogueIsServed == StartSpec => []CatalogueServed
<1>1. StartInv => CatalogueServed
  <2> SUFFICES ASSUME StartInv, IsAt("listening")
               PROVE  /\ \A i, k \in DOMAIN board.conferences :
                           i < k => board.conferences[i].number < board.conferences[k].number
                      /\ \A c \in Range(board.conferences) : \A b \in Range(c.msgbases) :
                           \E m \in board.mail_stores : m.base = <<c.number, b>> /\ m.at \in mailbases
                      /\ \A m, k \in board.mail_stores : m.at = k.at => m = k
    BY DEF CatalogueServed
  <2> PICK C : C = board.conferences
    OBVIOUS
  <2>1. C \in Seq(ConferenceSet) /\ DOMAIN C = 1 .. Len(C) /\ Len(C) \in Nat
    BY LenProperties DEF StartInv, StartTypeOK, Boards
  <2>2. \A i, k \in DOMAIN C : i < k => C[i].number < C[k].number
    BY <2>1 DEF StartInv, Serving, Ascending
  <2>3. board.conf > Len(C)
    BY DEF StartInv, Serving, AllOpened
  <2>4. ASSUME NEW c \in Range(C), NEW b \in Range(c.msgbases)
        PROVE  \E m \in board.mail_stores : m.base = <<c.number, b>> /\ m.at \in mailbases
    <3>1. PICK i \in 1 .. Len(C) : c = C[i]
      BY <2>1 DEF Range
    <3>2. c \in ConferenceSet
      BY <3>1, <2>1, ElementOfSeq
    <3>3. c.msgbases \in Seq(Nat)
      BY <3>2 DEF ConferenceSet
    <3>4. DOMAIN c.msgbases = 1 .. Len(c.msgbases)
      BY <3>3, LenProperties
    <3>5. PICK k \in 1 .. Len(c.msgbases) : b = c.msgbases[k]
      BY <3>4 DEF Range
    <3>6. i < board.conf
      BY <2>1, <2>3 DEF StartInv, StartTypeOK, Boards
    <3>7. HasStore(c.number, b)
      BY <3>1, <3>5, <3>6 DEF StartInv, Serving
    <3>8. /\ StoreOf(<<c.number, b>>).base = <<c.number, b>>
          /\ StoreOf(<<c.number, b>>).at = MailDir(c.number, b)
      BY DEF StoreOf
    <3> QED BY <3>7, <3>8 DEF HasStore
  <2>5. ASSUME NEW m \in board.mail_stores, NEW k \in board.mail_stores, m.at = k.at PROVE m = k
    <3>1. PICK x \in Nat \X Nat : m = StoreOf(x)
      BY DEF StartInv, StartTypeOK, Boards
    <3>2. PICK y \in Nat \X Nat : k = StoreOf(y)
      BY DEF StartInv, StartTypeOK, Boards
    <3>3. MailDir(x[1], x[2]) = MailDir(y[1], y[2])
      BY <2>5, <3>1, <3>2 DEF StoreOf
    <3>4. x[1] = y[1] /\ x[2] = y[2]
      BY <3>3, MailDirsDiffer
    <3>5. x = y
      BY <3>4
    <3> QED BY <3>1, <3>2, <3>5
  <2> QED BY <2>2, <2>4, <2>5
<1> QED
  BY <1>1, StartsStayConsistent, PTL

\* Whatever the directories are named, conferences that were loaded once are
\* loaded again until they are edited: of all that a start makes, even one cut
\* short, only a second directory of one number stands in the way of the next.
THEOREM BoardComesUpAgain == StartSpec => []ComesUpAgain
<1>1. StartInv => ComesUpAgain
  BY DEF StartInv, Loading, ComesUpAgain
<1> QED
  BY <1>1, StartsStayConsistent, PTL

\* The sysop is made once: with a membership in every conference there is, and
\* no later start takes his own password back (is_empty, insert_seed).
THEOREM SysopIsSeededOnce == StartSpec => SysopSeededOnce
<1>1. StartInv => (IsAt("listening") /\ edits = 0 => Live.granted = Numbers(board.conferences))
  <2> SUFFICES ASSUME StartInv, IsAt("listening"), edits = 0
               PROVE  Live.granted = Numbers(board.conferences)
    OBVIOUS
  <2>1. ~ Unloaded /\ Live.is = "users"
    BY DEF StartInv, Seeding, IsAt, Unloaded
  <2>2. Numbers(board.conferences) = Here /\ GrantsAll(database) /\ GrantsAll(board.users)
    BY <2>1 DEF StartInv, Seeding
  <2> QED BY <2>1, <2>2 DEF GrantsAll, Live
<1>2. StartInv /\ [StartNext]_startvars =>
        [database.is = "users" /\ database.password = "his own" => database' = database]_startvars
  <2> SUFFICES ASSUME StartInv, StartNext, database.is = "users", database.password = "his own"
               PROVE  database' = database
    OBVIOUS
  <2>1. NoDatabase.is = "absent" /\ NoUsers.is = "empty"
    BY DEF NoUsers, NoDatabase
  <2>2. database # NoDatabase /\ database # NoUsers
    BY <2>1
  <2>3. database \in UsersSet
    BY <2>2 DEF StartInv, StartTypeOK
  <2>4. [database EXCEPT !.password = "his own"] = database
    BY <2>3 DEF UsersSet
  <2>5. CASE OpenUsers
    BY <2>5, <2>2 DEF OpenUsers
  <2>6. CASE SeedWhenEmpty
    BY <2>6, <2>2 DEF SeedWhenEmpty
  <2>7. CASE ChangePassword
    BY <2>7, <2>4 DEF ChangePassword
  <2>8. CASE Start \/ OpenMail \/ Listen
    BY <2>8 DEF Start, OpenMail, Listen
  <2>9. CASE LoadConferences \/ OpenMailStore
    BY <2>9, LoadingLeavesUsers
  <2>11. CASE Fails \/ Crash
    BY <2>11 DEF Fails, Crash, Stops
  <2>10. CASE ShutDown \/ Edit
    BY <2>10 DEF ShutDown, Edit
  <2> QED
    BY <2>5, <2>6, <2>7, <2>8, <2>9, <2>10, <2>11 DEF StartNext
<1> QED
  BY <1>1, <1>2, StartsStayConsistent, PTL DEF StartSpec, SysopSeededOnce
=============================================================================
