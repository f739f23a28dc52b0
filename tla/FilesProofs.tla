---------------------------- MODULE FilesProofs ----------------------------
(* Theorems about MessageList and the modules below it: flags, listings of
   files and of mail, for any catalogue, page, command lines and programs.  *)
EXTENDS MessageList, FiniteSetTheorems, SequenceTheorems, WellFoundedInduction, TLAPS

----------------------------------------------------------------------------
(* The catalogue in the order of its days.                                  *)

Entries == Range(Catalogue)
Behind(chosen, i) == {k \in chosen : Older(k, i)}

LEMMA CatalogueTyped ==
    /\ Catalogue \in Seq(Entries)
    /\ \A i \in DOMAIN Catalogue : /\ i \in Nat /\ Catalogue[i] \in Entries
                                   /\ Catalogue[i].day \in Nat
<1>1. Catalogue \in Seq(Entries) /\ \A f \in Entries : f.day \in Nat
  BY ListingBounds DEF Entries
<1>2. \A i \in DOMAIN Catalogue : i \in Nat /\ Catalogue[i] \in Entries
  BY <1>1
<1> QED
  BY <1>1, <1>2

\* Older is a strict order of the catalogue.
LEMMA OlderIsTotal ==
    ASSUME NEW i \in DOMAIN Catalogue, NEW k \in DOMAIN Catalogue, i # k
    PROVE  Older(i, k) \/ Older(k, i)
BY CatalogueTyped DEF Older

LEMMA OlderIsTransitive ==
    ASSUME NEW i \in DOMAIN Catalogue, NEW k \in DOMAIN Catalogue, NEW m \in DOMAIN Catalogue,
           Older(i, k), Older(k, m)
    PROVE  Older(i, m)
BY CatalogueTyped DEF Older

LEMMA OlderIsIrreflexive ==
    ASSUME NEW i \in DOMAIN Catalogue
    PROVE  ~ Older(i, i)
BY CatalogueTyped DEF Older

LEMMA ChosenIsFinite ==
    ASSUME NEW chosen \in SUBSET DOMAIN Catalogue
    PROVE  IsFiniteSet(chosen) /\ Cardinality(chosen) \in Nat
<1>1. DOMAIN Catalogue = 1 .. Len(Catalogue) /\ Len(Catalogue) \in Nat
  BY CatalogueTyped, LenProperties
<1>2. IsFiniteSet(DOMAIN Catalogue)
  BY <1>1, FS_Interval
<1> QED
  BY <1>2, FS_Subset, FS_CardinalityType

\* The number of those behind it tells an entry from the others.
LEMMA BehindGrows ==
    ASSUME NEW chosen \in SUBSET DOMAIN Catalogue, NEW i \in chosen, NEW k \in chosen, Older(i, k)
    PROVE  Cardinality(Behind(chosen, i)) < Cardinality(Behind(chosen, k))
<1>1. Behind(chosen, i) \in SUBSET Behind(chosen, k)
  BY OlderIsTransitive DEF Behind
<1>2. i \in Behind(chosen, k) /\ i \notin Behind(chosen, i)
  BY OlderIsIrreflexive DEF Behind
<1>3. Behind(chosen, i) \in SUBSET DOMAIN Catalogue /\ Behind(chosen, k) \in SUBSET DOMAIN Catalogue
  BY DEF Behind
<1>4. IsFiniteSet(Behind(chosen, k)) /\ Cardinality(Behind(chosen, k)) \in Nat
      /\ Cardinality(Behind(chosen, i)) \in Nat
  BY <1>3, ChosenIsFinite
<1>5. /\ Cardinality(Behind(chosen, i)) <= Cardinality(Behind(chosen, k))
      /\ Cardinality(Behind(chosen, k)) = Cardinality(Behind(chosen, i))
           => Behind(chosen, k) = Behind(chosen, i)
  BY <1>1, <1>4, FS_Subset
<1> QED
  BY <1>2, <1>4, <1>5

LEMMA BehindIsBounded ==
    ASSUME NEW chosen \in SUBSET DOMAIN Catalogue, NEW i \in chosen
    PROVE  Cardinality(Behind(chosen, i)) \in 0 .. Cardinality(chosen) - 1
<1>1. IsFiniteSet(chosen) /\ Cardinality(chosen) \in Nat
  BY ChosenIsFinite
<1>2. IsFiniteSet(chosen \ {i}) /\ Cardinality(chosen \ {i}) = Cardinality(chosen) - 1
  BY <1>1, FS_RemoveElement
<1>3. Behind(chosen, i) \in SUBSET (chosen \ {i})
  BY OlderIsIrreflexive DEF Behind
<1>4. Cardinality(Behind(chosen, i)) <= Cardinality(chosen \ {i})
  BY <1>2, <1>3, FS_Subset
<1>5. Cardinality(Behind(chosen, i)) \in Nat
  BY ChosenIsFinite DEF Behind
<1> QED
  BY <1>1, <1>2, <1>4, <1>5

\* Every place in the order is taken.
LEMMA NthOldestIsThere ==
    ASSUME NEW chosen \in SUBSET DOMAIN Catalogue, NEW n \in 1 .. Cardinality(chosen)
    PROVE  NthOldest(chosen, n) \in chosen
<1> DEFINE place == [i \in chosen |-> Cardinality(Behind(chosen, i)) + 1]
           places == 1 .. Cardinality(chosen)
<1>1. IsFiniteSet(chosen) /\ Cardinality(chosen) \in Nat
  BY ChosenIsFinite
<1>2. \A i \in chosen : Cardinality(Behind(chosen, i)) \in 0 .. Cardinality(chosen) - 1
  BY BehindIsBounded
<1>3. place \in [chosen -> places]
  BY <1>1, <1>2
<1>4. \A i, k \in chosen : i # k => place[i] # place[k]
  <2> SUFFICES ASSUME NEW i \in chosen, NEW k \in chosen, i # k
               PROVE  place[i] # place[k]
    OBVIOUS
  <2>1. CASE Older(i, k)
    BY <2>1, <1>2, BehindGrows
  <2>2. CASE Older(k, i)
    BY <2>2, <1>2, BehindGrows
  <2> QED
    BY <2>1, <2>2, OlderIsTotal
<1>5. place \in Injection(chosen, places)
  BY <1>3, <1>4 DEF Injection, IsInjective
<1>6. IsFiniteSet(places) /\ Cardinality(places) = Cardinality(chosen)
  BY <1>1, FS_Interval
<1>7. place \in Surjection(chosen, places)
  BY <1>5, <1>6, FS_Injection
<1>8. PICK i \in chosen : place[i] = n
  BY <1>7 DEF Surjection
<1>9. Cardinality(Behind(chosen, i)) = n - 1
  BY <1>2, <1>8
<1> QED
  BY <1>9 DEF NthOldest, Behind

LEMMA OldestIsASequence ==
    ASSUME NEW chosen \in SUBSET DOMAIN Catalogue
    PROVE  OldestFirst(chosen) \in Seq(Entries)
<1>1. Cardinality(chosen) \in Nat
  BY ChosenIsFinite
<1>2. \A n \in 1 .. Cardinality(chosen) : Catalogue[NthOldest(chosen, n)] \in Entries
  BY NthOldestIsThere, CatalogueTyped
<1> QED
  BY <1>1, <1>2, IsASeq DEF OldestFirst

LEMMA FilesAreASequence ==
    ASSUME NEW d, NEW kind
    PROVE  FilesIn(d, kind) \in Seq(Entries)
BY OldestIsASequence DEF FilesIn

----------------------------------------------------------------------------
(* What a command line means.                                               *)

Spans == {s \in [kind : {"none", "dir", "all", "upload", "hold"}, dir : Nat] :
            s.kind = "none" => s = NoSpan}
Kinds == [show : {"full", "since", "newest", "none"}, reversed : BOOLEAN, from : Int, count : Nat]
Forms == {"help", "invalid", "dirs", "date", "query", "zippy dirs", "search", "scan"}
Modes == [form : Forms, span : Spans, kind : Kinds, quick : BOOLEAN, nonStop : BOOLEAN]

LEMMA SpanTyped == ASSUME NEW word PROVE SpanOf(word) \in Spans
<1>1. NoSpan \in Spans
  BY DEF Spans, NoSpan
<1>2. \A s : s = [kind |-> "all", dir |-> 0] \/ s = [kind |-> "upload", dir |-> 0]
             \/ s = [kind |-> "hold", dir |-> 0] => s \in Spans
  BY DEF Spans
<1>3. \A n \in Nat : [kind |-> "dir", dir |-> n] \in Spans
  BY DEF Spans
<1>4. word \in DOMAIN NumberOf => NumberOf[word] \in Nat
  BY WordsAssumption
<1> QED
  BY <1>1, <1>2, <1>3, <1>4 DEF SpanOf

LEMMA KindsTyped ==
    /\ \A reversed \in BOOLEAN : Full(reversed) \in Kinds
    /\ \A day \in Int : Since(day) \in Kinds
    /\ \A n \in Nat : Newest(n) \in Kinds
    /\ NoKind \in Kinds
BY DEF Kinds, Full, Since, Newest, NoKind

LEMMA RequestTyped == ASSUME NEW word PROVE RequestOf(word) \in Kinds
<1>1. Today \in Nat /\ LastCall \in Nat
  BY WordsAssumption
<1>2. /\ word \in DOMAIN DaysOf => DaysOf[word] \in Nat
      /\ word \in DOMAIN NewestOf => NewestOf[word] \in Nat
      /\ word \in DOMAIN DayOf => DayOf[word] \in Nat
  BY WordsAssumption
<1>3. Since(Today) \in Kinds /\ Since(LastCall) \in Kinds /\ NoKind \in Kinds
  BY <1>1, KindsTyped
<1>4. Full(TRUE) \in Kinds
  BY DEF Full, Kinds
<1>5. word \in DOMAIN DaysOf => Since(Today - DaysOf[word]) \in Kinds
  BY <1>1, <1>2, KindsTyped
<1>6. word \in DOMAIN NewestOf => Newest(NewestOf[word]) \in Kinds
  BY <1>2, KindsTyped
<1>7. word \in DOMAIN DayOf => Since(DayOf[word]) \in Kinds
  BY <1>2, KindsTyped
<1> QED
  BY <1>3, <1>4, <1>5, <1>6, <1>7 DEF RequestOf

LEMMA OtherTyped == ASSUME NEW form \in Forms PROVE Other(form) \in Modes
BY KindsTyped DEF Other, Modes, Spans, NoSpan

LEMMA ScanTyped ==
    ASSUME NEW span \in Spans, NEW kind \in Kinds, NEW switches
    PROVE  Scan(span, kind, switches) \in Modes
<1>1. Invalid \in Modes
  BY OtherTyped DEF Invalid, Forms
<1> DEFINE quick == "Q" \in Range(switches)
           nonStop == "NS" \in Range(switches)
<1>2. quick \in BOOLEAN /\ nonStop \in BOOLEAN
  OBVIOUS
<1>3. \A q \in BOOLEAN, n \in BOOLEAN :
        [form |-> "scan", span |-> span, kind |-> kind, quick |-> q, nonStop |-> n] \in Modes
  BY DEF Modes, Forms
<1>4. [form |-> "scan", span |-> span, kind |-> kind, quick |-> quick, nonStop |-> nonStop] \in Modes
  <2> HIDE DEF quick, nonStop
  <2> QED
    BY <1>2, <1>3
<1> QED
  BY <1>1, <1>4 DEF Scan

LEMMA FileListTyped == ASSUME NEW words PROVE FileList(words) \in Modes
<1>1. Help \in Modes /\ Invalid \in Modes /\ Other("dirs") \in Modes
  BY OtherTyped DEF Help, Invalid, Forms
<1>2. \A kind \in Kinds : [Other("dirs") EXCEPT !.kind = kind] \in Modes
  BY <1>1 DEF Modes
<1>3. \A b : b \in BOOLEAN => Full(b) \in Kinds
  BY KindsTyped
<1>4. \A word, kind, switches : kind \in Kinds => Scan(SpanOf(word), kind, switches) \in Modes
  BY SpanTyped, ScanTyped
<1> QED
  BY <1>1, <1>2, <1>3, <1>4 DEF FileList

LEMMA NewFilesTyped == ASSUME NEW words PROVE NewFiles(words) \in Modes
<1>1. Help \in Modes /\ Invalid \in Modes /\ Other("date") \in Modes
  BY OtherTyped DEF Help, Invalid, Forms
<1>2. Since(Today - 1) \in Kinds
  BY KindsTyped, WordsAssumption
<1>3. \A word : RequestOf(word) \in Kinds /\ SpanOf(word) \in Spans
  BY RequestTyped, SpanTyped
<1>4. \A span \in Spans, kind \in Kinds : \A switches : Scan(span, kind, switches) \in Modes
  BY ScanTyped
<1> QED
  BY <1>1, <1>2, <1>3, <1>4 DEF NewFiles

LEMMA ZippyTyped == ASSUME NEW words PROVE Zippy(words) \in Modes
<1>1. Other("query") \in Modes /\ Other("zippy dirs") \in Modes /\ Other("search") \in Modes
  BY OtherTyped DEF Forms
<1>2. \A span \in Spans : [Other("search") EXCEPT !.span = span] \in Modes
  BY <1>1 DEF Modes
<1> QED
  BY <1>1, <1>2, SpanTyped DEF Zippy

LEMMA CommandsAreModes == ASSUME NEW words \in Commands PROVE Parsed(words) \in Modes
<1>1. words[1] \in {"F", "FR", "N", "Z"}
  BY ListingBounds
<1> QED
  BY <1>1, FileListTyped, NewFilesTyped, ZippyTyped DEF Parsed

LEMMA AnswersAreKinds == ASSUME NEW word PROVE DateAnswer(word) \in Kinds
BY RequestTyped DEF DateAnswer

LEMMA PairMin ==
    ASSUME NEW a \in Int, NEW b \in Int
    PROVE  Min({a, b}) = IF a <= b THEN a ELSE b
<1> DEFINE smaller == IF a <= b THEN a ELSE b
<1>1. smaller \in {a, b} /\ \A y \in {a, b} : smaller <= y
  OBVIOUS
<1>2. \A x \in {a, b} : (\A y \in {a, b} : x <= y) => x = smaller
  OBVIOUS
<1> QED
  BY <1>1, <1>2 DEF Min

LEMMA PairMax ==
    ASSUME NEW a \in Int, NEW b \in Int
    PROVE  Max({a, b}) = IF a >= b THEN a ELSE b
<1> DEFINE larger == IF a >= b THEN a ELSE b
<1>1. larger \in {a, b} /\ \A y \in {a, b} : larger >= y
  OBVIOUS
<1>2. \A x \in {a, b} : (\A y \in {a, b} : x >= y) => x = larger
  OBVIOUS
<1> QED
  BY <1>1, <1>2 DEF Max

LEMMA ReverseTyped ==
    ASSUME NEW T, NEW s \in Seq(T)
    PROVE  Reverse(s) \in Seq(T)
<1>1. Len(s) \in Nat /\ \A i \in 1 .. Len(s) : s[(Len(s) - i) + 1] \in T
  OBVIOUS
<1> QED
  BY <1>1, IsASeq DEF Reverse

LEMMA RowsTyped ==
    ASSUME NEW d, NEW kind \in Kinds
    PROVE  Rows(d, kind) \in Seq(Entries)
<1>1. PICK all : all = FilesIn(d, kind)
  OBVIOUS
<1>2. all \in Seq(Entries) /\ Len(all) \in Nat
  BY <1>1, FilesAreASequence, LenProperties
<1>3. Reverse(all) \in Seq(Entries)
  BY <1>2, ReverseTyped
<1>4. kind.count \in Nat
  BY DEF Kinds
<1>5. PICK first : first = Len(all) - Min({Len(all), kind.count}) + 1
  OBVIOUS
<1>6. first \in 1 .. Len(all) + 1
  BY <1>2, <1>4, <1>5, PairMin
<1>7. SubSeq(all, first, Len(all)) \in Seq(Entries)
  BY <1>2, <1>6
<1> QED
  BY <1>1, <1>2, <1>3, <1>5, <1>7 DEF Rows

LEMMA HighestTyped == Areas \in Seq(Nat) /\ Highest \in Nat
<1>1. Areas \in Seq(Nat)
  BY ListingBounds
<1>2. Areas # <<>> => Areas[Len(Areas)] \in Nat
  BY <1>1
<1> QED
  BY <1>1, <1>2 DEF Highest, Last

LEMMA DirsTyped ==
    ASSUME NEW span \in Spans, span # NoSpan, NEW kind \in Kinds
    PROVE  DirsOf(span, kind) \in Seq(Nat)
<1>1. Reverse(Areas) \in Seq(Nat)
  BY HighestTyped, ReverseTyped
<1>2. Hold \in Nat
  BY HighestTyped DEF Hold
<1>3. span.kind \in {"dir", "all", "upload", "hold"} /\ span.dir \in Nat
  BY DEF Spans
<1>4. \A d \in Nat : <<d>> \in Seq(Nat)
  OBVIOUS
<1> QED
  BY <1>1, <1>2, <1>3, <1>4, HighestTyped DEF DirsOf

LEMMA AllDirsTyped == [d \in 1 .. Highest |-> d] \in Seq(Nat)
BY HighestTyped, IsASeq

----------------------------------------------------------------------------
(* Lines and their numbers.                                                 *)

Things == Files \cup {NoFile}
Lines == [file : Things, number : Nat, marked : BOOLEAN]

\* The numbered lines among them go on from m, one by one, up to n.
Numbering(lines, m, n) ==
    \E r \in [0 .. Len(lines) -> Nat] :
       /\ r[0] = m /\ r[Len(lines)] = n
       /\ \A j \in 1 .. Len(lines) :
            \/ lines[j].number = 0 /\ r[j] = r[j - 1]
            \/ lines[j].number = r[j - 1] + 1 /\ r[j] = r[j - 1] + 1
Continues(lines, m) == \E n \in Nat : Numbering(lines, m, n)
MarkedIn(lines, flags) == \A j \in DOMAIN lines : lines[j].marked => lines[j].file \in flags
Unnumbered(lines) == \A j \in DOMAIN lines : lines[j].number = 0 /\ lines[j].file = NoFile

LEMMA RawIsALine == Raw \in Lines /\ Raw.number = 0 /\ Raw.file = NoFile /\ Raw.marked = FALSE
BY DEF Raw, Lines, Things

LEMMA UnnumberedContinue ==
    ASSUME NEW lines \in Seq(Lines), NEW m \in Nat, \A j \in DOMAIN lines : lines[j].number = 0
    PROVE  Numbering(lines, m, m)
<1> DEFINE r == [j \in 0 .. Len(lines) |-> m]
<1>1. r \in [0 .. Len(lines) -> Nat] /\ r[0] = m /\ r[Len(lines)] = m
  BY LenProperties
<1>2. \A j \in 1 .. Len(lines) : lines[j].number = 0 /\ r[j] = r[j - 1]
  BY LenProperties
<1> QED
  BY <1>1, <1>2 DEF Numbering

LEMMA NumberingsJoin ==
    ASSUME NEW a \in Seq(Lines), NEW b \in Seq(Lines), NEW m \in Nat, NEW n \in Nat, NEW p \in Nat,
           Numbering(a, m, n), Numbering(b, n, p)
    PROVE  Numbering(a \o b, m, p)
<1>1. PICK r \in [0 .. Len(a) -> Nat] :
         /\ r[0] = m /\ r[Len(a)] = n
         /\ \A j \in 1 .. Len(a) : \/ a[j].number = 0 /\ r[j] = r[j - 1]
                                   \/ a[j].number = r[j - 1] + 1 /\ r[j] = r[j - 1] + 1
  BY DEF Numbering
<1>2. PICK q \in [0 .. Len(b) -> Nat] :
         /\ q[0] = n /\ q[Len(b)] = p
         /\ \A j \in 1 .. Len(b) : \/ b[j].number = 0 /\ q[j] = q[j - 1]
                                   \/ b[j].number = q[j - 1] + 1 /\ q[j] = q[j - 1] + 1
  BY DEF Numbering
<1>3. Len(a) \in Nat /\ Len(b) \in Nat /\ Len(a \o b) = Len(a) + Len(b)
  BY LenProperties, ConcatProperties
<1> DEFINE t == [j \in 0 .. Len(a \o b) |-> IF j <= Len(a) THEN r[j] ELSE q[j - Len(a)]]
<1>4. t \in [0 .. Len(a \o b) -> Nat]
  BY <1>3
<1>5. t[0] = m /\ t[Len(a \o b)] = p
  <2>1. t[0] = m
    BY <1>1, <1>3
  <2>2. Len(b) = 0 => t[Len(a \o b)] = p
    BY <1>1, <1>2, <1>3
  <2>3. Len(b) > 0 => t[Len(a \o b)] = p
    BY <1>2, <1>3
  <2>4. Len(b) = 0 \/ Len(b) > 0
    BY <1>3
  <2> HIDE DEF t
  <2> QED
    BY <2>1, <2>2, <2>3, <2>4
<1>6. ASSUME NEW j \in 1 .. Len(a \o b)
      PROVE  \/ (a \o b)[j].number = 0 /\ t[j] = t[j - 1]
             \/ (a \o b)[j].number = t[j - 1] + 1 /\ t[j] = t[j - 1] + 1
  <2>1. CASE j <= Len(a)
    <3>1. (a \o b)[j] = a[j]
      BY <2>1, <1>3, ConcatProperties
    <3>2. t[j] = r[j] /\ t[j - 1] = r[j - 1]
      BY <2>1, <1>3
    <3>3. j \in 1 .. Len(a)
      BY <2>1, <1>3
    <3>4. \/ a[j].number = 0 /\ r[j] = r[j - 1]
          \/ a[j].number = r[j - 1] + 1 /\ r[j] = r[j - 1] + 1
      BY <3>3, <1>1
    <3> HIDE DEF t
    <3> QED
      BY <3>1, <3>2, <3>4
  <2>2. CASE j > Len(a)
    <3>1. (a \o b)[j] = b[j - Len(a)]
      BY <2>2, <1>3, ConcatProperties
    <3>2. j - Len(a) \in 1 .. Len(b)
      BY <2>2, <1>3
    <3>3. t[j] = q[j - Len(a)]
      BY <2>2, <1>3
    <3>4. t[j - 1] = q[j - Len(a) - 1]
      <4>1. CASE j = Len(a) + 1
        <5>1. t[j - 1] = r[Len(a)] /\ j - Len(a) - 1 = 0
          BY <4>1, <1>3
        <5> QED
          BY <5>1, <1>1, <1>2
      <4>2. CASE j > Len(a) + 1
        <5>1. j - 1 > Len(a) /\ j - 1 \in 0 .. Len(a \o b) /\ (j - 1) - Len(a) = j - Len(a) - 1
          BY <4>2, <1>3
        <5> QED
          BY <5>1, <1>3
      <4> QED
        BY <4>1, <4>2, <2>2, <1>3
    <3> QED
      BY <3>1, <3>2, <3>3, <3>4, <1>2
  <2> QED
    BY <2>1, <2>2, <1>3
<1> QED
  BY <1>4, <1>5, <1>6 DEF Numbering

\* The first line is unnumbered, or has the next number.
LEMMA FirstContinues ==
    ASSUME NEW lines \in Seq(Lines), lines # <<>>, NEW m \in Nat, Continues(lines, m)
    PROVE  \/ Head(lines).number = 0 /\ Continues(Tail(lines), m)
           \/ Head(lines).number = m + 1 /\ Continues(Tail(lines), m + 1)
<1>1. PICK n \in Nat : Numbering(lines, m, n)
  BY DEF Continues
<1>2. PICK r \in [0 .. Len(lines) -> Nat] :
         /\ r[0] = m /\ r[Len(lines)] = n
         /\ \A j \in 1 .. Len(lines) : \/ lines[j].number = 0 /\ r[j] = r[j - 1]
                                       \/ lines[j].number = r[j - 1] + 1 /\ r[j] = r[j - 1] + 1
  BY <1>1 DEF Numbering
<1>3. /\ Len(lines) \in Nat \ {0} /\ Len(Tail(lines)) = Len(lines) - 1
      /\ Head(lines) = lines[1]
      /\ \A j \in 1 .. Len(lines) - 1 : Tail(lines)[j] = lines[j + 1]
  OBVIOUS
<1> DEFINE t == [j \in 0 .. Len(Tail(lines)) |-> r[j + 1]]
<1>4. t \in [0 .. Len(Tail(lines)) -> Nat] /\ t[0] = r[1] /\ t[Len(Tail(lines))] = n
  BY <1>2, <1>3
<1>5. ASSUME NEW j \in 1 .. Len(Tail(lines))
      PROVE  \/ Tail(lines)[j].number = 0 /\ t[j] = t[j - 1]
             \/ Tail(lines)[j].number = t[j - 1] + 1 /\ t[j] = t[j - 1] + 1
  <2>1. Tail(lines)[j] = lines[j + 1] /\ t[j] = r[j + 1] /\ t[j - 1] = r[j] /\ j + 1 \in 1 .. Len(lines)
    BY <1>3
  <2>2. (j + 1) - 1 = j
    BY <1>3
  <2> QED
    BY <2>1, <2>2, <1>2
<1>6. Continues(Tail(lines), r[1])
  BY <1>4, <1>5 DEF Numbering, Continues
<1>7. 1 \in 1 .. Len(lines) /\ 1 - 1 = 0
  BY <1>3
<1> QED
  BY <1>2, <1>3, <1>6, <1>7

----------------------------------------------------------------------------
(* The lines of a directory.                                                *)

\* Induction up to a bound: what holds of the first and goes on to the next.
LEMMA ReachesAll ==
    ASSUME NEW n \in Nat, NEW S, 1 \in S, \A k \in 1 .. n - 1 : k \in S => k + 1 \in S
    PROVE  \A k \in 1 .. n : k \in S
<1>1. PICK left : left = {k \in 1 .. n : k \notin S}
  OBVIOUS
<1>2. left \subseteq Nat
  BY <1>1
<1> SUFFICES ASSUME left # {}
             PROVE  FALSE
  BY <1>1
<1>3. PICK x \in left : \A y \in left : ~ (<<y, x>> \in OpToRel(<, Nat))
  BY <1>2, NatLessThanWellFounded, WFMin
<1>4. x \in 1 .. n /\ x \notin S
  BY <1>1, <1>3
<1>5. x \in Nat /\ x # 1
  BY <1>4
<1>6. x - 1 \in 1 .. n - 1 /\ x - 1 \in Nat /\ x - 1 < x /\ (x - 1) + 1 = x /\ x - 1 \in 1 .. n
  BY <1>4, <1>5
<1>7. x - 1 \notin S
  BY <1>4, <1>6
<1>8. <<x - 1, x>> \in OpToRel(<, Nat)
  BY <1>5, <1>6 DEF OpToRel
<1>9. x - 1 \in left
  BY <1>1, <1>6, <1>7
<1> QED
  BY <1>3, <1>8, <1>9

Joins(g, blocks, m) ==
    /\ g[1] = blocks[1]
    /\ \A i \in 2 .. m : g[i] = g[i - 1] \o blocks[i]

LEMMA JoinsExist ==
    ASSUME NEW T, NEW blocks \in Seq(Seq(T)), blocks # <<>>
    PROVE  \E g \in [1 .. Len(blocks) -> Seq(T)] : Joins(g, blocks, Len(blocks))
<1> DEFINE S == {m \in Nat : \E g \in [1 .. m -> Seq(T)] : Joins(g, blocks, m)}
<1>1. Len(blocks) \in Nat \ {0} /\ \A i \in 1 .. Len(blocks) : blocks[i] \in Seq(T)
  OBVIOUS
<1>2. 1 \in S
  <2>1. PICK g : g = [i \in 1 .. 1 |-> blocks[1]]
    OBVIOUS
  <2>2. g \in [1 .. 1 -> Seq(T)] /\ Joins(g, blocks, 1)
    BY <2>1, <1>1 DEF Joins
  <2> QED
    BY <2>2
<1>3. ASSUME NEW k \in 1 .. Len(blocks) - 1, k \in S
      PROVE  k + 1 \in S
  <2>1. PICK g \in [1 .. k -> Seq(T)] : Joins(g, blocks, k)
    BY <1>3
  <2>2. PICK h : h = [i \in 1 .. k + 1 |-> IF i = k + 1 THEN g[k] \o blocks[k + 1] ELSE g[i]]
    OBVIOUS
  <2>3. g[k] \in Seq(T) /\ blocks[k + 1] \in Seq(T) /\ k \in Nat /\ k + 1 \in Nat
    BY <1>1
  <2>4. g[k] \o blocks[k + 1] \in Seq(T)
    BY <2>3
  <2>5. h \in [1 .. k + 1 -> Seq(T)]
    BY <2>2, <2>3, <2>4
  <2>6. h[1] = blocks[1]
    BY <2>1, <2>2, <2>3 DEF Joins
  <2>7. ASSUME NEW i \in 2 .. k + 1
        PROVE  h[i] = h[i - 1] \o blocks[i]
    <3>1. CASE i = k + 1
      <4>1. i - 1 = k /\ k \in 1 .. k + 1 /\ k + 1 \in 1 .. k + 1 /\ k # k + 1
        BY <3>1, <2>3
      <4>2. h[k] = g[k] /\ h[k + 1] = g[k] \o blocks[k + 1]
        BY <4>1, <2>2
      <4> QED
        BY <3>1, <4>1, <4>2
    <3>2. CASE i # k + 1
      <4>1. i \in 2 .. k /\ i - 1 \in 1 .. k /\ i - 1 # k + 1
        BY <3>2, <2>3
      <4>2. h[i] = g[i] /\ h[i - 1] = g[i - 1]
        BY <3>2, <4>1, <2>2, <2>3
      <4> QED
        BY <4>1, <4>2, <2>1 DEF Joins
    <3> QED
      BY <3>1, <3>2
  <2> QED
    BY <2>3, <2>5, <2>6, <2>7 DEF Joins
<1>4. \A k \in 1 .. Len(blocks) : k \in S
  <2> HIDE DEF S
  <2>1. \A k \in 1 .. Len(blocks) - 1 : k \in S => k + 1 \in S
    BY <1>3
  <2> QED
    BY <1>1, <1>2, <2>1, ReachesAll
<1>5. Len(blocks) \in S
  BY <1>1, <1>4
<1> QED
  BY <1>5

LEMMA FlattenedIsJoined ==
    ASSUME NEW T, NEW blocks \in Seq(Seq(T)), blocks # <<>>
    PROVE  \E g \in [1 .. Len(blocks) -> Seq(T)] :
              Joins(g, blocks, Len(blocks)) /\ FlattenSeq(blocks) = g[Len(blocks)]
<1> DEFINE Made(f) == [i \in 1 .. Len(blocks) |-> IF i = 1 THEN blocks[i] ELSE f[i - 1] \o blocks[i]]
           flat == CHOOSE f : f = Made(f)
<1>1. Len(blocks) \in Nat \ {0}
  OBVIOUS
<1>2. PICK g \in [1 .. Len(blocks) -> Seq(T)] : Joins(g, blocks, Len(blocks))
  BY JoinsExist
<1>3. g = Made(g)
  <2>1. ASSUME NEW i \in 1 .. Len(blocks)
        PROVE  g[i] = Made(g)[i]
    <3>1. CASE i = 1
      BY <3>1, <1>2 DEF Joins
    <3>2. CASE i # 1
      <4>1. i \in 2 .. Len(blocks)
        BY <3>2, <1>1
      <4>2. g[i] = g[i - 1] \o blocks[i]
        BY <4>1, <1>2, Zenon DEF Joins
      <4> QED
        BY <3>2, <4>2
    <3> QED
      BY <3>1, <3>2
  <2>2. DOMAIN Made(g) = 1 .. Len(blocks) /\ Made(g) = [i \in DOMAIN Made(g) |-> Made(g)[i]]
    OBVIOUS
  <2> QED
    BY <2>1, <2>2
<1>4. flat = Made(flat)
  BY <1>3, Zenon
<1>5. FlattenSeq(blocks) = flat[Len(blocks)]
  BY <1>1 DEF FlattenSeq
<1> DEFINE S == {i \in Nat : i \in 1 .. Len(blocks) => flat[i] = g[i]}
<1>6. 1 \in S
  <2>1. Made(flat)[1] = blocks[1]
    <3> HIDE DEF flat
    <3>1. 1 \in 1 .. Len(blocks)
      BY <1>1
    <3> QED
      BY <3>1
  <2>2. flat[1] = blocks[1]
    BY <1>4, <2>1, Zenon
  <2> QED
    BY <1>2, <2>2 DEF Joins
<1>7. ASSUME NEW k \in 1 .. Len(blocks) - 1, k \in S
      PROVE  k + 1 \in S
  <2>1. k \in 1 .. Len(blocks) /\ k + 1 \in 2 .. Len(blocks) /\ k + 1 \in Nat /\ (k + 1) - 1 = k
        /\ k + 1 \in 1 .. Len(blocks)
    BY <1>1
  <2>2. flat[k] = g[k]
    BY <1>7, <2>1
  <2>3. g[k + 1] = g[(k + 1) - 1] \o blocks[k + 1]
    BY <1>2, <2>1 DEF Joins
  <2>4. Made(flat)[k + 1] = flat[(k + 1) - 1] \o blocks[k + 1]
    <3> HIDE DEF flat
    <3>1. k + 1 # 1
      BY <2>1
    <3> QED
      BY <2>1, <3>1
  <2>5. flat[k + 1] = flat[(k + 1) - 1] \o blocks[k + 1]
    BY <1>4, <2>4, Zenon
  <2>6. flat[k + 1] = g[k + 1]
    <3> HIDE DEF flat
    <3> QED
      BY <2>1, <2>2, <2>3, <2>5
  <2> QED
    BY <2>1, <2>6
<1>8. Len(blocks) \in S
  <2> HIDE DEF S
  <2>1. \A k \in 1 .. Len(blocks) - 1 : k \in S => k + 1 \in S
    BY <1>7
  <2>2. \A k \in 1 .. Len(blocks) : k \in S
    BY <1>1, <1>6, <2>1, ReachesAll
  <2> QED
    BY <1>1, <2>2
<1>9. flat[Len(blocks)] = g[Len(blocks)]
  BY <1>1, <1>8
<1> QED
  BY <1>2, <1>5, <1>9

LEMMA MarksJoin ==
    ASSUME NEW a \in Seq(Lines), NEW b \in Seq(Lines), NEW flags, MarkedIn(a, flags), MarkedIn(b, flags)
    PROVE  MarkedIn(a \o b, flags)
<1> SUFFICES ASSUME NEW j \in 1 .. Len(a) + Len(b)
             PROVE  (a \o b)[j].marked => (a \o b)[j].file \in flags
  BY ConcatProperties DEF MarkedIn
<1>1. Len(a) \in Nat /\ Len(b) \in Nat
  OBVIOUS
<1>2. CASE j <= Len(a)
  BY <1>1, <1>2, ConcatProperties DEF MarkedIn
<1>3. CASE j > Len(a)
  <2>1. j - Len(a) \in DOMAIN b /\ (a \o b)[j] = b[j - Len(a)]
    BY <1>1, <1>3, ConcatProperties
  <2> QED
    BY <2>1 DEF MarkedIn
<1> QED
  BY <1>1, <1>2, <1>3

Framed(files, i) == {k \in 1 .. i : files[k].framed}

LEMMA FramedCounts ==
    ASSUME NEW files, NEW i \in Nat \ {0}
    PROVE  /\ Cardinality(Framed(files, i - 1)) \in Nat
           /\ Cardinality(Framed(files, i)) = IF files[i].framed THEN Cardinality(Framed(files, i - 1)) + 1
                                              ELSE Cardinality(Framed(files, i - 1))
<1>1. IsFiniteSet(1 .. i - 1)
  BY FS_Interval
<1>2. Framed(files, i - 1) \in SUBSET (1 .. i - 1)
  BY DEF Framed
<1>3. IsFiniteSet(Framed(files, i - 1)) /\ Cardinality(Framed(files, i - 1)) \in Nat
  BY <1>1, <1>2, FS_Subset, FS_CardinalityType
<1>4. i \notin Framed(files, i - 1)
  BY <1>2
<1>5. CASE files[i].framed
  <2>1. Framed(files, i) = Framed(files, i - 1) \cup {i}
    BY <1>5 DEF Framed
  <2> QED
    BY <1>3, <1>4, <1>5, <2>1, FS_AddElement
<1>6. CASE ~ files[i].framed
  <2>1. Framed(files, i) = Framed(files, i - 1)
    BY <1>6 DEF Framed
  <2> QED
    BY <1>3, <1>6, <2>1
<1> QED
  BY <1>5, <1>6

LEMMA FileLinesTyped ==
    ASSUME NEW files \in Seq(Entries), NEW i \in 1 .. Len(files), NEW flags, NEW quick
    PROVE  /\ FileLines(files, i, flags, quick) \in Seq(Lines)
           /\ MarkedIn(FileLines(files, i, flags, quick), flags)
           /\ Numbering(FileLines(files, i, flags, quick),
                        Cardinality(Framed(files, i - 1)), Cardinality(Framed(files, i)))
<1>1. i \in Nat \ {0}
  OBVIOUS
<1>2. PICK f : f = files[i]
  OBVIOUS
<1>3. f \in Entries
  BY <1>2, ElementOfSeq
<1>4. f.name \in Things /\ f.rows \in Nat \ {0} /\ Separator \in Nat
  BY <1>3, ListingBounds DEF Entries, Things
<1>5. PICK m : m = Cardinality(Framed(files, i - 1))
  OBVIOUS
<1>6. PICK n : n = Cardinality(Framed(files, i))
  OBVIOUS
<1>7. m \in Nat /\ n = IF f.framed THEN m + 1 ELSE m
  BY <1>1, <1>2, <1>5, <1>6, FramedCounts
<1>8. PICK row : row = [file |-> f.name, number |-> IF f.framed THEN n ELSE 0,
                        marked |-> f.name \in flags]
  OBVIOUS
<1>9. /\ row.file = f.name /\ row.number = (IF f.framed THEN n ELSE 0)
      /\ row.marked => row.file \in flags
  BY <1>8
<1>10. row \in Lines
  <2>1. (f.name \in flags) \in BOOLEAN /\ (IF f.framed THEN n ELSE 0) \in Nat
    BY <1>7
  <2>2. \A b \in BOOLEAN, k \in Nat : [file |-> f.name, number |-> k, marked |-> b] \in Lines
    BY <1>4 DEF Lines
  <2>3. PICK b : b = (f.name \in flags)
    OBVIOUS
  <2>4. row = [file |-> f.name, number |-> IF f.framed THEN n ELSE 0, marked |-> b] /\ b \in BOOLEAN
    BY <1>8, <2>3
  <2> QED
    BY <2>1, <2>2, <2>4
<1>11. PICK above : above = (IF f.framed /\ \A k \in Framed(files, i) \ {i} : files[k].day # f.day
                               THEN Separator ELSE 0) + (IF f.framed THEN 1 ELSE 0)
  OBVIOUS
<1>12. PICK below : below = IF quick THEN 0 ELSE f.rows - 1
  OBVIOUS
<1>13. above \in Nat /\ below \in Nat
  BY <1>4, <1>11, <1>12
<1>14. PICK lines : lines = [k \in 1 .. above + 1 + below |-> IF k = above + 1 THEN row ELSE Raw]
  OBVIOUS
<1>15. FileLines(files, i, flags, quick) = lines
  BY <1>2, <1>6, <1>8, <1>11, <1>12, <1>14 DEF FileLines, Framed
<1>16. lines \in Seq(Lines) /\ Len(lines) = above + 1 + below
  <2>1. \A k \in 1 .. above + 1 + below : (IF k = above + 1 THEN row ELSE Raw) \in Lines
    BY <1>10, RawIsALine
  <2> QED
    BY <1>13, <1>14, <2>1, IsASeq
<1>17. \A k \in DOMAIN lines : lines[k] = row \/ lines[k] = Raw
  BY <1>14
<1>18. MarkedIn(lines, flags)
  BY <1>9, <1>17, RawIsALine DEF MarkedIn
<1>19. Numbering(lines, m, n)
  <2>1. PICK r : r = [k \in 0 .. Len(lines) |-> IF k <= above THEN m ELSE n]
    OBVIOUS
  <2>2. r \in [0 .. Len(lines) -> Nat] /\ r[0] = m /\ r[Len(lines)] = n
    BY <2>1, <1>7, <1>13, <1>16
  <2>3. ASSUME NEW k \in 1 .. Len(lines)
        PROVE  \/ lines[k].number = 0 /\ r[k] = r[k - 1]
               \/ lines[k].number = r[k - 1] + 1 /\ r[k] = r[k - 1] + 1
    <3>1. CASE k = above + 1
      <4>1. lines[k] = row /\ r[k - 1] = m /\ r[k] = n
        BY <3>1, <2>1, <1>13, <1>14, <1>16
      <4> QED
        BY <4>1, <1>7, <1>9
    <3>2. CASE k # above + 1
      <4>1. lines[k] = Raw /\ r[k] = r[k - 1]
        BY <3>2, <2>1, <1>13, <1>14, <1>16
      <4> QED
        BY <4>1, RawIsALine
    <3> QED
      BY <3>1, <3>2
  <2> QED
    BY <2>2, <2>3 DEF Numbering
<1> QED
  BY <1>5, <1>6, <1>15, <1>16, <1>18, <1>19

\* The lines of a directory are numbered from one, and those marked are flagged.
LEMMA AssembledTyped ==
    ASSUME NEW files \in Seq(Entries), NEW flags, NEW quick
    PROVE  /\ Assembled(files, flags, quick) \in Seq(Lines)
           /\ Assembled(files, flags, quick) # <<>>
           /\ MarkedIn(Assembled(files, flags, quick), flags)
           /\ Continues(Assembled(files, flags, quick), 0)
<1>1. PICK blocks : blocks = [i \in DOMAIN files |-> FileLines(files, i, flags, quick)]
  OBVIOUS
<1>2. PICK body : body = FlattenSeq(blocks)
  OBVIOUS
<1>3. Assembled(files, flags, quick) = Append(body, Raw)
  BY <1>1, <1>2 DEF Assembled
<1>4. DOMAIN files = 1 .. Len(files) /\ Len(files) \in Nat
  BY LenProperties
<1>5. \A i \in 1 .. Len(files) :
        /\ blocks[i] \in Seq(Lines) /\ MarkedIn(blocks[i], flags)
        /\ Numbering(blocks[i], Cardinality(Framed(files, i - 1)), Cardinality(Framed(files, i)))
  BY <1>1, <1>4, FileLinesTyped
<1>6. blocks \in Seq(Seq(Lines)) /\ Len(blocks) = Len(files)
  BY <1>1, <1>4, <1>5, IsASeq
<1>7. body \in Seq(Lines) /\ MarkedIn(body, flags) /\ \E n \in Nat : Numbering(body, 0, n)
  <2>1. CASE blocks = <<>>
    <3>1. body = <<>>
      BY <2>1, <1>2 DEF FlattenSeq
    <3>2. body \in Seq(Lines) /\ \A j \in DOMAIN body : FALSE
      BY <3>1
    <3>3. Numbering(body, 0, 0)
      BY <3>2, UnnumberedContinue
    <3> QED
      BY <3>2, <3>3 DEF MarkedIn
  <2>2. CASE blocks # <<>>
    <3>1. PICK g \in [1 .. Len(blocks) -> Seq(Lines)] :
             Joins(g, blocks, Len(blocks)) /\ body = g[Len(blocks)]
      BY <2>2, <1>2, <1>6, FlattenedIsJoined
    <3>2. PICK S : S = {i \in 1 .. Len(blocks) :
                          MarkedIn(g[i], flags) /\ Numbering(g[i], 0, Cardinality(Framed(files, i)))}
      OBVIOUS
    <3>3. Len(blocks) \in Nat \ {0}
      BY <2>2, <1>6
    <3>4. Cardinality(Framed(files, 0)) = 0
      <4>1. Framed(files, 0) = {}
        BY DEF Framed
      <4> QED
        BY <4>1, FS_EmptySet
    <3>5. 1 \in S
      <4>1. 1 \in 1 .. Len(files) /\ 1 - 1 = 0
        BY <1>6, <3>3
      <4> QED
        BY <4>1, <1>5, <1>6, <3>1, <3>2, <3>4 DEF Joins
    <3>6. ASSUME NEW k \in 1 .. Len(blocks) - 1, k \in S
          PROVE  k + 1 \in S
      <4>1. /\ k + 1 \in 1 .. Len(files) /\ k + 1 \in 2 .. Len(blocks) /\ (k + 1) - 1 = k
            /\ k \in 1 .. Len(blocks) /\ k + 1 \in Nat \ {0} /\ k + 1 \in 1 .. Len(blocks)
            /\ (k + 1) + 1 \in Nat \ {0} /\ ((k + 1) + 1) - 1 = k + 1
        BY <1>6, <3>3
      <4>2. g[k + 1] = g[k] \o blocks[k + 1]
        BY <4>1, <3>1 DEF Joins
      <4>3. g[k] \in Seq(Lines) /\ blocks[k + 1] \in Seq(Lines)
        BY <4>1, <1>5, <3>1
      <4>4. /\ MarkedIn(g[k], flags) /\ Numbering(g[k], 0, Cardinality(Framed(files, k)))
            /\ MarkedIn(blocks[k + 1], flags)
            /\ Numbering(blocks[k + 1], Cardinality(Framed(files, k)), Cardinality(Framed(files, k + 1)))
        BY <4>1, <1>5, <3>2, <3>6
      <4>5. Cardinality(Framed(files, k)) \in Nat /\ Cardinality(Framed(files, k + 1)) \in Nat
        <5>1. Cardinality(Framed(files, (k + 1) - 1)) \in Nat
          BY <4>1, FramedCounts
        <5>2. Cardinality(Framed(files, ((k + 1) + 1) - 1)) \in Nat
          BY <4>1, FramedCounts
        <5> QED
          BY <4>1, <5>1, <5>2
      <4>6. Numbering(g[k + 1], 0, Cardinality(Framed(files, k + 1)))
        BY <4>2, <4>3, <4>4, <4>5, NumberingsJoin
      <4>7. MarkedIn(g[k + 1], flags)
        BY <4>2, <4>3, <4>4, MarksJoin
      <4> QED
        BY <4>1, <4>6, <4>7, <3>2
    <3>7. Len(blocks) \in S
      <4>1. \A k \in 1 .. Len(blocks) : k \in S
        BY <3>3, <3>5, <3>6, ReachesAll
      <4> QED
        BY <3>3, <4>1
    <3>8. Cardinality(Framed(files, Len(blocks))) \in Nat
      <4>1. Len(blocks) + 1 \in Nat \ {0} /\ (Len(blocks) + 1) - 1 = Len(blocks)
        BY <3>3
      <4>2. Cardinality(Framed(files, (Len(blocks) + 1) - 1)) \in Nat
        BY <4>1, FramedCounts
      <4> QED
        BY <4>1, <4>2
    <3>9. g[Len(blocks)] \in Seq(Lines)
      BY <3>1, <3>3
    <3> QED
      BY <3>1, <3>2, <3>7, <3>8, <3>9
  <2> QED
    BY <2>1, <2>2
<1>8. PICK n \in Nat : Numbering(body, 0, n)
  BY <1>7
<1>9. <<Raw>> \in Seq(Lines) /\ Numbering(<<Raw>>, n, n) /\ MarkedIn(<<Raw>>, flags)
  <2>1. <<Raw>> \in Seq(Lines) /\ \A j \in DOMAIN <<Raw>> : <<Raw>>[j] = Raw
    BY RawIsALine
  <2> QED
    BY <2>1, RawIsALine, UnnumberedContinue DEF MarkedIn
<1>10. Append(body, Raw) = body \o <<Raw>>
  BY <1>7, RawIsALine, AppendIsConcat
<1>11. Append(body, Raw) \in Seq(Lines) /\ Append(body, Raw) # <<>>
  BY <1>7, RawIsALine, AppendProperties
<1>12. Numbering(body \o <<Raw>>, 0, n) /\ MarkedIn(body \o <<Raw>>, flags)
  BY <1>7, <1>8, <1>9, NumberingsJoin, MarksJoin
<1> QED
  BY <1>3, <1>8, <1>10, <1>11, <1>12 DEF Continues

----------------------------------------------------------------------------
(* The invariant.                                                           *)

Prompts == {"more", "held", "confirm", "names", "numbers"}
Parts == {"banner", "header", "blank", "body", "end"}
Scans == [mode : Modes, ansi : BOOLEAN, dirs : Seq(Nat), part : Parts, todo : Seq(Lines),
          emitted : Nat, nonStop : BOOLEAN, page : Seq(Lines), displayed : Seq(Things)]
Pagers == [lines : Nat, nonStop : BOOLEAN, length : Nat]
Phases == {"away"} \cup MenuPhases \cup ListingPhases \cup MailPhases

TypeOK ==
    /\ at \in [Calls -> Phases]
    /\ flagged \in [Calls -> SUBSET Things]
    /\ basis \in [Calls -> [stored : SUBSET Things, kept : BOOLEAN]]
    /\ saved \in SUBSET Things
    /\ asked \in Programs
    /\ scan \in Scans /\ screen \in Seq(Lines) /\ unread \in Nat /\ pager \in Pagers

\* Who lists anything is the one call of his program.
Calling(c) == /\ at[c] # "away" => c \in asked.calls
              /\ Listing(c) => "list" \in asked.commands
              /\ at[c] \in MailPhases => "mail" \in asked.commands

\* A set that was restored and never cleared still holds what was restored.
Building(c) == at[c] # "away" /\ basis[c].kept => basis[c].stored \subseteq flagged[c]

\* Of a listing s in phase p, with these lines on the screen, so many of them
\* unread, and these files flagged.  What is written since the last pause is
\* counted, and fits the page.
Counted(p, s, count) ==
    IF s.nonStop THEN count = 0 /\ p \notin Prompts
    ELSE /\ count = s.emitted /\ s.emitted <= PageLines
         /\ p \notin Prompts => s.emitted < PageLines

\* Until the rows of a directory are written there is nothing to choose from;
\* the lines to come go on with the numbers of those shown.
Numbered(s, lines) ==
    /\ s.part # "banner" => s.dirs # <<>>
    /\ s.part \in {"banner", "header", "blank"} => s.displayed = <<>> /\ Unnumbered(s.todo)
    /\ s.part = "banner" => /\ \A j \in DOMAIN lines : lines[j].file = NoFile
                            /\ \A j \in DOMAIN s.page : s.page[j].file = NoFile
    /\ Continues(s.todo, Len(s.displayed))

\* The page is done with, and the next line begins another.
Stale(p, s) ==
    /\ s.emitted = 0 /\ p \notin Prompts
    /\ s.todo # <<>> \/ s.part \notin {"body", "end"}
PageTrue(page, displayed) ==
    \A j \in DOMAIN page : page[j].number > 0 =>
        page[j].number \in DOMAIN displayed /\ displayed[page[j].number] = page[j].file
\* The page is what stands at the foot of the screen.
AtFoot(page, lines) ==
    /\ Len(page) <= Len(lines)
    /\ \A j \in DOMAIN page : lines[Len(lines) - Len(page) + j].file = page[j].file
Fits(s) == Len(s.page) <= PageLines /\ (s.emitted > 0 => Len(s.page) <= s.emitted)
Paged(p, s, lines) ==
    ~ s.nonStop =>
        /\ Fits(s)
        /\ Stale(p, s) \/ PageTrue(s.page, s.displayed)
        /\ Stale(p, s) \/ AtFoot(s.page, lines) \/ (s.emitted = 0 /\ lines = <<>>)

Marked(s, lines, flags) ==
    MarkedIn(s.todo, flags) /\ MarkedIn(s.page, flags) /\ MarkedIn(lines, flags)

Fine(p, s, lines, count, flags) ==
    Counted(p, s, count) /\ Numbered(s, lines) /\ Paged(p, s, lines) /\ Marked(s, lines, flags)

\* Nothing is on the screen but a listing, and the questions before one are
\* asked, and searches made, before any line of it.
Asking == {"date", "query", "zippy dirs", "search"}
Quiet(c) == /\ c \in asked.calls /\ (~ Listing(c) \/ at[c] \in Asking) => screen = <<>>
            /\ at[c] \in Asking => unread = 0
            /\ at[c] \in Asking \cup {"dirs"} => scan.part = "banner"

\* Of a listing of mail: the lines counted are those since the last pause.
Told(p, pg, count) ==
    /\ p = "start" => count = 0
    /\ p = "rows" => IF pg.nonStop THEN count = 0
                     ELSE count = pg.lines /\ (pg.lines < pg.length \/ pg.lines <= HeaderLines)
    /\ p = "pause" => /\ ~ pg.nonStop /\ pg.lines = 0
                      /\ count <= pg.length \/ count <= HeaderLines + 1

CallOK(c) == /\ Calling(c) /\ Building(c) /\ Quiet(c)
             /\ Listing(c) => Fine(at[c], scan, screen, unread, flagged[c])
             /\ at[c] \in MailPhases => Told(at[c], pager, unread)
Consistent == TypeOK /\ \A c \in Calls : CallOK(c)

----------------------------------------------------------------------------
(* Lines on the screen.                                                     *)

LEMMA RecentKeepsTheLast ==
    ASSUME NEW lines \in Seq(Lines)
    PROVE  /\ Recent(lines) \in Seq(Lines) /\ Len(Recent(lines)) <= Len(lines)
           /\ Len(Recent(lines)) = Len(lines) \/ Len(Recent(lines)) = PageLines + 1
           /\ \A k \in 1 .. Len(Recent(lines)) :
                Recent(lines)[k] = lines[Len(lines) - Len(Recent(lines)) + k]
<1>1. Len(lines) \in Nat /\ PageLines \in Nat
  BY ListingBounds
<1>2. CASE Len(lines) <= PageLines + 1
  BY <1>1, <1>2 DEF Recent
<1>3. CASE Len(lines) > PageLines + 1
  <2>1. PICK first : first = Len(lines) - PageLines
    OBVIOUS
  <2>2. Recent(lines) = SubSeq(lines, first, Len(lines))
    BY <1>1, <1>3, <2>1 DEF Recent
  <2>3. first \in 1 .. Len(lines) /\ Len(lines) \in 1 .. Len(lines)
    BY <1>1, <1>3, <2>1
  <2>4. /\ SubSeq(lines, first, Len(lines)) \in Seq(Lines)
        /\ Len(SubSeq(lines, first, Len(lines))) = Len(lines) - first + 1
        /\ \A k \in 1 .. Len(lines) - first + 1 :
             SubSeq(lines, first, Len(lines))[k] = lines[first + k - 1]
    BY <2>3, <1>1
  <2>5. Len(Recent(lines)) = PageLines + 1 /\ Len(Recent(lines)) <= Len(lines)
        /\ Recent(lines) \in Seq(Lines)
    BY <1>1, <1>3, <2>1, <2>2, <2>4
  <2>6. ASSUME NEW k \in 1 .. Len(Recent(lines))
        PROVE  Recent(lines)[k] = lines[Len(lines) - Len(Recent(lines)) + k]
    <3>1. k \in 1 .. Len(lines) - first + 1 /\ first + k - 1 = Len(lines) - Len(Recent(lines)) + k
      BY <1>1, <2>1, <2>5
    <3> QED
      BY <3>1, <2>2, <2>4
  <2> QED
    BY <2>5, <2>6
<1> QED
  BY <1>1, <1>2, <1>3

LEMMA RecentMarks ==
    ASSUME NEW lines \in Seq(Lines), NEW flags, MarkedIn(lines, flags)
    PROVE  MarkedIn(Recent(lines), flags)
<1>1. PICK kept : kept = Recent(lines)
  OBVIOUS
<1>2. /\ kept \in Seq(Lines) /\ Len(kept) <= Len(lines)
      /\ \A k \in 1 .. Len(kept) : kept[k] = lines[Len(lines) - Len(kept) + k]
  BY <1>1, RecentKeepsTheLast
<1>3. \A k \in 1 .. Len(kept) : Len(lines) - Len(kept) + k \in DOMAIN lines
  BY <1>2
<1> QED
  BY <1>1, <1>2, <1>3 DEF MarkedIn

LEMMA RecentFiles ==
    ASSUME NEW lines \in Seq(Lines), \A j \in DOMAIN lines : lines[j].file = NoFile
    PROVE  \A j \in DOMAIN Recent(lines) : Recent(lines)[j].file = NoFile
<1>1. PICK kept : kept = Recent(lines)
  OBVIOUS
<1>2. /\ kept \in Seq(Lines) /\ Len(kept) <= Len(lines)
      /\ \A k \in 1 .. Len(kept) : kept[k] = lines[Len(lines) - Len(kept) + k]
  BY <1>1, RecentKeepsTheLast
<1>3. \A k \in 1 .. Len(kept) : Len(lines) - Len(kept) + k \in DOMAIN lines
  BY <1>2
<1> QED
  BY <1>1, <1>2, <1>3

LEMMA RecentFoot ==
    ASSUME NEW page \in Seq(Lines), NEW lines \in Seq(Lines), AtFoot(page, lines),
           Len(page) <= PageLines + 1
    PROVE  AtFoot(page, Recent(lines))
<1>1. PICK kept : kept = Recent(lines)
  OBVIOUS
<1>2. /\ kept \in Seq(Lines) /\ Len(kept) <= Len(lines)
      /\ Len(kept) = Len(lines) \/ Len(kept) = PageLines + 1
      /\ \A k \in 1 .. Len(kept) : kept[k] = lines[Len(lines) - Len(kept) + k]
  BY <1>1, RecentKeepsTheLast
<1>3. Len(page) \in Nat /\ Len(lines) \in Nat /\ Len(kept) \in Nat /\ PageLines \in Nat
      /\ DOMAIN page = 1 .. Len(page)
  BY <1>2, ListingBounds
<1>4. Len(page) <= Len(kept)
  BY <1>2, <1>3 DEF AtFoot
<1>5. ASSUME NEW j \in DOMAIN page
      PROVE  kept[Len(kept) - Len(page) + j].file = page[j].file
  <2>1. PICK k : k = Len(kept) - Len(page) + j
    OBVIOUS
  <2>2. k \in 1 .. Len(kept) /\ Len(lines) - Len(kept) + k = Len(lines) - Len(page) + j
    BY <2>1, <1>3, <1>4
  <2>3. kept[k] = lines[Len(lines) - Len(page) + j]
    BY <2>2, <1>2
  <2> QED
    BY <2>1, <2>3 DEF AtFoot
<1> QED
  BY <1>1, <1>4, <1>5 DEF AtFoot

LEMMA AppendsAtFoot ==
    ASSUME NEW page \in Seq(Lines), NEW lines \in Seq(Lines), NEW line \in Lines, AtFoot(page, lines)
    PROVE  AtFoot(Append(page, line), Append(lines, line))
<1>1. PICK more : more = Append(page, line)
  OBVIOUS
<1>2. PICK long : long = Append(lines, line)
  OBVIOUS
<1>3. /\ Len(more) = Len(page) + 1 /\ Len(long) = Len(lines) + 1 /\ DOMAIN more = 1 .. Len(page) + 1
      /\ Len(page) \in Nat /\ Len(lines) \in Nat /\ Len(page) <= Len(lines)
      /\ \A j \in 1 .. Len(page) : more[j] = page[j]
      /\ \A j \in 1 .. Len(lines) : long[j] = lines[j]
      /\ more[Len(page) + 1] = line /\ long[Len(lines) + 1] = line
  BY <1>1, <1>2, AppendProperties DEF AtFoot
<1>4. ASSUME NEW j \in DOMAIN more
      PROVE  long[Len(long) - Len(more) + j].file = more[j].file
  <2>1. PICK k : k = Len(long) - Len(more) + j
    OBVIOUS
  <2>2. CASE j = Len(page) + 1
    <3>1. k = Len(lines) + 1
      BY <2>1, <2>2, <1>3
    <3> QED
      BY <2>1, <2>2, <3>1, <1>3
  <2>3. CASE j # Len(page) + 1
    <3>1. j \in 1 .. Len(page) /\ k = Len(lines) - Len(page) + j /\ k \in 1 .. Len(lines)
      BY <2>1, <2>3, <1>3
    <3>2. lines[k].file = page[j].file
      BY <3>1 DEF AtFoot
    <3> QED
      BY <2>1, <3>1, <3>2, <1>3
  <2> QED
    BY <2>2, <2>3
<1>5. Len(more) <= Len(long)
  BY <1>3
<1> QED
  BY <1>1, <1>2, <1>4, <1>5 DEF AtFoot

LEMMA OneAtFoot ==
    ASSUME NEW lines \in Seq(Lines), NEW line \in Lines
    PROVE  AtFoot(<<line>>, Append(lines, line))
<1>1. Len(Append(lines, line)) = Len(lines) + 1 /\ Append(lines, line)[Len(lines) + 1] = line
      /\ Len(lines) \in Nat
  BY AppendProperties
<1>2. Len(<<line>>) = 1 /\ DOMAIN <<line>> = {1} /\ <<line>>[1] = line
  OBVIOUS
<1> QED
  BY <1>1, <1>2 DEF AtFoot

LEMMA AppendMarks ==
    ASSUME NEW lines \in Seq(Lines), NEW line \in Lines, NEW flags, MarkedIn(lines, flags),
           line.marked => line.file \in flags
    PROVE  MarkedIn(Append(lines, line), flags)
BY AppendProperties DEF MarkedIn

LEMMA TailMarks ==
    ASSUME NEW lines \in Seq(Lines), lines # <<>>, NEW flags, MarkedIn(lines, flags)
    PROVE  /\ Head(lines) \in Lines /\ (Head(lines).marked => Head(lines).file \in flags)
           /\ Tail(lines) \in Seq(Lines) /\ MarkedIn(Tail(lines), flags)
<1>1. /\ Len(lines) \in Nat \ {0} /\ Len(Tail(lines)) = Len(lines) - 1 /\ Head(lines) = lines[1]
      /\ Head(lines) \in Lines /\ Tail(lines) \in Seq(Lines)
      /\ \A j \in 1 .. Len(lines) - 1 : Tail(lines)[j] = lines[j + 1]
  OBVIOUS
<1>2. 1 \in DOMAIN lines /\ DOMAIN Tail(lines) = 1 .. Len(lines) - 1
      /\ \A j \in 1 .. Len(lines) - 1 : j + 1 \in DOMAIN lines
  BY <1>1
<1> QED
  BY <1>1, <1>2 DEF MarkedIn

LEMMA MoreFlags ==
    ASSUME NEW lines, NEW flags, NEW more, MarkedIn(lines, flags), flags \subseteq more
    PROVE  MarkedIn(lines, more)
BY DEF MarkedIn

LEMMA RawLines ==
    ASSUME NEW n \in Nat, NEW flags
    PROVE  LET lines == [i \in 1 .. n |-> Raw]
           IN lines \in Seq(Lines) /\ Unnumbered(lines) /\ MarkedIn(lines, flags)
<1>1. PICK lines : lines = [i \in 1 .. n |-> Raw]
  OBVIOUS
<1>2. lines \in Seq(Lines)
  BY <1>1, RawIsALine, IsASeq
<1> QED
  BY <1>1, <1>2, RawIsALine DEF Unnumbered, MarkedIn

LEMMA OneRaw ==
    ASSUME NEW flags
    PROVE  <<Raw>> \in Seq(Lines) /\ Unnumbered(<<Raw>>) /\ MarkedIn(<<Raw>>, flags) /\ <<Raw>> # <<>>
<1>1. <<Raw>> \in Seq(Lines) /\ <<Raw>> # <<>> /\ \A j \in DOMAIN <<Raw>> : <<Raw>>[j] = Raw
  BY RawIsALine
<1> QED
  BY <1>1, RawIsALine DEF Unnumbered, MarkedIn

LEMMA NoLines ==
    ASSUME NEW flags
    PROVE  <<>> \in Seq(Lines) /\ Unnumbered(<<>>) /\ MarkedIn(<<>>, flags)
BY DEF Unnumbered, MarkedIn

LEMMA UnnumberedGoOn ==
    ASSUME NEW lines \in Seq(Lines), Unnumbered(lines), NEW m \in Nat
    PROVE  Continues(lines, m)
BY UnnumberedContinue DEF Unnumbered, Continues

----------------------------------------------------------------------------
(* What the steps of a listing make of it.                                  *)

LEMMA ScanFields ==
    ASSUME NEW s \in Scans
    PROVE  /\ s.mode \in Modes /\ s.ansi \in BOOLEAN /\ s.dirs \in Seq(Nat) /\ s.part \in Parts
           /\ s.todo \in Seq(Lines) /\ s.emitted \in Nat /\ s.nonStop \in BOOLEAN
           /\ s.page \in Seq(Lines) /\ s.displayed \in Seq(Things)
BY DEF Scans

LEMMA WhoPrompts ==
    /\ "writing" \notin Prompts /\ "dirs" \notin Prompts /\ "date" \notin Prompts
    /\ "query" \notin Prompts /\ "zippy dirs" \notin Prompts /\ "search" \notin Prompts
    /\ "more" \in Prompts /\ "held" \in Prompts /\ "confirm" \in Prompts
    /\ "names" \in Prompts /\ "numbers" \in Prompts
BY DEF Prompts

\* emit_scan_line: the line is counted, recorded and shown, and ends a page
\* that it fills.
Next1(s) == Recorded([s EXCEPT !.todo = Tail(@), !.displayed = Shown(@, Head(s.todo))], Head(s.todo))

LEMMA EmittedFields ==
    ASSUME NEW s \in Scans, s.todo # <<>>
    PROVE  /\ Next1(s) \in Scans
           /\ Next1(s).todo = Tail(s.todo) /\ Next1(s).dirs = s.dirs /\ Next1(s).part = s.part
           /\ Next1(s).nonStop = s.nonStop
           /\ Next1(s).displayed = Shown(s.displayed, Head(s.todo))
           /\ ~ s.nonStop => /\ Next1(s).emitted = s.emitted + 1
                             /\ Next1(s).page = IF s.emitted = 0 THEN <<Head(s.todo)>>
                                                ELSE Append(s.page, Head(s.todo))
           /\ s.nonStop => Next1(s).emitted = s.emitted /\ Next1(s).page = s.page
<1>1. PICK line : line = Head(s.todo)
  OBVIOUS
<1>2. PICK rest : rest = Tail(s.todo)
  OBVIOUS
<1>3. PICK keys : keys = Shown(s.displayed, line)
  OBVIOUS
<1>4. line \in Lines /\ rest \in Seq(Lines)
  BY <1>1, <1>2, ScanFields, HeadTailProperties
<1>5. line.file \in Things
  BY <1>4 DEF Lines
<1>6. keys \in Seq(Things)
  BY <1>3, <1>5, ScanFields DEF Shown
<1>7. PICK t : t = [s EXCEPT !.todo = rest, !.displayed = keys]
  OBVIOUS
<1>8. /\ t \in Scans /\ t.todo = rest /\ t.displayed = keys /\ t.dirs = s.dirs /\ t.part = s.part
      /\ t.nonStop = s.nonStop /\ t.emitted = s.emitted /\ t.page = s.page
  BY <1>4, <1>6, <1>7 DEF Scans
<1>9. Next1(s) = Recorded(t, line)
  BY <1>1, <1>2, <1>3, <1>7 DEF Next1
<1>10. PICK page : page = IF s.emitted = 0 THEN <<line>> ELSE Append(s.page, line)
  OBVIOUS
<1>11. page \in Seq(Lines)
  BY <1>4, <1>10, ScanFields, AppendProperties
<1>12. CASE s.nonStop
  <2>1. Next1(s) = t
    BY <1>8, <1>9, <1>12 DEF Recorded
  <2> QED
    BY <2>1, <1>1, <1>2, <1>3, <1>8, <1>12
<1>13. CASE ~ s.nonStop
  <2>1. Next1(s) = [t EXCEPT !.page = page, !.emitted = t.emitted + 1]
    BY <1>8, <1>9, <1>10, <1>13 DEF Recorded
  <2>2. PICK u : u = [t EXCEPT !.page = page, !.emitted = t.emitted + 1]
    OBVIOUS
  <2>3. t.emitted + 1 \in Nat
    BY <1>8, ScanFields
  <2>4. /\ u \in Scans /\ u.todo = t.todo /\ u.displayed = t.displayed /\ u.dirs = t.dirs
        /\ u.part = t.part /\ u.nonStop = t.nonStop /\ u.emitted = t.emitted + 1 /\ u.page = page
    BY <2>2, <2>3, <1>8, <1>11 DEF Scans
  <2> QED
    BY <2>1, <2>2, <2>4, <1>1, <1>2, <1>3, <1>8, <1>10, <1>13
<1> QED
  BY <1>12, <1>13

LEMMA ShownStaysTrue ==
    ASSUME NEW page \in Seq(Lines), NEW displayed \in Seq(Things), NEW line \in Lines,
           PageTrue(page, displayed),
           line.number = 0 \/ line.number = Len(displayed) + 1
    PROVE  /\ PageTrue(Append(page, line), Shown(displayed, line))
           /\ PageTrue(<<line>>, Shown(displayed, line))
<1>1. PICK keys : keys = Shown(displayed, line)
  OBVIOUS
<1>2. line.number \in Nat /\ line.file \in Things /\ Len(displayed) \in Nat
  BY DEF Lines
<1>3. /\ \A k \in DOMAIN displayed : k \in DOMAIN keys /\ keys[k] = displayed[k]
      /\ line.number > 0 => line.number \in DOMAIN keys /\ keys[line.number] = line.file
  <2>1. CASE line.number = 0
    BY <1>1, <2>1 DEF Shown
  <2>2. CASE line.number # 0
    <3>1. keys = Append(displayed, line.file) /\ line.number = Len(displayed) + 1
      BY <1>1, <2>2 DEF Shown
    <3> QED
      BY <3>1, <1>2, AppendProperties
  <2> QED
    BY <2>1, <2>2
<1>4. PICK more : more = Append(page, line)
  OBVIOUS
<1>5. \A j \in DOMAIN more : more[j] = line \/ (j \in DOMAIN page /\ more[j] = page[j])
  BY <1>4, AppendProperties
<1>6. PageTrue(more, keys)
  BY <1>3, <1>5 DEF PageTrue
<1>7. \A j \in DOMAIN <<line>> : <<line>>[j] = line
  OBVIOUS
<1>8. PageTrue(<<line>>, keys)
  BY <1>3, <1>7 DEF PageTrue
<1> QED
  BY <1>1, <1>4, <1>6, <1>8

LEMMA NothingShownIsTrue == ASSUME NEW displayed PROVE PageTrue(<<>>, displayed)
BY DEF PageTrue

LEMMA OneShownIsTrue ==
    ASSUME NEW displayed \in Seq(Things), NEW line \in Lines,
           line.number = 0 \/ line.number = Len(displayed) + 1
    PROVE  PageTrue(<<line>>, Shown(displayed, line))
<1>1. <<>> \in Seq(Lines)
  OBVIOUS
<1> QED
  BY <1>1, NothingShownIsTrue, ShownStaysTrue

LEMMA EmittedIsFine ==
    ASSUME NEW s \in Scans, s.todo # <<>>, NEW lines \in Seq(Lines), NEW count \in Nat, NEW flags,
           Fine("writing", s, lines, count, flags)
    PROVE  /\ Recent(Append(lines, Head(s.todo))) \in Seq(Lines)
           /\ Fine(IF PageFull(Next1(s)) THEN "more" ELSE "writing", Next1(s),
                   Recent(Append(lines, Head(s.todo))), IF Next1(s).nonStop THEN 0 ELSE count + 1, flags)
<1>1. PICK line : line = Head(s.todo)
  OBVIOUS
<1>2. PICK t : t = Next1(s)
  OBVIOUS
<1>3. PICK long : long = Append(lines, line)
  OBVIOUS
<1>4. PICK kept : kept = Recent(long)
  OBVIOUS
<1>5. PICK p : p = IF PageFull(t) THEN "more" ELSE "writing"
  OBVIOUS
<1>6. PICK n : n = IF t.nonStop THEN 0 ELSE count + 1
  OBVIOUS
<1>7. /\ t \in Scans /\ t.todo = Tail(s.todo) /\ t.dirs = s.dirs /\ t.part = s.part
      /\ t.nonStop = s.nonStop /\ t.displayed = Shown(s.displayed, line)
      /\ ~ s.nonStop => /\ t.emitted = s.emitted + 1
                        /\ t.page = IF s.emitted = 0 THEN <<line>> ELSE Append(s.page, line)
      /\ s.nonStop => t.emitted = s.emitted /\ t.page = s.page
  BY <1>1, <1>2, EmittedFields
<1>8. /\ line \in Lines /\ (line.marked => line.file \in flags)
      /\ t.todo \in Seq(Lines) /\ MarkedIn(t.todo, flags)
  BY <1>1, <1>7, ScanFields, TailMarks DEF Fine, Marked
<1>9. long \in Seq(Lines) /\ kept \in Seq(Lines) /\ MarkedIn(kept, flags)
  <2>1. long \in Seq(Lines)
    BY <1>3, <1>8, AppendProperties
  <2>2. MarkedIn(long, flags)
    BY <1>3, <1>8, AppendMarks DEF Fine, Marked
  <2> QED
    BY <2>1, <2>2, <1>4, RecentKeepsTheLast, RecentMarks
<1>10. PageLines \in Nat /\ PageLines > 1 /\ s.emitted \in Nat
  BY ListingBounds, ScanFields
<1>11. Counted(p, t, n)
  <2>1. CASE s.nonStop
    <3>1. ~ PageFull(t) /\ t.nonStop /\ n = 0
      BY <2>1, <1>6, <1>7 DEF PageFull
    <3> QED
      BY <3>1, <1>5, WhoPrompts DEF Counted
  <2>2. CASE ~ s.nonStop
    <3>1. count = s.emitted /\ s.emitted < PageLines
      BY <2>2, WhoPrompts DEF Fine, Counted
    <3>2. ~ t.nonStop /\ n = t.emitted /\ t.emitted <= PageLines
      BY <2>2, <3>1, <1>6, <1>7, <1>10
    <3>3. CASE PageFull(t)
      BY <3>2, <3>3, <1>5, WhoPrompts DEF Counted
    <3>4. CASE ~ PageFull(t)
      <4>1. t.emitted < PageLines
        BY <3>1, <3>2, <3>4, <2>2, <1>7, <1>10 DEF PageFull
      <4> QED
        BY <3>2, <4>1 DEF Counted
    <3> QED
      BY <3>3, <3>4
  <2> QED
    BY <2>1, <2>2
<1>12. /\ line.number = 0 \/ line.number = Len(s.displayed) + 1
       /\ Continues(t.todo, Len(t.displayed))
  <2>1. Len(s.displayed) \in Nat /\ s.displayed \in Seq(Things)
    BY ScanFields, LenProperties
  <2>2. \/ line.number = 0 /\ Continues(t.todo, Len(s.displayed))
        \/ line.number = Len(s.displayed) + 1 /\ Continues(t.todo, Len(s.displayed) + 1)
    BY <1>1, <1>7, <2>1, ScanFields, FirstContinues DEF Fine, Numbered
  <2>3. line.file \in Things /\ line.number \in Nat
    BY <1>8 DEF Lines
  <2>4. line.number = 0 => Len(t.displayed) = Len(s.displayed)
    BY <1>7 DEF Shown
  <2>5. line.number # 0 => Len(t.displayed) = Len(s.displayed) + 1
    BY <1>7, <2>1, <2>3, AppendProperties DEF Shown
  <2> QED
    BY <2>1, <2>2, <2>4, <2>5
<1>13. s.part \in {"banner", "header", "blank"} =>
         line.number = 0 /\ line.file = NoFile /\ Unnumbered(t.todo) /\ t.displayed = <<>>
  <2> SUFFICES ASSUME s.part \in {"banner", "header", "blank"}
               PROVE  line.number = 0 /\ line.file = NoFile /\ Unnumbered(t.todo) /\ t.displayed = <<>>
    OBVIOUS
  <2>1. Unnumbered(s.todo) /\ s.displayed = <<>>
    BY DEF Fine, Numbered
  <2>2. /\ Len(s.todo) \in Nat \ {0} /\ line = s.todo[1] /\ Len(t.todo) = Len(s.todo) - 1
        /\ 1 \in DOMAIN s.todo /\ DOMAIN t.todo = 1 .. Len(s.todo) - 1
        /\ \A j \in 1 .. Len(s.todo) - 1 : t.todo[j] = s.todo[j + 1] /\ j + 1 \in DOMAIN s.todo
    <3>1. s.todo \in Seq(Lines)
      BY ScanFields
    <3> QED
      BY <3>1, <1>1, <1>7
  <2> QED
    BY <2>1, <2>2, <1>7 DEF Unnumbered, Shown
<1>14. s.part = "banner" => /\ \A j \in DOMAIN kept : kept[j].file = NoFile
                            /\ \A j \in DOMAIN t.page : t.page[j].file = NoFile
  <2> SUFFICES ASSUME s.part = "banner"
               PROVE  /\ \A j \in DOMAIN kept : kept[j].file = NoFile
                      /\ \A j \in DOMAIN t.page : t.page[j].file = NoFile
    OBVIOUS
  <2>1. line.file = NoFile
    BY <1>13
  <2>2. \A j \in DOMAIN lines : lines[j].file = NoFile
    BY DEF Fine, Numbered
  <2>3. \A j \in DOMAIN s.page : s.page[j].file = NoFile
    BY DEF Fine, Numbered
  <2>4. \A j \in DOMAIN long : long[j].file = NoFile
    BY <2>1, <2>2, <1>3, <1>8, AppendProperties
  <2>5. \A j \in DOMAIN kept : kept[j].file = NoFile
    BY <2>4, <1>4, <1>9, RecentFiles
  <2>6. s.page \in Seq(Lines)
    BY ScanFields
  <2>7. t.page = s.page \/ t.page = <<line>> \/ t.page = Append(s.page, line)
    BY <1>7, ScanFields
  <2>8. \A j \in DOMAIN <<line>> : <<line>>[j].file = NoFile
    BY <2>1
  <2>9. \A j \in DOMAIN Append(s.page, line) : Append(s.page, line)[j].file = NoFile
    BY <2>1, <2>3, <2>6, <1>8, AppendProperties
  <2> QED
    BY <2>3, <2>5, <2>7, <2>8, <2>9
<1>15. Numbered(t, kept)
  BY <1>7, <1>12, <1>13, <1>14 DEF Fine, Numbered
<1>16. Paged(p, t, kept)
  <2> SUFFICES ASSUME ~ t.nonStop
               PROVE  Fits(t) /\ PageTrue(t.page, t.displayed) /\ AtFoot(t.page, kept)
    BY DEF Paged
  <2>1. /\ ~ s.nonStop /\ s.page \in Seq(Lines) /\ s.displayed \in Seq(Things)
        /\ Len(s.page) \in Nat /\ s.emitted < PageLines
    BY <1>7, ScanFields, LenProperties, WhoPrompts DEF Fine, Counted
  <2>2. CASE s.emitted = 0
    <3>1. t.page = <<line>> /\ t.emitted = 1
      BY <2>1, <2>2, <1>7
    <3>2. Len(<<line>>) = 1 /\ <<line>> \in Seq(Lines)
      BY <1>8
    <3>3. AtFoot(t.page, long)
      BY <3>1, <1>3, <1>8, OneAtFoot
    <3>6. t.page \in Seq(Lines) /\ Len(t.page) <= PageLines + 1
      BY <3>1, <3>2, <1>10
    <3>4. AtFoot(t.page, kept)
      BY <3>3, <3>6, <1>4, <1>9, RecentFoot
    <3>5. PageTrue(t.page, t.displayed)
      BY <3>1, <2>1, <1>7, <1>8, <1>12, OneShownIsTrue
    <3> QED
      BY <3>1, <3>2, <3>4, <3>5, <1>10 DEF Fits
  <2>3. CASE s.emitted # 0
    <3>1. t.page = Append(s.page, line) /\ t.emitted = s.emitted + 1
      BY <2>1, <2>3, <1>7
    <3>2. /\ Fits(s) /\ PageTrue(s.page, s.displayed) /\ AtFoot(s.page, lines)
      BY <2>1, <2>3 DEF Fine, Paged, Stale
    <3>3. t.page \in Seq(Lines) /\ Len(t.page) = Len(s.page) + 1
      BY <3>1, <2>1, <1>8, AppendProperties
    <3>4. Len(t.page) <= PageLines /\ Len(t.page) <= t.emitted
      BY <3>1, <3>2, <3>3, <2>1, <2>3, <1>10 DEF Fits
    <3>5. AtFoot(t.page, long)
      BY <3>1, <3>2, <2>1, <1>3, <1>8, AppendsAtFoot
    <3>6. Len(t.page) <= PageLines + 1
      BY <3>3, <3>4, <2>1, <1>10
    <3>7. AtFoot(t.page, kept)
      BY <3>3, <3>5, <3>6, <1>4, <1>9, RecentFoot
    <3>8. PageTrue(t.page, t.displayed)
      BY <3>1, <3>2, <2>1, <1>7, <1>8, <1>12, ShownStaysTrue
    <3> QED
      BY <3>4, <3>7, <3>8 DEF Fits
  <2> QED
    BY <2>2, <2>3
<1>17. Marked(t, kept, flags)
  <2>1. s.page \in Seq(Lines) /\ MarkedIn(s.page, flags)
    BY ScanFields DEF Fine, Marked
  <2>2. MarkedIn(<<line>>, flags)
    BY <1>8 DEF MarkedIn
  <2>3. MarkedIn(Append(s.page, line), flags)
    BY <2>1, <1>8, AppendMarks
  <2>4. MarkedIn(t.page, flags)
    BY <2>1, <2>2, <2>3, <1>7, ScanFields
  <2> QED
    BY <2>4, <1>8, <1>9 DEF Marked
<1> QED
  BY <1>1, <1>2, <1>3, <1>4, <1>5, <1>6, <1>9, <1>11, <1>15, <1>16, <1>17 DEF Fine

\* Fine says nothing of the phase but whether it is one of a More? prompt.
LEMMA PhasesAlike ==
    ASSUME NEW p, NEW q, p \in Prompts <=> q \in Prompts,
           NEW s, NEW lines, NEW count, NEW flags, Fine(p, s, lines, count, flags)
    PROVE  Fine(q, s, lines, count, flags)
BY DEF Fine, Counted, Numbered, Paged, Stale, Marked

LEMMA NoScanTyped == NoScan \in Scans
<1>1. Invalid \in Modes
  BY OtherTyped DEF Invalid, Forms
<1>2. "banner" \in Parts
  BY DEF Parts
<1>3. <<>> \in Seq(Nat) /\ <<>> \in Seq(Lines) /\ <<>> \in Seq(Things) /\ 0 \in Nat
  OBVIOUS
<1> QED
  BY <1>1, <1>2, <1>3 DEF NoScan, Scans

LEMMA OpenedIsFine ==
    ASSUME NEW arg \in Modes, NEW ansi \in BOOLEAN, NEW n \in Nat, NEW p, p \notin Prompts, NEW flags
    PROVE  /\ Opened(arg, ansi, n) \in Scans /\ Opened(arg, ansi, n).part = "banner"
           /\ Fine(p, Opened(arg, ansi, n), <<>>, 0, flags)
<1>1. PICK todo : todo = [i \in 1 .. n |-> Raw]
  OBVIOUS
<1>2. todo \in Seq(Lines) /\ Unnumbered(todo) /\ MarkedIn(todo, flags)
  BY <1>1, RawLines
<1>3. PICK s : s = [NoScan EXCEPT !.mode = arg, !.ansi = ansi, !.nonStop = arg.nonStop, !.todo = todo]
  OBVIOUS
<1>4. Opened(arg, ansi, n) = s
  BY <1>1, <1>3 DEF Opened
<1>5. arg.nonStop \in BOOLEAN
  BY DEF Modes
<1>6. s \in Scans
  BY <1>2, <1>3, <1>5, NoScanTyped DEF Scans
<1>7. /\ s.todo = todo /\ s.part = "banner" /\ s.emitted = 0 /\ s.page = <<>> /\ s.displayed = <<>>
      /\ s.nonStop = arg.nonStop
  BY <1>3 DEF NoScan
<1>8. PageLines \in Nat /\ PageLines > 1
  BY ListingBounds
<1>9. Counted(p, s, 0)
  BY <1>7, <1>8 DEF Counted
<1>10. Continues(todo, Len(<<>>))
  <2>1. Len(<<>>) = 0
    OBVIOUS
  <2> QED
    BY <2>1, <1>2, UnnumberedGoOn
<1>11. Numbered(s, <<>>)
  BY <1>2, <1>7, <1>10 DEF Numbered
<1>12. Paged(p, s, <<>>)
  BY <1>7, <1>8 DEF Paged, Fits, Stale
<1>13. Marked(s, <<>>, flags)
  BY <1>2, <1>7, NoLines DEF Marked
<1> QED
  BY <1>4, <1>6, <1>7, <1>9, <1>11, <1>12, <1>13 DEF Fine

\* begin_directory
LEMMA BegunIsFine ==
    ASSUME NEW s \in Scans, s.dirs # <<>>, NEW lines \in Seq(Lines), NEW count, NEW flags,
           Counted("writing", s, count), MarkedIn(s.page, flags), MarkedIn(lines, flags),
           ~ s.nonStop => Fits(s) /\ (s.emitted = 0 \/ (PageTrue(s.page, <<>>) /\ AtFoot(s.page, lines)))
    PROVE  Begun(s) \in Scans /\ Fine("writing", Begun(s), lines, count, flags)
<1>1. PICK t : t = Begun(s)
  OBVIOUS
<1>2. <<Raw>> \in Seq(Lines) /\ Unnumbered(<<Raw>>) /\ MarkedIn(<<Raw>>, flags) /\ <<Raw>> # <<>>
  BY OneRaw
<1>3. "header" \in Parts /\ <<>> \in Seq(Things)
  BY DEF Parts
<1>4. /\ t \in Scans /\ t.displayed = <<>> /\ t.part = "header" /\ t.todo = <<Raw>> /\ t.dirs = s.dirs
      /\ t.emitted = s.emitted /\ t.nonStop = s.nonStop /\ t.page = s.page
  BY <1>1, <1>2, <1>3 DEF Begun, Scans
<1>5. Counted("writing", t, count)
  BY <1>4 DEF Counted
<1>6. Len(<<>>) = 0
  OBVIOUS
<1>7. Numbered(t, lines)
  <2>1. Continues(<<Raw>>, 0)
    BY <1>2, UnnumberedGoOn
  <2> QED
    BY <1>2, <1>4, <1>6, <2>1 DEF Numbered
<1>8. Paged("writing", t, lines)
  <2> SUFFICES ASSUME ~ t.nonStop
               PROVE  /\ Fits(t)
                      /\ Stale("writing", t) \/ PageTrue(t.page, t.displayed)
                      /\ Stale("writing", t) \/ AtFoot(t.page, lines)
    BY DEF Paged
  <2>1. Fits(t)
    BY <1>4 DEF Fits
  <2>2. s.emitted = 0 => Stale("writing", t)
    BY <1>2, <1>4, WhoPrompts DEF Stale
  <2> QED
    BY <1>4, <2>1, <2>2
<1>9. Marked(t, lines, flags)
  BY <1>2, <1>4 DEF Marked
<1> QED
  BY <1>1, <1>4, <1>5, <1>7, <1>8, <1>9 DEF Fine

\* end_page, of a prompt that is left with the screen as it is or cleared.
LEMMA PageEndedIsFine ==
    ASSUME NEW s \in Scans, NEW p \in Prompts, NEW lines \in Seq(Lines), NEW count, NEW flags,
           Fine(p, s, lines, count, flags), NEW left \in {lines, <<>>}
    PROVE  /\ PageEnded(s) \in Scans /\ left \in Seq(Lines)
           /\ Fine("writing", PageEnded(s), left, 0, flags)
<1>1. PICK t : t = PageEnded(s)
  OBVIOUS
<1>2. /\ t \in Scans /\ t.displayed = s.displayed /\ t.part = s.part /\ t.todo = s.todo /\ t.dirs = s.dirs
      /\ t.emitted = 0 /\ t.nonStop = s.nonStop /\ t.page = s.page
  BY <1>1 DEF PageEnded, Scans
<1>3. left \in Seq(Lines) /\ MarkedIn(left, flags)
  BY NoLines DEF Fine, Marked
<1>4. PageLines \in Nat /\ PageLines > 1
  BY ListingBounds
<1>5. ~ s.nonStop
  BY DEF Fine, Counted
<1>6. Counted("writing", t, 0)
  BY <1>2, <1>4, <1>5 DEF Counted
<1>7. Numbered(t, left)
  BY <1>2 DEF Fine, Numbered
<1>8. Paged("writing", t, left)
  <2>1. Fits(s) /\ PageTrue(s.page, s.displayed) /\ (AtFoot(s.page, lines) \/ lines = <<>>)
    BY <1>5 DEF Fine, Paged, Stale
  <2>2. Fits(t)
    BY <1>2, <2>1 DEF Fits
  <2> QED
    BY <1>2, <2>1, <2>2 DEF Paged
<1>9. Marked(t, left, flags)
  BY <1>2, <1>3 DEF Fine, Marked
<1> QED
  BY <1>1, <1>2, <1>3, <1>6, <1>7, <1>8, <1>9 DEF Fine

\* begin_reloaded_page
LEMMA ReloadedIsFine ==
    ASSUME NEW s \in Scans, NEW p \in Prompts, NEW lines \in Seq(Lines), NEW count, NEW flags,
           Fine(p, s, lines, count, flags)
    PROVE  /\ Reloaded(s) \in Scans /\ Reloaded(s).page = <<>> /\ Reloaded(s).dirs = s.dirs
           /\ Reloaded(s).part = s.part
           /\ <<Raw>> \in Seq(Lines) /\ Fine("writing", Reloaded(s), <<Raw>>, 1, flags)
<1>1. PICK t : t = Reloaded(s)
  OBVIOUS
<1>2. /\ t \in Scans /\ t.displayed = s.displayed /\ t.part = s.part /\ t.todo = s.todo /\ t.dirs = s.dirs
      /\ t.emitted = 1 /\ t.nonStop = s.nonStop /\ t.page = <<>>
  <2>1. <<>> \in Seq(Lines) /\ 1 \in Nat
    OBVIOUS
  <2> QED
    BY <1>1, <2>1 DEF Reloaded, Scans
<1>3. <<Raw>> \in Seq(Lines) /\ Unnumbered(<<Raw>>) /\ MarkedIn(<<Raw>>, flags)
  BY OneRaw
<1>4. PageLines \in Nat /\ PageLines > 1
  BY ListingBounds
<1>5. ~ s.nonStop
  BY DEF Fine, Counted
<1>6. Counted("writing", t, 1)
  BY <1>2, <1>4, <1>5 DEF Counted
<1>7. Numbered(t, <<Raw>>)
  BY <1>2, <1>3 DEF Fine, Numbered, Unnumbered
<1>8. Len(<<>>) = 0 /\ Len(<<Raw>>) = 1
  OBVIOUS
<1>9. Paged("writing", t, <<Raw>>)
  <2>1. Fits(t)
    BY <1>2, <1>4, <1>8 DEF Fits
  <2>2. PageTrue(t.page, t.displayed)
    BY <1>2, NothingShownIsTrue
  <2>3. AtFoot(t.page, <<Raw>>)
    BY <1>2, <1>8 DEF AtFoot
  <2> QED
    BY <2>1, <2>2, <2>3 DEF Paged
<1>10. Marked(t, <<Raw>>, flags)
  BY <1>2, <1>3, NoLines DEF Fine, Marked
<1> QED
  BY <1>1, <1>2, <1>3, <1>6, <1>7, <1>9, <1>10 DEF Fine

\* The rest without a pause.
LEMMA NonStopIsFine ==
    ASSUME NEW s \in Scans, NEW p, NEW lines \in Seq(Lines), NEW count, NEW flags,
           Fine(p, s, lines, count, flags)
    PROVE  LET t == PageEnded([s EXCEPT !.nonStop = TRUE])
           IN /\ t \in Scans /\ t.nonStop /\ t.dirs = s.dirs /\ t.part = s.part
              /\ Fine("writing", t, lines, 0, flags)
<1>1. PICK t : t = PageEnded([s EXCEPT !.nonStop = TRUE])
  OBVIOUS
<1>2. /\ t \in Scans /\ t.displayed = s.displayed /\ t.part = s.part /\ t.todo = s.todo /\ t.dirs = s.dirs
      /\ t.emitted = 0 /\ t.nonStop = TRUE /\ t.page = s.page
  BY <1>1 DEF PageEnded, Scans
<1>3. Counted("writing", t, 0)
  BY <1>2, WhoPrompts DEF Counted
<1>4. Numbered(t, lines)
  BY <1>2 DEF Fine, Numbered
<1>5. Paged("writing", t, lines) /\ Marked(t, lines, flags)
  BY <1>2 DEF Fine, Paged, Marked
<1> QED
  BY <1>1, <1>2, <1>3, <1>4, <1>5 DEF Fine

\* The blank line under the header of a directory that has files.
LEMMA BlankIsFine ==
    ASSUME NEW s \in Scans, s.part = "header", NEW lines \in Seq(Lines), NEW count, NEW flags,
           Fine("writing", s, lines, count, flags)
    PROVE  LET t == [s EXCEPT !.part = "blank", !.todo = <<Raw>>]
           IN t \in Scans /\ Fine("writing", t, lines, count, flags)
<1>1. PICK t : t = [s EXCEPT !.part = "blank", !.todo = <<Raw>>]
  OBVIOUS
<1>2. <<Raw>> \in Seq(Lines) /\ Unnumbered(<<Raw>>) /\ MarkedIn(<<Raw>>, flags) /\ <<Raw>> # <<>>
  BY OneRaw
<1>3. "blank" \in Parts
  BY DEF Parts
<1>4. /\ t \in Scans /\ t.displayed = s.displayed /\ t.part = "blank" /\ t.todo = <<Raw>> /\ t.dirs = s.dirs
      /\ t.emitted = s.emitted /\ t.nonStop = s.nonStop /\ t.page = s.page
  BY <1>1, <1>2, <1>3 DEF Scans
<1>5. s.displayed = <<>> /\ s.dirs # <<>>
  BY DEF Fine, Numbered
<1>6. Continues(<<Raw>>, Len(<<>>))
  <2>1. Len(<<>>) = 0
    OBVIOUS
  <2> QED
    BY <1>2, <2>1, UnnumberedGoOn
<1>7. Counted("writing", t, count)
  BY <1>4 DEF Fine, Counted
<1>8. Numbered(t, lines)
  BY <1>2, <1>4, <1>5, <1>6 DEF Numbered
<1>9. Paged("writing", t, lines)
  <2>1. Stale("writing", s) => Stale("writing", t)
    BY <1>2, <1>4 DEF Stale
  <2> QED
    BY <1>4, <2>1 DEF Fine, Paged, Fits
<1>10. Marked(t, lines, flags)
  BY <1>2, <1>4 DEF Fine, Marked
<1> QED
  BY <1>1, <1>4, <1>7, <1>8, <1>9, <1>10 DEF Fine

\* The rows of a directory, with their marks.
LEMMA BodyIsFine ==
    ASSUME NEW s \in Scans, s.part = "blank", NEW files \in Seq(Entries), NEW lines \in Seq(Lines),
           NEW count, NEW flags, NEW quick, Fine("writing", s, lines, count, flags)
    PROVE  LET t == [s EXCEPT !.part = "body", !.todo = Assembled(files, flags, quick)]
           IN t \in Scans /\ Fine("writing", t, lines, count, flags)
<1>1. PICK todo : todo = Assembled(files, flags, quick)
  OBVIOUS
<1>2. todo \in Seq(Lines) /\ todo # <<>> /\ MarkedIn(todo, flags) /\ Continues(todo, 0)
  BY <1>1, AssembledTyped
<1>3. PICK t : t = [s EXCEPT !.part = "body", !.todo = todo]
  OBVIOUS
<1>4. "body" \in Parts
  BY DEF Parts
<1>5. /\ t \in Scans /\ t.displayed = s.displayed /\ t.part = "body" /\ t.todo = todo /\ t.dirs = s.dirs
      /\ t.emitted = s.emitted /\ t.nonStop = s.nonStop /\ t.page = s.page
  BY <1>2, <1>3, <1>4 DEF Scans
<1>6. s.displayed = <<>> /\ s.dirs # <<>> /\ Len(<<>>) = 0
  BY DEF Fine, Numbered
<1>7. Counted("writing", t, count)
  BY <1>5 DEF Fine, Counted
<1>8. Numbered(t, lines)
  BY <1>2, <1>5, <1>6 DEF Numbered
<1>9. Paged("writing", t, lines)
  <2>1. Stale("writing", s) => Stale("writing", t)
    BY <1>2, <1>5 DEF Stale
  <2> QED
    BY <1>5, <2>1 DEF Fine, Paged, Fits
<1>10. Marked(t, lines, flags)
  BY <1>2, <1>5 DEF Fine, Marked
<1> QED
  BY <1>1, <1>3, <1>5, <1>7, <1>8, <1>9, <1>10 DEF Fine

\* post_end_pause: the page that ends a directory is all there.
LEMMA EndIsFine ==
    ASSUME NEW s \in Scans, s.part = "body", s.todo = <<>>, ~ s.nonStop, NEW lines \in Seq(Lines),
           NEW count, NEW flags, Fine("writing", s, lines, count, flags)
    PROVE  LET t == [s EXCEPT !.part = "end"]
           IN t \in Scans /\ Fine("more", t, lines, count, flags)
<1>1. PICK t : t = [s EXCEPT !.part = "end"]
  OBVIOUS
<1>2. "end" \in Parts
  BY DEF Parts
<1>3. /\ t \in Scans /\ t.displayed = s.displayed /\ t.part = "end" /\ t.todo = s.todo /\ t.dirs = s.dirs
      /\ t.emitted = s.emitted /\ t.nonStop = s.nonStop /\ t.page = s.page
  BY <1>1, <1>2 DEF Scans
<1>4. Counted("more", t, count)
  BY <1>3, WhoPrompts DEF Fine, Counted
<1>5. Numbered(t, lines)
  BY <1>3 DEF Fine, Numbered
<1>6. Paged("more", t, lines)
  <2>1. ~ Stale("writing", s)
    BY DEF Stale
  <2> QED
    BY <1>3, <2>1 DEF Fine, Paged, Fits
<1>7. Marked(t, lines, flags)
  BY <1>3 DEF Fine, Marked
<1> QED
  BY <1>1, <1>3, <1>4, <1>5, <1>6, <1>7 DEF Fine

\* The directories of a listing, after its banner.
LEMMA DirsAreFine ==
    ASSUME NEW s \in Scans, s.part = "banner", NEW dirs \in Seq(Nat), dirs # <<>>, NEW lines \in Seq(Lines),
           NEW count, NEW flags, Fine("writing", s, lines, count, flags)
    PROVE  LET t == Begun([s EXCEPT !.dirs = dirs])
           IN t \in Scans /\ Fine("writing", t, lines, count, flags)
<1>1. PICK t : t = [s EXCEPT !.dirs = dirs]
  OBVIOUS
<1>2. /\ t \in Scans /\ t.displayed = s.displayed /\ t.part = s.part /\ t.todo = s.todo /\ t.dirs = dirs
      /\ t.emitted = s.emitted /\ t.nonStop = s.nonStop /\ t.page = s.page
  BY <1>1 DEF Scans
<1>3. Counted("writing", t, count) /\ MarkedIn(t.page, flags) /\ MarkedIn(lines, flags)
  BY <1>2 DEF Fine, Counted, Marked
<1>4. s.displayed = <<>>
  BY DEF Fine, Numbered
<1>5. ~ t.nonStop => Fits(t) /\ (t.emitted = 0 \/ (PageTrue(t.page, <<>>) /\ AtFoot(t.page, lines)))
  BY <1>2, <1>4 DEF Fine, Paged, Fits, Stale
<1> QED
  BY <1>1, <1>2, <1>3, <1>5, BegunIsFine

\* The next of the directories, where the page is not begun anew or no row of
\* the last one is on it.
LEMMA NextDirIsFine ==
    ASSUME NEW s \in Scans, s.dirs # <<>>, Len(s.dirs) # 1, NEW lines \in Seq(Lines), NEW count, NEW flags,
           Counted("writing", s, count), MarkedIn(s.page, flags), MarkedIn(lines, flags),
           ~ s.nonStop => Fits(s) /\ (s.emitted = 0 \/ (PageTrue(s.page, <<>>) /\ AtFoot(s.page, lines)))
    PROVE  LET t == Begun([s EXCEPT !.dirs = Tail(@)])
           IN t \in Scans /\ Fine("writing", t, lines, count, flags)
<1>1. PICK dirs : dirs = Tail(s.dirs)
  OBVIOUS
<1>2. dirs \in Seq(Nat) /\ dirs # <<>>
  <2>1. s.dirs \in Seq(Nat)
    BY ScanFields
  <2>2. Len(s.dirs) \in Nat /\ Len(s.dirs) # 0 /\ dirs \in Seq(Nat) /\ Len(dirs) = Len(s.dirs) - 1
    BY <1>1, <2>1, HeadTailProperties, EmptySeq
  <2>3. Len(dirs) # 0
    BY <2>2
  <2>4. Len(<<>>) = 0
    OBVIOUS
  <2> QED
    BY <2>2, <2>3, <2>4
<1>3. PICK t : t = [s EXCEPT !.dirs = dirs]
  OBVIOUS
<1>4. /\ t \in Scans /\ t.displayed = s.displayed /\ t.part = s.part /\ t.todo = s.todo /\ t.dirs = dirs
      /\ t.emitted = s.emitted /\ t.nonStop = s.nonStop /\ t.page = s.page
  BY <1>2, <1>3 DEF Scans
<1>5. Counted("writing", t, count)
  BY <1>4 DEF Counted
<1>6. ~ t.nonStop => Fits(t) /\ (t.emitted = 0 \/ (PageTrue(t.page, <<>>) /\ AtFoot(t.page, lines)))
  BY <1>4 DEF Fits
<1>7. Begun(t) \in Scans /\ Fine("writing", Begun(t), lines, count, flags)
  BY <1>2, <1>4, <1>5, <1>6, BegunIsFine
<1> QED
  BY <1>1, <1>3, <1>7

LEMMA SpacedTyped ==
    ASSUME NEW s \in Scans, NEW lines \in Seq(Lines), NEW flags, MarkedIn(lines, flags)
    PROVE  Spaced(s, lines) \in Seq(Lines) /\ MarkedIn(Spaced(s, lines), flags)
<1>1. Append(lines, Raw) \in Seq(Lines)
  BY RawIsALine, AppendProperties
<1>2. MarkedIn(Append(lines, Raw), flags)
  BY RawIsALine, AppendMarks
<1> QED
  BY <1>1, <1>2, RecentKeepsTheLast, RecentMarks DEF Spaced

\* The directories of a search, which lists nothing.
LEMMA SearchIsFine ==
    ASSUME NEW s \in Scans, s.part = "banner", NEW dirs \in Seq(Nat), NEW p, NEW lines, NEW count, NEW flags,
           Fine(p, s, lines, count, flags)
    PROVE  LET t == [s EXCEPT !.dirs = dirs]
           IN t \in Scans /\ t.part = "banner" /\ Fine(p, t, lines, count, flags)
<1>1. PICK t : t = [s EXCEPT !.dirs = dirs]
  OBVIOUS
<1>2. /\ t \in Scans /\ t.displayed = s.displayed /\ t.part = s.part /\ t.todo = s.todo
      /\ t.emitted = s.emitted /\ t.nonStop = s.nonStop /\ t.page = s.page
  BY <1>1 DEF Scans
<1>3. Counted(p, t, count) /\ Marked(t, lines, flags)
  BY <1>2 DEF Fine, Counted, Marked
<1>4. Numbered(t, lines)
  BY <1>2 DEF Fine, Numbered
<1>5. Paged(p, t, lines)
  BY <1>2 DEF Fine, Paged, Fits, Stale
<1> QED
  BY <1>1, <1>2, <1>3, <1>4, <1>5 DEF Fine

LEMMA NothingIsFine ==
    ASSUME NEW p, p \notin Prompts, NEW flags
    PROVE  NoScan \in Scans /\ NoScan.part = "banner" /\ Fine(p, NoScan, <<>>, 0, flags)
<1>1. PICK s : s = NoScan
  OBVIOUS
<1>2. /\ s.part = "banner" /\ s.todo = <<>> /\ s.emitted = 0 /\ s.nonStop = FALSE /\ s.page = <<>>
      /\ s.displayed = <<>>
  BY <1>1 DEF NoScan
<1>3. PageLines \in Nat /\ PageLines > 1
  BY ListingBounds
<1>4. Counted(p, s, 0)
  BY <1>2, <1>3 DEF Counted
<1>5. <<>> \in Seq(Lines) /\ Unnumbered(<<>>) /\ MarkedIn(<<>>, flags) /\ Len(<<>>) = 0
  BY NoLines
<1>6. Continues(<<>>, 0)
  BY <1>5, UnnumberedGoOn
<1>7. Numbered(s, <<>>)
  BY <1>2, <1>5, <1>6 DEF Numbered
<1>8. Paged(p, s, <<>>)
  BY <1>2, <1>3, <1>5 DEF Paged, Fits, Stale
<1>9. Marked(s, <<>>, flags)
  BY <1>2, <1>5 DEF Marked
<1> QED
  BY <1>1, <1>2, <1>4, <1>7, <1>8, <1>9, NoScanTyped DEF Fine

\* The answer to the question for a date.
LEMMA DateIsFine ==
    ASSUME NEW s \in Scans, s.part = "banner", NEW kind \in Kinds, NEW p, NEW lines, NEW count, NEW flags,
           Fine(p, s, lines, count, flags)
    PROVE  LET t == [s EXCEPT !.mode.kind = kind]
           IN t \in Scans /\ t.part = "banner" /\ Fine(p, t, lines, count, flags)
<1>1. PICK mode : mode = [s.mode EXCEPT !.kind = kind]
  OBVIOUS
<1>2. mode \in Modes
  BY <1>1, ScanFields DEF Modes
<1>3. PICK t : t = [s EXCEPT !.mode = mode]
  OBVIOUS
<1>4. t = [s EXCEPT !.mode.kind = kind]
  BY <1>1, <1>3
<1>5. /\ t \in Scans /\ t.displayed = s.displayed /\ t.part = s.part /\ t.todo = s.todo /\ t.dirs = s.dirs
      /\ t.emitted = s.emitted /\ t.nonStop = s.nonStop /\ t.page = s.page
  BY <1>2, <1>3 DEF Scans
<1>6. Counted(p, t, count) /\ Marked(t, lines, flags)
  BY <1>5 DEF Fine, Counted, Marked
<1>7. Numbered(t, lines)
  BY <1>5 DEF Fine, Numbered
<1>8. Paged(p, t, lines)
  BY <1>5 DEF Fine, Paged, Fits, Stale
<1> QED
  BY <1>4, <1>5, <1>6, <1>7, <1>8 DEF Fine

\* The answer to the question for directories: two lines that are not counted.
LEMMA SpanIsFine ==
    ASSUME NEW s \in Scans, s.part = "banner", NEW span \in Spans, NEW todo \in {<<Raw>>, <<>>},
           NEW lines \in Seq(Lines), NEW count, NEW flags, Fine("dirs", s, lines, count, flags)
    PROVE  LET t == [s EXCEPT !.mode.span = span, !.todo = todo]
               more == Recent(lines \o <<Raw, Raw>>)
           IN t \in Scans /\ more \in Seq(Lines) /\ Fine("writing", t, more, count, flags)
<1>1. PICK mode : mode = [s.mode EXCEPT !.span = span]
  OBVIOUS
<1>2. mode \in Modes
  BY <1>1, ScanFields DEF Modes
<1>3. todo \in Seq(Lines) /\ Unnumbered(todo) /\ MarkedIn(todo, flags)
  BY OneRaw, NoLines
<1>4. PICK t : t = [s EXCEPT !.mode = mode, !.todo = todo]
  OBVIOUS
<1>5. t = [s EXCEPT !.mode.span = span, !.todo = todo]
  BY <1>1, <1>4
<1>6. /\ t \in Scans /\ t.displayed = s.displayed /\ t.part = s.part /\ t.todo = todo /\ t.dirs = s.dirs
      /\ t.emitted = s.emitted /\ t.nonStop = s.nonStop /\ t.page = s.page
  BY <1>2, <1>3, <1>4 DEF Scans
<1>7. PICK long : long = lines \o <<Raw, Raw>>
  OBVIOUS
<1>8. /\ long \in Seq(Lines) /\ Len(long) = Len(lines) + 2 /\ Len(lines) \in Nat
      /\ \A j \in 1 .. Len(long) : long[j] = Raw \/ (j \in DOMAIN lines /\ long[j] = lines[j])
  <2>1. PICK two : two = <<Raw, Raw>>
    OBVIOUS
  <2>2. two \in Seq(Lines) /\ Len(two) = 2 /\ two[1] = Raw /\ two[2] = Raw
    BY <2>1, RawIsALine
  <2>3. long = lines \o two
    BY <1>7, <2>1
  <2>4. /\ long \in Seq(Lines) /\ Len(long) = Len(lines) + 2 /\ Len(lines) \in Nat
        /\ \A j \in 1 .. Len(lines) + 2 :
             long[j] = IF j <= Len(lines) THEN lines[j] ELSE two[j - Len(lines)]
    <3>1. two \in Seq(Lines) /\ Len(two) = 2 /\ Len(lines) \in Nat
      BY <2>2, LenProperties
    <3>2. lines \o two \in Seq(Lines) /\ Len(lines \o two) = Len(lines) + Len(two)
      BY <3>1, ConcatProperties
    <3>3. \A j \in 1 .. Len(lines) + Len(two) :
             (lines \o two)[j] = IF j <= Len(lines) THEN lines[j] ELSE two[j - Len(lines)]
      BY <3>1, ConcatProperties
    <3> QED
      BY <2>3, <3>1, <3>2, <3>3
  <2>5. ASSUME NEW j \in 1 .. Len(long)
        PROVE  long[j] = Raw \/ (j \in DOMAIN lines /\ long[j] = lines[j])
    <3>1. CASE j <= Len(lines)
      BY <2>4, <3>1
    <3>2. CASE j > Len(lines)
      <4>1. j - Len(lines) = 1 \/ j - Len(lines) = 2
        BY <2>4, <3>2
      <4> QED
        BY <2>2, <2>4, <3>2, <4>1
    <3> QED
      BY <2>4, <3>1, <3>2
  <2> QED
    BY <2>4, <2>5
<1>9. PICK more : more = Recent(long)
  OBVIOUS
<1>10. s.displayed = <<>>
  BY DEF Fine, Numbered
<1>11. \A j \in DOMAIN lines : lines[j].file = NoFile
  BY DEF Fine, Numbered
<1>12. \A j \in DOMAIN s.page : s.page[j].file = NoFile
  BY DEF Fine, Numbered
<1>13. \A j \in DOMAIN long : long[j].file = NoFile
  BY <1>8, <1>11, RawIsALine
<1>14. MarkedIn(long, flags)
  BY <1>8, RawIsALine DEF Fine, Marked, MarkedIn
<1>15. more \in Seq(Lines) /\ MarkedIn(more, flags)
  BY <1>8, <1>9, <1>14, RecentKeepsTheLast, RecentMarks
<1>16. \A j \in DOMAIN more : more[j].file = NoFile
  BY <1>8, <1>9, <1>13, RecentFiles
<1>17. Counted("writing", t, count)
  BY <1>6, WhoPrompts DEF Fine, Counted
<1>18. Numbered(t, more)
  <2>1. Continues(todo, Len(<<>>))
    <3>1. Len(<<>>) = 0
      OBVIOUS
    <3> QED
      BY <3>1, <1>3, UnnumberedGoOn
  <2> QED
    BY <2>1, <1>3, <1>6, <1>10, <1>12, <1>16 DEF Numbered
<1>19. Paged("writing", t, more)
  <2> SUFFICES ASSUME ~ t.nonStop
               PROVE  /\ Fits(t)
                      /\ Stale("writing", t) \/ (PageTrue(t.page, t.displayed) /\ AtFoot(t.page, more))
    BY DEF Paged
  <2>1. Fits(t)
    BY <1>6 DEF Fine, Paged, Fits
  <2>2. CASE s.emitted = 0
    BY <1>6, <2>1, <2>2, WhoPrompts DEF Stale
  <2>3. CASE s.emitted # 0
    <3>1. PageTrue(s.page, s.displayed) /\ AtFoot(s.page, lines)
      BY <1>6, <2>3 DEF Fine, Paged, Stale
    <3>2. s.page \in Seq(Lines) /\ Len(s.page) \in Nat /\ Len(s.page) <= PageLines /\ PageLines \in Nat
      BY <1>6, <2>1, ScanFields, ListingBounds, LenProperties DEF Fits
    <3>3. Len(s.page) <= Len(lines)
      BY <3>1 DEF AtFoot
    <3>4. /\ Len(more) \in Nat
          /\ Len(more) = Len(long) \/ Len(more) = PageLines + 1
      BY <1>8, <1>9, <1>15, RecentKeepsTheLast, LenProperties
    <3>5. Len(s.page) <= Len(more)
      BY <3>2, <3>3, <3>4, <1>8
    <3>6. ASSUME NEW j \in DOMAIN s.page
          PROVE  more[Len(more) - Len(s.page) + j].file = s.page[j].file
      <4>1. PICK k : k = Len(more) - Len(s.page) + j
        OBVIOUS
      <4>2. j \in 1 .. Len(s.page)
        BY <3>2, LenProperties
      <4>3. k \in 1 .. Len(more)
        BY <4>1, <4>2, <3>2, <3>4, <3>5
      <4>4. k \in DOMAIN more
        BY <4>3, <1>15, LenProperties
      <4> QED
        BY <4>1, <4>4, <1>12, <1>16
    <3>7. AtFoot(s.page, more)
      BY <3>5, <3>6 DEF AtFoot
    <3> QED
      BY <2>1, <3>1, <3>7, <1>6
  <2> QED
    BY <2>2, <2>3
<1>20. Marked(t, more, flags)
  BY <1>3, <1>6, <1>15 DEF Fine, Marked
<1> QED
  BY <1>5, <1>6, <1>7, <1>9, <1>15, <1>17, <1>18, <1>19, <1>20 DEF Fine

\* The help of the More? prompt, and the page under it.
LEMMA HelpIsFine ==
    ASSUME NEW s \in Scans, NEW p \in Prompts, NEW lines, NEW count, NEW flags,
           Fine(p, s, lines, count, flags)
    PROVE  <<Raw>> \o s.page \in Seq(Lines) /\ Fine(p, s, <<Raw>> \o s.page, count, flags)
<1>1. PICK one : one = <<Raw>>
  OBVIOUS
<1>2. PICK more : more = one \o s.page
  OBVIOUS
<1>3. one \in Seq(Lines) /\ Len(one) = 1 /\ one[1] = Raw /\ s.page \in Seq(Lines)
  BY <1>1, RawIsALine, ScanFields
<1>4. /\ more \in Seq(Lines) /\ Len(more) = 1 + Len(s.page) /\ Len(s.page) \in Nat
      /\ \A j \in 1 .. 1 + Len(s.page) : more[j] = IF j <= 1 THEN one[j] ELSE s.page[j - 1]
  <2>1. PICK page : page = s.page
    OBVIOUS
  <2>2. one \in Seq(Lines) /\ Len(one) = 1 /\ page \in Seq(Lines) /\ Len(page) \in Nat
    BY <1>3, <2>1, LenProperties
  <2>3. one \o page \in Seq(Lines) /\ Len(one \o page) = Len(one) + Len(page)
    BY <2>2, ConcatProperties
  <2>4. \A j \in 1 .. Len(one) + Len(page) :
           (one \o page)[j] = IF j <= Len(one) THEN one[j] ELSE page[j - Len(one)]
    BY <2>2, ConcatProperties
  <2> QED
    BY <1>2, <2>1, <2>2, <2>3, <2>4
<1>5. /\ \A j \in 1 .. Len(s.page) : more[j + 1] = s.page[j]
      /\ \A j \in 1 .. Len(more) : more[j] = Raw \/ (j - 1 \in DOMAIN s.page /\ more[j] = s.page[j - 1])
  <2>1. ASSUME NEW j \in 1 .. Len(s.page)
        PROVE  more[j + 1] = s.page[j]
    <3>1. j + 1 \in 1 .. 1 + Len(s.page) /\ ~ (j + 1 <= 1) /\ (j + 1) - 1 = j
      BY <1>4
    <3> QED
      BY <3>1, <1>4
  <2>2. ASSUME NEW j \in 1 .. Len(more), j # 1
        PROVE  j - 1 \in DOMAIN s.page /\ more[j] = s.page[j - 1]
    <3>1. j - 1 \in 1 .. Len(s.page) /\ j \in 1 .. 1 + Len(s.page) /\ ~ (j <= 1)
      BY <2>2, <1>4
    <3> QED
      BY <3>1, <1>3, <1>4
  <2>3. more[1] = Raw
    BY <1>3, <1>4
  <2> QED
    BY <2>1, <2>2, <2>3
<1>6. AtFoot(s.page, more)
  <2>1. ASSUME NEW j \in DOMAIN s.page
        PROVE  more[Len(more) - Len(s.page) + j].file = s.page[j].file
    <3>1. j \in 1 .. Len(s.page) /\ Len(more) - Len(s.page) + j = j + 1
      BY <1>3, <1>4, LenProperties
    <3> QED
      BY <3>1, <1>5
  <2> QED
    BY <2>1, <1>4 DEF AtFoot
<1>7. MarkedIn(more, flags)
  BY <1>4, <1>5, RawIsALine DEF Fine, Marked, MarkedIn
<1>8. s.part = "banner" => \A j \in DOMAIN more : more[j].file = NoFile
  BY <1>4, <1>5, RawIsALine DEF Fine, Numbered
<1>9. Numbered(s, more)
  BY <1>8 DEF Fine, Numbered
<1>10. Paged(p, s, more) /\ Marked(s, more, flags)
  BY <1>6, <1>7 DEF Fine, Paged, Marked
<1> QED
  BY <1>1, <1>2, <1>4, <1>9, <1>10 DEF Fine

\* repaint_flagged_rows: the rows painted are those of the page, and the page
\* is at the foot of the screen.
LEMMA RepaintedIsFine ==
    ASSUME scan \in Scans, screen \in Seq(Lines), NEW p \in Prompts, NEW count, NEW flags, NEW names,
           Fine(p, scan, screen, count, flags)
    PROVE  /\ Repainted(names) \in Seq(Lines)
           /\ Fine(p, scan, Repainted(names), count, flags \cup names)
<1>1. PICK painted : painted = {RowOnScreen(j) : j \in {i \in DOMAIN scan.page : scan.page[i].file \in names}}
  OBVIOUS
<1>2. PICK more : more = Repainted(names)
  OBVIOUS
<1>3. more = [i \in DOMAIN screen |-> IF scan.ansi /\ i \in painted THEN [screen[i] EXCEPT !.marked = TRUE]
                                                               ELSE screen[i]]
  BY <1>1, <1>2 DEF Repainted
<1>4. PICK page : page = scan.page
  OBVIOUS
<1>5. page \in Seq(Lines) /\ Len(page) \in Nat /\ Len(screen) \in Nat /\ DOMAIN screen = 1 .. Len(screen)
      /\ DOMAIN page = 1 .. Len(page)
  BY <1>4, ScanFields, LenProperties
<1>6. \A i \in DOMAIN screen : screen[i] \in Lines
  BY <1>5, ElementOfSeq
<1>7. \A i \in DOMAIN screen : more[i] \in Lines /\ more[i].file = screen[i].file
  BY <1>3, <1>6 DEF Lines
<1>8. more \in Seq(Lines) /\ Len(more) = Len(screen) /\ DOMAIN more = DOMAIN screen
  <2>1. DOMAIN more = 1 .. Len(screen)
    BY <1>3, <1>5
  <2>2. \A i \in 1 .. Len(screen) : more[i] \in Lines
    BY <1>5, <1>7
  <2>3. more = [i \in 1 .. Len(screen) |-> more[i]]
    BY <1>3, <1>5
  <2>4. more \in [1 .. Len(screen) -> Lines]
    BY <2>2, <2>3
  <2>5. more \in Seq(Lines)
    BY <2>4, <1>5, SeqDef
  <2> QED
    BY <2>1, <2>5, <1>5, LenProperties
<1>9. ~ scan.nonStop /\ PageTrue(page, scan.displayed) /\ Fits(scan) /\ (AtFoot(page, screen) \/ screen = <<>>)
  BY <1>4 DEF Fine, Counted, Paged, Stale
<1>10. \A i \in painted : i \in DOMAIN screen => screen[i].file \in names
  <2> SUFFICES ASSUME NEW i \in painted, i \in DOMAIN screen
               PROVE  screen[i].file \in names
    OBVIOUS
  <2>1. PICK j \in DOMAIN page : page[j].file \in names /\ i = RowOnScreen(j)
    BY <1>1, <1>4
  <2>2. screen # <<>>
    OBVIOUS
  <2>3. AtFoot(page, screen)
    BY <1>9, <2>2
  <2>4. PICK k : k = Len(screen) - Len(page) + j
    OBVIOUS
  <2>5. k \in Int /\ k >= 1
    BY <2>3, <2>4, <1>5 DEF AtFoot
  <2>6. i = Max({1, k})
    BY <2>1, <2>4, <1>4 DEF RowOnScreen
  <2>7. Max({1, k}) = IF 1 >= k THEN 1 ELSE k
    BY <2>5, PairMax
  <2>8. i = k
    BY <2>5, <2>6, <2>7
  <2>9. screen[k].file = page[j].file
    BY <2>3, <2>4 DEF AtFoot
  <2> QED
    BY <2>1, <2>8, <2>9
<1>11. MarkedIn(more, flags \cup names)
  <2> SUFFICES ASSUME NEW i \in DOMAIN screen, more[i].marked
               PROVE  more[i].file \in flags \cup names
    BY <1>8 DEF MarkedIn
  <2>1. CASE scan.ansi /\ i \in painted
    BY <2>1, <1>7, <1>10
  <2>2. CASE ~ (scan.ansi /\ i \in painted)
    <3>1. more[i] = screen[i]
      BY <2>2, <1>3
    <3> QED
      BY <3>1 DEF Fine, Marked, MarkedIn
  <2> QED
    BY <2>1, <2>2
<1>12. Marked(scan, more, flags \cup names)
  BY <1>11, MoreFlags DEF Fine, Marked
<1>13. Numbered(scan, more)
  BY <1>7, <1>8 DEF Fine, Numbered
<1>14. Paged(p, scan, more)
  <2>1. CASE AtFoot(page, screen)
    <3>1. \A j \in DOMAIN page : Len(screen) - Len(page) + j \in DOMAIN screen
      BY <2>1, <1>5 DEF AtFoot
    <3>2. AtFoot(page, more)
      BY <2>1, <3>1, <1>7, <1>8 DEF AtFoot
    <3> QED
      BY <3>2, <1>4, <1>9 DEF Paged
  <2>2. CASE screen = <<>>
    <3>1. Len(more) = 0
      BY <2>2, <1>8
    <3>2. more = <<>>
      BY <3>1, <1>8, EmptySeq
    <3> QED
      BY <2>2, <3>2 DEF Fine, Paged
  <2> QED
    BY <2>1, <2>2, <1>9
<1> QED
  BY <1>2, <1>8, <1>12, <1>13, <1>14 DEF Fine

----------------------------------------------------------------------------
(* The steps of a call that lists.                                          *)

\* Who lists is the only call there is.
LEMMA OneCallMoves ==
    ASSUME Consistent, NEW c \in Calls, c \in asked.calls, asked.commands \cap {"list", "mail"} # {},
           NEW q \in Phases, GoesTo(c, q), flagged' \in [Calls -> SUBSET Things],
           basis' = basis, saved' = saved, asked' = asked, scan' \in Scans, screen' \in Seq(Lines),
           unread' \in Nat, pager' \in Pagers, CallOK(c)'
    PROVE  Consistent'
<1>1. at' = [at EXCEPT ![c] = q] /\ at \in [Calls -> Phases]
  BY DEF GoesTo, Consistent, TypeOK
<1>2. TypeOK'
  <2>1. at' \in [Calls -> Phases]
    BY <1>1
  <2> QED
    BY <2>1 DEF Consistent, TypeOK
<1>3. ASSUME NEW d \in Calls, d # c
      PROVE  CallOK(d)'
  <2>1. PICK e \in Calls : asked.calls = {e}
    BY OneListsAtATime DEF Consistent, TypeOK
  <2>2. d \notin asked.calls
    BY <2>1, <1>3
  <2>3. at[d] = "away"
    BY <2>2 DEF Consistent, CallOK, Calling
  <2>4. at'[d] = "away"
    BY <2>3, <1>1, <1>3
  <2>5. "away" \notin ListingPhases /\ "away" \notin MailPhases /\ "away" \notin Asking \cup {"dirs"}
    BY DEF ListingPhases, MailPhases, Asking
  <2> QED
    BY <2>2, <2>4, <2>5 DEF CallOK, Calling, Building, Quiet, Listing
<1> QED
  BY <1>2, <1>3 DEF Consistent

LEMMA PhasesTyped ==
    /\ ListingPhases \subseteq Phases /\ MailPhases \subseteq Phases
    /\ "menu" \in Phases /\ "away" \in Phases
    /\ \A p \in ListingPhases : p \notin MailPhases /\ p # "away" /\ p # "menu"
    /\ \A p \in MailPhases : p \notin ListingPhases /\ p # "away" /\ p # "menu"
    /\ \A p \in MenuPhases : p \notin ListingPhases /\ p \notin MailPhases /\ p # "away" /\ p \in Phases
    /\ "menu" \in MenuPhases /\ "away" \notin ListingPhases /\ "away" \notin MailPhases
    /\ Prompts \subseteq ListingPhases /\ Asking \subseteq ListingPhases
    /\ \A p \in Asking : p \notin Prompts
    /\ "writing" \in ListingPhases /\ "dirs" \in ListingPhases
BY DEF Phases, ListingPhases, MailPhases, MenuPhases, Prompts, Asking

LEMMA OfACall ==
    ASSUME Consistent, NEW c \in Calls
    PROVE  /\ at[c] # "away" => c \in asked.calls
           /\ Listing(c) => /\ "list" \in asked.commands /\ at[c] # "away"
                            /\ Fine(at[c], scan, screen, unread, flagged[c])
           /\ at[c] \in MailPhases => /\ "mail" \in asked.commands /\ at[c] # "away"
                                      /\ Told(at[c], pager, unread)
           /\ scan \in Scans /\ screen \in Seq(Lines) /\ unread \in Nat /\ pager \in Pagers
           /\ flagged \in [Calls -> SUBSET Things] /\ flagged[c] \in SUBSET Things
           /\ Building(c) /\ Quiet(c)
BY PhasesTyped DEF Consistent, TypeOK, CallOK, Calling, Listing

\* A listing goes on.
LEMMA GoesOnListing ==
    ASSUME Consistent, NEW c \in Calls, at[c] # "away", "list" \in asked.commands,
           NEW q \in ListingPhases, GoesTo(c, q), Keeps, UNCHANGED pager,
           flagged' \in [Calls -> SUBSET Things], flagged[c] \subseteq flagged'[c],
           scan' \in Scans, screen' \in Seq(Lines), unread' \in Nat,
           Fine(q, scan', screen', unread', flagged'[c]),
           q \in Asking => screen' = <<>> /\ unread' = 0,
           q \in Asking \cup {"dirs"} => scan'.part = "banner"
    PROVE  Consistent'
<1>1. at' = [at EXCEPT ![c] = q] /\ at \in [Calls -> Phases] /\ at'[c] = q
  BY DEF GoesTo, Consistent, TypeOK
<1>2. c \in asked.calls /\ Building(c)
  BY OfACall
<1>3. q \in Phases /\ q # "away" /\ q \notin MailPhases
  BY PhasesTyped
<1>4. asked' = asked /\ basis' = basis /\ saved' = saved
  BY DEF Keeps
<1>5. Calling(c)'
  BY <1>1, <1>2, <1>3, <1>4 DEF Calling
<1>6. Building(c)'
  BY <1>1, <1>2, <1>4 DEF Building
<1>7. Quiet(c)'
  BY <1>1 DEF Quiet, Listing
<1>8. CallOK(c)'
  BY <1>1, <1>3, <1>5, <1>6, <1>7 DEF CallOK
<1>9. pager' \in Pagers
  BY OfACall
<1> QED
  BY <1>2, <1>3, <1>4, <1>8, <1>9, OneCallMoves

\* A listing ends, or was none.
LEMMA EndsListing ==
    ASSUME Consistent, NEW c \in Calls, at[c] # "away", "list" \in asked.commands,
           NEW q \in {"menu", "away"}, GoesTo(c, q), Keeps, UNCHANGED pager,
           flagged' \in [Calls -> SUBSET Things], q = "menu" => flagged[c] \subseteq flagged'[c],
           scan' \in Scans, screen' = <<>>, unread' \in Nat
    PROVE  Consistent'
<1>1. at' = [at EXCEPT ![c] = q] /\ at \in [Calls -> Phases] /\ at'[c] = q
  BY DEF GoesTo, Consistent, TypeOK
<1>2. c \in asked.calls /\ Building(c)
  BY OfACall
<1>3. q \in Phases /\ q \notin MailPhases /\ q \notin ListingPhases
  BY PhasesTyped
<1>4. asked' = asked /\ basis' = basis /\ saved' = saved
  BY DEF Keeps
<1>5. Calling(c)'
  BY <1>1, <1>2, <1>3, <1>4 DEF Calling, Listing
<1>6. Building(c)'
  BY <1>1, <1>2, <1>4 DEF Building
<1>7. Quiet(c)'
  <2>1. q \notin Asking /\ q \notin Asking \cup {"dirs"}
    BY <1>3, PhasesTyped DEF ListingPhases
  <2> QED
    BY <1>1, <2>1 DEF Quiet, Listing
<1>8. CallOK(c)'
  BY <1>1, <1>3, <1>5, <1>6, <1>7 DEF CallOK, Listing
<1>9. pager' \in Pagers /\ screen' \in Seq(Lines)
  BY OfACall, NoLines
<1> QED
  BY <1>2, <1>3, <1>4, <1>8, <1>9, OneCallMoves

LEMMA FlagsStayTyped ==
    ASSUME Consistent, NEW c \in Calls, flagged' = flagged
    PROVE  flagged' \in [Calls -> SUBSET Things] /\ flagged'[c] = flagged[c] /\ flagged[c] \subseteq flagged'[c]
BY OfACall

LEMMA FinishKeeps ==
    ASSUME Consistent, NEW c \in Calls, Listing(c), Finish(c), Keeps, UNCHANGED <<flagged, pager>>,
           unread' \in Nat
    PROVE  Consistent'
<1>1. at[c] # "away" /\ "list" \in asked.commands
  BY OfACall
<1>2. flagged' \in [Calls -> SUBSET Things] /\ flagged[c] \subseteq flagged'[c]
  BY FlagsStayTyped
<1>3. GoesTo(c, "menu") /\ scan' \in Scans /\ screen' = <<>>
  BY NoScanTyped DEF Finish
<1> QED
  BY <1>1, <1>2, <1>3, EndsListing

LEMMA WritesKeeps ==
    ASSUME Consistent, NEW c \in Calls, at[c] # "away", "list" \in asked.commands,
           NEW s \in Scans, NEW lines \in Seq(Lines), Writes(c, s, lines), Keeps,
           UNCHANGED <<flagged, pager>>, unread' \in Nat,
           Fine("writing", s, lines, unread', flagged[c])
    PROVE  Consistent'
<1>1. flagged' \in [Calls -> SUBSET Things] /\ flagged'[c] = flagged[c] /\ flagged[c] \subseteq flagged'[c]
  BY FlagsStayTyped
<1>2. GoesTo(c, "writing") /\ scan' = s /\ screen' = lines
  BY DEF Writes
<1>3. "writing" \notin Asking \cup {"dirs"} /\ "writing" \in ListingPhases /\ "writing" \notin Asking
  BY DEF Asking, ListingPhases
<1>4. Fine("writing", scan', screen', unread', flagged'[c])
  BY <1>1, <1>2
<1> QED
  BY <1>1, <1>2, <1>3, <1>4, GoesOnListing

\* One prompt, or question, after another.
LEMMA WaitsOn ==
    ASSUME Consistent, NEW c \in Calls, Listing(c), NEW q \in ListingPhases, GoesTo(c, q), Keeps,
           UNCHANGED <<flagged, pager, scan, screen, unread>>,
           at[c] \in Prompts <=> q \in Prompts, q \notin Asking,
           q = "dirs" => scan.part = "banner"
    PROVE  Consistent'
<1>1. at[c] # "away" /\ "list" \in asked.commands /\ Fine(at[c], scan, screen, unread, flagged[c])
  BY OfACall
<1>2. flagged' \in [Calls -> SUBSET Things] /\ flagged'[c] = flagged[c] /\ flagged[c] \subseteq flagged'[c]
  BY FlagsStayTyped
<1>3. Fine(q, scan, screen, unread, flagged[c])
  BY <1>1, PhasesAlike
<1>4. scan' = scan /\ screen' = screen /\ unread' = unread
  OBVIOUS
<1>5. scan' \in Scans /\ screen' \in Seq(Lines) /\ unread' \in Nat
  BY <1>4, OfACall
<1>6. Fine(q, scan', screen', unread', flagged'[c])
  BY <1>2, <1>3, <1>4
<1>7. q \in Asking \cup {"dirs"} => scan'.part = "banner"
  BY <1>4
<1> QED
  BY <1>1, <1>2, <1>5, <1>6, <1>7, GoesOnListing

LEMMA EmitLineKeeps ==
    ASSUME Consistent, NEW c \in Calls, EmitLine(c), UNCHANGED pager
    PROVE  Consistent'
<1>1. at[c] = "writing" /\ scan.todo # <<>> /\ Keeps /\ flagged' = flagged
  BY DEF EmitLine
<1>2. Listing(c) /\ at[c] # "away" /\ "list" \in asked.commands
      /\ Fine("writing", scan, screen, unread, flagged[c])
  BY <1>1, OfACall, PhasesTyped DEF Listing
<1>3. scan \in Scans /\ screen \in Seq(Lines) /\ unread \in Nat
  BY OfACall
<1>4. PICK q : q = IF PageFull(Next1(scan)) THEN "more" ELSE "writing"
  OBVIOUS
<1>5. scan' = Next1(scan) /\ screen' = Recent(Append(screen, Head(scan.todo)))
      /\ unread' = (IF Next1(scan).nonStop THEN 0 ELSE unread + 1)
      /\ GoesTo(c, q)
  BY <1>4 DEF EmitLine, Next1
<1>6. /\ screen' \in Seq(Lines)
      /\ Fine(q, scan', screen', unread', flagged[c])
  BY <1>1, <1>2, <1>3, <1>4, <1>5, EmittedIsFine
<1>7. scan' \in Scans
  BY <1>1, <1>3, <1>5, EmittedFields
<1>8. unread' \in Nat
  BY <1>3, <1>5
<1>9. flagged' \in [Calls -> SUBSET Things] /\ flagged'[c] = flagged[c] /\ flagged[c] \subseteq flagged'[c]
  BY <1>1, FlagsStayTyped
<1>10. q \in ListingPhases /\ q \notin Asking \cup {"dirs"} /\ q \notin Asking
  BY <1>4 DEF ListingPhases, Asking
<1> QED
  BY <1>1, <1>2, <1>5, <1>6, <1>7, <1>8, <1>9, <1>10, GoesOnListing

LEMMA BannerWrittenKeeps ==
    ASSUME Consistent, NEW c \in Calls, BannerWritten(c), UNCHANGED pager
    PROVE  Consistent'
<1>1. /\ at[c] = "writing" /\ scan.part = "banner" /\ Keeps /\ UNCHANGED <<flagged, pager>>
      /\ unread' = unread
  BY DEF BannerWritten, Written, NoEffects
<1>2. Listing(c) /\ at[c] # "away" /\ "list" \in asked.commands
      /\ Fine("writing", scan, screen, unread, flagged[c])
  BY <1>1, OfACall, PhasesTyped DEF Listing
<1>3. scan \in Scans /\ screen \in Seq(Lines) /\ unread \in Nat
  BY OfACall
<1>4. PICK span : span = scan.mode.span
  OBVIOUS
<1>5. PICK kind : kind = scan.mode.kind
  OBVIOUS
<1>6. span \in Spans /\ kind \in Kinds
  BY <1>3, <1>4, <1>5, ScanFields DEF Modes
<1>7. PICK dirs : dirs = DirsOf(span, kind)
  OBVIOUS
<1>8. \/ span = NoSpan /\ GoesTo(c, "dirs") /\ UNCHANGED <<scan, screen, unread>>
      \/ span # NoSpan /\ Finish(c)
      \/ span # NoSpan /\ dirs # <<>> /\ Writes(c, Begun([scan EXCEPT !.dirs = dirs]), screen)
  BY <1>4, <1>5, <1>7 DEF BannerWritten
<1>9. CASE span = NoSpan /\ GoesTo(c, "dirs") /\ UNCHANGED <<scan, screen, unread>>
  <2>1. at[c] \in Prompts <=> "dirs" \in Prompts
    BY <1>1, WhoPrompts
  <2>2. "dirs" \in ListingPhases /\ "dirs" \notin Asking
    BY DEF ListingPhases, Asking
  <2> QED
    BY <1>1, <1>2, <1>9, <2>1, <2>2, WaitsOn
<1>10. CASE span # NoSpan /\ Finish(c)
  BY <1>1, <1>2, <1>3, <1>10, FinishKeeps
<1>11. CASE span # NoSpan /\ dirs # <<>> /\ Writes(c, Begun([scan EXCEPT !.dirs = dirs]), screen)
  <2>1. dirs \in Seq(Nat)
    BY <1>6, <1>7, <1>11, DirsTyped
  <2>2. PICK t : t = Begun([scan EXCEPT !.dirs = dirs])
    OBVIOUS
  <2>3. t \in Scans /\ Fine("writing", t, screen, unread, flagged[c])
    BY <1>1, <1>2, <1>3, <1>11, <2>1, <2>2, DirsAreFine
  <2>4. Writes(c, t, screen) /\ unread' \in Nat /\ Fine("writing", t, screen, unread', flagged[c])
    BY <1>1, <1>3, <1>11, <2>2, <2>3
  <2> QED
    BY <1>1, <1>2, <1>3, <2>3, <2>4, WritesKeeps
<1> QED
  BY <1>8, <1>9, <1>10, <1>11

\* Leave, where the page allows another directory to begin.
LEMMA LeaveKeeps ==
    ASSUME Consistent, NEW c \in Calls, Listing(c), NEW s \in Scans, s.dirs # <<>>, NEW lines \in Seq(Lines),
           Leave(c, s, lines), Keeps, UNCHANGED <<flagged, pager>>, unread' \in Nat,
           Counted("writing", s, unread'), MarkedIn(s.page, flagged[c]), MarkedIn(lines, flagged[c]),
           ~ s.nonStop => Fits(s) /\ (s.emitted = 0 \/ (PageTrue(s.page, <<>>) /\ AtFoot(s.page, lines)))
    PROVE  Consistent'
<1>1. at[c] # "away" /\ "list" \in asked.commands
  BY OfACall
<1>2. CASE Len(s.dirs) = 1
  BY <1>2, FinishKeeps DEF Leave
<1>3. CASE Len(s.dirs) # 1
  <2>1. PICK t : t = Begun([s EXCEPT !.dirs = Tail(@)])
    OBVIOUS
  <2>2. Writes(c, t, lines)
    BY <1>3, <2>1 DEF Leave
  <2>3. t \in Scans /\ Fine("writing", t, lines, unread', flagged[c])
    BY <1>3, <2>1, NextDirIsFine
  <2> QED
    BY <1>1, <2>2, <2>3, WritesKeeps
<1> QED
  BY <1>2, <1>3

LEMMA HeaderWrittenKeeps ==
    ASSUME Consistent, NEW c \in Calls, HeaderWritten(c), UNCHANGED pager
    PROVE  Consistent'
<1>1. /\ at[c] = "writing" /\ scan.part = "header" /\ Keeps /\ UNCHANGED <<flagged, pager>>
      /\ unread' = unread
  BY DEF HeaderWritten, Written, NoEffects
<1>2. Listing(c) /\ at[c] # "away" /\ "list" \in asked.commands
      /\ Fine("writing", scan, screen, unread, flagged[c])
  BY <1>1, OfACall, PhasesTyped DEF Listing
<1>3. scan \in Scans /\ screen \in Seq(Lines) /\ unread \in Nat
  BY OfACall
<1>4. CASE Leave(c, scan, screen)
  <2>1. scan.dirs # <<>> /\ scan.displayed = <<>>
    BY <1>1, <1>2 DEF Fine, Numbered
  <2>2. Counted("writing", scan, unread') /\ MarkedIn(scan.page, flagged[c]) /\ MarkedIn(screen, flagged[c])
    BY <1>1, <1>2 DEF Fine, Marked
  <2>3. ~ scan.nonStop => Fits(scan) /\ (scan.emitted = 0 \/ (PageTrue(scan.page, <<>>)
                                                              /\ AtFoot(scan.page, screen)))
    BY <1>2, <2>1 DEF Fine, Paged, Stale
  <2> QED
    BY <1>1, <1>2, <1>3, <1>4, <2>1, <2>2, <2>3, LeaveKeeps
<1>5. CASE Writes(c, [scan EXCEPT !.part = "blank", !.todo = <<Raw>>], screen)
  <2>1. PICK t : t = [scan EXCEPT !.part = "blank", !.todo = <<Raw>>]
    OBVIOUS
  <2>2. t \in Scans /\ Fine("writing", t, screen, unread', flagged[c])
    BY <1>1, <1>2, <1>3, <2>1, BlankIsFine
  <2> QED
    BY <1>1, <1>2, <1>3, <1>5, <2>1, <2>2, WritesKeeps
<1> QED
  BY <1>4, <1>5 DEF HeaderWritten

LEMMA StreamDirBodyKeeps ==
    ASSUME Consistent, NEW c \in Calls, StreamDirBody(c), UNCHANGED pager
    PROVE  Consistent'
<1>1. /\ at[c] = "writing" /\ scan.part = "blank" /\ Keeps /\ UNCHANGED <<flagged, pager>>
      /\ unread' = unread
  BY DEF StreamDirBody, Written, NoEffects
<1>2. Listing(c) /\ at[c] # "away" /\ "list" \in asked.commands
      /\ Fine("writing", scan, screen, unread, flagged[c])
  BY <1>1, OfACall, PhasesTyped DEF Listing
<1>3. scan \in Scans /\ screen \in Seq(Lines) /\ unread \in Nat
  BY OfACall
<1>4. RowsHere \in Seq(Entries)
  BY <1>3, ScanFields, RowsTyped DEF RowsHere, Modes
<1>5. PICK quick : quick = scan.mode.quick
  OBVIOUS
<1>6. PICK t : t = [scan EXCEPT !.part = "body", !.todo = Assembled(RowsHere, flagged[c], quick)]
  OBVIOUS
<1>7. Writes(c, t, screen)
  BY <1>5, <1>6 DEF StreamDirBody
<1>8. t \in Scans /\ Fine("writing", t, screen, unread', flagged[c])
  BY <1>1, <1>2, <1>3, <1>4, <1>6, BodyIsFine
<1> QED
  BY <1>1, <1>2, <1>3, <1>7, <1>8, WritesKeeps

LEMMA PostEndPauseKeeps ==
    ASSUME Consistent, NEW c \in Calls, PostEndPause(c), UNCHANGED pager
    PROVE  Consistent'
<1>1. /\ at[c] = "writing" /\ scan.part = "body" /\ scan.todo = <<>> /\ Keeps /\ UNCHANGED <<flagged, pager>>
      /\ unread' = unread
  BY DEF PostEndPause, Written, NoEffects
<1>2. Listing(c) /\ at[c] # "away" /\ "list" \in asked.commands
      /\ Fine("writing", scan, screen, unread, flagged[c])
  BY <1>1, OfACall, PhasesTyped DEF Listing
<1>3. scan \in Scans /\ screen \in Seq(Lines) /\ unread \in Nat
  BY OfACall
<1>4. CASE scan.nonStop
  <2>1. PICK lines : lines = Spaced(scan, screen)
    OBVIOUS
  <2>2. Leave(c, scan, lines)
    BY <1>4, <2>1 DEF PostEndPause
  <2>3. lines \in Seq(Lines) /\ MarkedIn(lines, flagged[c])
    BY <1>2, <1>3, <2>1, SpacedTyped DEF Fine, Marked
  <2>4. scan.dirs # <<>> /\ Counted("writing", scan, unread') /\ MarkedIn(scan.page, flagged[c])
    BY <1>1, <1>2 DEF Fine, Numbered, Marked
  <2> QED
    BY <1>1, <1>2, <1>3, <1>4, <2>2, <2>3, <2>4, LeaveKeeps
<1>5. CASE ~ scan.nonStop
  <2>1. PICK t : t = [scan EXCEPT !.part = "end"]
    OBVIOUS
  <2>2. GoesTo(c, "more") /\ scan' = t /\ screen' = screen
    BY <1>5, <2>1 DEF PostEndPause
  <2>3. t \in Scans /\ Fine("more", t, screen, unread, flagged[c])
    BY <1>1, <1>2, <1>3, <1>5, <2>1, EndIsFine
  <2>4. flagged' \in [Calls -> SUBSET Things] /\ flagged'[c] = flagged[c] /\ flagged[c] \subseteq flagged'[c]
    BY <1>1, FlagsStayTyped
  <2>5. "more" \in ListingPhases /\ "more" \notin Asking \cup {"dirs"} /\ "more" \notin Asking
    BY DEF ListingPhases, Asking
  <2>6. Fine("more", scan', screen', unread', flagged'[c]) /\ scan' \in Scans /\ screen' \in Seq(Lines)
        /\ unread' \in Nat
    BY <1>1, <1>3, <2>2, <2>3, <2>4
  <2> QED
    BY <1>1, <1>2, <2>2, <2>4, <2>5, <2>6, GoesOnListing
<1> QED
  BY <1>4, <1>5

\* What a More? leaves, by the key pressed.
LEMMA AfterIsFine ==
    ASSUME Consistent, NEW c \in Calls, at[c] \in Prompts, NEW flow, NEW left,
           \/ flow = "go" /\ left \in {screen, <<>>}
           \/ flow \in {"skip", "nonstop"} /\ left = screen
           \/ flow = "reload" /\ left = <<Raw>>
    PROVE  /\ After(flow) \in Scans /\ After(flow).dirs = scan.dirs /\ After(flow).part = scan.part
           /\ left \in Seq(Lines)
           /\ Fine("writing", After(flow), left, IF flow = "reload" THEN 1 ELSE 0, flagged[c])
           /\ After(flow).emitted = 0 \/ After(flow).page = <<>>
<1>1. /\ Fine(at[c], scan, screen, unread, flagged[c])
      /\ scan \in Scans /\ screen \in Seq(Lines) /\ unread \in Nat
  BY OfACall, PhasesTyped DEF Listing
<1>2. PICK p \in Prompts : p = at[c]
  OBVIOUS
<1>3. PICK flags : flags = flagged[c]
  OBVIOUS
<1>4. Fine(p, scan, screen, unread, flags)
  BY <1>1, <1>2, <1>3
<1>5. CASE flow \in {"go", "skip"} /\ left \in {screen, <<>>}
  <2>1. PICK t : t = PageEnded(scan)
    OBVIOUS
  <2>2. After(flow) = t
    BY <1>5, <2>1 DEF After
  <2>3. t \in Scans /\ left \in Seq(Lines) /\ Fine("writing", t, left, 0, flags)
    BY <1>1, <1>4, <1>5, <2>1, PageEndedIsFine
  <2>4. t.emitted = 0 /\ t.dirs = scan.dirs /\ t.part = scan.part
    BY <1>1, <2>1 DEF PageEnded, Scans
  <2>5. flow # "reload"
    BY <1>5
  <2> QED
    BY <1>3, <2>2, <2>3, <2>4, <2>5
<1>6. CASE flow = "nonstop" /\ left = screen
  <2>1. PICK t : t = PageEnded([scan EXCEPT !.nonStop = TRUE])
    OBVIOUS
  <2>2. After(flow) = t
    BY <1>6, <2>1 DEF After
  <2>3. t \in Scans /\ t.dirs = scan.dirs /\ t.part = scan.part /\ Fine("writing", t, screen, 0, flags)
    BY <1>1, <1>4, <2>1, NonStopIsFine
  <2>4. t.emitted = 0
    BY <1>1, <2>1 DEF PageEnded, Scans
  <2>5. flow # "reload"
    BY <1>6
  <2> QED
    BY <1>1, <1>3, <1>6, <2>2, <2>3, <2>4, <2>5
<1>7. CASE flow = "reload" /\ left = <<Raw>>
  <2>1. After(flow) = Reloaded(scan)
    BY <1>7 DEF After
  <2> QED
    BY <1>1, <1>3, <1>4, <1>7, <2>1, ReloadedIsFine
<1> QED
  BY <1>5, <1>6, <1>7

LEMMA ResumeCases ==
    ASSUME NEW c, NEW flow \in {"go", "skip", "reload", "nonstop", "quit"}, NEW lines, Resume(c, flow, lines)
    PROVE  /\ unread' = IF flow = "reload" THEN 1 ELSE 0
           /\ \/ Finish(c)
              \/ scan.part # "banner" /\ flow = "reload" /\ Writes(c, Begun(After(flow)), lines)
              \/ /\ scan.part # "banner" /\ flow \notin {"quit", "reload"}
                 /\ Leave(c, After(flow), Spaced(scan, lines))
              \/ flow # "quit" /\ Writes(c, After(flow), lines)
<1>1. unread' = IF flow = "reload" THEN 1 ELSE 0
  BY DEF Resume
<1>2. CASE flow = "quit"
  BY <1>2 DEF Resume
<1>3. CASE flow # "quit" /\ scan.part # "banner" /\ flow = "reload"
  BY <1>3 DEF Resume, InDirectory
<1>4. CASE flow \notin {"quit", "reload"} /\ scan.part # "banner" /\ (flow = "skip" \/ scan.part = "end")
  BY <1>4 DEF Resume, InDirectory
<1>5. CASE /\ flow # "quit" /\ ~ (scan.part # "banner" /\ flow = "reload")
           /\ ~ (scan.part # "banner" /\ flow # "reload" /\ (flow = "skip" \/ scan.part = "end"))
  BY <1>5 DEF Resume, InDirectory
<1> QED
  BY <1>1, <1>2, <1>3, <1>4, <1>5

LEMMA ResumeKeeps ==
    ASSUME Consistent, NEW c \in Calls, at[c] \in Prompts,
           NEW flow \in {"go", "skip", "reload", "nonstop", "quit"}, NEW left,
           \/ flow = "go" /\ left \in {screen, <<>>}
           \/ flow \in {"skip", "nonstop", "quit"} /\ left = screen
           \/ flow = "reload" /\ left = <<Raw>>,
           Resume(c, flow, left), Keeps, UNCHANGED <<flagged, pager>>
    PROVE  Consistent'
<1>1. /\ Fine(at[c], scan, screen, unread, flagged[c]) /\ Listing(c)
      /\ at[c] # "away" /\ "list" \in asked.commands
      /\ scan \in Scans /\ screen \in Seq(Lines) /\ unread \in Nat
  BY OfACall, PhasesTyped DEF Listing
<1>2. unread' = (IF flow = "reload" THEN 1 ELSE 0) /\ unread' \in Nat
  <2>1. unread' = IF flow = "reload" THEN 1 ELSE 0
    BY ResumeCases
  <2> QED
    BY <2>1
<1>3. CASE Finish(c)
  BY <1>1, <1>2, <1>3, FinishKeeps
<1> DEFINE s == After(flow)
<1>4. CASE scan.part # "banner" /\ flow = "reload" /\ Writes(c, Begun(s), left)
  <2>1. /\ s \in Scans /\ s.dirs = scan.dirs /\ left \in Seq(Lines)
        /\ Fine("writing", s, left, 1, flagged[c])
    BY <1>4, AfterIsFine
  <2>2. scan.dirs # <<>>
    BY <1>1, <1>4 DEF Fine, Numbered
  <2>3. s = Reloaded(scan)
    BY <1>4 DEF After
  <2>4. s.page = <<>>
    BY <2>3, <1>1 DEF Reloaded, Scans
  <2>5. ~ s.nonStop => Fits(s)
    BY <2>1 DEF Fine, Paged
  <2>6. PageTrue(s.page, <<>>) /\ AtFoot(s.page, left)
    <3>1. Len(<<>>) = 0 /\ Len(left) \in Nat /\ DOMAIN <<>> = {}
      BY <2>1, LenProperties
    <3>2. Len(s.page) = 0 /\ DOMAIN s.page = {}
      BY <2>4, <3>1
    <3>3. Len(s.page) <= Len(left)
      BY <3>1, <3>2
    <3> QED
      BY <3>2, <3>3 DEF PageTrue, AtFoot
  <2>7. Counted("writing", s, 1) /\ MarkedIn(s.page, flagged[c]) /\ MarkedIn(left, flagged[c])
    BY <2>1 DEF Fine, Marked
  <2>8. Begun(s) \in Scans /\ Fine("writing", Begun(s), left, 1, flagged[c])
    BY <2>1, <2>2, <2>5, <2>6, <2>7, BegunIsFine
  <2>9. Fine("writing", Begun(s), left, unread', flagged[c])
    BY <2>8, <1>2, <1>4
  <2> QED
    BY <1>1, <1>2, <1>4, <2>1, <2>8, <2>9, WritesKeeps
<1>5. CASE /\ scan.part # "banner" /\ flow \notin {"quit", "reload"}
           /\ Leave(c, s, Spaced(scan, left))
  <2>1. /\ s \in Scans /\ s.dirs = scan.dirs /\ left \in Seq(Lines)
        /\ Fine("writing", s, left, 0, flagged[c]) /\ (s.emitted = 0 \/ s.page = <<>>)
    BY <1>5, AfterIsFine
  <2>2. scan.dirs # <<>>
    BY <1>1, <1>5 DEF Fine, Numbered
  <2>3. unread' = 0
    BY <1>2, <1>5
  <2>4. Counted("writing", s, unread') /\ MarkedIn(s.page, flagged[c]) /\ MarkedIn(left, flagged[c])
    BY <2>1, <2>3 DEF Fine, Marked
  <2>5. PICK lines : lines = Spaced(scan, left)
    OBVIOUS
  <2>6. lines \in Seq(Lines) /\ MarkedIn(lines, flagged[c])
    BY <1>1, <2>1, <2>4, <2>5, SpacedTyped
  <2>7. s.emitted = 0
    BY <1>1, <1>5 DEF After, PageEnded, Scans
  <2>8. ~ s.nonStop => Fits(s)
    BY <2>1 DEF Fine, Paged
  <2>9. Leave(c, s, lines) /\ s.dirs # <<>>
    BY <1>5, <2>1, <2>2, <2>5
  <2> HIDE DEF s
  <2> QED
    BY <1>1, <1>2, <2>1, <2>4, <2>6, <2>7, <2>8, <2>9, LeaveKeeps
<1>6. CASE flow # "quit" /\ Writes(c, s, left)
  <2>1. /\ s \in Scans /\ left \in Seq(Lines)
        /\ Fine("writing", s, left, IF flow = "reload" THEN 1 ELSE 0, flagged[c])
    BY <1>6, AfterIsFine
  <2>2. Fine("writing", s, left, unread', flagged[c])
    BY <2>1, <1>2
  <2> HIDE DEF s
  <2> QED
    BY <1>1, <1>2, <1>6, <2>1, <2>2, WritesKeeps
<1> QED
  BY <1>3, <1>4, <1>5, <1>6, ResumeCases

----------------------------------------------------------------------------
(* The keys of More?.                                                       *)

LEMMA KeysKeep ==
    ASSUME Consistent, NEW c \in Calls, UNCHANGED pager,
           GoOn(c) \/ SkipDir(c) \/ ReloadDir(c) \/ Quit(c) \/ NonStopAnswered(c)
    PROVE  Consistent'
<1>1. CASE GoOn(c)
  <2>1. at[c] \in Prompts /\ Keeps /\ UNCHANGED <<flagged, pager>>
    BY <1>1 DEF GoOn, Prompting, NoEffects, Prompts
  <2>2. PICK left \in {screen, <<>>} : Resume(c, "go", left)
    BY <1>1 DEF GoOn
  <2> QED
    BY <2>1, <2>2, ResumeKeeps
<1>2. CASE SkipDir(c)
  <2>1. at[c] \in Prompts /\ Keeps /\ UNCHANGED <<flagged, pager>> /\ Resume(c, "skip", screen)
    BY <1>2 DEF SkipDir, Prompting, NoEffects, Prompts
  <2> QED
    BY <2>1, ResumeKeeps
<1>3. CASE ReloadDir(c)
  <2>1. at[c] \in Prompts /\ Keeps /\ UNCHANGED <<flagged, pager>> /\ Resume(c, "reload", <<Raw>>)
    BY <1>3 DEF ReloadDir, Prompting, Prompts
  <2> QED
    BY <2>1, ResumeKeeps
<1>4. CASE Quit(c)
  <2>1. at[c] \in Prompts /\ Keeps /\ UNCHANGED <<flagged, pager>> /\ Resume(c, "quit", screen)
    BY <1>4 DEF Quit, Prompting, NoEffects, Prompts
  <2> QED
    BY <2>1, ResumeKeeps
<1>5. CASE NonStopAnswered(c)
  <2>1. at[c] = "confirm" /\ at[c] \in Prompts /\ Keeps /\ UNCHANGED <<flagged, pager>>
    BY <1>5 DEF NonStopAnswered, Prompts
  <2>2. CASE Resume(c, "nonstop", screen)
    BY <2>1, <2>2, ResumeKeeps
  <2>3. CASE GoesTo(c, "more") /\ UNCHANGED <<scan, screen, unread>>
    <3>1. Listing(c) /\ "more" \in ListingPhases /\ "more" \notin Asking /\ "more" # "dirs"
      BY <2>1, PhasesTyped DEF Listing, ListingPhases, Asking
    <3>2. at[c] \in Prompts <=> "more" \in Prompts
      BY <2>1, WhoPrompts
    <3> QED
      BY <2>1, <2>3, <3>1, <3>2, WaitsOn
  <2> QED
    BY <1>5, <2>2, <2>3 DEF NonStopAnswered
<1> QED
  BY <1>1, <1>2, <1>3, <1>4, <1>5

LEMMA PromptsKeep ==
    ASSUME Consistent, NEW c \in Calls, UNCHANGED pager, HoldN(c) \/ AskNonStop(c) \/ AskFlags(c)
    PROVE  Consistent'
<1>1. /\ at[c] \in Prompts /\ Keeps /\ UNCHANGED <<flagged, pager, scan, screen, unread>>
      /\ \E q \in {"held", "confirm", "names", "numbers"} : GoesTo(c, q)
  BY DEF HoldN, AskNonStop, AskFlags, Prompting, Prompts, listVars
<1>2. PICK q \in {"held", "confirm", "names", "numbers"} : GoesTo(c, q)
  BY <1>1
<1>3. Listing(c)
  BY <1>1, PhasesTyped DEF Listing
<1>4. q \in ListingPhases /\ q \in Prompts /\ q \notin Asking /\ q # "dirs"
  BY DEF ListingPhases, Prompts, Asking
<1> QED
  BY <1>1, <1>2, <1>3, <1>4, WaitsOn

LEMMA PauseHelpKeeps ==
    ASSUME Consistent, NEW c \in Calls, UNCHANGED pager, PauseHelp(c)
    PROVE  Consistent'
<1>1. /\ at[c] \in Prompts /\ Keeps /\ UNCHANGED <<flagged, pager, scan, unread>>
      /\ GoesTo(c, "more") /\ screen' = <<Raw>> \o scan.page
  BY DEF PauseHelp, Prompting, Prompts
<1>2. /\ Fine(at[c], scan, screen, unread, flagged[c]) /\ at[c] # "away" /\ "list" \in asked.commands
      /\ scan \in Scans /\ unread \in Nat
  BY <1>1, OfACall, PhasesTyped DEF Listing
<1>3. "more" \in ListingPhases /\ "more" \notin Asking /\ "more" \notin Asking \cup {"dirs"}
  BY DEF ListingPhases, Asking
<1>4. Fine("more", scan, screen, unread, flagged[c])
  BY <1>1, <1>2, WhoPrompts, PhasesAlike
<1>5. PICK more : more = <<Raw>> \o scan.page
  OBVIOUS
<1>6. more \in Seq(Lines) /\ Fine("more", scan, more, unread, flagged[c])
  BY <1>2, <1>4, <1>5, WhoPrompts, HelpIsFine
<1>7. flagged' \in [Calls -> SUBSET Things] /\ flagged'[c] = flagged[c] /\ flagged[c] \subseteq flagged'[c]
  BY <1>1, FlagsStayTyped
<1>8. scan' = scan /\ screen' = more /\ unread' = unread
  BY <1>1, <1>5
<1>9. scan' \in Scans /\ screen' \in Seq(Lines) /\ unread' \in Nat
      /\ Fine("more", scan', screen', unread', flagged'[c])
  BY <1>2, <1>6, <1>7, <1>8
<1> QED
  BY <1>1, <1>2, <1>3, <1>7, <1>9, GoesOnListing

LEMMA PlannedTyped ==
    ASSUME Consistent, NEW c \in Calls, NEW names \in Planned(c)
    PROVE  names \subseteq Things
<1>1. asked.names \subseteq Files
  BY FlagBounds DEF Consistent, TypeOK
<1>2. CASE at[c] = "names"
  BY <1>1, <1>2 DEF Planned, Things
<1>3. CASE at[c] # "names"
  <2>1. PICK typed \in SUBSET Numbers :
          names = {scan.displayed[n] : n \in typed \cap DOMAIN scan.displayed} \ flagged[c]
    BY <1>3 DEF Planned
  <2>2. scan.displayed \in Seq(Things)
    BY OfACall, ScanFields
  <2>3. \A n \in DOMAIN scan.displayed : scan.displayed[n] \in Things
    BY <2>2, ElementOfSeq, LenProperties
  <2> QED
    BY <2>1, <2>3
<1> QED
  BY <1>2, <1>3

LEMMA FlagsEnteredKeeps ==
    ASSUME Consistent, NEW c \in Calls, UNCHANGED pager, FlagsEntered(c)
    PROVE  Consistent'
<1>1. /\ at[c] \in Prompts /\ Keeps /\ UNCHANGED <<pager, scan, unread>> /\ GoesTo(c, "more")
  BY DEF FlagsEntered, Prompts
<1>2. PICK names \in Planned(c) : Flag(c, names) /\ screen' = Repainted(names)
  BY DEF FlagsEntered
<1>3. /\ Fine(at[c], scan, screen, unread, flagged[c]) /\ at[c] # "away" /\ "list" \in asked.commands
      /\ scan \in Scans /\ screen \in Seq(Lines) /\ unread \in Nat
      /\ flagged \in [Calls -> SUBSET Things]
  BY <1>1, OfACall, PhasesTyped DEF Listing
<1>4. Fine("more", scan, screen, unread, flagged[c])
  BY <1>1, <1>3, WhoPrompts, PhasesAlike
<1>5. /\ flagged' \in [Calls -> SUBSET Things] /\ flagged'[c] = flagged[c] \cup names
      /\ flagged[c] \subseteq flagged'[c]
  BY <1>2, <1>3, PlannedTyped DEF Flag
<1>6. Repainted(names) \in Seq(Lines) /\ Fine("more", scan, Repainted(names), unread, flagged[c] \cup names)
  BY <1>3, <1>4, WhoPrompts, RepaintedIsFine
<1>7. scan' = scan /\ unread' = unread
  BY <1>1
<1>8. scan' \in Scans /\ screen' \in Seq(Lines) /\ unread' \in Nat
      /\ Fine("more", scan', screen', unread', flagged'[c])
  BY <1>2, <1>3, <1>5, <1>6, <1>7
<1>9. "more" \in ListingPhases /\ "more" \notin Asking /\ "more" \notin Asking \cup {"dirs"}
  BY DEF ListingPhases, Asking
<1> QED
  BY <1>1, <1>3, <1>5, <1>8, <1>9, GoesOnListing

----------------------------------------------------------------------------
(* The commands, and the questions before a listing.                        *)

LEMMA SearchesKeep ==
    ASSUME Consistent, NEW c \in Calls, at[c] # "away", "list" \in asked.commands, screen = <<>>,
           unread' = 0, NEW span \in Spans, Searches(c, span), Keeps, UNCHANGED <<flagged, pager>>
    PROVE  Consistent'
<1>1. flagged' \in [Calls -> SUBSET Things] /\ flagged'[c] = flagged[c] /\ flagged[c] \subseteq flagged'[c]
  BY FlagsStayTyped
<1>2. CASE span = NoSpan \/ OutOfRange(span)
  <2>1. GoesTo(c, "menu") /\ scan' = NoScan /\ screen' = <<>>
    BY <1>2 DEF Searches
  <2> QED
    BY <1>1, <2>1, NoScanTyped, EndsListing
<1>3. CASE ~ (span = NoSpan \/ OutOfRange(span))
  <2>1. PICK dirs : dirs = IF span.kind = "all" THEN [d \in 1 .. Highest |-> d] ELSE DirsOf(span, Full(FALSE))
    OBVIOUS
  <2>2. dirs \in Seq(Nat)
    BY <1>3, <2>1, AllDirsTyped, DirsTyped, KindsTyped
  <2>3. GoesTo(c, "search") /\ scan' = [NoScan EXCEPT !.dirs = dirs] /\ screen' = <<>>
    BY <1>3, <2>1 DEF Searches
  <2>4. "search" \in ListingPhases /\ "search" \notin Prompts
    BY DEF ListingPhases, Prompts
  <2>5. NoScan \in Scans /\ NoScan.part = "banner" /\ Fine("search", NoScan, <<>>, 0, flagged[c])
    BY <2>4, NothingIsFine
  <2>6. PICK t : t = [NoScan EXCEPT !.dirs = dirs]
    OBVIOUS
  <2>7. t \in Scans /\ t.part = "banner" /\ Fine("search", t, <<>>, 0, flagged[c])
    BY <2>2, <2>5, <2>6, SearchIsFine
  <2>8. scan' = t
    BY <2>3, <2>6
  <2>9. scan' \in Scans /\ scan'.part = "banner" /\ screen' \in Seq(Lines) /\ unread' \in Nat
        /\ Fine("search", scan', screen', unread', flagged'[c])
    BY <1>1, <2>3, <2>7, <2>8, NoLines
  <2> QED
    BY <1>1, <2>3, <2>4, <2>9, GoesOnListing
<1> QED
  BY <1>2, <1>3

LEMMA OpenListingKeeps ==
    ASSUME Consistent, NEW c \in Calls, UNCHANGED pager, OpenListing(c)
    PROVE  Consistent'
<1>1. /\ at[c] = "menu" /\ "list" \in asked.commands /\ unread' = 0 /\ Keeps
      /\ UNCHANGED <<flagged, pager>>
  BY DEF OpenListing
<1>2. at[c] # "away" /\ screen = <<>>
  <2>1. at[c] # "away" /\ ~ Listing(c)
    BY <1>1, PhasesTyped DEF Listing
  <2> QED
    BY <2>1, OfACall DEF Quiet
<1>3. PICK words \in Commands, ansi \in BOOLEAN :
        LET arg == Parsed(words)
        IN CASE arg.form \in {"scan", "dirs"} -> Writes(c, Opened(arg, ansi, 3), <<>>)
             [] arg.form \in {"date", "query", "zippy dirs"} ->
                  GoesTo(c, arg.form) /\ scan' = Opened(arg, ansi, 0) /\ UNCHANGED screen
             [] arg.form = "search" -> Searches(c, arg.span)
             [] OTHER -> UNCHANGED <<at, scan, screen>>
  BY DEF OpenListing
<1>4. PICK arg : arg = Parsed(words)
  OBVIOUS
<1>5. arg \in Modes
  BY <1>4, CommandsAreModes
<1>6. flagged' \in [Calls -> SUBSET Things] /\ flagged'[c] = flagged[c] /\ flagged[c] \subseteq flagged'[c]
  BY <1>1, FlagsStayTyped
<1>7. CASE arg.form \in {"scan", "dirs"}
  <2>1. PICK t : t = Opened(arg, ansi, 3)
    OBVIOUS
  <2>2. Writes(c, t, <<>>)
    BY <1>3, <1>4, <1>7, <2>1
  <2>3. 3 \in Nat /\ "writing" \notin Prompts
    BY WhoPrompts
  <2>4. t \in Scans /\ Fine("writing", t, <<>>, 0, flagged[c])
    BY <1>5, <2>1, <2>3, OpenedIsFine
  <2>5. <<>> \in Seq(Lines) /\ unread' \in Nat /\ Fine("writing", t, <<>>, unread', flagged[c])
    BY <1>1, <2>4, NoLines
  <2> QED
    BY <1>1, <1>2, <2>2, <2>4, <2>5, WritesKeeps
<1>8. CASE arg.form \in {"date", "query", "zippy dirs"}
  <2>1. PICK q : q = arg.form
    OBVIOUS
  <2>2. PICK t : t = Opened(arg, ansi, 0)
    OBVIOUS
  <2>3. GoesTo(c, q) /\ scan' = t /\ screen' = screen
    BY <1>3, <1>4, <1>8, <2>1, <2>2
  <2>4. q \in ListingPhases /\ q \notin Prompts
    BY <1>8, <2>1 DEF ListingPhases, Prompts
  <2>5. 0 \in Nat
    OBVIOUS
  <2>6. t \in Scans /\ t.part = "banner" /\ Fine(q, t, <<>>, 0, flagged[c])
    BY <1>5, <2>2, <2>4, <2>5, OpenedIsFine
  <2>7. scan' \in Scans /\ scan'.part = "banner" /\ screen' = <<>> /\ screen' \in Seq(Lines) /\ unread' \in Nat
        /\ Fine(q, scan', screen', unread', flagged'[c])
    BY <1>1, <1>2, <1>6, <2>3, <2>6, NoLines
  <2> QED
    BY <1>1, <1>2, <1>6, <2>3, <2>4, <2>7, GoesOnListing
<1>9. CASE arg.form = "search"
  <2>1. Searches(c, arg.span)
    BY <1>3, <1>4, <1>9
  <2>2. arg.span \in Spans
    BY <1>5 DEF Modes
  <2> QED
    BY <1>1, <1>2, <2>1, <2>2, SearchesKeep
<1>10. CASE arg.form \notin {"scan", "dirs", "date", "query", "zippy dirs", "search"}
  <2>1. at' = at /\ scan' = scan /\ screen' = screen
    BY <1>3, <1>4, <1>10
  <2>2. GoesTo(c, "menu")
    BY <1>1, <2>1 DEF GoesTo, Consistent, TypeOK
  <2>3. scan' \in Scans /\ screen' = <<>> /\ unread' \in Nat
    BY <1>1, <1>2, <2>1, OfACall
  <2> QED
    BY <1>1, <1>2, <1>6, <2>2, <2>3, EndsListing
<1> QED
  BY <1>7, <1>8, <1>9, <1>10

LEMMA QuestionsKeep ==
    ASSUME Consistent, NEW c \in Calls, UNCHANGED pager,
           QueryAnswered(c) \/ ZippyDirsAnswered(c) \/ DateAnswered(c)
    PROVE  Consistent'
<1>1. at[c] \in {"query", "zippy dirs", "date"} /\ Keeps /\ UNCHANGED <<flagged, unread, pager>>
  BY DEF QueryAnswered, ZippyDirsAnswered, DateAnswered
<1>2. at[c] \in Asking /\ Listing(c) /\ at[c] \notin Prompts
  BY <1>1 DEF Asking, Listing, ListingPhases, Prompts
<1>3. /\ at[c] # "away" /\ "list" \in asked.commands /\ Fine(at[c], scan, screen, unread, flagged[c])
      /\ scan \in Scans /\ c \in asked.calls
  BY <1>2, OfACall
<1>4. screen = <<>> /\ unread = 0 /\ scan.part = "banner"
  BY <1>2, <1>3, OfACall DEF Quiet
<1>5. flagged' \in [Calls -> SUBSET Things] /\ flagged'[c] = flagged[c] /\ flagged[c] \subseteq flagged'[c]
  BY <1>1, FlagsStayTyped
<1>6. ASSUME GoesTo(c, "menu"), scan' = NoScan, screen' = screen
      PROVE  Consistent'
  <2>1. scan' \in Scans /\ screen' = <<>> /\ unread' \in Nat
    BY <1>1, <1>4, <1>6, NoScanTyped
  <2> QED
    BY <1>1, <1>3, <1>5, <1>6, <2>1, EndsListing
<1>7. CASE QueryAnswered(c) /\ GoesTo(c, "zippy dirs") /\ UNCHANGED <<scan, screen>>
  <2>1. "zippy dirs" \in ListingPhases /\ "zippy dirs" \notin Prompts
    BY DEF ListingPhases, Prompts
  <2>2. Fine("zippy dirs", scan, screen, unread, flagged[c])
    BY <1>2, <1>3, <2>1, PhasesAlike
  <2>3. scan' = scan /\ screen' = screen /\ unread' = unread
    BY <1>1, <1>7
  <2>4. scan' \in Scans /\ scan'.part = "banner" /\ screen' = <<>> /\ screen' \in Seq(Lines) /\ unread' = 0
        /\ unread' \in Nat /\ Fine("zippy dirs", scan', screen', unread', flagged'[c])
    BY <1>3, <1>4, <1>5, <2>2, <2>3, NoLines
  <2> QED
    BY <1>1, <1>3, <1>5, <1>7, <2>1, <2>4, GoesOnListing
<1>8. CASE ZippyDirsAnswered(c)
  <2>1. PICK word \in Answer : Searches(c, SpanOf(word))
    BY <1>8 DEF ZippyDirsAnswered
  <2>2. SpanOf(word) \in Spans /\ unread' = 0
    BY <1>1, <1>4, SpanTyped
  <2> QED
    BY <1>1, <1>3, <1>4, <2>1, <2>2, SearchesKeep
<1>9. CASE DateAnswered(c)
  <2>1. PICK word \in Answer :
          LET kind == DateAnswer(word)
          IN IF kind = NoKind THEN GoesTo(c, "menu") /\ scan' = NoScan
                              ELSE GoesTo(c, "dirs") /\ scan' = [scan EXCEPT !.mode.kind = kind]
    BY <1>9 DEF DateAnswered
  <2>2. PICK kind : kind = DateAnswer(word)
    OBVIOUS
  <2>3. kind \in Kinds
    BY <2>2, AnswersAreKinds
  <2>4. screen' = screen
    BY <1>9 DEF DateAnswered
  <2>5. CASE kind = NoKind
    BY <1>6, <2>1, <2>2, <2>4, <2>5
  <2>6. CASE kind # NoKind
    <3>1. PICK t : t = [scan EXCEPT !.mode.kind = kind]
      OBVIOUS
    <3>2. GoesTo(c, "dirs") /\ scan' = t
      BY <2>1, <2>2, <2>6, <3>1
    <3>3. "dirs" \in ListingPhases /\ "dirs" \notin Prompts /\ "dirs" \notin Asking
      BY DEF ListingPhases, Prompts, Asking
    <3>4. Fine("dirs", scan, screen, unread, flagged[c])
      BY <1>2, <1>3, <3>3, PhasesAlike
    <3>5. t \in Scans /\ t.part = "banner" /\ Fine("dirs", t, screen, unread, flagged[c])
      BY <1>3, <1>4, <2>3, <3>1, <3>4, DateIsFine
    <3>6. scan' \in Scans /\ scan'.part = "banner" /\ screen' \in Seq(Lines) /\ unread' \in Nat
          /\ Fine("dirs", scan', screen', unread', flagged'[c])
      BY <1>1, <1>4, <1>5, <2>4, <3>2, <3>5, NoLines
    <3> QED
      BY <1>1, <1>3, <1>5, <3>2, <3>3, <3>6, GoesOnListing
  <2> QED
    BY <2>5, <2>6
<1> QED
  BY <1>6, <1>7, <1>8, <1>9 DEF QueryAnswered

LEMMA DirsAnsweredKeeps ==
    ASSUME Consistent, NEW c \in Calls, UNCHANGED pager, DirsAnswered(c)
    PROVE  Consistent'
<1>1. at[c] = "dirs" /\ Keeps /\ UNCHANGED <<flagged, unread, pager>>
  BY DEF DirsAnswered
<1>2. /\ Listing(c) /\ at[c] # "away" /\ "list" \in asked.commands
      /\ Fine("dirs", scan, screen, unread, flagged[c])
      /\ scan \in Scans /\ screen \in Seq(Lines) /\ unread \in Nat /\ scan.part = "banner"
  <2>1. Listing(c)
    BY <1>1, PhasesTyped DEF Listing
  <2>2. Quiet(c)
    BY OfACall
  <2> QED
    BY <1>1, <2>1, <2>2, OfACall DEF Quiet
<1>3. PICK word \in Answer :
        LET span == SpanOf(word)
            asksDate == scan.mode.form = "date"
        IN IF span = NoSpan THEN Finish(c)
           ELSE Writes(c, [scan EXCEPT !.mode.span = span,
                                       !.todo = IF asksDate THEN <<Raw>> ELSE <<>>],
                       Recent(screen \o <<Raw, Raw>>))
  BY DEF DirsAnswered
<1>4. PICK span : span = SpanOf(word)
  OBVIOUS
<1>5. span \in Spans
  BY <1>4, SpanTyped
<1>6. PICK todo : todo = IF scan.mode.form = "date" THEN <<Raw>> ELSE <<>>
  OBVIOUS
<1>7. todo \in {<<Raw>>, <<>>}
  BY <1>6
<1>8. CASE span = NoSpan
  <2>1. Finish(c) /\ unread' \in Nat
    BY <1>1, <1>2, <1>3, <1>4, <1>8
  <2> QED
    BY <1>1, <1>2, <2>1, FinishKeeps
<1>9. CASE span # NoSpan
  <2>1. PICK t : t = [scan EXCEPT !.mode.span = span, !.todo = todo]
    OBVIOUS
  <2>2. PICK more : more = Recent(screen \o <<Raw, Raw>>)
    OBVIOUS
  <2>3. Writes(c, t, more)
    BY <1>3, <1>4, <1>6, <1>9, <2>1, <2>2
  <2>4. t \in Scans /\ more \in Seq(Lines) /\ Fine("writing", t, more, unread, flagged[c])
    BY <1>2, <1>5, <1>7, <2>1, <2>2, SpanIsFine
  <2>5. unread' \in Nat /\ Fine("writing", t, more, unread', flagged[c])
    BY <1>1, <1>2, <2>4
  <2> QED
    BY <1>1, <1>2, <2>3, <2>4, <2>5, WritesKeeps
<1> QED
  BY <1>8, <1>9

LEMMA SearchDirectoryKeeps ==
    ASSUME Consistent, NEW c \in Calls, UNCHANGED pager, SearchDirectory(c)
    PROVE  Consistent'
<1>1. at[c] = "search" /\ Keeps /\ UNCHANGED <<flagged, screen, unread, pager>>
  BY DEF SearchDirectory
<1>2. at[c] \in Asking /\ Listing(c) /\ at[c] \notin Prompts
  BY <1>1 DEF Asking, Listing, ListingPhases, Prompts
<1>3. /\ at[c] # "away" /\ "list" \in asked.commands /\ Fine("search", scan, screen, unread, flagged[c])
      /\ scan \in Scans /\ c \in asked.calls /\ at \in [Calls -> Phases]
  BY <1>1, <1>2, OfACall DEF Consistent, TypeOK
<1>4. screen = <<>> /\ unread = 0 /\ scan.part = "banner"
  BY <1>2, <1>3, OfACall DEF Quiet
<1>5. flagged' \in [Calls -> SUBSET Things] /\ flagged'[c] = flagged[c] /\ flagged[c] \subseteq flagged'[c]
  BY <1>1, FlagsStayTyped
<1>6. screen' = <<>> /\ screen' \in Seq(Lines) /\ unread' = 0 /\ unread' \in Nat
  BY <1>1, <1>4, NoLines
<1>7. CASE Len(scan.dirs) <= 1
  <2>1. GoesTo(c, "menu") /\ scan' \in Scans
    BY <1>7, NoScanTyped DEF SearchDirectory
  <2> QED
    BY <1>1, <1>3, <1>5, <1>6, <2>1, EndsListing
<1>8. CASE ~ (Len(scan.dirs) <= 1)
  <2>1. PICK dirs : dirs = Tail(scan.dirs)
    OBVIOUS
  <2>2. dirs \in Seq(Nat)
    <3>1. scan.dirs \in Seq(Nat) /\ Len(scan.dirs) \in Nat
      BY <1>3, ScanFields, LenProperties
    <3>2. Len(scan.dirs) # 0
      BY <1>8, <3>1
    <3>3. scan.dirs # <<>>
      BY <3>1, <3>2, EmptySeq
    <3> QED
      BY <2>1, <3>1, <3>3, HeadTailProperties
  <2>3. PICK t : t = [scan EXCEPT !.dirs = dirs]
    OBVIOUS
  <2>4. scan' = t /\ at' = at
    BY <1>8, <2>1, <2>3 DEF SearchDirectory
  <2>5. t \in Scans /\ t.part = "banner" /\ Fine("search", t, screen, unread, flagged[c])
    BY <1>3, <1>4, <2>2, <2>3, SearchIsFine
  <2>6. GoesTo(c, "search") /\ "search" \in ListingPhases
    BY <1>1, <1>3, <2>4 DEF GoesTo, ListingPhases
  <2>7. scan' \in Scans /\ scan'.part = "banner" /\ Fine("search", scan', screen', unread', flagged'[c])
    BY <1>1, <1>5, <2>4, <2>5
  <2> QED
    BY <1>1, <1>3, <1>5, <1>6, <2>6, <2>7, GoesOnListing
<1> QED
  BY <1>7, <1>8

LEMMA ListNextKeeps ==
    ASSUME Consistent, ListNext, UNCHANGED <<pager, rows>>
    PROVE  Consistent' \/ \E c \in Calls : Dropped(c) \/ IdleTimedOut(c)
<1>1. PICK c \in Calls : OpenListing(c) \/ Streams(c) \/ Typed(c) \/ Dropped(c) \/ IdleTimedOut(c)
  BY DEF ListNext
<1>2. UNCHANGED pager
  OBVIOUS
<1>3. CASE OpenListing(c)
  BY <1>2, <1>3, OpenListingKeeps
<1>4. CASE Streams(c)
  BY <1>2, <1>4, EmitLineKeeps, BannerWrittenKeeps, HeaderWrittenKeeps, StreamDirBodyKeeps,
     PostEndPauseKeeps, SearchDirectoryKeeps DEF Streams
<1>5. CASE Typed(c)
  BY <1>2, <1>5, QuestionsKeep, DirsAnsweredKeeps, KeysKeep, PromptsKeep, PauseHelpKeeps,
     FlagsEnteredKeeps DEF Typed
<1> QED
  BY <1>1, <1>3, <1>4, <1>5

----------------------------------------------------------------------------
(* Flags, logoffs and lost calls.                                           *)

\* A call that lists nothing changes its flags, or comes or goes.
LEMMA FlagsMove ==
    ASSUME Consistent, NEW c \in Calls, c \in asked.calls, ~ Listing(c), at[c] \notin MailPhases,
           NEW q \in MenuPhases \cup {"away"}, GoesTo(c, q), NEW flags \in SUBSET Things,
           flagged' = [flagged EXCEPT ![c] = flags], NEW b \in [stored : SUBSET Things, kept : BOOLEAN],
           basis' = [basis EXCEPT ![c] = b], saved' \in SUBSET Things, asked' = asked,
           UNCHANGED <<scan, screen, unread, pager>>,
           q # "away" /\ b.kept => b.stored \subseteq flags
    PROVE  Consistent'
<1>1. /\ at' = [at EXCEPT ![c] = q] /\ at \in [Calls -> Phases]
      /\ basis \in [Calls -> [stored : SUBSET Things, kept : BOOLEAN]]
      /\ flagged \in [Calls -> SUBSET Things]
  BY DEF GoesTo, Consistent, TypeOK
<1>2. q \in Phases /\ q \notin ListingPhases /\ q \notin MailPhases
  BY PhasesTyped
<1>3. at'[c] = q /\ flagged'[c] = flags /\ basis'[c] = b
  BY <1>1
<1>4. TypeOK'
  <2>1. at' \in [Calls -> Phases]
    BY <1>1, <1>2
  <2>2. flagged' \in [Calls -> SUBSET Things]
    BY <1>1
  <2>3. basis' \in [Calls -> [stored : SUBSET Things, kept : BOOLEAN]]
    BY <1>1
  <2> QED
    BY <2>1, <2>2, <2>3 DEF Consistent, TypeOK
<1>5. CallOK(c)'
  <2>1. screen = <<>>
    BY OfACall DEF Quiet
  <2>2. q \notin Asking /\ q \notin Asking \cup {"dirs"}
    BY <1>2, PhasesTyped
  <2>3. Calling(c)'
    BY <1>2, <1>3 DEF Calling, Listing
  <2>4. Building(c)'
    BY <1>3 DEF Building
  <2>5. Quiet(c)'
    BY <1>3, <2>1, <2>2 DEF Quiet, Listing
  <2> QED
    BY <1>2, <1>3, <2>3, <2>4, <2>5 DEF CallOK, Listing
<1>6. ASSUME NEW d \in Calls, d # c
      PROVE  CallOK(d)'
  <2>1. at'[d] = at[d] /\ flagged'[d] = flagged[d] /\ basis'[d] = basis[d]
    BY <1>1, <1>6
  <2>2. CallOK(d)
    BY DEF Consistent
  <2>3. scan' = scan /\ screen' = screen /\ unread' = unread /\ pager' = pager /\ asked' = asked
    OBVIOUS
  <2>4. Calling(d)' /\ Building(d)' /\ Quiet(d)'
    BY <2>1, <2>2, <2>3 DEF CallOK, Calling, Building, Quiet, Listing
  <2> QED
    BY <2>1, <2>2, <2>3, <2>4 DEF CallOK, Listing
<1> QED
  BY <1>4, <1>5, <1>6 DEF Consistent

LEMMA StateTyped ==
    ASSUME Consistent, NEW c \in Calls
    PROVE  /\ saved \in SUBSET Things /\ flagged \in [Calls -> SUBSET Things] /\ flagged[c] \in SUBSET Things
           /\ basis \in [Calls -> [stored : SUBSET Things, kept : BOOLEAN]]
           /\ basis[c] \in [stored : SUBSET Things, kept : BOOLEAN]
           /\ asked.names \subseteq Things
<1>1. asked.names \subseteq Files
  BY FlagBounds DEF Consistent, TypeOK
<1> QED
  BY <1>1 DEF Consistent, TypeOK, Things

\* A call goes on among the menu, its flags as they are or cleared or with one more.
LEMMA MenuMoves ==
    ASSUME Consistent, NEW c \in Calls, at[c] \in MenuPhases, NEW q \in MenuPhases, GoesTo(c, q),
           NEW more \in SUBSET Things,
           \/ flagged' = [flagged EXCEPT ![c] = @ \cup more] /\ basis' = basis
           \/ Cleared(c),
           UNCHANGED <<saved, logons, asked, listVars, pager, rows>>
    PROVE  Consistent'
<1>1. c \in asked.calls /\ at[c] # "away" /\ ~ Listing(c) /\ at[c] \notin MailPhases /\ Building(c)
  BY OfACall, PhasesTyped DEF Listing
<1>2. UNCHANGED <<scan, screen, unread, pager>> /\ saved' \in SUBSET Things /\ asked' = asked
  BY StateTyped DEF listVars
<1>3. CASE flagged' = [flagged EXCEPT ![c] = @ \cup more] /\ basis' = basis
  <2>1. PICK flags : flags = flagged[c] \cup more
    OBVIOUS
  <2>2. flags \in SUBSET Things /\ flagged' = [flagged EXCEPT ![c] = flags]
    BY <1>3, <2>1, StateTyped
  <2>3. PICK b : b = basis[c]
    OBVIOUS
  <2>4. b \in [stored : SUBSET Things, kept : BOOLEAN] /\ basis' = [basis EXCEPT ![c] = b]
    BY <1>3, <2>3, StateTyped
  <2>5. b.kept => b.stored \subseteq flags
    BY <1>1, <2>1, <2>3 DEF Building
  <2> QED
    BY <1>1, <1>2, <2>2, <2>4, <2>5, FlagsMove
<1>4. CASE Cleared(c)
  <2>1. PICK b : b = [basis[c] EXCEPT !.kept = FALSE]
    OBVIOUS
  <2>2. b \in [stored : SUBSET Things, kept : BOOLEAN] /\ ~ b.kept
    BY <2>1, StateTyped
  <2>3. flagged' = [flagged EXCEPT ![c] = {}] /\ basis' = [basis EXCEPT ![c] = b] /\ {} \in SUBSET Things
    BY <1>4, <2>1 DEF Cleared
  <2> QED
    BY <1>1, <1>2, <2>2, <2>3, FlagsMove
<1> QED
  BY <1>3, <1>4

\* A call that lists nothing ends.
LEMMA EndKeeps ==
    ASSUME Consistent, NEW c \in Calls, at[c] \in MenuPhases, Ends(c), saved' \in SUBSET Things,
           UNCHANGED <<basis, logons, asked, scan, screen, unread, pager>>
    PROVE  Consistent'
<1>1. c \in asked.calls /\ ~ Listing(c) /\ at[c] \notin MailPhases
  BY OfACall, PhasesTyped DEF Listing
<1>2. GoesTo(c, "away") /\ flagged' = [flagged EXCEPT ![c] = {}] /\ {} \in SUBSET Things
  BY DEF Ends
<1>3. PICK b : b = basis[c]
  OBVIOUS
<1>4. b \in [stored : SUBSET Things, kept : BOOLEAN] /\ basis' = [basis EXCEPT ![c] = b]
  BY <1>3, StateTyped
<1> QED
  BY <1>1, <1>2, <1>4, FlagsMove

LEMMA FlagNextKeeps ==
    ASSUME Consistent, FlagNext, UNCHANGED <<listVars, pager, rows>>
    PROVE  Consistent'
<1>1. PICK c \in Calls : LogOn(c) \/ AlterFlags(c) \/ AlterAnswered(c) \/ ClearAnswered(c)
                         \/ LogOff(c) \/ LeaveAnswered(c)
  BY DEF FlagNext
<1>2. UNCHANGED <<scan, screen, unread, pager>>
  BY DEF listVars
<1>3. CASE LogOn(c)
  <2>1. PICK readable \in BOOLEAN :
          /\ Restored(c, readable)
          /\ basis' = [basis EXCEPT ![c] = [stored |-> saved, kept |-> readable]]
    BY <1>3 DEF LogOn
  <2>2. c \in asked.calls /\ ~ Listing(c) /\ at[c] \notin MailPhases
    BY <1>3, PhasesTyped DEF LogOn, Listing
  <2>3. PICK flags : flags = IF readable THEN saved ELSE flagged[c]
    OBVIOUS
  <2>4. flags \in SUBSET Things /\ flagged' = [flagged EXCEPT ![c] = flags]
    BY <2>1, <2>3, StateTyped DEF Restored
  <2>5. PICK b : b = [stored |-> saved, kept |-> readable]
    OBVIOUS
  <2>6. b \in [stored : SUBSET Things, kept : BOOLEAN] /\ basis' = [basis EXCEPT ![c] = b]
        /\ (b.kept => b.stored \subseteq flags)
    BY <2>1, <2>3, <2>5, StateTyped
  <2>7. GoesTo(c, "menu") /\ saved' \in SUBSET Things /\ asked' = asked /\ "menu" \in MenuPhases
    BY <1>3, StateTyped, PhasesTyped DEF LogOn
  <2> QED
    BY <1>2, <2>2, <2>4, <2>6, <2>7, FlagsMove
<1>4. ASSUME at[c] \in MenuPhases, NEW q \in MenuPhases, GoesTo(c, q),
             UNCHANGED <<flagged, saved, basis, logons, asked>>
      PROVE  Consistent'
  <2>1. flagged' = [flagged EXCEPT ![c] = @ \cup {}] /\ {} \in SUBSET Things
    BY <1>4, StateTyped
  <2> QED
    BY <1>4, <2>1, MenuMoves
<1>5. CASE AlterFlags(c)
  BY <1>4, <1>5 DEF AlterFlags, MenuPhases
<1>6. CASE AlterAnswered(c)
  <2>1. at[c] = "alter" /\ at[c] \in MenuPhases /\ UNCHANGED <<saved, logons, asked>>
        /\ "alter" \in MenuPhases /\ "menu" \in MenuPhases /\ "clear" \in MenuPhases
    BY <1>6 DEF AlterAnswered, MenuPhases
  <2>2. ASSUME NEW names \in {{}} \cup {{f} : f \in asked.names}, Flag(c, names), GoesTo(c, "menu"),
               UNCHANGED basis
        PROVE  Consistent'
    <3>1. names \in SUBSET Things
      BY <2>2, StateTyped
    <3> QED
      BY <2>1, <2>2, <3>1, MenuMoves DEF Flag
  <2>3. CASE Cleared(c) /\ UNCHANGED at
    <3>1. GoesTo(c, "alter") /\ {} \in SUBSET Things
      BY <2>1, <2>3 DEF GoesTo, Consistent, TypeOK
    <3> QED
      BY <2>1, <2>3, <3>1, MenuMoves
  <2>4. CASE GoesTo(c, "clear") /\ UNCHANGED <<flagged, basis>>
    BY <1>4, <2>1, <2>4
  <2> QED
    BY <1>6, <2>2, <2>3, <2>4 DEF AlterAnswered
<1>7. CASE ClearAnswered(c)
  <2>1. at[c] \in MenuPhases /\ UNCHANGED <<saved, logons, asked>>
        /\ "alter" \in MenuPhases /\ "menu" \in MenuPhases
    BY <1>7 DEF ClearAnswered, MenuPhases
  <2>2. CASE GoesTo(c, "menu") /\ UNCHANGED <<flagged, basis>>
    BY <1>4, <2>1, <2>2
  <2>3. CASE GoesTo(c, "alter") /\ UNCHANGED <<flagged, basis>>
    BY <1>4, <2>1, <2>3
  <2>4. CASE GoesTo(c, "alter") /\ Cleared(c)
    <3>1. {} \in SUBSET Things
      OBVIOUS
    <3> QED
      BY <2>1, <2>4, <3>1, MenuMoves
  <2> QED
    BY <1>7, <2>2, <2>3, <2>4 DEF ClearAnswered
<1>8. ASSUME at[c] \in MenuPhases, SavesAndLeaves(c)
      PROVE  Consistent'
  <2>1. saved' \in SUBSET Things
    BY <1>8, StateTyped DEF SavesAndLeaves, Stored
  <2> QED
    BY <1>2, <1>8, <2>1, EndKeeps DEF SavesAndLeaves
<1>9. CASE LogOff(c)
  BY <1>4, <1>8, <1>9 DEF LogOff, MenuPhases
<1>10. CASE LeaveAnswered(c)
  BY <1>4, <1>8, <1>10 DEF LeaveAnswered, MenuPhases
<1> QED
  BY <1>1, <1>3, <1>5, <1>6, <1>7, <1>9, <1>10

LEMMA LostKeeps ==
    ASSUME Consistent, NEW c \in Calls, Dropped(c) \/ IdleTimedOut(c), UNCHANGED <<pager, rows>>
    PROVE  Consistent'
<1>1. at[c] \in MenuPhases \cup ListingPhases /\ CallLost(c)
  BY DEF Dropped, IdleTimedOut, Awaiting
<1>2. Ends(c) /\ UNCHANGED <<saved, basis, logons, asked, pager>>
  BY <1>1 DEF CallLost, Lost
<1>3. saved' \in SUBSET Things
  BY <1>2, StateTyped
<1>4. CASE Listing(c)
  <2>1. at[c] # "away" /\ "list" \in asked.commands
    BY <1>4, OfACall
  <2>2. GoesTo(c, "away") /\ flagged' = [flagged EXCEPT ![c] = {}] /\ Keeps
    BY <1>2 DEF Ends, Keeps
  <2>3. flagged' \in [Calls -> SUBSET Things]
    BY <2>2, StateTyped
  <2>4. scan' \in Scans /\ screen' = <<>> /\ unread' \in Nat
    BY <1>1, <1>4, NoScanTyped, OfACall DEF CallLost
  <2> QED
    BY <1>2, <2>1, <2>2, <2>3, <2>4, EndsListing
<1>5. CASE ~ Listing(c)
  <2>1. at[c] \in MenuPhases
    BY <1>1, <1>5 DEF Listing
  <2>2. UNCHANGED <<scan, screen, unread>>
    BY <1>1, <1>5 DEF CallLost, listVars
  <2> QED
    BY <1>2, <1>3, <2>1, <2>2, EndKeeps
<1> QED
  BY <1>4, <1>5

----------------------------------------------------------------------------
(* A listing of mail.                                                       *)

LEMMA MailMoves ==
    ASSUME Consistent, NEW c \in Calls, at[c] # "away", ~ Listing(c), "mail" \in asked.commands,
           NEW q \in MailPhases \cup {"menu", "away"}, GoesTo(c, q), UNCHANGED <<scan, screen>>, Keeps,
           flagged' \in [Calls -> SUBSET Things], q # "away" => flagged' = flagged,
           unread' \in Nat, pager' \in Pagers, q \in MailPhases => Told(q, pager', unread')
    PROVE  Consistent'
<1>1. at' = [at EXCEPT ![c] = q] /\ at \in [Calls -> Phases] /\ at'[c] = q
  BY DEF GoesTo, Consistent, TypeOK
<1>2. c \in asked.calls /\ Building(c) /\ Quiet(c)
  BY OfACall
<1>3. screen = <<>> /\ screen' \in Seq(Lines) /\ scan' \in Scans
  BY <1>2, OfACall DEF Quiet
<1>4. q \in Phases /\ q \notin ListingPhases
  BY PhasesTyped
<1>5. asked' = asked /\ basis' = basis /\ saved' = saved
  BY DEF Keeps
<1>6. Calling(c)'
  BY <1>1, <1>2, <1>4, <1>5 DEF Calling, Listing
<1>7. Building(c)'
  BY <1>1, <1>2, <1>5 DEF Building
<1>8. Quiet(c)'
  <2>1. q \notin Asking /\ q \notin Asking \cup {"dirs"}
    BY <1>4, PhasesTyped
  <2> QED
    BY <1>1, <1>3, <2>1 DEF Quiet, Listing
<1>9. CallOK(c)'
  BY <1>1, <1>4, <1>6, <1>7, <1>8 DEF CallOK, Listing
<1> QED
  BY <1>2, <1>3, <1>4, <1>5, <1>9, OneCallMoves

LEMMA PagersTyped ==
    ASSUME NEW length \in LineLengths \cup {0}
    PROVE  /\ NewPager(length) \in Pagers /\ NewPager(length).lines = 0 /\ ~ NewPager(length).nonStop
           /\ Idle \in Pagers /\ HeaderLines \in Nat
<1>1. DefaultLength \in Nat /\ LineLengths \subseteq Nat
  BY PagerBounds
<1> QED
  BY <1>1 DEF NewPager, Pagers, Idle, HeaderLines

LEMMA MailKeeps ==
    ASSUME Consistent, NEW c \in Calls,
           ListMessages(c) \/ StartAnswered(c) \/ ShowRow(c) \/ PauseAnswered(c)
    PROVE  Consistent'
<1>1. /\ UNCHANGED <<flagged, scan, screen>> /\ Keeps
      /\ at[c] \in MailPhases \/ (at[c] = "menu" /\ "mail" \in asked.commands)
  BY DEF ListMessages, StartAnswered, ShowRow, PauseAnswered, FlagsStay, MailPhases
<1>2. at[c] # "away" /\ ~ Listing(c) /\ "mail" \in asked.commands
  BY <1>1, OfACall, PhasesTyped DEF Listing
<1>3. flagged' \in [Calls -> SUBSET Things] /\ unread \in Nat /\ pager \in Pagers
  BY <1>1, OfACall
<1>4. \A q \in {"start", "rows", "pause"} : q \in MailPhases
  BY DEF MailPhases
<1>5. Idle \in Pagers /\ HeaderLines = 4
  BY PagersTyped DEF HeaderLines
<1>6. ASSUME Back(c), unread' \in Nat
      PROVE  Consistent'
  <2>1. GoesTo(c, "menu") /\ pager' \in Pagers
    BY <1>5, <1>6 DEF Back
  <2>2. "menu" \notin MailPhases
    BY PhasesTyped
  <2> QED
    BY <1>1, <1>2, <1>3, <1>6, <2>1, <2>2, MailMoves
<1>7. CASE ListMessages(c)
  <2>1. GoesTo(c, "start") /\ unread' = 0 /\ unread' \in Nat /\ pager' = pager
    BY <1>7 DEF ListMessages
  <2>2. pager' \in Pagers /\ Told("start", pager', unread')
    BY <1>3, <2>1 DEF Told
  <2> QED
    BY <1>1, <1>2, <1>3, <1>4, <2>1, <2>2, MailMoves
<1>8. CASE StartAnswered(c)
  <2>1. CASE Back(c) /\ UNCHANGED unread
    BY <1>3, <1>6, <2>1
  <2>2. CASE \E length \in LineLengths :
               /\ GoesTo(c, "rows") /\ pager' = AddLines(NewPager(length), HeaderLines)
               /\ unread' = HeaderLines
    <3>1. PICK length \in LineLengths :
               /\ GoesTo(c, "rows") /\ pager' = AddLines(NewPager(length), HeaderLines)
               /\ unread' = HeaderLines
      BY <2>2
    <3>2. PICK p : p = NewPager(length)
      OBVIOUS
    <3>3. p \in Pagers /\ p.lines = 0 /\ ~ p.nonStop
      BY <3>2, PagersTyped
    <3>4. pager' \in Pagers /\ pager'.lines = 4 /\ ~ pager'.nonStop /\ unread' = 4
      BY <3>1, <3>2, <3>3, <1>5 DEF AddLines, Pagers
    <3>5. Told("rows", pager', unread') /\ unread' \in Nat
      BY <3>4, <1>5 DEF Told
    <3> QED
      BY <1>1, <1>2, <1>3, <1>4, <3>1, <3>4, <3>5, MailMoves
  <2> QED
    BY <1>8, <2>1, <2>2 DEF StartAnswered
<1>9. CASE ShowRow(c)
  <2>1. at[c] = "rows" /\ Told("rows", pager, unread)
    BY <1>4, <1>9, OfACall DEF ShowRow
  <2>2. pager.lines \in Nat /\ pager.length \in Nat /\ pager.nonStop \in BOOLEAN
    BY <1>3 DEF Pagers
  <2>3. CASE rows = <<>>
    BY <1>6, <1>9, <2>3 DEF ShowRow
  <2>4. CASE rows # <<>> /\ Fills(pager)
    <3>1. GoesTo(c, "pause") /\ pager' = [pager EXCEPT !.lines = 0]
          /\ unread' = IF pager.nonStop THEN 0 ELSE unread + 1
      BY <1>9, <2>4 DEF ShowRow, CountLine
    <3>2. ~ pager.nonStop
      BY <2>4 DEF Fills
    <3>3. unread = pager.lines /\ (pager.lines < pager.length \/ pager.lines <= HeaderLines)
      BY <2>1, <3>2 DEF Told
    <3>4. unread' = pager.lines + 1
      BY <3>1, <3>2, <3>3
    <3>5. pager' \in Pagers /\ pager'.lines = 0 /\ ~ pager'.nonStop /\ pager'.length = pager.length
      BY <1>3, <3>1, <3>2 DEF Pagers
    <3>6. unread' <= pager'.length \/ unread' <= HeaderLines + 1
      BY <1>5, <2>2, <3>3, <3>4, <3>5
    <3>7. Told("pause", pager', unread')
      BY <3>5, <3>6 DEF Told
    <3>8. unread' \in Nat
      BY <2>2, <3>4
    <3> QED
      BY <1>1, <1>2, <1>3, <1>4, <3>1, <3>5, <3>7, <3>8, MailMoves
  <2>5. CASE rows # <<>> /\ ~ Fills(pager)
    <3>1. GoesTo(c, "rows") /\ pager' = AddLines(pager, 1)
          /\ unread' = IF pager.nonStop THEN 0 ELSE unread + 1
      BY <1>9, <2>5 DEF ShowRow, CountLine
    <3>2. CASE pager.nonStop
      <4>1. pager' = pager /\ unread' = 0
        BY <3>1, <3>2 DEF AddLines
      <4>2. pager' \in Pagers /\ unread' \in Nat /\ Told("rows", pager', unread')
        BY <1>3, <3>2, <4>1 DEF Told
      <4> QED
        BY <1>1, <1>2, <1>3, <1>4, <3>1, <4>2, MailMoves
    <3>3. CASE ~ pager.nonStop
      <4>1. unread = pager.lines
        BY <2>1, <3>3 DEF Told
      <4>2. /\ pager' = [pager EXCEPT !.lines = @ + 1] /\ unread' = pager.lines + 1
            /\ pager.lines + 1 < pager.length
        BY <2>2, <2>5, <3>1, <3>3, <4>1 DEF AddLines, Fills
      <4>3. /\ pager' \in Pagers /\ pager'.lines = pager.lines + 1 /\ pager'.length = pager.length
            /\ ~ pager'.nonStop /\ unread' \in Nat
        BY <1>3, <2>2, <3>3, <4>2 DEF Pagers
      <4>4. Told("rows", pager', unread')
        BY <4>2, <4>3 DEF Told
      <4> QED
        BY <1>1, <1>2, <1>3, <1>4, <3>1, <4>3, <4>4, MailMoves
    <3> QED
      BY <3>2, <3>3
  <2> QED
    BY <2>3, <2>4, <2>5
<1>10. CASE PauseAnswered(c)
  <2>1. at[c] = "pause" /\ Told("pause", pager, unread) /\ unread' = 0 /\ unread' \in Nat
    BY <1>4, <1>10, OfACall DEF PauseAnswered
  <2>2. CASE Back(c)
    BY <1>6, <2>1, <2>2
  <2>3. CASE GoesTo(c, "rows") /\ pager' \in {pager, [pager EXCEPT !.nonStop = TRUE]}
    <3>1. ~ pager.nonStop /\ pager.lines = 0
      BY <2>1 DEF Told
    <3>2. CASE pager' = pager
      <4>1. Told("rows", pager', unread') /\ pager' \in Pagers
        BY <1>3, <1>5, <2>1, <3>1, <3>2 DEF Told
      <4> QED
        BY <1>1, <1>2, <1>3, <1>4, <2>1, <2>3, <4>1, MailMoves
    <3>3. CASE pager' = [pager EXCEPT !.nonStop = TRUE]
      <4>1. pager' \in Pagers /\ pager'.nonStop
        BY <1>3, <3>3 DEF Pagers
      <4>2. Told("rows", pager', unread')
        BY <2>1, <4>1 DEF Told
      <4> QED
        BY <1>1, <1>2, <1>3, <1>4, <2>1, <2>3, <4>1, <4>2, MailMoves
    <3> QED
      BY <2>3, <3>2, <3>3
  <2> QED
    BY <1>10, <2>2, <2>3 DEF PauseAnswered
<1> QED
  BY <1>7, <1>8, <1>9, <1>10

LEMMA MailLostKeeps ==
    ASSUME Consistent, NEW c \in Calls, MailDropped(c) \/ MailTimedOut(c)
    PROVE  Consistent'
<1>1. at[c] \in MailPhases /\ MailLost(c)
  BY DEF MailDropped, MailTimedOut
<1>2. at[c] # "away" /\ ~ Listing(c) /\ "mail" \in asked.commands /\ unread \in Nat
  BY <1>1, OfACall, PhasesTyped DEF Listing
<1>3. GoesTo(c, "away") /\ flagged' = [flagged EXCEPT ![c] = {}] /\ Keeps /\ UNCHANGED <<scan, screen, unread>>
  BY <1>1 DEF MailLost, Lost, Ends, Keeps, listVars
<1>4. flagged' \in [Calls -> SUBSET Things] /\ unread' \in Nat
  BY <1>2, <1>3, StateTyped
<1>5. pager' \in Pagers
  BY <1>1, PagersTyped DEF MailLost
<1>6. "away" \notin MailPhases
  BY PhasesTyped
<1> QED
  BY <1>2, <1>3, <1>4, <1>5, <1>6, MailMoves

----------------------------------------------------------------------------
(* The theorems.                                                            *)

LEMMA InitIsConsistent == Init => Consistent
<1> SUFFICES ASSUME Init
             PROVE  Consistent
  OBVIOUS
<1>1. /\ at = [c \in Calls |-> "away"] /\ flagged = [c \in Calls |-> {}]
      /\ basis = [c \in Calls |-> [stored |-> {}, kept |-> FALSE]]
      /\ asked \in Programs /\ saved \in {{}} \cup {{f} : f \in asked.names}
      /\ scan = NoScan /\ screen = <<>> /\ unread = 0 /\ pager = Idle
  BY DEF Init, FlagInit, ListInit
<1>2. TypeOK
  <2>1. at \in [Calls -> Phases]
    BY <1>1, PhasesTyped
  <2>2. flagged \in [Calls -> SUBSET Things] /\ basis \in [Calls -> [stored : SUBSET Things, kept : BOOLEAN]]
    BY <1>1
  <2>3. saved \in SUBSET Things
    BY <1>1, FlagBounds DEF Things
  <2>4. pager \in Pagers
    BY <1>1, PagersTyped
  <2> QED
    BY <1>1, <2>1, <2>2, <2>3, <2>4, NoScanTyped, NoLines DEF TypeOK
<1>3. ASSUME NEW c \in Calls
      PROVE  CallOK(c)
  <2>1. at[c] = "away" /\ ~ Listing(c) /\ at[c] \notin MailPhases /\ at[c] \notin Asking \cup {"dirs"}
        /\ at[c] \notin Asking
    BY <1>1, PhasesTyped DEF Listing, Asking
  <2> QED
    BY <1>1, <2>1 DEF CallOK, Calling, Building, Quiet
<1> QED
  BY <1>2, <1>3 DEF Consistent

LEMMA StutteringKeeps ==
    ASSUME Consistent, UNCHANGED vars
    PROVE  Consistent'
<1>1. /\ at' = at /\ flagged' = flagged /\ saved' = saved /\ basis' = basis /\ asked' = asked
      /\ scan' = scan /\ screen' = screen /\ unread' = unread /\ pager' = pager
  BY DEF vars, fileVars, flagVars, listVars
<1>2. TypeOK'
  BY <1>1 DEF Consistent, TypeOK
<1>3. ASSUME NEW c \in Calls
      PROVE  CallOK(c)'
  <2>1. CallOK(c)
    BY DEF Consistent
  <2>2. Calling(c)' /\ Building(c)' /\ Quiet(c)'
    BY <1>1, <2>1 DEF CallOK, Calling, Building, Quiet, Listing
  <2> QED
    BY <1>1, <2>1, <2>2 DEF CallOK, Listing
<1> QED
  BY <1>2, <1>3 DEF Consistent

\* Flags, listings and the pages of both kinds of listing stay consistent with
\* each other, for any catalogue, page length, command lines and programs.
THEOREM Invariance == Spec => []Consistent
<1>1. Consistent /\ [Next]_vars => Consistent'
  <2> SUFFICES ASSUME Consistent, [Next]_vars
               PROVE  Consistent'
    OBVIOUS
  <2>1. CASE FlagNext /\ UNCHANGED <<listVars, pager, rows>>
    BY <2>1, FlagNextKeeps
  <2>2. CASE ListNext /\ UNCHANGED <<pager, rows>>
    BY <2>2, ListNextKeeps, LostKeeps
  <2>3. CASE \E c \in Calls : \/ ListMessages(c) \/ StartAnswered(c) \/ ShowRow(c)
                              \/ PauseAnswered(c) \/ MailDropped(c) \/ MailTimedOut(c)
    BY <2>3, MailKeeps, MailLostKeeps
  <2>4. CASE UNCHANGED vars
    BY <2>4, StutteringKeeps
  <2> QED
    BY <2>1, <2>2, <2>3, <2>4 DEF Next
<1> QED
  BY <1>1, InitIsConsistent, PTL DEF Spec

\* What stands beside a file on the screen is about that file: the number of a
\* row chooses that row's file, and only a flagged file carries the mark.
THEOREM RowsStayTrue == Spec => []RowsAreTrue
<1>1. Consistent => RowsAreTrue
  <2> SUFFICES ASSUME Consistent, NEW c \in Calls
               PROVE  /\ at[c] \in {"more", "held", "confirm", "numbers"} =>
                           \A line \in Range(scan.page) : line.number > 0 =>
                               /\ line.number \in DOMAIN scan.displayed
                               /\ scan.displayed[line.number] = line.file
                      /\ Listing(c) => \A line \in Range(screen) : line.marked => line.file \in flagged[c]
    BY DEF RowsAreTrue
  <2>1. /\ Listing(c) => Fine(at[c], scan, screen, unread, flagged[c])
        /\ scan \in Scans
    BY OfACall
  <2>2. ASSUME at[c] \in {"more", "held", "confirm", "numbers"}, NEW line \in Range(scan.page), line.number > 0
        PROVE  line.number \in DOMAIN scan.displayed /\ scan.displayed[line.number] = line.file
    <3>1. at[c] \in Prompts /\ Listing(c)
      BY <2>2 DEF Prompts, Listing, ListingPhases
    <3>2. PageTrue(scan.page, scan.displayed)
      BY <2>1, <3>1 DEF Fine, Counted, Paged, Stale
    <3>3. PICK j \in DOMAIN scan.page : line = scan.page[j]
      BY DEF Range
    <3> QED
      BY <2>2, <3>2, <3>3 DEF PageTrue
  <2>3. ASSUME Listing(c), NEW line \in Range(screen), line.marked
        PROVE  line.file \in flagged[c]
    <3>1. PICK j \in DOMAIN screen : line = screen[j]
      BY DEF Range
    <3> QED
      BY <2>1, <2>3, <3>1 DEF Fine, Marked, MarkedIn
  <2> QED
    BY <2>2, <2>3
<1> QED
  BY <1>1, Invariance, PTL

\* No more lines than the page has go by without a pause, of files or of mail,
\* and who asked for no pauses is given none.
THEOREM PausesAreDue == Spec => []PausesWhenFull
<1>1. Consistent => PausesWhenFull
  <2> SUFFICES ASSUME Consistent, NEW c \in Calls
               PROVE  /\ Listing(c) => unread <= PageLines
                      /\ at[c] \in MailPhases => unread <= Max({pager.length, HeaderLines + 1})
                      /\ at[c] = "more" => ~ scan.nonStop
                      /\ at[c] = "pause" => ~ pager.nonStop
    BY DEF PausesWhenFull
  <2>1. /\ Listing(c) => Fine(at[c], scan, screen, unread, flagged[c])
        /\ at[c] \in MailPhases => Told(at[c], pager, unread)
        /\ pager \in Pagers /\ unread \in Nat
    BY OfACall
  <2>2. PageLines \in Nat
    BY ListingBounds
  <2>3. Listing(c) => unread <= PageLines
    BY <2>1, <2>2 DEF Fine, Counted
  <2>4. at[c] = "more" => ~ scan.nonStop
    <3>1. at[c] = "more" => Listing(c) /\ at[c] \in Prompts
      BY DEF Listing, ListingPhases, Prompts
    <3> QED
      BY <2>1, <3>1 DEF Fine, Counted
  <2>5. at[c] = "pause" => ~ pager.nonStop
    BY <2>1 DEF Told, MailPhases
  <2>6. ASSUME at[c] \in MailPhases
        PROVE  unread <= Max({pager.length, HeaderLines + 1})
    <3>1. pager.length \in Nat /\ pager.lines \in Nat /\ HeaderLines = 4
      BY <2>1 DEF Pagers, HeaderLines
    <3>2. Max({pager.length, HeaderLines + 1}) = IF pager.length >= 5 THEN pager.length ELSE 5
      BY <3>1, PairMax
    <3>3. at[c] \in {"start", "rows", "pause"}
      BY <2>6 DEF MailPhases
    <3>4. unread <= pager.length \/ unread <= 5
      <4>1. CASE at[c] = "start"
        BY <2>1, <2>6, <4>1, <3>1 DEF Told
      <4>2. CASE at[c] = "rows"
        <5>1. IF pager.nonStop THEN unread = 0
              ELSE unread = pager.lines /\ (pager.lines < pager.length \/ pager.lines <= 4)
          BY <2>1, <2>6, <4>2, <3>1 DEF Told
        <5> QED
          BY <5>1, <3>1
      <4>3. CASE at[c] = "pause"
        BY <2>1, <2>6, <4>3, <3>1 DEF Told
      <4> QED
        BY <3>3, <4>1, <4>2, <4>3
    <3> QED
      BY <2>1, <3>1, <3>2, <3>4
  <2> QED
    BY <2>3, <2>4, <2>5, <2>6
<1> QED
  BY <1>1, Invariance, PTL

\* A logoff loses no flag of the stored set but what its caller cleared, what a
\* failed restore never gave it, and what another call saved meanwhile.
THEOREM FlagsSurvive == Spec => NoFlagLost
<1>1. Consistent /\ [Next]_vars =>
        [\A c \in Calls : /\ saved' # saved /\ at[c] # "away" /\ at'[c] = "away"
                          /\ basis[c].kept /\ basis[c].stored = saved
                          => saved \subseteq saved']_flagVars
  <2> SUFFICES ASSUME Consistent, [Next]_vars, NEW c \in Calls, saved' # saved,
                      at[c] # "away", at'[c] = "away", basis[c].kept, basis[c].stored = saved
               PROVE  saved \subseteq saved'
    OBVIOUS
  <2>1. PICK d \in Calls : SavesAndLeaves(d)
    <3>1. CASE FlagNext
      BY <3>1 DEF FlagNext, LogOn, AlterFlags, AlterAnswered, ClearAnswered, LogOff, LeaveAnswered
    <3>2. CASE ListNext
      BY <3>2 DEF ListNext, OpenListing, Streams, Typed, Dropped, IdleTimedOut, CallLost, Lost, Keeps,
         NoEffects, EmitLine, BannerWritten, HeaderWritten, StreamDirBody, PostEndPause, SearchDirectory,
         QueryAnswered, ZippyDirsAnswered, DateAnswered, DirsAnswered, GoOn, SkipDir, ReloadDir, Quit,
         HoldN, AskNonStop, NonStopAnswered, PauseHelp, AskFlags, FlagsEntered
    <3>3. CASE \E e \in Calls : \/ ListMessages(e) \/ StartAnswered(e) \/ ShowRow(e)
                                \/ PauseAnswered(e) \/ MailDropped(e) \/ MailTimedOut(e)
      BY <3>3 DEF ListMessages, StartAnswered, ShowRow, PauseAnswered, MailDropped, MailTimedOut,
         FlagsStay, Keeps, MailLost, Lost
    <3>4. CASE UNCHANGED vars
      BY <3>4 DEF vars, fileVars, flagVars
    <3> QED
      BY <3>1, <3>2, <3>3, <3>4 DEF Next
  <2>2. at' = [at EXCEPT ![d] = "away"] /\ at \in [Calls -> Phases] /\ saved' \in {flagged[d], saved}
    BY <2>1 DEF SavesAndLeaves, Ends, GoesTo, Stored, Consistent, TypeOK
  <2>3. c = d
    BY <2>2
  <2>4. Building(c)
    BY OfACall
  <2> QED
    BY <2>2, <2>3, <2>4 DEF Building
<1> QED
  BY <1>1, Invariance, PTL DEF Spec, NoFlagLost
=============================================================================
