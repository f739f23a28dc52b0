------------------------------ MODULE MailDesk ------------------------------
(* What becomes of the words a caller writes: the prompts and editors that a
   message is composed in, the rules that compose answers and forwarded
   messages from others, the limits on size, and the file a message is kept
   in and must be read back from, by the next command or the next board.

   One caller sits at the desk at a time; MessageBases has several at once,
   with their locks and the failing writes.  All callers are in one base of
   one conference.  A line stands for a stretch of text: what it adds to the
   body, with its newline, and what it adds to the file, where some
   characters take more than one byte.  White space around a line is gone
   where the code trims it.

   A definition followed by a near copy of itself is a mistake the
   properties are tried against; the model uses the second of the two.     *)
EXTENDS Naturals, Sequences, SequencesExt, FiniteSetsExt

CONSTANTS
    Accounts,           \* of each handle: slot, level, new_user, censored, member
    SizeOf, StoredSizeOf,   \* bytes of a word, in memory and in the file
    MaxMailSubject,     \* 256 in the code
    MaxMailBody,        \* 64 KiB
    MaxPersistedMail,   \* 72 KiB
    PayloadOverhead,    \* the rest of the file
    DeskWorkloads       \* what one behaviour is about: who sits down, with which
                        \* commands, how the base may be addressed, what is typed
                        \* as a name, a subject and a line of text, and bounds on
                        \* lines, messages and restarts

VARIABLES
    files,      \* the message of each number
    board,      \* does it serve
    desk,       \* what is being composed
    said,       \* history: the lines of text typed for it and kept
    meant,      \* history: what each message is to say, to whom by name and by account,
                \* and in private
    errand      \* the workload, and the restarts so far
deskvars == <<files, board, desk, said, meant, errand>>

Handles == DOMAIN Accounts
Words == DOMAIN SizeOf

\* Whoever sits down has an account, and every word has a size, those too that
\* the code adds.
ASSUME WordSizes ==
    /\ {"From:", "--", "Re:", "Fwd:"} \subseteq Words
    /\ \A w \in DeskWorkloads : w.subjects \cup w.words \subseteq Words
ASSUME WritersHaveAccounts ==
    /\ \A h \in Handles : Accounts[h] \in [slot : Nat, level : Nat, new_user : BOOLEAN,
                                           censored : BOOLEAN, member : BOOLEAN]
    /\ \A w \in DeskWorkloads : w.callers \subseteq Handles

Sysops == {h \in Handles : Accounts[h].slot = 1}
IsSysop(h) == h \in Sysops
HasAccess(h, right) == Accounts[h].new_user => right \in {"ReadMessage", "CommentToSysop"}
NameOfSlot(slot) == CHOOSE h \in Handles : Accounts[h].slot = slot

Bytes(words, size) == FoldLeft(LAMBDA n, w : n + size[w], 0, words)
Header == <<"From:">>               \* forward_header_for, and the newline after it
Divider == <<"--">>

AtMenu == [at |-> "menu"]
Start(at, command, by, number) ==
    [at |-> at, command |-> command, by |-> by, number |-> number,
     to |-> "", subject |-> <<>>, private |-> FALSE, body |-> <<>>]

DeskInit ==
    /\ files = <<>> /\ meant = <<>>
    /\ board = "serving" /\ desk = AtMenu /\ said = <<>>
    /\ errand \in {[work |-> w, restarts |-> 0] : w \in DeskWorkloads}

----------------------------------------------------------------------------
(* The file of a message.                                                  *)

CheckSizeLimits(mail) ==
    /\ Bytes(mail.subject, SizeOf) <= MaxMailSubject
    /\ Bytes(mail.body, SizeOf) <= MaxMailBody
ReadMailPayloadText(mail) ==
    PayloadOverhead + Bytes(mail.body, StoredSizeOf) <= MaxPersistedMail
Loads(mail) == ReadMailPayloadText(mail) /\ CheckSizeLimits(mail)
Load(n) == {files[m] : m \in {k \in DOMAIN files : k = n /\ Loads(files[k])}}

IsDeleted(mail) == mail.visibility = "Deleted"
CanRead(h, mail) ==
    /\ ~IsDeleted(mail)
    /\ \/ IsSysop(h) \/ mail.visibility = "Public" \/ mail.author_slot = Accounts[h].slot
       \/ mail.visibility = "Private" /\ mail.addressee_slot = {Accounts[h].slot}
CanEditHeader(h) == IsSysop(h) \/ Accounts[h].level >= 210
CanDelete(h, mail) ==
    \/ CanEditHeader(h)
    \/ Accounts[h].slot \in {mail.author_slot} \cup mail.addressee_slot

----------------------------------------------------------------------------
(* Posting.                                                                *)

AddressingAllows(allowed, broadcast) ==
    CASE broadcast = "None" -> TRUE
      [] broadcast = "All" -> allowed \in {"IndividualOrAll", "Any"}
      [] broadcast = "Eall" -> allowed \in {"IndividualOrEall", "Any"}

Visibility(draft) ==
    IF draft.broadcast_to = "Eall" THEN "Public"
    ELSE IF Accounts[draft.from].censored THEN "PrivateToSysop"
    ELSE IF draft.private THEN "Private" ELSE "Public"

Accepts(draft) ==
    /\ CheckSizeLimits(draft)
    /\ (draft.broadcast_to = "None") <=> (draft.addressee_slot # {})
    /\ AddressingAllows(errand.work.addressing, draft.broadcast_to)
    /\ Accounts[draft.from].member

MailOf(draft) ==
    [visibility |-> Visibility(draft), to_name |-> draft.to_name,
     broadcast_to |-> draft.broadcast_to, author_slot |-> Accounts[draft.from].slot,
     addressee_slot |-> draft.addressee_slot, subject |-> draft.subject,
     body |-> draft.body, received |-> FALSE]

Leave == desk' = AtMenu /\ said' = <<>>
Unchanged == UNCHANGED <<files, meant>>

\* One of the drafts a command comes to, or none if it was turned away.  The
\* caller is back at the menu either way.
Post(drafts, meaning) ==
    /\ Leave
    /\ IF \E draft \in drafts : Accepts(draft)
         THEN \E draft \in drafts :
                /\ Accepts(draft)
                /\ files' = Append(files, MailOf(draft))
                /\ meant' = Append(meant, meaning)
         ELSE Unchanged

Draft(to, broadcast, slot, subject, body, private) ==
    [to_name |-> to, broadcast_to |-> broadcast, addressee_slot |-> slot,
     from |-> desk.by, subject |-> subject, body |-> body, private |-> private]

\* E: an empty name and ALL are everybody, EALL is everybody everywhere, any
\* other name is a member's.
ClassifyRecipient(typed) ==
    CASE typed \in {"", "ALL"} -> {Draft("ALL", "All", {}, desk.subject, desk.body, desk.private)}
      [] typed = "EALL" -> {Draft("EALL", "Eall", {}, desk.subject, desk.body, desk.private)}
      [] OTHER -> {Draft(h, "None", {Accounts[h].slot}, desk.subject, desk.body, desk.private) :
                     h \in {h \in Handles : h = typed /\ Accounts[h].member}}

PostMail ==
    Post({d \in ClassifyRecipient(desk.to) : HasAccess(desk.by, "EnterMessage")},
         [text |-> said, subject |-> desk.subject,
          to |-> IF desk.to = "" THEN "ALL" ELSE desk.to,
          whom |-> IF desk.to \in {"", "ALL", "EALL"} THEN {} ELSE {desk.to},
          secret |-> desk.to # "EALL" /\ (desk.private \/ Accounts[desk.by].censored)])

PostCommentToSysop ==
    Post({Draft("Sysop", "None", {Accounts[s].slot}, desk.subject, desk.body, TRUE) :
            s \in {s \in Sysops : HasAccess(desk.by, "CommentToSysop")}},
         [text |-> said, subject |-> desk.subject, to |-> "Sysop", whom |-> Sysops, secret |-> TRUE])

\* RP: the answer goes to the author, in public.
ReplyToMail ==
    \/ /\ Load(desk.number) = {}
       /\ Leave /\ Unchanged
    \/ \E source \in Load(desk.number) :
         Post({Draft(NameOfSlot(source.author_slot), "None", {source.author_slot},
                     <<"Re:">> \o source.subject, desk.body, FALSE) :
                 m \in {m \in {source} : CanRead(desk.by, m) /\ HasAccess(desk.by, "EnterMessage")}},
              [text |-> said, subject |-> <<"Re:">> \o meant[desk.number].subject,
               to |-> NameOfSlot(source.author_slot),
               whom |-> {NameOfSlot(source.author_slot)}, secret |-> FALSE])

ComposedBody(source, note) ==
    Header \o source.body \o (IF note = <<>> THEN <<>> ELSE Divider \o note)

\* FW: what was not public stays so.
PrivateIfPrivate(source) == source.visibility = "Private"
StaysPrivate(source) == source.visibility # "Public"
ForwardMail(note, kept) ==
    \/ /\ Load(desk.number) = {} \/ desk.to \notin Handles
       /\ Leave /\ Unchanged
    \/ \E source \in Load(desk.number) :
         /\ desk.to \in Handles
         /\ Post({Draft(desk.to, "None", {Accounts[desk.to].slot}, <<"Fwd:">> \o source.subject,
                        ComposedBody(source, note), StaysPrivate(source)) :
                    m \in {m \in {source} : CanRead(desk.by, m) /\ HasAccess(desk.by, "EnterMessage")}},
                 [text |-> Header \o meant[desk.number].text
                             \o (IF kept = <<>> THEN <<>> ELSE Divider \o kept),
                  subject |-> <<"Fwd:">> \o meant[desk.number].subject,
                  to |-> desk.to, whom |-> {desk.to}, secret |-> meant[desk.number].secret])

----------------------------------------------------------------------------
(* The commands, and the prompts one after the other.                      *)

SitDown(by, command, number) ==
    desk' = Start(CASE command = "E" -> "to" [] command = "C" -> "subject"
                    [] command = "RP" -> "body" [] command = "FW" -> "forward to"
                    [] command = "EH" -> "new subject" [] command = "K" -> "delete?"
                    [] command = "R" -> "read",
                  command, by, number)
Command ==
    /\ board = "serving" /\ desk = AtMenu
    /\ \E by \in errand.work.callers, command \in errand.work.commands :
         /\ command \in {"E", "C", "RP", "FW"} => Len(files) < errand.work.messages
         /\ \/ command \in {"E", "C"} /\ SitDown(by, command, 0)
            \/ \E n \in DOMAIN files :
                 /\ command \in {"R", "RP", "FW", "EH", "K"}
                 /\ command = "EH" => CanEditHeader(by)
                 /\ command = "K" => \E mail \in Load(n) : CanDelete(by, mail)
                 /\ SitDown(by, command, n)
    /\ UNCHANGED <<board, said, errand>> /\ Unchanged

AtPrompt(prompt) == board = "serving" /\ desk.at = prompt
Goes(to) == desk' = [desk EXCEPT !.at = to] /\ UNCHANGED said
Composing == UNCHANGED <<board, errand>>
Prompted == Composing /\ Unchanged

EnterTo ==
    /\ AtPrompt("to")
    /\ \E typed \in errand.work.names : desk' = [desk EXCEPT !.to = typed, !.at = "subject"]
    /\ UNCHANGED said /\ Prompted

\* An empty subject aborts.
EnterSubject ==
    /\ AtPrompt("subject")
    /\ \/ Leave
       \/ \E typed \in errand.work.subjects :
            /\ desk' = [desk EXCEPT !.subject = <<typed>>,
                                    !.at = IF desk.command = "E" THEN "private" ELSE "line"]
            /\ UNCHANGED said
    /\ Prompted

EnterPrivate ==
    /\ AtPrompt("private")
    /\ \E answer \in BOOLEAN : desk' = [desk EXCEPT !.private = answer, !.at = "line"]
    /\ UNCHANGED said /\ Prompted

\* Adds the line, or gives the text up when it does not fit any more.
AppendLineWithNewline(line, TooLong) ==
    IF Bytes(Append(desk.body, line), SizeOf) <= MaxMailBody
      THEN /\ desk' = [desk EXCEPT !.body = Append(@, line)]
           /\ said' = Append(said, line)
           /\ Unchanged
      ELSE TooLong
MoreLines == Len(said) < errand.work.lines

\* The line editor of E and C: an empty line brings the options.
EditorLine ==
    /\ AtPrompt("line") /\ Composing
    /\ \/ Goes("options") /\ Unchanged
       \/ \E line \in errand.work.words \ {""} : MoreLines /\ AppendLineWithNewline(line, Leave /\ Unchanged)

ContinueText == Goes("line")
EditorOptions ==
    /\ AtPrompt("options") /\ Composing
    /\ \/ ContinueText /\ Unchanged
       \/ Goes("abort?") /\ Unchanged
       \/ desk.command = "E" /\ PostMail
       \/ desk.command = "C" /\ PostCommentToSysop
ConfirmEditorAbort ==
    /\ AtPrompt("abort?")
    /\ Leave \/ Goes("options")
    /\ Prompted

\* The plain editor of RP: a dot ends the text, /A gives it up.
PostBodyLine ==
    /\ AtPrompt("body") /\ Composing
    /\ \/ ReplyToMail
       \/ Leave /\ Unchanged
       \/ \E line \in errand.work.words : MoreLines /\ AppendLineWithNewline(line, Leave /\ Unchanged)

ForwardTo ==
    /\ AtPrompt("forward to")
    /\ \/ Leave
       \/ \E typed \in errand.work.names \ {""} :
            desk' = [desk EXCEPT !.to = typed, !.at = "note"] /\ UNCHANGED said
    /\ Prompted

\* /A, an empty first line and a note that is too long give up the note, and
\* the message is forwarded without it.
DropNote == ForwardMail(<<>>, <<>>)
ForwardNoteLine ==
    /\ AtPrompt("note") /\ Composing
    /\ \/ ForwardMail(desk.body, said)
       \/ DropNote
       \/ \E line \in errand.work.words :
            (line = "" => said # <<>>) /\ MoreLines /\ AppendLineWithNewline(line, DropNote)

----------------------------------------------------------------------------
(* Commands on a message that is there.                                    *)

Saved(mail) == files' = [files EXCEPT ![desk.number] = mail]

\* Reading marks a message for its addressee.
ReadMail ==
    /\ AtPrompt("read") /\ Composing /\ Leave
    /\ IF \E mail \in Load(desk.number) :
            CanRead(desk.by, mail) /\ HasAccess(desk.by, "ReadMessage") /\ Accounts[desk.by].member
         THEN Saved([files[desk.number] EXCEPT
                       !.received = @ \/ files[desk.number].addressee_slot = {Accounts[desk.by].slot}])
         ELSE UNCHANGED files
    /\ UNCHANGED meant

HandleKill ==
    /\ AtPrompt("delete?") /\ Composing /\ Leave
    /\ \/ \E mail \in Load(desk.number) :
            /\ ~IsDeleted(mail) /\ CanDelete(desk.by, mail)
            /\ Saved([mail EXCEPT !.visibility = "Deleted", !.received = FALSE])
       \/ UNCHANGED files
    /\ UNCHANGED meant

EnterNewSubject ==
    /\ AtPrompt("new subject")
    /\ \E typed \in {<<>>} \cup {<<s>> : s \in errand.work.subjects} :
         desk' = [desk EXCEPT !.subject = typed, !.at = "new to"]
    /\ UNCHANGED said /\ Prompted

\* What is left empty stays as it was; a name nobody has changes nothing.
EditMailHeader ==
    /\ AtPrompt("new to") /\ Composing /\ Leave
    /\ \E typed \in errand.work.names :
         LET changes == IF typed \in Handles \cup {""} THEN Load(desk.number) ELSE {}
         IN  IF changes = {} THEN Unchanged
             ELSE \E mail \in changes :
               /\ Saved([mail EXCEPT
                     !.subject = IF desk.subject = <<>> THEN @ ELSE desk.subject,
                     !.to_name = IF typed = "" THEN @ ELSE typed,
                     !.addressee_slot = IF typed = "" THEN @ ELSE {Accounts[typed].slot}])
               /\ meant' = [meant EXCEPT
                     ![desk.number].subject = IF desk.subject = <<>> THEN @ ELSE desk.subject,
                     ![desk.number].to = IF typed = "" THEN @ ELSE typed,
                     ![desk.number].whom = IF typed = "" THEN @ ELSE {typed}]

\* The caller hangs up at a prompt: what was being composed is gone.
LoseCaller ==
    /\ board = "serving" /\ desk # AtMenu
    /\ Leave /\ Prompted

\* Another board on the same files: every one of them must be readable.
OpenMailStores ==
    /\ errand.restarts < errand.work.restarts
    /\ errand' = [errand EXCEPT !.restarts = @ + 1]
    /\ board' = IF \A n \in DOMAIN files : Loads(files[n]) THEN "serving" ELSE "not started"
    /\ Leave /\ Unchanged

DeskNext ==
    \/ Command \/ EnterTo \/ EnterSubject \/ EnterPrivate \/ EditorLine \/ EditorOptions
    \/ ConfirmEditorAbort \/ PostBodyLine \/ ForwardTo \/ ForwardNoteLine
    \/ ReadMail \/ HandleKill \/ EnterNewSubject \/ EditMailHeader
    \/ LoseCaller \/ OpenMailStores

DeskSpec == DeskInit /\ [][DeskNext]_deskvars

----------------------------------------------------------------------------
\* A message says what its author typed and kept, line after line, whatever
\* editor it was typed in and however often it was forwarded; it goes to
\* whom it was last addressed; and words that were written in private are in
\* no public message.
PostedAsTyped ==
    \A n \in DOMAIN files : ~IsDeleted(files[n]) =>
      /\ files[n].body = meant[n].text
      /\ files[n].subject = meant[n].subject
      /\ files[n].to_name = meant[n].to
      /\ files[n].addressee_slot = {Accounts[h].slot : h \in meant[n].whom}
      /\ meant[n].secret => files[n].visibility # "Public"

\* limits.rs: a file may be larger than the longest body, to allow for
\* headers and escaping; so what was accepted can be read again.
AcceptedMailLoads == \A n \in DOMAIN files : Loads(files[n])
=============================================================================
