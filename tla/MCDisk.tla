------------------------------- MODULE MCDisk -------------------------------
(* What the board keeps on disk, for TLC: the directories a start reads and
   makes, the rows of the accounts, the files of the screens.  The three
   share no state here: a behaviour is about one of them, and the others
   rest.                                                                     *)
EXTENDS Startup, UserRows, Screens, TLC

CONSTANTS c1, c2, v1, v2

VARIABLE about
rowvars == vars

Conf01 == Dir(1, TRUE)
Conf1 == Dir(1, FALSE)
Conf02 == Dir(2, TRUE)
Named == {Conf01, Conf1, Conf02}
Empty == [d \in Named |-> Absent]
One == [Empty EXCEPT ![Conf01] = Toml(1, <<1>>)]
Two == [One EXCEPT ![Conf02] = Toml(2, <<2, 1>>)]
Puts(d, what) == [dir |-> d, holds |-> what]

Board(there, choices, most) ==
    [dirs |-> there, edits |-> choices, most_edits |-> most, faults |-> 2, durable |-> TRUE]

\* Conferences that are added, removed, wrong, in a second directory, in a
\* directory of another name, or empty.
Boards ==
    {Board(Two, {Puts(Conf02, Absent), Puts(Conf01, NoToml), Puts(Conf01, Toml(1, <<2, 1>>)),
                Puts(Conf02, Toml(1, <<1>>)), Puts(Conf02, Toml(2, <<>>))}, 2),
     Board([One EXCEPT ![Conf1] = Toml(1, <<1>>)], {Puts(Conf1, Absent)}, 2),
     Board([Empty EXCEPT ![Conf1] = Toml(1, <<1>>)], {Puts(Conf01, Absent)}, 1),
     [Board(Two, {}, 0) EXCEPT !.durable = FALSE]}
\* No board at all.
NoSite == [Board(Empty, {}, 0) EXCEPT !.faults = 0]
SitesTried == Boards \cup {NoSite}

----------------------------------------------------------------------------
Matched(daily, force) ==
    [kind |-> "Matched", daily |-> daily, force_password_reset |-> force]
Mismatched(lock_it) == [kind |-> "Mismatched", lock_account |-> lock_it]
Folds == ("Alice" :> "alice") @@ ("ALICE" :> "alice") @@ ("sysop" :> "sysop")

\* Names race for a slot while flags are saved and the board ends; two copies
\* of one account are changed and handed over; passwords are judged while a
\* copy is out.
CataloguesTried == {{}, {1}}
Asked(commands, most, copies, time, flags, ends, catalogues) ==
    [commands |-> commands, made |-> most, edits |-> copies, time |-> time, saves |-> flags,
     stops |-> ends, catalogues |-> catalogues]
Unasked == Asked({}, 0, 0, 1, 0, 0, {{}})
WorkloadsTried ==
    {Unasked,
     Asked({"find_by_handle", "create_user"}, 3, 0, 1, 1, 1, {{}}),
     Asked({"find_sysop", "apply_user_patch"}, 4, 2, 2, 0, 0, {{1}}),
     Asked({"find_sysop", "apply_user_patch"}, 2, 2, 1, 1, 2, CataloguesTried),
     Asked({"find_sysop", "record_auth_outcome", "record_password_change"}, 4, 0, 2, 0, 1, {{}})}

HandlesTried == {"Alice", "ALICE"}
OutcomesTried == {Matched("NewDay", TRUE), Matched("SameDay", FALSE), Mismatched(TRUE)}

----------------------------------------------------------------------------
\* Menus that are changed under the walks; all that may be installed, left
\* alone; the other screens.
Screening(keys, files, most_changes, most_failures) ==
    [keys |-> keys, files |-> files, changes |-> most_changes, failures |-> most_failures]
NoScreens == Screening({}, {}, 0, 0)
Key(kind, conf, level) == [kind |-> kind, conf |-> conf, level |-> level]
Menus(levels) == {Key("conference_menu", l[1], l[2]) : l \in levels}
PlansTried ==
    {NoScreens,
     Screening(Menus({<<1, 7>>, <<3, 7>>}),
               {File(1, "menu", 0), File(2, "Menu", 5), File(2, "Menu", 0)}, 1, 1),
     Screening(Menus({<<1, 12>>, <<2, 4>>}),
               {File(1, "Menu", level) : level \in {0, 5, 10}}
                 \cup {File(1, "menu", 0), File(2, "Menu", 0)}, 0, 0),
     Screening({Key("fixed", 0, 0), Key("joinmsgbase", 1, 0), Key("joinmsgbase", 2, 0)},
               {File(0, "screen", 0), File(0, "JoinMsgBase", 0), File(1, "JoinMsgBase", 0)}, 1, 1),
     Screening({Key("topic_help", 0, 0), Key("topic_help", 0, 3)},
               {File(0, "help", 1), File(0, "help", 3)}, 1, 0)}

----------------------------------------------------------------------------
DiskInit ==
    /\ StartInit /\ Init /\ ScreensInit
    /\ about \in {"starts", "accounts", "screens"}
    /\ site = NoSite <=> about # "starts"
    /\ workload = Unasked <=> about # "accounts"
    /\ plan = NoScreens <=> about # "screens"
DiskNext ==
    /\ UNCHANGED about
    /\ \/ about = "starts" /\ StartNext /\ UNCHANGED <<rowvars, screenvars>>
       \/ about = "accounts" /\ Next /\ UNCHANGED <<startvars, screenvars>>
       \/ about = "screens" /\ ScreensNext /\ UNCHANGED <<startvars, rowvars>>
DiskSpec ==
    /\ DiskInit /\ [][DiskNext]_<<startvars, rowvars, screenvars, about>>
    /\ WF_rowvars(about = "accounts" /\ FlagsSaved)
    /\ \A c \in Callers : WF_rowvars(about = "accounts" /\ (Lock(c) \/ Answering(c)))
=============================================================================
