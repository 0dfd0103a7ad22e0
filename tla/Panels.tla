------------------------------- MODULE Panels -------------------------------
(***************************************************************************)
(* The screens of the user interface (govisor/ui): what the goroutine that *)
(* draws does with keys, with the panels it shows and with the lists that  *)
(* the loop of App.refresh posts.  Module Refresh has that loop's requests *)
(* and LogView the log that is shown; here a fetch brings any list.        *)
(*                                                                         *)
(* The application draws the panel it shows before it takes an event       *)
(* (views.Application, external), so a key finds what was drawn last.      *)
(* Closures run in the order they were posted; ShowInfo and its like only  *)
(* post, and the old panel gets the keys until then.  Index errors of the  *)
(* main panel end the program.                                             *)
(***************************************************************************)
EXTENDS Integers, SequencesExt

CONSTANTS
    Service,    \* the names of the services, compared as numbers
    Manager,    \* the name "": no service, and the log of the manager
    Look,       \* Look[s]: how s may look, "failed", "up" or "disabled", and "absent"
                \* if it may be missing from the list
    MaxQueue    \* bound: panels that keys have asked for and that are not shown yet

ASSUME PanelsAssumption ==
    /\ Service \subseteq Nat /\ IsFiniteSet(Service) /\ Manager \notin Service
    /\ Look \in [Service -> SUBSET {"failed", "up", "disabled", "absent"}]
    /\ MaxQueue \in Nat \ {0}

VARIABLES
    phase,     \* of the application: "draw", "event", "ended", "crashed"
    panel,     \* App.panel
    queue,     \* what was posted: panels to show, "items" and "quit"
    fetched,   \* of the closure "items": has it a list, and what is its error?
    loop,      \* App.refresh: "fetch", "watch", "wait"
    known,     \* the server accepts the user and the password
    items,     \* App.items, and MainPanel.items since the last draw
    err,       \* App.err
    selected,  \* the name of MainPanel.selected
    cury,      \* MainPanel.cury
    lines,     \* the length of MainPanel.lines
    height,    \* MainPanel.height
    name,      \* InfoPanel.name and LogPanel.name
    chosen     \* ghost: the service the user chose for a panel, with the cursor or
               \* with the key that opened the panel

appVars == <<items, err, name, chosen>>
mainVars == <<selected, cury, lines, height>>
loopVars == <<fetched, loop, known>>
vars == <<phase, panel, queue, appVars, mainVars, loopVars>>

\* All that is still read: of the list the order (a key that asks for a look changes
\* nothing), the cursor and what was chosen while something is selected, the name of a
\* panel that is shown or will be, and when all is over what the properties read.
readVars ==
    IF phase \in {"ended", "crashed"} THEN <<phase, panel, err, height, known>>
    ELSE <<phase, panel, queue, [y \in DOMAIN items |-> items[y].svc], err, lines, height,
           loopVars, IF selected = Manager THEN <<>> ELSE <<selected, cury, chosen["main"]>>,
           {<<p, name[p], chosen[p]>> :
               p \in {q \in {"info", "log"} \cap ({panel} \cup ToSet(queue)) :
                         name[q] # Manager}}>>

Item == [svc : Service, look : {"failed", "up", "disabled"}]
Panel == {"main", "info", "log", "help", "auth"}
NoFetch == [got |-> FALSE, err |-> "none"]

TypeOK ==
    /\ phase \in {"draw", "event", "ended", "crashed"}
    /\ panel \in Panel
    /\ queue \in Seq(Panel \cup {"items", "quit"})
    /\ fetched \in [got : BOOLEAN, err : {"none", "auth", "other"}]
    /\ loop \in {"fetch", "watch", "wait"} /\ known \in BOOLEAN
    /\ items \in Seq(Item) /\ err \in {"none", "auth", "other"}
    /\ selected \in Service \cup {Manager}
    /\ {cury, lines, height} \subseteq 0 .. Cardinality(Service)
    /\ name \in [{"info", "log"} -> Service \cup {Manager}]
    /\ chosen \in [{"main", "info", "log"} -> Service \cup {Manager}]

\* The program may have been given a password, or need none.
Init ==
    /\ phase = "draw" /\ panel = "main" /\ queue = <<"main">>
    /\ fetched = NoFetch /\ loop = "fetch" /\ known \in BOOLEAN
    /\ items = <<>> /\ err = "none"
    /\ selected = Manager /\ cury = 0 /\ lines = 0 /\ height = 0
    /\ name = [p \in {"info", "log"} |-> Manager]
    /\ chosen = [p \in {"main", "info", "log"} |-> Manager]

Ended == phase \in {"ended", "crashed"}
Row(s) == {y \in DOMAIN items : items[y].svc = s}
Seen(s) == \E y \in Row(s) : TRUE
LookOf(s) == items[CHOOSE y \in Row(s) : TRUE].look

-----------------------------------------------------------------------------
(* App.refresh.                                                            *)

\* util.SortServices.
Less(a, b) ==
    LET Rank(i) == CASE i.look = "failed" -> 0 [] i.look = "up" -> 1 [] OTHER -> 2
    IN Rank(a) < Rank(b) \/ (Rank(a) = Rank(b) /\ a.svc < b.svc)

\* What may be listed: services, none of them twice, as they may look and sorted.
Once(l) == \A y, z \in DOMAIN l : l[y].svc = l[z].svc => y = z
Sorted(l) == \A y, z \in DOMAIN l : y < z => Less(l[y], l[z])
MayLook(l) == \A s \in Service :
    LET looks == {i.look : i \in {j \in ToSet(l) : j.svc = s}}
    IN looks \subseteq Look[s] /\ (looks = {} => "absent" \in Look[s])
Lists == {l \in SeqOf(Item, Cardinality(Service)) : Once(l) /\ Sorted(l) /\ MayLook(l)}

\* getItems: the services that could be got, or one error for them all.  Which
\* services, and how they look, is chosen when the closure runs.
getItems ==
    {[got |-> FALSE, err |-> "other"],
     IF known THEN [got |-> TRUE, err |-> "none"] ELSE [got |-> FALSE, err |-> "auth"]}

DueUnlessRefused ==  \* mutant: no requests until the next password
    loop = "fetch" /\ "items" \notin ToSet(queue) /\ err # "auth"
Due == loop = "fetch" /\ "items" \notin ToSet(queue)

Fetch ==
    /\ Due
    /\ fetched' \in getItems
    /\ queue' = Append(queue, "items")
    /\ loop' = "watch"
    /\ UNCHANGED <<phase, panel, appVars, mainVars, known>>

\* Client.Watch returns.  Its error is stored in the variable the closure reads,
\* which may not have run yet.  A serial that is cached is returned unasked.
Watched(e) ==
    /\ loop = "watch"
    /\ e = "auth" => ~known
    /\ fetched' = IF "items" \in ToSet(queue) THEN [fetched EXCEPT !.err = e] ELSE fetched
    /\ loop' = IF e = "none" THEN "fetch" ELSE "wait"
    /\ UNCHANGED <<phase, panel, queue, appVars, mainVars, known>>

\* Two seconds have passed, or SetUserPassword wakes the loop before that.
Wake ==
    /\ loop = "wait" /\ loop' = "fetch"
    /\ UNCHANGED <<phase, panel, queue, appVars, mainVars, fetched, known>>

-----------------------------------------------------------------------------
(* Draw: every panel is brought up to date first.                          *)

KeepLine ==  \* mutant: the selection stays where it is in the list
    /\ cury' = cury
    /\ selected' = IF selected # Manager /\ cury < Len(items)
                   THEN items[cury + 1].svc ELSE Manager

KeepName ==  \* mutant: the cursor stays where it is
    /\ cury' = cury
    /\ selected' = IF Seen(selected) THEN selected ELSE Manager

\* MainPanel.update: the selection is looked for by its name.
KeepSelection ==
    /\ selected' = IF Seen(selected) THEN selected ELSE Manager
    /\ cury' = IF Seen(selected) THEN Max(Row(selected)) - 1 ELSE cury

AskNothing == queue' = queue  \* mutant: a 401 is an error like others
AskPassword == queue' = IF err = "auth" THEN Append(queue, "auth") ELSE queue

\* mainModel.GetCell reads m.items[y] for each of m.lines.
GetCells == phase' = IF lines' > Len(items) THEN "crashed" ELSE "event"

\* On a 401 update returns before the lines are made, on other errors before the
\* height is.
DrawMain ==
    /\ phase = "draw" /\ panel = "main"
    /\ KeepSelection
    /\ lines' = CASE err = "none" -> Len(items) [] err = "other" -> 0 [] OTHER -> lines
    /\ height' = IF err = "none" THEN Len(items) ELSE height
    /\ AskPassword
    /\ GetCells
    /\ UNCHANGED <<panel, appVars, loopVars>>

\* The other panels keep nothing but a copy of the item of their name.
DrawOther ==
    /\ phase = "draw" /\ panel # "main"
    /\ phase' = "event"
    /\ UNCHANGED <<panel, queue, appVars, mainVars, loopVars>>

-----------------------------------------------------------------------------
(* Events: the closures.                                                   *)

\* Keys come when they like, whatever is posted and not run yet.  Two bounds: there is
\* room for a key that posts something, and a key that posts nothing comes while no
\* more than that waits, as what is drawn after it may ask for the password again.
Waiting(kinds) == Len(SelectSeq(queue, LAMBDA what : what \in kinds))
Taken == phase = "event" /\ Waiting(Panel \cup {"quit"}) <= MaxQueue
Room == Waiting((Panel \cup {"quit"}) \ {"auth"}) < MaxQueue
Event == Taken /\ phase' = "draw"

\* The closure of App.show, of App.refresh, or the end.
RunPosted ==
    /\ phase = "event" /\ queue # <<>>
    /\ LET what == Head(queue) IN
         /\ phase' = IF what = "quit" THEN "ended" ELSE "draw"
         /\ panel' = IF what \in Panel THEN what ELSE panel
         /\ IF what # "items" THEN items' = items
            ELSE IF fetched.got THEN items' \in Lists ELSE items' = <<>>
         /\ err' = IF what = "items" THEN fetched.err ELSE err
         /\ fetched' = IF what = "items" THEN NoFetch ELSE fetched
    /\ queue' = Tail(queue)
    /\ UNCHANGED <<name, chosen, mainVars, loop, known>>

\* What has no effect but that everything is drawn again: the update of every second
\* (app.go:318-324), Ctrl-L, and keys that mean nothing.
Redraw == Event /\ UNCHANGED <<panel, queue, appVars, mainVars, loopVars>>

Key(ps) == Event /\ panel \in ps /\ UNCHANGED <<panel, loopVars>>

\* Quit with Ctrl-C, or with Q or Escape, which lead the other panels to main.
Leave ==
    /\ Key(Panel) /\ Room
    /\ \E to \in {"quit", "main"} :
         /\ to = "main" => panel \notin {"main", "auth"}
         /\ queue' = Append(queue, to)
    /\ UNCHANGED <<appVars, mainVars>>

ShowHelp ==
    /\ Key({"main", "info", "log"}) /\ Room
    /\ queue' = Append(queue, "help")
    /\ UNCHANGED <<appVars, mainVars>>

\* The service that the keys of a panel are for: the selection, or the item that
\* InfoPanel.info or LogPanel.info was made of.
Subject ==
    IF panel = "main" THEN selected
    ELSE IF err = "none" /\ Seen(name[panel]) THEN name[panel] ELSE Manager

\* ShowInfo, and ShowLog, which the main panel takes for the manager's as well.
Show(p) ==
    /\ Key({"main", "info", "log"} \ {p}) /\ Room
    /\ Subject # Manager \/ (panel = "main" /\ p = "log")
    /\ name' = [name EXCEPT ![p] = Subject]
    /\ chosen' = [chosen EXCEPT ![p] = chosen[panel]]
    /\ queue' = Append(queue, p)
    /\ UNCHANGED <<items, err, mainVars>>

Post(verb) ==
    /\ Key({"main", "info", "log"})
    /\ Subject # Manager
    /\ LET look == LookOf(Subject) IN
         CASE verb = "enable" -> look = "disabled"
           [] verb = "disable" -> look # "disabled"
           [] verb = "clear" -> look = "failed"
           [] OTHER -> TRUE
    /\ UNCHANGED <<queue, appVars, mainVars>>

-----------------------------------------------------------------------------
(* Events: the cursor of the main panel.                                   *)

LastLineLate(y) == IF y > height THEN height ELSE y  \* mutant: one line too many
LastLine(y) == IF y > height - 1 THEN height - 1 ELSE y

\* MainPanel.updateCursor, for the line y: m.items[m.cury] may not exist.
updateCursor(y) ==
    /\ cury' = IF height > 0 /\ selected = Manager THEN 0 ELSE Max({0, LastLine(y)})
    /\ IF height = 0 THEN selected' = Manager /\ phase' = "draw"
       ELSE IF cury' < Len(items)
            THEN selected' = items[cury' + 1].svc /\ phase' = "draw"
            ELSE phase' = "crashed" /\ UNCHANGED selected

\* The service that is drawn on a row, or on the one nearest to it.
OnRow(r) ==
    IF items = <<>> THEN Manager
    ELSE items[CASE r < 1 -> 1 [] r > Len(items) -> Len(items) [] OTHER -> r].svc

\* A key that leads the cursor to the line y.  The user means the row r of what is
\* drawn; the first one, if none is highlighted; and nothing certain, if there is an
\* error instead of a list.
Point(y, r) ==
    /\ Taken /\ panel = "main"
    /\ updateCursor(y)
    /\ chosen' = [chosen EXCEPT !["main"] =
                     IF err # "none" THEN selected'
                     ELSE IF Seen(selected) THEN OnRow(r) ELSE OnRow(1)]
    /\ UNCHANGED <<panel, queue, items, err, name, lines, height, loopVars>>

\* The arrows and pages of views.CellView: so many lines from the highlighted one.
MoveCursor ==
    \E d \in -Cardinality(Service) .. Cardinality(Service) :
        Point(cury + d, Max(Row(selected)) + d)

\* Home and End, which ask mainModel.GetBounds for the number of lines.
SetCursor == Point(0, 1) \/ Point(lines, Len(items))

unselect ==
    /\ Event /\ panel = "main"
    /\ cury' = 0 /\ selected' = Manager
    /\ chosen' = [chosen EXCEPT !["main"] = Manager]
    /\ UNCHANGED <<panel, queue, items, err, name, lines, height, loopVars>>

-----------------------------------------------------------------------------
(* Events: the password.                                                   *)

\* Enter on the password: SetUserPassword and ShowMain.
SetUserPassword ==
    /\ Event /\ Room /\ panel = "auth"
    /\ known' \in BOOLEAN
    /\ items' = <<>> /\ err' = "none"
    /\ queue' = Append(queue, "main")
    /\ UNCHANGED <<panel, name, chosen, mainVars, fetched, loop>>

\* govisord is started again with another password file.
loadPasswdFile ==
    /\ ~Ended
    /\ known' = ~known
    /\ UNCHANGED <<phase, panel, queue, appVars, mainVars, fetched, loop>>

Refreshing ==
    ~Ended /\ (Fetch \/ Wake \/ \E e \in {"none", "auth", "other"} : Watched(e))
Draw == DrawMain \/ DrawOther

Next ==
    \/ Refreshing \/ Draw \/ RunPosted
    \/ Redraw \/ Leave \/ ShowHelp \/ Show("info") \/ Show("log")
    \/ \E verb \in {"enable", "disable", "clear", "restart"} : Post(verb)
    \/ MoveCursor \/ SetCursor \/ unselect \/ SetUserPassword \/ loadPasswdFile

Spec == Init /\ [][Next]_vars

\* The goroutine that draws and the loop go on, and requests end; keys need not
\* come.  Whatever keys come, the queue of the events is one of first come, first
\* served.
FairSpec == Spec /\ WF_vars(Draw) /\ SF_vars(RunPosted) /\ WF_vars(Refreshing)

-----------------------------------------------------------------------------
(* Properties.                                                             *)

\* A key that does something to a service, or opens a panel for it, is for the one the
\* user has chosen or for none: the service that was highlighted, or so many lines
\* from it, when the cursor was last moved, whatever lists were sorted anew, came and
\* went since (mpanel.go:275: "preserve selected item"), and in the other panels the
\* one that the key was for which asked for the panel, whenever it is shown.
KeysAreForTheChosen ==
    phase = "event" /\ panel \in {"main", "info", "log"} =>
        Subject \in {chosen[panel], Manager}

\* The cursor is where the selection is drawn when the next key comes, so that
\* the arrows go on from the highlighted line.
CursorOnSelection ==
    phase = "event" /\ panel = "main" /\ selected # Manager =>
        Row(selected) = {cury + 1}

\* The lines, the height and the list that the main panel indexes agree whenever
\* the list could be got: the program ends with an index error only after one of
\* the server, which leaves lines and height as they were.
PanicsOnlyAfterError == phase = "crashed" => err # "none"

\* When the server refuses the password, or wants one, it is asked for, whatever was
\* asked for before and whatever keys come until then.  This is so if the list drawn
\* last was empty: any other leaves lines and a height behind, with which the panel
\* indexes the list that is no more, and the program ends instead of asking.
PasswordIsAskedFor ==
    panel = "main" /\ err = "auth" /\ height = 0
        ~> panel = "auth" \/ err # "auth" \/ phase = "ended"

\* With the right password the refusals come to an end: that of a request sent
\* with the old one may still be shown after SetUserPassword, but not for good.
RefusalIsForgotten == <>[]known => <>[](err # "auth" \/ Ended)
=============================================================================
