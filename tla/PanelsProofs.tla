---------------------------- MODULE PanelsProofs ----------------------------
(***************************************************************************)
(* Proofs about Panels, for any number of services and panels that were    *)
(* posted.                                                                 *)
(***************************************************************************)
EXTENDS Panels, FiniteSetTheorems, TLAPS

\* What is indexed: nothing is listed after an error.
Listed == Lists \cup {<<>>}

\* The lines and the height of the main panel are those of its list, when a key comes
\* and the list could be got.
Measured ==
    phase = "event" /\ panel = "main" /\ err = "none" =>
        lines = Len(items) /\ height = Len(items)

\* Nothing is selected, and no panel made, but for what the user has chosen.
Chosen ==
    /\ selected \in {chosen["main"], Manager}
    /\ \A p \in {"info", "log"} : name[p] \in {chosen[p], Manager}

\* The inductive invariant.  A list has no service twice, so that a name has one row.
PInv ==
    /\ TypeOK /\ items \in Listed
    /\ Measured /\ Chosen /\ CursorOnSelection /\ PanicsOnlyAfterError

-----------------------------------------------------------------------------
(* Lists and numbers.                                                      *)

\* The number of services is a number.
LEMMA ServiceCount == Cardinality(Service) \in Nat
  BY PanelsAssumption, FS_CardinalityType

\* A number, but not less than zero.
LEMMA MaxWithZero ==
    ASSUME NEW k \in Int
    PROVE  Max({0, k}) = IF k > 0 THEN k ELSE 0
  <1> DEFINE Largest(x) == x \in {0, k} /\ \A y \in {0, k} : x >= y
  <1>1. \E x : Largest(x)
    <2>1. CASE k > 0 BY <2>1
    <2>2. CASE ~(k > 0) BY <2>2
    <2> QED BY <2>1, <2>2
  <1>2. Largest(CHOOSE x : Largest(x)) BY <1>1
  <1>3. Max({0, k}) = CHOOSE x : Largest(x) BY DEF Max
  <1>4. Largest(Max({0, k})) BY <1>2, <1>3
  <1> HIDE DEF Largest
  <1>5. \A x : Largest(x) => x = IF k > 0 THEN k ELSE 0 BY DEF Largest
  <1> QED BY <1>4, <1>5

\* The largest of one number.
LEMMA MaxOfOne == ASSUME NEW k \in Int PROVE Max({k}) = k
  <1>1. k \in {k} /\ \A y \in {k} : k >= y OBVIOUS
  <1>2. Max({k}) \in {k} BY <1>1 DEF Max
  <1> QED BY <1>2

\* The lists are sequences of items, no longer than there are services.
LEMMA ListTypes ==
    ASSUME NEW l \in Listed
    PROVE  l \in Seq(Item) /\ Len(l) \in 0 .. Cardinality(Service) /\ Once(l)
  <1>1. CASE l \in Lists
    <2>1. PICK n \in 0 .. Cardinality(Service) : l \in [1 .. n -> Item]
      BY <1>1 DEF Lists, SeqOf
    <2>2. n \in Nat BY ServiceCount
    <2>3. l \in Seq(Item) /\ Len(l) = n BY <2>1, <2>2
    <2> QED BY <1>1, <2>1, <2>3 DEF Lists
  <1>2. CASE l = <<>>
    <2>1. 0 \in 0 .. Cardinality(Service) BY ServiceCount
    <2>2. DOMAIN l = {} /\ Len(l) = 0 /\ l \in Seq(Item) BY <1>2
    <2> QED BY <2>1, <2>2 DEF Once
  <1> QED BY <1>1, <1>2 DEF Listed

\* A service that is in a list has one row of it.
LEMMA OneRow ==
    ASSUME items \in Listed, NEW y \in Row(selected)
    PROVE  y \in 1 .. Len(items) /\ Row(selected) = {y} /\ Max(Row(selected)) = y
  <1>1. items \in Seq(Item) /\ Len(items) \in Nat /\ Once(items)
    BY ListTypes, ServiceCount
  <1>2. y \in 1 .. Len(items) BY <1>1 DEF Row
  <1>3. Row(selected) = {y} BY <1>1 DEF Row, Once
  <1> QED BY <1>2, <1>3, MaxOfOne

\* A line of the list is an item of a service.
LEMMA LineOfService ==
    ASSUME items \in Listed, NEW y \in Nat, y < Len(items)
    PROVE  items[y + 1].svc \in Service
  <1>1. items \in Seq(Item) /\ Len(items) \in Nat BY ListTypes, ServiceCount
  <1>2. items[y + 1] \in Item BY <1>1
  <1> QED BY <1>2 DEF Item

-----------------------------------------------------------------------------
(* Draws and keys of the main panel.                                       *)

\* The cursor leads to a line of the list, as long as the height is the one of it.
LEMMA CursorMoves ==
    ASSUME TypeOK, items \in Listed, NEW y \in Int, updateCursor(y)
    PROVE  /\ cury' \in 0 .. Cardinality(Service)
           /\ selected' \in Service \cup {Manager}
           /\ phase' \in {"draw", "crashed"}
           /\ height = Len(items) => phase' = "draw"
  <1> DEFINE k == LastLine(y)
             n == Cardinality(Service)
  <1>1. height \in 0 .. n /\ n \in Nat BY ServiceCount DEF TypeOK
  <1>2. k \in Int /\ k <= height - 1 BY <1>1 DEF LastLine
  <1>3. Max({0, k}) = IF k > 0 THEN k ELSE 0 BY <1>2, MaxWithZero
  <1>4. cury' \in Nat /\ cury' <= n /\ (height > 0 => cury' < height)
    <2>1. cury' = IF height > 0 /\ selected = Manager THEN 0 ELSE Max({0, k})
      BY DEF updateCursor
    <2> HIDE DEF k, n
    <2> QED BY <1>1, <1>2, <1>3, <2>1
  <1>5. cury' < Len(items) => items[cury' + 1].svc \in Service
    <2>1. PICK c \in Nat : c = cury' BY <1>4
    <2> QED BY <2>1, LineOfService
  <1>6. selected' \in Service \cup {Manager} BY <1>5 DEF updateCursor, TypeOK
  <1>7. height = Len(items) => phase' = "draw" BY <1>1, <1>4 DEF updateCursor
  <1>8. phase' \in {"draw", "crashed"} BY DEF updateCursor
  <1> QED BY <1>1, <1>4, <1>6, <1>7, <1>8

\* A row of the list, or the one nearest to it, is a service's.
LEMMA RowOfService ==
    ASSUME items \in Listed, NEW r \in Int
    PROVE  OnRow(r) \in Service \cup {Manager}
  <1>1. items \in Seq(Item) /\ Len(items) \in Nat BY ListTypes, ServiceCount
  <1>2. CASE items = <<>> BY <1>2 DEF OnRow
  <1>3. CASE items # <<>>
    <2>1. PICK k \in 1 .. Len(items) : OnRow(r) = items[k].svc
      <3>1. Len(items) >= 1 BY <1>1, <1>3
      <3> QED BY <1>1, <1>3, <3>1 DEF OnRow
    <2>2. items[k] \in Item BY <1>1
    <2> QED BY <2>1, <2>2 DEF Item
  <1> QED BY <1>2, <1>3

\* The row that the user means when a key leads the cursor to the line y: the one
\* below, as rows are counted from one, or the last, to which End goes.
Meant(y, r) ==
    Seen(selected) =>
        /\ r \in Int
        /\ err = "none" => r = y + 1 \/ (y = Len(items) /\ r = Len(items))

\* The highlighted row is the one of the cursor.
LEMMA Highlighted ==
    ASSUME PInv, Seen(selected)
    PROVE  /\ Max(Row(selected)) \in 1 .. Len(items)
           /\ phase = "event" /\ panel = "main" => Max(Row(selected)) = cury + 1
  <1>0. /\ TypeOK /\ items \in Listed /\ CursorOnSelection
        /\ items \in Seq(Item) /\ Len(items) \in Nat
    BY ListTypes, ServiceCount DEF PInv
  <1>1. PICK y \in Row(selected) : TRUE BY DEF Seen
  <1>2. y \in 1 .. Len(items) /\ Row(selected) = {y} /\ Max(Row(selected)) = y
    BY <1>0, OneRow
  <1>3. selected # Manager
    <2>1. items[y] \in Item /\ items[y].svc = selected BY <1>0, <1>2 DEF Row
    <2> QED BY <2>1, PanelsAssumption DEF Item
  <1> QED BY <1>0, <1>2, <1>3 DEF CursorOnSelection

\* The keys of the cursor lead from the highlighted line, or to the first or the last.
LEMMA CursorKeys ==
    ASSUME PInv, MoveCursor \/ SetCursor
    PROVE  \E y, r : y \in Int /\ Point(y, r) /\ Meant(y, r)
  <1>0. TypeOK /\ items \in Listed /\ Measured /\ Len(items) \in Nat
    BY ListTypes, ServiceCount DEF PInv
  <1>1. cury \in Int /\ lines \in Int BY <1>0, ServiceCount DEF TypeOK
  <1>2. ASSUME NEW d \in -Cardinality(Service) .. Cardinality(Service),
               Point(cury + d, Max(Row(selected)) + d)
        PROVE  \E y, r : y \in Int /\ Point(y, r) /\ Meant(y, r)
    <2>1. d \in Int BY ServiceCount
    <2>2. phase = "event" /\ panel = "main" BY <1>2 DEF Point, Taken
    <2>3. Seen(selected) => Max(Row(selected)) \in Int /\ Max(Row(selected)) = cury + 1
      <3>1. ASSUME Seen(selected)
            PROVE  Max(Row(selected)) \in Int /\ Max(Row(selected)) = cury + 1
        BY <1>0, <2>2, <3>1, Highlighted
      <3> QED BY <3>1
    <2>4. Meant(cury + d, Max(Row(selected)) + d) BY <1>1, <2>1, <2>3 DEF Meant
    <2>5. cury + d \in Int BY <1>1, <2>1
    <2> QED BY <1>2, <2>4, <2>5
  <1>3. CASE Point(0, 1) BY <1>3 DEF Meant
  <1>4. CASE Point(lines, Len(items))
    <2>1. phase = "event" /\ panel = "main" BY <1>4 DEF Point, Taken
    <2>2. Meant(lines, Len(items)) BY <1>0, <2>1 DEF Meant, Measured
    <2> QED BY <1>1, <1>4, <2>2
  <1> QED BY <1>2, <1>3, <1>4 DEF MoveCursor, SetCursor

\* The cursor leads to the row that the user means, while there is a list.
LEMMA CursorIsMeant ==
    ASSUME PInv, phase = "event", panel = "main", err = "none",
           NEW y \in Int, NEW r, Meant(y, r), updateCursor(y)
    PROVE  selected' = IF Seen(selected) THEN OnRow(r) ELSE OnRow(1)
  <1> DEFINE n == Len(items)
             k == LastLine(y)
  <1>0. /\ TypeOK /\ n \in Nat /\ height = n
        /\ selected = Manager <=> ~Seen(selected)
    <2>1. TypeOK /\ items \in Listed /\ Measured /\ CursorOnSelection BY DEF PInv
    <2>2. n \in Nat BY <2>1, ListTypes, ServiceCount
    <2>3. selected # Manager => Seen(selected)
      BY <2>1 DEF CursorOnSelection, Seen
    <2>4. Seen(selected) => selected # Manager
      <3>1. ASSUME NEW q \in Row(selected) PROVE selected # Manager
        <4>1. items \in Seq(Item) BY <2>1, ListTypes
        <4>2. items[q] \in Item /\ items[q].svc = selected BY <4>1 DEF Row
        <4> QED BY <4>2, PanelsAssumption DEF Item
      <3> QED BY <3>1 DEF Seen
    <2> QED BY <2>1, <2>2, <2>3, <2>4 DEF Measured
  <1>1. k = IF y > n - 1 THEN n - 1 ELSE y BY <1>0 DEF LastLine
  <1>2. Max({0, k}) = IF k > 0 THEN k ELSE 0
    <2>1. k \in Int BY <1>0, <1>1
    <2> QED BY <2>1, MaxWithZero
  <1>3. CASE n = 0
    <2>1. items = <<>> /\ selected' = Manager
      <3>1. items \in Seq(Item) BY ListTypes DEF PInv
      <3> QED BY <1>0, <1>3, <3>1 DEF updateCursor
    <2> QED BY <2>1 DEF OnRow
  <1>4. CASE n > 0 /\ ~Seen(selected)
    <2>1. cury' = 0 /\ selected' = items[cury' + 1].svc
      BY <1>0, <1>4 DEF updateCursor
    <2>2. OnRow(1) = items[1].svc BY <1>0, <1>4 DEF OnRow
    <2> QED BY <1>4, <2>1, <2>2
  <1>5. CASE n > 0 /\ Seen(selected)
    <2>1. cury' = IF k > 0 THEN k ELSE 0 BY <1>0, <1>2, <1>5 DEF updateCursor
    <2>2. r \in Int /\ (r = y + 1 \/ (y = n /\ r = n)) BY <1>5 DEF Meant
    <2> DEFINE c == IF k > 0 THEN k ELSE 0
               row == IF r < 1 THEN 1 ELSE IF r > n THEN n ELSE r
    <2>3. c + 1 = row /\ c < n BY <1>0, <1>1, <1>5, <2>2
    <2>4. OnRow(r) = items[row].svc
      <3>1. items # <<>> BY <1>5
      <3> QED BY <2>2, <3>1 DEF OnRow
    <2>5. selected' = items[c + 1].svc
      BY <1>0, <1>5, <2>1, <2>3 DEF updateCursor
    <2> QED BY <1>5, <2>3, <2>4, <2>5
  <1> QED BY <1>0, <1>3, <1>4, <1>5

\* A draw of the main panel puts the cursor on the selection and measures the list.
LEMMA DrawIsRight ==
    ASSUME PInv, DrawMain
    PROVE  /\ selected' \in Service \cup {Manager}
           /\ {cury', lines', height'} \subseteq 0 .. Cardinality(Service)
           /\ phase' \in {"event", "crashed"}
           /\ selected' # Manager => Row(selected)' = {cury' + 1}
           /\ err = "none" =>
                lines' = Len(items) /\ height' = Len(items) /\ phase' = "event"
           /\ selected' \in {selected, Manager}
  <1>0. /\ TypeOK /\ items \in Listed
        /\ items \in Seq(Item) /\ Len(items) \in 0 .. Cardinality(Service)
    BY ListTypes DEF PInv
  <1>a. Cardinality(Service) \in Nat BY ServiceCount
  <1>1. UNCHANGED <<items, err>> BY DEF DrawMain, appVars
  <1>2. lines' \in 0 .. Cardinality(Service) /\ height' \in 0 .. Cardinality(Service)
    BY <1>0, <1>a DEF DrawMain, TypeOK
  <1>3. phase' \in {"event", "crashed"} BY DEF DrawMain, GetCells
  <1>4. err = "none" =>
          lines' = Len(items) /\ height' = Len(items) /\ phase' = "event"
    BY <1>0, <1>a DEF DrawMain, GetCells
  <1>5. CASE Seen(selected)
    <2>1. PICK y \in Row(selected) : TRUE BY <1>5 DEF Seen
    <2>2. y \in 1 .. Len(items) /\ Row(selected) = {y} /\ Max(Row(selected)) = y
      BY <1>0, OneRow
    <2>3. selected' = selected /\ cury' = y - 1
      BY <1>5, <2>2 DEF DrawMain, KeepSelection
    <2>4. Row(selected)' = Row(selected) BY <1>1, <2>3 DEF Row
    <2>5. cury' \in 0 .. Cardinality(Service) BY <1>0, <1>a, <2>2, <2>3
    <2>6. cury' + 1 = y BY <1>0, <1>a, <2>2, <2>3
    <2>7. selected' \in Service \cup {Manager} BY <1>0, <2>3 DEF TypeOK
    <2> QED BY <1>2, <1>3, <1>4, <2>2, <2>3, <2>4, <2>5, <2>6, <2>7
  <1>6. CASE ~Seen(selected)
    <2>1. selected' = Manager /\ cury' = cury BY <1>6 DEF DrawMain, KeepSelection
    <2> QED BY <1>0, <1>2, <1>3, <1>4, <2>1 DEF TypeOK
  <1> QED BY <1>5, <1>6

-----------------------------------------------------------------------------
(* The invariant.                                                          *)

\* Nothing has been drawn.
LEMMA InitPInv == Init => PInv
  <1> SUFFICES ASSUME Init PROVE PInv
    OBVIOUS
  <1>1. items \in Listed BY DEF Listed, Init
  <1>2. TypeOK
    <2>1. 0 \in 0 .. Cardinality(Service) BY ServiceCount
    <2>2. queue \in Seq(Panel \cup {"items", "quit"}) BY DEF Init, Panel
    <2>3. items \in Seq(Item) BY DEF Init
    <2>4. /\ name \in [{"info", "log"} -> Service \cup {Manager}]
          /\ chosen \in [{"main", "info", "log"} -> Service \cup {Manager}]
      BY DEF Init
    <2>5. fetched \in [got : BOOLEAN, err : {"none", "auth", "other"}]
      BY DEF Init, NoFetch
    <2> QED BY <2>1, <2>2, <2>3, <2>4, <2>5 DEF Init, TypeOK, Panel
  <1>3. Measured /\ Chosen /\ CursorOnSelection /\ PanicsOnlyAfterError
    BY DEF Init, Measured, Chosen, CursorOnSelection, PanicsOnlyAfterError
  <1> QED BY <1>1, <1>2, <1>3 DEF PInv

\* What the loop of App.refresh does is not drawn yet.
LEMMA RefreshingTypeOK ==
    ASSUME TypeOK, Refreshing \/ loadPasswdFile
    PROVE  TypeOK' /\ UNCHANGED <<phase, panel, appVars, mainVars>>
  <1> DEFINE Posts == Panel \cup {"items", "quit"}
             Fetched == [got : BOOLEAN, err : {"none", "auth", "other"}]
  <1>1. UNCHANGED <<phase, panel, appVars, mainVars>>
    BY DEF Refreshing, Fetch, Wake, Watched, loadPasswdFile
  <1>2. queue \in Seq(Posts) /\ fetched \in Fetched BY DEF TypeOK
  <1>3. queue' \in Seq(Posts) /\ fetched' \in Fetched
        /\ loop' \in {"fetch", "watch", "wait"} /\ known' \in BOOLEAN
    <2>1. CASE Fetch
      <3>1. getItems \subseteq Fetched BY DEF getItems
      <3>2. queue' = Append(queue, "items") /\ fetched' \in getItems /\ loop' = "watch"
            /\ known' = known
        BY <2>1 DEF Fetch
      <3>3. queue' \in Seq(Posts) BY <1>2, <3>2
      <3> QED BY <3>1, <3>2, <3>3 DEF TypeOK
    <2>2. CASE Wake BY <2>2 DEF Wake, TypeOK
    <2>3. ASSUME NEW e \in {"none", "auth", "other"}, Watched(e)
          PROVE  queue' \in Seq(Posts) /\ fetched' \in Fetched
                 /\ loop' \in {"fetch", "watch", "wait"} /\ known' \in BOOLEAN
      <3>1. fetched' \in Fetched BY <1>2, <2>3 DEF Watched
      <3>2. loop' \in {"fetch", "wait"} /\ UNCHANGED <<queue, known>> BY <2>3 DEF Watched
      <3> QED BY <3>1, <3>2 DEF TypeOK
    <2>4. CASE loadPasswdFile BY <2>4 DEF loadPasswdFile, TypeOK
    <2> QED BY <2>1, <2>2, <2>3, <2>4 DEF Refreshing
  <1> QED BY <1>1, <1>3 DEF TypeOK, appVars, mainVars

\* Everything stays what it is, and only a closure brings a list.
LEMMA NextTypeOK == ASSUME PInv, [Next]_vars PROVE TypeOK' /\ items' \in Listed
  <1> DEFINE Posts == Panel \cup {"items", "quit"}
             Fetched == [got : BOOLEAN, err : {"none", "auth", "other"}]
  <1>0. TypeOK /\ items \in Listed BY DEF PInv
  <1>a. queue \in Seq(Posts) /\ fetched \in Fetched BY <1>0 DEF TypeOK
  <1>b. ASSUME NEW what \in Posts PROVE Append(queue, what) \in Seq(Posts)
    BY <1>a
  <1>1. CASE Refreshing \/ loadPasswdFile
    BY <1>0, <1>1, RefreshingTypeOK DEF appVars
  <1>2. CASE DrawMain
    <2>1. UNCHANGED <<panel, appVars, fetched, loop, known>>
      BY <1>2 DEF DrawMain, loopVars
    <2>2. queue' \in Seq(Posts) BY <1>a, <1>b, <1>2 DEF DrawMain, AskPassword, Panel
    <2>3. /\ selected' \in Service \cup {Manager}
          /\ {cury', lines', height'} \subseteq 0 .. Cardinality(Service)
          /\ phase' \in {"event", "crashed"}
      BY <1>2, DrawIsRight
    <2> QED BY <1>0, <2>1, <2>2, <2>3 DEF TypeOK, appVars
  <1>3. CASE DrawOther
    BY <1>0, <1>3 DEF DrawOther, TypeOK, appVars, mainVars, loopVars
  <1>4. CASE RunPosted
    <2> DEFINE what == Head(queue)
    <2>1. queue # <<>> /\ queue' = Tail(queue) BY <1>4 DEF RunPosted
    <2>2. queue' \in Seq(Posts) BY <1>a, <2>1
    <2>3. phase' \in {"draw", "ended"} /\ panel' \in Panel
      BY <1>0, <1>4 DEF RunPosted, TypeOK
    <2>4. items' \in Listed BY <1>0, <1>4 DEF Listed, RunPosted
    <2>5. items' \in Seq(Item)
      <3>1. PICK l : l = items' OBVIOUS
      <3> QED BY <2>4, <3>1, ListTypes
    <2>6. err' \in {"none", "auth", "other"} /\ fetched' \in Fetched
      <3>1. NoFetch \in Fetched BY DEF NoFetch
      <3>2. fetched.err \in {"none", "auth", "other"} BY <1>a
      <3> QED BY <1>0, <1>4, <3>1, <3>2 DEF RunPosted, TypeOK
    <2>7. UNCHANGED <<name, chosen, selected, cury, lines, height, loop, known>>
      BY <1>4 DEF RunPosted, mainVars
    <2> QED BY <1>0, <2>2, <2>3, <2>4, <2>5, <2>6, <2>7 DEF TypeOK
  <1>5. ASSUME NEW what \in Posts, queue' = Append(queue, what), phase' = "draw",
               UNCHANGED <<panel, appVars, mainVars, loopVars>>
        PROVE  TypeOK' /\ items' \in Listed
    BY <1>0, <1>b, <1>5 DEF TypeOK, appVars, mainVars, loopVars
  <1>6. CASE Leave
    BY <1>5, <1>6 DEF Leave, Key, Event, Panel
  <1>7. CASE ShowHelp
    BY <1>5, <1>7 DEF ShowHelp, Key, Event, Panel
  <1>8. ASSUME NEW p \in {"info", "log"}, Show(p) PROVE TypeOK' /\ items' \in Listed
    <2>1. Subject \in Service \cup {Manager}
      <3>1. CASE panel = "main" BY <1>0, <3>1 DEF Subject, TypeOK
      <3>2. CASE panel # "main"
        <4>1. panel \in {"info", "log"} BY <1>8, <3>2 DEF Show, Key
        <4>2. name[panel] \in Service \cup {Manager} BY <1>0, <4>1 DEF TypeOK
        <4> QED BY <3>2, <4>2 DEF Subject
      <3> QED BY <3>1, <3>2
    <2>2. /\ name' \in [{"info", "log"} -> Service \cup {Manager}]
          /\ chosen' \in [{"main", "info", "log"} -> Service \cup {Manager}]
      <3>1. panel \in {"main", "info", "log"} BY <1>8 DEF Show, Key
      <3> QED BY <1>0, <1>8, <2>1, <3>1 DEF Show, TypeOK
    <2>3. queue' \in Seq(Posts) BY <1>b, <1>8 DEF Show, Panel
    <2>4. phase' = "draw" /\ UNCHANGED <<panel, items, err, mainVars, loopVars>>
      BY <1>8 DEF Show, Key, Event
    <2> QED BY <1>0, <2>2, <2>3, <2>4 DEF TypeOK, mainVars, loopVars
  <1>9. ASSUME NEW verb, Post(verb) PROVE TypeOK' /\ items' \in Listed
    BY <1>0, <1>9 DEF Post, Key, Event, TypeOK, appVars, mainVars, loopVars
  <1>10. CASE MoveCursor \/ SetCursor
    <2>1. PICK y, r : y \in Int /\ Point(y, r) /\ Meant(y, r) BY <1>10, CursorKeys
    <2>2. updateCursor(y) /\ UNCHANGED <<panel, queue, items, err, name, lines, height, loopVars>>
      BY <2>1 DEF Point
    <2>3. /\ cury' \in 0 .. Cardinality(Service)
          /\ selected' \in Service \cup {Manager} /\ phase' \in {"draw", "crashed"}
      BY <1>0, <2>1, <2>2, CursorMoves
    <2>4. chosen' \in [{"main", "info", "log"} -> Service \cup {Manager}]
      <3>1. /\ OnRow(1) \in Service \cup {Manager}
            /\ Seen(selected) => OnRow(r) \in Service \cup {Manager}
        BY <1>0, <2>1, RowOfService DEF Meant
      <3> QED BY <1>0, <2>1, <2>3, <3>1 DEF Point, TypeOK
    <2> QED BY <1>0, <2>2, <2>3, <2>4 DEF TypeOK, loopVars
  <1>11. CASE unselect
    <2>1. 0 \in 0 .. Cardinality(Service) BY ServiceCount
    <2>2. /\ UNCHANGED <<panel, queue, items, err, name, lines, height, loopVars>>
          /\ phase' = "draw" /\ cury' = 0 /\ selected' = Manager
      BY <1>11 DEF unselect, Event
    <2>3. chosen' \in [{"main", "info", "log"} -> Service \cup {Manager}]
      BY <1>0, <1>11 DEF unselect, TypeOK
    <2> QED BY <1>0, <2>1, <2>2, <2>3 DEF TypeOK, loopVars
  <1>12. CASE SetUserPassword
    <2>1. queue' \in Seq(Posts) BY <1>b, <1>12 DEF SetUserPassword, Panel
    <2>2. items' \in Listed /\ items' \in Seq(Item) BY <1>12 DEF Listed, SetUserPassword
    <2> QED BY <1>0, <1>12, <2>1, <2>2 DEF SetUserPassword, Event, TypeOK, mainVars
  <1>13. CASE UNCHANGED vars
    BY <1>0, <1>13 DEF vars, TypeOK, appVars, mainVars, loopVars
  <1>14. CASE Redraw
    BY <1>0, <1>14 DEF Redraw, Event, TypeOK, appVars, mainVars, loopVars
  <1> QED BY <1>1, <1>2, <1>3, <1>4, <1>6, <1>7, <1>8, <1>9, <1>10, <1>11, <1>12, <1>13,
             <1>14
          DEF Next, Draw

\* The selection changes with the cursor, and otherwise is only given up; a panel is
\* made of what the keys are for.
LEMMA NextChosen == ASSUME PInv, [Next]_vars PROVE Chosen'
  <1>0. TypeOK /\ Chosen BY DEF PInv
  <1>1. CASE UNCHANGED <<selected, name, chosen>> BY <1>0, <1>1 DEF Chosen
  <1>2. CASE DrawMain
    <2>1. selected' \in {selected, Manager} BY <1>2, DrawIsRight
    <2>2. UNCHANGED <<name, chosen>> BY <1>2 DEF DrawMain, appVars
    <2> QED BY <1>0, <2>1, <2>2 DEF Chosen
  <1>3. ASSUME NEW p \in {"info", "log"}, Show(p) PROVE Chosen'
    <2>1. panel \in {"main", "info", "log"} /\ selected' = selected
      BY <1>3 DEF Show, Key, mainVars
    <2>2. Subject \in {chosen[panel], Manager} BY <1>0, <2>1 DEF Subject, Chosen
    <2>3. /\ name' = [name EXCEPT ![p] = Subject]
          /\ chosen' = [chosen EXCEPT ![p] = chosen[panel]]
      BY <1>3 DEF Show
    <2>4. name'[p] = Subject /\ chosen'[p] = chosen[panel] BY <1>0, <2>3 DEF TypeOK
    <2>5. \A q \in {"main", "info", "log"} : q # p => chosen'[q] = chosen[q]
      BY <1>0, <2>3 DEF TypeOK
    <2>6. \A q \in {"info", "log"} : q # p => name'[q] = name[q] BY <1>0, <2>3 DEF TypeOK
    <2> QED BY <1>0, <2>1, <2>2, <2>4, <2>5, <2>6 DEF Chosen
  <1>4. CASE MoveCursor \/ SetCursor
    <2>1. PICK y, r : y \in Int /\ Point(y, r) /\ Meant(y, r) BY <1>4, CursorKeys
    <2>2. /\ phase = "event" /\ panel = "main" /\ updateCursor(y) /\ name' = name
          /\ chosen' = [chosen EXCEPT !["main"] =
                           IF err # "none" THEN selected'
                           ELSE IF Seen(selected) THEN OnRow(r) ELSE OnRow(1)]
      BY <2>1 DEF Point, Taken
    <2>3. err = "none" => selected' = IF Seen(selected) THEN OnRow(r) ELSE OnRow(1)
      BY <2>1, <2>2, CursorIsMeant
    <2>4. chosen' = [chosen EXCEPT !["main"] = selected'] BY <2>2, <2>3
    <2> QED BY <1>0, <2>2, <2>4 DEF TypeOK, Chosen
  <1>5. CASE unselect
    BY <1>0, <1>5 DEF unselect, TypeOK, Chosen
  <1>6. CASE Refreshing \/ loadPasswdFile
    BY <1>0, <1>1, <1>6, RefreshingTypeOK DEF appVars, mainVars
  <1>7. CASE RunPosted \/ SetUserPassword
    BY <1>1, <1>7 DEF RunPosted, SetUserPassword, mainVars
  <1>8. CASE DrawOther \/ Redraw \/ Leave \/ ShowHelp
    BY <1>1, <1>8 DEF DrawOther, Redraw, Leave, ShowHelp, appVars, mainVars
  <1>9. ASSUME NEW verb, Post(verb) PROVE Chosen'
    BY <1>1, <1>9 DEF Post, appVars, mainVars
  <1>10. CASE UNCHANGED vars BY <1>1, <1>10 DEF vars, appVars, mainVars
  <1> QED BY <1>2, <1>3, <1>4, <1>5, <1>6, <1>7, <1>8, <1>9, <1>10 DEF Next, Draw

\* The invariant of all that follows.
THEOREM PInvHolds == Spec => []PInv
  <1>1. PInv /\ [Next]_vars => PInv'
    <2> SUFFICES ASSUME PInv, [Next]_vars PROVE PInv'
      OBVIOUS
    <2>0. /\ TypeOK /\ items \in Listed
          /\ Measured /\ CursorOnSelection /\ PanicsOnlyAfterError
      BY DEF PInv
    <2>1. TypeOK' /\ items' \in Listed /\ Chosen' BY NextTypeOK, NextChosen
    <2> USE DEF Measured, CursorOnSelection, PanicsOnlyAfterError
    <2>2. CASE UNCHANGED <<phase, panel, appVars, mainVars>>
      <3>1. UNCHANGED <<phase, panel, items, err, selected, cury, lines, height>>
        BY <2>2 DEF appVars, mainVars
      <3> QED BY <2>0, <2>1, <3>1 DEF PInv, Row
    <2>3. CASE phase' \in {"draw", "ended"} BY <2>1, <2>3 DEF PInv
    <2>4. CASE DrawMain
      <3>1. /\ phase' \in {"event", "crashed"}
            /\ selected' # Manager => Row(selected)' = {cury' + 1}
            /\ err = "none" =>
                 lines' = Len(items) /\ height' = Len(items) /\ phase' = "event"
            /\ UNCHANGED <<items, err>>
        BY <2>4, DrawIsRight DEF DrawMain, appVars
      <3> QED BY <2>1, <3>1 DEF PInv
    <2>5. CASE DrawOther
      <3>1. phase' = "event" /\ panel' # "main" BY <2>5 DEF DrawOther
      <3> QED BY <2>1, <3>1 DEF PInv
    <2>6. CASE MoveCursor \/ SetCursor
      <3>1. PICK y, r : y \in Int /\ Point(y, r) BY <2>6, CursorKeys
      <3>2. updateCursor(y) /\ phase = "event" /\ panel = "main" /\ err' = err
        BY <3>1 DEF Point, Taken
      <3>3. phase' \in {"draw", "crashed"} /\ (height = Len(items) => phase' = "draw")
        BY <2>0, <3>1, <3>2, CursorMoves
      <3> QED BY <2>0, <2>1, <3>2, <3>3 DEF PInv
    <2>7. CASE Refreshing \/ loadPasswdFile BY <2>0, <2>2, <2>7, RefreshingTypeOK
    <2>8. CASE RunPosted BY <2>3, <2>8 DEF RunPosted
    <2>9. CASE Redraw \/ Leave \/ ShowHelp \/ Show("info") \/ Show("log") \/ unselect
               \/ SetUserPassword
      BY <2>3, <2>9 DEF Redraw, Leave, ShowHelp, Show, Key, Event, unselect, SetUserPassword
    <2>10. ASSUME NEW verb, Post(verb) PROVE PInv'
      BY <2>3, <2>10 DEF Post, Key, Event
    <2>11. CASE UNCHANGED vars BY <2>2, <2>11 DEF vars
    <2> QED BY <2>4, <2>5, <2>6, <2>7, <2>8, <2>9, <2>10, <2>11 DEF Next, Draw
  <1> QED BY <1>1, InitPInv, PTL DEF Spec

-----------------------------------------------------------------------------
(* The properties.                                                         *)

\* What is drawn as selected is where the cursor is (mpanel.go:275-286), wherever the
\* list that came with a closure has put it: the arrows go on from there.
THEOREM CursorIsOnSelection == Spec => []CursorOnSelection
  <1>1. PInv => CursorOnSelection BY DEF PInv
  <1> QED BY <1>1, PInvHolds, PTL

\* The main panel indexes its list in mainModel.GetCell and in updateCursor, with
\* lines and a height of its last update: they are in range unless an error made
\* update return early.
THEOREM PanicsNeedAnError == Spec => []PanicsOnlyAfterError
  <1>1. PInv => PanicsOnlyAfterError BY DEF PInv
  <1> QED BY <1>1, PInvHolds, PTL

\* The lists that come in whatever order, errors, new passwords and panels that are
\* shown late never lead the keys of a panel to a service that the user has not chosen
\* for it (mpanel.go:207-221, 275-286): the selection goes by the name, the cursor by
\* the selection, and the panels keep the name that they were asked for.
THEOREM KeysAreMeant == Spec => []KeysAreForTheChosen
  <1>1. PInv => KeysAreForTheChosen
    BY DEF PInv, Chosen, KeysAreForTheChosen, Subject
  <1> QED BY <1>1, PInvHolds, PTL
=============================================================================
