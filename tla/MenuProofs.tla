----------------------------- MODULE MenuProofs -----------------------------
(***************************************************************************)
(* Proofs about the three sides of run_menu, for every size of the window, *)
(* the ring and the array of fallback entries: the cursor stays on an      *)
(* entry (MenuCursor), the ring of configuration files is their history    *)
(* (ConfigHistory), and what boots unattended is what was asked for        *)
(* (BootMenu).                                                             *)
(***************************************************************************)
EXTENDS MenuCursor, ConfigHistory, BootMenu,
        SequenceTheorems, WellFoundedInduction, TLAPS

-----------------------------------------------------------------------------
(* The cursor *)

(* What the cursor keeps to on any terminal, and what a window adds. *)
Sound(d, f, e, n) == /\ 0 <= f /\ f < n /\ 0 <= e
                     /\ ~d => InRange(f, e, n)

CursorSound == ~astray => Sound(dumb, first_entry, entryno, num_entries)
OuterSound  == editing => Sound(dumb, outer.first, outer.entry, outer.num)

(* A search that is under way looks at entries that there are. *)
SearchSound ==
  search.on /\ ~astray =>
    /\ 0 <= search.i /\ 0 <= search.current
    /\ ~dumb => search.i < num_entries /\ search.current < num_entries

CInv == /\ TypeOK /\ CursorSound /\ OuterSound /\ SearchSound /\ LinesCounted
        /\ astray => editing

SearchType == [on: BOOLEAN, i: Int, current: Int, delta: {1, -1}]

-----------------------------------------------------------------------------
(* set_bar_to puts the cursor of a window on the entry it is asked to.     *)
LEMMA SetBar ==
  ASSUME NEW i \in Int, num_entries \in Nat, set_bar_to(i)
  PROVE  /\ first_entry' \in Int /\ entryno' \in Int
         /\ 0 <= i /\ 0 < num_entries /\ (~dumb => i < num_entries) =>
              Sound(dumb, first_entry', entryno', num_entries)
BY WindowAssumption DEF set_bar_to, MoveTo, Sound, InRange

(* At restart the window follows a cursor below it.                        *)
LEMMA RestartSound ==
  ASSUME NEW d \in BOOLEAN, NEW f \in Int, NEW e \in Int, NEW n \in Nat,
         Restart(d, f, e)
  PROVE  /\ first_entry' \in Int /\ entryno' \in Int
         /\ 0 <= f /\ f < n /\ 0 <= e /\ (~d => f + e < n) =>
              Sound(d, first_entry', entryno', n)
BY WindowAssumption DEF Restart, MoveTo, Sound, InRange

LEMMA InitInv == Init => CInv
<1> SUFFICES ASSUME Init PROVE CInv
  OBVIOUS
<1>1. /\ num_entries \in Nat /\ 0 < num_entries /\ lines = num_entries
      /\ first_entry = 0 /\ entryno = 0
      /\ dumb = FALSE /\ editing = FALSE /\ astray = FALSE
  <2>1. num_entries \in Nat \ {0}
    BY SizesAssumption DEF Init
  <2> QED
    BY <2>1 DEF Init
<1>2. outer \in [num: Nat, first: Int, entry: Int]
  BY DEF Init, NoOuter
<1>3. search \in SearchType /\ ~search.on
  <2>1. search = NoSearch
    BY DEF Init
  <2>2. NoSearch \in SearchType /\ ~NoSearch.on
    BY DEF NoSearch, SearchType
  <2> QED
    BY <2>1, <2>2
<1>4. TypeOK
  <2>1. dumb \in BOOLEAN /\ editing \in BOOLEAN /\ astray \in BOOLEAN
    BY <1>1
  <2>2. lines \in Nat /\ first_entry \in Int /\ entryno \in Int
    BY <1>1
  <2> QED
    BY <1>1, <1>2, <1>3, <2>1, <2>2 DEF TypeOK, SearchType
<1>5. CursorSound
  BY <1>1, WindowAssumption DEF CursorSound, Sound, InRange
<1> QED
  BY <1>1, <1>3, <1>4, <1>5
     DEF CInv, OuterSound, SearchSound, LinesCounted

(* A key that moves the cursor and nothing else: it must leave it in range.*)
LEMMA CursorOnly ==
  ASSUME CInv, OnlyCursor, search' = search,
         ~search.on,
         first_entry' \in Int, entryno' \in Int,
         ~astray => Sound(dumb, first_entry', entryno', num_entries)
  PROVE  CInv'
BY DEF CInv, OnlyCursor, TypeOK, CursorSound, OuterSound, SearchSound, LinesCounted

(* A menu whose fallback entry was run goes on at that entry.              *)
LEMMA FellBackStep ==
  ASSUME CInv, OnlyCursor, search' = search, ~search.on, FellBack
  PROVE  CInv'
<1>1. num_entries \in Nat /\ dumb \in BOOLEAN
  BY DEF CInv, TypeOK
<1>2. PICK i \in 0 .. num_entries - 1 : Restart(dumb, 0, i)
  BY DEF FellBack
<1>3. i \in Int /\ 0 <= i /\ 0 + i < num_entries /\ 0 < num_entries
  BY <1>1
<1>4. /\ first_entry' \in Int /\ entryno' \in Int
      /\ Sound(dumb, first_entry', entryno', num_entries)
  BY <1>1, <1>2, <1>3, RestartSound
<1> QED
  BY <1>4, CursorOnly

LEMMA MoveStep == ASSUME CInv, Move PROVE CInv'
<1>t. /\ num_entries \in Nat /\ first_entry \in Int /\ entryno \in Int
      /\ ~astray => Sound(dumb, first_entry, entryno, num_entries)
  BY DEF CInv, TypeOK, CursorSound
<1>1. CASE Up
  <2>1. /\ first_entry' \in Int /\ entryno' \in Int
        /\ ~astray => Sound(dumb, first_entry', entryno', num_entries)
    BY <1>1, <1>t, WindowAssumption DEF Up, MoveTo, Sound, InRange
  <2> QED
    BY <1>1, <2>1, CursorOnly DEF Up, Ready
<1>2. CASE Down
  <2>1. /\ first_entry' \in Int /\ entryno' \in Int
        /\ ~astray => Sound(dumb, first_entry', entryno', num_entries)
    BY <1>2, <1>t, WindowAssumption DEF Down, MoveTo, Sound, InRange, Selected
  <2> QED
    BY <1>2, <2>1, CursorOnly DEF Down, Ready
<1>3. CASE PageUp
  <2>1. /\ first_entry' \in Int /\ entryno' \in Int
        /\ ~astray => Sound(dumb, first_entry', entryno', num_entries)
    BY <1>3, <1>t, WindowAssumption DEF PageUp, MoveTo, Sound, InRange, Selected
  <2> QED
    BY <1>3, <2>1, CursorOnly DEF PageUp, Ready
<1>4. CASE PageDown
  <2>1. /\ first_entry' \in Int /\ entryno' \in Int
        /\ ~astray => Sound(dumb, first_entry', entryno', num_entries)
    BY <1>4, <1>t, WindowAssumption DEF PageDown, MoveTo, Sound, InRange, Selected
  <2> QED
    BY <1>4, <2>1, CursorOnly DEF PageDown, Ready
<1>5. CASE Shortcut
  <2>1. CASE \E i \in 0 .. num_entries - 1 : set_bar_to(i)
    <3>1. PICK i \in 0 .. num_entries - 1 : set_bar_to(i)
      BY <2>1
    <3>2. i \in Int /\ 0 <= i /\ i < num_entries /\ 0 < num_entries
      BY <1>t
    <3>3. /\ first_entry' \in Int /\ entryno' \in Int
          /\ Sound(dumb, first_entry', entryno', num_entries)
      BY <3>1, <3>2, <1>t, SetBar
    <3> QED
      BY <1>5, <3>3, CursorOnly DEF Shortcut, Ready
  <2>2. CASE FellBack
    BY <1>5, <2>2, FellBackStep DEF Shortcut, Ready
  <2> QED
    BY <1>5, <2>1, <2>2 DEF Shortcut
<1> QED
  BY <1>1, <1>2, <1>3, <1>4, <1>5 DEF Move

(* Going once around stays among the entries.                              *)
LEMMA AroundSound ==
  ASSUME num_entries \in Nat, NEW i \in Int, NEW delta \in {1, -1}
  PROVE  /\ Around(i, delta) \in Int /\ Advanced(i, delta) \in Int
         /\ 0 <= i /\ 0 < num_entries =>
              0 <= Around(i, delta) /\ 0 <= Advanced(i, delta)
         /\ 0 <= i /\ i < num_entries =>
              Around(i, delta) < num_entries /\ Advanced(i, delta) < num_entries
<1>1. CASE delta = 1
  BY <1>1 DEF Around, Advanced
<1>2. CASE delta = -1
  BY <1>2 DEF Around, Advanced
<1> QED
  BY <1>1, <1>2

LEMMA SearchBegins == ASSUME CInv, search_menu PROVE CInv'
<1>t. /\ num_entries \in Nat /\ Selected \in Int
      /\ ~astray => 0 < num_entries /\ 0 <= Selected
      /\ ~dumb /\ ~astray => Selected < num_entries
  BY DEF CInv, TypeOK, CursorSound, Sound, InRange, Selected
<1>1. PICK delta \in {1, -1}, advance \in BOOLEAN :
        search' = [on |-> TRUE,
                   i |-> IF advance THEN Advanced(Selected, delta) ELSE Selected,
                   current |-> IF advance THEN Advanced(Selected, delta)
                                          ELSE Selected,
                   delta |-> delta]
  BY DEF search_menu
<1> DEFINE where == IF advance THEN Advanced(Selected, delta) ELSE Selected
<1>2. /\ where \in Int
      /\ ~astray => 0 <= where /\ (~dumb => where < num_entries)
  BY <1>t, AroundSound
<1>3. search' = [on |-> TRUE, i |-> where, current |-> where, delta |-> delta]
  BY <1>1
<1> HIDE DEF where
<1>4. search' \in SearchType /\ search'.i = where /\ search'.current = where
  BY <1>2, <1>3 DEF SearchType
<1>5. UNCHANGED <<dumb, editing, num_entries, lines, outer, astray,
                  first_entry, entryno>>
  BY DEF search_menu, OnlyCursor, cursor
<1>6. TypeOK'
  BY <1>4, <1>5 DEF CInv, TypeOK, SearchType
<1>7. SearchSound'
  BY <1>2, <1>4, <1>5 DEF SearchSound
<1> QED
  BY <1>5, <1>6, <1>7 DEF CInv, CursorSound, OuterSound, LinesCounted

LEMMA SearchGoesOn == ASSUME CInv, SearchStep PROVE CInv'
<1>t. /\ num_entries \in Nat /\ search.on /\ search.i \in Int
      /\ search \in SearchType /\ search.delta \in {1, -1}
      /\ ~astray => /\ 0 < num_entries
                    /\ 0 <= search.i /\ 0 <= search.current
                    /\ ~dumb => /\ search.i < num_entries
                                /\ search.current < num_entries
  BY DEF CInv, TypeOK, SearchStep, SearchSound, SearchType, CursorSound, Sound
<1>f. UNCHANGED <<dumb, editing, num_entries, lines, outer, astray>>
  BY DEF SearchStep, OnlyCursor
<1>0. NoSearch \in SearchType /\ ~NoSearch.on
  BY DEF NoSearch, SearchType
<1>1. CASE set_bar_to(search.i) /\ search' = NoSearch
  <2>1. /\ first_entry' \in Int /\ entryno' \in Int
        /\ ~astray => Sound(dumb, first_entry', entryno', num_entries)
    BY <1>1, <1>t, SetBar
  <2>2. TypeOK'
    BY <1>0, <1>1, <1>f, <2>1 DEF CInv, TypeOK, SearchType
  <2>3. CursorSound' /\ OuterSound' /\ LinesCounted' /\ (astray => editing)'
    BY <1>f, <2>1 DEF CInv, CursorSound, OuterSound, LinesCounted
  <2>4. SearchSound'
    BY <1>0, <1>1 DEF SearchSound
  <2> QED
    BY <2>2, <2>3, <2>4 DEF CInv
<1>2. CASE /\ UNCHANGED cursor
           /\ search' = IF Around(search.i, search.delta) = search.current
                        THEN NoSearch
                        ELSE [search EXCEPT !.i = Around(search.i, search.delta)]
  <2> DEFINE n == Around(search.i, search.delta)
  <2>1. /\ n \in Int
        /\ ~astray => 0 <= n /\ (~dumb => n < num_entries)
    BY <1>t, AroundSound
  <2>2. search' = NoSearch \/ search' = [search EXCEPT !.i = n]
    BY <1>2
  <2> HIDE DEF n
  <2>3. search' \in SearchType
    BY <1>0, <1>t, <2>1, <2>2 DEF SearchType
  <2>4. SearchSound'
    <3>1. CASE search' = NoSearch
      BY <1>0, <3>1 DEF SearchSound
    <3>2. CASE search' = [search EXCEPT !.i = n]
      <4>1. search'.i = n /\ search'.current = search.current
        BY <1>t, <3>2 DEF SearchType
      <4> QED
        BY <1>t, <1>f, <2>1, <4>1 DEF SearchSound
    <3> QED
      BY <2>2, <3>1, <3>2
  <2>5. TypeOK' /\ CursorSound' /\ OuterSound' /\ LinesCounted' /\ (astray => editing)'
    BY <1>2, <1>f, <2>3
       DEF CInv, TypeOK, SearchType, CursorSound, OuterSound, LinesCounted, cursor
  <2> QED
    BY <2>4, <2>5 DEF CInv
<1> QED
  BY <1>1, <1>2 DEF SearchStep

LEMMA BootStep == ASSUME CInv, boot_entry PROVE CInv'
<1>t. /\ num_entries \in Nat /\ first_entry \in Int /\ entryno \in Int
      /\ ~search.on /\ search' = search /\ dumb \in BOOLEAN
      /\ UNCHANGED <<dumb, editing, num_entries, lines, outer>>
      /\ ~astray => Sound(dumb, first_entry, entryno, num_entries)
  BY DEF CInv, TypeOK, CursorSound, boot_entry, Ready
<1>1. CASE UNCHANGED <<cursor, astray>>
  BY <1>1, <1>t, CursorOnly DEF cursor, OnlyCursor
<1>2. CASE FellBack /\ UNCHANGED astray
  BY <1>2, <1>t, FellBackStep DEF OnlyCursor
<1>3. CASE /\ editing
           /\ \E i \in 0 .. outer.num - 1 : Restart(dumb, 0, i)
           /\ astray' = TRUE
  <2>1. outer.num \in Nat
    BY DEF CInv, TypeOK
  <2>2. PICK i \in 0 .. outer.num - 1 : Restart(dumb, 0, i)
    BY <1>3
  <2>3. first_entry' \in Int /\ entryno' \in Int
    BY <1>t, <2>1, <2>2, RestartSound
  <2>4. TypeOK'
    BY <1>t, <1>3, <2>3 DEF CInv, TypeOK
  <2> QED
    BY <1>t, <1>3, <2>4
       DEF CInv, CursorSound, OuterSound, SearchSound, LinesCounted
<1> QED
  BY <1>1, <1>2, <1>3 DEF boot_entry

LEMMA EditEntryStep ==
  ASSUME CInv, NEW n \in 1 .. MaxLines, EditEntry(n)
  PROVE  CInv'
<1>1. n \in Nat /\ 0 < n
  BY SizesAssumption
<1>2. /\ editing' = TRUE /\ num_entries' = n /\ lines' = n
      /\ first_entry' = 0 /\ entryno' = 0
      /\ outer' = [num |-> num_entries, first |-> first_entry, entry |-> entryno]
      /\ dumb' = dumb /\ search' = search /\ astray' = astray
      /\ ~search.on /\ ~astray
  BY DEF CInv, EditEntry, MoveTo, Ready
<1>3. TypeOK'
  BY <1>1, <1>2 DEF CInv, TypeOK
<1>4. CursorSound' /\ OuterSound'
  BY <1>1, <1>2, WindowAssumption DEF CInv, CursorSound, OuterSound, Sound, InRange
<1> QED
  BY <1>1, <1>2, <1>3, <1>4 DEF CInv, SearchSound, LinesCounted

LEMMA EditReturnStep == ASSUME CInv, EditReturn PROVE CInv'
<1>1. /\ editing' = FALSE /\ num_entries' = outer.num /\ lines' = outer.num
      /\ Restart(dumb, outer.first, outer.entry) /\ outer' = NoOuter
      /\ dumb' = dumb /\ search' = search /\ astray' = FALSE
      /\ ~search.on /\ editing
  BY DEF EditReturn, Ready
<1>t. outer.num \in Nat /\ outer.first \in Int /\ outer.entry \in Int
      /\ dumb \in BOOLEAN /\ search \in SearchType
      /\ Sound(dumb, outer.first, outer.entry, outer.num)
  BY <1>1 DEF CInv, TypeOK, OuterSound, SearchType
<1>2. /\ first_entry' \in Int /\ entryno' \in Int
      /\ Sound(dumb, first_entry', entryno', outer.num)
  BY <1>t, <1>1, RestartSound DEF Sound, InRange
<1>o. outer' \in [num: Nat, first: Int, entry: Int]
  BY <1>1 DEF NoOuter
<1>3. TypeOK'
  BY <1>t, <1>o, <1>1, <1>2 DEF TypeOK, SearchType
<1> QED
  BY <1>t, <1>1, <1>2, <1>3
     DEF CInv, CursorSound, OuterSound, SearchSound, LinesCounted

LEMMA InsertStep == ASSUME CInv, InsertBefore \/ InsertAfter PROVE CInv'
<1>t. /\ num_entries \in Nat /\ lines \in Nat
      /\ first_entry \in Int /\ entryno \in Int
      /\ ~astray => Sound(dumb, first_entry, entryno, num_entries)
      /\ ~dumb /\ ~astray => num_entries = lines
  BY DEF CInv, TypeOK, CursorSound, LinesCounted
<1>1. PICK p \in Int :
        /\ p \in {Selected, Selected + 1}
        /\ num_entries' = num_entries + 1
        /\ lines' \in IF p <= lines THEN {lines + 1} ELSE 0 .. MaxLines
        /\ ~search.on
        /\ UNCHANGED <<dumb, editing, outer, search, astray>>
  <2>1. Selected \in Int /\ Selected + 1 \in Int
    BY <1>t DEF Selected
  <2> QED
    BY <2>1 DEF InsertBefore, InsertAfter, Ready, Insert
<1>2. /\ first_entry' \in Int /\ entryno' \in Int
      /\ ~astray => Sound(dumb, first_entry', entryno', num_entries')
  <2>1. CASE InsertBefore
    BY <1>t, <1>1, <2>1 DEF InsertBefore, cursor, Sound, InRange
  <2>2. CASE InsertAfter
    BY <1>t, <1>1, <2>2, WindowAssumption DEF InsertAfter, MoveTo, Sound, InRange
  <2> QED
    BY <2>1, <2>2
<1>3. lines' \in Nat
  BY <1>t, <1>1, SizesAssumption
<1>4. TypeOK'
  BY <1>t, <1>1, <1>2, <1>3 DEF CInv, TypeOK
<1>5. LinesCounted'
  <2> SUFFICES ASSUME ~dumb, ~astray PROVE num_entries' = lines'
    BY <1>1 DEF LinesCounted
  <2>1. p <= lines
    BY <1>t, <1>1 DEF Sound, InRange, Selected
  <2> QED
    BY <1>t, <1>1, <2>1
<1> QED
  BY <1>1, <1>2, <1>4, <1>5 DEF CInv, CursorSound, OuterSound, SearchSound

LEMMA RemoveStep == ASSUME CInv, Remove PROVE CInv'
<1>t. /\ num_entries \in Nat /\ lines \in Nat
      /\ ~dumb /\ ~astray => num_entries = lines
      /\ first_entry \in Int /\ entryno \in Int
      /\ astray \in BOOLEAN
      /\ ~astray => Sound(dumb, first_entry, entryno, num_entries)
  BY DEF CInv, TypeOK, CursorSound, LinesCounted
<1>1. /\ ~search.on /\ editing /\ editing' = editing /\ num_entries > 0
      /\ num_entries' = num_entries - 1
      /\ lines' \in IF Selected < 0 THEN {lines}
                    ELSE IF Selected < lines THEN {lines - 1} ELSE 0 .. MaxLines
      /\ first_entry' = IF first_entry > 0 /\ num_entries' < Page + first_entry
                        THEN first_entry - 1 ELSE first_entry
      /\ entryno' = IF entryno >= num_entries' THEN entryno - 1 ELSE entryno
      /\ astray' = (astray \/ num_entries' = 0)
      /\ dumb' = dumb /\ outer' = outer /\ search' = search
  BY DEF Remove, MoveTo, Ready
<1>s. Selected \in Int
  BY <1>t DEF Selected
<1>2. /\ num_entries' \in Nat /\ lines' \in Nat
      /\ first_entry' \in Int /\ entryno' \in Int
  BY <1>t, <1>s, <1>1, SizesAssumption
<1>3. ~dumb /\ ~astray => Selected >= 0 /\ Selected < lines
  BY <1>t DEF Sound, InRange, Selected
<1>4. ~dumb' /\ ~astray' => num_entries' = lines'
  BY <1>t, <1>s, <1>1, <1>3
<1>5. ~astray' => Sound(dumb, first_entry', entryno', num_entries')
  <2> SUFFICES ASSUME ~astray'
               PROVE  Sound(dumb, first_entry', entryno', num_entries')
    OBVIOUS
  <2>1. ~astray /\ num_entries' # 0
    BY <1>1
  <2>2. /\ 0 <= first_entry /\ first_entry < num_entries /\ 0 <= entryno
        /\ ~dumb => entryno < Page /\ first_entry + entryno < num_entries
    BY <1>t, <2>1 DEF Sound, InRange
  <2>3. 0 <= first_entry' /\ first_entry' < num_entries' /\ 0 <= entryno'
    BY <1>t, <1>1, <1>2, <2>1, <2>2, WindowAssumption
  <2>4. ~dumb => entryno' < Page /\ first_entry' + entryno' < num_entries'
    BY <1>t, <1>1, <1>2, <2>1, <2>2, WindowAssumption
  <2> QED
    BY <2>3, <2>4 DEF Sound, InRange
<1>6. TypeOK'
  <2>1. astray' \in BOOLEAN
    BY <1>1
  <2> QED
    BY <1>1, <1>2, <2>1 DEF CInv, TypeOK
<1> QED
  BY <1>1, <1>2, <1>4, <1>5, <1>6
     DEF CInv, CursorSound, OuterSound, SearchSound, LinesCounted

LEMMA RunMenuStep == ASSUME CInv, run_menu PROVE CInv'
<1>1. /\ ~search.on /\ dumb' \in BOOLEAN
      /\ num_entries' \in Nat \ {0} /\ lines' = num_entries'
      /\ editing' = FALSE /\ outer' = NoOuter /\ astray' = FALSE
      /\ UNCHANGED search
  BY SizesAssumption DEF run_menu, Ready
<1>2. PICK i \in 0 .. num_entries' - 1 : Restart(dumb', 0, i)
  BY DEF run_menu
<1>3. i \in Int /\ 0 <= i /\ 0 + i < num_entries' /\ 0 < num_entries'
  <2> DEFINE n == num_entries'
  <2>1. n \in Nat \ {0} /\ i \in 0 .. n - 1
    BY <1>1
  <2> HIDE DEF n
  <2>2. i \in Int /\ 0 <= i /\ 0 + i < n /\ 0 < n
    BY <2>1
  <2> QED
    BY <2>2 DEF n
<1>4. /\ first_entry' \in Int /\ entryno' \in Int
      /\ Sound(dumb', first_entry', entryno', num_entries')
  BY <1>1, <1>2, <1>3, RestartSound
<1>o. outer' \in [num: Nat, first: Int, entry: Int]
  BY <1>1 DEF NoOuter
<1>5. TypeOK'
  BY <1>1, <1>4, <1>o DEF CInv, TypeOK
<1> QED
  BY <1>1, <1>4, <1>5
     DEF CInv, CursorSound, OuterSound, SearchSound, LinesCounted

-----------------------------------------------------------------------------
(* The invariant is inductive: no key breaks it.                           *)
THEOREM InductiveInvariant == CInv /\ [Next]_vars => CInv'
<1> SUFFICES ASSUME CInv, [Next]_vars PROVE CInv'
  OBVIOUS
<1>1. CASE Move
  BY <1>1, MoveStep
<1>2. CASE search_menu
  BY <1>2, SearchBegins
<1>3. CASE SearchStep
  BY <1>3, SearchGoesOn
<1>4. CASE boot_entry
  BY <1>4, BootStep
<1>5. CASE Edit
  BY <1>5, EditEntryStep, EditReturnStep, InsertStep, RemoveStep DEF Edit
<1>6. CASE run_menu
  BY <1>6, RunMenuStep
<1>7. CASE UNCHANGED vars
  BY <1>7 DEF CInv, TypeOK, CursorSound, OuterSound, SearchSound, LinesCounted, vars, cursor
<1> QED
  BY <1>1, <1>2, <1>3, <1>4, <1>5, <1>6, <1>7 DEF Next

(* In every state of run_menu the cursor, that of the menu behind the     *)
(* editor and the search are sound.                                        *)
THEOREM Invariance == Spec => []CInv
BY InitInv, InductiveInvariant, PTL DEF Spec

(* The variables of run_menu keep their types.                             *)
THEOREM CursorTypes == Spec => []TypeOK
<1>1. CInv => TypeOK
  BY DEF CInv
<1> QED
  BY <1>1, Invariance, PTL

(* run_menu's cursor is on an entry that there is and inside the window,   *)
(* for every size of the window and of the menu.                           *)
THEOREM CursorInRange == Spec => []SelectionInRange
<1>1. CInv => SelectionInRange
  BY DEF CInv, CursorSound, OuterSound, Sound, SelectionInRange
<1> QED
  BY <1>1, Invariance, PTL

(* num_entries is the number of strings while it is in range.            *)
THEOREM LinesAreCounted == Spec => []LinesCounted
<1>1. CInv => LinesCounted
  BY DEF CInv, LinesCounted
<1> QED
  BY <1>1, Invariance, PTL

-----------------------------------------------------------------------------
(* The history of configuration files *)

(* Before the first file is loaded nothing has happened to the ring. *)
Fresh == trail = <<>> => pos = 0 /\ prev_pos = 0 /\ start = 0 /\ ~back /\ phase # "menu"

(* One slot stays free: the one that the next file is saved in, which is   *)
(* the one after prev_pos, and during a movement back the one before it.   *)
OneFree ==
  /\ Len(trail) <= N - 1
  /\ ~back /\ trail # <<>> => pos = After(prev_pos)
  /\ back => pos = Before(prev_pos) /\ Len(trail) >= 2
  /\ phase = "menu" => ~back

HInv == HistoryTypeOK /\ Fresh /\ OneFree /\ RingIsTrail

LEMMA HInit == HistoryInit => HInv
<1> SUFFICES ASSUME HistoryInit PROVE HInv
  OBVIOUS
<1>1. 0 \in Ring /\ N - 1 \in Nat
  BY ConfigsAssumption DEF Ring
<1>2. trail \in Seq(Configs) /\ Len(trail) = 0 /\ trail = <<>>
  BY DEF HistoryInit
<1>3. HistoryTypeOK
  BY <1>1, <1>2, ConfigsAssumption DEF HistoryInit, HistoryTypeOK
<1>4. Fresh /\ RingIsTrail
  BY <1>2 DEF HistoryInit, Fresh, RingIsTrail
<1>5. OneFree
  BY <1>1, <1>2 DEF HistoryInit, OneFree
<1>6. QED
  BY <1>3, <1>4, <1>5 DEF HInv

(* The occupied slots, counted from start. *)
LEMMA SlotFacts ==
  ASSUME HInv, trail # <<>>
  PROVE  /\ Len(trail) \in 1 .. N - 1
         /\ \A k \in 1 .. Len(trail) : Slot(k) \in Ring /\ filename[Slot(k)] = trail[k]
         /\ Slot(Len(trail)) = prev_pos
         /\ Len(trail) > 1 => Slot(Len(trail) - 1) = Before(prev_pos)
         /\ Len(trail) > 1 <=> prev_pos # start
         /\ \A k \in 1 .. Len(trail) : trail[k] \in Configs
<1>1. Len(trail) \in 1 .. N - 1
  BY ConfigsAssumption DEF HInv, OneFree, HistoryTypeOK
<1>2. start \in 0 .. N - 1 /\ prev_pos \in 0 .. N - 1 /\ N \in Nat \ {0, 1} /\ Len(trail) = Occupied
  BY ConfigsAssumption DEF HInv, HistoryTypeOK, Ring, RingIsTrail
<1>3. \A k \in 1 .. Len(trail) : Slot(k) \in Ring
  BY <1>1, <1>2 DEF Slot, Ring
<1>4. Slot(Len(trail)) = prev_pos
  BY <1>1, <1>2 DEF Slot, Occupied
<1>5. Len(trail) > 1 => Slot(Len(trail) - 1) = Before(prev_pos)
  BY <1>1, <1>2 DEF Slot, Occupied, Before
<1>6. Len(trail) > 1 <=> prev_pos # start
  BY <1>1, <1>2 DEF Occupied
<1>7. QED
  BY <1>1, <1>3, <1>4, <1>5, <1>6 DEF HInv, RingIsTrail, HistoryTypeOK

(* What the menu shows is the newest file. *)
LEMMA ShownIsNewest == ASSUME HInv, phase = "menu" PROVE trail # <<>> /\ Shown \in Configs
BY SlotFacts DEF HInv, Fresh, Shown

LEMMA SaveKeeps ==
  ASSUME HInv, SaveHistory
  PROVE  /\ filename' \in [Ring -> Configs \cup {None}]
         /\ pos' \in Ring /\ prev_pos' \in Ring /\ start' \in Ring
         /\ trail' \in Seq(Configs) /\ back' = FALSE /\ trail' # <<>>
         /\ Len(trail') <= N - 1 /\ pos' = After(prev_pos')
         /\ RingIsTrail'
<1>1. /\ N \in Nat \ {0, 1} /\ config_file \in Configs /\ trail \in Seq(Configs)
      /\ filename \in [Ring -> Configs \cup {None}]
      /\ pos \in 0 .. N - 1 /\ prev_pos \in 0 .. N - 1 /\ start \in 0 .. N - 1
  BY ConfigsAssumption DEF HInv, HistoryTypeOK, Ring
<1>2. /\ filename' \in [Ring -> Configs \cup {None}]
      /\ pos' \in Ring /\ prev_pos' \in Ring /\ start' \in Ring
      /\ back' = FALSE /\ pos' = After(prev_pos')
      /\ filename' = [filename EXCEPT ![pos] = config_file]
      /\ prev_pos' = pos /\ pos' = After(pos)
      /\ start' = IF start = After(pos) THEN After(start) ELSE start
  BY <1>1 DEF SaveHistory, After, Ring
<1>3. CASE trail = <<>>
  <2>1. pos = 0 /\ prev_pos = 0 /\ start = 0 /\ ~back
    BY <1>3 DEF HInv, Fresh
  <2>2. trail' = <<config_file>>
    BY <1>1, <1>3, <2>1 DEF SaveHistory, Newest
  <2>3. start' = 0
    BY <1>1, <1>2, <2>1 DEF After
  <2>4. /\ trail' \in Seq(Configs) /\ trail' # <<>> /\ Len(trail') = 1 /\ trail'[1] = config_file
    BY <1>1, <2>2
  <2>5. Occupied' = 1 /\ Slot(1)' = 0
    BY <1>1, <1>2, <2>1, <2>3 DEF Occupied, Slot
  <2>6. filename'[0] = config_file
    BY <1>1, <1>2, <2>1 DEF Ring
  <2>7. RingIsTrail'
    BY <2>4, <2>5, <2>6 DEF RingIsTrail
  <2>8. QED
    BY <1>1, <1>2, <2>4, <2>7
<1>4. CASE trail # <<>> /\ back
  <2> DEFINE m == Len(trail)
  <2>1. /\ m \in 2 .. N - 1 /\ m = Occupied /\ pos = Before(prev_pos) /\ prev_pos # start
        /\ \A k \in 1 .. m : filename[Slot(k)] = trail[k]
    BY <1>4, SlotFacts DEF HInv, OneFree, RingIsTrail
  <2>2. trail' = Append(SubSeq(trail, 1, m - 2), config_file)
    BY <1>4 DEF SaveHistory
  <2>3. /\ trail' \in Seq(Configs) /\ Len(trail') = m - 1
        /\ \A k \in 1 .. m - 2 : trail'[k] = trail[k]
        /\ trail'[m - 1] = config_file
    BY <1>1, <2>1, <2>2
  <2>4. After(pos) = prev_pos /\ start' = start
    BY <1>1, <1>2, <2>1 DEF After, Before
  <2>5. Occupied' = m - 1
    BY <1>1, <1>2, <2>1, <2>4, SMTT(30) DEF Occupied, Before
  <2>6. ASSUME NEW k \in 1 .. m - 1 PROVE filename'[Slot(k)'] = trail'[k]
    <3>1. Slot(k)' = Slot(k) /\ Slot(k) \in Ring
      BY <1>1, <2>1, <2>4 DEF Slot, Ring
    <3>2. Slot(k) = pos <=> k = m - 1
      BY <1>1, <2>1 DEF Slot, Occupied, Before
    <3>3. CASE k = m - 1
      BY <1>1, <1>2, <2>3, <3>1, <3>2, <3>3
    <3>4. CASE k # m - 1
      <4>1. k \in 1 .. m - 2 /\ k \in 1 .. m /\ Slot(k) # pos
        BY <2>1, <3>2, <3>4
      <4>2. filename'[Slot(k)] = filename[Slot(k)]
        BY <1>1, <1>2, <3>1, <4>1
      <4>3. QED
        BY <2>1, <2>3, <3>1, <4>1, <4>2
    <3>5. QED
      BY <3>3, <3>4
  <2>7. RingIsTrail'
    BY <2>3, <2>5, <2>6 DEF RingIsTrail
  <2>8. trail' # <<>> /\ Len(trail') <= N - 1
    BY <1>1, <2>1, <2>3
  <2>9. QED
    BY <1>2, <2>3, <2>7, <2>8
<1>5. CASE trail # <<>> /\ ~back
  <2> DEFINE m == Len(trail)
  <2>1. /\ m \in 1 .. N - 1 /\ m = Occupied /\ pos = After(prev_pos)
        /\ \A k \in 1 .. m : filename[Slot(k)] = trail[k]
    BY <1>5, SlotFacts DEF HInv, OneFree, RingIsTrail
  <2>2. trail' = Newest(Append(trail, config_file))
    BY <1>5 DEF SaveHistory
  <2>3. \A k \in 1 .. m : Slot(k) \in Ring /\ Slot(k) # pos
    BY <1>1, <2>1 DEF Slot, Ring, Occupied, After
  <2>4. CASE m < N - 1
    <3>1. /\ trail' = Append(trail, config_file)
          /\ trail' \in Seq(Configs) /\ Len(trail') = m + 1
          /\ \A k \in 1 .. m : trail'[k] = trail[k]
          /\ trail'[m + 1] = config_file
      BY <1>1, <2>1, <2>2, <2>4 DEF Newest
    <3>2. start' = start
      BY <1>1, <1>2, <2>1, <2>4 DEF Occupied, After
    <3>3. Occupied' = m + 1 /\ Slot(m + 1) = pos
      BY <1>1, <1>2, <2>1, <2>4, <3>2 DEF Occupied, Slot, After
    <3>4. ASSUME NEW k \in 1 .. m + 1 PROVE filename'[Slot(k)'] = trail'[k]
      <4>1. Slot(k)' = Slot(k)
        BY <3>2 DEF Slot
      <4>2. CASE k = m + 1
        BY <1>1, <1>2, <3>1, <3>3, <4>1, <4>2 DEF Ring
      <4>3. CASE k \in 1 .. m
        BY <1>1, <1>2, <2>1, <2>3, <3>1, <4>1, <4>3
      <4>4. QED
        BY <2>1, <4>2, <4>3
    <3>5. QED
      BY <1>1, <1>2, <2>1, <2>4, <3>1, <3>3, <3>4 DEF RingIsTrail
  <2>5. CASE m = N - 1
    <3>1. /\ trail' = Tail(Append(trail, config_file))
          /\ trail' \in Seq(Configs) /\ Len(trail') = m
          /\ \A k \in 1 .. m - 1 : trail'[k] = trail[k + 1]
          /\ trail'[m] = config_file
      BY <1>1, <2>1, <2>2, <2>5 DEF Newest
    <3>2. start = After(pos) /\ start' = After(start)
      BY <1>1, <1>2, <2>1, <2>5 DEF Occupied, After
    <3>3. Occupied' = m
      BY <1>1, <1>2, <2>1, <2>5, <3>2 DEF Occupied, After
    <3>4. ASSUME NEW k \in 1 .. m PROVE filename'[Slot(k)'] = trail'[k]
      <4>1. CASE k = m
        <5>1. Slot(k)' = pos
          BY <1>1, <1>2, <2>1, <2>5, <3>2, <4>1 DEF Slot, After
        <5>2. QED
          BY <1>1, <1>2, <3>1, <4>1, <5>1 DEF Ring
      <4>2. CASE k \in 1 .. m - 1
        <5>1. Slot(k)' = Slot(k + 1) /\ k + 1 \in 1 .. m
          BY <1>1, <1>2, <2>1, <2>5, <3>2, <4>2 DEF Slot, After
        <5>2. QED
          BY <1>1, <1>2, <2>1, <2>3, <3>1, <4>2, <5>1
      <4>3. QED
        BY <2>1, <4>1, <4>2
    <3>5. QED
      BY <1>1, <1>2, <2>1, <2>5, <3>1, <3>3, <3>4, SMTT(30) DEF RingIsTrail
  <2>6. m < N - 1 \/ m = N - 1
    BY <1>1, <2>1
  <2>7. QED
    BY <2>4, <2>5, <2>6
<1>6. QED
  BY <1>3, <1>4, <1>5

LEMMA HStep == HInv /\ [HistoryNext]_historyVars => HInv'
<1> SUFFICES ASSUME HInv, [HistoryNext]_historyVars PROVE HInv'
  OBVIOUS
<1>t. HistoryTypeOK /\ Fresh /\ OneFree /\ RingIsTrail
  BY DEF HInv
(* A step that only leaves the ring alone. *)
<1>a. ASSUME UNCHANGED <<filename, pos, prev_pos, start, menu_pos, trail, back>>,
             phase' \in {"load", "menu", "prompt"}, phase' = "menu" => phase = "menu",
             config_file' \in Configs, position' \in [Ring -> Nat], selected' \in Nat
      PROVE  HInv'
  <2>1. HistoryTypeOK' /\ Fresh' /\ OneFree'
    BY <1>a, <1>t DEF HistoryTypeOK, Fresh, OneFree, After, Before
  <2>2. RingIsTrail'
    BY <1>a, <1>t DEF RingIsTrail, Occupied, Slot
  <2>3. QED
    BY <2>1, <2>2 DEF HInv
<1>1. CASE Load
  <2>1. SaveHistory /\ phase = "load" /\ UNCHANGED <<config_file, position>>
    BY <1>1 DEF Load
  <2>2. phase' \in {"menu", "prompt"} /\ selected' \in Nat /\ menu_pos' \in Ring \cup {-1}
    BY <1>1, <1>t, ConfigsAssumption DEF Load, RunMenu, HistoryTypeOK
  <2>3. QED
    BY <2>1, <2>2, <1>t, SaveKeeps DEF HInv, HistoryTypeOK, Fresh, OneFree
<1>2. CASE LoadFails
  BY <1>2, <1>a, <1>t DEF LoadFails, ringVars, HistoryTypeOK
<1>3. CASE Select
  <2>1. PICK e \in 0 .. Size[Shown] - 1 : selected' = e
    BY <1>3 DEF Select
  <2>2. Size[Shown] \in Nat
    BY <1>3, ShownIsNewest, ConfigsAssumption DEF Select
  <2>3. QED
    BY <1>3, <2>1, <2>2, <1>a, <1>t DEF Select, ringVars, HistoryTypeOK
<1>4. CASE Enter
  BY <1>4, <1>a, <1>t DEF Enter, HistoryTypeOK
<1>5. CASE Reload
  BY <1>5, <1>a, <1>t, ConfigsAssumption DEF Reload, ringVars, HistoryTypeOK
<1>6. CASE EditorMaster
  BY <1>6, <1>a, <1>t, ConfigsAssumption DEF EditorMaster, ringVars, HistoryTypeOK
<1>7. CASE GoBack
  <2>1. trail # <<>> /\ ~back /\ Len(trail) \in 2 .. N - 1
    BY <1>7, <1>t, SlotFacts DEF GoBack, Fresh, OneFree
  <2>2. Before(prev_pos) \in Ring /\ filename[Before(prev_pos)] \in Configs
    BY <2>1, SlotFacts
  <2>3. HistoryTypeOK' /\ Fresh' /\ OneFree'
    BY <1>7, <1>t, <2>1, <2>2 DEF GoBack, HistoryTypeOK, Fresh, OneFree, Before
  <2>4. RingIsTrail'
    BY <1>7, <1>t DEF GoBack, RingIsTrail, Occupied, Slot
  <2>5. QED
    BY <2>3, <2>4 DEF HInv
<1>8. ASSUME NEW f \in Configs, Configfile(f) PROVE HInv'
  BY <1>8, <1>a, <1>t DEF Configfile, ringVars, HistoryTypeOK
<1>9. CASE UNCHANGED historyVars
  BY <1>9, <1>a, <1>t DEF historyVars, ringVars, HistoryTypeOK
<1>10. QED
  BY <1>1, <1>2, <1>3, <1>4, <1>5, <1>6, <1>7, <1>8, <1>9 DEF HistoryNext

LEMMA HInvariant == HistorySpec => []HInv
<1>1. QED
  BY HInit, HStep, PTL DEF HistorySpec

(* The indices of the ring of stage2.c stay inside the array, whatever its *)
(* size.                                                                   *)
THEOREM RingTypes == HistorySpec => []HistoryTypeOK
<1>1. HInv => HistoryTypeOK
  BY DEF HInv
<1>2. QED
  BY <1>1, HInvariant, PTL

(* However many files cmain loads and the left key goes back from, the     *)
(* slots from start to prev_pos are the newest of them, in their order.    *)
THEOREM RingHoldsTrail == HistorySpec => []RingIsTrail
<1>1. HInv => RingIsTrail
  BY DEF HInv
<1>2. QED
  BY <1>1, HInvariant, PTL

(* The left key of run_menu loads the file that was visited before the one *)
(* that it leaves.                                                         *)
THEOREM LeftKeyGoesBack == HistorySpec => BackGoesBack
<1>1. ASSUME HInv, [HistoryNext]_historyVars
      PROVE  [~back /\ back' => config_file' = trail[Len(trail) - 1]]_historyVars
  <2> SUFFICES ASSUME HistoryNext, ~back, back'
               PROVE  config_file' = trail[Len(trail) - 1]
    BY <1>1
  <2>1. GoBack
    BY DEF HistoryNext, Load, SaveHistory, LoadFails, Select, Enter, Reload, EditorMaster, Configfile
  <2>2. trail # <<>> /\ prev_pos # start
    BY <1>1, <2>1 DEF GoBack, HInv, Fresh
  <2>3. Len(trail) - 1 \in 1 .. Len(trail) /\ Slot(Len(trail) - 1) = Before(prev_pos)
    BY <1>1, <2>2, SlotFacts
  <2>4. QED
    BY <1>1, <2>1, <2>2, <2>3, SlotFacts DEF GoBack
<1>2. QED
  BY <1>1, HInvariant, PTL DEF HistorySpec, BackGoesBack

-----------------------------------------------------------------------------
(* The unattended boot *)

(* A fallback entry of the configuration. *)
Exists(s) == 0 <= fallback_entries[s] /\ fallback_entries[s] < nr_entries

(* The loop of cmain has seen the entries below i. *)
ValidBelow == at = "validate" => fallback_entryno = 0 /\ \A s \in 0 .. checking - 1 : Exists(s)

(* The list of fallback entries, up to the first -1, was validated, and    *)
(* fallback_entryno is in it.                                              *)
InList(s) == \A t \in 0 .. s : fallback_entries[t] >= 0
ListValid ==
  at \in {"default", "hidden", "menu", "run"} /\ fallback_entryno >= 0 =>
    InList(fallback_entryno) /\ \A s \in Slots : InList(s) => Exists(s)

(* default_entry is a number of a configuration, or 0. *)
DefaultNat == default_entry >= 0

(* A saved position is one of a menu. *)
SavedNat == saved_pos >= -1

BInv == BootTypeOK /\ ValidBelow /\ ListValid /\ DefaultNat /\ SavedNat /\ EntryExists

LEMMA BInit == BootInit => BInv
<1> SUFFICES ASSUME BootInit PROVE BInv
  OBVIOUS
<1>1. BootTypeOK
  <2>1. 0 \in Nat /\ 0 \in 0 .. MaxFallback /\ <<>> \in Seq(Int)
    BY BoundsAssumption
  <2>2. fallback_entries \in [Slots -> Int]
    BY DEF BootInit, Slots
  <2>3. fallback_entryno \in Slots \cup {-1} /\ grub_timeout \in Nat \cup {-1} /\ default_entry \in Int
        /\ current \in Int /\ nr_entries \in Nat /\ checking \in 0 .. MaxFallback
    BY <2>1 DEF BootInit
  <2>4. at \in Steps /\ show_menu \in BOOLEAN /\ in_editor \in BOOLEAN /\ ran \in Seq(Int)
        /\ resumed \in BOOLEAN
    BY <2>1, Zenon DEF BootInit, Steps
  <2>5. saved_pos \in Int
    BY DEF BootInit
  <2>6. QED
    BY <2>2, <2>3, <2>4, <2>5, Zenon DEF BootTypeOK
<1>2. QED
  BY <1>1 DEF BootInit, BInv, ValidBelow, ListValid, DefaultNat, SavedNat, EntryExists

(* The numbers that fallback_func writes. *)
LEMMA KeptType ==
  ASSUME NEW args \in Seq(Nat)
  PROVE  Kept(args) \in Seq(Nat) /\ Len(Kept(args)) <= MaxFallback
<1> DEFINE n == IF FirstRepeat(args) # {} THEN (CHOOSE k \in FirstRepeat(args) : TRUE) - 1
                ELSE IF Len(args) > MaxFallback THEN MaxFallback ELSE Len(args)
<1>1. FirstRepeat(args) # {} => (CHOOSE k \in FirstRepeat(args) : TRUE) \in FirstRepeat(args)
  OBVIOUS
<1>2. n \in 0 .. Len(args) /\ n <= MaxFallback
  <2>1. CASE FirstRepeat(args) # {}
    <3>1. PICK k \in 1 .. Len(args) : k <= MaxFallback /\ n = k - 1
      BY <1>1, <2>1, Zenon DEF FirstRepeat
    <3> HIDE DEF n
    <3>2. QED
      BY <3>1, BoundsAssumption
  <2>2. CASE FirstRepeat(args) = {}
    BY <2>2, BoundsAssumption
  <2>3. QED
    BY <2>1, <2>2
<1> HIDE DEF n
<1>3. SubSeq(args, 1, n) \in Seq(Nat) /\ Len(SubSeq(args, 1, n)) = n
  BY <1>2
<1>4. QED
  BY <1>2, <1>3 DEF Kept, n

LEMMA WrittenType ==
  ASSUME BootTypeOK, NEW kept \in Seq(Nat), NEW ended \in BOOLEAN
  PROVE  Written(kept, ended) \in [Slots -> Int]
BY DEF BootTypeOK, Written, Slots

LEMMA LoadKeeps == ASSUME BInv, LoadConfig PROVE BInv'
<1>t. BootTypeOK
  BY DEF BInv
<1>1. PICK args \in Arguments \cup {<<>>} : fallback_func(args)
  BY DEF LoadConfig
<1>a. <<>> \in Seq(Nat)
  OBVIOUS
<1>2. args \in Seq(Nat)
  BY <1>1, <1>a, BoundsAssumption, Zenon
<1>3. fallback_entries' \in [Slots -> Int] /\ fallback_entryno' \in {0, -1}
  BY <1>1, <1>2, <1>t, KeptType, WrittenType DEF fallback_func
<1>4. /\ nr_entries' \in Nat /\ default_entry' \in Nat /\ grub_timeout' \in Nat \cup {-1}
      /\ show_menu' \in BOOLEAN /\ checking' = 0 /\ UNCHANGED <<in_editor, current, startVars, ran>>
      /\ at' = IF fallback_entryno' >= 0 THEN "validate" ELSE "default"
  <2>1. nr_entries' \in 0 .. MaxEntries /\ grub_timeout' \in Timeouts \cup {-1}
        /\ default_entry' \in Numbers /\ show_menu' \in {show_menu, FALSE} /\ checking' = 0
        /\ UNCHANGED <<in_editor, current, startVars, ran>>
        /\ at' = IF fallback_entryno' >= 0 THEN "validate" ELSE "default"
    BY Zenon DEF LoadConfig, Goto
  <2>2. show_menu' \in BOOLEAN
    BY <2>1, <1>t, Zenon DEF BootTypeOK
  <2>3. nr_entries' \in Nat /\ default_entry' \in Nat /\ grub_timeout' \in Nat \cup {-1}
    BY <2>1, BoundsAssumption
  <2>4. QED
    BY <2>1, <2>2, <2>3
<1>5. BootTypeOK'
  BY <1>3, <1>4, <1>t, BoundsAssumption DEF BootTypeOK, Steps, Slots, startVars
<1>6. ValidBelow' /\ ListValid' /\ DefaultNat' /\ EntryExists'
  BY <1>3, <1>4 DEF ValidBelow, ListValid, DefaultNat, EntryExists
<1>7. SavedNat'
  BY <1>4 DEF BInv, SavedNat, startVars
<1>8. QED
  BY <1>5, <1>6, <1>7 DEF BInv

LEMMA ValidateKeeps == ASSUME BInv, Validate PROVE BInv'
<1>t. BootTypeOK /\ ValidBelow /\ DefaultNat /\ SavedNat /\ MaxFallback \in Nat \ {0}
  BY BoundsAssumption DEF BInv
<1>1. /\ at = "validate" /\ at' = at /\ checking \in Slots /\ fallback_entries[checking] >= 0
      /\ UNCHANGED <<nr_entries, default_entry, fallback_entryno, menuVars, startVars, ran>>
  BY <1>t DEF Validate, BootTypeOK, Slots, configVars
<1>2. CASE fallback_entries' = Shifted /\ UNCHANGED checking
  <2>1. BootTypeOK'
    BY <1>1, <1>2, <1>t DEF BootTypeOK, Shifted, Slots, menuVars, startVars
  <2>2. \A s \in 0 .. checking - 1 : fallback_entries'[s] = fallback_entries[s]
    BY <1>1, <1>2, <1>t DEF BootTypeOK, Shifted, Slots
  <2>3. ValidBelow'
    BY <1>1, <1>2, <2>2, <1>t DEF ValidBelow, Exists
  <2>4. QED
    BY <1>1, <2>1, <2>3, <1>t DEF BInv, ListValid, DefaultNat, SavedNat, startVars, EntryExists
<1>3. CASE fallback_entries[checking] < nr_entries /\ checking' = checking + 1 /\ UNCHANGED fallback_entries
  <2>1. BootTypeOK'
    BY <1>1, <1>3, <1>t DEF BootTypeOK, Slots, menuVars, startVars
  <2>2. ValidBelow'
    <3>1. checking \in Nat /\ fallback_entryno' = 0
          /\ nr_entries' = nr_entries /\ fallback_entries' = fallback_entries
      BY <1>1, <1>3, <1>t DEF ValidBelow, BootTypeOK
    <3>2. 0 <= fallback_entries[checking] /\ fallback_entries[checking] < nr_entries
      BY <1>1, <1>3, <1>t DEF BootTypeOK
    <3>3. ASSUME NEW s \in 0 .. checking PROVE Exists(s)
      <4>1. CASE s = checking
        BY <3>2, <4>1 DEF Exists
      <4>2. CASE s \in 0 .. checking - 1
        BY <1>1, <1>t, <4>2 DEF ValidBelow
      <4>3. QED
        BY <3>1, <3>3, <4>1, <4>2
    <3>4. 0 .. checking' - 1 = 0 .. checking
      BY <1>3, <3>1
    <3>5. \A s \in 0 .. checking' - 1 : Exists(s)'
      BY <3>1, <3>3, <3>4 DEF Exists
    <3>6. QED
      BY <3>1, <3>5 DEF ValidBelow
  <2>3. QED
    BY <1>1, <2>1, <2>2, <1>t DEF BInv, ListValid, DefaultNat, SavedNat, startVars, EntryExists
<1>4. QED
  BY <1>2, <1>3 DEF Validate

LEMMA ValidatedKeeps == ASSUME BInv, Validated PROVE BInv'
<1>t. BootTypeOK /\ ValidBelow /\ DefaultNat /\ SavedNat /\ MaxFallback \in Nat \ {0}
  BY BoundsAssumption DEF BInv
<1>1. /\ at = "validate" /\ at' = "default" /\ fallback_entryno = 0
      /\ checking < MaxFallback => fallback_entries[checking] < 0
      /\ \A s \in 0 .. checking - 1 : Exists(s)
      /\ fallback_entryno' = IF fallback_entries[0] < 0 THEN -1 ELSE fallback_entryno
      /\ UNCHANGED <<nr_entries, default_entry, fallback_entries, menuVars, startVars, checking, ran>>
  BY <1>t DEF Validated, ValidBelow, Goto, configVars
<1>2. BootTypeOK'
  BY <1>1, <1>t DEF BootTypeOK, Steps, menuVars, startVars
<1>3. ASSUME NEW s \in Slots, InList(s) PROVE Exists(s)
  <2>1. s < checking
    BY <1>1, <1>3, <1>t DEF InList, BootTypeOK, Slots
  <2>2. QED
    BY <1>1, <2>1, <1>t DEF BootTypeOK, Slots
<1>4. ListValid'
  <2> SUFFICES ASSUME fallback_entryno' >= 0
               PROVE  InList(fallback_entryno)' /\ \A s \in Slots : InList(s)' => Exists(s)'
    BY DEF ListValid
  <2>1. fallback_entries[0] >= 0 /\ fallback_entryno' = 0
    BY <1>1, <1>t DEF BootTypeOK, Slots
  <2>2. \A s \in Slots : (InList(s)' <=> InList(s)) /\ (Exists(s)' <=> Exists(s))
    BY <1>1 DEF InList, Exists
  <2>3. QED
    BY <1>1, <1>3, <2>1, <2>2 DEF InList
<1>5. QED
  BY <1>1, <1>2, <1>4, <1>t DEF BInv, ValidBelow, DefaultNat, SavedNat, startVars, EntryExists

(* The next fallback entry is one of the list. *)
LEMMA NextInList ==
  ASSUME BootTypeOK, NEW k \in Slots, InList(k)
  PROVE  /\ NextFallback(k) \in Slots \cup {-1}
         /\ NextFallback(k) >= 0 => InList(NextFallback(k))
BY BoundsAssumption DEF BootTypeOK, NextFallback, InList, Slots

(* A step that changes neither the configuration nor the array. *)
LEMMA ListKept ==
  ASSUME BInv, UNCHANGED <<nr_entries, fallback_entries>>,
         at \in {"default", "hidden", "menu", "run"},
         fallback_entryno' >= 0 => fallback_entryno >= 0 /\ InList(fallback_entryno')
  PROVE  ListValid'
BY DEF BInv, ListValid, InList, Exists

LEMMA CheckDefaultKeeps == ASSUME BInv, CheckDefault PROVE BInv'
<1>t. BootTypeOK /\ ListValid /\ DefaultNat /\ SavedNat /\ MaxFallback \in Nat \ {0}
  BY BoundsAssumption DEF BInv
<1> DEFINE use == default_entry >= nr_entries /\ fallback_entryno >= 0
<1>1. /\ at = "default"
      /\ default_entry' = IF default_entry < nr_entries THEN default_entry
                          ELSE IF use THEN fallback_entries[0] ELSE 0
      /\ fallback_entryno' = IF use THEN NextFallback(fallback_entryno) ELSE fallback_entryno
      /\ at' = IF nr_entries = 0 THEN "prompt" ELSE "hidden"
      /\ resumed' = (nr_entries # 0 /\ saved_pos # -1)
      /\ current' = IF resumed' THEN saved_pos ELSE default_entry'
      /\ saved_pos' = IF resumed' THEN -1 ELSE saved_pos
      /\ UNCHANGED <<nr_entries, fallback_entries, grub_timeout, show_menu, in_editor, checking, ran>>
  BY DEF CheckDefault, Goto
<1>2. use => InList(fallback_entryno) /\ InList(0) /\ Exists(0)
  BY <1>1, <1>t DEF ListValid, InList, BootTypeOK, Slots
<1>3. default_entry' \in Nat /\ (nr_entries # 0 => default_entry' < nr_entries)
  BY <1>1, <1>2, <1>t DEF Exists, BootTypeOK, DefaultNat
<1>4. /\ fallback_entryno' \in Slots \cup {-1}
      /\ fallback_entryno' >= 0 => fallback_entryno >= 0 /\ InList(fallback_entryno')
  <2>1. CASE use
    BY <1>1, <1>2, <2>1, <1>t, NextInList DEF BootTypeOK, Slots
  <2>2. CASE ~use
    BY <1>1, <2>2, <1>t DEF ListValid, BootTypeOK
  <2>3. QED
    BY <2>1, <2>2
<1> HIDE DEF use
<1>b. /\ resumed' \in BOOLEAN
      /\ resumed' => nr_entries # 0 /\ saved_pos # -1 /\ current' = saved_pos /\ saved_pos' = -1
      /\ ~resumed' => current' = default_entry' /\ saved_pos' = saved_pos
  BY <1>1, Zenon
<1>c. saved_pos \in Int /\ saved_pos >= -1
  BY <1>t DEF BootTypeOK, SavedNat
<1>5. BootTypeOK' /\ SavedNat'
  <2>1. current' \in Nat /\ saved_pos' \in Int /\ saved_pos' >= -1
    BY <1>3, <1>b, <1>c
  <2>2. QED
    BY <1>1, <1>3, <1>4, <1>b, <2>1, <1>t DEF BootTypeOK, SavedNat, Steps
<1>6. ListValid'
  BY <1>1, <1>4, ListKept
<1>7. EntryExists'
  <2>1. 0 <= current' /\ (nr_entries # 0 => current' < nr_entries \/ resumed')
    BY <1>3, <1>b, <1>c
  <2>2. at' \in {"hidden", "menu", "run"} => nr_entries # 0
    BY <1>1
  <2>3. QED
    BY <1>1, <2>1, <2>2 DEF EntryExists
<1>8. QED
  BY <1>1, <1>3, <1>5, <1>6, <1>7, <1>t DEF BInv, ValidBelow, DefaultNat

LEMMA RunFailsKeeps == ASSUME BInv, RunFails PROVE BInv'
<1>t. BootTypeOK /\ ListValid /\ DefaultNat /\ SavedNat /\ EntryExists /\ MaxFallback \in Nat \ {0}
  BY BoundsAssumption DEF BInv
<1>1. /\ at = "run"
      /\ UNCHANGED <<nr_entries, default_entry, fallback_entries, grub_timeout, in_editor, saved_pos, checking>>
  BY DEF RunFails, configVars
<1>2. CASE /\ fallback_entryno >= 0
           /\ ran' = Append(ran, IF in_editor THEN Nowhere ELSE fallback_entries[fallback_entryno])
           /\ resumed' = (resumed /\ in_editor)
           /\ current' = IF in_editor THEN current ELSE fallback_entries[fallback_entryno]
           /\ fallback_entryno' = NextFallback(fallback_entryno)
           /\ UNCHANGED <<at, show_menu>>
  <2>1. fallback_entryno \in Slots /\ InList(fallback_entryno) /\ Exists(fallback_entryno)
    BY <1>1, <1>2, <1>t DEF BootTypeOK, ListValid, Slots
  <2>2. /\ fallback_entryno' \in Slots \cup {-1}
        /\ fallback_entryno' >= 0 => InList(fallback_entryno')
    BY <1>2, <2>1, <1>t, NextInList
  <2>3. current' \in Int /\ 0 <= current' /\ (current' < nr_entries \/ resumed')
    <3>1. CASE in_editor
      BY <1>1, <1>2, <2>1, <3>1, <1>t DEF BootTypeOK, EntryExists
    <3>2. CASE ~in_editor
      BY <1>2, <2>1, <3>2, <1>t DEF BootTypeOK, Exists
    <3>3. QED
      BY <3>1, <3>2
  <2>4. (IF in_editor THEN Nowhere ELSE fallback_entries[fallback_entryno]) \in Int
    BY <2>1, <1>t DEF BootTypeOK, Nowhere
  <2>b. ran' \in Seq(Int) /\ resumed' \in BOOLEAN
    BY <1>2, <2>4, <1>t DEF BootTypeOK
  <2>5. BootTypeOK'
    BY <1>1, <1>2, <2>2, <2>3, <2>b, <1>t DEF BootTypeOK
  <2>6. ListValid'
    BY <1>1, <1>2, <2>2, ListKept
  <2>7. QED
    BY <1>1, <1>2, <2>3, <2>5, <2>6, <1>t DEF BInv, ValidBelow, DefaultNat, SavedNat, EntryExists
<1>3. CASE /\ fallback_entryno < 0
           /\ at' = "hidden" /\ show_menu' = TRUE /\ ran' = <<>>
           /\ UNCHANGED <<current, resumed, fallback_entryno>>
  <2>a. <<>> \in Seq(Int)
    OBVIOUS
  <2>1. BootTypeOK'
    BY <1>1, <1>3, <1>t, <2>a DEF BootTypeOK, Steps
  <2>b. ~(fallback_entryno' >= 0)
    BY <1>3, <1>t, BoundsAssumption DEF BootTypeOK, Slots
  <2>2. ListValid'
    BY <2>b, Zenon DEF ListValid
  <2>3. QED
    BY <1>1, <1>3, <2>1, <2>2, <1>t DEF BInv, ValidBelow, DefaultNat, SavedNat, EntryExists
<1>4. QED
  BY <1>2, <1>3 DEF RunFails, Goto

(* The steps that leave the configuration, the array and the loop alone,   *)
(* in a menu, a script or a prompt.                                        *)
LEMMA MenuStepKeeps ==
  ASSUME BInv, UNCHANGED <<nr_entries, default_entry, fallback_entries, checking>>,
         at \in {"hidden", "menu", "run", "prompt", "booted"},
         at' \in {"hidden", "menu", "run", "booted", "config"},
         at' \in {"hidden", "menu", "run"} => at \in {"hidden", "menu", "run"},
         fallback_entryno' \in {fallback_entryno, -1},
         grub_timeout' \in Nat \cup {-1}, show_menu' \in BOOLEAN, in_editor' \in BOOLEAN,
         current' \in Int, ran' \in Seq(Int),
         saved_pos' \in Int, saved_pos' >= -1, UNCHANGED resumed,
         \/ current' = current
         \/ current' \in 0 .. nr_entries - 1
         \/ ~(current < nr_entries) /\ current' \in Nat
  PROVE  BInv'
<1>t. BootTypeOK /\ ListValid /\ DefaultNat /\ EntryExists
  BY DEF BInv
<1>1. BootTypeOK'
  BY <1>t DEF BootTypeOK, Steps
<1>2. ListValid'
  <2>1. CASE at' \in {"booted", "config"}
    BY <2>1 DEF ListValid
  <2>2. CASE at' \in {"hidden", "menu", "run"} /\ fallback_entryno' = fallback_entryno
    BY <2>2, <1>t DEF ListValid, InList, Exists
  <2>3. CASE fallback_entryno' = -1
    BY <2>3 DEF ListValid
  <2>4. QED
    BY <2>1, <2>2, <2>3
<1>3. EntryExists'
  BY <1>t DEF EntryExists, BootTypeOK
<1>4. QED
  BY <1>1, <1>2, <1>3, <1>t DEF BInv, ValidBelow, DefaultNat, SavedNat

LEMMA BStep == BInv /\ [BootNext]_bootVars => BInv'
<1> SUFFICES ASSUME BInv, [BootNext]_bootVars PROVE BInv'
  OBVIOUS
<1>t. BootTypeOK /\ EntryExists /\ SavedNat
  BY DEF BInv
<1>1. CASE CmainStep
  BY <1>1, LoadKeeps, ValidateKeeps, ValidatedKeeps, CheckDefaultKeeps DEF CmainStep
<1>2. CASE ShowMenu
  BY <1>2, <1>t, MenuStepKeeps DEF ShowMenu, Goto, configVars, fallbackVars, startVars, SavedNat, BootTypeOK
<1>3. CASE Tick
  <2>1. at \in {"hidden", "menu"} /\ UNCHANGED <<configVars, fallbackVars, startVars, show_menu, in_editor, checking>>
    BY <1>3 DEF Tick, Hidden
  <2>2. CASE grub_timeout' = -1 /\ Run(current)
    BY <2>1, <2>2, <1>t, MenuStepKeeps DEF Run, Goto, configVars, fallbackVars, startVars, SavedNat, BootTypeOK
  <2>3. CASE grub_timeout > 0 /\ grub_timeout' = grub_timeout - 1 /\ UNCHANGED <<at, current, ran>>
    BY <2>1, <2>3, <1>t, MenuStepKeeps DEF configVars, fallbackVars, startVars, SavedNat, BootTypeOK
  <2>4. QED
    BY <1>3, <2>2, <2>3 DEF Tick
<1>4. CASE UserKey
  <2>1. CASE EscapeHidden
    BY <2>1, <1>t, MenuStepKeeps DEF EscapeHidden, Hidden, Goto, configVars, fallbackVars, startVars, SavedNat, BootTypeOK
  <2>2. ASSUME AnyKey
        PROVE  /\ at = "menu" /\ grub_timeout' = -1
               /\ fallback_entryno' \in {fallback_entryno, -1}
               /\ UNCHANGED <<nr_entries, default_entry, fallback_entries, show_menu, checking>>
    BY <2>2 DEF AnyKey, configVars
  <2>3. CASE MoveKey
    <3>1. current' \in 0 .. nr_entries - 1 \/ (~(current < nr_entries) /\ current' \in Nat)
      <4>1. current' \in IF current < nr_entries THEN 0 .. nr_entries - 1 ELSE Positions
        BY <2>3 DEF MoveKey
      <4>2. \A x \in Positions : x \in Nat
        BY BoundsAssumption DEF Positions
      <4>3. QED
        BY <4>1, <4>2
    <3>2. current' \in Int
      BY <3>1
    <3>3. QED
      BY <2>2, <2>3, <3>1, <3>2, <1>t, MenuStepKeeps DEF MoveKey, startVars, SavedNat, BootTypeOK
  <2>4. CASE BootKey
    BY <2>2, <2>4, <1>t, MenuStepKeeps DEF BootKey, Run, Goto, startVars, SavedNat, BootTypeOK
  <2>5. CASE EditKey
    BY <2>2, <2>5, <1>t, MenuStepKeeps DEF EditKey, startVars, SavedNat, BootTypeOK
  <2>6. CASE LeaveKey
    BY <2>2, <2>6, <1>t, MenuStepKeeps DEF LeaveKey, Goto, startVars, SavedNat, BootTypeOK
  <2>7. CASE BackKey
    <3>1. saved_pos' \in Int /\ saved_pos' >= -1
      BY <2>7, BoundsAssumption DEF BackKey, Positions
    <3>2. QED
      BY <2>2, <2>7, <3>1, <1>t, MenuStepKeeps DEF BackKey, Goto, BootTypeOK
  <2>8. QED
    BY <1>4, <2>1, <2>3, <2>4, <2>5, <2>6, <2>7 DEF UserKey
<1>5. CASE RunStep
  <2>1. CASE RunBoots
    BY <2>1, <1>t, MenuStepKeeps DEF RunBoots, Goto, configVars, fallbackVars, menuVars, startVars, SavedNat, BootTypeOK
  <2>2. CASE RunReturns
    <3>1. /\ at = "run" /\ at' \in {"hidden", "config"} /\ ran' = <<>>
          /\ UNCHANGED <<configVars, fallbackVars, startVars, grub_timeout, current, checking>>
      BY <2>2 DEF RunReturns, Goto
    <3>2. show_menu' \in BOOLEAN /\ in_editor' \in BOOLEAN
      BY <2>2, <1>t, Zenon DEF RunReturns, BootTypeOK
    <3>3. QED
      BY <3>1, <3>2, <1>t, MenuStepKeeps DEF configVars, fallbackVars, startVars, SavedNat, BootTypeOK
  <2>3. QED
    BY <1>5, <2>1, <2>2, RunFailsKeeps DEF RunStep
<1>6. CASE Prompt
  BY <1>6, <1>t, MenuStepKeeps DEF Prompt, Goto, configVars, fallbackVars, menuVars, startVars, SavedNat, BootTypeOK
<1>7. CASE UNCHANGED bootVars
  BY <1>7 DEF bootVars, configVars, fallbackVars, menuVars, startVars, BInv, SavedNat, BootTypeOK, ValidBelow, ListValid,
              InList, Exists, DefaultNat, EntryExists
<1>8. QED
  BY <1>1, <1>2, <1>3, <1>4, <1>5, <1>6, <1>7 DEF BootNext, Booted

LEMMA BInvariant == BootSpec => []BInv
<1>1. QED
  BY BInit, BStep, PTL DEF BootSpec

(* The variables of cmain and run_menu keep their types; fallback_entryno  *)
(* and the index of the validation never leave the array.                  *)
THEOREM BootTypes == BootSpec => []BootTypeOK
<1>1. BInv => BootTypeOK
  BY DEF BInv
<1>2. QED
  BY <1>1, BInvariant, PTL

(* Whatever the commands default and fallback asked for, and whatever an   *)
(* earlier configuration left in the array, run_menu only selects and runs *)
(* entries that the configuration has, but for the position that the left  *)
(* key brought along, until a fallback entry is run.                       *)
THEOREM OnlyEntriesThatExist == BootSpec => []EntryExists
<1>1. BInv => EntryExists
  BY DEF BInv
<1>2. QED
  BY <1>1, BInvariant, PTL
-----------------------------------------------------------------------------
(* The order of the fallback entries *)

LEMMA LeastNumber ==
  ASSUME NEW T, T \subseteq Nat, T # {}
  PROVE  \E x \in T : \A y \in T : x <= y
<1>1. PICK x \in T : \A y \in T : ~(<<y, x>> \in OpToRel(<, Nat))
  BY WFMin, NatLessThanWellFounded
<1>2. \A y \in T : ~(y < x)
  BY <1>1 DEF OpToRel
<1>3. QED
  BY <1>2

LEMMA Stays ==
  ASSUME NEW S, NEW a \in Nat, NEW n \in Nat, NEW h, h[a] \in S,
         \A q \in (a + 1)..n : h[q - 1] \in S => h[q] \in S
  PROVE  \A q \in a..n : h[q] \in S
<1> DEFINE Bad == {q \in a..n : h[q] \notin S}
<1> SUFFICES ASSUME Bad # {} PROVE FALSE
  OBVIOUS
<1>1. Bad \subseteq Nat
  OBVIOUS
<1>2. PICK k \in Bad : \A m \in Bad : k <= m
  <2> HIDE DEF Bad
  <2> QED BY <1>1, LeastNumber
<1>3. k \in a..n /\ h[k] \notin S /\ k - 1 \notin Bad
  BY <1>2
<1>4. k # a
  BY <1>3
<1>5. k \in (a + 1)..n /\ h[k - 1] \in S
  BY <1>3, <1>4
<1>6. QED
  BY <1>3, <1>5

(* A function from a to n whose every value follows from the one before. *)
Follows(S, a, n, base, g, f) ==
  /\ f \in [a..n -> S]
  /\ f[a] = base
  /\ \A q \in (a + 1)..n : f[q] = g[q][f[q - 1]]

LEMMA Recursion ==
  ASSUME NEW S, NEW a \in Nat, NEW n \in Nat, a <= n, NEW base \in S, NEW g \in [(a + 1)..n -> [S -> S]]
  PROVE  \E f : Follows(S, a, n, base, g, f)
<1> DEFINE Good(m) == \E f : Follows(S, a, m, base, g, f)
           Bad == {m \in a..n : ~Good(m)}
<1>1. Good(a)
  <2> DEFINE f == [q \in a..a |-> base]
  <2>1. f \in [a..a -> S] /\ f[a] = base /\ \A q \in (a + 1)..a : FALSE
    OBVIOUS
  <2> HIDE DEF f
  <2>2. Follows(S, a, a, base, g, f)
    BY <2>1 DEF Follows
  <2>3. QED
    BY <2>2
<1>2. ASSUME NEW m \in a..(n - 1), Good(m) PROVE Good(m + 1)
  <2>1. PICK f : Follows(S, a, m, base, g, f)
    BY <1>2
  <2>2. /\ f \in [a..m -> S] /\ f[a] = base /\ m \in Nat /\ a <= m
        /\ \A q \in (a + 1)..m : f[q] = g[q][f[q - 1]]
    BY <2>1 DEF Follows
  <2> DEFINE c == g[m + 1][f[m]]
             e == [q \in a..(m + 1) |-> IF q = m + 1 THEN c ELSE f[q]]
  <2>3. c \in S
    <3>1. m + 1 \in (a + 1)..n /\ m \in a..m
      BY <2>2
    <3>2. g[m + 1] \in [S -> S] /\ f[m] \in S
      BY <2>2, <3>1
    <3>3. QED
      BY <3>2
  <2> HIDE DEF c
  <2>4. e \in [a..(m + 1) -> S] /\ e[m + 1] = c /\ \A q \in a..m : e[q] = f[q]
    BY <2>2, <2>3
  <2> HIDE DEF e
  <2>5. e[a] = base
    BY <2>2, <2>4
  <2>6. ASSUME NEW q \in (a + 1)..(m + 1) PROVE e[q] = g[q][e[q - 1]]
    <3>1. CASE q = m + 1
      <4>1. q - 1 = m /\ m \in a..m
        BY <2>2, <3>1
      <4>2. e[q - 1] = f[m]
        BY <2>4, <4>1
      <4>3. QED
        BY <2>4, <3>1, <4>2 DEF c
    <3>2. CASE q # m + 1
      <4>1. q \in (a + 1)..m /\ q \in a..m /\ q - 1 \in a..m
        BY <2>2, <3>2
      <4>2. e[q] = f[q] /\ e[q - 1] = f[q - 1]
        BY <2>4, <4>1
      <4>3. QED
        BY <2>2, <4>1, <4>2
    <3>3. QED
      BY <3>1, <3>2
  <2>7. Follows(S, a, m + 1, base, g, e)
    BY <2>4, <2>5, <2>6 DEF Follows
  <2>8. QED
    BY <2>7
<1> HIDE DEF Good
<1>3. Bad = {}
  <2> SUFFICES ASSUME Bad # {} PROVE FALSE
    OBVIOUS
  <2>1. Bad \subseteq Nat
    OBVIOUS
  <2>2. PICK m \in Bad : \A k \in Bad : m <= k
    <3> HIDE DEF Bad
    <3> QED BY <2>1, LeastNumber
  <2>3. m \in a..n /\ ~Good(m) /\ m - 1 \notin Bad
    BY <2>2
  <2>4. m - 1 \in a..(n - 1) /\ Good(m - 1)
    BY <1>1, <2>3
  <2>5. Good((m - 1) + 1) /\ (m - 1) + 1 = m
    BY <1>2, <2>3, <2>4
  <2>6. QED
    BY <2>3, <2>5
<1>4. Good(n)
  BY <1>3
<1>5. QED
  BY <1>4 DEF Good

(* The entries that there are, one after the other. *)
LEMMA ChosenFacts ==
  ASSUME NEW kept \in Seq(Nat), NEW number \in Nat
  PROVE  /\ Chosen(kept, number)[0] = <<>>
         /\ \A k \in 1..Len(kept) :
              Chosen(kept, number)[k] = IF kept[k] < number THEN Append(Chosen(kept, number)[k - 1], kept[k])
                                                       ELSE Chosen(kept, number)[k - 1]
         /\ \A k \in 0..Len(kept) : Chosen(kept, number)[k] \in Seq(Nat) /\ Len(Chosen(kept, number)[k]) <= k
<1> DEFINE n == Len(kept)
           with(k, x) == IF kept[k] < number THEN Append(x, kept[k]) ELSE x
           Defines(f) == f = [k \in 0..n |-> IF k = 0 THEN <<>> ELSE with(k, f[k - 1])]
           g == [k \in 1..n |-> [x \in Seq(Nat) |-> with(k, x)]]
<1>1. n \in Nat /\ \A k \in 1..n : kept[k] \in Nat
  OBVIOUS
<1> HIDE DEF n
<1>2. \A k \in 1..n : \A x \in Seq(Nat) : with(k, x) \in Seq(Nat) /\ Len(with(k, x)) <= Len(x) + 1
  BY <1>1
<1> HIDE DEF with
<1>3. g \in [1..n -> [Seq(Nat) -> Seq(Nat)]] /\ \A k \in 1..n : \A x \in Seq(Nat) : g[k][x] = with(k, x)
  BY <1>2, Zenon
<1> HIDE DEF g
<1>4. PICK f : Follows(Seq(Nat), 0, n, <<>>, g, f)
  <2>1. g \in [(0 + 1)..n -> [Seq(Nat) -> Seq(Nat)]] /\ 0 <= n /\ <<>> \in Seq(Nat)
    BY <1>1, <1>3
  <2>2. QED
    BY <1>1, <2>1, Recursion
<1>5. Defines(f)
  <2>1. f \in [0..n -> Seq(Nat)] /\ f[0] = <<>> /\ \A k \in 1..n : f[k] = g[k][f[k - 1]]
    BY <1>4 DEF Follows
  <2>2. \A k \in 1..n : f[k] = with(k, f[k - 1])
    <3> SUFFICES ASSUME NEW k \in 1..n PROVE f[k] = with(k, f[k - 1])
      OBVIOUS
    <3>1. k - 1 \in 0..n
      BY <1>1
    <3>2. f[k - 1] \in Seq(Nat)
      BY <2>1, <3>1
    <3>3. QED
      BY <1>3, <2>1, <3>2
  <2>3. \A k \in 0..n : k = 0 \/ k \in 1..n
    BY <1>1
  <2>4. \A k \in 0..n : f[k] = IF k = 0 THEN <<>> ELSE with(k, f[k - 1])
    BY <2>1, <2>2, <2>3, Zenon
  <2>5. f = [k \in 0..n |-> f[k]]
    BY <2>1
  <2>6. QED
    BY <2>4, <2>5, Zenon
<1> DEFINE h == CHOOSE u : Defines(u)
<1>6. Defines(h)
  BY <1>5, Zenon
<1>7. Chosen(kept, number) = h
  BY Zenon DEF Chosen, n, with
<1> HIDE DEF h
<1>8. h[0] = <<>> /\ \A k \in 1..n : h[k] = with(k, h[k - 1])
  <2>1. \A k \in 0..n : h[k] = IF k = 0 THEN <<>> ELSE with(k, h[k - 1])
    BY <1>6, Zenon
  <2>2. 0 \in 0..n /\ \A k \in 1..n : k \in 0..n /\ k # 0
    BY <1>1
  <2>3. QED
    BY <2>1, <2>2, Zenon
<1>9. \A k \in 0..n : h[k] \in Seq(Nat)
  <2>1. h[0] \in Seq(Nat) /\ \A k \in (0 + 1)..n : h[k - 1] \in Seq(Nat) => h[k] \in Seq(Nat)
    BY <1>1, <1>2, <1>8
  <2>2. PICK S : S = Seq(Nat)
    BY Zenon
  <2>3. h[0] \in S /\ \A k \in (0 + 1)..n : h[k - 1] \in S => h[k] \in S
    BY <2>1, <2>2, Zenon
  <2>4. \A k \in 0..n : h[k] \in S
    BY <1>1, <2>3, Stays
  <2>5. QED
    BY <2>2, <2>4, Zenon
<1> DEFINE short == [k \in 0..n |-> Len(h[k]) <= k]
<1>10. \A k \in 0..n : short[k] = (Len(h[k]) <= k)
  BY Zenon
<1> HIDE DEF short
<1>11. \A k \in 0..n : short[k] \in {TRUE}
  <2>1. short[0] \in {TRUE}
    <3>1. 0 \in 0..n /\ Len(h[0]) <= 0
      BY <1>1, <1>8
    <3>2. QED
      BY <1>10, <3>1, Zenon
  <2>2. ASSUME NEW k \in (0 + 1)..n, short[k - 1] \in {TRUE} PROVE short[k] \in {TRUE}
    <3>1. k \in 1..n /\ k - 1 \in 0..n /\ k \in 0..n /\ k \in Nat
      BY <1>1
    <3>2. Len(h[k - 1]) <= k - 1
      BY <1>10, <2>2, <3>1, Zenon
    <3>3. h[k - 1] \in Seq(Nat) /\ h[k] = with(k, h[k - 1])
      BY <1>8, <1>9, <3>1
    <3>4. Len(h[k]) <= Len(h[k - 1]) + 1 /\ h[k] \in Seq(Nat)
      BY <1>2, <3>1, <3>3
    <3>5. Len(h[k]) <= k
      BY <3>1, <3>2, <3>3, <3>4
    <3>6. QED
      BY <1>10, <3>1, <3>5, Zenon
  <2>3. PICK T : T = {TRUE}
    BY Zenon
  <2>4. short[0] \in T /\ \A k \in (0 + 1)..n : short[k - 1] \in T => short[k] \in T
    BY <2>1, <2>2, <2>3, Zenon
  <2>5. \A k \in 0..n : short[k] \in T
    BY <1>1, <2>4, Stays
  <2>6. QED
    BY <2>3, <2>5, Zenon
<1>12. \A k \in 0..n : Len(h[k]) <= k
  BY <1>10, <1>11, Zenon
<1>13. QED
  BY <1>7, <1>8, <1>9, <1>12, Zenon DEF n, with

(* The loop of cmain has looked at p of the kept numbers: those that there *)
(* are come first in the array f, then those it has not looked at, then -1. *)
LoopAt(kept, chosen, f, j, p) ==
  /\ j = Len(chosen[p])
  /\ \A s \in 0 .. j - 1 : f[s] = chosen[p][s + 1]
  /\ \A q \in 1 .. Len(kept) - p : f[j + q - 1] = kept[p + q]
  /\ f[j + Len(kept) - p] = -1

(* The array lists v. *)
Lists(v, f) ==
  /\ Len(v) <= MaxFallback /\ (Len(v) < MaxFallback => f[Len(v)] = -1)
  /\ \A s \in 0 .. Len(v) - 1 : f[s] = v[s + 1]

(* The same in a full array, which no -1 ends: when an entry is shifted    *)
(* out, the last one stays behind, again and again.                        *)
FullAt(kept, chosen, f, j, p) ==
  /\ Len(chosen[p]) <= j /\ (p < MaxFallback => j = Len(chosen[p]))
  /\ \A s \in 0 .. Len(chosen[p]) - 1 : f[s] = chosen[p][s + 1]
  /\ \A q \in 1 .. MaxFallback - p : f[Len(chosen[p]) + q - 1] = kept[p + q]
  /\ \A s \in Slots : s >= Len(chosen[p]) + MaxFallback - p => f[s] = kept[MaxFallback]

LEMMA LoopShifts ==
  ASSUME NEW kept \in Seq(Nat), Len(kept) < MaxFallback, NEW number \in Nat,
         NEW f \in [Slots -> Int], NEW j \in Slots, NEW p \in 0 .. Len(kept),
         LoopAt(kept, Chosen(kept, number), f, j, p), f[j] >= number,
         NEW f2, f2 = [s \in Slots |-> IF s >= j /\ s < MaxFallback - 1 THEN f[s + 1] ELSE f[s]]
  PROVE  p + 1 \in 0 .. Len(kept) /\ LoopAt(kept, Chosen(kept, number), f2, j, p + 1)
<1>1. PICK c, m : c = Chosen(kept, number) /\ m = Len(kept)
  BY Zenon
<1>2. /\ m \in Nat /\ p \in 0..m /\ MaxFallback \in Nat \ {0} /\ m < MaxFallback
      /\ j \in 0 .. MaxFallback - 1
  BY <1>1, BoundsAssumption DEF Slots
<1>3. /\ \A k \in 1..m : c[k] = IF kept[k] < number THEN Append(c[k - 1], kept[k]) ELSE c[k - 1]
      /\ \A k \in 0..m : c[k] \in Seq(Nat) /\ Len(c[k]) <= k
  BY <1>1, ChosenFacts
<1>4. /\ j = Len(c[p]) /\ \A s \in 0 .. j - 1 : f[s] = c[p][s + 1]
      /\ \A q \in 1 .. m - p : f[j + q - 1] = kept[p + q]
      /\ f[j + m - p] = -1
  BY <1>1, <1>2, <1>3 DEF LoopAt
<1>a. j <= p
  BY <1>2, <1>3, <1>4
<1>5. p < m
  BY <1>2, <1>4
<1>6. f[j] = kept[p + 1] /\ p + 1 \in 1..m
  BY <1>2, <1>4, <1>5, SMTT(30)
<1>7. c[p + 1] = c[p]
  <2>1. (p + 1) - 1 = p /\ ~(kept[p + 1] < number)
    <3>1. kept[p + 1] \in Nat
      BY <1>1, <1>6
    <3>2. QED
      BY <1>2, <1>6, <3>1
  <2>2. QED
    BY <1>3, <1>6, <2>1
<1>8. \A s \in Slots : f2[s] = IF s >= j /\ s < MaxFallback - 1 THEN f[s + 1] ELSE f[s]
  OBVIOUS
<1>9. \A s \in 0 .. j - 1 : f2[s] = c[p + 1][s + 1]
  <2> SUFFICES ASSUME NEW s \in 0 .. j - 1 PROVE f2[s] = c[p + 1][s + 1]
    OBVIOUS
  <2>1. s \in Slots /\ ~(s >= j)
    BY <1>2 DEF Slots
  <2>2. QED
    BY <1>4, <1>7, <1>8, <2>1
<1>10. \A q \in 1 .. m - (p + 1) : f2[j + q - 1] = kept[(p + 1) + q]
  <2> SUFFICES ASSUME NEW q \in 1 .. m - (p + 1) PROVE f2[j + q - 1] = kept[(p + 1) + q]
    OBVIOUS
  <2>1. /\ j + q - 1 \in Slots /\ j + q - 1 >= j /\ j + q - 1 < MaxFallback - 1
        /\ q + 1 \in 1 .. m - p /\ (j + q - 1) + 1 = j + (q + 1) - 1 /\ (p + 1) + q = p + (q + 1)
    <3>1. m \in Nat /\ p \in Nat /\ j \in Nat /\ q \in Nat /\ MaxFallback \in Nat
      BY <1>2
    <3>2. q >= 1 /\ q + p + 1 <= m /\ j <= p /\ m < MaxFallback
      BY <1>2, <1>a, <3>1
    <3>3. QED
      BY <3>1, <3>2 DEF Slots
  <2>2. f2[j + q - 1] = f[j + (q + 1) - 1]
    BY <1>8, <2>1
  <2>3. QED
    BY <1>4, <2>1, <2>2
<1>11. f2[j + m - (p + 1)] = -1
  <2>1. /\ j + m - (p + 1) \in Slots /\ j + m - (p + 1) >= j /\ j + m - (p + 1) < MaxFallback - 1
        /\ (j + m - (p + 1)) + 1 = j + m - p
    <3>1. m \in Nat /\ p \in Nat /\ j \in Nat /\ MaxFallback \in Nat
      BY <1>2
    <3>2. p + 1 <= m /\ j <= p /\ m < MaxFallback
      BY <1>2, <1>5, <1>a, <3>1
    <3>3. QED
      BY <3>1, <3>2 DEF Slots
  <2>2. QED
    BY <1>4, <1>8, <2>1
<1>12. p + 1 \in 0..m
  BY <1>2, <1>5
<1>13. QED
  BY <1>1, <1>4, <1>7, <1>9, <1>10, <1>11, <1>12 DEF LoopAt

LEMMA LoopGoesOn ==
  ASSUME NEW kept \in Seq(Nat), Len(kept) < MaxFallback, NEW number \in Nat,
         NEW f \in [Slots -> Int], NEW j \in Slots, NEW p \in 0 .. Len(kept),
         LoopAt(kept, Chosen(kept, number), f, j, p), 0 <= f[j], f[j] < number
  PROVE  p + 1 \in 0 .. Len(kept) /\ LoopAt(kept, Chosen(kept, number), f, j + 1, p + 1)
<1>1. PICK c, m : c = Chosen(kept, number) /\ m = Len(kept)
  BY Zenon
<1>2. m \in Nat /\ p \in 0..m /\ j \in Nat
  BY <1>1, BoundsAssumption DEF Slots
<1>3. /\ \A k \in 1..m : c[k] = IF kept[k] < number THEN Append(c[k - 1], kept[k]) ELSE c[k - 1]
      /\ \A k \in 0..m : c[k] \in Seq(Nat) /\ Len(c[k]) <= k
  BY <1>1, ChosenFacts
<1>4. /\ j = Len(c[p]) /\ \A s \in 0 .. j - 1 : f[s] = c[p][s + 1]
      /\ \A q \in 1 .. m - p : f[j + q - 1] = kept[p + q]
      /\ f[j + m - p] = -1
  BY <1>1 DEF LoopAt
<1>5. p < m
  <2> SUFFICES ASSUME p = m PROVE FALSE
    BY <1>2
  <2>1. j + m - p = j
    BY <1>2
  <2>2. f[j] = -1
    BY <1>4, <2>1
  <2>3. QED
    BY <2>2
<1>6. f[j] = kept[p + 1] /\ p + 1 \in 1..m /\ p + 1 \in 0..m
  BY <1>2, <1>4, <1>5
<1>7. c[p + 1] = Append(c[p], f[j]) /\ f[j] \in Nat /\ c[p] \in Seq(Nat)
  <2>1. (p + 1) - 1 = p /\ kept[p + 1] < number
    BY <1>2, <1>6
  <2>2. c[p + 1] = Append(c[p], kept[p + 1])
    BY <1>3, <1>6, <2>1
  <2>3. QED
    BY <1>1, <1>2, <1>3, <1>6, <2>2
<1>8. PICK x, y : x = c[p] /\ y = c[p + 1]
  BY Zenon
<1>9. x \in Seq(Nat) /\ Len(x) = j /\ y = Append(x, f[j])
  BY <1>4, <1>7, <1>8
<1>10. Len(y) = j + 1 /\ y[j + 1] = f[j] /\ \A s \in 1..j : y[s] = x[s]
  BY <1>7, <1>9
<1>11. \A s \in 0 .. (j + 1) - 1 : f[s] = y[s + 1]
  <2> SUFFICES ASSUME NEW s \in 0 .. (j + 1) - 1 PROVE f[s] = y[s + 1]
    OBVIOUS
  <2>1. CASE s = j
    BY <1>10, <2>1
  <2>2. CASE s # j
    <3>1. s \in 0 .. j - 1 /\ s + 1 \in 1..j
      BY <1>2, <2>2
    <3>2. QED
      BY <1>4, <1>8, <1>10, <3>1
  <2>3. QED
    BY <2>1, <2>2
<1>12. \A q \in 1 .. m - (p + 1) : f[(j + 1) + q - 1] = kept[(p + 1) + q]
  <2> SUFFICES ASSUME NEW q \in 1 .. m - (p + 1) PROVE f[(j + 1) + q - 1] = kept[(p + 1) + q]
    OBVIOUS
  <2>1. q + 1 \in 1 .. m - p /\ (j + 1) + q - 1 = j + (q + 1) - 1 /\ (p + 1) + q = p + (q + 1)
    BY <1>2
  <2>2. QED
    BY <1>4, <2>1
<1>13. f[(j + 1) + m - (p + 1)] = -1
  <2>1. (j + 1) + m - (p + 1) = j + m - p
    BY <1>2
  <2>2. QED
    BY <1>4, <2>1
<1>14. QED
  BY <1>1, <1>6, <1>8, <1>10, <1>11, <1>12, <1>13 DEF LoopAt

LEMMA LoopEnds ==
  ASSUME NEW kept \in Seq(Nat), Len(kept) < MaxFallback, NEW number \in Nat,
         NEW f \in [Slots -> Int], NEW j \in 0 .. MaxFallback, NEW p \in 0 .. Len(kept),
         LoopAt(kept, Chosen(kept, number), f, j, p), j < MaxFallback => f[j] < 0
  PROVE  Lists(Chosen(kept, number)[Len(kept)], f)
<1>1. PICK c, m : c = Chosen(kept, number) /\ m = Len(kept)
  BY Zenon
<1>2. m \in Nat /\ p \in 0..m /\ MaxFallback \in Nat /\ m < MaxFallback
  BY <1>1, BoundsAssumption
<1>3. \A k \in 0..m : c[k] \in Seq(Nat) /\ Len(c[k]) <= k
  BY <1>1, ChosenFacts
<1>4. /\ j = Len(c[p]) /\ \A s \in 0 .. j - 1 : f[s] = c[p][s + 1]
      /\ \A q \in 1 .. m - p : f[j + q - 1] = kept[p + q]
      /\ f[j + m - p] = -1 /\ j <= p /\ j \in Nat
  BY <1>1, <1>2, <1>3 DEF LoopAt
<1>5. p = m
  <2> SUFFICES ASSUME p # m PROVE FALSE
    OBVIOUS
  <2>1. 1 \in 1 .. m - p /\ p + 1 \in 1..m /\ j < MaxFallback /\ j + 1 - 1 = j
    BY <1>2, <1>4
  <2>2. f[j] = kept[p + 1] /\ kept[p + 1] \in Nat /\ f[j] < 0
    BY <1>1, <1>4, <2>1
  <2>3. QED
    BY <2>2
<1>6. j + m - p = j /\ j < MaxFallback
  BY <1>2, <1>4, <1>5
<1>7. QED
  BY <1>1, <1>4, <1>5, <1>6 DEF Lists
LEMMA FullShifts ==
  ASSUME NEW kept \in Seq(Nat), Len(kept) = MaxFallback, NEW number \in Nat,
         NEW f \in [Slots -> Int], NEW j \in Slots, NEW p \in 0 .. MaxFallback,
         FullAt(kept, Chosen(kept, number), f, j, p), f[j] >= number,
         NEW f2, f2 = [s \in Slots |-> IF s >= j /\ s < MaxFallback - 1 THEN f[s + 1] ELSE f[s]]
  PROVE  \E p2 \in 0 .. MaxFallback : FullAt(kept, Chosen(kept, number), f2, j, p2)
<1>1. PICK c, m : c = Chosen(kept, number) /\ m = MaxFallback
  BY Zenon
<1>2. m \in Nat \ {0} /\ p \in 0..m /\ j \in 0 .. m - 1 /\ Slots = 0 .. m - 1 /\ Len(kept) = m
  BY <1>1, BoundsAssumption DEF Slots
<1>3. /\ \A k \in 1..m : c[k] = IF kept[k] < number THEN Append(c[k - 1], kept[k]) ELSE c[k - 1]
      /\ \A k \in 0..m : c[k] \in Seq(Nat) /\ Len(c[k]) <= k
  BY <1>1, ChosenFacts
<1>4. PICK l : l = Len(c[p])
  BY Zenon
<1>5. /\ l \in Nat /\ l <= p /\ l <= j /\ (p < m => j = l)
      /\ \A s \in 0 .. l - 1 : f[s] = c[p][s + 1]
      /\ \A q \in 1 .. m - p : f[l + q - 1] = kept[p + q]
      /\ \A s \in 0 .. m - 1 : s >= l + m - p => f[s] = kept[m]
  <2>1. l \in Nat /\ l <= p
    BY <1>2, <1>3, <1>4
  <2>2. QED
    BY <1>1, <1>2, <1>4, <2>1, Zenon DEF FullAt
<1>6. \A s \in 0 .. m - 1 : f2[s] = IF s >= j /\ s < m - 1 THEN f[s + 1] ELSE f[s]
  BY <1>1, <1>2
<1>7. \A s \in 0 .. l - 1 : f2[s] = f[s]
  BY <1>2, <1>5, <1>6
<1>8. CASE p < m
  <2>1. f[l] = kept[p + 1] /\ p + 1 \in 1..m /\ j = l
    <3>1. 1 \in 1 .. m - p /\ l + 1 - 1 = l
      BY <1>2, <1>5, <1>8
    <3>2. f[l + 1 - 1] = kept[p + 1]
      BY <1>5, <3>1
    <3>3. QED
      BY <1>2, <1>5, <1>8, <3>1, <3>2
  <2>2. c[p + 1] = c[p]
    <3>1. (p + 1) - 1 = p /\ ~(kept[p + 1] < number)
      BY <1>2, <2>1
    <3>2. QED
      BY <1>3, <2>1, <3>1
  <2>3. \A q \in 1 .. m - (p + 1) : f2[l + q - 1] = kept[(p + 1) + q]
    <3> SUFFICES ASSUME NEW q \in 1 .. m - (p + 1) PROVE f2[l + q - 1] = kept[(p + 1) + q]
      OBVIOUS
    <3>1. /\ l + q - 1 \in 0 .. m - 1 /\ l + q - 1 >= j /\ l + q - 1 < m - 1
          /\ q + 1 \in 1 .. m - p /\ (l + q - 1) + 1 = l + (q + 1) - 1 /\ (p + 1) + q = p + (q + 1)
      BY <1>2, <1>5, <2>1, SMTT(30)
    <3>2. QED
      BY <1>5, <1>6, <3>1
  <2>4. \A s \in 0 .. m - 1 : s >= l + m - (p + 1) => f2[s] = kept[m]
    <3> SUFFICES ASSUME NEW s \in 0 .. m - 1, s >= l + m - (p + 1) PROVE f2[s] = kept[m]
      OBVIOUS
    <3>1. CASE s < m - 1
      <4>1. s >= j /\ s + 1 \in 0 .. m - 1 /\ s + 1 >= l + m - p
        BY <1>2, <1>5, <1>8, <2>1, <3>1
      <4>2. QED
        BY <1>5, <1>6, <3>1, <4>1
    <3>2. CASE s = m - 1
      <4>1. f2[s] = f[s]
        <5>1. ~(s < m - 1)
          BY <1>2, <3>2
        <5>2. QED
          BY <1>6, <5>1
      <4>2. CASE s >= l + m - p
        BY <1>5, <4>1, <4>2
      <4>3. CASE ~(s >= l + m - p)
        <5>1. m - p \in 1 .. m - p /\ l + (m - p) - 1 = s /\ p + (m - p) = m
          BY <1>2, <1>5, <1>8, <3>2, <4>3
        <5>2. QED
          BY <1>5, <4>1, <5>1
      <4>4. QED
        BY <4>2, <4>3
    <3>3. QED
      BY <1>2, <3>1, <3>2
  <2>5. FullAt(kept, c, f2, j, p + 1)
    <3>1. Len(c[p + 1]) = l /\ \A s \in 0 .. l - 1 : f2[s] = c[p + 1][s + 1]
      BY <1>4, <1>5, <1>7, <2>2, Zenon
    <3>2. Len(c[p + 1]) <= j /\ (p + 1 < m => j = Len(c[p + 1]))
      BY <1>5, <2>1, <3>1
    <3>3. QED
      BY <1>1, <1>2, <2>3, <2>4, <3>1, <3>2, ZenonT(60) DEF FullAt
  <2>6. p + 1 \in 0..m
    BY <2>1
  <2>7. QED
    BY <1>1, <2>5, <2>6
<1>9. CASE p = m
  <2>1. \A s \in 0 .. m - 1 : s >= l + m - p => f2[s] = kept[m]
    <3> SUFFICES ASSUME NEW s \in 0 .. m - 1, s >= l PROVE f2[s] = kept[m]
      BY <1>2, <1>5, <1>9
    <3>1. s >= l + m - p /\ (s < m - 1 => s + 1 \in 0 .. m - 1 /\ s + 1 >= l + m - p)
      BY <1>2, <1>5, <1>9
    <3>2. QED
      BY <1>5, <1>6, <3>1
  <2>2. \A q \in 1 .. m - p : f2[l + q - 1] = kept[p + q]
    BY <1>2, <1>9
  <2>b. \A s \in 0 .. l - 1 : f2[s] = c[p][s + 1]
    BY <1>5, <1>7, Zenon
  <2>c. p < m => j = Len(c[p])
    BY <1>4, <1>5
  <2>3. FullAt(kept, c, f2, j, p)
    BY <1>1, <1>2, <1>4, <1>5, <2>1, <2>2, <2>b, <2>c, ZenonT(60) DEF FullAt
  <2>4. QED
    BY <1>1, <2>3
<1>10. p < m \/ p = m
  BY <1>2
<1>11. QED
  BY <1>8, <1>9, <1>10, Zenon

LEMMA FullGoesOn ==
  ASSUME NEW kept \in Seq(Nat), Len(kept) = MaxFallback, NEW number \in Nat,
         NEW f \in [Slots -> Int], NEW j \in Slots, NEW p \in 0 .. MaxFallback,
         FullAt(kept, Chosen(kept, number), f, j, p), 0 <= f[j], f[j] < number
  PROVE  \E p2 \in 0 .. MaxFallback : FullAt(kept, Chosen(kept, number), f, j + 1, p2)
<1>1. PICK c, m : c = Chosen(kept, number) /\ m = MaxFallback
  BY Zenon
<1>2. m \in Nat \ {0} /\ p \in 0..m /\ j \in 0 .. m - 1 /\ Slots = 0 .. m - 1 /\ Len(kept) = m
  BY <1>1, BoundsAssumption DEF Slots
<1>3. /\ \A k \in 1..m : c[k] = IF kept[k] < number THEN Append(c[k - 1], kept[k]) ELSE c[k - 1]
      /\ \A k \in 0..m : c[k] \in Seq(Nat) /\ Len(c[k]) <= k
  BY <1>1, ChosenFacts
<1>4. PICK l : l = Len(c[p])
  BY Zenon
<1>5. /\ l \in Nat /\ l <= p /\ l <= j /\ (p < m => j = l)
      /\ \A s \in 0 .. l - 1 : f[s] = c[p][s + 1]
      /\ \A q \in 1 .. m - p : f[l + q - 1] = kept[p + q]
      /\ \A s \in 0 .. m - 1 : s >= l + m - p => f[s] = kept[m]
  <2>1. l \in Nat /\ l <= p
    BY <1>2, <1>3, <1>4
  <2>2. QED
    BY <1>1, <1>2, <1>4, <2>1, Zenon DEF FullAt
<1>6. CASE p < m
  <2>1. f[l] = kept[p + 1] /\ p + 1 \in 1..m /\ j = l
    <3>1. 1 \in 1 .. m - p /\ l + 1 - 1 = l
      BY <1>2, <1>5, <1>6
    <3>2. f[l + 1 - 1] = kept[p + 1]
      BY <1>5, <3>1
    <3>3. QED
      BY <1>2, <1>5, <1>6, <3>1, <3>2
  <2>2. PICK x, y : x = c[p] /\ y = c[p + 1]
    BY Zenon
  <2>3. y = Append(x, f[l]) /\ f[l] \in Nat /\ x \in Seq(Nat) /\ Len(x) = l
    <3>1. (p + 1) - 1 = p /\ kept[p + 1] < number /\ kept[p + 1] \in Nat
      BY <1>2, <2>1
    <3>2. c[p + 1] = Append(c[p], kept[p + 1])
      BY <1>3, <2>1, <3>1
    <3>3. x \in Seq(Nat) /\ Len(x) = l
      BY <1>2, <1>3, <1>4, <2>2
    <3>4. QED
      BY <2>1, <2>2, <3>1, <3>2, <3>3
  <2>4. Len(y) = l + 1 /\ y[l + 1] = f[l] /\ \A s \in 1..l : y[s] = x[s]
    <3>1. PICK e : e = f[l]
      BY Zenon
    <3>2. x \in Seq(Nat) /\ e \in Nat /\ y = Append(x, e) /\ Len(x) = l
      BY <2>3, <3>1
    <3>3. PICK S : S = Nat
      BY Zenon
    <3>4. x \in Seq(S) /\ e \in S
      BY <3>2, <3>3, Zenon
    <3>5. /\ Len(Append(x, e)) = Len(x) + 1 /\ Append(x, e)[Len(x) + 1] = e
          /\ \A s \in 1 .. Len(x) : Append(x, e)[s] = x[s]
      BY <3>4, AppendProperties, SMTT(30)
    <3>6. QED
      BY <3>1, <3>2, <3>5, Zenon
  <2>5. \A s \in 0 .. (l + 1) - 1 : f[s] = y[s + 1]
    <3> SUFFICES ASSUME NEW s \in 0..l PROVE f[s] = y[s + 1]
      BY <1>5
    <3>1. CASE s = l
      BY <2>4, <3>1
    <3>2. CASE s # l
      <4>1. s \in 0 .. l - 1 /\ s + 1 \in 1..l
        BY <1>5, <3>2
      <4>2. QED
        BY <1>5, <2>2, <2>4, <4>1
    <3>3. QED
      BY <3>1, <3>2
  <2>6. \A q \in 1 .. m - (p + 1) : f[(l + 1) + q - 1] = kept[(p + 1) + q]
    <3> SUFFICES ASSUME NEW q \in 1 .. m - (p + 1) PROVE f[(l + 1) + q - 1] = kept[(p + 1) + q]
      OBVIOUS
    <3>1. q + 1 \in 1 .. m - p /\ (l + 1) + q - 1 = l + (q + 1) - 1 /\ (p + 1) + q = p + (q + 1)
      BY <1>2, <1>5
    <3>2. QED
      BY <1>5, <3>1
  <2>7. \A s \in 0 .. m - 1 : s >= (l + 1) + m - (p + 1) => f[s] = kept[m]
    <3>1. (l + 1) + m - (p + 1) = l + m - p
      BY <1>2, <1>5
    <3>2. QED
      BY <1>5, <3>1
  <2>8. FullAt(kept, c, f, j + 1, p + 1)
    <3>1. Len(c[p + 1]) = l + 1 /\ l + 1 <= j + 1 /\ j + 1 = l + 1
      BY <1>5, <2>1, <2>2, <2>4
    <3>2. QED
      BY <1>1, <1>2, <2>2, <2>5, <2>6, <2>7, <3>1, Zenon DEF FullAt
  <2>9. p + 1 \in 0..m
    BY <2>1
  <2>10. QED
    BY <1>1, <2>8, <2>9
<1>7. CASE p = m
  <2>1. l <= j + 1 /\ ~(p < m)
    BY <1>2, <1>5, <1>7
  <2>2. FullAt(kept, c, f, j + 1, p)
    BY <1>1, <1>2, <1>4, <1>5, <2>1, Zenon DEF FullAt
  <2>3. QED
    BY <1>1, <2>2
<1>8. p < m \/ p = m
  BY <1>2
<1>9. QED
  BY <1>6, <1>7, <1>8, Zenon

(* A list and copies of an entry behind it. *)
LEMMA Copies ==
  ASSUME NEW v \in Seq(Nat), NEW x \in Nat, NEW k \in Nat
  PROVE  LET w == v \o [n \in 1..k |-> x]
         IN  /\ w \in Seq(Nat) /\ Len(w) = Len(v) + k
             /\ \A s \in 1 .. Len(v) : w[s] = v[s]
             /\ \A s \in Len(v) + 1 .. Len(v) + k : w[s] = x
<1>1. PICK u : u = [n \in 1..k |-> x]
  BY Zenon
<1>2. u \in Seq(Nat) /\ Len(u) = k /\ \A n \in 1..k : u[n] = x
  BY <1>1
<1>3. PICK w : w = v \o u
  BY Zenon
<1>4. PICK S : S = Nat
  BY Zenon
<1>5. v \in Seq(S) /\ u \in Seq(S)
  BY <1>2, <1>4
<1>6. /\ w \in Seq(S) /\ Len(w) = Len(v) + Len(u)
      /\ \A s \in 1 .. Len(v) + Len(u) : w[s] = IF s <= Len(v) THEN v[s] ELSE u[s - Len(v)]
  BY <1>3, <1>5, ConcatProperties, SMTT(30)
<1>7. Len(v) \in Nat
  OBVIOUS
<1>8. \A s \in 1 .. Len(v) : w[s] = v[s]
  BY <1>2, <1>6, <1>7
<1>9. \A s \in Len(v) + 1 .. Len(v) + k : w[s] = x
  BY <1>2, <1>6, <1>7
<1>10. QED
  BY <1>1, <1>2, <1>3, <1>4, <1>6, <1>8, <1>9, Zenon

LEMMA FullEnds ==
  ASSUME NEW kept \in Seq(Nat), Len(kept) = MaxFallback, NEW number \in Nat,
         NEW f \in [Slots -> Int], NEW j \in 0 .. MaxFallback, NEW p \in 0 .. MaxFallback,
         FullAt(kept, Chosen(kept, number), f, j, p), j < MaxFallback => f[j] < 0,
         NEW v, v = Chosen(kept, number)[MaxFallback]
  PROVE  Lists(v \o [n \in 1 .. MaxFallback - Len(v) |-> kept[MaxFallback]], f)
<1>1. PICK c, m : c = Chosen(kept, number) /\ m = MaxFallback
  BY Zenon
<1>2. m \in Nat \ {0} /\ p \in 0..m /\ j \in 0..m /\ Slots = 0 .. m - 1 /\ Len(kept) = m
  BY <1>1, BoundsAssumption DEF Slots
<1>3. \A k \in 0..m : c[k] \in Seq(Nat) /\ Len(c[k]) <= k
  BY <1>1, <1>2, ChosenFacts
<1>4. PICK l : l = Len(c[p])
  BY Zenon
<1>5. /\ l \in Nat /\ l <= p /\ l <= j /\ (p < m => j = l)
      /\ \A s \in 0 .. l - 1 : f[s] = c[p][s + 1]
      /\ \A q \in 1 .. m - p : f[l + q - 1] = kept[p + q]
      /\ \A s \in 0 .. m - 1 : s >= l + m - p => f[s] = kept[m]
  <2>1. l \in Nat /\ l <= p
    BY <1>2, <1>3, <1>4
  <2>2. QED
    BY <1>1, <1>2, <1>4, <2>1, Zenon DEF FullAt
<1>6. p = m
  <2> SUFFICES ASSUME p # m PROVE FALSE
    OBVIOUS
  <2>1. 1 \in 1 .. m - p /\ p + 1 \in 1..m /\ j < m /\ j = l /\ l + 1 - 1 = l
    BY <1>2, <1>5
  <2>a. f[l + 1 - 1] = kept[p + 1]
    BY <1>5, <2>1
  <2>2. f[j] = kept[p + 1] /\ kept[p + 1] \in Nat /\ f[j] < 0
    BY <1>1, <1>2, <2>1, <2>a
  <2>3. QED
    BY <2>2
<1>7. v = c[p] /\ v \in Seq(Nat) /\ Len(v) = l /\ l <= m /\ kept[m] \in Nat
  BY <1>1, <1>2, <1>3, <1>4, <1>5, <1>6
<1>8. PICK w : w = v \o [n \in 1 .. m - l |-> kept[m]]
  BY Zenon
<1>9. /\ Len(w) = m
      /\ \A s \in 1..l : w[s] = v[s]
      /\ \A s \in l + 1 .. m : w[s] = kept[m]
  <2>1. m - l \in Nat /\ l + (m - l) = m
    BY <1>2, <1>5, <1>7
  <2>2. QED
    BY <1>7, <1>8, <2>1, Copies, SMTT(30)
<1>10. \A s \in 0 .. m - 1 : f[s] = w[s + 1]
  <2> SUFFICES ASSUME NEW s \in 0 .. m - 1 PROVE f[s] = w[s + 1]
    OBVIOUS
  <2>1. CASE s < l
    <3>1. s \in 0 .. l - 1 /\ s + 1 \in 1..l
      BY <1>5, <2>1
    <3>2. QED
      BY <1>5, <1>7, <1>9, <3>1
  <2>2. CASE ~(s < l)
    <3>1. s >= l + m - p /\ s + 1 \in l + 1 .. m
      BY <1>2, <1>5, <1>6, <2>2
    <3>2. QED
      BY <1>5, <1>9, <3>1
  <2>3. QED
    BY <2>1, <2>2
<1>11. Lists(w, f)
  BY <1>1, <1>2, <1>9, <1>10 DEF Lists
<1>12. QED
  BY <1>1, <1>7, <1>8, <1>11
-----------------------------------------------------------------------------
(* While cmain validates, the array is what the loop has made of the kept  *)
(* numbers; afterwards it lists the valid ones, as long as a fallback is   *)
(* left; and the entries run since the menu was left are a stretch of them *)
(* up to the one that is next.                                             *)
Validating ==
  at = "validate" =>
    \/ /\ ~Full
       /\ \E p \in 0 .. Len(Kept(asked)) :
            LoopAt(Kept(asked), Chosen(Kept(asked), nr_entries), fallback_entries, checking, p)
    \/ /\ Full
       /\ \E p \in 0 .. MaxFallback :
            FullAt(Kept(asked), Chosen(Kept(asked), nr_entries), fallback_entries, checking, p)
Listed ==
  at \in {"default", "hidden", "menu", "run"} /\ fallback_entryno >= 0 =>
    Lists(Filled, fallback_entries)
Turn(v, r, k, f) ==
  /\ Len(r) >= 1 /\ k + Len(r) <= Len(v) + 1
  /\ Tail(r) = SubSeq(v, k + 1, k + Len(r) - 1)
  /\ f >= 0 => k + Len(r) - 1 = f
InTurn ==
  at = "run" /\ ~in_editor => \E k \in 0 .. Len(Filled) : Turn(Filled, ran, k, fallback_entryno)
FInv == BInv /\ asked \in Seq(Nat) /\ Validating /\ Listed /\ InTurn

LEMMA TurnBegins ==
  ASSUME NEW v \in Seq(Nat), NEW e, NEW k \in 0 .. Len(v), NEW f \in Int, f >= 0 => k = f
  PROVE  Turn(v, <<e>>, k, f)
<1>1. Len(<<e>>) = 1 /\ k \in Nat /\ Len(v) \in Nat
  OBVIOUS
<1>2. Tail(<<e>>) = <<>>
  OBVIOUS
<1>3. SubSeq(v, k + 1, k + 1 - 1) = <<>>
  BY <1>1
<1>4. QED
  BY <1>1, <1>2, <1>3 DEF Turn

LEMMA TurnGoesOn ==
  ASSUME NEW v \in Seq(Nat), NEW r \in Seq(Int), NEW k \in 0 .. Len(v), NEW f \in Nat,
         Turn(v, r, k, f), f < Len(v), NEW x, x = v[f + 1],
         NEW f2 \in Int, f2 >= 0 => f2 = f + 1
  PROVE  Turn(v, Append(r, x), k, f2)
<1>1. PICK n : n = Len(r)
  BY Zenon
<1>2. /\ n \in Nat /\ n >= 1 /\ k \in Nat /\ k + n - 1 = f /\ f < Len(v)
      /\ Tail(r) = SubSeq(v, k + 1, k + n - 1) /\ Len(v) \in Nat
  BY <1>1 DEF Turn
<1>3. x \in Nat /\ x \in Int
  <2>1. f + 1 \in 1 .. Len(v)
    BY <1>2
  <2>2. v[f + 1] \in Nat
    BY <2>1
  <2>3. QED
    BY <2>2
<1>4. PICK w : w = Append(r, x)
  BY Zenon
<1>5. /\ w \in Seq(Int) /\ w # <<>> /\ Len(w) = n + 1
      /\ \A m \in 1..n : w[m] = r[m]
      /\ w[n + 1] = x
  <2>1. /\ Append(r, x) \in Seq(Int) /\ Append(r, x) # <<>>
        /\ Len(Append(r, x)) = Len(r) + 1
        /\ \A m \in 1 .. Len(r) : Append(r, x)[m] = r[m]
        /\ Append(r, x)[Len(r) + 1] = x
    <3>1. PICK S : S = Int
      BY Zenon
    <3>2. r \in Seq(S) /\ x \in S
      BY <1>3, <3>1, Zenon
    <3>3. /\ Append(r, x) \in Seq(S) /\ Append(r, x) # <<>>
          /\ Len(Append(r, x)) = Len(r) + 1
          /\ \A m \in 1 .. Len(r) : Append(r, x)[m] = r[m]
          /\ Append(r, x)[Len(r) + 1] = x
      BY <3>2, AppendProperties, SMTT(30)
    <3>4. QED
      BY <3>1, <3>3, Zenon
  <2>2. QED
    BY <1>1, <1>4, <2>1, Zenon
<1>6. Tail(w) \in Seq(Int) /\ Len(Tail(w)) = n /\ \A m \in 1..n : Tail(w)[m] = w[m + 1]
  <2>1. /\ Tail(w) \in Seq(Int) /\ Len(Tail(w)) = Len(w) - 1
        /\ \A m \in 1 .. Len(Tail(w)) : Tail(w)[m] = w[m + 1]
    BY <1>5, HeadTailProperties
  <2>2. Len(Tail(w)) = n
    BY <1>2, <1>5, <2>1
  <2>3. QED
    BY <2>1, <2>2
<1>7. PICK z : z = SubSeq(v, k + 1, k + n)
  BY Zenon
<1>8. z \in Seq(Int) /\ Len(z) = n /\ \A m \in 1..n : z[m] = v[k + m]
  <2>1. \A m \in (k + 1) .. (k + n) : v[m] \in Int
    <3>1. \A m \in 1 .. Len(v) : v[m] \in Int
      OBVIOUS
    <3>2. \A m \in (k + 1) .. (k + n) : m \in 1 .. Len(v)
      BY <1>2
    <3>3. QED
      BY <3>1, <3>2
  <2>2. k + 1 \in Int /\ k + n \in Int /\ k + 1 <= k + n /\ (k + n) - (k + 1) + 1 = n
    BY <1>2
  <2>3. /\ z \in Seq(Int) /\ Len(z) = (IF k + 1 <= k + n THEN (k + n) - (k + 1) + 1 ELSE 0)
        /\ \A m \in 1 .. (k + n) - (k + 1) + 1 : z[m] = v[(k + 1) + m - 1]
    BY <1>7, <2>1, <2>2, SubSeqProperties, SMTT(30)
  <2>4. \A m \in 1..n : (k + 1) + m - 1 = k + m
    BY <1>2
  <2>5. QED
    BY <2>2, <2>3, <2>4
<1>9. \A m \in 1 .. n - 1 : r[m + 1] = v[k + m]
  <2>1. \A m \in 1 .. n - 1 : Tail(r)[m] = r[m + 1]
    BY <1>1, <1>2
  <2>2. \A m \in 1 .. n - 1 : SubSeq(v, k + 1, k + n - 1)[m] = v[k + m]
    <3>1. /\ \A m \in (k + 1) .. (k + n - 1) : v[m] \in Nat
          /\ k + 1 \in Int /\ k + n - 1 \in Int /\ (k + n - 1) - (k + 1) + 1 = n - 1
      <4>1. \A m \in 1 .. Len(v) : v[m] \in Nat
        OBVIOUS
      <4>2. QED
        BY <1>2, <4>1
    <3>2. \A m \in 1 .. (k + n - 1) - (k + 1) + 1 :
            SubSeq(v, k + 1, k + n - 1)[m] = v[(k + 1) + m - 1]
      BY <3>1, SubSeqProperties
    <3>3. \A m \in 1 .. n - 1 : (k + 1) + m - 1 = k + m
      BY <1>2
    <3>4. QED
      BY <3>1, <3>2, <3>3
  <2>3. QED
    BY <1>2, <2>1, <2>2
<1>10. \A m \in 1..n : w[m + 1] = v[k + m]
  <2> SUFFICES ASSUME NEW m \in 1..n PROVE w[m + 1] = v[k + m]
    OBVIOUS
  <2>1. CASE m = n
    <3>1. k + n = f + 1
      BY <1>2
    <3>2. QED
      BY <1>5, <2>1, <3>1
  <2>2. CASE m # n
    <3>1. m \in 1 .. n - 1 /\ m + 1 \in 1..n
      BY <1>2, <2>2
    <3>2. QED
      BY <1>5, <1>9, <3>1
  <2>3. QED
    BY <2>1, <2>2
<1>11. Tail(w) = z
  <2>1. PICK t : t = Tail(w)
    BY Zenon
  <2>2. t \in Seq(Int) /\ Len(t) = Len(z) /\ \A m \in 1..n : t[m] = z[m]
    BY <1>6, <1>8, <1>10, <2>1
  <2>3. t = z
    BY <1>8, <2>2, SeqEqual
  <2>4. QED
    BY <2>1, <2>3
<1>12. /\ k + (n + 1) - 1 = k + n /\ k + (n + 1) <= Len(v) + 1 /\ n + 1 >= 1
       /\ f2 >= 0 => k + (n + 1) - 1 = f2
  BY <1>2
<1>13. Turn(v, w, k, f2)
  BY <1>5, <1>7, <1>11, <1>12 DEF Turn
<1>14. QED
  BY <1>4, <1>13

LEMMA ValidType ==
  ASSUME asked \in Seq(Nat), nr_entries \in Nat
  PROVE  Valid \in Seq(Nat) /\ Kept(asked) \in Seq(Nat) /\ Len(Kept(asked)) \in Nat
         /\ (~Full => Len(Kept(asked)) < MaxFallback)
<1>1. Kept(asked) \in Seq(Nat) /\ Len(Kept(asked)) <= MaxFallback
  BY KeptType
<1>2. PICK kept : kept = Kept(asked)
  BY Zenon
<1>3. kept \in Seq(Nat) /\ Len(kept) \in Nat /\ Len(kept) \in 0 .. Len(kept)
  BY <1>1, <1>2
<1>4. Chosen(kept, nr_entries)[Len(kept)] \in Seq(Nat)
  BY <1>3, ChosenFacts
<1>5. QED
  BY <1>1, <1>2, <1>3, <1>4, BoundsAssumption DEF Valid, Full

LEMMA FilledType ==
  ASSUME asked \in Seq(Nat), nr_entries \in Nat
  PROVE  /\ Filled \in Seq(Nat)
         /\ ~Full => Filled = Valid
         /\ Full => Filled = Valid \o [n \in 1 .. MaxFallback - Len(Valid) |-> Kept(asked)[MaxFallback]]
<1>1. PICK v : v = Valid
  BY Zenon
<1>2. v \in Seq(Nat)
  BY <1>1, ValidType
<1>3. CASE ~Full
  <2>1. Filled = v \o [n \in 1..0 |-> Kept(asked)[MaxFallback]]
    BY <1>1, <1>3, Zenon DEF Filled
  <2>2. v \o [n \in 1..0 |-> Kept(asked)[MaxFallback]] = v
    <3>1. [n \in 1..0 |-> Kept(asked)[MaxFallback]] = <<>>
      OBVIOUS
    <3>2. v \o <<>> = v
      BY <1>2, ConcatEmptySeq
    <3>3. QED
      BY <3>1, <3>2, Zenon
  <2>3. QED
    BY <1>1, <1>2, <1>3, <2>1, <2>2, Zenon
<1>4. CASE Full
  <2>1. PICK kept : kept = Kept(asked)
    BY Zenon
  <2>2. kept \in Seq(Nat) /\ Len(kept) = MaxFallback /\ MaxFallback \in Nat \ {0}
    BY <1>4, <2>1, ValidType, BoundsAssumption DEF Full
  <2>3. Len(v) <= MaxFallback /\ v = Chosen(kept, nr_entries)[MaxFallback]
    <3>1. v = Chosen(kept, nr_entries)[Len(kept)] /\ Len(kept) \in 0 .. Len(kept)
      BY <1>1, <2>1, <2>2 DEF Valid
    <3>2. QED
      BY <2>2, <3>1, ChosenFacts
  <2>4. Filled = v \o [n \in 1 .. MaxFallback - Len(v) |-> kept[MaxFallback]]
    BY <1>1, <1>4, <2>1, Zenon DEF Filled
  <2>5. kept[MaxFallback] \in Nat /\ MaxFallback - Len(v) \in Nat
    BY <1>2, <2>2, <2>3
  <2>6. v \o [n \in 1 .. MaxFallback - Len(v) |-> kept[MaxFallback]] \in Seq(Nat)
    BY <1>2, <2>5, Copies
  <2>7. QED
    BY <1>1, <1>4, <2>1, <2>4, <2>6, Zenon
<1>5. QED
  BY <1>3, <1>4

(* fallback_entryno stays in the list. *)
LEMMA BeforeEnd ==
  ASSUME NEW v \in Seq(Nat), Lists(v, fallback_entries), NEW k \in Slots, InList(k)
  PROVE  k < Len(v)
<1> SUFFICES ASSUME ~(k < Len(v)) PROVE FALSE
  OBVIOUS
<1>1. Len(v) \in 0..k /\ Len(v) < MaxFallback
  BY BoundsAssumption DEF Slots
<1>2. fallback_entries[Len(v)] >= 0 /\ fallback_entries[Len(v)] = -1
  BY <1>1 DEF InList, Lists
<1>3. QED
  BY <1>2

LEMMA FInit == BootInit => FInv
<1> SUFFICES ASSUME BootInit PROVE FInv
  OBVIOUS
<1>1. BInv
  BY BInit
<1>2. at = "config" /\ asked = <<>>
  BY DEF BootInit
<1>3. asked \in Seq(Nat)
  BY <1>2
<1>4. QED
  BY <1>1, <1>2, <1>3 DEF FInv, Validating, Listed, InTurn

(* What fallback_func writes is what the loop begins with. *)
LEMMA LoopBegins ==
  ASSUME NEW kept \in Seq(Nat), Len(kept) < MaxFallback, NEW number \in Nat
  PROVE  LoopAt(kept, Chosen(kept, number), Written(kept, TRUE), 0, 0)
<1>1. PICK f : f = Written(kept, TRUE)
  BY Zenon
<1>2. \A s \in Slots : f[s] = IF s < Len(kept) THEN kept[s + 1]
                             ELSE IF s = Len(kept) /\ TRUE THEN -1 ELSE fallback_entries[s]
  BY <1>1 DEF Written
<1>3. Len(kept) \in Nat /\ MaxFallback \in Nat
  BY BoundsAssumption
<1>4. \A q \in 1 .. Len(kept) - 0 : f[0 + q - 1] = kept[0 + q]
  <2> SUFFICES ASSUME NEW q \in 1 .. Len(kept) PROVE f[0 + q - 1] = kept[0 + q]
    BY <1>3
  <2>1. 0 + q - 1 \in Slots /\ 0 + q - 1 < Len(kept) /\ (0 + q - 1) + 1 = 0 + q
    BY <1>3 DEF Slots
  <2>2. QED
    BY <1>2, <2>1
<1>5. f[0 + Len(kept) - 0] = -1
  <2>1. Len(kept) \in Slots /\ 0 + Len(kept) - 0 = Len(kept) /\ ~(Len(kept) < Len(kept))
    BY <1>3 DEF Slots
  <2>2. QED
    BY <1>2, <2>1
<1>6. PICK c : c = Chosen(kept, number)
  BY Zenon
<1>7. c[0] = <<>>
  BY <1>6, ChosenFacts
<1>8. 0 = Len(c[0])
  BY <1>7
<1>9. LoopAt(kept, c, f, 0, 0)
  BY <1>4, <1>5, <1>8 DEF LoopAt
<1>10. QED
  BY <1>1, <1>6, <1>9

LEMMA FullBegins ==
  ASSUME NEW kept \in Seq(Nat), Len(kept) = MaxFallback, NEW number \in Nat
  PROVE  FullAt(kept, Chosen(kept, number), Written(kept, TRUE), 0, 0)
<1>1. PICK f, m, c : f = Written(kept, TRUE) /\ m = MaxFallback /\ c = Chosen(kept, number)
  BY Zenon
<1>2. m \in Nat \ {0} /\ Slots = 0 .. m - 1 /\ Len(kept) = m
  BY <1>1, BoundsAssumption DEF Slots
<1>3. \A s \in 0 .. m - 1 : f[s] = kept[s + 1]
  BY <1>1, <1>2 DEF Written
<1>4. Len(c[0]) = 0
  <2>1. c[0] = <<>>
    BY <1>1, ChosenFacts
  <2>2. QED
    BY <2>1
<1>5. \A q \in 1 .. m - 0 : f[0 + q - 1] = kept[0 + q]
  <2> SUFFICES ASSUME NEW q \in 1..m PROVE f[0 + q - 1] = kept[0 + q]
    BY <1>2
  <2>1. 0 + q - 1 \in 0 .. m - 1 /\ (0 + q - 1) + 1 = 0 + q
    BY <1>2
  <2>2. QED
    BY <1>3, <2>1
<1>6. /\ 0 <= 0 /\ (0 < m => 0 = 0)
      /\ \A s \in 0 .. 0 - 1 : f[s] = c[0][s + 1]
      /\ \A s \in 0 .. m - 1 : s >= 0 + m - 0 => f[s] = kept[m]
  BY <1>2
<1>7. FullAt(kept, c, f, 0, 0)
  BY <1>1, <1>2, <1>4, <1>5, <1>6, Zenon DEF FullAt
<1>8. QED
  BY <1>1, <1>7

LEMMA LoadFallbacks == ASSUME FInv, LoadConfig PROVE FInv'
<1>1. BInv'
  BY LoadKeeps DEF FInv
<1>2. PICK args \in Arguments \cup {<<>>} : fallback_func(args)
  BY DEF LoadConfig
<1>a. <<>> \in Seq(Nat)
  OBVIOUS
<1>3. args \in Seq(Nat)
  BY <1>2, <1>a, BoundsAssumption, Zenon
<1>4. asked' = args /\ checking' = 0 /\ at' = IF fallback_entryno' >= 0 THEN "validate" ELSE "default"
  BY <1>2, Zenon DEF LoadConfig, fallback_func, Goto
<1>5. nr_entries' \in Nat /\ MaxFallback \in Nat
  BY <1>1, BoundsAssumption DEF BInv, BootTypeOK
<1>6. Validating'
  <2> SUFFICES ASSUME at' = "validate" PROVE Validating'
    BY DEF Validating
  <2>1. fallback_entryno' >= 0
    BY <1>4
  <2>2. fallback_entries' = Written(Kept(args), TRUE)
    <3>1. ~Rejected(args)
      <4> SUFFICES ASSUME Rejected(args) PROVE FALSE
        OBVIOUS
      <4>1. fallback_entryno' = -1
        BY <1>2 DEF fallback_func
      <4>2. QED
        BY <2>1, <4>1
    <3>2. QED
      BY <1>2, <3>1 DEF fallback_func
  <2>3. PICK kept : kept = Kept(args)
    BY Zenon
  <2>4. kept \in Seq(Nat) /\ Len(kept) <= MaxFallback /\ Len(kept) \in Nat
        /\ (Full' <=> Len(kept) = MaxFallback)
    BY <1>3, <1>4, <2>3, KeptType DEF Full
  <2>5. CASE ~Full'
    <3>1. Len(kept) < MaxFallback /\ 0 \in 0 .. Len(kept)
      BY <2>4, <2>5, <1>5
    <3>2. LoopAt(kept, Chosen(kept, nr_entries'), Written(kept, TRUE), 0, 0)
      BY <1>5, <2>4, <3>1, LoopBegins
    <3>3. QED
      BY <1>4, <2>2, <2>3, <2>5, <3>1, <3>2 DEF Validating
  <2>6. CASE Full'
    <3>1. Len(kept) = MaxFallback /\ 0 \in 0 .. MaxFallback
      BY <2>4, <2>6, <1>5
    <3>2. FullAt(kept, Chosen(kept, nr_entries'), Written(kept, TRUE), 0, 0)
      BY <1>5, <2>4, <3>1, FullBegins
    <3>3. QED
      BY <1>4, <2>2, <2>3, <2>6, <3>1, <3>2 DEF Validating
  <2>7. QED
    BY <2>5, <2>6
<1>7. Listed' /\ InTurn'
  BY <1>4 DEF Listed, InTurn
<1>8. QED
  BY <1>1, <1>3, <1>4, <1>6, <1>7 DEF FInv

LEMMA ValidateFallbacks == ASSUME FInv, Validate PROVE FInv'
<1>1. BInv' /\ BInv
  BY ValidateKeeps DEF FInv
<1>2. BootTypeOK /\ MaxFallback \in Nat \ {0}
  BY <1>1, BoundsAssumption DEF BInv
<1>3. /\ at = "validate" /\ at' = at /\ checking \in Slots /\ fallback_entries[checking] >= 0
      /\ UNCHANGED <<nr_entries, asked>>
  BY <1>2 DEF Validate, BootTypeOK, Slots, configVars
<1>4. asked \in Seq(Nat) /\ nr_entries \in Nat /\ fallback_entries \in [Slots -> Int]
  BY <1>2 DEF FInv, BootTypeOK
<1>5. Validating'
  <2>1. PICK kept : kept = Kept(asked)
    BY Zenon
  <2>2. kept \in Seq(Nat) /\ (~Full => Len(kept) < MaxFallback) /\ (Full => Len(kept) = MaxFallback)
        /\ (Full' <=> Full) /\ kept = Kept(asked')
    BY <1>3, <1>4, <2>1, ValidType DEF Full
  <2>3. \/ fallback_entries[checking] >= nr_entries /\ fallback_entries' = Shifted /\ UNCHANGED checking
        \/ fallback_entries[checking] < nr_entries /\ checking' = checking + 1 /\ UNCHANGED fallback_entries
    BY DEF Validate
  <2>4. Shifted = [s \in Slots |-> IF s >= checking /\ s < MaxFallback - 1
                                  THEN fallback_entries[s + 1] ELSE fallback_entries[s]]
    BY DEF Shifted
  <2>5. CASE ~Full
    <3>1. PICK p \in 0 .. Len(kept) : LoopAt(kept, Chosen(kept, nr_entries), fallback_entries, checking, p)
      BY <1>3, <2>1, <2>5 DEF FInv, Validating
    <3>2. \E p2 \in 0 .. Len(kept) : LoopAt(kept, Chosen(kept, nr_entries), fallback_entries', checking', p2)
      <4>1. CASE fallback_entries[checking] >= nr_entries /\ fallback_entries' = Shifted /\ UNCHANGED checking
        <5>1. fallback_entries' = [s \in Slots |-> IF s >= checking /\ s < MaxFallback - 1
                                                  THEN fallback_entries[s + 1] ELSE fallback_entries[s]]
          BY <2>4, <4>1
        <5>2. p + 1 \in 0 .. Len(kept) /\ LoopAt(kept, Chosen(kept, nr_entries), fallback_entries', checking, p + 1)
          BY <1>3, <1>4, <2>2, <2>5, <3>1, <4>1, <5>1, LoopShifts
        <5>3. QED
          BY <4>1, <5>2
      <4>2. CASE fallback_entries[checking] < nr_entries /\ checking' = checking + 1 /\ UNCHANGED fallback_entries
        <5>1. p + 1 \in 0 .. Len(kept) /\ LoopAt(kept, Chosen(kept, nr_entries), fallback_entries, checking + 1, p + 1)
          BY <1>3, <1>4, <2>2, <2>5, <3>1, <4>2, LoopGoesOn
        <5>2. QED
          BY <4>2, <5>1
      <4>3. QED
        BY <2>3, <4>1, <4>2
    <3>3. QED
      BY <1>3, <2>2, <2>5, <3>2 DEF Validating
  <2>6. CASE Full
    <3>1. PICK p \in 0 .. MaxFallback : FullAt(kept, Chosen(kept, nr_entries), fallback_entries, checking, p)
      BY <1>3, <2>1, <2>6 DEF FInv, Validating
    <3>2. \E p2 \in 0 .. MaxFallback : FullAt(kept, Chosen(kept, nr_entries), fallback_entries', checking', p2)
      <4>1. CASE fallback_entries[checking] >= nr_entries /\ fallback_entries' = Shifted /\ UNCHANGED checking
        BY <1>3, <1>4, <2>2, <2>4, <2>6, <3>1, <4>1, FullShifts
      <4>2. CASE fallback_entries[checking] < nr_entries /\ checking' = checking + 1 /\ UNCHANGED fallback_entries
        BY <1>3, <1>4, <2>2, <2>6, <3>1, <4>2, FullGoesOn
      <4>3. QED
        BY <2>3, <4>1, <4>2
    <3>3. QED
      BY <1>3, <2>2, <2>6, <3>2 DEF Validating
  <2>7. QED
    BY <2>5, <2>6
<1>6. Listed' /\ InTurn'
  BY <1>3 DEF Listed, InTurn
<1>7. QED
  BY <1>1, <1>3, <1>4, <1>5, <1>6 DEF FInv

LEMMA ValidatedFallbacks == ASSUME FInv, Validated PROVE FInv'
<1>1. BInv' /\ BInv
  BY ValidatedKeeps DEF FInv
<1>2. BootTypeOK /\ MaxFallback \in Nat \ {0}
  BY <1>1, BoundsAssumption DEF BInv
<1>3. /\ at = "validate" /\ at' = "default" /\ UNCHANGED <<nr_entries, asked, fallback_entries>>
      /\ checking < MaxFallback => fallback_entries[checking] < 0
  BY DEF Validated, Goto, configVars
<1>4. /\ asked \in Seq(Nat) /\ nr_entries \in Nat /\ fallback_entries \in [Slots -> Int]
      /\ checking \in 0 .. MaxFallback
  BY <1>2 DEF FInv, BootTypeOK
<1>5. Listed'
  <2>1. PICK kept : kept = Kept(asked)
    BY Zenon
  <2>2. kept \in Seq(Nat) /\ (~Full => Len(kept) < MaxFallback) /\ (Full => Len(kept) = MaxFallback)
    BY <1>4, <2>1, ValidType DEF Full
  <2>3. CASE ~Full
    <3>1. PICK p \in 0 .. Len(kept) : LoopAt(kept, Chosen(kept, nr_entries), fallback_entries, checking, p)
      BY <1>3, <2>1, <2>3 DEF FInv, Validating
    <3>2. Lists(Chosen(kept, nr_entries)[Len(kept)], fallback_entries)
      BY <1>3, <1>4, <2>2, <2>3, <3>1, LoopEnds
    <3>3. Filled = Chosen(kept, nr_entries)[Len(kept)]
      BY <1>4, <2>1, <2>3, FilledType, Zenon DEF Valid
    <3>4. QED
      BY <1>3, <3>2, <3>3 DEF Listed, Filled, Valid, Full
  <2>4. CASE Full
    <3>1. PICK p \in 0 .. MaxFallback : FullAt(kept, Chosen(kept, nr_entries), fallback_entries, checking, p)
      BY <1>3, <2>1, <2>4 DEF FInv, Validating
    <3>2. PICK v : v = Chosen(kept, nr_entries)[MaxFallback]
      BY Zenon
    <3>3. Lists(v \o [n \in 1 .. MaxFallback - Len(v) |-> kept[MaxFallback]], fallback_entries)
      BY <1>3, <1>4, <2>2, <2>4, <3>1, <3>2, FullEnds
    <3>4. v = Valid
      BY <2>1, <2>2, <2>4, <3>2, Zenon DEF Valid
    <3>5. Filled = v \o [n \in 1 .. MaxFallback - Len(v) |-> kept[MaxFallback]]
      BY <1>4, <2>1, <2>4, <3>4, FilledType, Zenon
    <3>6. Lists(Filled, fallback_entries)
      BY <3>3, <3>5, Zenon
    <3>7. QED
      BY <1>3, <3>6 DEF Listed, Filled, Valid, Full
  <2>5. QED
    BY <2>3, <2>4
<1>6. Validating' /\ InTurn'
  BY <1>3 DEF Validating, InTurn
<1>7. QED
  BY <1>1, <1>3, <1>4, <1>5, <1>6 DEF FInv

(* The fallback entry that is next is one of the list. *)
LEMMA InsideList ==
  ASSUME FInv, at \in {"default", "hidden", "menu", "run"}, fallback_entryno >= 0
  PROVE  /\ fallback_entryno \in Slots /\ fallback_entryno < Len(Filled)
         /\ Lists(Filled, fallback_entries) /\ Filled \in Seq(Nat)
<1>1. BootTypeOK /\ ListValid /\ Listed /\ asked \in Seq(Nat)
  BY DEF FInv, BInv
<1>2. fallback_entryno \in Slots /\ InList(fallback_entryno) /\ Lists(Filled, fallback_entries)
  BY <1>1, BoundsAssumption DEF BootTypeOK, ListValid, Listed, Slots
<1>3. Filled \in Seq(Nat)
  BY <1>1, FilledType DEF BootTypeOK
<1>4. PICK v, k : v = Filled /\ k = fallback_entryno
  BY Zenon
<1>5. k < Len(v)
  <2>1. v \in Seq(Nat) /\ Lists(v, fallback_entries) /\ k \in Slots /\ InList(k)
    BY <1>2, <1>3, <1>4
  <2>2. QED
    BY <2>1, BeforeEnd
<1>6. QED
  BY <1>2, <1>3, <1>4, <1>5

(* The steps that leave the configuration and the array alone: they run    *)
(* nothing or begin with an entry.                                         *)
LEMMA MenuFallbacks ==
  ASSUME FInv, BInv', UNCHANGED <<nr_entries, asked, fallback_entries>>, at' # "validate",
         at' \in {"default", "hidden", "menu", "run"} =>
           at \in {"default", "hidden", "menu", "run"},
         fallback_entryno' >= 0 => \/ fallback_entryno' = fallback_entryno
                                   \/ at' # "run" /\ fallback_entryno >= 0,
         at' = "run" => (\E e : ran' = <<e>>) \/ UNCHANGED <<at, in_editor, ran, fallback_entryno>>
  PROVE  FInv'
<1>1. asked \in Seq(Nat) /\ BootTypeOK /\ BootTypeOK'
  BY DEF FInv, BInv
<1>2. (Full' <=> Full) /\ Filled' = Filled
  BY DEF Full, Valid, Filled
<1>3. Listed'
  BY <1>1, <1>2 DEF FInv, Listed
<1>4. InTurn'
  <2> SUFFICES ASSUME at' = "run", ~in_editor'
               PROVE  \E k \in 0 .. Len(Filled) : Turn(Filled, ran', k, fallback_entryno')
    BY <1>2 DEF InTurn
  <2>1. CASE UNCHANGED <<at, in_editor, ran, fallback_entryno>>
    BY <2>1 DEF FInv, InTurn
  <2>2. ASSUME NEW e, ran' = <<e>> PROVE \E k \in 0 .. Len(Filled) : Turn(Filled, ran', k, fallback_entryno')
    <3>1. PICK v, f : v = Filled /\ f = fallback_entryno'
      BY Zenon
    <3>2. v \in Seq(Nat) /\ Len(v) \in Nat
      <4>1. v \in Seq(Nat)
        BY <1>1, <3>1, FilledType DEF BootTypeOK
      <4>2. QED
        BY <4>1
    <3>3. f \in Int
      BY <1>1, <3>1, BoundsAssumption DEF BootTypeOK, Slots
    <3>4. CASE f >= 0
      <4>1. fallback_entryno >= 0 /\ f = fallback_entryno
        BY <3>1, <3>4
      <4>2. f < Len(v)
        BY <3>1, <4>1, InsideList
      <4>3. f \in 0 .. Len(v)
        BY <3>2, <3>3, <3>4, <4>2
      <4>4. Turn(v, <<e>>, f, f)
        BY <3>2, <3>3, <4>3, TurnBegins
      <4>5. QED
        BY <2>2, <3>1, <4>3, <4>4
    <3>5. CASE ~(f >= 0)
      <4>1. 0 \in 0 .. Len(v)
        BY <3>2
      <4>2. Turn(v, <<e>>, 0, f)
        BY <3>2, <3>3, <3>5, <4>1, TurnBegins
      <4>3. QED
        BY <2>2, <3>1, <4>1, <4>2
    <3>6. QED
      BY <3>4, <3>5
  <2>3. QED
    BY <2>1, <2>2
<1>5. QED
  BY <1>1, <1>3, <1>4 DEF FInv, Validating

LEMMA RunFailsFallbacks == ASSUME FInv, RunFails PROVE FInv'
<1>1. BInv /\ BInv'
  BY RunFailsKeeps DEF FInv
<1>2. at = "run" /\ UNCHANGED <<nr_entries, asked, fallback_entries, in_editor>>
  BY DEF RunFails, configVars
<1>3. CASE /\ fallback_entryno >= 0
           /\ ran' = Append(ran, IF in_editor THEN Nowhere ELSE fallback_entries[fallback_entryno])
           /\ fallback_entryno' = NextFallback(fallback_entryno)
           /\ UNCHANGED at
  <2>1. asked \in Seq(Nat) /\ BootTypeOK /\ BootTypeOK'
    BY <1>1 DEF FInv, BInv
  <2>2. (Full' <=> Full) /\ Filled' = Filled
    BY <1>2 DEF Full, Valid, Filled
  <2>3. Listed'
    BY <1>2, <1>3, <2>2 DEF FInv, Listed
  <2>4. InTurn'
    <3> SUFFICES ASSUME ~in_editor
                 PROVE  \E k \in 0 .. Len(Filled) : Turn(Filled, ran', k, fallback_entryno')
      BY <1>2, <2>2 DEF InTurn
    <3>1. PICK v, r, f, f2, x : /\ v = Filled /\ r = ran /\ f = fallback_entryno
                                /\ f2 = fallback_entryno' /\ x = fallback_entries[fallback_entryno]
      BY Zenon
    <3>2. f \in Slots /\ f < Len(v) /\ Lists(v, fallback_entries) /\ v \in Seq(Nat)
      BY <1>2, <1>3, <3>1, InsideList
    <3>3. f \in Nat /\ f \in 0 .. Len(v) - 1
      BY <3>2, BoundsAssumption DEF Slots
    <3>4. x = v[f + 1]
      BY <3>1, <3>2, <3>3 DEF Lists
    <3>5. f2 \in Int /\ (f2 >= 0 => f2 = f + 1)
      BY <1>3, <3>1, <3>3 DEF NextFallback
    <3>6. PICK k \in 0 .. Len(v) : Turn(v, r, k, f)
      BY <1>2, <3>1 DEF FInv, InTurn
    <3>7. r \in Seq(Int)
      BY <2>1, <3>1 DEF BootTypeOK
    <3>8. Turn(v, Append(r, x), k, f2)
      BY <3>2, <3>3, <3>4, <3>5, <3>6, <3>7, TurnGoesOn
    <3>9. QED
      BY <1>3, <3>1, <3>6, <3>8
  <2>5. QED
    BY <1>1, <1>2, <1>3, <2>1, <2>3, <2>4 DEF FInv, Validating
<1>4. CASE at' = "hidden" /\ UNCHANGED fallback_entryno
  BY <1>1, <1>2, <1>4, MenuFallbacks
<1>5. QED
  BY <1>3, <1>4 DEF RunFails, Goto

LEMMA FStep == FInv /\ [BootNext]_bootVars => FInv'
<1> SUFFICES ASSUME FInv, [BootNext]_bootVars PROVE FInv'
  OBVIOUS
<1>b. BInv'
  BY BStep DEF FInv
<1>1. CASE LoadConfig \/ Validate \/ Validated
  BY <1>1, LoadFallbacks, ValidateFallbacks, ValidatedFallbacks
<1>2. CASE CheckDefault
  <2>1. /\ at = "default" /\ at' \in {"prompt", "hidden"}
        /\ UNCHANGED <<nr_entries, asked, fallback_entries>>
        /\ fallback_entryno' = fallback_entryno \/ fallback_entryno >= 0
    BY <1>2 DEF CheckDefault, Goto
  <2>2. QED
    BY <1>b, <2>1, MenuFallbacks
<1>3. CASE ShowMenu
  BY <1>b, <1>3, MenuFallbacks DEF ShowMenu, Goto, configVars, fallbackVars
<1>4. CASE Tick
  <2>1. /\ at \in {"hidden", "menu"} /\ UNCHANGED <<nr_entries, asked, fallback_entries, fallback_entryno>>
        /\ (at' = "run" /\ \E e : ran' = <<e>>) \/ UNCHANGED at
    BY <1>4 DEF Tick, Hidden, Run, Goto, configVars, fallbackVars
  <2>2. QED
    BY <1>b, <2>1, MenuFallbacks
<1>5. CASE UserKey
  <2>1. CASE EscapeHidden
    BY <1>b, <2>1, MenuFallbacks DEF EscapeHidden, Hidden, Goto, configVars, fallbackVars
  <2>2. CASE ~EscapeHidden
    <3>1. AnyKey /\ (at' \in {at, "config"} \/ (at' = "run" /\ \E e : ran' = <<e>>))
      BY <1>5, <2>2 DEF UserKey, MoveKey, BootKey, EditKey, LeaveKey, BackKey, Run, Goto
    <3>2. at = "menu" /\ UNCHANGED <<nr_entries, asked, fallback_entries>>
          /\ (fallback_entryno' = fallback_entryno \/ fallback_entryno' = -1)
      BY <3>1 DEF AnyKey, configVars
    <3>3. QED
      BY <1>b, <3>1, <3>2, MenuFallbacks
  <2>3. QED
    BY <2>1, <2>2
<1>6. CASE RunBoots \/ RunReturns \/ Prompt
  <2>1. /\ at' \in {"booted", "hidden", "config"} /\ (at' = "hidden" => at = "run")
        /\ UNCHANGED <<nr_entries, asked, fallback_entries, fallback_entryno>>
    BY <1>6 DEF RunBoots, RunReturns, Prompt, Goto, configVars, fallbackVars
  <2>2. QED
    BY <1>b, <2>1, MenuFallbacks
<1>7. CASE RunFails
  BY <1>7, RunFailsFallbacks
<1>8. CASE UNCHANGED bootVars
  <2>1. UNCHANGED <<at, nr_entries, asked, fallback_entries, fallback_entryno, in_editor, ran, checking>>
    BY <1>8 DEF bootVars, configVars, fallbackVars, menuVars
  <2>2. Validating' /\ Listed' /\ InTurn'
    BY <2>1 DEF FInv, Validating, Listed, InTurn, Filled, Valid, Full
  <2>3. QED
    BY <1>b, <2>1, <2>2 DEF FInv
<1>9. QED
  BY <1>1, <1>2, <1>3, <1>4, <1>5, <1>6, <1>7, <1>8 DEF BootNext, CmainStep, RunStep, Booted

LEMMA FInvariant == BootSpec => []FInv
<1>1. QED
  BY FInit, FStep, PTL DEF BootSpec

(* The entries that are run one after the other when scripts fail are those *)
(* of the fallback command that exist, in its order: the loop of cmain that *)
(* shifts the array over entries that do not exist loses none of the        *)
(* others.  In a full array it leaves copies of the last one instead.       *)
THEOREM FallbacksRunInOrder == BootSpec => []FallbacksInOrder
<1>1. FInv => FallbacksInOrder
  <2> SUFFICES ASSUME FInv, at = "run", ~in_editor
               PROVE  \E k \in 0 .. Len(Filled) + 1 - Len(ran) :
                        Tail(ran) = SubSeq(Filled, k + 1, k + Len(ran) - 1)
    BY DEF FallbacksInOrder
  <2>1. PICK k \in 0 .. Len(Filled) : Turn(Filled, ran, k, fallback_entryno)
    BY DEF FInv, InTurn
  <2>2. Len(Filled) \in Nat /\ Len(ran) \in Nat
    <3>1. asked \in Seq(Nat) /\ nr_entries \in Nat /\ ran \in Seq(Int)
      BY DEF FInv, BInv, BootTypeOK
    <3>2. Filled \in Seq(Nat)
      BY <3>1, FilledType
    <3>3. QED
      BY <3>1, <3>2
  <2>3. k + Len(ran) <= Len(Filled) + 1
    BY <2>1 DEF Turn
  <2>4. k \in 0 .. Len(Filled) + 1 - Len(ran)
    BY <2>2, <2>3
  <2>5. QED
    BY <2>1, <2>4 DEF Turn
<1>2. QED
  BY <1>1, FInvariant, PTL
=============================================================================
