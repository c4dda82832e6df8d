----------------------------- MODULE MenuCursor -----------------------------
(***************************************************************************)
(* The cursor of the menu (run_menu in stage2/stage2.c): a window of Page  *)
(* lines that begins at first_entry, and the highlighted line entryno of   *)
(* the window, moved by keys, by the search and by the shortcuts.  The     *)
(* editor of an entry's commands is a second run_menu, called by the       *)
(* first, in which lines are inserted and removed.                         *)
(*                                                                         *)
(* A menu begins at its default entry here.  One that begins at a position *)
(* of the history is in ConfigHistory, which shows that the position may   *)
(* be that of another menu.                                                *)
(***************************************************************************)
EXTENDS Integers

CONSTANTS
  Page,      \* the lines of the menu's window: 12
  Above,     \* the lines above one that was jumped to: 5
  Sizes,     \* the numbers of entries a configuration file may have
  MaxLines   \* bound: the lines the editor's commands grow to

ASSUME WindowAssumption ==
  Page \in Nat /\ Above \in Nat /\ Above < Page

ASSUME SizesAssumption ==
  /\ Sizes \subseteq Nat \ {0}
  /\ MaxLines \in Nat

VARIABLES
  dumb,         \* current_term->flags & TERM_DUMB
  editing,      \* config_entries = NULL: this is the editor
  num_entries,
  lines,        \* the strings that the menu's heap holds
  first_entry, entryno,
  outer,        \* the cursor of the menu that called the editor
  search,       \* the search under way
  astray        \* history: the editor was emptied or ran a fallback entry

cursor == <<first_entry, entryno>>
vars == <<dumb, editing, num_entries, lines, cursor, outer, search, astray>>

NoSearch == [on |-> FALSE, i |-> 0, current |-> 0, delta |-> 1]
NoOuter  == [num |-> 0, first |-> 0, entry |-> 0]

Selected == first_entry + entryno
Ready == ~search.on
MoveTo(f, e) == first_entry' = f /\ entryno' = e
OnlyCursor == UNCHANGED <<dumb, editing, num_entries, lines, outer, astray>>

(* The window follows a line below it, except on a dumb terminal, which    *)
(* shows all the entries.                                                  *)
Restart(d, f, e) == IF ~d /\ e > Page - 1
                    THEN MoveTo(f + e - (Page - 1), Page - 1)
                    ELSE MoveTo(f, e)

set_bar_to(i) ==
  IF i < Above \/ num_entries < Page + 1 THEN MoveTo(0, i)
  ELSE IF num_entries - i < Page - Above
       THEN MoveTo(num_entries - Page, i - (num_entries - Page))
       ELSE MoveTo(i - Above, Above)
-----------------------------------------------------------------------------
(* The keys that move *)

Up == /\ Ready
      /\ \/ entryno > 0 /\ MoveTo(first_entry, entryno - 1)
         \/ entryno <= 0 /\ ~dumb /\ first_entry > 0 /\ MoveTo(first_entry - 1, entryno)
      /\ OnlyCursor /\ UNCHANGED search

Down == /\ Ready
        /\ Selected + 1 < num_entries
        /\ \/ (dumb \/ entryno < Page - 1) /\ MoveTo(first_entry, entryno + 1)
           \/ /\ ~dumb /\ entryno >= Page - 1 /\ num_entries > Page + first_entry
              /\ MoveTo(first_entry + 1, entryno)
        /\ OnlyCursor /\ UNCHANGED search

PageUp ==
  /\ Ready
  /\ \/ first_entry > Page - 1 /\ MoveTo(first_entry - Page, entryno)
     \/ /\ 0 < first_entry /\ first_entry <= Page - 1
        /\ MoveTo(0, IF Selected < Page THEN 0 ELSE Selected - Page)
     \/ first_entry = 0 /\ entryno # 0 /\ MoveTo(0, 0)
  /\ OnlyCursor /\ UNCHANGED search

PageDown ==
  /\ Ready
  /\ \/ /\ first_entry + 2 * Page - 1 < num_entries
        /\ MoveTo(first_entry + Page, entryno)
     \/ /\ first_entry + Page < num_entries
        /\ first_entry + 2 * Page - 1 >= num_entries
        /\ MoveTo(num_entries - Page,
                  IF Selected + Page >= num_entries THEN Page - 1
                  ELSE entryno + 2 * Page + first_entry - num_entries)
     \/ /\ first_entry + Page >= num_entries
        /\ Selected + 1 # num_entries
        /\ MoveTo(first_entry, num_entries - first_entry - 1)
  /\ OnlyCursor /\ UNCHANGED search

(* A fallback entry was run and came back. *)
FellBack == \E i \in 0 .. num_entries - 1 : Restart(dumb, 0, i)

(* The digits typed are the beginning of the number of an entry; if of one *)
(* only, a menu boots it.                                                  *)
Shortcut == /\ Ready
            /\ \/ \E i \in 0 .. num_entries - 1 : set_bar_to(i)
               \/ ~editing /\ FellBack
            /\ OnlyCursor /\ UNCHANGED search
-----------------------------------------------------------------------------
(* search_menu *)

(* The next entry that is looked at, once around. *)
Around(i, delta) ==
  LET from == IF delta = -1 /\ i = 0 THEN num_entries ELSE i
  IN  IF delta = 1 /\ from + delta = num_entries THEN 0 ELSE from + delta

(* Where a search begins: here, or beyond here to search again. *)
Advanced(i, delta) ==
  IF i + delta < 0 THEN num_entries - 1
  ELSE IF i + delta = num_entries THEN 0 ELSE i + delta

search_menu ==
  /\ Ready
  /\ \E delta \in {1, -1}, advance \in BOOLEAN :
       LET at == IF advance THEN Advanced(Selected, delta) ELSE Selected
       IN  search' = [on |-> TRUE, i |-> at, current |-> at, delta |-> delta]
  /\ OnlyCursor /\ UNCHANGED cursor

(* Mutant: where the search began is not looked at. *)
SearchesOn ==
  /\ search.on
  /\ \/ set_bar_to(search.i) /\ search' = NoSearch
     \/ /\ UNCHANGED cursor
        /\ search' = [search EXCEPT !.i = Around(search.i, search.delta)]
  /\ OnlyCursor

(* An entry matches, or the next one is looked at. *)
SearchStep ==
  /\ search.on
  /\ \/ set_bar_to(search.i) /\ search' = NoSearch
     \/ /\ UNCHANGED cursor
        /\ LET n == Around(search.i, search.delta)
           IN  search' = IF n = search.current THEN NoSearch
                         ELSE [search EXCEPT !.i = n]
  /\ OnlyCursor
-----------------------------------------------------------------------------
(* The menu and the editor *)

(* The entry is booted and comes back, or one of the fallback entries      *)
(* does.  The editor too takes the number of a fallback entry for its      *)
(* cursor, whatever lines it has.                                          *)
boot_entry ==
  /\ Ready
  /\ \/ UNCHANGED <<cursor, astray>>
     \/ ~editing /\ FellBack /\ UNCHANGED astray
     \/ /\ editing
        /\ \E i \in 0 .. outer.num - 1 : Restart(dumb, 0, i)
        /\ astray' = TRUE
  /\ UNCHANGED <<dumb, editing, num_entries, lines, outer, search>>

(* 'e' in the menu: a second run_menu on the commands of the entry. *)
EditEntry(n) ==
  /\ Ready /\ ~editing
  /\ editing' = TRUE
  /\ num_entries' = n /\ lines' = n
  /\ MoveTo(0, 0)
  /\ outer' = [num |-> num_entries, first |-> first_entry, entry |-> entryno]
  /\ UNCHANGED <<dumb, search, astray>>

(* ESC in the editor. *)
EditReturn ==
  /\ Ready /\ editing
  /\ editing' = FALSE
  /\ num_entries' = outer.num /\ lines' = outer.num
  /\ Restart(dumb, outer.first, outer.entry)
  /\ outer' = NoOuter
  /\ astray' = FALSE
  /\ UNCHANGED <<dumb, search>>

(* A string is inserted at line p.  get_entry takes a negative number for  *)
(* 0; one beyond the last string is anywhere in memory, and what becomes   *)
(* of the heap is not known.                                               *)
Insert(p) ==
  /\ lines < MaxLines /\ num_entries < MaxLines
  /\ num_entries' = num_entries + 1
  /\ lines' \in IF p <= lines THEN {lines + 1} ELSE 0 .. MaxLines
  /\ UNCHANGED <<dumb, editing, outer, search, astray>>

(* Mutant: a line inserted before is not counted. *)
InsertsUncounted ==
  /\ Ready /\ editing
  /\ lines < MaxLines
  /\ lines' = lines + 1
  /\ UNCHANGED <<dumb, editing, num_entries, cursor, outer, search, astray>>

InsertBefore ==
  /\ Ready /\ editing
  /\ UNCHANGED cursor
  /\ Insert(Selected)

InsertAfter ==
  /\ Ready /\ editing
  /\ IF dumb \/ entryno < Page - 1 THEN MoveTo(first_entry, entryno + 1)
                                   ELSE MoveTo(first_entry + 1, entryno)
  /\ Insert(Selected + 1)

(* Mutant: the cursor stays where the last line was. *)
RemovesUnderCursor ==
  /\ Ready /\ editing
  /\ num_entries > 0
  /\ num_entries' = num_entries - 1
  /\ lines' \in IF Selected < 0 THEN {lines}
                ELSE IF Selected < lines THEN {lines - 1} ELSE 0 .. MaxLines
  /\ MoveTo(IF first_entry > 0 /\ num_entries' < Page + first_entry
            THEN first_entry - 1 ELSE first_entry,
            entryno)
  /\ astray' = (astray \/ num_entries' = 0)
  /\ UNCHANGED <<dumb, editing, outer, search>>

(* The string at Selected is overwritten by the one at Selected + 1; both  *)
(* are the same one when Selected is -1.                                   *)
Remove ==
  /\ Ready /\ editing
  /\ num_entries > 0
  /\ num_entries' = num_entries - 1
  /\ lines' \in IF Selected < 0 THEN {lines}
                ELSE IF Selected < lines THEN {lines - 1} ELSE 0 .. MaxLines
  /\ MoveTo(IF first_entry > 0 /\ num_entries' < Page + first_entry
            THEN first_entry - 1 ELSE first_entry,
            IF entryno >= num_entries' THEN entryno - 1 ELSE entryno)
  /\ astray' = (astray \/ num_entries' = 0)
  /\ UNCHANGED <<dumb, editing, outer, search>>

(* run_menu returns to cmain, or configfile in it or in the editor goes    *)
(* there; cmain calls run_menu for another configuration, a terminal       *)
(* command of which may have changed the terminal.                         *)
run_menu ==
  /\ Ready
  /\ dumb' \in BOOLEAN
  /\ num_entries' \in Sizes /\ lines' = num_entries'
  /\ \E i \in 0 .. num_entries' - 1 : Restart(dumb', 0, i)
  /\ editing' = FALSE /\ outer' = NoOuter /\ astray' = FALSE
  /\ UNCHANGED search

Init ==
  /\ dumb = FALSE /\ editing = FALSE
  /\ num_entries \in Sizes /\ lines = num_entries
  /\ first_entry = 0 /\ entryno = 0
  /\ outer = NoOuter /\ search = NoSearch /\ astray = FALSE

Move == Up \/ Down \/ PageUp \/ PageDown \/ Shortcut
Edit == \/ \E n \in 1 .. MaxLines : EditEntry(n)
        \/ EditReturn \/ InsertBefore \/ InsertAfter \/ Remove
Next == Move \/ search_menu \/ SearchStep \/ boot_entry \/ Edit \/ run_menu

(* A search is one loop. *)
Spec == Init /\ [][Next]_vars /\ WF_vars(SearchStep)

-----------------------------------------------------------------------------
(* Properties *)

(* The variables of run_menu keep their types.                             *)
TypeOK ==
  /\ dumb \in BOOLEAN /\ editing \in BOOLEAN
  /\ num_entries \in Nat /\ lines \in Nat
  /\ first_entry \in Int /\ entryno \in Int
  /\ outer \in [num: Nat, first: Int, entry: Int]
  /\ astray \in BOOLEAN
  /\ search \in [on: BOOLEAN, i: Int, current: Int, delta: {1, -1}]

(* However the keys, the search, the shortcuts, the fallback entries and   *)
(* the editor move it, the cursor of a menu (run_menu) is on an entry that *)
(* there is and inside the window; the editor's too, until the last of its *)
(* lines is removed or a fallback entry is run from it.                    *)
InRange(f, e, n) == 0 <= f /\ 0 <= e /\ e < Page /\ f + e < n
SelectionInRange ==
  ~dumb => /\ ~astray => InRange(first_entry, entryno, num_entries)
           /\ editing => InRange(outer.first, outer.entry, outer.num)

(* num_entries, which the editor counts up and down, is the number of      *)
(* strings in its heap until then.  Neither is so on a dumb terminal.      *)
LinesCounted == ~dumb /\ ~astray => num_entries = lines

(* A search of a menu (search_menu) finds an entry or comes around to      *)
(* where it began, forwards or backwards.                                  *)
SearchEnds == search.on /\ ~editing /\ ~dumb ~> ~search.on

-----------------------------------------------------------------------------
(* What the code says and does not keep.                                   *)

(* "search through menu_entries once around", in the editor as well.       *)
SearchOnceAround == search.on ~> ~search.on
=============================================================================
