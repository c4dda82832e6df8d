---------------------------- MODULE ConfigHistory ----------------------------
(***************************************************************************)
(* The history of configuration files (cmain and run_menu in               *)
(* stage2/stage2.c): a ring of the files that were loaded, through which   *)
(* the left key goes back, and the menu position kept with each.           *)
(***************************************************************************)
EXTENDS Integers, Sequences

CONSTANTS
  Configs,  \* the configuration files
  Master,   \* MASTER_CONFIG_FILE
  Size,     \* the number of entries each has
  N         \* CONFIG_FILE_HISTORY_ENTRIES

ASSUME ConfigsAssumption ==
  Master \in Configs /\ Size \in [Configs -> Nat] /\ N \in Nat \ {0, 1}

VARIABLES
  phase,         \* what goes on: cmain's "load", the "menu", the "prompt"
  config_file,
  filename,      \* config_file_history[].filename
  position,      \* config_file_history[].entryno and .first_entry
  pos, prev_pos, start, menu_pos, \* config_file_history_pos, ...
  selected,      \* the selected entry of the menu
  trail,         \* history: the files that are to be gone back to, oldest first
  back           \* history: a movement back is under way

ringVars == <<filename, position, pos, prev_pos, start, menu_pos>>
historyVars == <<phase, config_file, ringVars, selected, trail, back>>

Ring == 0 .. N - 1
None == "none"   \* the file of a slot that was never used

(* Mutant: the beginning of the array is not looked at. *)
BeforeStraight(i) == IF i = 0 THEN 0 ELSE i - 1

After(i)  == IF i + 1 = N THEN 0 ELSE i + 1
Before(i) == IF i = 0 THEN N - 1 ELSE i - 1

-----------------------------------------------------------------------------
(* cmain *)

(* The newest N - 1 files of s can be gone back to. *)
Newest(s) == IF Len(s) > N - 1 THEN Tail(s) ELSE s

(* Mutant: the oldest file is not given up when the ring is full. *)
SavesOverOldest ==
  /\ filename' = [filename EXCEPT ![pos] = config_file]
  /\ prev_pos' = pos
  /\ pos' = After(pos)
  /\ trail' = IF back THEN Append(SubSeq(trail, 1, Len(trail) - 2), config_file)
                      ELSE Newest(Append(trail, config_file))
  /\ back' = FALSE
  /\ UNCHANGED start

(* The configuration is open and is saved in the history. *)
SaveHistory ==
  /\ filename' = [filename EXCEPT ![pos] = config_file]
  /\ prev_pos' = pos
  /\ pos' = After(pos)
  /\ start' = IF start = pos' THEN After(start) ELSE start
  /\ trail' = IF back THEN Append(SubSeq(trail, 1, Len(trail) - 2), config_file)
                      ELSE Newest(Append(trail, config_file))
  /\ back' = FALSE

(* run_menu begins with the default entry, or after a movement back with   *)
(* the saved position, window and all.                                     *)
RunMenu(default) ==
  /\ phase' = "menu"
  /\ selected' = IF menu_pos # -1 THEN position[menu_pos] ELSE default
  /\ menu_pos' = -1

(* The file is loaded: with entries there is a menu. *)
Load ==
  /\ phase = "load"
  /\ SaveHistory
  /\ \/ /\ Size[config_file] > 0
        /\ \E default \in 0 .. Size[config_file] - 1 : RunMenu(default)
     \/ /\ Size[config_file] = 0
        /\ phase' = "prompt" /\ UNCHANGED <<selected, menu_pos>>
  /\ UNCHANGED <<config_file, position>>

(* There is no such file any more. *)
LoadFails ==
  /\ phase = "load"
  /\ phase' = "prompt"
  /\ UNCHANGED <<config_file, ringVars, selected, trail, back>>

(* The configfile command, on the command line of the menu or without one. *)
Configfile(f) ==
  /\ phase \in {"menu", "prompt"}
  /\ config_file' = f
  /\ phase' = "load"
  /\ UNCHANGED <<ringVars, selected, trail, back>>
-----------------------------------------------------------------------------
(* run_menu *)

(* The file whose entries the menu shows. *)
Shown == filename[prev_pos]

Select == /\ phase = "menu"
        /\ \E e \in 0 .. Size[Shown] - 1 : selected' = e
        /\ UNCHANGED <<phase, config_file, ringVars, trail, back>>

(* Enter: the position is kept, and the entry comes back or goes on to     *)
(* another configuration file.                                             *)
Enter ==
  /\ phase = "menu"
  /\ position' = [position EXCEPT ![prev_pos] = selected]
  /\ \/ UNCHANGED <<phase, config_file>>
     \/ \E f \in Configs : config_file' = f /\ phase' = "load"
  /\ UNCHANGED <<filename, pos, prev_pos, start, menu_pos, selected, trail, back>>

(* 'r' loads the file again, 'M' the first one of all. *)
Reload ==
  /\ phase = "menu"
  /\ config_file' \in {config_file, Master}
  /\ phase' = "load"
  /\ UNCHANGED <<ringVars, selected, trail, back>>

(* 'M' in the editor only goes back to the menu. *)
EditorMaster ==
  /\ phase = "menu"
  /\ config_file' = Master
  /\ UNCHANGED <<phase, ringVars, selected, trail, back>>

GoBack ==
  /\ phase = "menu"
  /\ prev_pos # start
  /\ config_file' = filename[Before(prev_pos)]
  /\ pos' = Before(prev_pos) /\ menu_pos' = Before(prev_pos)
  /\ phase' = "load"
  /\ back' = TRUE
  /\ UNCHANGED <<filename, position, prev_pos, start, selected, trail>>

HistoryInit ==
  /\ phase = "load" /\ config_file = Master
  /\ filename = [i \in Ring |-> None] /\ position = [i \in Ring |-> 0]
  /\ pos = 0 /\ prev_pos = 0 /\ start = 0 /\ menu_pos = -1
  /\ selected = 0 /\ trail = <<>> /\ back = FALSE

HistoryNext == \/ Load \/ LoadFails \/ Select \/ Enter \/ Reload \/ EditorMaster \/ GoBack
        \/ \E f \in Configs : Configfile(f)

HistorySpec == HistoryInit /\ [][HistoryNext]_historyVars

-----------------------------------------------------------------------------
(* Properties *)

(* The indices of the ring (stage2.c) stay inside the array.               *)
HistoryTypeOK ==
  /\ phase \in {"load", "menu", "prompt"} /\ config_file \in Configs
  /\ filename \in [Ring -> Configs \cup {None}] /\ position \in [Ring -> Nat]
  /\ pos \in Ring /\ prev_pos \in Ring /\ start \in Ring
  /\ menu_pos \in Ring \cup {-1}
  /\ selected \in Nat /\ trail \in Seq(Configs) /\ back \in BOOLEAN

(* The slots from start to prev_pos, around the end of the ring. *)
Occupied == IF prev_pos >= start THEN prev_pos - start + 1
                                 ELSE prev_pos + N - start + 1
Slot(k) == IF start + k - 1 >= N THEN start + k - 1 - N ELSE start + k - 1

(* The ring that cmain fills and wraps around and that the left key goes   *)
(* back in holds the newest files visited and not gone back from, in their *)
(* order: what SaveHistory overwrites is the oldest of them.               *)
RingIsTrail ==
  trail # <<>> =>
    /\ Len(trail) = Occupied
    /\ \A k \in 1 .. Len(trail) : filename[Slot(k)] = trail[k]

(* The left key of run_menu loads the file visited before the one it       *)
(* leaves, also after the ring has wrapped around.                         *)
BackGoesBack ==
  [][~back /\ back' => config_file' = trail[Len(trail) - 1]]_historyVars

-----------------------------------------------------------------------------
(* What the code says and does not keep.                                   *)

(* "we're in a history back movement, set menu values to previous ones":   *)
(* the values are those of an entry that the menu has.                     *)
PositionIsOfThisMenu == phase = "menu" => selected < Size[Shown]
=============================================================================
