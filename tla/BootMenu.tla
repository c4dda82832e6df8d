------------------------------ MODULE BootMenu ------------------------------
(***************************************************************************)
(* What boots unattended: the default and fallback entries and the timeout *)
(* of a configuration (cmain and run_menu in stage2/stage2.c, the commands *)
(* default, fallback, timeout and hiddenmenu in stage2/builtins.c), the    *)
(* entries that are run, and the user who interferes and goes back to an   *)
(* earlier configuration.                                                  *)
(***************************************************************************)
EXTENDS Integers, Sequences

CONSTANTS
  MaxFallback,  \* MAX_FALLBACK_ENTRIES
  MaxEntries,   \* bound: the entries of a configuration
  Timeouts,     \* the arguments of the timeout command
  Numbers,      \* the arguments of the default command
  Arguments     \* the arguments of the fallback command, sequences of numbers

ASSUME BoundsAssumption ==
  /\ MaxFallback \in Nat \ {0} /\ MaxEntries \in Nat
  /\ Timeouts \subseteq Nat /\ Numbers \subseteq Nat
  /\ \A args \in Arguments : args \in Seq(Nat)

VARIABLES
  at,            \* the next step, see Steps
  nr_entries,      \* num_entries of cmain
  default_entry,
  fallback_entries, fallback_entryno,
  grub_timeout, show_menu,
  checking,      \* the index of the loop that validates the fallback entries
  in_editor,     \* the menu is the editor of an entry's commands
  current,       \* the entry of the menu that is selected or run
  saved_pos,     \* the position of config_file_history_menu_pos
  resumed,       \* history: current comes from such a position
  asked,         \* history: the argument of the fallback command
  ran            \* history: the entries run since the menu was left

configVars == <<nr_entries, default_entry, asked>>
fallbackVars == <<fallback_entries, fallback_entryno>>
menuVars == <<grub_timeout, show_menu, in_editor, current>>
startVars == <<saved_pos, resumed>>
bootVars == <<at, configVars, fallbackVars, menuVars, startVars, checking, ran>>

Slots == 0 .. MaxFallback - 1
Positions == 0 .. MaxEntries  \* bound: also those beyond a menu's entries
Nowhere == -1                 \* what is run and is no entry of the menu
Steps == {"config", "validate", "default", "hidden", "menu", "run", "booted",
          "prompt"}
Goto(step) == at' = step
-----------------------------------------------------------------------------
(* fallback_func *)

(* A number that was there before is passed over; but what follows it is   *)
(* then not read as a number, and the command fails.                       *)
Repeats(args, k) == \E j \in 1 .. k - 1 : args[j] = args[k]
FirstRepeat(args) == {k \in 1 .. Len(args) : /\ Repeats(args, k)
                                             /\ k <= MaxFallback
                                             /\ \A j \in 1 .. k - 1 : ~Repeats(args, j)}
Rejected(args) == \E k \in FirstRepeat(args) : k < Len(args)
Kept(args) ==
  LET n == IF FirstRepeat(args) # {} THEN (CHOOSE k \in FirstRepeat(args) : TRUE) - 1
           ELSE IF Len(args) > MaxFallback THEN MaxFallback ELSE Len(args)
  IN  SubSeq(args, 1, n)

(* The array after kept was written to its beginning, with or without the  *)
(* -1 that ends the list.                                                  *)
Written(kept, ended) ==
  [s \in Slots |-> IF s < Len(kept) THEN kept[s + 1]
                   ELSE IF s = Len(kept) /\ ended THEN -1
                   ELSE fallback_entries[s]]

fallback_func(args) ==
  /\ asked' = args
  /\ IF Rejected(args)
     THEN /\ fallback_entries' = Written(Kept(args), FALSE)
          /\ fallback_entryno' = -1
     ELSE /\ fallback_entries' = Written(Kept(args), TRUE)
          /\ fallback_entryno' = IF args = <<>> THEN -1 ELSE 0
-----------------------------------------------------------------------------
(* cmain *)

(* reset, and the menu commands and the entries of the file. *)
LoadConfig ==
  /\ at = "config"
  /\ nr_entries' \in 0 .. MaxEntries
  /\ default_entry' \in Numbers
  /\ grub_timeout' \in Timeouts \cup {-1}
  /\ show_menu' \in {show_menu, FALSE}
  /\ \E args \in Arguments \cup {<<>>} : fallback_func(args)
  /\ checking' = 0
  /\ Goto(IF fallback_entryno' >= 0 THEN "validate" ELSE "default")
  /\ UNCHANGED <<in_editor, current, startVars, ran>>

(* One round of the loop that makes sure that all fallback entries are     *)
(* valid: one that is not is overwritten by those that follow.             *)
Shifted == [s \in Slots |-> IF s >= checking /\ s < MaxFallback - 1
                            THEN fallback_entries[s + 1] ELSE fallback_entries[s]]

(* Mutant: the entry after the last is taken for valid. *)
ValidatesTooFar ==
  /\ at = "validate"
  /\ checking < MaxFallback /\ fallback_entries[checking] >= 0
  /\ \/ fallback_entries[checking] > nr_entries /\ fallback_entries' = Shifted /\ UNCHANGED checking
     \/ fallback_entries[checking] <= nr_entries /\ checking' = checking + 1 /\ UNCHANGED fallback_entries
  /\ UNCHANGED <<at, configVars, fallback_entryno, menuVars, startVars, ran>>

Validate ==
  /\ at = "validate"
  /\ checking < MaxFallback /\ fallback_entries[checking] >= 0
  /\ \/ fallback_entries[checking] >= nr_entries /\ fallback_entries' = Shifted /\ UNCHANGED checking
     \/ fallback_entries[checking] < nr_entries /\ checking' = checking + 1 /\ UNCHANGED fallback_entries
  /\ UNCHANGED <<at, configVars, fallback_entryno, menuVars, startVars, ran>>

Validated ==
  /\ at = "validate"
  /\ checking < MaxFallback => fallback_entries[checking] < 0
  /\ fallback_entryno' = IF fallback_entries[0] < 0 THEN -1 ELSE fallback_entryno
  /\ Goto("default")
  /\ UNCHANGED <<configVars, fallback_entries, menuVars, startVars, checking, ran>>

(* Mutant: every second one is used. *)
NextSecond(k) == IF k + 2 >= MaxFallback \/ fallback_entries[k + 2] < 0
                 THEN -1 ELSE k + 2

(* The fallback entry that is next, or none. *)
NextFallback(k) == IF k + 1 >= MaxFallback \/ fallback_entries[k + 1] < 0
                   THEN -1 ELSE k + 1

(* A default entry that is not present is replaced.  run_menu begins with  *)
(* it, or after a movement back with the saved position, whatever the menu. *)
CheckDefault ==
  /\ at = "default"
  /\ LET use == default_entry >= nr_entries /\ fallback_entryno >= 0
     IN  /\ default_entry' = IF default_entry < nr_entries THEN default_entry
                             ELSE IF use THEN fallback_entries[0] ELSE 0
         /\ fallback_entryno' = IF use THEN NextFallback(fallback_entryno)
                                       ELSE fallback_entryno
  /\ Goto(IF nr_entries = 0 THEN "prompt" ELSE "hidden")
  /\ resumed' = (nr_entries # 0 /\ saved_pos # -1)
  /\ current' = IF resumed' THEN saved_pos ELSE default_entry'
  /\ saved_pos' = IF resumed' THEN -1 ELSE saved_pos
  /\ UNCHANGED <<nr_entries, asked, fallback_entries, grub_timeout, show_menu,
                 in_editor, checking, ran>>
-----------------------------------------------------------------------------
(* run_menu *)

(* A menu without a timeout is shown at once, a hidden one waits for ESC.  *)
ShowMenu ==
  /\ at = "hidden"
  /\ show_menu \/ grub_timeout < 0
  /\ show_menu' = TRUE
  /\ Goto("menu")
  /\ UNCHANGED <<configVars, fallbackVars, startVars, grub_timeout, in_editor, current, checking, ran>>

Hidden == at = "hidden" /\ ~show_menu /\ grub_timeout >= 0

EscapeHidden ==
  /\ Hidden
  /\ grub_timeout' = -1 /\ show_menu' = TRUE
  /\ Goto("menu")
  /\ UNCHANGED <<configVars, fallbackVars, startVars, in_editor, current, checking, ran>>

(* boot_entry: the entry is run first of all. *)
Run(e) == Goto("run") /\ current' = e /\ ran' = <<e>>

(* Mutant: the seconds that remain are not counted. *)
TicksOnly ==
  /\ Hidden \/ (at = "menu" /\ grub_timeout >= 0)
  /\ \/ grub_timeout = 0 /\ grub_timeout' = -1 /\ Run(current)
     \/ grub_timeout > 0 /\ UNCHANGED <<grub_timeout, at, current, ran>>
  /\ UNCHANGED <<configVars, fallbackVars, startVars, show_menu, in_editor, checking>>

(* A second has passed. *)
Tick ==
  /\ Hidden \/ (at = "menu" /\ grub_timeout >= 0)
  /\ \/ grub_timeout = 0 /\ grub_timeout' = -1 /\ Run(current)
     \/ grub_timeout > 0 /\ grub_timeout' = grub_timeout - 1
                         /\ UNCHANGED <<at, current, ran>>
  /\ UNCHANGED <<configVars, fallbackVars, startVars, show_menu, in_editor, checking>>

(* Any key ends unattended booting, if there is a timeout. *)
AnyKey ==
  /\ at = "menu"
  /\ grub_timeout' = -1
  /\ fallback_entryno' = IF grub_timeout >= 0 THEN -1 ELSE fallback_entryno
  /\ UNCHANGED <<configVars, fallback_entries, show_menu, checking>>

(* Up, down, pages, numbers and search.  Where there is no entry, they may *)
(* stay beyond the entries.                                                *)
MoveKey == /\ AnyKey /\ ~in_editor
           /\ current' \in IF current < nr_entries THEN 0 .. nr_entries - 1 ELSE Positions
           /\ UNCHANGED <<at, in_editor, startVars, ran>>
BootKey == AnyKey /\ Run(current) /\ UNCHANGED <<in_editor, startVars>>

(* 'e', and ESC or 'M' in the editor of the entry's commands. *)
EditKey == AnyKey /\ in_editor' = ~in_editor /\ UNCHANGED <<at, current, startVars, ran>>

(* 'r', 'M', 'p', and configfile on the command line, which the editor has *)
(* as well.                                                                *)
LeaveKey == /\ AnyKey /\ Goto("config") /\ in_editor' = FALSE
            /\ UNCHANGED <<current, startVars, ran>>

(* The left key goes back to an earlier configuration, at the position its *)
(* menu was left with, if it is still the same.                            *)
BackKey == /\ AnyKey /\ ~in_editor /\ Goto("config")
           /\ saved_pos' \in Positions
           /\ UNCHANGED <<in_editor, current, resumed, ran>>
-----------------------------------------------------------------------------
(* The entry is run *)

RunBoots ==
  /\ at = "run"
  /\ Goto("booted")
  /\ UNCHANGED <<configVars, fallbackVars, menuVars, startVars, checking, ran>>

(* The script ends without booting, or with configfile. *)
RunReturns ==
  /\ at = "run"
  /\ \/ Goto("hidden") /\ show_menu' = TRUE /\ UNCHANGED in_editor
     \/ Goto("config") /\ in_editor' = FALSE /\ UNCHANGED show_menu
  /\ ran' = <<>>
  /\ UNCHANGED <<configVars, fallbackVars, startVars, grub_timeout, current, checking>>

(* Mutant: at its end, the array of fallback entries is begun again. *)
RunsAround ==
  /\ at = "run"
  /\ \/ /\ fallback_entryno >= 0
        /\ ran' = (IF fallback_entryno = MaxFallback - 1 THEN <<>> ELSE ran)
                    \o <<fallback_entries[fallback_entryno]>>
        /\ current' = IF in_editor THEN current ELSE fallback_entries[fallback_entryno]
        /\ resumed' = (resumed /\ in_editor)
        /\ fallback_entryno' = IF fallback_entryno = MaxFallback - 1 THEN 0
                               ELSE NextFallback(fallback_entryno)
        /\ UNCHANGED <<at, show_menu>>
     \/ /\ fallback_entryno < 0
        /\ Goto("hidden") /\ show_menu' = TRUE /\ ran' = <<>>
        /\ UNCHANGED <<current, resumed, fallback_entryno>>
  /\ UNCHANGED <<configVars, fallback_entries, grub_timeout, in_editor, saved_pos, checking>>

(* The script fails: the next fallback entry is run, if there is one.  The *)
(* editor's run_menu has no config_entries: it moves its own cursor, and   *)
(* what get_entry finds there is no entry of the menu.                     *)
RunFails ==
  /\ at = "run"
  /\ \/ /\ fallback_entryno >= 0
        /\ ran' = Append(ran, IF in_editor THEN Nowhere ELSE fallback_entries[fallback_entryno])
        /\ current' = IF in_editor THEN current ELSE fallback_entries[fallback_entryno]
        /\ resumed' = (resumed /\ in_editor)
        /\ fallback_entryno' = NextFallback(fallback_entryno)
        /\ UNCHANGED <<at, show_menu>>
     \/ /\ fallback_entryno < 0
        /\ Goto("hidden") /\ show_menu' = TRUE /\ ran' = <<>>
        /\ UNCHANGED <<current, resumed, fallback_entryno>>
  /\ UNCHANGED <<configVars, fallback_entries, grub_timeout, in_editor, saved_pos, checking>>

(* The command line without a menu: configfile is the way out. *)
Prompt ==
  /\ at = "prompt"
  /\ Goto("config")
  /\ UNCHANGED <<configVars, fallbackVars, menuVars, startVars, checking, ran>>

Booted == at = "booted" /\ UNCHANGED bootVars

BootInit ==
  /\ at = "config" /\ nr_entries = 0 /\ default_entry = 0
  /\ fallback_entries = [s \in Slots |-> IF s = 0 THEN -1 ELSE 0]
  /\ fallback_entryno = -1 /\ grub_timeout = -1 /\ show_menu = TRUE
  /\ checking = 0 /\ in_editor = FALSE /\ current = 0 /\ saved_pos = -1
  /\ resumed = FALSE /\ asked = <<>> /\ ran = <<>>

CmainStep == LoadConfig \/ Validate \/ Validated \/ CheckDefault
UserKey == MoveKey \/ BootKey \/ EditKey \/ LeaveKey \/ BackKey \/ EscapeHidden
RunStep == RunBoots \/ RunReturns \/ RunFails

BootNext == CmainStep \/ ShowMenu \/ Tick \/ UserKey \/ RunStep \/ Prompt \/ Booted

(* The loader goes on by itself, the clock ticks, a script comes to an end; *)
(* nobody has to press a key.                                               *)
Fairness == /\ WF_bootVars(CmainStep) /\ WF_bootVars(ShowMenu)
            /\ WF_bootVars(Tick) /\ WF_bootVars(RunStep)

BootSpec == BootInit /\ [][BootNext]_bootVars /\ Fairness

-----------------------------------------------------------------------------
(* Properties *)

(* The variables of cmain and run_menu keep their types.                   *)
BootTypeOK ==
  /\ at \in Steps
  /\ nr_entries \in Nat /\ default_entry \in Int
  /\ fallback_entries \in [Slots -> Int] /\ fallback_entryno \in Slots \cup {-1}
  /\ grub_timeout \in Nat \cup {-1} /\ show_menu \in BOOLEAN
  /\ checking \in 0 .. MaxFallback /\ in_editor \in BOOLEAN
  /\ current \in Int /\ saved_pos \in Int /\ resumed \in BOOLEAN /\ ran \in Seq(Int)

(* The entry that run_menu selects and runs is one of the configuration,   *)
(* whatever default, fallback and a change of configuration left in the    *)
(* arrays.  Only after the left key it may not be: the position kept with  *)
(* a configuration is taken unseen, and is booted when the timeout ends.   *)
(* A fallback entry that is run then is one of the configuration again.    *)
EntryExists ==
  at \in {"hidden", "menu", "run"} =>
    0 <= current /\ (current < nr_entries \/ resumed)

(* The fallback entries that were asked for and exist, in their order. *)
Full == Len(Kept(asked)) = MaxFallback
Chosen(kept, number) ==
  LET chosen[k \in 0 .. Len(kept)] ==
        IF k = 0 THEN <<>>
        ELSE IF kept[k] < number THEN Append(chosen[k - 1], kept[k]) ELSE chosen[k - 1]
  IN chosen
Valid == Chosen(Kept(asked), nr_entries)[Len(Kept(asked))]

(* Where nothing ends the list, the last one takes the place of those that *)
(* do not exist.                                                           *)
Filled == Valid \o [n \in 1 .. (IF Full THEN MaxFallback - Len(Valid) ELSE 0) |->
                     Kept(asked)[MaxFallback]]

(* After the entry that failed, the fallback entries are run one after the *)
(* other in the order of the fallback command, without one that does not   *)
(* exist and none twice, but for the last one of a full array.  It is not  *)
(* so in the editor, whose fallback runs no entry at all.                  *)
FallbacksInOrder ==
  at = "run" /\ ~in_editor =>
    \E k \in 0 .. Len(Filled) + 1 - Len(ran) :
      Tail(ran) = SubSeq(Filled, k + 1, k + Len(ran) - 1)

(* A menu with a timeout, hidden or not, boots an entry when nobody        *)
(* presses a key.                                                          *)
TimeoutBoots == at \in {"hidden", "menu"} /\ grub_timeout >= 0
                  ~> at = "run" \/ grub_timeout < 0

(* Scripts that fail again and again do not go around in circles: the      *)
(* fallback entries are used up and the menu is shown, or one boots or     *)
(* loads another configuration.                                            *)
FallbacksEnd == at = "run" ~> at \in {"hidden", "config", "booted"}

-----------------------------------------------------------------------------
(* What the code and its comments say and the code does not keep.          *)

(* "it immediately starts over using the NUM entry" (the help of fallback). *)
FallbackRunsEntries ==
  at = "run" => \A k \in 2 .. Len(ran) : ran[k] \in 0 .. nr_entries - 1

(* "Make sure that all fallback entries are valid": the loop comes to its  *)
(* end.                                                                    *)
ValidationEnds == at = "validate" ~> at # "validate"
=============================================================================
