------------------------------ MODULE Variables ------------------------------
(***************************************************************************)
(* The variables of the configuration (stage2/builtins.c): set, the        *)
(* expansion of $(NAME) in every line that is run, and the toggles, keys   *)
(* of the menu that give variables the values of their next block.         *)
(*                                                                         *)
(* Values live in a store that is only ever allocated from, and a toggle   *)
(* points at the same text as the variable it was last given to; set       *)
(* overwrites a text in its place when the new one is not longer.          *)
(*                                                                         *)
(* A text is a sequence of letters and references (a loose "$(" is left    *)
(* out). Every line that is run is expanded as those of set are here, but  *)
(* the others change none of these variables. "toggle set" is one step for *)
(* each process_var, every other command is one step.                      *)
(***************************************************************************)
EXTENDS Integers, Sequences, FiniteSets, SequencesExt

CONSTANTS
  Letters,             \* the letters and references texts are made of
  Refers,              \* the variable a reference names; "" for a letter
  Width,               \* the length of every name and letter
  Sane,                \* the names without a bracket or a space
  SetLines,            \* the arguments of set: name, text, parse, emptysetonly
  ToggleLines,         \* the arguments of toggle set: key and blocks
  VARIABLES_MAX, VARIABLE_STORE_SIZE, TOGGLES, MAX_BLOCKS, MAX_VAR_PER_BLOCK,
  BufferSize,          \* what var_sprint expands in one pass
  Passes,              \* the passes of var_sprint
  MaxTurn              \* bound: current_block of a toggle without blocks

NoText == <<"?">>     \* an assignment without '='
Overrun == <<"!">>    \* what does not fit var_sprint's buffer
NoCell == 0

TT_VMWARE == "TT_VMWARE"

ASSUME TextAssumption ==
  /\ {"0", "1"} \subseteq Letters /\ {"?", "!"} \cap Letters = {}
  /\ Refers \in [Letters -> STRING]
  /\ Sane \cup {TT_VMWARE} \subseteq STRING
  /\ \A x \in Letters \cup Sane \cup {TT_VMWARE} : Width[x] \in Nat

ASSUME LinesAssumption ==
  /\ SetLines \subseteq [name : STRING, text : Seq(Letters), parse : BOOLEAN, emptysetonly : BOOLEAN]
  /\ ToggleLines \subseteq
       [key : STRING, blocks : Seq(Seq([name : STRING, text : Seq(Letters) \cup {NoText}]))]

ASSUME SizesAssumption ==
  /\ {VARIABLES_MAX, VARIABLE_STORE_SIZE, TOGGLES, MAX_BLOCKS,
      MAX_VAR_PER_BLOCK, BufferSize, Passes, MaxTurn} \subseteq Nat \ {0}
  /\ Width[TT_VMWARE] + 3 <= VARIABLE_STORE_SIZE
  /\ MAX_BLOCKS <= MaxTurn + 1

VARIABLES
  at,        \* "ready", or for ever in var_sprint ("hung"), or "wild": a
             \* command has followed a pointer or an index that is none,
             \* or "spoilt": what lies behind var_sprint's buffer was used
  list,      \* variable_list: the name and the cell of the value, 0 for NULL
  store,     \* the texts in variable_store and the room each was allocated
  actpos,    \* variable_store_actpos
  toggles,   \* toggle_data[0 .. toggles_used - 1]
  todo,      \* the "toggle set" under way
  refused    \* history: a line was given up, or a variable got no value

vars == <<at, list, store, actpos, toggles, todo, refused>>

Begun(slot, blocks) == [slot |-> slot, blocks |-> blocks, b |-> 1, v |-> 1]
Idle == Begun(0, <<>>)
-----------------------------------------------------------------------------
(* Looking up *)

Length(text) ==
  LET upto[i \in 0 .. Len(text)] == IF i = 0 THEN 0 ELSE upto[i - 1] + Width[text[i]]
  IN upto[Len(text)]

(* var_get_index; 0 is its -1. The empty name is never found. *)
Index(name) ==
  IF name # "" /\ \E i \in DOMAIN list : list[i].name = name
  THEN CHOOSE i \in DOMAIN list : list[i].name = name
  ELSE 0

(* var_get finds a text. *)
Known(name) == Index(name) # 0 /\ list[Index(name)].cell # NoCell
Value(name) == store[list[Index(name)].cell].text

Unknown(a) == Refers[a] # "" /\ ~Known(Refers[a])

(* An unknown reference is dropped, and whatever comes behind it is copied *)
(* without a look at it: of a run of them the second, the fourth ... stay. *)
Unexamined(text, i) ==
  \E n \in 1 .. i - 1 :
    /\ n % 2 = 1 /\ \A j \in i - n .. i - 1 : Unknown(text[j])
    /\ i - n = 1 \/ ~Unknown(text[i - n - 1])

(* Mutant: what comes behind an unknown reference is dropped with it. *)
DropsTheNext(text) ==
  FlattenSeq([i \in DOMAIN text |->
    IF Unexamined(text, i) THEN <<>>
    ELSE IF Refers[text[i]] = "" THEN <<text[i]>>
    ELSE IF Known(Refers[text[i]]) THEN Value(Refers[text[i]]) ELSE <<>>])

var_sprint_once(text) ==
  FlattenSeq([i \in DOMAIN text |->
    IF Unexamined(text, i) \/ Refers[text[i]] = "" THEN <<text[i]>>
    ELSE IF Known(Refers[text[i]]) THEN Value(Refers[text[i]]) ELSE <<>>])

(* The passes of var_sprint; they end early when one changes nothing, as   *)
(* the others would then.                                                  *)
passes(text) ==
  LET pass[i \in 0 .. Passes] ==
        IF i = 0 THEN text
        ELSE IF pass[i - 1] = Overrun \/ Length(pass[i - 1]) > BufferSize THEN Overrun
        ELSE var_sprint_once(pass[i - 1])
  IN pass

(* Mutant: the loop counts down before its first pass. *)
var_sprint_less(text) == passes(text)[Passes - 1]

var_sprint(text) == passes(text)[Passes]

(* A pass leaves its buffer: the terminating zero of a text of BufferSize  *)
(* is written behind it (the test is for more, not for as much), and       *)
(* behind an unknown reference at the end the zero is copied unseen and    *)
(* what follows it is read.                                                *)
LeavesBuffer(text) ==
  \E i \in 0 .. Passes - 1 :
    LET t == passes(text)[i]
    IN /\ t # Overrun
       /\ \/ Length(t) = BufferSize
          \/ t # <<>> /\ Unknown(Last(t)) /\ ~Unexamined(t, Len(t))
-----------------------------------------------------------------------------
(* var_alloc_mem *)

(* Mutant: the terminating zero is not counted. *)
FitsUnterminated(len) == actpos + len - 1 <= VARIABLE_STORE_SIZE

Fits(len) == actpos + len <= VARIABLE_STORE_SIZE

Cell(text) == [room |-> Length(text), text |-> text]

(* A name can be added: there is a place in the list, and room after the   *)
(* taken bytes of the store that the value was just allocated.             *)
Addable(name, taken) ==
  /\ name \in Sane
  /\ Len(list) < VARIABLES_MAX
  /\ Fits(taken + Width[name] + 1)

Refuse == /\ refused' = TRUE
          /\ UNCHANGED <<at, list, store, actpos, toggles, todo>>

-----------------------------------------------------------------------------
(* set *)

(* Mutant: an empty value is not worth memory. *)
NewUnlessEmpty(name, text) ==
  /\ Addable(name, 0)
  /\ IF text # <<>> /\ Fits(Width[name] + Length(text) + 2)
     THEN /\ list' = Append(list, [name |-> name, cell |-> Len(store) + 1])
          /\ store' = Append(store, Cell(text))
          /\ actpos' = actpos + Width[name] + Length(text) + 2
          /\ UNCHANGED refused
     ELSE /\ list' = Append(list, [name |-> name, cell |-> NoCell])
          /\ actpos' = actpos + Width[name] + 1
          /\ refused' = (refused \/ text # <<>>)
          /\ UNCHANGED store
  /\ UNCHANGED <<at, toggles, todo>>

(* A variable is made; without memory for its value its name stays.        *)
NewVariable(name, text) ==
  /\ Addable(name, 0)
  /\ IF Fits(Width[name] + Length(text) + 2)
     THEN /\ list' = Append(list, [name |-> name, cell |-> Len(store) + 1])
          /\ store' = Append(store, Cell(text))
          /\ actpos' = actpos + Width[name] + Length(text) + 2
          /\ UNCHANGED refused
     ELSE /\ list' = Append(list, [name |-> name, cell |-> NoCell])
          /\ actpos' = actpos + Width[name] + 1
          /\ refused' = TRUE
          /\ UNCHANGED store
  /\ UNCHANGED <<at, toggles, todo>>

(* Variable i has a text, and the new one is not longer. *)
Shorter(i, text) ==
  list[i].cell # NoCell /\ Length(store[list[i].cell].text) >= Length(text)

(* We can just replace the value.                                          *)
InPlace(i, text) ==
  /\ Shorter(i, text)
  /\ store' = [store EXCEPT ![list[i].cell].text = text]
  /\ UNCHANGED <<at, list, actpos, toggles, todo, refused>>

(* It is longer: the old place is given up. What the length of a value     *)
(* that is NULL is found to be nobody knows.                               *)
Elsewhere(i, text) ==
  /\ ~Shorter(i, text)
  /\ Fits(Length(text) + 1)
  /\ store' = Append(store, Cell(text))
  /\ list' = [list EXCEPT ![i].cell = Len(store) + 1]
  /\ actpos' = actpos + Length(text) + 1
  /\ UNCHANGED <<at, toggles, todo, refused>>

(* ... and if that is enough, the text is copied to NULL. *)
ToNull(i) ==
  /\ list[i].cell = NoCell
  /\ at' = "wild"
  /\ UNCHANGED <<list, store, actpos, toggles, todo, refused>>

SetRefused(name, text) ==
  /\ IF Index(name) = 0
     THEN ~Addable(name, 0)
     ELSE ~Shorter(Index(name), text) /\ ~Fits(Length(text) + 1)
  /\ Refuse

var_set(name, text) ==
  \/ Index(name) = 0 /\ NewVariable(name, text)
  \/ Index(name) # 0 /\ \/ InPlace(Index(name), text)
                        \/ Elsewhere(Index(name), text)
                        \/ ToNull(Index(name))
  \/ SetRefused(name, text)

Hang == /\ at' = "hung"
        /\ UNCHANGED <<list, store, actpos, toggles, todo, refused>>

(* What lies behind the buffer may be used without harm, or not. *)
Spoil == /\ at' = "spoilt"
         /\ UNCHANGED <<list, store, actpos, toggles, todo, refused>>

set_func(l) ==
  /\ at = "ready" /\ todo = Idle
  /\ l.emptysetonly => Index(l.name) = 0
  /\ \/ LET text == IF l.parse THEN var_sprint(l.text) ELSE l.text
        IN IF text = Overrun THEN Hang ELSE var_set(l.name, text)
     \/ l.parse /\ LeavesBuffer(l.text) /\ Spoil
-----------------------------------------------------------------------------
(* Giving a block's values to its variables *)

(* toggle_do_block(slot, b), where t are the toggles: the variables of a   *)
(* block, the last value for each of them; an entry that lost its variable *)
(* (its index is -1) names nothing in the list; one without a text is      *)
(* passed over (var_set_no_copy).                                          *)
Entries(t, slot, b) ==
  [v \in 1 .. t[slot].block[b].nr_vars |-> t[slot].block[b].var[v]]

Lost(t, slot, b) ==
  \E v \in DOMAIN Entries(t, slot, b) :
    Entries(t, slot, b)[v].var = 0 /\ Entries(t, slot, b)[v].cell # NoCell

toggle_do_block(t, slot, b) ==
  LET e == Entries(t, slot, b)
      Of(i) == {v \in DOMAIN e : e[v].var = i /\ e[v].cell # NoCell}
      LastOf(i) == CHOOSE v \in Of(i) : \A w \in Of(i) : w <= v
  IN IF Lost(t, slot, b)
     THEN at' = "wild" /\ UNCHANGED list
     ELSE /\ list' = [i \in DOMAIN list |->
                        IF Of(i) = {} THEN list[i]
                        ELSE [list[i] EXCEPT !.cell = e[LastOf(i)].cell]]
          /\ UNCHANGED at

(* toggle_find_slot; 0 is its -1. *)
Slot(key) ==
  IF \E s \in DOMAIN toggles : toggles[s].key = key
  THEN CHOOSE s \in DOMAIN toggles : toggles[s].key = key
  ELSE 0

(* A key of the menu: current_block goes around, unless the toggle has no  *)
(* blocks because its definition was refused; then it counts on.           *)
toggle_do_key(s) ==
  /\ at = "ready" /\ todo = Idle
  /\ LET next == IF toggles[s].current + 1 = toggles[s].nr_blocks
                 THEN 0 ELSE toggles[s].current + 1
     IN /\ next <= MaxTurn
        /\ toggles' = [toggles EXCEPT ![s].current = next]
        /\ IF next < toggles[s].nr_blocks
           THEN toggle_do_block(toggles, s, next + 1)
           ELSE UNCHANGED <<at, list>>
  /\ UNCHANGED <<store, actpos, todo, refused>>

(* One assignment of "toggle select"; one of a block that is not there is  *)
(* a bad argument.                                                         *)
ToggleSelect(s, b) ==
  /\ at = "ready" /\ todo = Idle
  /\ b < toggles[s].nr_blocks
  /\ toggle_do_block(toggles, s, b + 1)
  /\ toggles' = [toggles EXCEPT ![s].current = b]
  /\ UNCHANGED <<store, actpos, todo, refused>>

(* "toggle trigger" NAME == TEXT: another toggle command follows. *)
ToggleTrigger(name, text, s, b) ==
  /\ Known(name) /\ Value(name) = text
  /\ ToggleSelect(s, b)
-----------------------------------------------------------------------------
(* toggle set *)

EmptyBlock == [nr_vars |-> 0,
               var |-> [v \in 1 .. MAX_VAR_PER_BLOCK |-> [var |-> 1, cell |-> NoCell]]]
NewToggle(key) == [key |-> key, current |-> 0, nr_blocks |-> 0,
                   block |-> [b \in 1 .. MAX_BLOCKS |-> EmptyBlock]]

(* The slot is emptied; the loop over its blocks stops at the number of    *)
(* variables in a block.                                                   *)
Emptied(t) ==
  [key |-> t.key, current |-> 0, nr_blocks |-> 0,
   block |-> [b \in 1 .. MAX_BLOCKS |->
                IF b <= MAX_VAR_PER_BLOCK THEN [t.block[b] EXCEPT !.nr_vars = 0]
                                          ELSE t.block[b]]]

ToggleSet(l) ==
  /\ at = "ready" /\ todo = Idle
  /\ \/ /\ Slot(l.key) # 0
        /\ toggles' = [toggles EXCEPT ![Slot(l.key)] = Emptied(@)]
        /\ todo' = Begun(Slot(l.key), l.blocks)
     \/ /\ Slot(l.key) = 0 /\ Len(toggles) < TOGGLES
        /\ toggles' = Append(toggles, NewToggle(l.key))
        /\ todo' = Begun(Len(toggles) + 1, l.blocks)
  /\ UNCHANGED <<at, list, store, actpos, refused>>

(* The assignment that process_block has come to. *)
More == todo.b <= Len(todo.blocks) /\ todo.v <= Len(todo.blocks[todo.b])
Current == todo.blocks[todo.b][todo.v]
Entry == toggles[todo.slot].block[todo.b].var[todo.v]
Misfit == todo.b > MAX_BLOCKS \/ todo.v > MAX_VAR_PER_BLOCK

(* The toggle has this text here already, for a variable of any name. *)
Same == /\ Entry.cell # NoCell
        /\ Index(Current.name) # 0
        /\ store[Entry.cell].text = Current.text

Counted(block) ==
  IF todo.v > block.nr_vars THEN [block EXCEPT !.nr_vars = todo.v] ELSE block

(* Mutant: the entry is made one of the variable that is named now. *)
KeepsForNewName ==
  /\ Same
  /\ toggles' = [toggles EXCEPT ![todo.slot].block[todo.b] =
                   [Counted(@) EXCEPT !.var[todo.v].var = Index(Current.name)]]
  /\ todo' = [todo EXCEPT !.v = @ + 1]
  /\ UNCHANGED <<list, store, actpos, refused>>

(* process_var keeps the entry, the variable that it is for included.      *)
KeepEntry ==
  /\ Same
  /\ toggles' = [toggles EXCEPT ![todo.slot].block[todo.b] = Counted(@)]
  /\ todo' = [todo EXCEPT !.v = @ + 1]
  /\ UNCHANGED <<list, store, actpos, refused>>

(* process_var allocates the text and var_set_no_copy gives it to the      *)
(* variable, which may be a new one.                                       *)
FillEntry ==
  /\ ~Same
  /\ LET name == Current.name
         len  == Length(Current.text) + 1
         i    == IF Index(name) # 0 THEN Index(name) ELSE Len(list) + 1
     IN /\ Fits(len)
        /\ name # ""
        /\ Index(name) # 0 \/ Addable(name, len)
        /\ store' = Append(store, Cell(Current.text))
        /\ list' = IF Index(name) # 0
                   THEN [list EXCEPT ![i].cell = Len(store) + 1]
                   ELSE Append(list, [name |-> name, cell |-> Len(store) + 1])
        /\ actpos' = actpos + len + (IF Index(name) # 0 THEN 0 ELSE Width[name] + 1)
        /\ toggles' = [toggles EXCEPT ![todo.slot].block[todo.b] =
                        [Counted(@) EXCEPT !.var[todo.v] =
                           [var |-> i, cell |-> Len(store) + 1]]]
  /\ todo' = [todo EXCEPT !.v = @ + 1]
  /\ UNCHANGED refused

(* The memory for the text was there, the variable is not: the entry keeps *)
(* its former text and loses its variable. The empty name is in the list,  *)
(* but is not found there.                                                 *)
LoseVariable ==
  /\ ~Same
  /\ LET name == Current.name
         len  == Length(Current.text) + 1
     IN /\ Fits(len)
        /\ Index(name) = 0
        /\ name = "" \/ ~Addable(name, len)
        /\ store' = Append(store, Cell(Current.text))
        /\ IF Addable(name, len)
           THEN /\ list' = Append(list, [name |-> name, cell |-> Len(store) + 1])
                /\ actpos' = actpos + len + Width[name] + 1
           ELSE /\ actpos' = actpos + len
                /\ UNCHANGED list
        /\ toggles' = [toggles EXCEPT
                         ![todo.slot].block[todo.b].var[todo.v].var = 0]
  /\ todo' = Idle
  /\ refused' = TRUE

ProcessVar ==
  /\ at = "ready" /\ todo # Idle
  /\ More /\ ~Misfit /\ Current.text # NoText
  /\ KeepEntry \/ FillEntry \/ LoseVariable
  /\ UNCHANGED at

(* The line is given up: an assignment without '=', or one too many, or no *)
(* memory for its text.                                                    *)
ToggleSetFails ==
  /\ at = "ready" /\ todo # Idle
  /\ \/ More /\ (Misfit \/ Current.text = NoText)
     \/ More /\ ~Misfit /\ Current.text # NoText /\ ~Same /\ ~Fits(Length(Current.text) + 1)
     \/ todo.b > MAX_BLOCKS /\ todo.b <= Len(todo.blocks)
  /\ todo' = Idle
  /\ refused' = TRUE
  /\ UNCHANGED <<at, list, store, actpos, toggles>>

NextBlock ==
  /\ at = "ready" /\ todo # Idle
  /\ todo.b <= Len(todo.blocks) /\ todo.b <= MAX_BLOCKS
  /\ todo.v > Len(todo.blocks[todo.b])
  /\ todo' = [todo EXCEPT !.b = @ + 1, !.v = 1]
  /\ UNCHANGED <<at, list, store, actpos, toggles, refused>>

(* Every block is there: the values of the first are set. *)
ToggleSetDone ==
  /\ at = "ready" /\ todo # Idle
  /\ todo.b > Len(todo.blocks)
  /\ toggles' = [toggles EXCEPT ![todo.slot].nr_blocks = Len(todo.blocks)]
  /\ IF todo.blocks # <<>> THEN toggle_do_block(toggles', todo.slot, 1)
                           ELSE UNCHANGED <<at, list>>
  /\ todo' = Idle
  /\ UNCHANGED <<store, actpos, refused>>
-----------------------------------------------------------------------------
(* toggle_trigger_init: whether the machine is a virtual one.              *)
Init ==
  /\ at = "ready" /\ todo = Idle /\ toggles = <<>> /\ refused = FALSE
  /\ list = <<[name |-> TT_VMWARE, cell |-> 1]>>
  /\ \E text \in {<<"0">>, <<"1">>} : store = <<Cell(text)>>
  /\ actpos = Width[TT_VMWARE] + 3

Next ==
  \/ \E l \in SetLines : set_func(l)
  \/ \E l \in ToggleLines : ToggleSet(l)
  \/ ProcessVar \/ ToggleSetFails \/ NextBlock \/ ToggleSetDone
  \/ \E s \in DOMAIN toggles : toggle_do_key(s)
  \/ \E s \in DOMAIN toggles, b \in 0 .. MAX_BLOCKS : ToggleSelect(s, b)
  \/ \E s \in DOMAIN toggles, b \in 0 .. MAX_BLOCKS :
       ToggleTrigger(TT_VMWARE, <<"1">>, s, b)

Spec == Init /\ [][Next]_vars

-----------------------------------------------------------------------------
(* Properties *)

Text == Seq(Letters)
Cells == 0 .. Len(store)

(* The store, the list and the table of toggles (builtins.c) are never     *)
(* filled beyond their ends, whatever lines come.                          *)
TypeOK ==
  /\ at \in {"ready", "hung", "wild", "spoilt"} /\ refused \in BOOLEAN
  /\ Len(list) <= VARIABLES_MAX /\ \A i \in DOMAIN list : list[i].cell \in Cells
  /\ \A c \in DOMAIN store : store[c].text \in Text /\ store[c].room \in Nat
  /\ actpos \in 0 .. VARIABLE_STORE_SIZE
  /\ Len(toggles) <= TOGGLES
  /\ \A s \in DOMAIN toggles :
       /\ toggles[s].nr_blocks \in 0 .. MAX_BLOCKS /\ toggles[s].current \in 0 .. MaxTurn
       /\ \A b \in 1 .. MAX_BLOCKS :
            /\ toggles[s].block[b].nr_vars \in 0 .. MAX_VAR_PER_BLOCK
            /\ \A v \in 1 .. MAX_VAR_PER_BLOCK :
                 /\ toggles[s].block[b].var[v].var \in 0 .. VARIABLES_MAX
                 /\ toggles[s].block[b].var[v].cell \in Cells

(* var_set's overwriting in place never writes past the memory that was    *)
(* allocated for a text, however often it got shorter and longer again.    *)
TextsFit == \A c \in DOMAIN store : Length(store[c].text) <= store[c].room

(* Two variables never share a text, so that set, which overwrites texts   *)
(* in place, changes no variable but its own: a toggle's text goes to one  *)
(* variable only, also when its line is given again with another name.     *)
NoSharing ==
  \A i, j \in DOMAIN list :
    i # j /\ list[i].cell # NoCell => list[i].cell # list[j].cell

(* var_set and toggle_do_block follow a NULL value or an index of -1 only  *)
(* after a line was refused: with room in the store and the list, and with *)
(* lines that are well formed, they never do.                              *)
WildNeedsRefusal == at = "wild" => refused

(* A text in which every letter a is replaced by the text g[a]. *)
Spelled(g, text) == FlattenSeq([i \in DOMAIN text |-> g[text[i]]])

(* What the letters mean: a known reference has the meaning of its value,  *)
(* at most Passes references deep; an unknown one means nothing.           *)
Bare(a) == IF Refers[a] = "" THEN <<a>> ELSE <<>>

meanings ==
  LET meaning[depth \in 0 .. Passes] ==
        [a \in Letters |->
          IF ~Known(Refers[a]) THEN Bare(a)
          ELSE IF depth = 0 THEN <<"!">>
          ELSE Spelled(meaning[depth - 1], Value(Refers[a]))]
  IN meaning

Meaning(text) == Spelled(meanings[Passes], text)

(* No pass over the text is too long or meets an unknown reference.        *)
Clear(text) ==
  \A i \in 0 .. Passes :
    passes(text)[i] # Overrun /\ \A a \in Range(passes(text)[i]) : ~Unknown(a)

(* The passes of var_sprint over a line come to what the line means, if    *)
(* that is within their number and every reference they meet is known.     *)
ExpandsToMeaning ==
  \A l \in SetLines :
    "!" \notin Range(Meaning(l.text)) /\ Clear(l.text) => var_sprint(l.text) = Meaning(l.text)

(* g gives the letters their meanings, and no references go in a circle.   *)
Explains(g) ==
  \A a \in Letters : g[a] = IF Known(Refers[a]) THEN Spelled(g, Value(Refers[a])) ELSE Bare(a)

Expanded(text) == text # Overrun /\ \A a \in Range(text) : Refers[a] = ""

(* With unknown references in a line or in the values it leads to, a pass  *)
(* leaves references unexpanded that it should expand; but if the passes   *)
(* leave none in the end, they came to what the line means: nothing else   *)
(* got lost or stayed with the references that were dropped.               *)
UnknownMeansNothing ==
  \A l \in SetLines :
    Explains(meanings[Passes]) /\ Expanded(var_sprint(l.text)) => var_sprint(l.text) = Meaning(l.text)
=============================================================================
