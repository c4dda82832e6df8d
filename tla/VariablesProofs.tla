--------------------------- MODULE VariablesProofs ---------------------------
(***************************************************************************)
(* Proofs about Variables, for every set of lines, names and texts and all *)
(* sizes of the store, the list and the toggles: nothing is filled beyond  *)
(* its end, no text is written past its room, and no two variables share   *)
(* one; and the passes over a line, when they come to an end, come to what *)
(* the line means, with or without unknown references.                     *)
(*                                                                         *)
(* Length, FlattenSeq and var_sprint are recursive functions.  Recursion   *)
(* shows once that such a function exists, and Stays that its values stay  *)
(* in a set; both are shown with the least number for which they fail.     *)
(***************************************************************************)
EXTENDS Variables, SequenceTheorems, WellFoundedInduction, TLAPS

LEMMA LeastNumber ==
  ASSUME NEW T, T \subseteq Nat, T # {}
  PROVE  \E x \in T : \A y \in T : x <= y
<1>1. PICK x \in T : \A y \in T : ~(<<y, x>> \in OpToRel(<, Nat))
  BY WFMin, NatLessThanWellFounded
<1>2. \A y \in T : ~(y < x)
  BY <1>1 DEF OpToRel
<1>3. QED
  BY <1>2

LEMMA Stays ==
  ASSUME NEW S, NEW a \in Nat, NEW n \in Nat, NEW h, h[a] \in S,
         \A i \in (a + 1)..n : h[i - 1] \in S => h[i] \in S
  PROVE  \A i \in a..n : h[i] \in S
<1> DEFINE Bad == {i \in a..n : h[i] \notin S}
<1> SUFFICES ASSUME Bad # {} PROVE FALSE
  OBVIOUS
<1>1. Bad \subseteq Nat
  OBVIOUS
<1>2. PICK k \in Bad : \A m \in Bad : k <= m
  <2> HIDE DEF Bad
  <2> QED BY <1>1, LeastNumber
<1>3. k \in a..n /\ h[k] \notin S /\ k - 1 \notin Bad
  BY <1>2
<1>4. k # a
  BY <1>3
<1>5. k \in (a + 1)..n /\ h[k - 1] \in S
  BY <1>3, <1>4
<1>6. QED
  BY <1>3, <1>5

(* A function from a to n whose every value follows from the one before. *)
Follows(S, a, n, base, g, f) ==
  /\ f \in [a..n -> S]
  /\ f[a] = base
  /\ \A i \in (a + 1)..n : f[i] = g[i][f[i - 1]]

LEMMA Recursion ==
  ASSUME NEW S, NEW a \in Nat, NEW n \in Nat, a <= n, NEW base \in S, NEW g \in [(a + 1)..n -> [S -> S]]
  PROVE  \E f : Follows(S, a, n, base, g, f)
<1> DEFINE Good(m) == \E f : Follows(S, a, m, base, g, f)
           Bad == {m \in a..n : ~Good(m)}
<1>1. Good(a)
  <2> DEFINE f == [i \in a..a |-> base]
  <2>1. f \in [a..a -> S] /\ f[a] = base /\ \A i \in (a + 1)..a : FALSE
    OBVIOUS
  <2> HIDE DEF f
  <2>2. Follows(S, a, a, base, g, f)
    BY <2>1 DEF Follows
  <2>3. QED
    BY <2>2
<1>2. ASSUME NEW m \in a..(n - 1), Good(m) PROVE Good(m + 1)
  <2>1. PICK f : Follows(S, a, m, base, g, f)
    BY <1>2
  <2>2. /\ f \in [a..m -> S] /\ f[a] = base /\ m \in Nat /\ a <= m
        /\ \A i \in (a + 1)..m : f[i] = g[i][f[i - 1]]
    BY <2>1 DEF Follows
  <2> DEFINE c == g[m + 1][f[m]]
             e == [i \in a..(m + 1) |-> IF i = m + 1 THEN c ELSE f[i]]
  <2>3. c \in S
    <3>1. m + 1 \in (a + 1)..n /\ m \in a..m
      BY <2>2
    <3>2. g[m + 1] \in [S -> S] /\ f[m] \in S
      BY <2>2, <3>1
    <3>3. QED
      BY <3>2
  <2> HIDE DEF c
  <2>4. e \in [a..(m + 1) -> S] /\ e[m + 1] = c /\ \A i \in a..m : e[i] = f[i]
    BY <2>2, <2>3
  <2> HIDE DEF e
  <2>5. e[a] = base
    BY <2>2, <2>4
  <2>6. ASSUME NEW i \in (a + 1)..(m + 1) PROVE e[i] = g[i][e[i - 1]]
    <3>1. CASE i = m + 1
      <4>1. i - 1 = m /\ m \in a..m
        BY <2>2, <3>1
      <4>2. e[i - 1] = f[m]
        BY <2>4, <4>1
      <4>3. QED
        BY <2>4, <3>1, <4>2 DEF c
    <3>2. CASE i # m + 1
      <4>1. i \in (a + 1)..m /\ i \in a..m /\ i - 1 \in a..m
        BY <2>2, <3>2
      <4>2. e[i] = f[i] /\ e[i - 1] = f[i - 1]
        BY <2>4, <4>1
      <4>3. QED
        BY <2>2, <4>1, <4>2
    <3>3. QED
      BY <3>1, <3>2
  <2>7. Follows(S, a, m + 1, base, g, e)
    BY <2>4, <2>5, <2>6 DEF Follows
  <2>8. QED
    BY <2>7
<1> HIDE DEF Good
<1>3. Bad = {}
  <2> SUFFICES ASSUME Bad # {} PROVE FALSE
    OBVIOUS
  <2>1. Bad \subseteq Nat
    OBVIOUS
  <2>2. PICK m \in Bad : \A k \in Bad : m <= k
    <3> HIDE DEF Bad
    <3> QED BY <2>1, LeastNumber
  <2>3. m \in a..n /\ ~Good(m) /\ m - 1 \notin Bad
    BY <2>2
  <2>4. m - 1 \in a..(n - 1) /\ Good(m - 1)
    BY <1>1, <2>3
  <2>5. Good((m - 1) + 1) /\ (m - 1) + 1 = m
    BY <1>2, <2>3, <2>4
  <2>6. QED
    BY <2>3, <2>5
<1>4. Good(n)
  BY <1>3
<1>5. QED
  BY <1>4 DEF Good

(* The length of a text. *)
LEMMA LengthType ==
  ASSUME NEW text \in Seq(Letters)
  PROVE  Length(text) \in Nat
<1> DEFINE n == Len(text)
           Defines(f) == f = [i \in 0..n |-> IF i = 0 THEN 0 ELSE f[i - 1] + Width[text[i]]]
           g == [i \in 1..n |-> [x \in Nat |-> x + Width[text[i]]]]
<1>1. n \in Nat /\ \A i \in 1..n : Width[text[i]] \in Nat
  BY TextAssumption
<1> HIDE DEF n
<1>2. g \in [1..n -> [Nat -> Nat]]
  BY <1>1
<1>3. \A i \in 1..n : \A x \in Nat : g[i][x] = x + Width[text[i]]
  OBVIOUS
<1> HIDE DEF g
<1>4. PICK f : Follows(Nat, 0, n, 0, g, f)
  <2>1. g \in [(0 + 1)..n -> [Nat -> Nat]] /\ 0 <= n
    BY <1>1, <1>2
  <2>2. QED
    BY <1>1, <2>1, Recursion
<1>5. Defines(f)
  <2>1. f \in [0..n -> Nat] /\ f[0] = 0 /\ \A i \in 1..n : f[i] = g[i][f[i - 1]]
    BY <1>4 DEF Follows
  <2>2. \A i \in 1..n : f[i] = f[i - 1] + Width[text[i]]
    <3> SUFFICES ASSUME NEW i \in 1..n PROVE f[i] = f[i - 1] + Width[text[i]]
      OBVIOUS
    <3>1. i - 1 \in 0..n
      BY <1>1
    <3>2. f[i - 1] \in Nat
      BY <2>1, <3>1
    <3>3. QED
      BY <1>3, <2>1, <3>2
  <2>3. \A i \in 0..n : i = 0 \/ i \in 1..n
    BY <1>1
  <2>4. QED
    BY <2>1, <2>2, <2>3
<1> DEFINE h == CHOOSE u : Defines(u)
<1>6. Defines(h)
  BY <1>5
<1>7. Length(text) = h[n]
  BY DEF Length, n
<1> HIDE DEF h
<1>8. h[0] = 0 /\ \A i \in 1..n : h[i] = h[i - 1] + Width[text[i]]
  BY <1>1, <1>6
<1>9. \A i \in 0..n : h[i] \in Nat
  <2>1. h[0] \in Nat /\ \A i \in (0 + 1)..n : h[i - 1] \in Nat => h[i] \in Nat
    BY <1>1, <1>8, SMTT(30)
  <2>2. QED
    BY <1>1, <2>1, Stays
<1>10. QED
  BY <1>1, <1>7, <1>9

(* What FlattenSeq concatenates, step by step from the left. *)
Concats(S, ss, h) ==
  /\ h \in [0..Len(ss) -> Seq(S)]
  /\ h[0] = <<>>
  /\ \A i \in 1..Len(ss) : h[i] = h[i - 1] \o ss[i]

LEMMA ConcatsExist ==
  ASSUME NEW S, NEW ss \in Seq(Seq(S))
  PROVE  \E h : Concats(S, ss, h)
<1> DEFINE n == Len(ss)
           g == [i \in 1..n |-> [x \in Seq(S) |-> x \o ss[i]]]
<1>1. n \in Nat /\ \A i \in 1..n : ss[i] \in Seq(S)
  OBVIOUS
<1> HIDE DEF n
<1>2. \A i \in 1..n : \A x \in Seq(S) : x \o ss[i] \in Seq(S)
  BY <1>1, ConcatProperties
<1>3. g \in [1..n -> [Seq(S) -> Seq(S)]] /\ \A i \in 1..n : \A x \in Seq(S) : g[i][x] = x \o ss[i]
  BY <1>2, Zenon
<1> HIDE DEF g
<1>4. PICK h : Follows(Seq(S), 0, n, <<>>, g, h)
  <2>1. g \in [(0 + 1)..n -> [Seq(S) -> Seq(S)]] /\ 0 <= n /\ <<>> \in Seq(S)
    BY <1>1, <1>3
  <2>2. QED
    BY <1>1, <2>1, Recursion
<1>5. h \in [0..n -> Seq(S)] /\ h[0] = <<>> /\ \A i \in 1..n : h[i] = g[i][h[i - 1]]
  BY <1>4 DEF Follows
<1>6. ASSUME NEW i \in 1..n PROVE h[i] = h[i - 1] \o ss[i]
  <2>1. i - 1 \in 0..n
    BY <1>1
  <2>2. h[i - 1] \in Seq(S) /\ h[i] = g[i][h[i - 1]]
    BY <1>5, <2>1
  <2>3. QED
    BY <1>3, <2>2, Zenon
<1>7. QED
  BY <1>5, <1>6, Zenon DEF Concats, n

LEMMA FlattenConcats ==
  ASSUME NEW S, NEW ss \in Seq(Seq(S)), NEW h, Concats(S, ss, h)
  PROVE  FlattenSeq(ss) = h[Len(ss)] /\ FlattenSeq(ss) \in Seq(S)
<1> DEFINE n == Len(ss)
           Defines(f) == f = [i \in 1..n |-> IF i = 1 THEN ss[i] ELSE f[i - 1] \o ss[i]]
           k == CHOOSE f : Defines(f)
           d == [i \in 1..n |-> h[i]]
<1>0. /\ h \in [0..n -> Seq(S)] /\ h[0] = <<>>
      /\ \A i \in 1..n : h[i] = h[i - 1] \o ss[i]
  BY DEF Concats
<1>1. n \in Nat /\ \A i \in 1..n : ss[i] \in Seq(S)
  OBVIOUS
<1>2. h[n] \in Seq(S)
  BY <1>0, <1>1
<1>3. CASE n = 0
  <2>1. ss = <<>>
    BY <1>3, EmptySeq
  <2>2. QED
    BY <1>0, <1>2, <1>3, <2>1 DEF FlattenSeq
<1>4. CASE n # 0
  <2>1. FlattenSeq(ss) = k[n]
    BY <1>4, Zenon DEF FlattenSeq
  <2> HIDE DEF n
  <2>2. h[1] = ss[1]
    <3>1. 1 \in 1..n /\ 1 - 1 = 0
      BY <1>1, <1>4
    <3>2. h[1] = <<>> \o ss[1] /\ ss[1] \in Seq(S)
      BY <1>0, <1>1, <3>1
    <3>3. QED
      BY <3>2, ConcatEmptySeq
  <2>3. \A i \in 1..n : d[i] = h[i]
    OBVIOUS
  <2>4. d = [i \in 1..n |-> d[i]]
    OBVIOUS
  <2> HIDE DEF d
  <2>5. ASSUME NEW i \in 1..n PROVE d[i] = IF i = 1 THEN ss[i] ELSE d[i - 1] \o ss[i]
    <3>1. CASE i = 1
      BY <2>2, <2>3, <3>1
    <3>2. CASE i # 1
      <4>1. i - 1 \in 1..n
        BY <1>1, <3>2
      <4>2. d[i] = h[i] /\ d[i - 1] = h[i - 1] /\ h[i] = h[i - 1] \o ss[i]
        BY <1>0, <2>3, <4>1
      <4>3. QED
        BY <3>2, <4>2, Zenon
    <3>3. QED
      BY <3>1, <3>2
  <2>6. Defines(d)
    BY <2>4, <2>5, Zenon
  <2>7. Defines(k)
    BY <2>6, Zenon
  <2> HIDE DEF k
  <2>8. \A i \in 1..n : k[i] = IF i = 1 THEN ss[i] ELSE k[i - 1] \o ss[i]
    BY <2>7, Zenon
  <2> DEFINE e == [i \in 1..n |-> k[i] = h[i]]
  <2>9. \A i \in 1..n : e[i] = (k[i] = h[i])
    BY Zenon
  <2> HIDE DEF e
  <2>10. \A i \in 1..n : e[i] \in {TRUE}
    <3>1. e[1] \in {TRUE}
      <4>1. 1 \in 1..n
        BY <1>1, <1>4
      <4>2. k[1] = ss[1]
        BY <2>8, <4>1, Zenon
      <4>3. QED
        BY <2>2, <2>9, <4>1, <4>2, Zenon
    <3>2. ASSUME NEW i \in (1 + 1)..n, e[i - 1] \in {TRUE} PROVE e[i] \in {TRUE}
      <4>1. i \in 1..n /\ i - 1 \in 1..n /\ i # 1
        BY <1>1
      <4>2. k[i - 1] = h[i - 1]
        BY <2>9, <3>2, <4>1, Zenon
      <4>3. k[i] = k[i - 1] \o ss[i] /\ h[i] = h[i - 1] \o ss[i]
        BY <1>0, <2>8, <4>1, Zenon
      <4>4. k[i] = h[i]
        BY <4>2, <4>3, Zenon
      <4>5. QED
        BY <2>9, <4>1, <4>4, Zenon
    <3>3. PICK T : T = {TRUE}
      BY Zenon
    <3>4. e[1] \in T /\ \A i \in (1 + 1)..n : e[i - 1] \in T => e[i] \in T
      BY <3>1, <3>2, <3>3, Zenon
    <3>5. 1 \in Nat /\ n \in Nat
      BY <1>1
    <3>6. \A i \in 1..n : e[i] \in T
      BY <3>4, <3>5, Stays, Zenon
    <3>7. QED
      BY <3>3, <3>6, Zenon
  <2>11. n \in 1..n
    BY <1>1, <1>4
  <2>12. k[n] = h[n]
    BY <2>9, <2>10, <2>11, Zenon
  <2>13. QED
    BY <1>2, <2>1, <2>12 DEF n
<1>5. QED
  BY <1>3, <1>4
-----------------------------------------------------------------------------
(* The invariant *)

Variable_ == [name : STRING, cell : Nat]
Cell_ == [room : Nat, text : Seq(Letters)]
Entry_ == [var : 0..VARIABLES_MAX, cell : Nat]
Block_ == [nr_vars : 0..MAX_VAR_PER_BLOCK, var : [1..MAX_VAR_PER_BLOCK -> Entry_]]
Toggle_ == [key : STRING, current : 0..MaxTurn, nr_blocks : 0..MAX_BLOCKS,
            block : [1..MAX_BLOCKS -> Block_]]
Assignments == Seq(Seq([name : STRING, text : Seq(Letters) \cup {NoText}]))

Types ==
  /\ at \in {"ready", "hung", "wild", "spoilt"}
  /\ list \in Seq(Variable_) /\ Len(list) <= VARIABLES_MAX
  /\ store \in Seq(Cell_)
  /\ actpos \in 0..VARIABLE_STORE_SIZE
  /\ toggles \in Seq(Toggle_) /\ Len(toggles) <= TOGGLES
  /\ todo \in [slot : 0..Len(toggles), blocks : Assignments, b : 1..(MAX_BLOCKS + 1), v : Nat \ {0}]
  /\ todo # Idle => todo.slot # 0

(* Entry v of block b of a toggle of t. *)
EntryOf(t, s, b, v) == t[s].block[b].var[v]

(* Every cell is one of the store's. *)
CellsExist(l, t, n) ==
  /\ \A i \in DOMAIN l : l[i].cell <= n
  /\ \A s \in DOMAIN t, b \in 1..MAX_BLOCKS, v \in 1..MAX_VAR_PER_BLOCK : EntryOf(t, s, b, v).cell <= n

(* No two entries of toggles have the same text, ... *)
EntriesApart(t) ==
  \A s1 \in DOMAIN t, b1 \in 1..MAX_BLOCKS, v1 \in 1..MAX_VAR_PER_BLOCK :
    EntryOf(t, s1, b1, v1).cell # NoCell =>
      \A s2 \in DOMAIN t, b2 \in 1..MAX_BLOCKS, v2 \in 1..MAX_VAR_PER_BLOCK :
        EntryOf(t, s1, b1, v1).cell = EntryOf(t, s2, b2, v2).cell => s1 = s2 /\ b1 = b2 /\ v1 = v2

(* ... and a variable that has an entry's text is that entry's variable,   *)
(* unless the entry has lost it.                                           *)
EntriesOwn(l, t) ==
  \A i \in DOMAIN l, s \in DOMAIN t, b \in 1..MAX_BLOCKS, v \in 1..MAX_VAR_PER_BLOCK :
    l[i].cell # NoCell /\ l[i].cell = EntryOf(t, s, b, v).cell => EntryOf(t, s, b, v).var \in {0, i}

Apart(l) ==
  \A i, j \in DOMAIN l : i # j /\ l[i].cell # NoCell => l[i].cell # l[j].cell

Ownership(l, t, n) == CellsExist(l, t, n) /\ EntriesApart(t) /\ EntriesOwn(l, t) /\ Apart(l)

(* Without a refusal every variable has a text and no entry has lost its.  *)
Whole(l, t) ==
  /\ \A i \in DOMAIN l : l[i].cell # NoCell
  /\ \A s \in DOMAIN t, b \in 1..MAX_BLOCKS, v \in 1..MAX_VAR_PER_BLOCK :
       EntryOf(t, s, b, v).cell # NoCell => EntryOf(t, s, b, v).var # 0

IInv ==
  /\ Types /\ refused \in BOOLEAN
  /\ Ownership(list, toggles, Len(store))
  /\ ~refused => Whole(list, toggles)
  /\ TextsFit
  /\ WildNeedsRefusal
-----------------------------------------------------------------------------
(* Ownership, apart from the states that have it *)

Cellular(l, t) ==
  /\ \A i \in DOMAIN l : l[i].cell \in Nat
  /\ \A s \in DOMAIN t, b \in 1..MAX_BLOCKS, v \in 1..MAX_VAR_PER_BLOCK : EntryOf(t, s, b, v).cell \in Nat

(* A list after a step: variable k may have the new cell. *)
ListGrows(l, l2, k, new) ==
  \A i \in DOMAIN l2 :
    \/ i \in DOMAIN l /\ l2[i].cell = l[i].cell
    \/ l2[i].cell = NoCell
    \/ i = k /\ l2[i].cell = new

(* Toggles after a step: one entry may have it too, for variable k; others *)
(* may have lost their variable.                                           *)
EntriesGrow(t, t2, s0, b0, v0, k, new) ==
  \A s \in DOMAIN t2, b \in 1..MAX_BLOCKS, v \in 1..MAX_VAR_PER_BLOCK :
    \/ /\ s \in DOMAIN t
       /\ EntryOf(t2, s, b, v).cell = EntryOf(t, s, b, v).cell
       /\ EntryOf(t2, s, b, v).var \in {0, EntryOf(t, s, b, v).var}
    \/ EntryOf(t2, s, b, v).cell = NoCell
    \/ /\ s = s0 /\ b = b0 /\ v = v0
       /\ EntryOf(t2, s, b, v).cell = new /\ EntryOf(t2, s, b, v).var = k

LEMMA ApartAt ==
  ASSUME NEW t, EntriesApart(t), NEW s1 \in DOMAIN t, NEW s2 \in DOMAIN t,
         NEW b1 \in 1..MAX_BLOCKS, NEW b2 \in 1..MAX_BLOCKS,
         NEW v1 \in 1..MAX_VAR_PER_BLOCK, NEW v2 \in 1..MAX_VAR_PER_BLOCK,
         EntryOf(t, s1, b1, v1).cell # NoCell, EntryOf(t, s1, b1, v1).cell = EntryOf(t, s2, b2, v2).cell
  PROVE  s1 = s2 /\ b1 = b2 /\ v1 = v2
BY DEF EntriesApart

LEMMA GrowthKeepsOwnership ==
  ASSUME NEW l, NEW t, NEW n \in Nat, Cellular(l, t), Ownership(l, t, n),
         NEW l2, NEW t2, NEW n2 \in Nat, NEW new \in Nat, n < new, new <= n2,
         NEW k, NEW s0, NEW b0, NEW v0,
         ListGrows(l, l2, k, new), EntriesGrow(t, t2, s0, b0, v0, k, new)
  PROVE  Ownership(l2, t2, n2)
<1> DEFINE P == (1..MAX_BLOCKS)
           Q == (1..MAX_VAR_PER_BLOCK)
<1>1. /\ \A i \in DOMAIN l : l[i].cell \in Nat /\ l[i].cell <= n /\ l[i].cell # new
      /\ \A s \in DOMAIN t, b \in P, v \in Q :
           EntryOf(t, s, b, v).cell \in Nat /\ EntryOf(t, s, b, v).cell <= n /\ EntryOf(t, s, b, v).cell # new
  BY DEF Cellular, Ownership, CellsExist
<1>2. \A i \in DOMAIN l2 :
        \/ i \in DOMAIN l /\ l2[i].cell = l[i].cell
        \/ l2[i].cell = NoCell
        \/ i = k /\ l2[i].cell = new
  BY DEF ListGrows
<1>3. \A s \in DOMAIN t2, b \in P, v \in Q :
        \/ /\ s \in DOMAIN t
           /\ EntryOf(t2, s, b, v).cell = EntryOf(t, s, b, v).cell
           /\ EntryOf(t2, s, b, v).var \in {0, EntryOf(t, s, b, v).var}
        \/ EntryOf(t2, s, b, v).cell = NoCell
        \/ /\ s = s0 /\ b = b0 /\ v = v0
           /\ EntryOf(t2, s, b, v).cell = new /\ EntryOf(t2, s, b, v).var = k
  BY DEF EntriesGrow
<1> HIDE DEF P, Q
<1>4. CellsExist(l2, t2, n2)
  <2>1. \A i \in DOMAIN l2 : l2[i].cell <= n2
    BY <1>1, <1>2 DEF NoCell
  <2>2. \A s \in DOMAIN t2, b \in P, v \in Q : EntryOf(t2, s, b, v).cell <= n2
    BY <1>1, <1>3 DEF NoCell
  <2>3. QED
    BY <2>1, <2>2 DEF CellsExist, P, Q
<1>5. EntriesApart(t2)
  <2> SUFFICES ASSUME NEW s1 \in DOMAIN t2, NEW s2 \in DOMAIN t2, NEW b1 \in P, NEW b2 \in P,
                      NEW v1 \in Q, NEW v2 \in Q,
                      EntryOf(t2, s1, b1, v1).cell # NoCell,
                      EntryOf(t2, s1, b1, v1).cell = EntryOf(t2, s2, b2, v2).cell
               PROVE  s1 = s2 /\ b1 = b2 /\ v1 = v2
    BY DEF EntriesApart, P, Q
  <2>1. EntriesApart(t)
    BY DEF Ownership
  <2>2. CASE EntryOf(t2, s1, b1, v1).cell = new
    <3>1. new # NoCell /\ EntryOf(t2, s2, b2, v2).cell = new
      BY <2>2 DEF NoCell
    <3>2. s1 = s0 /\ b1 = b0 /\ v1 = v0
      BY <1>1, <1>3, <2>2, <3>1, Zenon
    <3>3. s2 = s0 /\ b2 = b0 /\ v2 = v0
      BY <1>1, <1>3, <3>1, Zenon
    <3>4. QED
      BY <3>2, <3>3
  <2>3. CASE EntryOf(t2, s1, b1, v1).cell # new
    <3>1. /\ s1 \in DOMAIN t /\ EntryOf(t2, s1, b1, v1).cell = EntryOf(t, s1, b1, v1).cell
          /\ s2 \in DOMAIN t /\ EntryOf(t2, s2, b2, v2).cell = EntryOf(t, s2, b2, v2).cell
      BY <1>3, <2>3
    <3>2. EntryOf(t, s1, b1, v1).cell # NoCell /\ EntryOf(t, s1, b1, v1).cell = EntryOf(t, s2, b2, v2).cell
      BY <3>1
    <3>3. QED
      BY <2>1, <3>1, <3>2, ApartAt DEF P, Q
  <2>4. QED
    BY <2>2, <2>3
<1>6. EntriesOwn(l2, t2)
  <2> SUFFICES ASSUME NEW i \in DOMAIN l2, NEW s \in DOMAIN t2, NEW b \in P, NEW v \in Q,
                      l2[i].cell # NoCell, l2[i].cell = EntryOf(t2, s, b, v).cell
               PROVE  EntryOf(t2, s, b, v).var \in {0, i}
    BY DEF EntriesOwn, P, Q
  <2>1. CASE l2[i].cell = new
    <3>1. new # NoCell /\ EntryOf(t2, s, b, v).cell = new
      BY <2>1 DEF NoCell
    <3>2. i = k
      BY <1>1, <1>2, <2>1, <3>1, Zenon
    <3>3. EntryOf(t2, s, b, v).var = k
      BY <1>1, <1>3, <3>1, Zenon
    <3>4. QED
      BY <3>2, <3>3
  <2>2. CASE l2[i].cell # new
    <3>1. /\ i \in DOMAIN l /\ l2[i].cell = l[i].cell
          /\ s \in DOMAIN t /\ EntryOf(t2, s, b, v).cell = EntryOf(t, s, b, v).cell
          /\ EntryOf(t2, s, b, v).var \in {0, EntryOf(t, s, b, v).var}
      BY <1>2, <1>3, <2>2
    <3>2. EntryOf(t, s, b, v).var \in {0, i}
      BY <3>1 DEF Ownership, EntriesOwn, P, Q
    <3>3. QED
      BY <3>1, <3>2
  <2>3. QED
    BY <2>1, <2>2
<1>7. Apart(l2)
  <2> SUFFICES ASSUME NEW i \in DOMAIN l2, NEW j \in DOMAIN l2, i # j, l2[i].cell # NoCell,
                      l2[i].cell = l2[j].cell
               PROVE  FALSE
    BY DEF Apart
  <2>1. Apart(l)
    BY DEF Ownership
  <2>2. QED
    BY <1>1, <1>2, <2>1 DEF Apart
<1>8. QED
  BY <1>4, <1>5, <1>6, <1>7 DEF Ownership

(* A list after toggle_do_block: a variable may have the text of one of    *)
(* its entries in a block.                                                 *)
ListTakes(l, t, l2, s0, b0) ==
  /\ DOMAIN l2 = DOMAIN l
  /\ \A i \in DOMAIN l :
       \/ l2[i].cell = l[i].cell
       \/ \E v \in 1..MAX_VAR_PER_BLOCK :
            /\ EntryOf(t, s0, b0, v).var = i /\ EntryOf(t, s0, b0, v).cell # NoCell
            /\ l2[i].cell = EntryOf(t, s0, b0, v).cell

LEMMA BlockKeepsOwnership ==
  ASSUME NEW l, NEW t, NEW n \in Nat, Ownership(l, t, n), 0 \notin DOMAIN l,
         NEW l2, NEW s0 \in DOMAIN t, NEW b0 \in 1..MAX_BLOCKS, ListTakes(l, t, l2, s0, b0)
  PROVE  Ownership(l2, t, n)
<1> DEFINE Q == (1..MAX_VAR_PER_BLOCK)
           Own(i, v) == /\ EntryOf(t, s0, b0, v).var = i /\ EntryOf(t, s0, b0, v).cell # NoCell
                        /\ l2[i].cell = EntryOf(t, s0, b0, v).cell
<1>1. DOMAIN l2 = DOMAIN l /\ \A i \in DOMAIN l : l2[i].cell = l[i].cell \/ \E v \in Q : Own(i, v)
  BY Zenon DEF ListTakes
<1>2. CellsExist(l, t, n) /\ EntriesApart(t) /\ EntriesOwn(l, t) /\ Apart(l)
  BY DEF Ownership
<1> HIDE DEF Q
<1>3. CellsExist(l2, t, n)
  <2>1. \A i \in DOMAIN l2 : l2[i].cell <= n
    BY <1>1, <1>2 DEF CellsExist, Q
  <2>2. QED
    BY <1>2, <2>1 DEF CellsExist
<1>4. EntriesOwn(l2, t)
  <2> SUFFICES ASSUME NEW i \in DOMAIN l2, NEW s \in DOMAIN t, NEW b \in 1..MAX_BLOCKS, NEW v \in Q,
                      l2[i].cell # NoCell, l2[i].cell = EntryOf(t, s, b, v).cell
               PROVE  EntryOf(t, s, b, v).var \in {0, i}
    BY DEF EntriesOwn, Q
  <2>1. CASE l2[i].cell = l[i].cell
    BY <1>1, <1>2, <2>1 DEF EntriesOwn, Q
  <2>2. CASE \E w \in Q : Own(i, w)
    <3>1. PICK w \in Q : Own(i, w)
      BY <2>2
    <3>2. EntryOf(t, s0, b0, w).cell # NoCell /\ EntryOf(t, s0, b0, w).cell = EntryOf(t, s, b, v).cell
      BY <3>1
    <3>3. s0 = s /\ b0 = b /\ w = v
      BY <1>2, <3>2, ApartAt DEF Q
    <3>4. QED
      BY <3>1, <3>3
  <2>3. QED
    BY <1>1, <2>1, <2>2
<1>5. Apart(l2)
  <2> SUFFICES ASSUME NEW i \in DOMAIN l, NEW j \in DOMAIN l, i # j, l2[i].cell # NoCell,
                      l2[i].cell = l2[j].cell
               PROVE  FALSE
    BY <1>1 DEF Apart
  <2>1. CASE l2[i].cell = l[i].cell /\ l2[j].cell = l[j].cell
    BY <1>2, <2>1 DEF Apart
  <2>2. ASSUME NEW x \in DOMAIN l, NEW y \in DOMAIN l, x # y, l2[x].cell # NoCell,
               l2[x].cell = l2[y].cell, \E v \in Q : Own(x, v), l2[y].cell = l[y].cell
        PROVE  FALSE
    <3>1. PICK v \in Q : Own(x, v)
      BY <2>2
    <3>2. EntryOf(t, s0, b0, v).var \in {0, y}
      BY <1>2, <2>2, <3>1 DEF EntriesOwn, Q
    <3>3. QED
      BY <2>2, <3>1, <3>2
  <2>3. CASE (\E v \in Q : Own(i, v)) /\ \E v \in Q : Own(j, v)
    <3>1. PICK v \in Q : Own(i, v)
      BY <2>3
    <3>2. PICK w \in Q : Own(j, w)
      BY <2>3
    <3>3. EntryOf(t, s0, b0, v).cell # NoCell /\ EntryOf(t, s0, b0, v).cell = EntryOf(t, s0, b0, w).cell
      BY <3>1, <3>2
    <3>4. v = w
      BY <1>2, <3>3, ApartAt DEF Q
    <3>5. QED
      BY <3>1, <3>2, <3>4
  <2>4. CASE (\E v \in Q : Own(i, v)) /\ l2[j].cell = l[j].cell
    BY <2>2, <2>4
  <2>5. CASE (\E v \in Q : Own(j, v)) /\ l2[i].cell = l[i].cell
    <3> HIDE DEF Own
    <3> QED BY <2>2, <2>5
  <2>6. QED
    BY <1>1, <2>1, <2>3, <2>4, <2>5
<1>6. QED
  BY <1>2, <1>3, <1>4, <1>5 DEF Ownership
-----------------------------------------------------------------------------
(* Looking up and expanding *)

LEMMA ElementType ==
  ASSUME NEW S, NEW s \in Seq(S), NEW i \in DOMAIN s
  PROVE  s[i] \in S
OBVIOUS

LEMMA IndexType ==
  ASSUME Types, NEW name
  PROVE  /\ Index(name) \in 0..Len(list)
         /\ Index(name) # 0 => Index(name) \in DOMAIN list /\ list[Index(name)].name = name /\ name # ""
<1>1. DOMAIN list = 1..Len(list) /\ Len(list) \in Nat
  BY DEF Types
<1>2. CASE name # "" /\ \E i \in DOMAIN list : list[i].name = name
  <2>1. Index(name) = CHOOSE i \in DOMAIN list : list[i].name = name
    BY <1>2, Zenon DEF Index
  <2>2. Index(name) \in DOMAIN list /\ list[Index(name)].name = name
    BY <1>2, <2>1, Zenon
  <2>3. PICK i : i = Index(name)
    BY Zenon
  <2>4. i \in 1..Len(list) /\ i \in 0..Len(list)
    BY <1>1, <2>2, <2>3
  <2>5. QED
    BY <1>2, <2>2, <2>3, <2>4, Zenon
<1>3. CASE ~(name # "" /\ \E i \in DOMAIN list : list[i].name = name)
  <2>1. Index(name) = 0
    BY <1>3, Zenon DEF Index
  <2>2. 0 \in 0..Len(list)
    BY <1>1
  <2>3. QED
    BY <2>1, <2>2, Zenon
<1>4. QED
  BY <1>2, <1>3

LEMMA ValueType ==
  ASSUME Types, CellsExist(list, toggles, Len(store)), NEW name, Known(name)
  PROVE  Value(name) \in Seq(Letters)
<1>1. Index(name) \in DOMAIN list /\ list[Index(name)].cell # NoCell
  BY IndexType DEF Known
<1>2. list[Index(name)].cell \in Nat /\ list[Index(name)].cell <= Len(store)
  <2>1. list[Index(name)] \in Variable_
    BY <1>1, ElementType DEF Types
  <2>2. list[Index(name)].cell <= Len(store)
    BY <1>1, Zenon DEF CellsExist
  <2>3. QED
    BY <2>1, <2>2 DEF Variable_
<1>3. list[Index(name)].cell \in 1..Len(store)
  <2>1. Len(store) \in Nat
    BY DEF Types
  <2>2. QED
    BY <1>1, <1>2, <2>1 DEF NoCell
<1>4. PICK c : c = list[Index(name)].cell
  BY Zenon
<1>5. store[c] \in Cell_
  BY <1>3, <1>4 DEF Types
<1>6. QED
  BY <1>4, <1>5 DEF Value, Cell_

(* What a pass makes of the element at i of a text. *)
Part(text, i) ==
  IF Unexamined(text, i) \/ Refers[text[i]] = "" THEN <<text[i]>>
  ELSE IF Known(Refers[text[i]]) THEN Value(Refers[text[i]]) ELSE <<>>

LEMMA PartType ==
  ASSUME Types, CellsExist(list, toggles, Len(store)), NEW text \in Seq(Letters), NEW i \in DOMAIN text
  PROVE  Part(text, i) \in Seq(Letters)
<1>1. text[i] \in Letters /\ <<text[i]>> \in Seq(Letters) /\ <<>> \in Seq(Letters)
  OBVIOUS
<1>2. Known(Refers[text[i]]) => Value(Refers[text[i]]) \in Seq(Letters)
  BY ValueType
<1>3. QED
  BY <1>1, <1>2, Zenon DEF Part

LEMMA PartsOfOnce ==
  ASSUME Types, CellsExist(list, toggles, Len(store)), NEW text \in Seq(Letters),
         NEW parts, parts = [i \in DOMAIN text |-> Part(text, i)]
  PROVE  /\ var_sprint_once(text) = FlattenSeq(parts)
         /\ parts \in Seq(Seq(Letters)) /\ Len(parts) = Len(text)
<1>1. var_sprint_once(text) = FlattenSeq(parts)
  BY Zenon DEF var_sprint_once, Part
<1>2. DOMAIN text = 1 .. Len(text) /\ Len(text) \in Nat
  OBVIOUS
<1>3. parts \in [1 .. Len(text) -> Seq(Letters)]
  BY <1>2, PartType, Zenon
<1>4. parts \in Seq(Seq(Letters)) /\ Len(parts) = Len(text)
  BY <1>2, <1>3
<1>5. QED
  BY <1>1, <1>4

(* One pass of var_sprint gives a text. *)
LEMMA OnceType ==
  ASSUME Types, CellsExist(list, toggles, Len(store)), NEW text \in Seq(Letters)
  PROVE  var_sprint_once(text) \in Seq(Letters)
<1>1. PICK parts : parts = [i \in DOMAIN text |-> Part(text, i)]
  BY Zenon
<1>2. var_sprint_once(text) = FlattenSeq(parts) /\ parts \in Seq(Seq(Letters))
  BY <1>1, PartsOfOnce, Zenon
<1>3. PICK S : S = Letters
  BY Zenon
<1>4. parts \in Seq(Seq(S))
  BY <1>2, <1>3
<1>5. PICK h : Concats(S, parts, h)
  BY <1>4, ConcatsExist
<1>6. QED
  BY <1>2, <1>3, <1>4, <1>5, FlattenConcats

(* The passes of var_sprint over a text: each is a text, or does not come  *)
(* to an end.                                                              *)
Passing(text, h) ==
  /\ h = passes(text) /\ h[0] = text /\ var_sprint(text) = h[Passes]
  /\ \A i \in 0..Passes : h[i] \in Seq(Letters) \cup {Overrun}
  /\ \A i \in 1..Passes :
       h[i] = IF h[i - 1] = Overrun \/ Length(h[i - 1]) > BufferSize
              THEN Overrun ELSE var_sprint_once(h[i - 1])

LEMMA SprintPasses ==
  ASSUME Types, CellsExist(list, toggles, Len(store)), NEW text \in Seq(Letters)
  PROVE  \E h : Passing(text, h)
<1> DEFINE S == Seq(Letters) \cup {Overrun}
           Step(x) == IF x = Overrun \/ Length(x) > BufferSize THEN Overrun ELSE var_sprint_once(x)
           Defines(f) == f = [i \in 0..Passes |-> IF i = 0 THEN text ELSE Step(f[i - 1])]
           h == CHOOSE f : Defines(f)
<1>1. ASSUME NEW x \in S PROVE Step(x) \in S
  <2>1. CASE x = Overrun \/ Length(x) > BufferSize
    BY <2>1
  <2>2. CASE ~(x = Overrun \/ Length(x) > BufferSize)
    <3>1. x \in Seq(Letters)
      BY <2>2
    <3>2. var_sprint_once(x) \in Seq(Letters)
      BY <3>1, OnceType
    <3>3. QED
      BY <2>2, <3>2
  <2>3. QED
    BY <2>1, <2>2
<1>2. passes(text) = h /\ var_sprint(text) = h[Passes]
  BY Zenon DEF var_sprint, passes
<1>3. text \in S /\ Passes \in Nat
  BY SizesAssumption
<1> HIDE DEF Step, S
<1>4. PICK sts, g : sts = S /\ g = [i \in 1..Passes |-> [x \in S |-> Step(x)]]
  BY Zenon
<1>5. /\ g \in [(0 + 1)..Passes -> [sts -> sts]]
      /\ \A i \in 1..Passes : \A x \in sts : g[i][x] = Step(x)
  BY <1>1, <1>4
<1>6. PICK f : Follows(sts, 0, Passes, text, g, f)
  <2>1. text \in sts /\ 0 <= Passes /\ 0 \in Nat
    BY <1>3, <1>4
  <2>2. QED
    BY <1>3, <1>5, <2>1, Recursion
<1>7. Defines(f)
  <2>1. f \in [0..Passes -> sts] /\ f[0] = text /\ \A i \in 1..Passes : f[i] = g[i][f[i - 1]]
    BY <1>6 DEF Follows
  <2>2. ASSUME NEW i \in 1..Passes PROVE f[i] = Step(f[i - 1])
    <3>1. i - 1 \in 0..Passes
      BY <1>3
    <3>2. f[i - 1] \in sts
      BY <2>1, <3>1
    <3>3. QED
      BY <1>5, <2>1, <3>2
  <2>3. \A i \in 0..Passes : i = 0 \/ (i \in 1..Passes /\ i # 0)
    BY <1>3
  <2>4. \A i \in 0..Passes : f[i] = IF i = 0 THEN text ELSE Step(f[i - 1])
    BY <2>1, <2>2, <2>3, Zenon
  <2>5. f = [i \in 0..Passes |-> f[i]]
    BY <2>1
  <2>6. QED
    BY <2>4, <2>5, Zenon
<1>8. Defines(h)
  BY <1>7, Zenon
<1> HIDE DEF h
<1>9. \A i \in 0..Passes : h[i] = IF i = 0 THEN text ELSE Step(h[i - 1])
  BY <1>8, Zenon
<1>10. h[0] \in sts /\ \A i \in (0 + 1)..Passes : h[i - 1] \in sts => h[i] \in sts
  <2>1. h[0] = text
    <3>1. 0 \in 0..Passes
      BY <1>3
    <3>2. QED
      BY <1>9, <3>1, Zenon
  <2>2. ASSUME NEW i \in (0 + 1)..Passes, h[i - 1] \in sts PROVE h[i] \in sts
    <3>1. i \in 0..Passes /\ i # 0
      BY <1>3
    <3>2. h[i] = Step(h[i - 1])
      BY <1>9, <3>1, Zenon
    <3>3. QED
      BY <1>1, <1>4, <2>2, <3>2, Zenon
  <2>3. QED
    BY <1>3, <1>4, <2>1, <2>2
<1>11. PICK k : k = h
  BY Zenon
<1>12. \A i \in 0..Passes : k[i] \in sts
  <2>1. 0 \in Nat /\ k[0] \in sts /\ \A i \in (0 + 1)..Passes : k[i - 1] \in sts => k[i] \in sts
    BY <1>10, <1>11
  <2>2. QED
    BY <1>3, <2>1, Stays
<1>13. \A i \in 0..Passes : k[i] \in Seq(Letters) \cup {Overrun}
  BY <1>4, <1>12, Zenon DEF S
<1>14. \A i \in 1..Passes : k[i] = Step(k[i - 1])
  <2>1. \A i \in 1..Passes : i \in 0..Passes /\ i # 0
    BY <1>3
  <2>2. QED
    BY <1>9, <1>11, <2>1, Zenon
<1>15. k[0] = text
  <2>1. 0 \in 0..Passes
    BY <1>3
  <2>2. QED
    BY <1>9, <1>11, <2>1, Zenon
<1>16. Passing(text, k)
  BY <1>2, <1>11, <1>13, <1>14, <1>15, Zenon DEF Passing, Step
<1>17. QED
  BY <1>16

(* var_sprint gives a text, or does not come to an end. *)
LEMMA SprintType ==
  ASSUME Types, CellsExist(list, toggles, Len(store)), NEW text \in Seq(Letters)
  PROVE  var_sprint(text) \in Seq(Letters) \cup {Overrun}
<1>1. PICK h : Passing(text, h)
  BY SprintPasses
<1>2. Passes \in 0..Passes
  BY SizesAssumption
<1>3. QED
  BY <1>1, <1>2, Zenon DEF Passing
-----------------------------------------------------------------------------
(* What a text means *)

(* What holds at 0 and goes on to the next number holds up to n. *)
LEMMA GoesUp ==
  ASSUME NEW n \in Nat, NEW B, 0 \in B, \A i \in 0 .. n : i \in B /\ i < n => i + 1 \in B
  PROVE  \A i \in 0 .. n : i \in B
<1> DEFINE Bad == {i \in 0 .. n : i \notin B}
<1> SUFFICES ASSUME Bad # {} PROVE FALSE
  OBVIOUS
<1>1. Bad \subseteq Nat
  OBVIOUS
<1>2. PICK k \in Bad : \A m \in Bad : k <= m
  <2> HIDE DEF Bad
  <2> QED BY <1>1, LeastNumber
<1>3. k \in 0 .. n /\ k \notin B /\ k # 0 /\ k - 1 \notin Bad
  BY <1>2
<1>4. k - 1 \in 0 .. n /\ k - 1 \in B /\ k - 1 < n /\ (k - 1) + 1 = k
  BY <1>3
<1>5. QED
  BY <1>3, <1>4

(* g gives every letter of L a text of letters of S. *)
Texts(g, L, S) == g \in [L -> Seq(S)]

(* The texts of the letters of t, put together from the left. *)
Spelling(S, g, t, h) ==
  /\ h \in [0 .. Len(t) -> Seq(S)]
  /\ h[0] = <<>>
  /\ \A i \in 1 .. Len(t) : h[i] = h[i - 1] \o g[t[i]]

LEMMA SpellingFlattens ==
  ASSUME NEW L, NEW S, NEW g, Texts(g, L, S), NEW t \in Seq(L),
         NEW ss, ss = [i \in DOMAIN t |-> g[t[i]]]
  PROVE  /\ ss \in Seq(Seq(S)) /\ Len(ss) = Len(t)
         /\ Spelled(g, t) = FlattenSeq(ss)
         /\ \A h : Concats(S, ss, h) <=> Spelling(S, g, t, h)
<1>1. DOMAIN t = 1 .. Len(t) /\ Len(t) \in Nat /\ \A i \in 1 .. Len(t) : t[i] \in L
  OBVIOUS
<1>2. ss \in [1 .. Len(t) -> Seq(S)] /\ \A i \in 1 .. Len(t) : ss[i] = g[t[i]]
  BY <1>1 DEF Texts
<1>3. ss \in Seq(Seq(S))
  BY <1>1, <1>2
<1>4. Len(ss) = Len(t)
  BY <1>1, <1>2, <1>3
<1>5. Spelled(g, t) = FlattenSeq(ss)
  BY Zenon DEF Spelled
<1>6. ASSUME NEW h PROVE Concats(S, ss, h) <=> Spelling(S, g, t, h)
  BY <1>2, <1>4, Zenon DEF Concats, Spelling
<1>7. QED
  BY <1>3, <1>4, <1>5, <1>6, Zenon

LEMMA SpellingExists ==
  ASSUME NEW L, NEW S, NEW g, Texts(g, L, S), NEW t \in Seq(L)
  PROVE  \E h : Spelling(S, g, t, h)
<1>1. PICK ss : ss = [i \in DOMAIN t |-> g[t[i]]]
  BY Zenon
<1>2. ss \in Seq(Seq(S)) /\ \A h : Concats(S, ss, h) <=> Spelling(S, g, t, h)
  BY <1>1, SpellingFlattens, SMT
<1>3. \E h : Concats(S, ss, h)
  BY <1>2, ConcatsExist, Zenon
<1>4. QED
  BY <1>2, <1>3, Zenon

LEMMA SpelledIs ==
  ASSUME NEW L, NEW S, NEW g, Texts(g, L, S), NEW t \in Seq(L), NEW h, Spelling(S, g, t, h)
  PROVE  Spelled(g, t) = h[Len(t)] /\ Spelled(g, t) \in Seq(S)
<1>1. PICK ss : ss = [i \in DOMAIN t |-> g[t[i]]]
  BY Zenon
<1>2. /\ ss \in Seq(Seq(S)) /\ Len(ss) = Len(t) /\ Spelled(g, t) = FlattenSeq(ss)
      /\ Concats(S, ss, h)
  BY <1>1, SpellingFlattens, SMT
<1>3. FlattenSeq(ss) = h[Len(ss)] /\ FlattenSeq(ss) \in Seq(S)
  BY <1>2, FlattenConcats, Zenon
<1>4. QED
  BY <1>2, <1>3, Zenon

LEMMA SpelledType ==
  ASSUME NEW L, NEW S, NEW g, Texts(g, L, S), NEW t \in Seq(L)
  PROVE  Spelled(g, t) \in Seq(S)
BY SpellingExists, SpelledIs, Zenon

LEMMA SpelledEmpty ==
  ASSUME NEW L, NEW S, NEW g, Texts(g, L, S)
  PROVE  Spelled(g, <<>>) = <<>>
<1>1. PICK t : t = <<>>
  BY Zenon
<1>2. t \in Seq(L)
  BY <1>1
<1>3. Len(t) = 0
  BY <1>1
<1>4. PICK h : Spelling(S, g, t, h)
  BY <1>2, SpellingExists
<1>5. h[0] = <<>>
  BY <1>4 DEF Spelling
<1>6. Spelled(g, t) = h[Len(t)]
  BY <1>2, <1>4, SpelledIs, SMT
<1>7. QED
  BY <1>1, <1>3, <1>5, <1>6, Zenon

LEMMA SpelledOne ==
  ASSUME NEW L, NEW S, NEW g, Texts(g, L, S), NEW a \in L
  PROVE  Spelled(g, <<a>>) = g[a]
<1>1. PICK t : t = <<a>>
  BY Zenon
<1>2. t \in Seq(L)
  BY <1>1
<1>3. Len(t) = 1 /\ t[1] = a
  BY <1>1
<1>4. PICK h : Spelling(S, g, t, h)
  BY <1>2, SpellingExists
<1>5. h[0] = <<>> /\ h[1] = h[0] \o g[a]
  <2>1. h[0] = <<>> /\ \A j \in 1 .. Len(t) : h[j] = h[j - 1] \o g[t[j]]
    BY <1>4, Zenon DEF Spelling
  <2>2. 1 \in 1 .. Len(t) /\ 1 - 1 = 0
    BY <1>3
  <2>3. QED
    BY <1>3, <2>1, <2>2, Zenon
<1>6. <<>> \o g[a] = g[a]
  <2>1. g[a] \in Seq(S)
    BY DEF Texts
  <2>2. QED
    BY <2>1, ConcatEmptySeq
<1>7. Spelled(g, t) = h[Len(t)]
  BY <1>2, <1>4, SpelledIs, SMT
<1>8. QED
  BY <1>1, <1>3, <1>5, <1>6, <1>7, Zenon

LEMMA SpelledConcat ==
  ASSUME NEW L, NEW S, NEW g, Texts(g, L, S), NEW u \in Seq(L), NEW w \in Seq(L)
  PROVE  Spelled(g, u \o w) = Spelled(g, u) \o Spelled(g, w)
<1>1. PICK t : t = u \o w
  BY Zenon
<1>2. /\ t \in Seq(L) /\ Len(t) = Len(u) + Len(w) /\ Len(u) \in Nat /\ Len(w) \in Nat
      /\ \A i \in 1 .. Len(u) : t[i] = u[i]
      /\ \A i \in 1 .. Len(w) : t[Len(u) + i] = w[i]
  BY <1>1
<1>3. PICK h : Spelling(S, g, t, h)
  BY <1>2, SpellingExists
<1>4. PICK hu : Spelling(S, g, u, hu)
  BY SpellingExists
<1>5. PICK hw : Spelling(S, g, w, hw)
  BY SpellingExists
<1>6. \A i \in 0 .. Len(u) : h[i] = hu[i]
  <2> DEFINE B == {i \in 0 .. Len(u) : h[i] = hu[i]}
  <2>1. 0 \in B
    BY <1>2, <1>3, <1>4 DEF Spelling
  <2>2. ASSUME NEW i \in 0 .. Len(u), i \in B, i < Len(u) PROVE i + 1 \in B
    <3>1. i + 1 \in 1 .. Len(u) /\ i + 1 \in 1 .. Len(t) /\ (i + 1) - 1 = i
      BY <1>2, <2>2
    <3>2. \A j \in 1 .. Len(t) : h[j] = h[j - 1] \o g[t[j]]
      BY <1>3, Zenon DEF Spelling
    <3>3. \A j \in 1 .. Len(u) : hu[j] = hu[j - 1] \o g[u[j]]
      BY <1>4, Zenon DEF Spelling
    <3>4. h[i + 1] = h[i] \o g[t[i + 1]] /\ hu[i + 1] = hu[i] \o g[u[i + 1]]
      BY <3>1, <3>2, <3>3, Zenon
    <3>5. t[i + 1] = u[i + 1] /\ h[i] = hu[i]
      BY <1>2, <2>2, <3>1, Zenon
    <3>6. h[i + 1] = hu[i + 1]
      BY <3>4, <3>5, Zenon
    <3>7. i + 1 \in 0 .. Len(u)
      BY <1>2, <3>1
    <3>8. QED
      BY <3>6, <3>7
  <2> HIDE DEF B
  <2>3. \A i \in 0 .. Len(u) : i \in B
    BY <1>2, <2>1, <2>2, GoesUp
  <2>4. QED
    BY <2>3 DEF B
<1>7. \A i \in 0 .. Len(w) : h[Len(u) + i] = hu[Len(u)] \o hw[i]
  <2> DEFINE B == {i \in 0 .. Len(w) : h[Len(u) + i] = hu[Len(u)] \o hw[i]}
  <2>0. hu[Len(u)] \in Seq(S)
    <3>1. hu \in [0 .. Len(u) -> Seq(S)] /\ Len(u) \in 0 .. Len(u)
      BY <1>2, <1>4 DEF Spelling
    <3>2. QED
      BY <3>1, Zenon
  <2>1. 0 \in B
    <3>1. hw[0] = <<>> /\ Len(u) + 0 = Len(u) /\ h[Len(u)] = hu[Len(u)]
      BY <1>2, <1>5, <1>6 DEF Spelling
    <3>2. hu[Len(u)] \o <<>> = hu[Len(u)]
      BY <2>0, ConcatEmptySeq
    <3>3. h[Len(u) + 0] = hu[Len(u)] \o hw[0]
      BY <3>1, <3>2, Zenon
    <3>4. 0 \in 0 .. Len(w)
      BY <1>2
    <3>5. QED
      BY <3>3, <3>4
  <2>2. ASSUME NEW i \in 0 .. Len(w), i \in B, i < Len(w) PROVE i + 1 \in B
    <3>1. i + 1 \in 1 .. Len(w) /\ Len(u) + (i + 1) \in 1 .. Len(t) /\ (i + 1) - 1 = i
          /\ (Len(u) + (i + 1)) - 1 = Len(u) + i
      BY <1>2, <2>2
    <3>2. \A j \in 1 .. Len(t) : h[j] = h[j - 1] \o g[t[j]]
      BY <1>3, Zenon DEF Spelling
    <3>3. \A j \in 1 .. Len(w) : hw[j] = hw[j - 1] \o g[w[j]]
      BY <1>5, Zenon DEF Spelling
    <3>4. t[Len(u) + (i + 1)] = w[i + 1] /\ w[i + 1] \in L
      BY <1>2, <3>1
    <3>5. /\ h[Len(u) + (i + 1)] = h[Len(u) + i] \o g[w[i + 1]]
          /\ hw[i + 1] = hw[i] \o g[w[i + 1]]
      BY <3>1, <3>2, <3>3, <3>4, Zenon
    <3>6. PICK a, b, c : a = hu[Len(u)] /\ b = hw[i] /\ c = g[w[i + 1]]
      BY Zenon
    <3>7. hw \in [0 .. Len(w) -> Seq(S)]
      BY <1>5, Zenon DEF Spelling
    <3>8. a \in Seq(S) /\ b \in Seq(S) /\ c \in Seq(S)
      BY <2>0, <2>2, <3>4, <3>6, <3>7 DEF Texts
    <3>9. (a \o b) \o c = a \o (b \o c)
      BY <3>8, ConcatAssociative, SMTT(30)
    <3>10. h[Len(u) + i] = a \o b
      BY <2>2, <3>6, Zenon
    <3>11. h[Len(u) + (i + 1)] = hu[Len(u)] \o hw[i + 1]
      BY <3>5, <3>6, <3>9, <3>10, Zenon
    <3>12. i + 1 \in 0 .. Len(w)
      BY <1>2, <3>1
    <3>13. QED
      BY <3>11, <3>12
  <2> HIDE DEF B
  <2>3. \A i \in 0 .. Len(w) : i \in B
    BY <1>2, <2>1, <2>2, GoesUp
  <2>4. QED
    BY <2>3 DEF B
<1>8. h[Len(t)] = hu[Len(u)] \o hw[Len(w)]
  <2>1. Len(w) \in 0 .. Len(w)
    BY <1>2
  <2>2. QED
    BY <1>2, <1>7, <2>1, Zenon
<1>9. Spelled(g, t) = h[Len(t)] /\ Spelled(g, u) = hu[Len(u)] /\ Spelled(g, w) = hw[Len(w)]
  BY <1>2, <1>3, <1>4, <1>5, SpelledIs, SMT
<1>10. QED
  BY <1>1, <1>8, <1>9, Zenon
(* gf is g after f. *)
After(gf, L, g, f) == gf = [a \in L |-> Spelled(g, f[a])]

(* To replace the letters twice is to replace them once by the texts that  *)
(* the first ones become.                                                  *)
LEMMA SpelledTwice ==
  ASSUME NEW L, NEW S, NEW f, Texts(f, L, L), NEW g, Texts(g, L, S), NEW t \in Seq(L),
         NEW gf, After(gf, L, g, f)
  PROVE  Texts(gf, L, S) /\ Spelled(g, Spelled(f, t)) = Spelled(gf, t)
<1>1. \A a \in L : f[a] \in Seq(L)
  BY DEF Texts
<1>2. \A a \in L : Spelled(g, f[a]) \in Seq(S)
  BY <1>1, SpelledType, SMT
<1>3. Texts(gf, L, S)
  BY <1>2, Zenon DEF Texts, After
<1>4. \A a \in L : gf[a] = Spelled(g, f[a])
  BY Zenon DEF After
<1>5. PICK h : Spelling(L, f, t, h)
  BY SpellingExists
<1>6. PICK k : Spelling(S, gf, t, k)
  BY <1>3, SpellingExists
<1>7. \A i \in 1 .. Len(t) : h[i] = h[i - 1] \o f[t[i]]
  BY <1>5, Zenon DEF Spelling
<1>8. \A i \in 1 .. Len(t) : k[i] = k[i - 1] \o gf[t[i]]
  BY <1>6, Zenon DEF Spelling
<1>9. h[0] = <<>> /\ k[0] = <<>> /\ \A i \in 0 .. Len(t) : h[i] \in Seq(L)
  BY <1>5, <1>6, Zenon DEF Spelling
<1>10. Len(t) \in Nat /\ \A i \in 1 .. Len(t) : t[i] \in L
  OBVIOUS
<1> DEFINE B == {i \in 0 .. Len(t) : Spelled(g, h[i]) = k[i]}
<1>11. 0 \in B
  <2>1. Spelled(g, h[0]) = k[0]
    BY <1>9, SpelledEmpty, Zenon
  <2>2. 0 \in 0 .. Len(t)
    BY <1>10
  <2>3. QED
    BY <2>1, <2>2
<1>12. ASSUME NEW i \in 0 .. Len(t), i \in B, i < Len(t) PROVE i + 1 \in B
  <2>1. i + 1 \in 1 .. Len(t) /\ i + 1 \in 0 .. Len(t) /\ (i + 1) - 1 = i
    BY <1>10, <1>12
  <2>2. PICK a : a = t[i + 1]
    BY Zenon
  <2>3. a \in L
    BY <1>10, <2>1, <2>2, Zenon
  <2>4. h[i + 1] = h[i] \o f[a] /\ k[i + 1] = k[i] \o Spelled(g, f[a])
    BY <1>4, <1>7, <1>8, <2>1, <2>2, <2>3, Zenon
  <2>5. PICK x, y : x = h[i] /\ y = f[a]
    BY Zenon
  <2>6. x \in Seq(L) /\ y \in Seq(L)
    BY <1>1, <1>9, <2>3, <2>5, Zenon
  <2>7. Spelled(g, x \o y) = Spelled(g, x) \o Spelled(g, y)
    BY <2>6, SpelledConcat, SMTT(30)
  <2>8. Spelled(g, x) = k[i]
    BY <1>12, <2>5, Zenon
  <2>9. Spelled(g, h[i + 1]) = k[i + 1]
    BY <2>4, <2>5, <2>7, <2>8, Zenon
  <2>10. QED
    BY <2>1, <2>9
<1> HIDE DEF B
<1>13. \A i \in 0 .. Len(t) : i \in B
  BY <1>10, <1>11, <1>12, GoesUp
<1>14. Spelled(g, h[Len(t)]) = k[Len(t)]
  BY <1>10, <1>13 DEF B
<1>15. Spelled(f, t) = h[Len(t)]
  BY <1>5, SpelledIs, SMT
<1>16. Spelled(gf, t) = k[Len(t)]
  BY <1>3, <1>6, SpelledIs, SMT
<1>17. QED
  BY <1>3, <1>14, <1>15, <1>16, Zenon

(* The letters of the text of a letter of t are in what t becomes. *)
LEMMA SpelledHolds ==
  ASSUME NEW L, NEW S, NEW g, Texts(g, L, S), NEW t \in Seq(L), NEW j \in 1 .. Len(t),
         NEW c, g[t[j]] = <<c>>
  PROVE  c \in Range(Spelled(g, t))
<1>1. PICK h : Spelling(S, g, t, h)
  BY SpellingExists
<1>2. \A i \in 1 .. Len(t) : h[i] = h[i - 1] \o g[t[i]]
  BY <1>1, Zenon DEF Spelling
<1>3. \A i \in 0 .. Len(t) : h[i] \in Seq(S)
  BY <1>1, Zenon DEF Spelling
<1>4. Len(t) \in Nat /\ \A i \in 1 .. Len(t) : t[i] \in L
  OBVIOUS
<1>5. \A i \in 1 .. Len(t) : g[t[i]] \in Seq(S)
  BY <1>4 DEF Texts
<1> DEFINE B == {i \in 0 .. Len(t) : i < j \/ \E p \in 1 .. Len(h[i]) : h[i][p] = c}
<1>6. 0 \in B
  BY <1>4
<1>7. ASSUME NEW i \in 0 .. Len(t), i \in B, i < Len(t) PROVE i + 1 \in B
  <2>1. i + 1 \in 1 .. Len(t) /\ i + 1 \in 0 .. Len(t) /\ (i + 1) - 1 = i
    BY <1>4, <1>7
  <2>2. PICK x, y, z : x = h[i] /\ y = g[t[i + 1]] /\ z = h[i + 1]
    BY Zenon
  <2>3. x \in Seq(S) /\ y \in Seq(S) /\ z = x \o y
    BY <1>2, <1>3, <1>5, <2>1, <2>2, Zenon
  <2>4. CASE i + 1 < j
    BY <2>1, <2>4
  <2>5. CASE i + 1 = j
    <3>1. y = <<c>>
      BY <2>2, <2>5, Zenon
    <3>2. Len(x) + 1 \in 1 .. Len(z) /\ z[Len(x) + 1] = c
      BY <2>3, <3>1
    <3>3. QED
      BY <2>1, <2>2, <3>2
  <2>6. CASE i + 1 > j
    <3>1. PICK p \in 1 .. Len(x) : x[p] = c
      BY <1>7, <2>2, <2>6
    <3>2. p \in 1 .. Len(z) /\ z[p] = c
      BY <2>3, <3>1
    <3>3. QED
      BY <2>1, <2>2, <3>2
  <2>7. QED
    BY <2>1, <2>4, <2>5, <2>6
<1> HIDE DEF B
<1>8. \A i \in 0 .. Len(t) : i \in B
  BY <1>4, <1>6, <1>7, GoesUp
<1>9. \E p \in 1 .. Len(h[Len(t)]) : h[Len(t)][p] = c
  BY <1>4, <1>8 DEF B
<1>10. Spelled(g, t) = h[Len(t)] /\ Spelled(g, t) \in Seq(S)
  BY <1>1, SpelledIs, SMT
<1>11. PICK z : z = Spelled(g, t)
  BY Zenon
<1>12. z \in Seq(S) /\ \E p \in 1 .. Len(z) : z[p] = c
  BY <1>9, <1>10, <1>11, Zenon
<1>13. c \in Range(z)
  BY <1>12 DEF Range
<1>14. QED
  BY <1>11, <1>13
(* Letters that stay as they are leave the text as it is. *)
LEMMA SpelledSame ==
  ASSUME NEW L, NEW S, NEW g, Texts(g, L, S), NEW t \in Seq(L),
         \A j \in 1 .. Len(t) : g[t[j]] = <<t[j]>>
  PROVE  Spelled(g, t) = t
<1>1. PICK h : Spelling(S, g, t, h)
  BY SpellingExists
<1>2. h[0] = <<>> /\ \A i \in 1 .. Len(t) : h[i] = h[i - 1] \o g[t[i]]
  BY <1>1, Zenon DEF Spelling
<1>3. Len(t) \in Nat
  OBVIOUS
<1> DEFINE B == {i \in 0 .. Len(t) : h[i] = SubSeq(t, 1, i)}
<1>4. 0 \in B
  <2>1. SubSeq(t, 1, 0) = <<>> /\ 0 \in 0 .. Len(t)
    BY <1>3
  <2>2. h[0] = SubSeq(t, 1, 0)
    BY <1>2, <2>1, Zenon
  <2>3. QED
    BY <2>1, <2>2
<1>5. ASSUME NEW i \in 0 .. Len(t), i \in B, i < Len(t) PROVE i + 1 \in B
  <2>1. i + 1 \in 1 .. Len(t) /\ i + 1 \in 0 .. Len(t) /\ (i + 1) - 1 = i
    BY <1>3, <1>5
  <2>2. h[i + 1] = h[i] \o <<t[i + 1]>>
    BY <1>2, <2>1, Zenon
  <2>3. h[i] = SubSeq(t, 1, i)
    BY <1>5
  <2>4. SubSeq(t, 1, i) \o <<t[i + 1]>> = SubSeq(t, 1, i + 1)
    BY <2>1
  <2>5. QED
    BY <2>1, <2>2, <2>3, <2>4, Zenon
<1> HIDE DEF B
<1>6. \A i \in 0 .. Len(t) : i \in B
  BY <1>3, <1>4, <1>5, GoesUp
<1>7. h[Len(t)] = SubSeq(t, 1, Len(t))
  BY <1>3, <1>6 DEF B
<1>8. SubSeq(t, 1, Len(t)) = t
  OBVIOUS
<1>9. Spelled(g, t) = h[Len(t)]
  BY <1>1, SpelledIs, SMT
<1>10. QED
  BY <1>7, <1>8, <1>9, Zenon

-----------------------------------------------------------------------------
(* The passes of var_sprint and the meaning *)

Ext == Letters \cup {"!"}

(* What a letter becomes in one pass, and with no pass left. *)
Once == [a \in Letters |-> IF Known(Refers[a]) THEN Value(Refers[a]) ELSE <<a>>]
Deepest == [a \in Letters |-> IF ~Known(Refers[a]) THEN Bare(a) ELSE <<"!">>]

LEMMA OnceTexts ==
  ASSUME Types, CellsExist(list, toggles, Len(store))
  PROVE  Texts(Once, Letters, Letters) /\ Texts(Deepest, Letters, Ext)
<1>1. ASSUME NEW a \in Letters
      PROVE  (IF Known(Refers[a]) THEN Value(Refers[a]) ELSE <<a>>) \in Seq(Letters)
  <2>1. CASE Known(Refers[a])
    <3>1. Value(Refers[a]) \in Seq(Letters)
      BY <2>1, ValueType
    <3>2. QED
      BY <2>1, <3>1, Zenon
  <2>2. CASE ~Known(Refers[a])
    BY <2>2
  <2>3. QED
    BY <2>1, <2>2
<1>2. ASSUME NEW a \in Letters
      PROVE  (IF ~Known(Refers[a]) THEN Bare(a) ELSE <<"!">>) \in Seq(Ext)
  <2>1. <<a>> \in Seq(Ext) /\ <<>> \in Seq(Ext) /\ <<"!">> \in Seq(Ext)
    BY DEF Ext
  <2>2. QED
    BY <2>1 DEF Bare
<1>3. Texts(Once, Letters, Letters)
  BY <1>1, Zenon DEF Texts, Once
<1>4. Texts(Deepest, Letters, Ext)
  BY <1>2, Zenon DEF Texts, Deepest
<1>5. QED
  BY <1>3, <1>4

(* A pass that meets known references only. *)
LEMMA OnceIsSpelled ==
  ASSUME NEW text \in Seq(Letters), \A a \in Range(text) : ~Unknown(a)
  PROVE  var_sprint_once(text) = Spelled(Once, text)
<1>1. \A i \in DOMAIN text : text[i] \in Letters /\ ~Unknown(text[i])
  BY DEF Range
<1>2. ASSUME NEW i \in DOMAIN text PROVE ~Unexamined(text, i)
  <2>1. SUFFICES ASSUME Unexamined(text, i) PROVE FALSE
    OBVIOUS
  <2>2. PICK n \in 1 .. i - 1 : \A j \in i - n .. i - 1 : Unknown(text[j])
    BY <2>1 DEF Unexamined
  <2>3. i - 1 \in i - n .. i - 1 /\ i - 1 \in DOMAIN text
    BY <2>2
  <2>4. QED
    BY <1>1, <2>2, <2>3
<1>3. ASSUME NEW i \in DOMAIN text PROVE Once[text[i]] = Part(text, i)
  <2>1. text[i] \in Letters /\ ~Unexamined(text, i) /\ (Refers[text[i]] = "" \/ Known(Refers[text[i]]))
    BY <1>1, <1>2, Zenon DEF Unknown
  <2>2. Refers[text[i]] = "" => ~Known(Refers[text[i]])
    BY Zenon DEF Known, Index
  <2>3. QED
    BY <2>1, <2>2, Zenon DEF Once, Part
<1>4. [i \in DOMAIN text |-> Once[text[i]]] = [i \in DOMAIN text |-> Part(text, i)]
  BY <1>3, Zenon
<1>5. QED
  BY <1>4, Zenon DEF var_sprint_once, Spelled, Part
(* The meanings of the letters, by the number of passes that are left.     *)
Meanings(m) ==
  /\ m[0] = Deepest
  /\ \A d \in 0 .. Passes : Texts(m[d], Letters, Ext)
  /\ \A d \in 1 .. Passes : m[d] = [a \in Letters |-> Spelled(m[d - 1], Once[a])]
  /\ m = meanings /\ \A text : Meaning(text) = Spelled(m[Passes], text)

LEMMA MeaningsExist ==
  ASSUME Types, CellsExist(list, toggles, Len(store))
  PROVE  \E m : Meanings(m)
<1> DEFINE Settled == {x \in [Letters -> Seq(Ext)] :
                         \A a \in Letters : ~Known(Refers[a]) => x[a] = Bare(a)}
           Deeper(x) == [a \in Letters |-> Spelled(x, Once[a])]
           Level(d, x) == [a \in Letters |->
                            IF ~Known(Refers[a]) THEN Bare(a)
                            ELSE IF d = 0 THEN <<"!">>
                            ELSE Spelled(x, Value(Refers[a]))]
           Defines(f) == f = [d \in 0 .. Passes |-> Level(d, f[d - 1])]
           k == CHOOSE f : Defines(f)
<1>0. Passes \in Nat
  BY SizesAssumption
<1>1. meanings = k /\ \A text : Meaning(text) = Spelled(k[Passes], text)
  BY Zenon DEF Meaning, meanings
<1>2. Deepest \in Settled
  <2>1. Deepest \in [Letters -> Seq(Ext)]
    BY OnceTexts, Zenon DEF Texts
  <2>2. \A a \in Letters : ~Known(Refers[a]) => Deepest[a] = Bare(a)
    BY Zenon DEF Deepest
  <2>3. QED
    BY <2>1, <2>2, Zenon
<1>3. ASSUME NEW x \in Settled, NEW a \in Letters
      PROVE  /\ Spelled(x, Once[a]) \in Seq(Ext)
             /\ ~Known(Refers[a]) => Spelled(x, Once[a]) = Bare(a)
             /\ Known(Refers[a]) => Spelled(x, Once[a]) = Spelled(x, Value(Refers[a]))
  <2>1. Texts(x, Letters, Ext)
    BY <1>3, Zenon DEF Texts
  <2>2. Once[a] \in Seq(Letters)
    BY OnceTexts DEF Texts
  <2>3. Spelled(x, Once[a]) \in Seq(Ext)
    BY <2>1, <2>2, SpelledType, SMT
  <2>4. Known(Refers[a]) => Once[a] = Value(Refers[a])
    BY Zenon DEF Once
  <2>5. ~Known(Refers[a]) => Once[a] = <<a>>
    BY Zenon DEF Once
  <2>6. Spelled(x, <<a>>) = x[a]
    BY <2>1, SpelledOne, SMT
  <2>7. ~Known(Refers[a]) => x[a] = Bare(a)
    BY <1>3, Zenon
  <2>8. QED
    BY <2>3, <2>4, <2>5, <2>6, <2>7, Zenon
<1>4. ASSUME NEW x \in Settled PROVE Deeper(x) \in Settled
  <2>1. Deeper(x) \in [Letters -> Seq(Ext)]
    BY <1>3, <1>4, Zenon
  <2>2. \A a \in Letters : ~Known(Refers[a]) => Deeper(x)[a] = Bare(a)
    BY <1>3, <1>4, Zenon
  <2>3. QED
    BY <2>1, <2>2, Zenon
<1>5. ASSUME NEW x \in Settled, NEW d, d # 0 PROVE Level(d, x) = Deeper(x)
  <2>1. \A a \in Letters :
          (IF ~Known(Refers[a]) THEN Bare(a)
           ELSE IF d = 0 THEN <<"!">> ELSE Spelled(x, Value(Refers[a]))) = Spelled(x, Once[a])
    BY <1>3, <1>5, Zenon
  <2>2. QED
    BY <2>1, Zenon
<1>6. ASSUME NEW x PROVE Level(0, x) = Deepest
  <2>1. \A a \in Letters :
          (IF ~Known(Refers[a]) THEN Bare(a)
           ELSE IF 0 = 0 THEN <<"!">> ELSE Spelled(x, Value(Refers[a])))
          = IF ~Known(Refers[a]) THEN Bare(a) ELSE <<"!">>
    BY Zenon
  <2>2. QED
    BY <2>1, Zenon DEF Deepest
<1> HIDE DEF Level
<1>7. PICK D, sts, g : /\ D = Deepest /\ sts = Settled
                       /\ g = [i \in 1 .. Passes |-> [x \in Settled |-> Deeper(x)]]
  BY Zenon
<1>8. /\ g \in [(0 + 1) .. Passes -> [sts -> sts]]
      /\ \A i \in 1 .. Passes : \A x \in sts : g[i][x] = Deeper(x)
  <2> HIDE DEF Settled, Deeper
  <2> QED BY <1>4, <1>7
<1> HIDE DEF Settled, Deeper
<1>9. PICK f : Follows(sts, 0, Passes, D, g, f)
  <2>1. D \in sts /\ 0 <= Passes /\ 0 \in Nat
    BY <1>0, <1>2, <1>7
  <2>2. QED
    BY <1>0, <1>8, <2>1, Recursion
<1>10. Defines(f)
  <2>1. f \in [0 .. Passes -> sts] /\ f[0] = D /\ \A i \in 1 .. Passes : f[i] = g[i][f[i - 1]]
    BY <1>9 DEF Follows
  <2>2. ASSUME NEW i \in 1 .. Passes PROVE f[i] = Level(i, f[i - 1])
    <3>1. i - 1 \in 0 .. Passes /\ i # 0
      BY <1>0
    <3>2. PICK x : x = f[i - 1]
      BY Zenon
    <3>3. x \in sts /\ f[i] = g[i][x]
      BY <2>1, <3>1, <3>2, Zenon
    <3>4. f[i] = Deeper(x)
      BY <1>8, <3>3, Zenon
    <3>5. Level(i, x) = Deeper(x)
      BY <1>5, <1>7, <3>1, <3>3, Zenon
    <3>6. QED
      BY <3>2, <3>4, <3>5, Zenon
  <2>3. \A i \in 0 .. Passes : i = 0 \/ i \in 1 .. Passes
    BY <1>0
  <2>4. f[0] = Level(0, f[0 - 1])
    BY <1>6, <1>7, <2>1, Zenon
  <2>5. \A i \in 0 .. Passes : f[i] = Level(i, f[i - 1])
    BY <2>2, <2>3, <2>4, Zenon
  <2>6. f = [i \in 0 .. Passes |-> f[i]]
    BY <2>1
  <2>7. QED
    BY <2>5, <2>6, Zenon
<1>11. Defines(k)
  BY <1>10, Zenon
<1>12. \A d \in 0 .. Passes : k[d] = Level(d, k[d - 1])
  BY <1>11, Zenon
<1> HIDE DEF k
<1>13. PICK m : m = k
  BY Zenon
<1>14. m[0] = Deepest /\ \A d \in 0 .. Passes : m[d] = Level(d, m[d - 1])
  <2>1. 0 \in 0 .. Passes
    BY <1>0
  <2>2. QED
    BY <1>6, <1>12, <1>13, <2>1, Zenon
<1>15. \A d \in 0 .. Passes : m[d] \in sts
  <2> DEFINE B == {d \in 0 .. Passes : m[d] \in sts}
  <2>1. 0 \in B
    BY <1>0, <1>2, <1>7, <1>14
  <2>2. ASSUME NEW d \in 0 .. Passes, d \in B, d < Passes PROVE d + 1 \in B
    <3>1. d + 1 \in 0 .. Passes /\ (d + 1) - 1 = d /\ d + 1 # 0
      BY <1>0, <2>2
    <3>2. PICK x : x = m[d]
      BY Zenon
    <3>3. x \in Settled
      BY <1>7, <2>2, <3>2
    <3>4. m[d + 1] = Level(d + 1, x)
      BY <1>14, <3>1, <3>2, Zenon
    <3>5. Level(d + 1, x) = Deeper(x) /\ Deeper(x) \in Settled
      BY <1>4, <1>5, <3>1, <3>3, Zenon
    <3>6. m[d + 1] \in sts
      BY <1>7, <3>4, <3>5, Zenon
    <3>7. QED
      BY <3>1, <3>6
  <2> HIDE DEF B
  <2>3. \A d \in 0 .. Passes : d \in B
    BY <1>0, <2>1, <2>2, GoesUp
  <2>4. QED
    BY <2>3 DEF B
<1>16. \A d \in 0 .. Passes : Texts(m[d], Letters, Ext)
  BY <1>7, <1>15, Zenon DEF Settled, Texts
<1>17. ASSUME NEW d \in 1 .. Passes PROVE m[d] = [a \in Letters |-> Spelled(m[d - 1], Once[a])]
  <2>1. d \in 0 .. Passes /\ d - 1 \in 0 .. Passes /\ d # 0
    BY <1>0
  <2>2. m[d] = Deeper(m[d - 1])
    BY <1>5, <1>7, <1>14, <1>15, <2>1, Zenon
  <2>3. QED
    BY <2>2, Zenon DEF Deeper
<1>18. m = meanings /\ \A text : Meaning(text) = Spelled(m[Passes], text)
  BY <1>1, <1>13, Zenon
<1>19. Meanings(m)
  BY <1>14, <1>16, <1>17, <1>18, Zenon DEF Meanings
<1>20. QED
  BY <1>19
(* The passes keep the meaning, and the last leaves nothing to expand.     *)
LEMMA SprintIsMeaning ==
  ASSUME Types, CellsExist(list, toggles, Len(store)), NEW text \in Seq(Letters),
         "!" \notin Range(Meaning(text)), Clear(text)
  PROVE  var_sprint(text) = Meaning(text)
<1>1. PICK h : Passing(text, h)
  BY SprintPasses
<1>2. PICK m : Meanings(m)
  BY MeaningsExist
<1>3. Passes \in Nat
  BY SizesAssumption
<1>4. /\ h[0] = text /\ var_sprint(text) = h[Passes]
      /\ \A i \in 0 .. Passes : h[i] \in Seq(Letters) \cup {Overrun}
      /\ \A i \in 1 .. Passes :
           h[i] = IF h[i - 1] = Overrun \/ Length(h[i - 1]) > BufferSize
                  THEN Overrun ELSE var_sprint_once(h[i - 1])
  BY <1>1, Zenon DEF Passing
<1>5. /\ m[0] = Deepest /\ Meaning(text) = Spelled(m[Passes], text)
      /\ \A d \in 0 .. Passes : Texts(m[d], Letters, Ext)
      /\ \A d \in 1 .. Passes : m[d] = [a \in Letters |-> Spelled(m[d - 1], Once[a])]
  BY <1>2, Zenon DEF Meanings
<1>6. \A i \in 0 .. Passes : h[i] # Overrun /\ \A a \in Range(h[i]) : ~Unknown(a)
  BY <1>1, Zenon DEF Clear, Passing
<1>7. \A i \in 0 .. Passes : h[i] \in Seq(Letters)
  BY <1>4, <1>6, Zenon
<1>8. ASSUME NEW i \in 1 .. Passes PROVE h[i] = Spelled(Once, h[i - 1])
  <2>1. i - 1 \in 0 .. Passes /\ i \in 0 .. Passes
    BY <1>3
  <2>2. h[i] = var_sprint_once(h[i - 1])
    BY <1>4, <1>6, <2>1, Zenon
  <2>3. PICK t : t = h[i - 1]
    BY Zenon
  <2>4. t \in Seq(Letters) /\ \A a \in Range(t) : ~Unknown(a)
    BY <1>6, <1>7, <2>1, <2>3, Zenon
  <2>5. QED
    BY <2>2, <2>3, <2>4, OnceIsSpelled, Zenon
<1> DEFINE B == {i \in 0 .. Passes : Spelled(m[Passes - i], h[i]) = Meaning(text)}
<1>9. 0 \in B
  <2>1. Passes - 0 = Passes /\ 0 \in 0 .. Passes
    BY <1>3
  <2>2. Spelled(m[Passes - 0], h[0]) = Meaning(text)
    BY <1>4, <1>5, <2>1, Zenon
  <2>3. QED
    BY <2>1, <2>2
<1>10. ASSUME NEW i \in 0 .. Passes, i \in B, i < Passes PROVE i + 1 \in B
  <2>1. PICK d, e : d = Passes - i /\ e = Passes - (i + 1)
    BY Zenon
  <2>2. /\ i + 1 \in 1 .. Passes /\ i + 1 \in 0 .. Passes /\ (i + 1) - 1 = i
        /\ d \in 1 .. Passes /\ e \in 0 .. Passes /\ d - 1 = e
    BY <1>3, <1>10, <2>1
  <2>3. PICK gf, g, t : gf = m[d] /\ g = m[e] /\ t = h[i]
    BY Zenon
  <2>4. gf = [a \in Letters |-> Spelled(g, Once[a])]
    BY <1>5, <2>2, <2>3, Zenon
  <2>5. Texts(g, Letters, Ext) /\ t \in Seq(Letters)
    BY <1>5, <1>7, <2>2, <2>3, Zenon
  <2>6. PICK once : once = Once
    BY Zenon
  <2>7. Texts(once, Letters, Letters) /\ After(gf, Letters, g, once)
    BY <2>4, <2>6, OnceTexts, Zenon DEF After
  <2>8. Spelled(g, Spelled(once, t)) = Spelled(gf, t)
    BY <2>5, <2>7, SpelledTwice
  <2>9. Spelled(gf, t) = Meaning(text)
    BY <1>10, <2>1, <2>3, Zenon
  <2>10. h[i + 1] = Spelled(once, t)
    BY <1>8, <2>2, <2>3, <2>6, Zenon
  <2>11. Spelled(m[Passes - (i + 1)], h[i + 1]) = Meaning(text)
    BY <2>1, <2>3, <2>8, <2>9, <2>10, Zenon
  <2>12. QED
    BY <2>2, <2>11
<1> HIDE DEF B
<1>11. \A i \in 0 .. Passes : i \in B
  BY <1>3, <1>9, <1>10, GoesUp
<1>12. PICK t, g : t = h[Passes] /\ g = Deepest
  BY Zenon
<1>13. Spelled(g, t) = Meaning(text)
  <2>1. Passes \in 0 .. Passes /\ Passes - Passes = 0
    BY <1>3
  <2>2. Spelled(m[Passes - Passes], h[Passes]) = Meaning(text)
    BY <1>11, <2>1, Zenon DEF B
  <2>3. QED
    BY <1>5, <1>12, <2>1, <2>2, Zenon
<1>14. t \in Seq(Letters) /\ Texts(g, Letters, Ext)
  <2>1. Passes \in 0 .. Passes
    BY <1>3
  <2>2. QED
    BY <1>7, <1>12, <2>1, OnceTexts, Zenon
<1>15. ASSUME NEW j \in 1 .. Len(t) PROVE g[t[j]] = <<t[j]>>
  <2>1. t[j] \in Letters
    BY <1>14
  <2>2. Known(Refers[t[j]]) => g[t[j]] = <<"!">>
    BY <1>12, <2>1, Zenon DEF Deepest
  <2>3. g[t[j]] = <<"!">> => "!" \in Range(Spelled(g, t))
    BY <1>14, SpelledHolds
  <2>4. ~Known(Refers[t[j]])
    BY <1>13, <2>2, <2>3, Zenon
  <2>5. t[j] \in Range(t)
    BY <1>14 DEF Range
  <2>6. Passes \in 0 .. Passes
    BY <1>3
  <2>7. ~Unknown(t[j])
    BY <1>6, <1>12, <2>5, <2>6, Zenon
  <2>8. QED
    BY <1>12, <2>1, <2>4, <2>7, Zenon DEF Deepest, Bare, Unknown
<1>16. Spelled(g, t) = t
  BY <1>14, <1>15, SpelledSame
<1>17. QED
  BY <1>4, <1>12, <1>13, <1>16, Zenon
(* Parts that mean what the elements of t mean, put together, mean what t  *)
(* means.                                                                  *)
LEMMA SpelledParts ==
  ASSUME NEW L, NEW S, NEW g, Texts(g, L, S), NEW t \in Seq(L), NEW ss \in Seq(Seq(L)),
         Len(ss) = Len(t), \A i \in 1 .. Len(t) : Spelled(g, ss[i]) = g[t[i]]
  PROVE  Spelled(g, FlattenSeq(ss)) = Spelled(g, t)
<1>1. PICK h : Concats(L, ss, h)
  BY ConcatsExist
<1>2. PICK k : Spelling(S, g, t, k)
  BY SpellingExists
<1>3. \A i \in 1 .. Len(t) : h[i] = h[i - 1] \o ss[i]
  BY <1>1, Zenon DEF Concats
<1>4. \A i \in 1 .. Len(t) : k[i] = k[i - 1] \o g[t[i]]
  BY <1>2, Zenon DEF Spelling
<1>5. h[0] = <<>> /\ k[0] = <<>> /\ \A i \in 0 .. Len(t) : h[i] \in Seq(L)
  BY <1>1, <1>2, Zenon DEF Spelling, Concats
<1>6. Len(t) \in Nat /\ \A i \in 1 .. Len(t) : ss[i] \in Seq(L)
  OBVIOUS
<1> DEFINE B == {i \in 0 .. Len(t) : Spelled(g, h[i]) = k[i]}
<1>7. 0 \in B
  <2>1. Spelled(g, h[0]) = k[0]
    BY <1>5, SpelledEmpty, Zenon
  <2>2. 0 \in 0 .. Len(t)
    BY <1>6
  <2>3. QED
    BY <2>1, <2>2
<1>8. ASSUME NEW i \in 0 .. Len(t), i \in B, i < Len(t) PROVE i + 1 \in B
  <2>1. i + 1 \in 1 .. Len(t) /\ i + 1 \in 0 .. Len(t) /\ (i + 1) - 1 = i
    BY <1>6, <1>8
  <2>2. PICK x, y : x = h[i] /\ y = ss[i + 1]
    BY Zenon
  <2>3. x \in Seq(L) /\ y \in Seq(L)
    BY <1>5, <1>6, <2>1, <2>2, Zenon
  <2>4. h[i + 1] = x \o y /\ k[i + 1] = k[i] \o Spelled(g, y)
    BY <1>3, <1>4, <2>1, <2>2, Zenon
  <2>5. Spelled(g, x \o y) = Spelled(g, x) \o Spelled(g, y)
    BY <2>3, SpelledConcat, SMTT(30)
  <2>6. Spelled(g, x) = k[i]
    BY <1>8, <2>2, Zenon
  <2>7. Spelled(g, h[i + 1]) = k[i + 1]
    BY <2>4, <2>5, <2>6, Zenon
  <2>8. QED
    BY <2>1, <2>7
<1> HIDE DEF B
<1>9. \A i \in 0 .. Len(t) : i \in B
  BY <1>6, <1>7, <1>8, GoesUp
<1>10. Spelled(g, h[Len(t)]) = k[Len(t)]
  BY <1>6, <1>9 DEF B
<1>11. FlattenSeq(ss) = h[Len(ss)]
  BY <1>1, FlattenConcats
<1>12. Spelled(g, t) = k[Len(t)]
  BY <1>2, SpelledIs, SMT
<1>13. QED
  BY <1>10, <1>11, <1>12, Zenon

(* A pass changes nothing of what a text means, whatever it leaves as it   *)
(* is.                                                                     *)
LEMMA OnceKeepsMeaning ==
  ASSUME Types, CellsExist(list, toggles, Len(store)), NEW g, Texts(g, Letters, Ext), Explains(g),
         NEW text \in Seq(Letters)
  PROVE  Spelled(g, var_sprint_once(text)) = Spelled(g, text)
<1>1. PICK parts : parts = [i \in DOMAIN text |-> Part(text, i)]
  BY Zenon
<1>2. var_sprint_once(text) = FlattenSeq(parts) /\ parts \in Seq(Seq(Letters)) /\ Len(parts) = Len(text)
  BY <1>1, PartsOfOnce, Zenon
<1>3. ASSUME NEW i \in DOMAIN text PROVE Spelled(g, Part(text, i)) = g[text[i]]
  <2>1. PICK a : a = text[i]
    BY Zenon
  <2>2. a \in Letters
    BY <2>1, ElementType
  <2>3. Spelled(g, <<a>>) = g[a] /\ Spelled(g, <<>>) = <<>>
    BY <2>2, SpelledOne, SpelledEmpty, SMT
  <2>4. g[a] = IF Known(Refers[a]) THEN Spelled(g, Value(Refers[a])) ELSE Bare(a)
    BY <2>2, Zenon DEF Explains
  <2>5. CASE Unexamined(text, i) \/ Refers[a] = ""
    BY <2>1, <2>3, <2>5, Zenon DEF Part
  <2>6. CASE ~(Unexamined(text, i) \/ Refers[a] = "") /\ Known(Refers[a])
    BY <2>1, <2>4, <2>6, Zenon DEF Part
  <2>7. CASE ~(Unexamined(text, i) \/ Refers[a] = "") /\ ~Known(Refers[a])
    BY <2>1, <2>3, <2>4, <2>7, Zenon DEF Part, Bare
  <2>8. QED
    BY <2>5, <2>6, <2>7, Zenon
<1>4. DOMAIN text = 1 .. Len(text)
  OBVIOUS
<1>5. \A i \in 1 .. Len(text) : Spelled(g, parts[i]) = g[text[i]]
  BY <1>1, <1>3, <1>4, Zenon
<1>6. PICK L, S : L = Letters /\ S = Ext
  BY Zenon
<1>7. Texts(g, L, S) /\ text \in Seq(L) /\ parts \in Seq(Seq(L))
  BY <1>2, <1>6, Zenon
<1>8. Spelled(g, FlattenSeq(parts)) = Spelled(g, text)
  BY <1>2, <1>5, <1>7, SpelledParts
<1>9. QED
  BY <1>2, <1>8, Zenon

(* A line that the passes expand to plain letters became what it means.    *)
LEMMA ExpandedIsMeaning ==
  ASSUME Types, CellsExist(list, toggles, Len(store)), NEW text \in Seq(Letters),
         Explains(meanings[Passes]), Expanded(var_sprint(text))
  PROVE  var_sprint(text) = Meaning(text)
<1>1. PICK h : Passing(text, h)
  BY SprintPasses
<1>2. /\ h[0] = text /\ var_sprint(text) = h[Passes] /\ h[Passes] # Overrun
      /\ \A i \in 0 .. Passes : h[i] \in Seq(Letters) \cup {Overrun}
      /\ \A i \in 1 .. Passes :
           h[i] = IF h[i - 1] = Overrun \/ Length(h[i - 1]) > BufferSize
                  THEN Overrun ELSE var_sprint_once(h[i - 1])
  BY <1>1, Zenon DEF Passing, Expanded
<1>3. Passes \in Nat
  BY SizesAssumption
<1>4. ASSUME NEW j \in 0 .. Passes, h[j] = Overrun PROVE FALSE
  <2> DEFINE B == {i \in 0 .. Passes : i < j \/ h[i] = Overrun}
  <2>1. 0 \in B
    <3>1. CASE j = 0
      BY <1>3, <1>4, <3>1
    <3>2. CASE j # 0
      BY <1>3, <3>2
    <3>3. QED
      BY <3>1, <3>2
  <2>2. ASSUME NEW i \in 0 .. Passes, i \in B, i < Passes PROVE i + 1 \in B
    <3>1. i + 1 \in 1 .. Passes /\ i + 1 \in 0 .. Passes /\ (i + 1) - 1 = i
      BY <1>3, <2>2
    <3>2. CASE h[i] = Overrun
      <4>1. h[i + 1] = Overrun
        BY <1>2, <3>1, <3>2, Zenon
      <4>2. QED
        BY <3>1, <4>1
    <3>3. CASE i + 1 < j
      BY <3>1, <3>3
    <3>4. CASE i + 1 = j
      BY <1>4, <3>1, <3>4
    <3>5. QED
      BY <1>3, <2>2, <3>2, <3>3, <3>4
  <2> HIDE DEF B
  <2>3. \A i \in 0 .. Passes : i \in B
    BY <1>3, <2>1, <2>2, GoesUp
  <2>4. h[Passes] = Overrun
    BY <1>3, <2>3 DEF B
  <2>5. QED
    BY <1>2, <2>4, Zenon
<1>5. \A i \in 0 .. Passes : h[i] \in Seq(Letters)
  BY <1>2, <1>4, Zenon
<1>6. PICK g : g = meanings[Passes]
  BY Zenon
<1>7. Texts(g, Letters, Ext) /\ Explains(g) /\ Meaning(text) = Spelled(g, text)
  <2>1. PICK m : Meanings(m)
    BY MeaningsExist
  <2>2. Passes \in 0 .. Passes
    BY <1>3
  <2>3. Texts(g, Letters, Ext)
    BY <1>6, <2>1, <2>2, Zenon DEF Meanings
  <2>4. QED
    BY <1>6, <2>3, Zenon DEF Meaning
<1> DEFINE B == {i \in 0 .. Passes : Spelled(g, h[i]) = Meaning(text)}
<1>8. 0 \in B
  <2>1. 0 \in 0 .. Passes
    BY <1>3
  <2>2. Spelled(g, h[0]) = Meaning(text)
    BY <1>2, <1>7, Zenon
  <2>3. QED
    BY <2>1, <2>2
<1>9. ASSUME NEW i \in 0 .. Passes, i \in B, i < Passes PROVE i + 1 \in B
  <2>1. i + 1 \in 1 .. Passes /\ i + 1 \in 0 .. Passes /\ (i + 1) - 1 = i
    BY <1>3, <1>9
  <2>2. PICK t : t = h[i]
    BY Zenon
  <2>3. t \in Seq(Letters) /\ h[i + 1] = var_sprint_once(t)
    BY <1>2, <1>4, <1>5, <2>1, <2>2, Zenon
  <2>4. Spelled(g, var_sprint_once(t)) = Spelled(g, t)
    BY <1>7, <2>3, OnceKeepsMeaning
  <2>5. Spelled(g, t) = Meaning(text)
    BY <1>9, <2>2, Zenon
  <2>6. Spelled(g, h[i + 1]) = Meaning(text)
    BY <2>3, <2>4, <2>5, Zenon
  <2>7. QED
    BY <2>1, <2>6
<1> HIDE DEF B
<1>10. \A i \in 0 .. Passes : i \in B
  BY <1>3, <1>8, <1>9, GoesUp
<1>11. PICK t : t = h[Passes]
  BY Zenon
<1>12. t \in Seq(Letters) /\ Spelled(g, t) = Meaning(text) /\ \A a \in Range(t) : Refers[a] = ""
  <2>1. Passes \in 0 .. Passes /\ Passes \in B
    BY <1>3, <1>10
  <2>2. Spelled(g, h[Passes]) = Meaning(text)
    BY <2>1 DEF B
  <2>3. \A a \in Range(t) : Refers[a] = ""
    BY <1>2, <1>11, Zenon DEF Expanded
  <2>4. QED
    BY <1>5, <1>11, <2>1, <2>2, <2>3, Zenon
<1>13. ASSUME NEW j \in 1 .. Len(t) PROVE g[t[j]] = <<t[j]>>
  <2>0. t \in Seq(Letters)
    BY <1>12
  <2>1. t[j] \in Letters /\ t[j] \in Range(t)
    BY <2>0 DEF Range
  <2>2. Refers[t[j]] = "" /\ ~Known(Refers[t[j]])
    BY <1>12, <2>1, Zenon DEF Known, Index
  <2>3. QED
    BY <1>7, <2>1, <2>2, Zenon DEF Explains, Bare
<1>14. Spelled(g, t) = t
  BY <1>7, <1>12, <1>13, SpelledSame
<1>15. QED
  BY <1>2, <1>11, <1>12, <1>14, Zenon
-----------------------------------------------------------------------------
(* What the steps have in common *)

LEMMA EntryType ==
  ASSUME NEW t \in Seq(Toggle_), NEW s \in DOMAIN t
  PROVE  /\ t[s] \in Toggle_
         /\ \A b \in 1..MAX_BLOCKS : t[s].block[b] \in Block_
         /\ \A b \in 1..MAX_BLOCKS, v \in 1..MAX_VAR_PER_BLOCK : EntryOf(t, s, b, v) \in Entry_
<1>1. t[s] \in Toggle_
  OBVIOUS
<1>2. t[s].block \in [1..MAX_BLOCKS -> Block_]
  BY <1>1 DEF Toggle_
<1>3. \A b \in 1..MAX_BLOCKS : t[s].block[b] \in Block_
  BY <1>2
<1>4. \A b \in 1..MAX_BLOCKS : t[s].block[b].var \in [1..MAX_VAR_PER_BLOCK -> Entry_]
  BY <1>3 DEF Block_
<1>5. QED
  BY <1>1, <1>3, <1>4 DEF EntryOf

LEMMA CellularHolds ==
  ASSUME Types
  PROVE  Cellular(list, toggles) /\ Len(list) \in Nat /\ Len(store) \in Nat /\ Len(toggles) \in Nat
<1>1. list \in Seq(Variable_) /\ toggles \in Seq(Toggle_) /\ store \in Seq(Cell_)
  BY DEF Types
<1>2. \A i \in DOMAIN list : list[i].cell \in Nat
  <2>1. \A i \in DOMAIN list : list[i] \in Variable_
    BY <1>1
  <2>2. QED
    BY <2>1 DEF Variable_
<1>3. \A s \in DOMAIN toggles, b \in 1..MAX_BLOCKS, v \in 1..MAX_VAR_PER_BLOCK :
        EntryOf(toggles, s, b, v).cell \in Nat
  <2>1. \A s \in DOMAIN toggles, b \in 1..MAX_BLOCKS, v \in 1..MAX_VAR_PER_BLOCK :
          EntryOf(toggles, s, b, v) \in Entry_
    BY <1>1, EntryType
  <2>2. QED
    BY <2>1 DEF Entry_
<1>4. QED
  BY <1>1, <1>2, <1>3 DEF Cellular

(* A text is put behind the others. *)
LEMMA StoreAppend ==
  ASSUME Types, TextsFit, NEW text \in Seq(Letters), store' = Append(store, Cell(text))
  PROVE  store' \in Seq(Cell_) /\ Len(store') = Len(store) + 1 /\ TextsFit'
<1>1. Cell(text) \in Cell_ /\ Length(Cell(text).text) <= Cell(text).room
  BY LengthType DEF Cell_, Cell
<1>2. PICK c, st : c = Cell(text) /\ st = store'
  BY Zenon
<1>3. store \in Seq(Cell_) /\ Len(store) \in Nat /\ DOMAIN store = 1..Len(store)
  BY DEF Types
<1>4. st = Append(store, c) /\ c \in Cell_
  BY <1>1, <1>2
<1>5. /\ st \in Seq(Cell_) /\ Len(st) = Len(store) + 1 /\ DOMAIN st = 1..(Len(store) + 1)
      /\ st[Len(store) + 1] = c /\ \A i \in 1..Len(store) : st[i] = store[i]
  BY <1>3, <1>4, AppendProperties
<1>6. ASSUME NEW i \in DOMAIN st PROVE Length(st[i].text) <= st[i].room
  <2>1. i = Len(store) + 1 \/ i \in 1..Len(store)
    BY <1>3, <1>5
  <2>2. CASE i = Len(store) + 1
    BY <1>1, <1>2, <1>5, <2>2
  <2>3. CASE i \in 1..Len(store)
    <3>1. st[i] = store[i] /\ i \in DOMAIN store
      BY <1>3, <1>5, <2>3
    <3>2. QED
      BY <3>1, Zenon DEF TextsFit
  <2>4. QED
    BY <2>1, <2>2, <2>3
<1>7. TextsFit'
  BY <1>2, <1>6, Zenon DEF TextsFit
<1>8. QED
  BY <1>2, <1>5, <1>7

(* The variables and the toggles after steps that only take texts away or  *)
(* hand out the one that is new.                                           *)
LEMMA OwnershipGrows ==
  ASSUME IInv, Len(store') = Len(store) + 1, NEW k, NEW s0, NEW b0, NEW v0,
         NEW l2, NEW t2, ListGrows(list, l2, k, Len(store) + 1),
         EntriesGrow(toggles, t2, s0, b0, v0, k, Len(store) + 1)
  PROVE  Ownership(l2, t2, Len(store) + 1)
<1>1. Cellular(list, toggles) /\ Len(store) \in Nat /\ Ownership(list, toggles, Len(store))
  BY CellularHolds DEF IInv
<1>2. PICK n, l, t : n = Len(store) /\ l = list /\ t = toggles
  BY Zenon
<1>3. /\ Cellular(l, t) /\ n \in Nat /\ Ownership(l, t, n) /\ ListGrows(l, l2, k, n + 1)
      /\ EntriesGrow(t, t2, s0, b0, v0, k, n + 1)
  BY <1>1, <1>2
<1>4. n + 1 \in Nat /\ n < n + 1 /\ n + 1 <= n + 1
  BY <1>3
<1>5. Ownership(l2, t2, n + 1)
  BY <1>3, <1>4, GrowthKeepsOwnership
<1>6. QED
  BY <1>2, <1>5

ListKept(l, l2) == \A i \in DOMAIN l2 : (i \in DOMAIN l /\ l2[i].cell = l[i].cell) \/ l2[i].cell = NoCell
EntriesKept(t, t2) ==
  \A s \in DOMAIN t2, b \in 1..MAX_BLOCKS, v \in 1..MAX_VAR_PER_BLOCK :
    \/ s \in DOMAIN t /\ EntryOf(t2, s, b, v) = EntryOf(t, s, b, v)
    \/ EntryOf(t2, s, b, v).cell = NoCell

LEMMA OwnershipStays ==
  ASSUME IInv, NEW l2, NEW t2, ListKept(list, l2), EntriesKept(toggles, t2)
  PROVE  Ownership(l2, t2, Len(store))
<1>1. Cellular(list, toggles) /\ Len(store) \in Nat /\ Ownership(list, toggles, Len(store))
  BY CellularHolds DEF IInv
<1>2. PICK n, l, t : n = Len(store) /\ l = list /\ t = toggles
  BY Zenon
<1>3. Cellular(l, t) /\ n \in Nat /\ Ownership(l, t, n) /\ ListKept(l, l2) /\ EntriesKept(t, t2)
  BY <1>1, <1>2
<1>4. n + 1 \in Nat /\ n < n + 1 /\ n + 1 <= n + 1
  BY <1>3
<1>5. ListGrows(l, l2, 0, n + 1) /\ EntriesGrow(t, t2, 0, 0, 0, 0, n + 1)
  BY <1>3, Zenon DEF ListGrows, EntriesGrow, ListKept, EntriesKept
<1>6. Ownership(l2, t2, n + 1)
  BY <1>3, <1>4, <1>5, GrowthKeepsOwnership
<1>7. CellsExist(l2, t2, n)
  <2>1. \A i \in DOMAIN l2 : l2[i].cell <= n
    BY <1>3 DEF ListKept, Ownership, CellsExist, NoCell
  <2>2. \A s \in DOMAIN t2, b \in 1..MAX_BLOCKS, v \in 1..MAX_VAR_PER_BLOCK : EntryOf(t2, s, b, v).cell <= n
    BY <1>3 DEF EntriesKept, Ownership, CellsExist, NoCell
  <2>3. QED
    BY <2>1, <2>2 DEF CellsExist
<1>8. QED
  BY <1>2, <1>6, <1>7 DEF Ownership
-----------------------------------------------------------------------------
(* set *)

(* A step that leaves the list, the store and the toggles alone. *)
LEMMA NothingStored ==
  ASSUME IInv, UNCHANGED <<list, store, actpos, toggles>>, refused' \in BOOLEAN, refused => refused',
         at' \in {"ready", "hung", "wild", "spoilt"}, at' = "wild" => at = "wild" \/ refused',
         todo' \in [slot : 0..Len(toggles), blocks : Assignments, b : 1..(MAX_BLOCKS + 1), v : Nat \ {0}],
         todo' # Idle => todo'.slot # 0
  PROVE  IInv'
<1>1. Types'
  BY Zenon DEF IInv, Types
<1>2. Ownership(list, toggles, Len(store))' /\ TextsFit'
  BY Zenon DEF IInv, TextsFit
<1>3. ~refused' => Whole(list, toggles)'
  BY Zenon DEF IInv
<1>4. WildNeedsRefusal'
  BY Zenon DEF IInv, WildNeedsRefusal
<1>5. QED
  BY <1>1, <1>2, <1>3, <1>4, Zenon DEF IInv

LEMMA AppendVariable ==
  ASSUME Types, NEW name \in STRING, NEW c \in Nat,
         list' = Append(list, [name |-> name, cell |-> c])
  PROVE  /\ list' \in Seq(Variable_) /\ Len(list') = Len(list) + 1
         /\ DOMAIN list' = 1..(Len(list) + 1) /\ DOMAIN list = 1..Len(list) /\ Len(list) \in Nat
         /\ list'[Len(list) + 1].cell = c
         /\ \A i \in 1..Len(list) : list'[i] = list[i]
<1>1. PICK x, l2 : x = [name |-> name, cell |-> c] /\ l2 = list'
  BY Zenon
<1>2. x \in Variable_ /\ x.cell = c
  BY <1>1 DEF Variable_
<1>3. list \in Seq(Variable_) /\ l2 = Append(list, x)
  BY <1>1 DEF Types
<1>4. /\ l2 \in Seq(Variable_) /\ Len(l2) = Len(list) + 1 /\ DOMAIN l2 = 1..(Len(list) + 1)
      /\ DOMAIN list = 1..Len(list) /\ Len(list) \in Nat
      /\ l2[Len(list) + 1] = x /\ \A i \in 1..Len(list) : l2[i] = list[i]
  BY <1>2, <1>3, AppendProperties
<1>5. QED
  BY <1>1, <1>2, <1>4

LEMMA AppendedGrows ==
  ASSUME Types, NEW name \in STRING, NEW c \in Nat,
         list' = Append(list, [name |-> name, cell |-> c])
  PROVE  ListGrows(list, list', Len(list) + 1, c) /\ (c = NoCell => ListKept(list, list'))
<1>1. /\ DOMAIN list' = 1..(Len(list) + 1) /\ DOMAIN list = 1..Len(list) /\ Len(list) \in Nat
      /\ list'[Len(list) + 1].cell = c
      /\ \A i \in 1..Len(list) : list'[i] = list[i]
  BY AppendVariable
<1>2. \A i \in DOMAIN list' : i = Len(list) + 1 \/ (i \in DOMAIN list /\ list'[i] = list[i])
  BY <1>1
<1>3. QED
  BY <1>1, <1>2, Zenon DEF ListGrows, ListKept

LEMMA EntriesSame == \A t, s0, b0, v0, k, new : EntriesKept(t, t) /\ EntriesGrow(t, t, s0, b0, v0, k, new)
BY DEF EntriesKept, EntriesGrow

LEMMA NewVariableKeeps ==
  ASSUME IInv, NEW name, NEW text \in Seq(Letters), NewVariable(name, text)
  PROVE  IInv'
<1>1. /\ Types /\ TextsFit /\ Len(store) \in Nat /\ Length(text) \in Nat /\ refused \in BOOLEAN
      /\ actpos \in Nat /\ VARIABLE_STORE_SIZE \in Nat /\ Len(list) \in Nat /\ VARIABLES_MAX \in Nat
  BY CellularHolds, LengthType, SizesAssumption DEF IInv, Types
<1>2. /\ name \in Sane /\ name \in STRING /\ Width[name] \in Nat /\ Len(list) < VARIABLES_MAX
      /\ actpos + (0 + Width[name] + 1) <= VARIABLE_STORE_SIZE
  BY TextAssumption DEF NewVariable, Addable, Fits
<1>3. UNCHANGED <<at, toggles, todo>>
  BY DEF NewVariable
<1>4. CASE Fits(Width[name] + Length(text) + 2)
  <2>1. /\ list' = Append(list, [name |-> name, cell |-> Len(store) + 1])
        /\ store' = Append(store, Cell(text))
        /\ actpos' = actpos + Width[name] + Length(text) + 2
        /\ refused' = refused
    BY <1>4 DEF NewVariable
  <2>2. Len(store) + 1 \in Nat /\ Len(store) + 1 # NoCell
    BY <1>1 DEF NoCell
  <2>3. /\ list' \in Seq(Variable_) /\ Len(list') = Len(list) + 1
        /\ DOMAIN list' = 1..(Len(list) + 1) /\ DOMAIN list = 1..Len(list)
        /\ list'[Len(list) + 1].cell = Len(store) + 1
        /\ \A i \in 1..Len(list) : list'[i] = list[i]
    BY <1>1, <1>2, <2>1, <2>2, AppendVariable
  <2>4. store' \in Seq(Cell_) /\ Len(store') = Len(store) + 1 /\ TextsFit'
    BY <1>1, <2>1, StoreAppend
  <2>5. actpos' \in 0..VARIABLE_STORE_SIZE /\ Len(list') <= VARIABLES_MAX
    <3>1. actpos + (Width[name] + Length(text) + 2) <= VARIABLE_STORE_SIZE
      BY <1>4 DEF Fits
    <3>2. PICK p, w, n : p = actpos /\ w = Width[name] /\ n = Length(text)
      BY Zenon
    <3>3. p \in Nat /\ w \in Nat /\ n \in Nat /\ p + (w + n + 2) <= VARIABLE_STORE_SIZE
      BY <1>1, <1>2, <3>1, <3>2
    <3>4. p + w + n + 2 \in 0..VARIABLE_STORE_SIZE
      BY <1>1, <3>3
    <3>5. Len(list) + 1 <= VARIABLES_MAX
      BY <1>1, <1>2
    <3>6. QED
      BY <2>1, <2>3, <3>2, <3>4, <3>5
  <2>6. Types'
    BY <1>1, <1>3, <2>3, <2>4, <2>5, Zenon DEF Types
  <2>7. ListGrows(list, list', Len(list) + 1, Len(store) + 1)
    BY <1>1, <1>2, <2>1, <2>2, AppendedGrows
  <2>8. Ownership(list', toggles, Len(store) + 1)
    <3>1. PICK l2, k, t2 : l2 = list' /\ k = Len(list) + 1 /\ t2 = toggles
      BY Zenon
    <3>2. ListGrows(list, l2, k, Len(store) + 1) /\ EntriesGrow(toggles, t2, 0, 0, 0, k, Len(store) + 1)
      BY <2>7, <3>1, EntriesSame
    <3>3. Ownership(l2, t2, Len(store) + 1)
      BY <2>4, <3>2, OwnershipGrows
    <3>4. QED
      BY <3>1, <3>3
  <2>9. Whole(list, toggles) => Whole(list', toggles)
    BY <1>1, <2>2, <2>3 DEF Whole
  <2>10. QED
    BY <1>1, <1>3, <2>1, <2>4, <2>6, <2>8, <2>9, Zenon DEF IInv, WildNeedsRefusal
<1>5. CASE ~Fits(Width[name] + Length(text) + 2)
  <2>1. /\ list' = Append(list, [name |-> name, cell |-> NoCell])
        /\ actpos' = actpos + Width[name] + 1
        /\ refused' = TRUE /\ store' = store
    BY <1>5 DEF NewVariable
  <2>2. NoCell \in Nat
    BY DEF NoCell
  <2>3. list' \in Seq(Variable_) /\ Len(list') = Len(list) + 1
    BY <1>1, <1>2, <2>1, <2>2, AppendVariable
  <2>4. actpos' \in 0..VARIABLE_STORE_SIZE /\ Len(list') <= VARIABLES_MAX
    BY <1>1, <1>2, <2>1, <2>3, SMTT(30)
  <2>5. Types'
    BY <1>1, <1>3, <2>1, <2>3, <2>4, Zenon DEF Types
  <2>6. ListKept(list, list')
    BY <1>1, <1>2, <2>1, <2>2, AppendedGrows
  <2>7. Ownership(list', toggles, Len(store))
    <3>1. PICK l2, t2 : l2 = list' /\ t2 = toggles
      BY Zenon
    <3>2. ListKept(list, l2) /\ EntriesKept(toggles, t2)
      BY <2>6, <3>1, EntriesSame
    <3>3. Ownership(l2, t2, Len(store))
      BY <3>2, OwnershipStays
    <3>4. QED
      BY <3>1, <3>3
  <2>8. TextsFit'
    BY <1>1, <2>1 DEF TextsFit
  <2>9. QED
    BY <1>3, <2>1, <2>5, <2>7, <2>8, Zenon DEF IInv, WildNeedsRefusal
<1>6. QED
  BY <1>4, <1>5

(* A shorter text is written where the longer one was. *)
LEMMA InPlaceKeeps ==
  ASSUME IInv, NEW i \in DOMAIN list, NEW text \in Seq(Letters), InPlace(i, text)
  PROVE  IInv'
<1>1. /\ Types /\ TextsFit /\ store \in Seq(Cell_) /\ CellsExist(list, toggles, Len(store))
      /\ list \in Seq(Variable_) /\ Len(store) \in Nat /\ DOMAIN store = 1..Len(store)
  BY DEF IInv, Types, Ownership
<1>2. PICK c : c = list[i].cell
  BY Zenon
<1>3. /\ c # NoCell /\ Length(store[c].text) >= Length(text)
      /\ store' = [store EXCEPT ![c].text = text]
      /\ UNCHANGED <<at, list, actpos, toggles, todo, refused>>
  BY <1>2, Zenon DEF InPlace, Shorter
<1>4. c \in DOMAIN store
  <2>1. list[i] \in Variable_
    BY <1>1
  <2>2. c \in Nat
    BY <1>2, <2>1 DEF Variable_
  <2>3. c <= Len(store)
    BY <1>1, <1>2 DEF CellsExist
  <2>4. QED
    BY <1>1, <1>3, <2>2, <2>3 DEF NoCell
<1>5. PICK st : st = store'
  BY Zenon
<1>6. store[c] \in Cell_ /\ [store[c] EXCEPT !.text = text] \in Cell_
  <2>1. store[c] \in Cell_
    BY <1>1, <1>4
  <2>2. QED
    BY <2>1 DEF Cell_
<1>7. /\ DOMAIN st = DOMAIN store /\ st[c] = [store[c] EXCEPT !.text = text]
      /\ \A d \in DOMAIN store : d # c => st[d] = store[d]
  BY <1>3, <1>4, <1>5, <1>1
<1>8. st \in Seq(Cell_) /\ Len(st) = Len(store)
  <2>1. \A d \in 1..Len(store) : st[d] \in Cell_
    BY <1>1, <1>6, <1>7
  <2>2. st = [d \in 1..Len(store) |-> st[d]]
    BY <1>1, <1>3, <1>5
  <2>3. QED
    BY <1>1, <2>1, <2>2
<1>9. Types'
  BY <1>1, <1>3, <1>5, <1>8, Zenon DEF Types
<1>10. ASSUME NEW d \in DOMAIN st PROVE Length(st[d].text) <= st[d].room
  <2>1. Length(store[d].text) <= store[d].room
    BY <1>1, <1>7 DEF TextsFit
  <2>2. CASE d # c
    BY <1>7, <2>1, <2>2
  <2>3. CASE d = c
    <3>1. st[d].text = text /\ st[d].room = store[d].room
      BY <1>6, <1>7, <2>3 DEF Cell_
    <3>2. Length(text) \in Nat /\ Length(store[d].text) \in Nat /\ store[d].room \in Nat
      BY <1>6, <2>3, LengthType DEF Cell_
    <3>3. Length(text) <= store[d].room
      BY <1>3, <2>1, <2>3, <3>2
    <3>4. QED
      BY <3>1, <3>3
  <2>4. QED
    BY <2>2, <2>3
<1>11. TextsFit'
  BY <1>5, <1>10, Zenon DEF TextsFit
<1>12. Ownership(list, toggles, Len(store))'
  BY <1>3, <1>5, <1>8, Zenon DEF IInv
<1>13. QED
  BY <1>3, <1>9, <1>11, <1>12, Zenon DEF IInv, WildNeedsRefusal

LEMMA PutCell ==
  ASSUME Types, NEW i \in DOMAIN list, NEW c \in Nat, list' = [list EXCEPT ![i].cell = c]
  PROVE  /\ list' \in Seq(Variable_) /\ Len(list') = Len(list) /\ DOMAIN list' = DOMAIN list
         /\ list'[i].cell = c
         /\ \A j \in DOMAIN list : j # i => list'[j] = list[j]
         /\ ListGrows(list, list', i, c)
<1>1. list \in Seq(Variable_) /\ DOMAIN list = 1..Len(list) /\ Len(list) \in Nat
  BY DEF Types
<1>2. PICK l2 : l2 = list'
  BY Zenon
<1>3. list[i] \in Variable_
  BY <1>1
<1>4. [list[i] EXCEPT !.cell = c] \in Variable_ /\ [list[i] EXCEPT !.cell = c].cell = c
  BY <1>3 DEF Variable_
<1>5. /\ DOMAIN l2 = DOMAIN list /\ l2[i] = [list[i] EXCEPT !.cell = c]
      /\ \A j \in DOMAIN list : j # i => l2[j] = list[j]
  BY <1>1, <1>2
<1>6. l2 \in Seq(Variable_) /\ Len(l2) = Len(list)
  <2>1. \A j \in 1..Len(list) : l2[j] \in Variable_
    BY <1>1, <1>4, <1>5
  <2>2. l2 = [j \in 1..Len(list) |-> l2[j]]
    BY <1>1, <1>2
  <2>3. QED
    BY <1>1, <2>1, <2>2
<1>7. ListGrows(list, l2, i, c)
  BY <1>4, <1>5 DEF ListGrows
<1>8. QED
  BY <1>2, <1>4, <1>5, <1>6, <1>7

(* A longer text is put behind the others. *)
LEMMA ElsewhereKeeps ==
  ASSUME IInv, NEW i \in DOMAIN list, NEW text \in Seq(Letters), Elsewhere(i, text)
  PROVE  IInv'
<1>1. /\ Types /\ TextsFit /\ Len(store) \in Nat /\ Length(text) \in Nat
      /\ actpos \in Nat /\ VARIABLE_STORE_SIZE \in Nat
  BY CellularHolds, LengthType, SizesAssumption DEF IInv, Types
<1>2. /\ store' = Append(store, Cell(text))
      /\ list' = [list EXCEPT ![i].cell = Len(store) + 1]
      /\ actpos' = actpos + Length(text) + 1 /\ actpos + (Length(text) + 1) <= VARIABLE_STORE_SIZE
      /\ UNCHANGED <<at, toggles, todo, refused>>
  BY DEF Elsewhere, Fits
<1>3. Len(store) + 1 \in Nat /\ Len(store) + 1 # NoCell
  BY <1>1 DEF NoCell
<1>4. /\ list' \in Seq(Variable_) /\ Len(list') = Len(list) /\ DOMAIN list' = DOMAIN list
      /\ list'[i].cell = Len(store) + 1
      /\ \A j \in DOMAIN list : j # i => list'[j] = list[j]
      /\ ListGrows(list, list', i, Len(store) + 1)
  BY <1>1, <1>2, <1>3, PutCell
<1>5. store' \in Seq(Cell_) /\ Len(store') = Len(store) + 1 /\ TextsFit'
  BY <1>1, <1>2, StoreAppend
<1>6. actpos' \in 0..VARIABLE_STORE_SIZE
  BY <1>1, <1>2
<1>7. Types'
  BY <1>1, <1>2, <1>4, <1>5, <1>6, Zenon DEF Types
<1>8. Ownership(list', toggles, Len(store) + 1)
  <2>1. PICK l2, t2 : l2 = list' /\ t2 = toggles
    BY Zenon
  <2>2. ListGrows(list, l2, i, Len(store) + 1) /\ EntriesGrow(toggles, t2, 0, 0, 0, i, Len(store) + 1)
    BY <1>4, <2>1, EntriesSame
  <2>3. Ownership(l2, t2, Len(store) + 1)
    BY <1>5, <2>2, OwnershipGrows
  <2>4. QED
    BY <2>1, <2>3
<1>9. Whole(list, toggles) => Whole(list', toggles)
  BY <1>3, <1>4 DEF Whole
<1>10. QED
  BY <1>2, <1>5, <1>7, <1>8, <1>9, Zenon DEF IInv, WildNeedsRefusal

LEMMA TodoStays == Types => /\ todo \in [slot : 0..Len(toggles), blocks : Assignments, b : 1..(MAX_BLOCKS + 1), v : Nat \ {0}]
                            /\ todo # Idle => todo.slot # 0
BY Zenon DEF Types

LEMMA ToNullKeeps ==
  ASSUME IInv, NEW i \in DOMAIN list, ToNull(i)
  PROVE  IInv'
<1>1. refused
  BY Zenon DEF IInv, ToNull, Whole
<1>2. UNCHANGED <<list, store, actpos, toggles, todo, refused>> /\ at' = "wild" /\ refused \in BOOLEAN
  BY DEF ToNull, IInv
<1>3. QED
  BY <1>1, <1>2, NothingStored, TodoStays, Zenon DEF IInv

LEMMA set_funcKeeps ==
  ASSUME IInv, NEW l \in SetLines, set_func(l)
  PROVE  IInv'
<1>1. l.name \in STRING /\ l.text \in Seq(Letters)
  BY LinesAssumption
<1>2. Types /\ CellsExist(list, toggles, Len(store)) /\ refused \in BOOLEAN
  BY DEF IInv, Ownership
<1>3. PICK text : text = IF l.parse THEN var_sprint(l.text) ELSE l.text
  BY Zenon
<1>4. text \in Seq(Letters) \cup {Overrun}
  BY <1>1, <1>2, <1>3, SprintType
<1>5. (IF text = Overrun THEN Hang ELSE var_set(l.name, text)) \/ Spoil
  BY <1>3, Zenon DEF set_func
<1>6. CASE Hang \/ Spoil
  <2>1. UNCHANGED <<list, store, actpos, toggles, todo, refused>> /\ at' \in {"hung", "spoilt"}
    BY <1>6 DEF Hang, Spoil
  <2>2. at' \in {"ready", "hung", "wild", "spoilt"} /\ at' # "wild"
    BY <2>1
  <2>3. QED
    BY <1>2, <2>1, <2>2, NothingStored, TodoStays, Zenon
<1>7. CASE text # Overrun /\ ~Spoil
  <2>1. text \in Seq(Letters) /\ var_set(l.name, text)
    BY <1>4, <1>5, <1>7
  <2>2. Index(l.name) # 0 => Index(l.name) \in DOMAIN list
    BY <1>2, IndexType
  <2>3. CASE NewVariable(l.name, text)
    BY <2>1, <2>3, NewVariableKeeps
  <2>4. CASE /\ Index(l.name) # 0
             /\ \/ InPlace(Index(l.name), text)
                \/ Elsewhere(Index(l.name), text)
                \/ ToNull(Index(l.name))
    <3>1. PICK i : i = Index(l.name)
      BY Zenon
    <3>2. i \in DOMAIN list /\ (InPlace(i, text) \/ Elsewhere(i, text) \/ ToNull(i))
      BY <2>2, <2>4, <3>1
    <3>3. QED
      BY <2>1, <3>2, InPlaceKeeps, ElsewhereKeeps, ToNullKeeps
  <2>5. CASE SetRefused(l.name, text)
    <3>1. UNCHANGED <<at, list, store, actpos, toggles, todo>> /\ refused' = TRUE
      BY <2>5 DEF SetRefused, Refuse
    <3>2. at' \in {"ready", "hung", "wild", "spoilt"}
      BY <1>2, <3>1, Zenon DEF Types
    <3>3. QED
      BY <1>2, <3>1, <3>2, NothingStored, TodoStays, Zenon
  <2>6. QED
    BY <2>1, <2>3, <2>4, <2>5, Zenon DEF var_set
<1>8. QED
  BY <1>5, <1>6, <1>7, Zenon
-----------------------------------------------------------------------------
(* Giving a block's values to its variables *)

LEMMA GreatestNumber ==
  ASSUME NEW n \in Nat, NEW T, T \subseteq 1..n, T # {}
  PROVE  \E x \in T : \A y \in T : y <= x
<1> DEFINE D == {n - x : x \in T}
<1>1. D \subseteq Nat /\ D # {}
  <2>1. \A x \in T : n - x \in Nat
    OBVIOUS
  <2>2. D \subseteq Nat
    BY <2>1
  <2>3. PICK x \in T : TRUE
    OBVIOUS
  <2>4. n - x \in D
    BY <2>3
  <2>5. QED
    BY <2>2, <2>4
<1>2. PICK d \in D : \A e \in D : d <= e
  <2> HIDE DEF D
  <2> QED BY <1>1, LeastNumber
<1>3. PICK x \in T : d = n - x
  BY <1>2
<1>4. \A y \in T : n - x <= n - y
  BY <1>2, <1>3
<1>5. \A y \in T : y <= x
  BY <1>4
<1>6. QED
  BY <1>5

SameEntries(t, t2) ==
  /\ DOMAIN t2 = DOMAIN t
  /\ \A s \in DOMAIN t, b \in 1..MAX_BLOCKS, v \in 1..MAX_VAR_PER_BLOCK :
       EntryOf(t2, s, b, v) = EntryOf(t, s, b, v)

(* A text without a variable in the block. *)
HasLost(t, s, b) ==
  \E v \in 1..MAX_VAR_PER_BLOCK : EntryOf(t, s, b, v).var = 0 /\ EntryOf(t, s, b, v).cell # NoCell

LEMMA BlockFacts ==
  ASSUME Types, NEW t \in Seq(Toggle_), NEW s \in DOMAIN t, NEW b \in 1..MAX_BLOCKS,
         toggle_do_block(t, s, b)
  PROVE  /\ list' \in Seq(Variable_) /\ Len(list') = Len(list)
         /\ ListTakes(list, t, list', s, b)
         /\ at' = at \/ (at' = "wild" /\ HasLost(t, s, b))
<1> DEFINE e == Entries(t, s, b)
           Of(i) == {v \in DOMAIN e : e[v].var = i /\ e[v].cell # NoCell}
           LastOf(i) == CHOOSE v \in Of(i) : \A w \in Of(i) : w <= v
<1>1. list \in Seq(Variable_) /\ DOMAIN list = 1..Len(list) /\ Len(list) \in Nat
  BY DEF Types
<1>2. t[s].block[b].nr_vars \in 0..MAX_VAR_PER_BLOCK /\ MAX_VAR_PER_BLOCK \in Nat
  <2>1. t[s].block[b] \in Block_
    BY EntryType
  <2>2. QED
    BY <2>1, SizesAssumption DEF Block_
<1>3. /\ DOMAIN e = 1..t[s].block[b].nr_vars
      /\ \A v \in DOMAIN e : v \in 1..MAX_VAR_PER_BLOCK /\ e[v] = EntryOf(t, s, b, v)
  BY <1>2 DEF Entries, EntryOf
<1>4. \A v \in DOMAIN e : e[v] \in Entry_
  BY <1>3, EntryType
<1>5. CASE Lost(t, s, b)
  <2>1. at' = "wild" /\ list' = list
    BY <1>5, Zenon DEF toggle_do_block
  <2>2. HasLost(t, s, b)
    BY <1>3, <1>5, Zenon DEF Lost, HasLost
  <2>3. ListTakes(list, t, list', s, b)
    BY <2>1, Zenon DEF ListTakes
  <2>4. QED
    BY <1>1, <2>1, <2>2, <2>3
<1>6. CASE ~Lost(t, s, b)
  <2>1. /\ list' = [i \in DOMAIN list |->
                      IF Of(i) = {} THEN list[i] ELSE [list[i] EXCEPT !.cell = e[LastOf(i)].cell]]
        /\ at' = at
    BY <1>6, Zenon DEF toggle_do_block
  <2>2. ASSUME NEW i, Of(i) # {}
        PROVE  LastOf(i) \in DOMAIN e /\ e[LastOf(i)].var = i /\ e[LastOf(i)].cell # NoCell
    <3>1. PICK T : T = Of(i)
      BY Zenon
    <3>2. T \subseteq 1..MAX_VAR_PER_BLOCK /\ T # {}
      BY <1>3, <2>2, <3>1
    <3>3. \E x \in T : \A y \in T : y <= x
      BY <1>2, <3>2, GreatestNumber
    <3>4. LastOf(i) \in Of(i)
      BY <3>1, <3>3, Zenon
    <3>5. QED
      BY <3>4, Zenon
  <2> DEFINE f(i) == IF Of(i) = {} THEN list[i] ELSE [list[i] EXCEPT !.cell = e[LastOf(i)].cell]
  <2>3. ASSUME NEW i \in DOMAIN list
        PROVE  /\ f(i) \in Variable_
               /\ \/ f(i).cell = list[i].cell
                  \/ \E v \in 1..MAX_VAR_PER_BLOCK :
                        /\ EntryOf(t, s, b, v).var = i /\ EntryOf(t, s, b, v).cell # NoCell
                        /\ f(i).cell = EntryOf(t, s, b, v).cell
    <3>1. list[i] \in Variable_
      BY <1>1
    <3>2. CASE Of(i) = {}
      BY <3>1, <3>2
    <3>3. CASE Of(i) # {}
      <4>1. PICK w : w = LastOf(i)
        BY Zenon
      <4>2. w \in DOMAIN e /\ e[w].var = i /\ e[w].cell # NoCell
        BY <2>2, <3>3, <4>1, Zenon
      <4>3. f(i) = [list[i] EXCEPT !.cell = e[w].cell]
        BY <3>3, <4>1, Zenon
      <4>4. e[w] \in Entry_ /\ w \in 1..MAX_VAR_PER_BLOCK /\ e[w] = EntryOf(t, s, b, w)
        BY <1>3, <1>4, <4>2, Zenon
      <4>5. PICK x : x = e[w].cell
        BY Zenon
      <4>6. x \in Nat
        BY <4>4, <4>5 DEF Entry_
      <4>7. [list[i] EXCEPT !.cell = x] \in Variable_ /\ [list[i] EXCEPT !.cell = x].cell = x
        BY <3>1, <4>6 DEF Variable_
      <4>8. f(i) \in Variable_ /\ f(i).cell = x
        BY <4>3, <4>5, <4>7, Zenon
      <4>9. QED
        BY <4>2, <4>4, <4>5, <4>8, Zenon
    <3>4. QED
      BY <3>2, <3>3
  <2>4. list' = [i \in DOMAIN list |-> f(i)]
    BY <2>1, Zenon
  <2> HIDE DEF f
  <2>5. DOMAIN list' = DOMAIN list /\ \A i \in DOMAIN list : list'[i] = f(i)
    BY <2>4, Zenon
  <2>6. list' \in Seq(Variable_) /\ Len(list') = Len(list)
    BY <1>1, <2>3, <2>4
  <2>7. ListTakes(list, t, list', s, b)
    <3>1. ASSUME NEW i \in DOMAIN list
          PROVE  \/ list'[i].cell = list[i].cell
                 \/ \E v \in 1..MAX_VAR_PER_BLOCK :
                      /\ EntryOf(t, s, b, v).var = i /\ EntryOf(t, s, b, v).cell # NoCell
                      /\ list'[i].cell = EntryOf(t, s, b, v).cell
      <4>1. PICK x : x = f(i)
        BY Zenon
      <4>2. list'[i] = x
        BY <2>5, <4>1
      <4>3. \/ x.cell = list[i].cell
            \/ \E v \in 1..MAX_VAR_PER_BLOCK :
                 /\ EntryOf(t, s, b, v).var = i /\ EntryOf(t, s, b, v).cell # NoCell
                 /\ x.cell = EntryOf(t, s, b, v).cell
        BY <2>3, <4>1
      <4>4. QED
        BY <4>2, <4>3
    <3>2. QED
      BY <2>5, <3>1, Zenon DEF ListTakes
  <2>8. QED
    BY <2>1, <2>6, <2>7
<1>7. QED
  BY <1>5, <1>6

(* The steps that do that: the entries of the toggles stay.                *)
LEMMA BlockKeeps ==
  ASSUME IInv, UNCHANGED <<store, actpos, refused>>,
         toggles' \in Seq(Toggle_), Len(toggles') = Len(toggles), SameEntries(toggles, toggles'),
         todo' \in [slot : 0..Len(toggles), blocks : Assignments, b : 1..(MAX_BLOCKS + 1), v : Nat \ {0}],
         todo' # Idle => todo'.slot # 0,
         NEW t \in Seq(Toggle_), SameEntries(toggles, t),
         \/ UNCHANGED <<at, list>>
         \/ \E s \in DOMAIN toggles, b \in 1..MAX_BLOCKS : toggle_do_block(t, s, b)
  PROVE  IInv'
<1>1. /\ Types /\ Ownership(list, toggles, Len(store)) /\ refused \in BOOLEAN /\ TextsFit
      /\ list \in Seq(Variable_) /\ Len(list) <= VARIABLES_MAX /\ Len(store) \in Nat
      /\ DOMAIN list = 1..Len(list) /\ Len(list) \in Nat /\ at \in {"ready", "hung", "wild", "spoilt"}
  BY DEF IInv, Types
<1>2. /\ DOMAIN t = DOMAIN toggles
      /\ \A s \in DOMAIN toggles, b \in 1..MAX_BLOCKS, v \in 1..MAX_VAR_PER_BLOCK :
           EntryOf(t, s, b, v) = EntryOf(toggles, s, b, v)
  BY DEF SameEntries
<1>3. /\ list' \in Seq(Variable_) /\ Len(list') = Len(list)
      /\ Ownership(list', toggles, Len(store))
      /\ at' \in {"ready", "hung", "wild", "spoilt"} /\ (at' = "wild" => at = "wild" \/ refused)
      /\ Whole(list, toggles) => Whole(list', toggles)
  <2>1. CASE UNCHANGED <<at, list>>
    BY <1>1, <2>1, Zenon
  <2>2. CASE \E s \in DOMAIN toggles, b \in 1..MAX_BLOCKS : toggle_do_block(t, s, b)
    <3>1. PICK s \in DOMAIN toggles, b \in 1..MAX_BLOCKS : toggle_do_block(t, s, b)
      BY <2>2
    <3>2. s \in DOMAIN t
      BY <1>2
    <3>3. /\ list' \in Seq(Variable_) /\ Len(list') = Len(list)
          /\ ListTakes(list, t, list', s, b)
          /\ at' = at \/ (at' = "wild" /\ HasLost(t, s, b))
      BY <1>1, <3>1, <3>2, BlockFacts
    <3>4. ListTakes(list, toggles, list', s, b)
      <4>1. ASSUME NEW i \in DOMAIN list
            PROVE  \/ list'[i].cell = list[i].cell
                   \/ \E v \in 1..MAX_VAR_PER_BLOCK :
                        /\ EntryOf(toggles, s, b, v).var = i /\ EntryOf(toggles, s, b, v).cell # NoCell
                        /\ list'[i].cell = EntryOf(toggles, s, b, v).cell
        <5>1. \/ list'[i].cell = list[i].cell
              \/ \E v \in 1..MAX_VAR_PER_BLOCK :
                   /\ EntryOf(t, s, b, v).var = i /\ EntryOf(t, s, b, v).cell # NoCell
                   /\ list'[i].cell = EntryOf(t, s, b, v).cell
          BY <3>3, Zenon DEF ListTakes
        <5>2. \A v \in 1..MAX_VAR_PER_BLOCK : EntryOf(t, s, b, v) = EntryOf(toggles, s, b, v)
          BY <1>2, Zenon
        <5>3. QED
          BY <5>1, <5>2
      <4>2. DOMAIN list' = DOMAIN list
        BY <3>3, Zenon DEF ListTakes
      <4>3. QED
        BY <4>1, <4>2, Zenon DEF ListTakes
    <3>5. Ownership(list', toggles, Len(store))
      <4>1. PICK l, l2, u, n : l = list /\ l2 = list' /\ u = toggles /\ n = Len(store)
        BY Zenon
      <4>2. 0 \notin DOMAIN l
        BY <1>1, <4>1
      <4>3. Ownership(l, u, n) /\ n \in Nat /\ s \in DOMAIN u /\ ListTakes(l, u, l2, s, b)
        BY <1>1, <3>4, <4>1
      <4>4. Ownership(l2, u, n)
        BY <4>2, <4>3, BlockKeepsOwnership
      <4>5. QED
        BY <4>1, <4>4
    <3>6. HasLost(t, s, b) => refused
      <4>1. HasLost(t, s, b) => HasLost(toggles, s, b)
        BY <1>2, Zenon DEF HasLost
      <4>2. HasLost(toggles, s, b) => ~Whole(list, toggles)
        BY Zenon DEF HasLost, Whole
      <4>3. QED
        BY <4>1, <4>2 DEF IInv
    <3>7. Whole(list, toggles) => Whole(list', toggles)
      BY <3>4 DEF Whole, ListTakes
    <3>8. QED
      BY <1>1, <3>3, <3>5, <3>6, <3>7, Zenon
  <2>3. QED
    BY <2>1, <2>2
<1>4. Types'
  BY <1>1, <1>3, Zenon DEF Types
<1>5. Ownership(list', toggles', Len(store))
  <2>1. PICK l2, t2, u : l2 = list' /\ t2 = toggles' /\ u = toggles
    BY Zenon
  <2>2. Ownership(l2, u, Len(store)) /\ SameEntries(u, t2)
    BY <1>3, <2>1
  <2>3. CellsExist(l2, t2, Len(store))
    BY <2>2 DEF Ownership, CellsExist, SameEntries
  <2>4. EntriesApart(t2)
    BY <2>2 DEF Ownership, EntriesApart, SameEntries
  <2>5. EntriesOwn(l2, t2)
    BY <2>2 DEF Ownership, EntriesOwn, SameEntries
  <2>6. QED
    BY <2>1, <2>2, <2>3, <2>4, <2>5 DEF Ownership
<1>6. Whole(list', toggles) => Whole(list', toggles')
  BY DEF Whole, SameEntries
<1>7. TextsFit'
  BY <1>1, Zenon DEF TextsFit
<1>8. QED
  BY <1>1, <1>3, <1>4, <1>5, <1>6, <1>7, Zenon DEF IInv, WildNeedsRefusal

LEMMA PutToggle ==
  ASSUME Types, NEW s \in DOMAIN toggles, NEW x \in Toggle_, NEW t2, t2 = [toggles EXCEPT ![s] = x]
  PROVE  /\ t2 \in Seq(Toggle_) /\ Len(t2) = Len(toggles) /\ DOMAIN t2 = DOMAIN toggles
         /\ t2[s] = x /\ \A r \in DOMAIN toggles : r # s => t2[r] = toggles[r]
<1>1. toggles \in Seq(Toggle_) /\ DOMAIN toggles = 1..Len(toggles) /\ Len(toggles) \in Nat
  BY DEF Types
<1>2. DOMAIN t2 = DOMAIN toggles /\ t2[s] = x /\ \A r \in DOMAIN toggles : r # s => t2[r] = toggles[r]
  BY <1>1
<1>3. \A r \in 1..Len(toggles) : t2[r] \in Toggle_
  BY <1>1, <1>2
<1>4. t2 = [r \in 1..Len(toggles) |-> t2[r]]
  BY <1>1
<1>5. QED
  BY <1>1, <1>2, <1>3, <1>4

(* A toggle's block stays with its entries when its counters change. *)
LEMMA CounterKeepsEntries ==
  ASSUME Types, NEW s \in DOMAIN toggles, NEW x \in Toggle_,
         \A b \in 1..MAX_BLOCKS : x.block[b].var = toggles[s].block[b].var,
         NEW t2, t2 = [toggles EXCEPT ![s] = x]
  PROVE  SameEntries(toggles, t2)
<1>1. /\ DOMAIN t2 = DOMAIN toggles
      /\ t2[s] = x /\ \A r \in DOMAIN toggles : r # s => t2[r] = toggles[r]
  BY PutToggle
<1>2. ASSUME NEW r \in DOMAIN toggles, NEW b \in 1..MAX_BLOCKS, NEW v \in 1..MAX_VAR_PER_BLOCK
      PROVE  EntryOf(t2, r, b, v) = EntryOf(toggles, r, b, v)
  <2>1. CASE r = s
    <3>1. t2[r].block[b].var = toggles[r].block[b].var
      BY <1>1, <2>1, Zenon
    <3>2. QED
      BY <3>1, Zenon DEF EntryOf
  <2>2. CASE r # s
    BY <1>1, <2>2, Zenon DEF EntryOf
  <2>3. QED
    BY <2>1, <2>2
<1>3. QED
  BY <1>1, <1>2, Zenon DEF SameEntries

LEMMA SetToggle ==
  ASSUME Types, NEW s \in DOMAIN toggles
  PROVE  \A y \in Toggle_ : \A u :
           y.block = toggles[s].block /\ u = [toggles EXCEPT ![s] = y]
           => u \in Seq(Toggle_) /\ Len(u) = Len(toggles) /\ SameEntries(toggles, u)
<1> SUFFICES ASSUME NEW x \in Toggle_, NEW t2, x.block = toggles[s].block, t2 = [toggles EXCEPT ![s] = x]
             PROVE  t2 \in Seq(Toggle_) /\ Len(t2) = Len(toggles) /\ SameEntries(toggles, t2)
  OBVIOUS
<1>0. toggles \in Seq(Toggle_) /\ Len(toggles) \in Nat /\ DOMAIN toggles = 1..Len(toggles)
  BY DEF Types
<1>1. t2 \in Seq(Toggle_) /\ Len(t2) = Len(toggles)
  BY <1>0, PutToggle
<1>2. \A b \in 1..MAX_BLOCKS : x.block[b].var = toggles[s].block[b].var
  BY Zenon
<1>3. SameEntries(toggles, t2)
  BY <1>2, CounterKeepsEntries
<1>4. QED
  BY <1>1, <1>3

LEMMA SetCurrent ==
  ASSUME Types, NEW s \in DOMAIN toggles, NEW n \in 0..MaxTurn, toggles' = [toggles EXCEPT ![s].current = n]
  PROVE  toggles' \in Seq(Toggle_) /\ Len(toggles') = Len(toggles) /\ SameEntries(toggles, toggles')
<1>1. PICK x, t2 : x = [toggles[s] EXCEPT !.current = n] /\ t2 = toggles'
  BY Zenon
<1>2. t2 = [toggles EXCEPT ![s] = x]
  BY <1>1, Zenon
<1>3. toggles[s] \in Toggle_
  BY EntryType DEF Types
<1>4. x \in Toggle_ /\ x.block = toggles[s].block
  BY <1>1, <1>3 DEF Toggle_
<1>5. t2 \in Seq(Toggle_) /\ Len(t2) = Len(toggles) /\ SameEntries(toggles, t2)
  <2>1. \A y \in Toggle_ : \A u :
          y.block = toggles[s].block /\ u = [toggles EXCEPT ![s] = y]
          => u \in Seq(Toggle_) /\ Len(u) = Len(toggles) /\ SameEntries(toggles, u)
    BY SetToggle
  <2>2. QED
    BY <1>2, <1>4, <2>1, Zenon
<1>6. QED
  BY <1>1, <1>5

LEMMA SameEntriesItself == \A t : SameEntries(t, t)
BY DEF SameEntries

LEMMA toggle_do_keyKeeps ==
  ASSUME IInv, NEW s \in DOMAIN toggles, toggle_do_key(s)
  PROVE  IInv'
<1>1. Types /\ toggles \in Seq(Toggle_) /\ MaxTurn \in Nat /\ MAX_BLOCKS \in Nat
  BY SizesAssumption DEF IInv, Types
<1>2. toggles[s].current \in 0..MaxTurn /\ toggles[s].nr_blocks \in 0..MAX_BLOCKS
  <2>1. toggles[s] \in Toggle_
    BY <1>1, EntryType
  <2>2. QED
    BY <2>1 DEF Toggle_
<1>3. PICK next : next = IF toggles[s].current + 1 = toggles[s].nr_blocks THEN 0 ELSE toggles[s].current + 1
  BY Zenon
<1>4. /\ next <= MaxTurn /\ toggles' = [toggles EXCEPT ![s].current = next]
      /\ IF next < toggles[s].nr_blocks THEN toggle_do_block(toggles, s, next + 1)
                                        ELSE UNCHANGED <<at, list>>
      /\ UNCHANGED <<store, actpos, todo, refused>>
  BY <1>3, Zenon DEF toggle_do_key
<1>5. next \in 0..MaxTurn /\ next \in Nat
  BY <1>1, <1>2, <1>3, <1>4
<1>6. toggles' \in Seq(Toggle_) /\ Len(toggles') = Len(toggles) /\ SameEntries(toggles, toggles')
  BY <1>1, <1>4, <1>5, SetCurrent
<1>7. \/ UNCHANGED <<at, list>>
      \/ \E r \in DOMAIN toggles, b \in 1..MAX_BLOCKS : toggle_do_block(toggles, r, b)
  <2>1. CASE next < toggles[s].nr_blocks
    <3>1. next + 1 \in 1..MAX_BLOCKS
      BY <1>1, <1>2, <1>5, <2>1
    <3>2. QED
      BY <1>4, <2>1, <3>1, Zenon
  <2>2. CASE ~(next < toggles[s].nr_blocks)
    BY <1>4, <2>2, Zenon
  <2>3. QED
    BY <2>1, <2>2
<1>8. QED
  <2>1. PICK t : t = toggles
    BY Zenon
  <2>2. /\ t \in Seq(Toggle_) /\ SameEntries(toggles, t)
        /\ \/ UNCHANGED <<at, list>>
           \/ \E r \in DOMAIN toggles, b \in 1..MAX_BLOCKS : toggle_do_block(t, r, b)
    BY <1>1, <1>7, <2>1, SameEntriesItself, Zenon
  <2>3. /\ UNCHANGED <<store, actpos, refused>>
        /\ todo' \in [slot : 0..Len(toggles), blocks : Assignments, b : 1..(MAX_BLOCKS + 1), v : Nat \ {0}]
        /\ todo' # Idle => todo'.slot # 0
    BY <1>1, <1>4, TodoStays, Zenon
  <2>4. QED
    BY <1>6, <2>2, <2>3, BlockKeeps, Zenon

LEMMA ToggleSelectKeeps ==
  ASSUME IInv, NEW s \in DOMAIN toggles, NEW b \in 0..MAX_BLOCKS, ToggleSelect(s, b)
  PROVE  IInv'
<1>1. Types /\ toggles \in Seq(Toggle_) /\ MaxTurn \in Nat /\ MAX_BLOCKS \in Nat /\ MAX_BLOCKS <= MaxTurn + 1
  BY SizesAssumption DEF IInv, Types
<1>2. toggles[s].nr_blocks \in 0..MAX_BLOCKS
  <2>1. toggles[s] \in Toggle_
    BY <1>1, EntryType
  <2>2. QED
    BY <2>1 DEF Toggle_
<1>3. /\ b < toggles[s].nr_blocks /\ toggles' = [toggles EXCEPT ![s].current = b]
      /\ toggle_do_block(toggles, s, b + 1)
      /\ UNCHANGED <<store, actpos, todo, refused>>
  BY Zenon DEF ToggleSelect
<1>4. b + 1 \in 1..MAX_BLOCKS /\ b \in 0..MaxTurn
  BY <1>1, <1>2, <1>3
<1>5. toggles' \in Seq(Toggle_) /\ Len(toggles') = Len(toggles) /\ SameEntries(toggles, toggles')
  BY <1>1, <1>3, <1>4, SetCurrent
<1>6. PICK t : t = toggles
  BY Zenon
<1>7. /\ t \in Seq(Toggle_) /\ SameEntries(toggles, t)
      /\ \E r \in DOMAIN toggles, c \in 1..MAX_BLOCKS : toggle_do_block(t, r, c)
  BY <1>1, <1>3, <1>4, <1>6, SameEntriesItself, Zenon
<1>8. /\ UNCHANGED <<store, actpos, refused>>
      /\ todo' \in [slot : 0..Len(toggles), blocks : Assignments, b : 1..(MAX_BLOCKS + 1), v : Nat \ {0}]
      /\ todo' # Idle => todo'.slot # 0
  BY <1>1, <1>3, TodoStays, Zenon
<1>9. QED
  BY <1>5, <1>7, <1>8, BlockKeeps, Zenon
-----------------------------------------------------------------------------
(* toggle set *)

LEMMA SlotType ==
  ASSUME NEW key, Slot(key) # 0
  PROVE  Slot(key) \in DOMAIN toggles
BY Zenon DEF Slot

(* The toggles have got entries without a text, or lost none. *)
LEMMA TogglesKept ==
  ASSUME IInv, UNCHANGED <<at, list, store, actpos, refused>>,
         toggles' \in Seq(Toggle_), Len(toggles') <= TOGGLES, EntriesKept(toggles, toggles'),
         todo' \in [slot : 0..Len(toggles'), blocks : Assignments, b : 1..(MAX_BLOCKS + 1), v : Nat \ {0}],
         todo' # Idle => todo'.slot # 0
  PROVE  IInv'
<1>1. Types'
  BY Zenon DEF IInv, Types
<1>2. Ownership(list, toggles', Len(store))
  <2>1. PICK l2, t2 : l2 = list /\ t2 = toggles'
    BY Zenon
  <2>2. ListKept(list, l2) /\ EntriesKept(toggles, t2)
    BY <2>1, Zenon DEF ListKept
  <2>3. Ownership(l2, t2, Len(store))
    BY <2>2, OwnershipStays
  <2>4. QED
    BY <2>1, <2>3
<1>3. Whole(list, toggles) => Whole(list, toggles')
  BY DEF Whole, EntriesKept
<1>4. TextsFit'
  BY Zenon DEF TextsFit, IInv
<1>5. QED
  BY <1>1, <1>2, <1>3, <1>4, Zenon DEF IInv, WildNeedsRefusal

LEMMA EmptiedType ==
  ASSUME NEW x \in Toggle_
  PROVE  Emptied(x) \in Toggle_ /\ \A b \in 1..MAX_BLOCKS : Emptied(x).block[b].var = x.block[b].var
<1>1. MAX_BLOCKS \in Nat /\ MaxTurn \in Nat /\ MAX_VAR_PER_BLOCK \in Nat
  BY SizesAssumption
<1>2. PICK k : k = [b \in 1..MAX_BLOCKS |-> IF b <= MAX_VAR_PER_BLOCK THEN [x.block[b] EXCEPT !.nr_vars = 0]
                                                                    ELSE x.block[b]]
  BY Zenon
<1>3. \A b \in 1..MAX_BLOCKS : k[b] \in Block_ /\ k[b].var = x.block[b].var
  <2> SUFFICES ASSUME NEW b \in 1..MAX_BLOCKS PROVE k[b] \in Block_ /\ k[b].var = x.block[b].var
    OBVIOUS
  <2>1. x.block[b] \in Block_
    BY DEF Toggle_
  <2>2. [x.block[b] EXCEPT !.nr_vars = 0] \in Block_ /\ [x.block[b] EXCEPT !.nr_vars = 0].var = x.block[b].var
    BY <1>1, <2>1 DEF Block_
  <2>3. k[b] \in {x.block[b], [x.block[b] EXCEPT !.nr_vars = 0]}
    BY <1>2
  <2>4. QED
    BY <2>1, <2>2, <2>3
<1>4. k \in [1..MAX_BLOCKS -> Block_]
  BY <1>2, <1>3
<1>5. PICK y : y = [key |-> x.key, current |-> 0, nr_blocks |-> 0, block |-> k]
  BY Zenon
<1>6. Emptied(x) = y
  BY <1>2, <1>5, Zenon DEF Emptied
<1>7. y \in Toggle_ /\ y.block = k
  BY <1>1, <1>4, <1>5 DEF Toggle_
<1>8. QED
  BY <1>3, <1>6, <1>7

LEMMA NewToggleType ==
  ASSUME NEW key \in STRING
  PROVE  /\ NewToggle(key) \in Toggle_
         /\ \A b \in 1..MAX_BLOCKS, v \in 1..MAX_VAR_PER_BLOCK : NewToggle(key).block[b].var[v].cell = NoCell
<1>1. EmptyBlock \in Block_ /\ \A v \in 1..MAX_VAR_PER_BLOCK : EmptyBlock.var[v].cell = NoCell
  BY SizesAssumption DEF EmptyBlock, Block_, Entry_, NoCell
<1>2. QED
  BY <1>1, SizesAssumption DEF NewToggle, Toggle_

LEMMA ToggleSetKeeps ==
  ASSUME IInv, NEW l \in ToggleLines, ToggleSet(l)
  PROVE  IInv'
<1>1. /\ Types /\ toggles \in Seq(Toggle_) /\ Len(toggles) <= TOGGLES /\ Len(toggles) \in Nat
      /\ MAX_BLOCKS \in Nat \ {0} /\ TOGGLES \in Nat /\ DOMAIN toggles = 1..Len(toggles)
  BY SizesAssumption DEF IInv, Types
<1>2. l.key \in STRING /\ l.blocks \in Assignments
  BY LinesAssumption DEF Assignments
<1>3. UNCHANGED <<at, list, store, actpos, refused>>
  BY DEF ToggleSet
<1>4. ASSUME NEW s \in Nat \ {0}, todo' = Begun(s, l.blocks), NEW n \in Nat, s <= n
      PROVE  /\ todo' \in [slot : 0..n, blocks : Assignments, b : 1..(MAX_BLOCKS + 1), v : Nat \ {0}]
             /\ todo' # Idle => todo'.slot # 0
  <2>1. PICK td : td = todo'
    BY Zenon
  <2>2. td = [slot |-> s, blocks |-> l.blocks, b |-> 1, v |-> 1]
    BY <1>4, <2>1 DEF Begun
  <2>3. s \in 0..n /\ 1 \in 1..(MAX_BLOCKS + 1) /\ 1 \in Nat \ {0} /\ s # 0
    BY <1>1, <1>4
  <2>4. td \in [slot : 0..n, blocks : Assignments, b : 1..(MAX_BLOCKS + 1), v : Nat \ {0}] /\ td.slot = s
    BY <1>2, <2>2, <2>3
  <2>5. QED
    BY <2>1, <2>3, <2>4
<1>5. CASE /\ Slot(l.key) # 0
           /\ toggles' = [toggles EXCEPT ![Slot(l.key)] = Emptied(@)]
           /\ todo' = Begun(Slot(l.key), l.blocks)
  <2>1. PICK s : s = Slot(l.key)
    BY Zenon
  <2>2. s \in DOMAIN toggles
    BY <1>5, <2>1, SlotType
  <2>3. toggles[s] \in Toggle_
    BY <1>1, <2>2
  <2>4. PICK x, t2 : x = Emptied(toggles[s]) /\ t2 = toggles'
    BY Zenon
  <2>5. x \in Toggle_ /\ \A b \in 1..MAX_BLOCKS : x.block[b].var = toggles[s].block[b].var
    BY <2>3, <2>4, EmptiedType
  <2>6. t2 = [toggles EXCEPT ![s] = x]
    BY <1>5, <2>1, <2>4, Zenon
  <2>7. t2 \in Seq(Toggle_) /\ Len(t2) = Len(toggles) /\ SameEntries(toggles, t2)
    <3>1. t2 \in Seq(Toggle_) /\ Len(t2) = Len(toggles)
      BY <1>1, <2>2, <2>5, <2>6, PutToggle
    <3>2. SameEntries(toggles, t2)
      BY <1>1, <2>2, <2>5, <2>6, CounterKeepsEntries
    <3>3. QED
      BY <3>1, <3>2
  <2>8. EntriesKept(toggles, t2)
    BY <2>7, Zenon DEF SameEntries, EntriesKept
  <2>9. s \in Nat \ {0} /\ s <= Len(toggles)
    BY <1>1, <2>2
  <2>10. /\ todo' \in [slot : 0..Len(toggles), blocks : Assignments, b : 1..(MAX_BLOCKS + 1), v : Nat \ {0}]
         /\ todo' # Idle => todo'.slot # 0
    BY <1>1, <1>4, <1>5, <2>1, <2>9
  <2>11. QED
    BY <1>1, <1>3, <2>4, <2>7, <2>8, <2>10, TogglesKept
<1>6. CASE /\ Slot(l.key) = 0 /\ Len(toggles) < TOGGLES
           /\ toggles' = Append(toggles, NewToggle(l.key))
           /\ todo' = Begun(Len(toggles) + 1, l.blocks)
  <2>1. PICK x, t2 : x = NewToggle(l.key) /\ t2 = toggles'
    BY Zenon
  <2>2. /\ x \in Toggle_
        /\ \A b \in 1..MAX_BLOCKS, v \in 1..MAX_VAR_PER_BLOCK : x.block[b].var[v].cell = NoCell
    BY <1>2, <2>1, NewToggleType
  <2>3. t2 = Append(toggles, x)
    BY <1>6, <2>1
  <2>4. /\ t2 \in Seq(Toggle_) /\ Len(t2) = Len(toggles) + 1 /\ DOMAIN t2 = 1..(Len(toggles) + 1)
        /\ t2[Len(toggles) + 1] = x /\ \A s \in 1..Len(toggles) : t2[s] = toggles[s]
    BY <1>1, <2>2, <2>3, AppendProperties
  <2>5. \A s \in DOMAIN t2 : s = Len(toggles) + 1 \/ (s \in DOMAIN toggles /\ t2[s] = toggles[s])
    BY <1>1, <2>4
  <2>6. EntriesKept(toggles, t2)
    BY <2>2, <2>4, <2>5, ZenonT(60) DEF EntriesKept, EntryOf
  <2>7. Len(toggles) + 1 \in Nat \ {0} /\ Len(toggles) + 1 <= Len(toggles) + 1 /\ Len(toggles) + 1 <= TOGGLES
    BY <1>1, <1>6
  <2>8. PICK n : n = Len(toggles) + 1
    BY Zenon
  <2>9. /\ todo' \in [slot : 0..n, blocks : Assignments, b : 1..(MAX_BLOCKS + 1), v : Nat \ {0}]
        /\ todo' # Idle => todo'.slot # 0
    BY <1>4, <1>6, <2>7, <2>8
  <2>10. QED
    BY <1>3, <2>1, <2>4, <2>6, <2>7, <2>8, <2>9, TogglesKept
<1>7. QED
  BY <1>5, <1>6 DEF ToggleSet

WithBlock(t, s, b, k) == [t EXCEPT ![s].block[b] = k]
WithEntry(k, v, e) == [k.var EXCEPT ![v] = e]

(* A block of a toggle is replaced. *)
LEMMA PutBlock ==
  ASSUME Types, NEW s \in DOMAIN toggles, NEW b \in 1..MAX_BLOCKS
  PROVE  \A k \in Block_ : \A t2 : t2 = WithBlock(toggles, s, b, k) =>
           /\ t2 \in Seq(Toggle_) /\ Len(t2) = Len(toggles) /\ DOMAIN t2 = DOMAIN toggles
           /\ t2[s].block[b] = k
           /\ \A r \in DOMAIN toggles, c \in 1..MAX_BLOCKS :
                r # s \/ c # b => t2[r].block[c] = toggles[r].block[c]
<1> SUFFICES ASSUME NEW k \in Block_, NEW t2, t2 = WithBlock(toggles, s, b, k)
             PROVE  /\ t2 \in Seq(Toggle_) /\ Len(t2) = Len(toggles) /\ DOMAIN t2 = DOMAIN toggles
                    /\ t2[s].block[b] = k
                    /\ \A r \in DOMAIN toggles, c \in 1..MAX_BLOCKS :
                         r # s \/ c # b => t2[r].block[c] = toggles[r].block[c]
  OBVIOUS
<1>1. toggles \in Seq(Toggle_) /\ Len(toggles) \in Nat /\ DOMAIN toggles = 1..Len(toggles)
  BY DEF Types
<1>2. toggles[s] \in Toggle_
  BY <1>1
<1>3. PICK kk : kk = [toggles[s].block EXCEPT ![b] = k]
  BY Zenon
<1>4. toggles[s].block \in [1..MAX_BLOCKS -> Block_]
  BY <1>2 DEF Toggle_
<1>5. /\ kk \in [1..MAX_BLOCKS -> Block_] /\ kk[b] = k
      /\ \A c \in 1..MAX_BLOCKS : c # b => kk[c] = toggles[s].block[c]
  BY <1>3, <1>4
<1>6. PICK x : x = [toggles[s] EXCEPT !.block = kk]
  BY Zenon
<1>7. x \in Toggle_ /\ x.block = kk
  BY <1>2, <1>5, <1>6 DEF Toggle_
<1>8. t2 = [toggles EXCEPT ![s] = x]
  BY <1>3, <1>6, Zenon DEF WithBlock
<1>9. /\ t2 \in Seq(Toggle_) /\ Len(t2) = Len(toggles) /\ DOMAIN t2 = DOMAIN toggles
      /\ t2[s] = x /\ \A r \in DOMAIN toggles : r # s => t2[r] = toggles[r]
  <2> HIDE DEF Toggle_
  <2> QED BY <1>1, <1>7, <1>8, PutToggle
<1>10. ASSUME NEW r \in DOMAIN toggles, NEW c \in 1..MAX_BLOCKS, r # s \/ c # b
       PROVE  t2[r].block[c] = toggles[r].block[c]
  <2>1. CASE r # s
    BY <1>9, <2>1
  <2>2. CASE r = s
    <3>1. t2[r].block = kk /\ c # b
      BY <1>7, <1>9, <1>10, <2>2
    <3>2. QED
      BY <1>5, <2>2, <3>1
  <2>3. QED
    BY <2>1, <2>2
<1>11. t2[s].block[b] = k
  BY <1>5, <1>7, <1>9
<1>12. QED
  BY <1>9, <1>10, <1>11

(* Where process_var is. *)
Here ==
  /\ todo.slot \in DOMAIN toggles /\ todo.b \in 1..MAX_BLOCKS /\ todo.v \in 1..MAX_VAR_PER_BLOCK
  /\ Current.text \in Seq(Letters)

LEMMA WhereProcessVarIs ==
  ASSUME Types, todo # Idle, More, ~Misfit, Current.text # NoText
  PROVE  Here
<1>1. /\ todo.slot \in 0..Len(toggles) /\ todo.blocks \in Assignments /\ todo.b \in 1..(MAX_BLOCKS + 1)
      /\ todo.v \in Nat \ {0} /\ todo.slot # 0 /\ Len(toggles) \in Nat /\ DOMAIN toggles = 1..Len(toggles)
      /\ MAX_BLOCKS \in Nat /\ MAX_VAR_PER_BLOCK \in Nat
  BY SizesAssumption DEF Types
<1>2. todo.slot \in DOMAIN toggles /\ todo.b \in 1..MAX_BLOCKS /\ todo.v \in 1..MAX_VAR_PER_BLOCK
  BY <1>1 DEF Misfit
<1>3. PICK A : A = [name : STRING, text : Seq(Letters) \cup {NoText}]
  BY Zenon
<1>4. todo.blocks \in Seq(Seq(A))
  BY <1>1, <1>3 DEF Assignments
<1>5. todo.blocks[todo.b] \in Seq(A)
  BY <1>1, <1>4 DEF More
<1>6. todo.blocks[todo.b][todo.v] \in A
  BY <1>1, <1>5 DEF More
<1>7. PICK x : x = Current
  BY Zenon
<1>8. x \in A /\ x.text # NoText
  BY <1>6, <1>7 DEF Current
<1>9. x.text \in Seq(Letters)
  BY <1>3, <1>8
<1>10. QED
  BY <1>2, <1>7, <1>9 DEF Here

(* process_var goes on to the next assignment. *)
LEMMA NextAssignment ==
  ASSUME Types, todo # Idle, todo' = [todo EXCEPT !.v = @ + 1]
  PROVE  /\ todo' \in [slot : 0..Len(toggles), blocks : Assignments, b : 1..(MAX_BLOCKS + 1), v : Nat \ {0}]
         /\ todo' # Idle => todo'.slot # 0
<1>1. PICK td, t2 : td = todo /\ t2 = todo'
  BY Zenon
<1>2. /\ td \in [slot : 0..Len(toggles), blocks : Assignments, b : 1..(MAX_BLOCKS + 1), v : Nat \ {0}]
      /\ td.slot # 0 /\ t2 = [td EXCEPT !.v = @ + 1]
  BY <1>1 DEF Types
<1>3. td.v + 1 \in Nat \ {0}
  BY <1>2
<1>4. /\ t2 \in [slot : 0..Len(toggles), blocks : Assignments, b : 1..(MAX_BLOCKS + 1), v : Nat \ {0}]
      /\ t2.slot # 0
  BY <1>2, <1>3
<1>5. QED
  BY <1>1, <1>4

LEMMA CountedType ==
  ASSUME NEW k \in Block_, Here
  PROVE  Counted(k) \in Block_ /\ Counted(k).var = k.var
<1>1. todo.v \in 0..MAX_VAR_PER_BLOCK
  BY SizesAssumption DEF Here
<1>2. PICK v : v = todo.v
  BY Zenon
<1>3. [k EXCEPT !.nr_vars = v] \in Block_ /\ [k EXCEPT !.nr_vars = v].var = k.var
  BY <1>1, <1>2 DEF Block_
<1>4. Counted(k) \in {k, [k EXCEPT !.nr_vars = v]}
  BY <1>2, Zenon DEF Counted
<1>5. QED
  BY <1>3, <1>4

LEMMA KeepEntryKeeps ==
  ASSUME IInv, Here, todo # Idle, KeepEntry, UNCHANGED at
  PROVE  IInv'
<1>1. /\ Types /\ toggles \in Seq(Toggle_) /\ Len(toggles) <= TOGGLES
      /\ UNCHANGED <<list, store, actpos, refused>> /\ todo' = [todo EXCEPT !.v = @ + 1]
  BY DEF IInv, Types, KeepEntry
<1>2. PICK s, b, k, t2 : s = todo.slot /\ b = todo.b /\ k = Counted(toggles[s].block[b]) /\ t2 = toggles'
  BY Zenon
<1>3. s \in DOMAIN toggles /\ b \in 1..MAX_BLOCKS
  BY <1>2 DEF Here
<1>4. toggles[s].block[b] \in Block_
  BY <1>1, <1>3, EntryType
<1>5. k \in Block_ /\ k.var = toggles[s].block[b].var
  BY <1>2, <1>4, CountedType
<1>6. t2 = WithBlock(toggles, s, b, k)
  BY <1>2, Zenon DEF KeepEntry, WithBlock
<1>7. /\ t2 \in Seq(Toggle_) /\ Len(t2) = Len(toggles) /\ DOMAIN t2 = DOMAIN toggles
      /\ t2[s].block[b] = k
      /\ \A r \in DOMAIN toggles, c \in 1..MAX_BLOCKS :
           r # s \/ c # b => t2[r].block[c] = toggles[r].block[c]
  <2>1. \A x \in Block_ : \A u : u = WithBlock(toggles, s, b, x) =>
          /\ u \in Seq(Toggle_) /\ Len(u) = Len(toggles) /\ DOMAIN u = DOMAIN toggles
          /\ u[s].block[b] = x
          /\ \A r \in DOMAIN toggles, c \in 1..MAX_BLOCKS :
               r # s \/ c # b => u[r].block[c] = toggles[r].block[c]
    BY <1>1, <1>3, PutBlock
  <2>2. QED
    BY <1>5, <1>6, <2>1
<1>8. EntriesKept(toggles, t2)
  <2>1. \A r \in DOMAIN toggles, c \in 1..MAX_BLOCKS : t2[r].block[c].var = toggles[r].block[c].var
    BY <1>5, <1>7, Zenon
  <2>2. QED
    BY <1>7, <2>1, Zenon DEF EntriesKept, EntryOf
<1>9. /\ todo' \in [slot : 0..Len(toggles), blocks : Assignments, b : 1..(MAX_BLOCKS + 1), v : Nat \ {0}]
      /\ todo' # Idle => todo'.slot # 0
  BY <1>1, NextAssignment
<1>10. QED
  BY <1>1, <1>2, <1>7, <1>8, <1>9, TogglesKept

(* Toggles t2 have entry e in one place. *)
OneEntry(t2, s, b, v, e) ==
  /\ t2 \in Seq(Toggle_) /\ Len(t2) = Len(toggles) /\ DOMAIN t2 = DOMAIN toggles
  /\ EntryOf(t2, s, b, v) = e
  /\ \A r \in DOMAIN toggles, c \in 1..MAX_BLOCKS, w \in 1..MAX_VAR_PER_BLOCK :
       r # s \/ c # b \/ w # v => EntryOf(t2, r, c, w) = EntryOf(toggles, r, c, w)

LEMMA PutEntry ==
  ASSUME Types, NEW s \in DOMAIN toggles, NEW b \in 1..MAX_BLOCKS, NEW v \in 1..MAX_VAR_PER_BLOCK
  PROVE  \A e : \A k \in Block_ : \A t2 :
           k.var = WithEntry(toggles[s].block[b], v, e) /\ t2 = WithBlock(toggles, s, b, k)
           => OneEntry(t2, s, b, v, e)
<1> SUFFICES ASSUME NEW e, NEW k \in Block_, NEW t2,
                    k.var = WithEntry(toggles[s].block[b], v, e), t2 = WithBlock(toggles, s, b, k)
             PROVE  OneEntry(t2, s, b, v, e)
  OBVIOUS
<1>1. \A x \in Block_ : \A u : u = WithBlock(toggles, s, b, x) =>
        /\ u \in Seq(Toggle_) /\ Len(u) = Len(toggles) /\ DOMAIN u = DOMAIN toggles
        /\ u[s].block[b] = x
        /\ \A r \in DOMAIN toggles, c \in 1..MAX_BLOCKS :
             r # s \/ c # b => u[r].block[c] = toggles[r].block[c]
  BY PutBlock
<1>2. /\ t2 \in Seq(Toggle_) /\ Len(t2) = Len(toggles) /\ DOMAIN t2 = DOMAIN toggles
      /\ t2[s].block[b] = k
      /\ \A r \in DOMAIN toggles, c \in 1..MAX_BLOCKS :
           r # s \/ c # b => t2[r].block[c] = toggles[r].block[c]
  BY <1>1
<1>3. PICK old : old = toggles[s].block[b].var
  BY Zenon
<1>4. DOMAIN old = 1..MAX_VAR_PER_BLOCK
  <2>1. toggles[s].block[b] \in Block_
    BY EntryType DEF Types
  <2>2. QED
    BY <1>3, <2>1 DEF Block_
<1>5. k.var[v] = e /\ \A w \in 1..MAX_VAR_PER_BLOCK : w # v => k.var[w] = old[w]
  BY <1>3, <1>4 DEF WithEntry
<1>6. EntryOf(t2, s, b, v) = e
  BY <1>2, <1>5, Zenon DEF EntryOf
<1>7. ASSUME NEW r \in DOMAIN toggles, NEW c \in 1..MAX_BLOCKS, NEW w \in 1..MAX_VAR_PER_BLOCK,
             r # s \/ c # b \/ w # v
      PROVE  EntryOf(t2, r, c, w) = EntryOf(toggles, r, c, w)
  <2>1. CASE r # s \/ c # b
    BY <1>2, <2>1, Zenon DEF EntryOf
  <2>2. CASE r = s /\ c = b
    <3>1. w # v
      BY <1>7, <2>2
    <3>2. EntryOf(t2, r, c, w) = k.var[w] /\ EntryOf(toggles, r, c, w) = old[w]
      BY <1>2, <1>3, <2>2, Zenon DEF EntryOf
    <3>3. QED
      BY <1>5, <3>1, <3>2
  <2>3. QED
    BY <2>1, <2>2
<1>8. QED
  BY <1>2, <1>6, <1>7, Zenon DEF OneEntry

(* The list of variables after process_var: variable i has the new text.   *)
LEMMA FillEntryList ==
  ASSUME Types, FillEntry, Here
  PROVE  \E i \in 1..VARIABLES_MAX :
           /\ i = IF Index(Current.name) # 0 THEN Index(Current.name) ELSE Len(list) + 1
           /\ list' \in Seq(Variable_) /\ Len(list') <= VARIABLES_MAX
           /\ ListGrows(list, list', i, Len(store) + 1)
           /\ \A j \in DOMAIN list' : list'[j].cell = Len(store) + 1 \/ (j \in DOMAIN list /\ list'[j] = list[j])
           /\ actpos' \in 0..VARIABLE_STORE_SIZE
<1>1. PICK name, n, i : /\ name = Current.name /\ n = Length(Current.text)
                        /\ i = IF Index(name) # 0 THEN Index(name) ELSE Len(list) + 1
  BY Zenon
<1>2. /\ Fits(n + 1) /\ (Index(name) # 0 \/ Addable(name, n + 1))
      /\ list' = IF Index(name) # 0
                 THEN [list EXCEPT ![i].cell = Len(store) + 1]
                 ELSE Append(list, [name |-> name, cell |-> Len(store) + 1])
      /\ actpos' = actpos + (n + 1) + (IF Index(name) # 0 THEN 0 ELSE Width[name] + 1)
  BY <1>1, Zenon DEF FillEntry
<1>3. /\ Len(store) + 1 \in Nat /\ n \in Nat /\ actpos \in Nat /\ VARIABLE_STORE_SIZE \in Nat
      /\ Len(list) \in Nat /\ VARIABLES_MAX \in Nat /\ Len(list) <= VARIABLES_MAX /\ DOMAIN list = 1..Len(list)
  <2>1. PICK text : text = Current.text
    BY Zenon
  <2>2. text \in Seq(Letters) /\ n = Length(text)
    BY <1>1, <2>1 DEF Here
  <2>3. n \in Nat
    BY <2>2, LengthType
  <2>4. QED
    BY <2>3, SizesAssumption, SMTT(30) DEF Types
<1>4. CASE Index(name) # 0
  <2>1. i \in DOMAIN list /\ list' = [list EXCEPT ![i].cell = Len(store) + 1]
    BY <1>1, <1>2, <1>4, IndexType
  <2>2. /\ list' \in Seq(Variable_) /\ Len(list') = Len(list) /\ DOMAIN list' = DOMAIN list
        /\ list'[i].cell = Len(store) + 1
        /\ \A j \in DOMAIN list : j # i => list'[j] = list[j]
        /\ ListGrows(list, list', i, Len(store) + 1)
    BY <1>3, <2>1, PutCell
  <2>3. actpos' = actpos + (n + 1) + 0 /\ actpos + (n + 1) <= VARIABLE_STORE_SIZE
    BY <1>2, <1>4, Zenon DEF Fits
  <2>4. actpos' \in 0..VARIABLE_STORE_SIZE /\ i \in 1..VARIABLES_MAX
    BY <1>3, <2>1, <2>3
  <2>5. QED
    BY <1>1, <1>3, <2>2, <2>4
<1>5. CASE Index(name) = 0
  <2>1. i = Len(list) + 1 /\ list' = Append(list, [name |-> name, cell |-> Len(store) + 1])
    BY <1>1, <1>2, <1>5, Zenon
  <2>2. Addable(name, n + 1)
    BY <1>2, <1>5, Zenon
  <2>3. /\ name \in STRING /\ Width[name] \in Nat /\ Len(list) < VARIABLES_MAX
        /\ actpos + ((n + 1) + Width[name] + 1) <= VARIABLE_STORE_SIZE
    BY <2>2, TextAssumption DEF Addable, Fits
  <2>4. /\ list' \in Seq(Variable_) /\ Len(list') = Len(list) + 1
        /\ DOMAIN list' = 1..(Len(list) + 1)
        /\ list'[Len(list) + 1].cell = Len(store) + 1
        /\ \A j \in 1..Len(list) : list'[j] = list[j]
    BY <1>3, <2>1, <2>3, AppendVariable
  <2>5. ListGrows(list, list', i, Len(store) + 1)
    BY <1>3, <2>1, <2>3, AppendedGrows
  <2>6. PICK w : w = Width[name]
    BY Zenon
  <2>7. actpos' = actpos + (n + 1) + (w + 1) /\ w \in Nat /\ actpos + ((n + 1) + w + 1) <= VARIABLE_STORE_SIZE
    BY <1>2, <1>5, <2>3, <2>6, Zenon
  <2>8. actpos' \in 0..VARIABLE_STORE_SIZE
    BY <1>3, <2>7
  <2>9. i \in 1..VARIABLES_MAX /\ Len(list') <= VARIABLES_MAX
    BY <1>3, <2>1, <2>3, <2>4
  <2>10. \A j \in DOMAIN list' : j = Len(list) + 1 \/ (j \in DOMAIN list /\ j \in 1..Len(list))
    BY <1>3, <2>4
  <2>11. QED
    BY <1>1, <2>4, <2>5, <2>8, <2>9, <2>10, Zenon
<1>6. QED
  BY <1>4, <1>5

(* The entry that process_var fills is for variable i and has the new text. *)
LEMMA FillEntryKeeps ==
  ASSUME IInv, Here, todo # Idle, FillEntry, UNCHANGED at
  PROVE  IInv'
<1>1. /\ Types /\ TextsFit /\ toggles \in Seq(Toggle_) /\ Len(toggles) <= TOGGLES /\ Len(store) \in Nat
      /\ refused \in BOOLEAN
  BY CellularHolds DEF IInv, Types
<1>2. PICK s, b, v, text, new : /\ s = todo.slot /\ b = todo.b /\ v = todo.v /\ text = Current.text
                                /\ new = Len(store) + 1
  BY Zenon
<1>3. /\ s \in DOMAIN toggles /\ b \in 1..MAX_BLOCKS /\ v \in 1..MAX_VAR_PER_BLOCK /\ text \in Seq(Letters)
      /\ new \in Nat /\ new # NoCell
  BY <1>1, <1>2 DEF Here, NoCell
<1>4. PICK i \in 1..VARIABLES_MAX :
        /\ i = IF Index(Current.name) # 0 THEN Index(Current.name) ELSE Len(list) + 1
        /\ list' \in Seq(Variable_) /\ Len(list') <= VARIABLES_MAX
        /\ ListGrows(list, list', i, Len(store) + 1)
        /\ \A j \in DOMAIN list' : list'[j].cell = Len(store) + 1 \/ (j \in DOMAIN list /\ list'[j] = list[j])
        /\ actpos' \in 0..VARIABLE_STORE_SIZE
  BY <1>1, FillEntryList
<1>5. PICK old, e, t2 : old = toggles[s].block[b] /\ e = [var |-> i, cell |-> new] /\ t2 = toggles'
  BY Zenon
<1>6. PICK k : k = [Counted(old) EXCEPT !.var[v] = e]
  BY Zenon
<1>7. /\ store' = Append(store, Cell(text)) /\ t2 = WithBlock(toggles, s, b, k)
      /\ todo' = [todo EXCEPT !.v = @ + 1] /\ refused' = refused
  BY <1>2, <1>4, <1>5, <1>6, Zenon DEF FillEntry, WithBlock
<1>8. e \in Entry_ /\ e.cell = new /\ e.var = i /\ i # 0
  BY <1>3, <1>5, SizesAssumption DEF Entry_
<1>9. k \in Block_ /\ k.var = WithEntry(old, v, e)
  <2>1. old \in Block_
    BY <1>1, <1>3, <1>5, EntryType
  <2>2. Counted(old) \in Block_ /\ Counted(old).var = old.var
    BY <2>1, CountedType
  <2>3. PICK c : c = Counted(old)
    BY Zenon
  <2>4. c \in Block_ /\ c.var = old.var /\ k = [c EXCEPT !.var[v] = e]
    BY <1>6, <2>2, <2>3, Zenon
  <2>5. PICK f : f = [c.var EXCEPT ![v] = e]
    BY Zenon
  <2>6. c.var \in [1..MAX_VAR_PER_BLOCK -> Entry_]
    BY <2>4 DEF Block_
  <2>7. f \in [1..MAX_VAR_PER_BLOCK -> Entry_]
    BY <1>8, <2>5, <2>6
  <2>8. k = [c EXCEPT !.var = f]
    BY <2>4, <2>5, Zenon
  <2>9. k \in Block_ /\ k.var = f
    BY <2>4, <2>7, <2>8 DEF Block_
  <2>10. QED
    BY <2>4, <2>5, <2>9, Zenon DEF WithEntry
<1>10. /\ t2 \in Seq(Toggle_) /\ Len(t2) = Len(toggles) /\ DOMAIN t2 = DOMAIN toggles
       /\ EntryOf(t2, s, b, v) = e
       /\ \A r \in DOMAIN toggles, c \in 1..MAX_BLOCKS, w \in 1..MAX_VAR_PER_BLOCK :
            r # s \/ c # b \/ w # v => EntryOf(t2, r, c, w) = EntryOf(toggles, r, c, w)
  <2>1. \A x : \A y \in Block_ : \A u :
          y.var = WithEntry(toggles[s].block[b], v, x) /\ u = WithBlock(toggles, s, b, y)
          => OneEntry(u, s, b, v, x)
    BY <1>1, <1>3, PutEntry
  <2>2. k.var = WithEntry(toggles[s].block[b], v, e)
    BY <1>5, <1>9
  <2>3. k \in Block_ /\ t2 = WithBlock(toggles, s, b, k)
    BY <1>7, <1>9
  <2>4. OneEntry(t2, s, b, v, e)
    BY <2>1, <2>2, <2>3
  <2>5. QED
    BY <2>4, Zenon DEF OneEntry
<1>11. EntriesGrow(toggles, t2, s, b, v, i, new)
  <2> SUFFICES ASSUME NEW r \in DOMAIN t2, NEW c \in 1..MAX_BLOCKS, NEW w \in 1..MAX_VAR_PER_BLOCK
               PROVE  \/ r \in DOMAIN toggles /\ EntryOf(t2, r, c, w) = EntryOf(toggles, r, c, w)
                      \/ r = s /\ c = b /\ w = v /\ EntryOf(t2, r, c, w) = e
    BY <1>8, ZenonT(60) DEF EntriesGrow
  <2> QED BY <1>10, Zenon
<1>12. store' \in Seq(Cell_) /\ Len(store') = Len(store) + 1 /\ TextsFit'
  BY <1>1, <1>3, <1>7, StoreAppend
<1>13. Ownership(list', toggles', Len(store'))
  <2>1. PICK l2 : l2 = list'
    BY Zenon
  <2>2. ListGrows(list, l2, i, Len(store) + 1) /\ EntriesGrow(toggles, t2, s, b, v, i, Len(store) + 1)
    BY <1>2, <1>4, <1>11, <2>1
  <2>3. Ownership(l2, t2, Len(store) + 1)
    BY <1>12, <2>2, OwnershipGrows
  <2>4. QED
    BY <1>5, <1>12, <2>1, <2>3
<1>14. /\ todo' \in [slot : 0..Len(toggles), blocks : Assignments, b : 1..(MAX_BLOCKS + 1), v : Nat \ {0}]
       /\ todo' # Idle => todo'.slot # 0
  BY <1>1, <1>7, NextAssignment
<1>15. Types'
  BY <1>1, <1>4, <1>5, <1>10, <1>12, <1>14, Zenon DEF Types
<1>16. Whole(list, toggles) => Whole(list', toggles')
  <2> SUFFICES ASSUME Whole(list, toggles) PROVE Whole(list', t2)
    BY <1>5
  <2>1. \A j \in DOMAIN list' : list'[j].cell # NoCell
    BY <1>2, <1>3, <1>4, Zenon DEF Whole
  <2>2. ASSUME NEW r \in DOMAIN t2, NEW c \in 1..MAX_BLOCKS, NEW w \in 1..MAX_VAR_PER_BLOCK
        PROVE  EntryOf(t2, r, c, w).cell # NoCell => EntryOf(t2, r, c, w).var # 0
    <3>1. CASE r = s /\ c = b /\ w = v
      BY <1>8, <1>10, <3>1, Zenon
    <3>2. CASE ~(r = s /\ c = b /\ w = v)
      BY <1>10, <3>2, ZenonT(60) DEF Whole
    <3>3. QED
      BY <3>1, <3>2
  <2>3. QED
    BY <2>1, <2>2, Zenon DEF Whole
<1>17. QED
  BY <1>1, <1>7, <1>12, <1>13, <1>15, <1>16, Zenon DEF IInv, WildNeedsRefusal

LEMMA IdleType ==
  Len(toggles) \in Nat =>
    Idle \in [slot : 0..Len(toggles), blocks : Assignments, b : 1..(MAX_BLOCKS + 1), v : Nat \ {0}]
<1>1. 1 \in 1..(MAX_BLOCKS + 1) /\ 1 \in Nat \ {0}
  BY SizesAssumption
<1>2. <<>> \in Assignments
  BY DEF Assignments
<1>3. Len(toggles) \in Nat => 0 \in 0..Len(toggles)
  OBVIOUS
<1>4. QED
  BY <1>1, <1>2, <1>3 DEF Idle, Begun

(* The list of variables after process_var found none to give the text to. *)
LEMMA LoseVariableList ==
  ASSUME Types, LoseVariable, Here
  PROVE  /\ list' \in Seq(Variable_) /\ Len(list') <= VARIABLES_MAX
         /\ ListGrows(list, list', Len(list) + 1, Len(store) + 1)
         /\ actpos' \in 0..VARIABLE_STORE_SIZE
<1>1. PICK name, text, n : name = Current.name /\ text = Current.text /\ n = Length(text)
  BY Zenon
<1>2. /\ Fits(n + 1)
      /\ IF Addable(name, n + 1)
         THEN /\ list' = Append(list, [name |-> name, cell |-> Len(store) + 1])
              /\ actpos' = actpos + (n + 1) + Width[name] + 1
         ELSE /\ actpos' = actpos + (n + 1)
              /\ UNCHANGED list
  BY <1>1, Zenon DEF LoseVariable
<1>3. /\ Len(store) + 1 \in Nat /\ n \in Nat /\ actpos \in Nat /\ VARIABLE_STORE_SIZE \in Nat
      /\ Len(list) \in Nat /\ VARIABLES_MAX \in Nat /\ Len(list) <= VARIABLES_MAX /\ list \in Seq(Variable_)
  <2>1. text \in Seq(Letters)
    BY <1>1 DEF Here
  <2>2. n \in Nat
    BY <1>1, <2>1, LengthType
  <2>3. list \in Seq(Variable_) /\ Len(list) <= VARIABLES_MAX /\ store \in Seq(Cell_)
        /\ actpos \in 0..VARIABLE_STORE_SIZE
    BY Zenon DEF Types
  <2>4. VARIABLE_STORE_SIZE \in Nat /\ VARIABLES_MAX \in Nat
    BY SizesAssumption
  <2>5. Len(list) \in Nat /\ Len(store) \in Nat
    BY <2>3, LenProperties, Zenon
  <2>6. QED
    BY <2>2, <2>3, <2>4, <2>5
<1>4. CASE Addable(name, n + 1)
  <2>1. list' = Append(list, [name |-> name, cell |-> Len(store) + 1])
    BY <1>2, <1>4, Zenon
  <2>2. /\ name \in STRING /\ Width[name] \in Nat /\ Len(list) < VARIABLES_MAX
        /\ actpos + ((n + 1) + Width[name] + 1) <= VARIABLE_STORE_SIZE
    BY <1>4, TextAssumption DEF Addable, Fits
  <2>3. list' \in Seq(Variable_) /\ Len(list') = Len(list) + 1
    BY <1>3, <2>1, <2>2, AppendVariable
  <2>4. ListGrows(list, list', Len(list) + 1, Len(store) + 1)
    BY <1>3, <2>1, <2>2, AppendedGrows
  <2>5. PICK w : w = Width[name]
    BY Zenon
  <2>6. actpos' = actpos + (n + 1) + w + 1 /\ w \in Nat /\ actpos + ((n + 1) + w + 1) <= VARIABLE_STORE_SIZE
    BY <1>2, <1>4, <2>2, <2>5, Zenon
  <2>7. actpos' \in 0..VARIABLE_STORE_SIZE
    BY <1>3, <2>6
  <2>8. Len(list') <= VARIABLES_MAX
    BY <1>3, <2>2, <2>3
  <2>9. QED
    BY <2>3, <2>4, <2>7, <2>8
<1>5. CASE ~Addable(name, n + 1)
  <2>1. list' = list /\ actpos' = actpos + (n + 1) /\ actpos + (n + 1) <= VARIABLE_STORE_SIZE
    BY <1>2, <1>5, Zenon DEF Fits
  <2>2. actpos' \in 0..VARIABLE_STORE_SIZE
    BY <1>3, <2>1
  <2>3. ListGrows(list, list', Len(list) + 1, Len(store) + 1)
    BY <2>1, Zenon DEF ListGrows
  <2>4. QED
    BY <1>3, <2>1, <2>2, <2>3
<1>6. QED
  BY <1>4, <1>5

(* The entry keeps its text and loses its variable. *)
LEMMA LoseVariableKeeps ==
  ASSUME IInv, Here, LoseVariable, UNCHANGED at
  PROVE  IInv'
<1>1. /\ Types /\ TextsFit /\ toggles \in Seq(Toggle_) /\ Len(toggles) <= TOGGLES /\ Len(store) \in Nat
      /\ Len(toggles) \in Nat
  BY CellularHolds DEF IInv, Types
<1>2. PICK s, b, v, text : s = todo.slot /\ b = todo.b /\ v = todo.v /\ text = Current.text
  BY Zenon
<1>3. s \in DOMAIN toggles /\ b \in 1..MAX_BLOCKS /\ v \in 1..MAX_VAR_PER_BLOCK /\ text \in Seq(Letters)
  BY <1>2 DEF Here
<1>4. /\ list' \in Seq(Variable_) /\ Len(list') <= VARIABLES_MAX
      /\ ListGrows(list, list', Len(list) + 1, Len(store) + 1)
      /\ actpos' \in 0..VARIABLE_STORE_SIZE
  BY <1>1, LoseVariableList
<1>5. PICK old, t2 : old = toggles[s].block[b] /\ t2 = toggles'
  BY Zenon
<1>6. PICK e, k : e = [old.var[v] EXCEPT !.var = 0] /\ k = [old EXCEPT !.var[v].var = 0]
  BY Zenon
<1>7. /\ store' = Append(store, Cell(text)) /\ t2 = WithBlock(toggles, s, b, k)
      /\ todo' = Idle /\ refused' = TRUE
  BY <1>2, <1>5, <1>6, Zenon DEF LoseVariable, WithBlock
<1>8. old \in Block_ /\ old.var[v] = EntryOf(toggles, s, b, v) /\ old.var[v] \in Entry_
  <2>1. old \in Block_
    BY <1>1, <1>3, <1>5, EntryType
  <2>2. old.var \in [1..MAX_VAR_PER_BLOCK -> Entry_]
    BY <2>1 DEF Block_
  <2>3. old.var[v] \in Entry_
    BY <1>3, <2>2
  <2>4. QED
    BY <1>5, <2>1, <2>3, Zenon DEF EntryOf
<1>9. e \in Entry_ /\ e.var = 0 /\ e.cell = EntryOf(toggles, s, b, v).cell
  <2>1. PICK x : x = old.var[v]
    BY Zenon
  <2>2. x \in Entry_ /\ e = [x EXCEPT !.var = 0] /\ x = EntryOf(toggles, s, b, v)
    BY <1>6, <1>8, <2>1
  <2>3. e \in Entry_ /\ e.var = 0 /\ e.cell = x.cell
    BY <2>2, SizesAssumption DEF Entry_
  <2>4. QED
    BY <2>2, <2>3
<1>10. k \in Block_ /\ k.var = WithEntry(old, v, e)
  <2>1. PICK f : f = [old.var EXCEPT ![v] = e]
    BY Zenon
  <2>2. old.var \in [1..MAX_VAR_PER_BLOCK -> Entry_]
    BY <1>8 DEF Block_
  <2>3. f \in [1..MAX_VAR_PER_BLOCK -> Entry_]
    BY <1>9, <2>1, <2>2
  <2>4. k = [old EXCEPT !.var = f]
    BY <1>6, <2>1, Zenon
  <2>5. k \in Block_ /\ k.var = f
    BY <1>8, <2>3, <2>4 DEF Block_
  <2>6. QED
    BY <2>1, <2>5, Zenon DEF WithEntry
<1>11. /\ t2 \in Seq(Toggle_) /\ Len(t2) = Len(toggles) /\ DOMAIN t2 = DOMAIN toggles
       /\ EntryOf(t2, s, b, v) = e
       /\ \A r \in DOMAIN toggles, c \in 1..MAX_BLOCKS, w \in 1..MAX_VAR_PER_BLOCK :
            r # s \/ c # b \/ w # v => EntryOf(t2, r, c, w) = EntryOf(toggles, r, c, w)
  <2>1. \A x : \A y \in Block_ : \A u :
          y.var = WithEntry(toggles[s].block[b], v, x) /\ u = WithBlock(toggles, s, b, y)
          => OneEntry(u, s, b, v, x)
    BY <1>1, <1>3, PutEntry
  <2>2. k.var = WithEntry(toggles[s].block[b], v, e)
    BY <1>5, <1>10
  <2>3. k \in Block_ /\ t2 = WithBlock(toggles, s, b, k)
    BY <1>7, <1>10
  <2>4. OneEntry(t2, s, b, v, e)
    BY <2>1, <2>2, <2>3
  <2>5. QED
    BY <2>4, Zenon DEF OneEntry
<1>12. \A m, n : EntriesGrow(toggles, t2, 0, 0, 0, m, n)
  <2> SUFFICES ASSUME NEW r \in DOMAIN t2, NEW c \in 1..MAX_BLOCKS, NEW w \in 1..MAX_VAR_PER_BLOCK
               PROVE  /\ r \in DOMAIN toggles
                      /\ EntryOf(t2, r, c, w).cell = EntryOf(toggles, r, c, w).cell
                      /\ EntryOf(t2, r, c, w).var \in {0, EntryOf(toggles, r, c, w).var}
    BY Zenon DEF EntriesGrow
  <2>1. CASE r = s /\ c = b /\ w = v
    BY <1>3, <1>9, <1>11, <2>1, Zenon
  <2>2. CASE ~(r = s /\ c = b /\ w = v)
    BY <1>11, <2>2, Zenon
  <2>3. QED
    BY <2>1, <2>2
<1>13. store' \in Seq(Cell_) /\ Len(store') = Len(store) + 1 /\ TextsFit'
  BY <1>1, <1>3, <1>7, StoreAppend
<1>14. Ownership(list', toggles', Len(store'))
  <2>1. PICK l2, i : l2 = list' /\ i = Len(list) + 1
    BY Zenon
  <2>2. ListGrows(list, l2, i, Len(store) + 1) /\ EntriesGrow(toggles, t2, 0, 0, 0, i, Len(store) + 1)
    BY <1>4, <1>12, <2>1
  <2>3. Ownership(l2, t2, Len(store) + 1)
    BY <1>13, <2>2, OwnershipGrows
  <2>4. QED
    BY <1>5, <1>13, <2>1, <2>3
<1>15. todo' \in [slot : 0..Len(toggles), blocks : Assignments, b : 1..(MAX_BLOCKS + 1), v : Nat \ {0}]
  BY <1>1, <1>7, IdleType
<1>16. Types'
  BY <1>1, <1>4, <1>5, <1>7, <1>11, <1>13, <1>15, Zenon DEF Types
<1>17. QED
  BY <1>7, <1>13, <1>14, <1>16, Zenon DEF IInv, WildNeedsRefusal

LEMMA ProcessVarKeeps ==
  ASSUME IInv, ProcessVar
  PROVE  IInv'
<1>1. Here
  BY WhereProcessVarIs DEF ProcessVar, IInv
<1>2. QED
  BY <1>1, KeepEntryKeeps, FillEntryKeeps, LoseVariableKeeps DEF ProcessVar
-----------------------------------------------------------------------------
(* The other steps of toggle set *)

LEMMA ToggleSetFailsKeeps ==
  ASSUME IInv, ToggleSetFails
  PROVE  IInv'
<1>1. /\ UNCHANGED <<at, list, store, actpos, toggles>> /\ refused' = TRUE /\ todo' = Idle
      /\ at \in {"ready", "hung", "wild", "spoilt"} /\ Len(toggles) \in Nat
  BY CellularHolds DEF ToggleSetFails, IInv, Types
<1>2. todo' \in [slot : 0..Len(toggles), blocks : Assignments, b : 1..(MAX_BLOCKS + 1), v : Nat \ {0}]
  BY <1>1, IdleType
<1>3. QED
  BY <1>1, <1>2, NothingStored, Zenon

LEMMA NextBlockKeeps ==
  ASSUME IInv, NextBlock
  PROVE  IInv'
<1>1. PICK td, t2 : td = todo /\ t2 = todo'
  BY Zenon
<1>2. /\ td \in [slot : 0..Len(toggles), blocks : Assignments, b : 1..(MAX_BLOCKS + 1), v : Nat \ {0}]
      /\ td.slot # 0 /\ t2 = [td EXCEPT !.b = @ + 1, !.v = 1] /\ td.b <= MAX_BLOCKS
  BY <1>1 DEF NextBlock, IInv, Types
<1>3. td.b + 1 \in 1..(MAX_BLOCKS + 1) /\ 1 \in Nat \ {0}
  BY <1>2, SizesAssumption, SMTT(30)
<1>4. /\ t2 \in [slot : 0..Len(toggles), blocks : Assignments, b : 1..(MAX_BLOCKS + 1), v : Nat \ {0}]
      /\ t2.slot # 0
  BY <1>2, <1>3
<1>5. /\ UNCHANGED <<at, list, store, actpos, toggles, refused>>
      /\ at \in {"ready", "hung", "wild", "spoilt"} /\ refused \in BOOLEAN
  BY DEF NextBlock, IInv, Types
<1>6. QED
  BY <1>1, <1>4, <1>5, NothingStored, Zenon

LEMMA ToggleSetDoneKeeps ==
  ASSUME IInv, ToggleSetDone
  PROVE  IInv'
<1>1. /\ Types /\ toggles \in Seq(Toggle_) /\ Len(toggles) \in Nat /\ DOMAIN toggles = 1..Len(toggles)
      /\ MAX_BLOCKS \in Nat \ {0}
  BY SizesAssumption DEF IInv, Types
<1>2. PICK s, n, t : s = todo.slot /\ n = Len(todo.blocks) /\ t = toggles'
  BY Zenon
<1>3. /\ s \in DOMAIN toggles /\ n \in 0..MAX_BLOCKS
  <2>1. PICK td : td = todo
    BY Zenon
  <2>2. /\ td \in [slot : 0..Len(toggles), blocks : Assignments, b : 1..(MAX_BLOCKS + 1), v : Nat \ {0}]
        /\ td.slot # 0 /\ td.b > Len(td.blocks)
    BY <2>1 DEF ToggleSetDone, IInv, Types
  <2>3. Len(td.blocks) \in Nat
    BY <2>2 DEF Assignments
  <2>4. td.slot \in 1..Len(toggles) /\ Len(td.blocks) \in 0..MAX_BLOCKS
    BY <1>1, <2>2, <2>3
  <2>5. QED
    BY <1>1, <1>2, <2>1, <2>4
<1>4. PICK x : x = [toggles[s] EXCEPT !.nr_blocks = n]
  BY Zenon
<1>5. t = [toggles EXCEPT ![s] = x]
  BY <1>2, <1>4, Zenon DEF ToggleSetDone
<1>6. x \in Toggle_ /\ x.block = toggles[s].block
  <2>1. toggles[s] \in Toggle_
    BY <1>1, <1>3, EntryType
  <2>2. QED
    BY <1>3, <1>4, <2>1 DEF Toggle_
<1>7. t \in Seq(Toggle_) /\ Len(t) = Len(toggles) /\ SameEntries(toggles, t)
  <2>1. \A y \in Toggle_ : \A u :
          y.block = toggles[s].block /\ u = [toggles EXCEPT ![s] = y]
          => u \in Seq(Toggle_) /\ Len(u) = Len(toggles) /\ SameEntries(toggles, u)
    BY <1>1, <1>3, SetToggle
  <2>2. QED
    BY <1>5, <1>6, <2>1, Zenon
<1>8. \/ UNCHANGED <<at, list>>
      \/ \E r \in DOMAIN toggles, b \in 1..MAX_BLOCKS : toggle_do_block(t, r, b)
  <2>1. 1 \in 1..MAX_BLOCKS
    BY <1>1
  <2>2. UNCHANGED <<at, list>> \/ toggle_do_block(t, s, 1)
    BY <1>2, Zenon DEF ToggleSetDone
  <2>3. QED
    BY <1>3, <2>1, <2>2, Zenon
<1>9. /\ UNCHANGED <<store, actpos, refused>> /\ todo' = Idle
      /\ todo' \in [slot : 0..Len(toggles), blocks : Assignments, b : 1..(MAX_BLOCKS + 1), v : Nat \ {0}]
  BY <1>1, IdleType DEF ToggleSetDone
<1>10. /\ toggles' \in Seq(Toggle_) /\ Len(toggles') = Len(toggles) /\ SameEntries(toggles, toggles')
  BY <1>2, <1>7
<1>11. QED
  BY <1>7, <1>8, <1>9, <1>10, BlockKeeps, Zenon
-----------------------------------------------------------------------------
(* The invariant holds *)

LEMMA InitIInv == Init => IInv
<1> SUFFICES ASSUME Init PROVE IInv
  OBVIOUS
<1>1. /\ at = "ready" /\ todo = Idle /\ toggles = <<>> /\ refused = FALSE
      /\ list = <<[name |-> TT_VMWARE, cell |-> 1]>> /\ actpos = Width[TT_VMWARE] + 3
  BY DEF Init
<1>2. PICK text \in {<<"0">>, <<"1">>} : store = <<Cell(text)>>
  BY Zenon DEF Init
<1>3. text \in Seq(Letters)
  <2>1. "0" \in Letters /\ "1" \in Letters
    BY TextAssumption
  <2>2. <<"0">> \in Seq(Letters) /\ <<"1">> \in Seq(Letters)
    BY <2>1
  <2>3. QED
    BY <1>2, <2>2, Zenon
<1>4. PICK c, x : c = Cell(text) /\ x = [name |-> TT_VMWARE, cell |-> 1]
  BY Zenon
<1>5. c \in Cell_ /\ Length(c.text) <= c.room
  BY <1>3, <1>4, LengthType DEF Cell_, Cell
<1>6. x \in Variable_ /\ x.cell = 1
  <2>1. PICK vm : vm = TT_VMWARE
    BY Zenon
  <2>2. vm \in STRING
    BY <2>1, TextAssumption
  <2>3. x = [name |-> vm, cell |-> 1]
    BY <1>4, <2>1
  <2>4. QED
    BY <2>2, <2>3 DEF Variable_
<1>7. store = <<c>> /\ list = <<x>>
  BY <1>1, <1>2, <1>4
<1>8. /\ store \in Seq(Cell_) /\ Len(store) = 1 /\ DOMAIN store = 1..1 /\ store[1] = c
      /\ list \in Seq(Variable_) /\ Len(list) = 1 /\ DOMAIN list = 1..1 /\ list[1] = x
  BY <1>5, <1>6, <1>7
<1>9. /\ toggles \in Seq(Toggle_) /\ Len(toggles) = 0 /\ DOMAIN toggles = {}
  BY <1>1
<1>10. actpos \in 0..VARIABLE_STORE_SIZE /\ 1 <= VARIABLES_MAX /\ 0 <= TOGGLES
  <2>1. PICK w : w = Width[TT_VMWARE]
    BY Zenon
  <2>2. w \in Nat /\ w + 3 <= VARIABLE_STORE_SIZE
    BY <2>1, TextAssumption, SizesAssumption
  <2>3. actpos = w + 3
    BY <1>1, <2>1
  <2>4. QED
    BY <2>2, <2>3, SizesAssumption
<1>11. Idle \in [slot : 0..Len(toggles), blocks : Assignments, b : 1..(MAX_BLOCKS + 1), v : Nat \ {0}]
  BY <1>9, IdleType
<1>12. Types
  BY <1>1, <1>8, <1>9, <1>10, <1>11, Zenon DEF Types
<1>13. TextsFit
  <2>1. \A d \in DOMAIN store : store[d] = c
    BY <1>8
  <2>2. QED
    BY <1>5, <2>1, Zenon DEF TextsFit
<1>14. Ownership(list, toggles, Len(store))
  <2>1. \A i \in DOMAIN list : i = 1 /\ list[i].cell = 1
    BY <1>6, <1>8
  <2>2. CellsExist(list, toggles, Len(store))
    BY <1>8, <1>9, <2>1 DEF CellsExist
  <2>3. EntriesApart(toggles) /\ EntriesOwn(list, toggles)
    BY <1>9, Zenon DEF EntriesApart, EntriesOwn
  <2>4. Apart(list)
    BY <2>1, Zenon DEF Apart
  <2>5. QED
    BY <2>2, <2>3, <2>4 DEF Ownership
<1>15. Whole(list, toggles)
  <2>1. \A i \in DOMAIN list : list[i].cell # NoCell
    BY <1>6, <1>8 DEF NoCell
  <2>2. QED
    BY <1>9, <2>1, Zenon DEF Whole
<1>16. WildNeedsRefusal /\ refused \in BOOLEAN
  BY <1>1 DEF WildNeedsRefusal
<1>17. QED
  BY <1>12, <1>13, <1>14, <1>15, <1>16, Zenon DEF IInv

LEMMA NextIInv == IInv /\ [Next]_vars => IInv'
<1> SUFFICES ASSUME IInv, [Next]_vars PROVE IInv'
  OBVIOUS
<1>1. ASSUME NEW l \in SetLines, set_func(l) PROVE IInv'
  BY <1>1, set_funcKeeps
<1>2. ASSUME NEW l \in ToggleLines, ToggleSet(l) PROVE IInv'
  BY <1>2, ToggleSetKeeps
<1>3. CASE ProcessVar
  BY <1>3, ProcessVarKeeps
<1>4. CASE ToggleSetFails
  BY <1>4, ToggleSetFailsKeeps
<1>5. CASE NextBlock
  BY <1>5, NextBlockKeeps
<1>6. CASE ToggleSetDone
  BY <1>6, ToggleSetDoneKeeps
<1>7. ASSUME NEW s \in DOMAIN toggles, toggle_do_key(s) PROVE IInv'
  BY <1>7, toggle_do_keyKeeps
<1>8. ASSUME NEW s \in DOMAIN toggles, NEW b \in 0..MAX_BLOCKS, ToggleSelect(s, b) PROVE IInv'
  BY <1>8, ToggleSelectKeeps
<1>9. ASSUME NEW s \in DOMAIN toggles, NEW b \in 0..MAX_BLOCKS,
             ToggleTrigger(TT_VMWARE, <<"1">>, s, b)
      PROVE  IInv'
  BY <1>9, ToggleSelectKeeps DEF ToggleTrigger
<1>10. CASE UNCHANGED vars
  <2>1. UNCHANGED <<at, list, store, actpos, toggles, todo, refused>>
    BY <1>10 DEF vars
  <2>2. refused \in BOOLEAN /\ at \in {"ready", "hung", "wild", "spoilt"} /\ Types
    BY DEF IInv, Types
  <2>3. QED
    BY <2>1, <2>2, NothingStored, TodoStays, Zenon
<1>11. QED
  BY <1>1, <1>2, <1>3, <1>4, <1>5, <1>6, <1>7, <1>8, <1>9, <1>10, Zenon DEF Next

LEMMA IInvTypeOK == IInv => TypeOK
<1> SUFFICES ASSUME IInv PROVE TypeOK
  OBVIOUS
<1>1. /\ Types /\ refused \in BOOLEAN /\ CellsExist(list, toggles, Len(store)) /\ Cellular(list, toggles)
      /\ list \in Seq(Variable_) /\ store \in Seq(Cell_) /\ toggles \in Seq(Toggle_) /\ Len(store) \in Nat
  BY CellularHolds DEF IInv, Types, Ownership
<1>2. \A i \in DOMAIN list : list[i].cell \in Cells
  BY <1>1 DEF CellsExist, Cellular, Cells
<1>3. \A c \in DOMAIN store : store[c].text \in Text /\ store[c].room \in Nat
  <2>1. \A c \in DOMAIN store : store[c] \in Cell_
    BY <1>1
  <2>2. QED
    BY <2>1 DEF Cell_, Text
<1>4. ASSUME NEW s \in DOMAIN toggles
      PROVE  /\ toggles[s].nr_blocks \in 0..MAX_BLOCKS /\ toggles[s].current \in 0..MaxTurn
             /\ \A b \in 1..MAX_BLOCKS :
                  /\ toggles[s].block[b].nr_vars \in 0..MAX_VAR_PER_BLOCK
                  /\ \A v \in 1..MAX_VAR_PER_BLOCK :
                       /\ toggles[s].block[b].var[v].var \in 0..VARIABLES_MAX
                       /\ toggles[s].block[b].var[v].cell \in Cells
  <2>1. /\ toggles[s] \in Toggle_ /\ \A b \in 1..MAX_BLOCKS : toggles[s].block[b] \in Block_
        /\ \A b \in 1..MAX_BLOCKS, v \in 1..MAX_VAR_PER_BLOCK : EntryOf(toggles, s, b, v) \in Entry_
    BY <1>1, <1>4, EntryType
  <2>2. toggles[s].nr_blocks \in 0..MAX_BLOCKS /\ toggles[s].current \in 0..MaxTurn
    BY <2>1 DEF Toggle_
  <2>3. ASSUME NEW b \in 1..MAX_BLOCKS PROVE toggles[s].block[b].nr_vars \in 0..MAX_VAR_PER_BLOCK
    <3>1. toggles[s].block[b] \in Block_
      BY <2>1
    <3>2. QED
      BY <3>1 DEF Block_
  <2>4. ASSUME NEW b \in 1..MAX_BLOCKS, NEW v \in 1..MAX_VAR_PER_BLOCK
        PROVE  EntryOf(toggles, s, b, v).var \in 0..VARIABLES_MAX /\ EntryOf(toggles, s, b, v).cell \in Cells
    <3>1. PICK e : e = EntryOf(toggles, s, b, v)
      BY Zenon
    <3>2. e \in Entry_ /\ e.cell <= Len(store)
      BY <1>1, <1>4, <2>1, <3>1 DEF CellsExist
    <3>3. e.var \in 0..VARIABLES_MAX /\ e.cell \in 0..Len(store)
      BY <1>1, <3>2 DEF Entry_
    <3>4. QED
      BY <3>1, <3>3 DEF Cells
  <2>5. QED
    BY <2>2, <2>3, <2>4, Zenon DEF EntryOf
<1>5. QED
  BY <1>1, <1>2, <1>3, <1>4, Zenon DEF TypeOK, Types

(* The invariant of set and of the toggles holds throughout. *)
THEOREM IInvHolds == Spec => []IInv
<1>1. QED
  BY InitIInv, NextIInv, PTL DEF Spec

(* variable_list, variable_store and toggle_data are never filled beyond   *)
(* their ends, and every pointer in them is one into the store, whatever   *)
(* lines the configuration has.                                            *)
THEOREM TypeCorrect == Spec => []TypeOK
<1>1. QED
  BY IInvHolds, IInvTypeOK, PTL

(* var_set never writes a text past the memory allocated for it, for texts *)
(* of every length.                                                        *)
THEOREM TextsAlwaysFit == Spec => []TextsFit
<1>1. IInv => TextsFit
  BY DEF IInv
<1>2. QED
  BY IInvHolds, <1>1, PTL

(* However set and the toggles hand texts on, no two variables share one,  *)
(* so that var_set overwrites none but its own.                            *)
THEOREM TextsAreApart == Spec => []NoSharing
<1>1. IInv => NoSharing
  BY Zenon DEF IInv, Ownership, Apart, NoSharing
<1>2. QED
  BY IInvHolds, <1>1, PTL

(* var_set and toggle_do_block follow no pointer that is NULL and no index *)
(* of -1 as long as no line was refused.                                   *)
THEOREM OnlyRefusalsAreWild == Spec => []WildNeedsRefusal
<1>1. IInv => WildNeedsRefusal
  BY DEF IInv
<1>2. QED
  BY IInvHolds, <1>1, PTL

(* Whatever the variables refer to, and however deep, the passes of        *)
(* var_sprint over a line of the configuration come to what it means, if   *)
(* they meet known references only.                                        *)
THEOREM LinesAreExpanded == Spec => []ExpandsToMeaning
<1>1. ASSUME IInv PROVE ExpandsToMeaning
  <2>1. Types /\ CellsExist(list, toggles, Len(store))
    BY <1>1, Zenon DEF IInv, Ownership
  <2>2. ASSUME NEW l \in SetLines, "!" \notin Range(Meaning(l.text)), Clear(l.text)
        PROVE  var_sprint(l.text) = Meaning(l.text)
    <3>1. l.text \in Seq(Letters)
      BY LinesAssumption
    <3>2. QED
      BY <2>1, <2>2, <3>1, SprintIsMeaning
  <2>3. QED
    BY <2>2, Zenon DEF ExpandsToMeaning
<1>2. QED
  BY IInvHolds, <1>1, PTL

(* With unknown references among them, which var_sprint_once drops and     *)
(* behind which it copies without looking, the passes come to what the     *)
(* line means whenever they leave no reference.                            *)
THEOREM DroppedReferencesMeanNothing == Spec => []UnknownMeansNothing
<1>1. ASSUME IInv PROVE UnknownMeansNothing
  <2>1. Types /\ CellsExist(list, toggles, Len(store))
    BY <1>1, Zenon DEF IInv, Ownership
  <2>2. ASSUME NEW l \in SetLines, Explains(meanings[Passes]), Expanded(var_sprint(l.text))
        PROVE  var_sprint(l.text) = Meaning(l.text)
    <3>1. l.text \in Seq(Letters)
      BY LinesAssumption
    <3>2. QED
      BY <2>1, <2>2, <3>1, ExpandedIsMeaning
  <2>3. QED
    BY <2>2, Zenon DEF UnknownMeansNothing
<1>2. QED
  BY IInvHolds, <1>1, PTL
=============================================================================
