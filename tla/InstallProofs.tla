---------------------------- MODULE InstallProofs ----------------------------
(***************************************************************************)
(* Proofs about Install, for disks of every layout: the block list that    *)
(* install makes lists the sectors of its image, and the order of the      *)
(* writes keeps the disk bootable.                                         *)
(*                                                                         *)
(* What a recursive function computes is proved by the least index for     *)
(* which it would not (LeastNumber).                                       *)
(***************************************************************************)
EXTENDS Install, SequenceTheorems, WellFoundedInduction, TLAPS

LEMMA LeastNumber ==
  ASSUME NEW T, T \subseteq Nat, T # {}
  PROVE  \E x \in T : \A y \in T : x <= y
<1>1. PICK x \in T : \A y \in T : ~(<<y, x>> \in OpToRel(<, Nat))
  BY WFMin, NatLessThanWellFounded
<1>2. \A y \in T : ~(y < x)
  BY <1>1 DEF OpToRel
<1>3. QED
  BY <1>2
-----------------------------------------------------------------------------
(* Putting sequences together *)

(* The function whose last value FlattenSeq gives, on the first n of ss. *)
Flattens(f, ss, n) ==
  f = [i \in 1..n |-> IF i = 1 THEN ss[i] ELSE f[i - 1] \o ss[i]]

LEMMA FlattensAt ==
  ASSUME NEW ss, NEW n \in Nat, NEW f
  PROVE  Flattens(f, ss, n) <=>
           /\ f = [i \in 1..n |-> f[i]]
           /\ 1 <= n => f[1] = ss[1]
           /\ \A i \in 2..n : f[i] = f[i - 1] \o ss[i]
<1>1. ASSUME Flattens(f, ss, n)
      PROVE  /\ f = [i \in 1..n |-> f[i]]
             /\ 1 <= n => f[1] = ss[1]
             /\ \A i \in 2..n : f[i] = f[i - 1] \o ss[i]
  <2> DEFINE e(i) == IF i = 1 THEN ss[i] ELSE f[i - 1] \o ss[i]
  <2>1. f = [i \in 1..n |-> e(i)]
    BY <1>1, Zenon DEF Flattens
  <2> HIDE DEF e
  <2>2. f = [i \in 1..n |-> f[i]] /\ \A i \in 1..n : f[i] = e(i)
    BY <2>1
  <2>3. 1 <= n => f[1] = e(1)
    BY <2>2
  <2>4. \A i \in 2..n : i \in 1..n /\ i # 1
    OBVIOUS
  <2>5. e(1) = ss[1] /\ \A i \in 2..n : e(i) = f[i - 1] \o ss[i]
    BY <2>4, Zenon DEF e
  <2>6. QED
    BY <2>2, <2>3, <2>4, <2>5, Zenon
<1>2. ASSUME /\ f = [i \in 1..n |-> f[i]]
             /\ 1 <= n => f[1] = ss[1]
             /\ \A i \in 2..n : f[i] = f[i - 1] \o ss[i]
      PROVE  Flattens(f, ss, n)
  <2>1. ASSUME NEW i \in 1..n PROVE f[i] = IF i = 1 THEN ss[i] ELSE f[i - 1] \o ss[i]
    <3>1. CASE i = 1
      BY <1>2, <3>1
    <3>2. CASE i # 1
      <4>1. i \in 2..n
        BY <3>2
      <4>2. f[i] = f[i - 1] \o ss[i]
        BY <1>2, <4>1
      <4>3. QED
        BY <3>2, <4>2, Zenon
    <3>3. QED
      BY <3>1, <3>2
  <2>2. QED
    BY <1>2, <2>1, Zenon DEF Flattens
<1>3. QED
  BY <1>1, <1>2

LEMMA FlattensIsUnique ==
  ASSUME NEW ss, NEW n \in Nat, NEW f, Flattens(f, ss, n), NEW g, Flattens(g, ss, n)
  PROVE  \A i \in 1..n : f[i] = g[i]
<1> DEFINE Bad == {i \in 1..n : f[i] # g[i]}
<1> SUFFICES ASSUME Bad # {} PROVE FALSE
  OBVIOUS
<1>1. Bad \subseteq Nat
  OBVIOUS
<1>2. PICK k \in Bad : \A m \in Bad : k <= m
  <2> HIDE DEF Bad
  <2> QED BY <1>1, LeastNumber
<1>3. k \in 1..n /\ k - 1 \notin Bad
  BY <1>2
<1>4. CASE k = 1
  <2>1. 1 <= n
    BY <1>3, <1>4
  <2>2. f[1] = ss[1] /\ g[1] = ss[1]
    BY <2>1, FlattensAt, Zenon
  <2>3. QED
    BY <1>2, <1>4, <2>2
<1>5. CASE k # 1
  <2>1. k \in 2..n /\ f[k - 1] = g[k - 1]
    BY <1>3, <1>5
  <2>2. f[k] = f[k - 1] \o ss[k] /\ g[k] = g[k - 1] \o ss[k]
    BY <2>1, FlattensAt, Zenon
  <2>3. f[k] = g[k]
    BY <2>1, <2>2, Zenon
  <2>4. QED
    BY <1>2, <2>3
<1>6. QED
  BY <1>4, <1>5

LEMMA FlattenIsLast ==
  ASSUME NEW ss, Len(ss) \in Nat \ {0}, NEW f, Flattens(f, ss, Len(ss))
  PROVE  FlattenSeq(ss) = f[Len(ss)]
<1> DEFINE h == CHOOSE g : Flattens(g, ss, Len(ss))
<1>1. Flattens(h, ss, Len(ss))
  OBVIOUS
<1>2. FlattenSeq(ss) = h[Len(ss)]
  BY DEF FlattenSeq, Flattens
<1> HIDE DEF h
<1>3. QED
  BY <1>1, <1>2, FlattensIsUnique

(* One more sequence. *)
GoesOn(S, ss, n, f) ==
  \E g \in [1..(n + 1) -> Seq(S)] :
    Flattens(g, ss, n + 1) /\ g[n + 1] = f[n] \o ss[n + 1]

LEMMA FlattensOneMore ==
  ASSUME NEW S, NEW ss, NEW n \in Nat, n # 0, ss[n + 1] \in Seq(S),
         NEW f, f \in [1..n -> Seq(S)], Flattens(f, ss, n)
  PROVE  GoesOn(S, ss, n, f)
<1>0. f[1] = ss[1] /\ \A i \in 2..n : f[i] = f[i - 1] \o ss[i]
  <2>1. 1 <= n
    OBVIOUS
  <2>2. QED
    BY <2>1, FlattensAt, ZenonT(60)
<1> DEFINE c == f[n] \o ss[n + 1]
           g == [i \in 1..(n + 1) |-> IF i = n + 1 THEN c ELSE f[i]]
<1>1. f[n] \in Seq(S)
  OBVIOUS
<1>2. c \in Seq(S)
  BY <1>1, ConcatProperties
<1> HIDE DEF c
<1>3. g \in [1..(n + 1) -> Seq(S)] /\ g[n + 1] = c /\ \A i \in 1..n : g[i] = f[i]
  BY <1>2
<1> HIDE DEF g
<1>4. g[1] = ss[1]
  <2>1. 1 <= n /\ 1 \in 1..n /\ n \in Nat
    OBVIOUS
  <2>2. QED
    BY <1>0, <1>3, <2>1
<1>5. ASSUME NEW i \in 2..(n + 1) PROVE g[i] = g[i - 1] \o ss[i]
  <2>1. CASE i = n + 1
    <3>1. i - 1 = n /\ n \in 1..n
      BY <2>1
    <3>2. g[i - 1] = f[n] /\ g[i] = c
      BY <1>3, <2>1, <3>1
    <3>3. QED
      BY <2>1, <3>1, <3>2, Zenon DEF c
  <2>2. CASE i # n + 1
    <3>1. i \in 2..n /\ i \in 1..n /\ i - 1 \in 1..n /\ n \in Nat
      BY <2>2
    <3>2. g[i] = f[i] /\ g[i - 1] = f[i - 1]
      BY <1>3, <3>1
    <3>3. f[i] = f[i - 1] \o ss[i]
      BY <1>0, <3>1, Zenon
    <3>4. QED
      BY <3>2, <3>3, Zenon
  <2>3. QED
    BY <2>1, <2>2
<1>6. Flattens(g, ss, n + 1)
  <2>1. n + 1 \in Nat /\ g = [i \in 1..(n + 1) |-> g[i]]
    BY <1>3
  <2>2. QED
    BY <1>4, <1>5, <2>1, FlattensAt, Zenon
<1>7. QED
  BY <1>3, <1>6 DEF c, GoesOn

LEMMA FlattensExists ==
  ASSUME NEW S, NEW ss \in Seq(Seq(S)), Len(ss) # 0
  PROVE  \E f \in [1..Len(ss) -> Seq(S)] : Flattens(f, ss, Len(ss))
<1> DEFINE Good(n) == \E f \in [1..n -> Seq(S)] : Flattens(f, ss, n)
           Bad == {n \in 1..Len(ss) : ~Good(n)}
<1>1. \A i \in 1..Len(ss) : ss[i] \in Seq(S)
  OBVIOUS
<1>2. Good(1)
  <2> DEFINE f == [i \in 1..1 |-> ss[1]]
  <2>1. f \in [1..1 -> Seq(S)] /\ Flattens(f, ss, 1)
    BY <1>1 DEF Flattens
  <2>2. QED
    BY <2>1
<1>3. ASSUME NEW n \in 1..(Len(ss) - 1), Good(n) PROVE Good(n + 1)
  <2>1. n \in Nat \ {0} /\ ss[n + 1] \in Seq(S)
    BY <1>1
  <2>2. QED
    BY <1>3, <2>1, FlattensOneMore DEF GoesOn
<1> HIDE DEF Good
<1>4. Bad = {}
  <2> SUFFICES ASSUME Bad # {} PROVE FALSE
    OBVIOUS
  <2>1. Bad \subseteq Nat
    OBVIOUS
  <2>2. PICK n \in Bad : \A m \in Bad : n <= m
    <3> HIDE DEF Bad
    <3> QED BY <2>1, LeastNumber
  <2>3. n \in 1..Len(ss) /\ ~Good(n) /\ n - 1 \notin Bad
    BY <2>2
  <2>4. n - 1 \in 1..(Len(ss) - 1) /\ Good(n - 1)
    BY <1>2, <2>3
  <2>5. Good((n - 1) + 1) /\ (n - 1) + 1 = n
    BY <1>3, <2>3, <2>4
  <2>6. QED
    BY <2>3, <2>5
<1>5. Good(Len(ss))
  BY <1>4
<1>6. QED
  BY <1>5 DEF Good

(* FlattenSeq is concatenation, from the left. *)
LEMMA FlattenAppend ==
  ASSUME NEW S, NEW ss \in Seq(Seq(S)), NEW t \in Seq(S)
  PROVE  /\ FlattenSeq(<<>>) = <<>>
         /\ FlattenSeq(ss) \in Seq(S)
         /\ FlattenSeq(Append(ss, t)) = FlattenSeq(ss) \o t
<1>1. FlattenSeq(<<>>) = <<>>
  BY DEF FlattenSeq
<1> DEFINE tt == Append(ss, t)
           n == Len(ss)
<1>2. /\ tt \in Seq(Seq(S)) /\ Len(tt) = n + 1 /\ tt[n + 1] = t /\ n \in Nat
      /\ \A i \in 1..n : tt[i] = ss[i]
  BY AppendProperties
<1> HIDE DEF tt
<1>3. CASE n = 0
  <2>1. ss = <<>>
    BY <1>3, EmptySeq
  <2>2. Len(tt) = 1 /\ tt[1] = t /\ Len(tt) # 0 /\ Len(tt) \in Nat \ {0}
    BY <1>2, <1>3
  <2>3. PICK g : Flattens(g, tt, Len(tt))
    BY <1>2, <2>2, FlattensExists
  <2>4. g[1] = t
    <3>1. Len(tt) \in Nat /\ 1 <= Len(tt)
      BY <2>2
    <3>2. QED
      BY <2>2, <2>3, <3>1, FlattensAt, Zenon
  <2>5. FlattenSeq(tt) = g[Len(tt)]
    BY <2>2, <2>3, FlattenIsLast
  <2>6. <<>> \o t = t /\ <<>> \in Seq(S)
    BY ConcatEmptySeq, EmptySeq
  <2>7. QED
    BY <1>1, <2>1, <2>2, <2>4, <2>5, <2>6 DEF tt
<1>4. CASE n # 0
  <2>0. n \in Nat \ {0} /\ n + 1 \in Nat \ {0} /\ Len(ss) = n
    BY <1>2, <1>4
  <2>1. PICK f \in [1..n -> Seq(S)] : Flattens(f, ss, n)
    BY <1>4, FlattensExists
  <2>2. FlattenSeq(ss) = f[n]
    BY <2>0, <2>1, FlattenIsLast
  <2> HIDE DEF n
  <2>3. f[n] \in Seq(S)
    BY <2>0, <2>1
  <2>4. /\ f = [i \in 1..n |-> f[i]] /\ f[1] = ss[1]
        /\ \A i \in 2..n : f[i] = f[i - 1] \o ss[i]
    <3>1. 1 <= n /\ n \in Nat
      BY <2>0
    <3>2. QED
      BY <2>1, <3>1, FlattensAt, ZenonT(60)
  <2>5. tt[1] = ss[1] /\ \A i \in 2..n : tt[i] = ss[i]
    BY <1>2, <2>0
  <2>6. Flattens(f, tt, n)
    <3>1. \A i \in 2..n : f[i] = f[i - 1] \o tt[i]
      BY <2>4, <2>5, Zenon
    <3>2. QED
      BY <1>2, <2>4, <2>5, <3>1, FlattensAt, Zenon
  <2>7. PICK g : Flattens(g, tt, n + 1) /\ g[n + 1] = f[n] \o t
    <3>1. n \in Nat /\ n # 0 /\ tt[n + 1] \in Seq(S) /\ f \in [1..n -> Seq(S)]
      BY <1>2, <1>4
    <3>2. GoesOn(S, tt, n, f)
      BY <2>6, <3>1, FlattensOneMore
    <3>3. QED
      BY <1>2, <3>2, Zenon DEF GoesOn
  <2>8. FlattenSeq(tt) = g[n + 1]
    BY <1>2, <2>0, <2>7, FlattenIsLast
  <2>9. QED
    BY <1>1, <2>2, <2>3, <2>7, <2>8 DEF tt
<1>5. QED
  BY <1>3, <1>4
-----------------------------------------------------------------------------
(* The block list *)

LEMMA RunSectorsType == \A r \in Run : RunSectors(r) \in Seq(Nat) /\ Len(RunSectors(r)) = r.len
<1> SUFFICES ASSUME NEW r \in Run PROVE RunSectors(r) \in Seq(Nat) /\ Len(RunSectors(r)) = r.len
  OBVIOUS
<1>1. r.len \in Nat /\ r.start \in Nat
  BY DEF Run
<1>2. \A i \in 1..r.len : r.start + i - 1 \in Nat
  BY <1>1
<1>3. QED
  BY <1>1, <1>2 DEF RunSectors

Pieces(l) == [k \in 1..Len(l) |-> RunSectors(l[k])]

LEMMA PiecesType == \A l \in Seq(Run) : Pieces(l) \in Seq(Seq(Nat)) /\ Len(Pieces(l)) = Len(l)
<1> SUFFICES ASSUME NEW l \in Seq(Run) PROVE Pieces(l) \in Seq(Seq(Nat)) /\ Len(Pieces(l)) = Len(l)
  OBVIOUS
<1>1. \A k \in 1..Len(l) : RunSectors(l[k]) \in Seq(Nat)
  BY RunSectorsType
<1>2. QED
  BY <1>1 DEF Pieces

LEMMA ListedAppend ==
  ASSUME NEW l \in Seq(Run), NEW r \in Run
  PROVE  /\ Listed(l) \in Seq(Nat) /\ Listed(<<>>) = <<>>
         /\ Listed(Append(l, r)) = Listed(l) \o RunSectors(r)
<1>1. Pieces(l) \in Seq(Seq(Nat)) /\ RunSectors(r) \in Seq(Nat)
  BY PiecesType, RunSectorsType
<1>2. Pieces(Append(l, r)) = Append(Pieces(l), RunSectors(r))
  <2>1. Append(l, r) \in Seq(Run) /\ Len(Append(l, r)) = Len(l) + 1
    BY AppendProperties
  <2>2. Len(Pieces(Append(l, r))) = Len(l) + 1 /\ Pieces(Append(l, r)) \in Seq(Seq(Nat))
    BY <2>1, PiecesType
  <2>3. /\ Append(Pieces(l), RunSectors(r)) \in Seq(Seq(Nat))
        /\ Len(Append(Pieces(l), RunSectors(r))) = Len(l) + 1
    BY <1>1, AppendProperties, PiecesType
  <2>4. ASSUME NEW k \in 1..(Len(l) + 1)
        PROVE  Pieces(Append(l, r))[k] = Append(Pieces(l), RunSectors(r))[k]
    <3>1. Pieces(Append(l, r))[k] = RunSectors(Append(l, r)[k])
      BY <2>1 DEF Pieces
    <3>2. CASE k = Len(l) + 1
      <4>1. Append(l, r)[k] = r
        BY <3>2, AppendProperties
      <4>2. Append(Pieces(l), RunSectors(r))[k] = RunSectors(r)
        BY <1>1, <3>2, AppendProperties, PiecesType
      <4>3. QED
        BY <3>1, <4>1, <4>2
    <3>3. CASE k # Len(l) + 1
      <4>1. k \in 1..Len(l)
        BY <3>3
      <4>2. Append(l, r)[k] = l[k]
        BY <4>1, AppendProperties
      <4>3. Append(Pieces(l), RunSectors(r))[k] = Pieces(l)[k]
        BY <1>1, <4>1, AppendProperties, PiecesType
      <4>4. Pieces(l)[k] = RunSectors(l[k])
        BY <4>1 DEF Pieces
      <4>5. QED
        BY <3>1, <4>2, <4>3, <4>4
    <3>4. QED
      BY <3>2, <3>3
  <2>5. QED
    BY <2>2, <2>3, <2>4, SeqEqual
<1>3. Listed(l) = FlattenSeq(Pieces(l)) /\ Listed(Append(l, r)) = FlattenSeq(Pieces(Append(l, r)))
  BY Zenon DEF Listed, Pieces
<1>4. Pieces(<<>>) = <<>> /\ Listed(<<>>) = FlattenSeq(Pieces(<<>>))
  BY DEF Listed, Pieces
<1>5. QED
  BY <1>1, <1>2, <1>3, <1>4, FlattenAppend

(* A run that is one sector longer. *)
LEMMA LongerRun ==
  ASSUME NEW r \in Run, NEW q \in Run, q.start = r.start, q.len = r.len + 1,
         NEW x, r.start + r.len = x
  PROVE  RunSectors(q) = RunSectors(r) \o <<x>>
<1> DEFINE n == r.len
           s == RunSectors(r)
           t == RunSectors(q)
<1>1. n \in Nat /\ r.start \in Nat /\ x \in Nat
  BY DEF Run
<1>2. s \in Seq(Nat) /\ t \in Seq(Nat) /\ Len(s) = n /\ Len(t) = n + 1
  BY RunSectorsType
<1>3. \A i \in 1..(n + 1) : t[i] = r.start + i - 1
  BY <1>1 DEF RunSectors
<1>4. \A i \in 1..n : s[i] = r.start + i - 1
  BY <1>1 DEF RunSectors
<1>5. t[n + 1] = x
  BY <1>1, <1>3
<1> HIDE DEF s, t, n
<1>6. Append(s, x) \in Seq(Nat) /\ Len(Append(s, x)) = n + 1
  BY <1>1, <1>2, AppendProperties
<1>7. \A i \in 1..n : Append(s, x)[i] = s[i]
  BY <1>1, <1>2, AppendProperties
<1>8. Append(s, x)[n + 1] = x
  BY <1>1, <1>2, AppendProperties
<1>9. \A i \in 1..(n + 1) : t[i] = Append(s, x)[i]
  <2> SUFFICES ASSUME NEW i \in 1..(n + 1) PROVE t[i] = Append(s, x)[i]
    OBVIOUS
  <2>1. CASE i = n + 1
    BY <1>5, <1>8, <2>1
  <2>2. CASE i # n + 1
    <3>1. i \in 1..n
      BY <1>1, <2>2
    <3>2. t[i] = s[i]
      BY <1>3, <1>4, <3>1
    <3>3. QED
      BY <1>7, <3>1, <3>2
  <2>3. QED
    BY <2>1, <2>2
<1>10. t = Append(s, x)
  BY <1>2, <1>6, <1>9, SeqEqual
<1>11. QED
  BY <1>1, <1>2, <1>10, AppendIsConcat DEF s, t

(* A sector more in the list is a sector more that is listed, whether the  *)
(* last run got longer or a new one began.                                 *)
LEMMA AddSectorLists ==
  ASSUME NEW l \in Seq(Run), NEW x \in Nat
  PROVE  AddSector(l, x) \in Seq(Run) /\ Listed(AddSector(l, x)) = Append(Listed(l), x)
<1>1. NewRun(x) \in Run /\ Listed(l) \in Seq(Nat)
  <2>1. NewRun(x) \in Run
    BY DEF NewRun, Run
  <2>2. QED
    BY <2>1, ListedAppend
<1>2. CASE ~Follows(l, x)
  <2>1. AddSector(l, x) = Append(l, NewRun(x))
    BY <1>2 DEF AddSector
  <2>2. RunSectors(NewRun(x)) = <<x>>
    BY DEF RunSectors, NewRun
  <2>3. Listed(AddSector(l, x)) = Listed(l) \o <<x>>
    BY <1>1, <2>1, <2>2, ListedAppend
  <2>4. QED
    BY <1>1, <2>1, <2>3, AppendIsConcat, AppendProperties
<1>3. CASE Follows(l, x)
  <2> DEFINE n == Len(l)
             front == SubSeq(l, 1, n - 1)
             r == l[n]
             longer == [r EXCEPT !.len = @ + 1]
  <2>1. n \in Nat \ {0} /\ r \in Run /\ r.start + r.len = x
    BY <1>3, EmptySeq DEF Follows, Last
  <2>2. r.start \in Nat /\ r.len \in Nat /\ longer \in Run
    BY <2>1 DEF Run
  <2>3. front \in Seq(Run) /\ Len(front) = n - 1 /\ \A i \in 1..(n - 1) : front[i] = l[i]
    <3>1. n - 1 \in Int /\ \A i \in 1..(n - 1) : l[i] \in Run
      BY <2>1
    <3>2. /\ front \in Seq(Run) /\ Len(front) = IF 1 <= n - 1 THEN n - 1 - 1 + 1 ELSE 0
          /\ \A i \in 1..(n - 1 - 1 + 1) : front[i] = l[1 + i - 1]
      BY <3>1, SubSeqProperties
    <3> HIDE DEF front, n
    <3>3. n - 1 - 1 + 1 = n - 1 /\ \A i \in 1..(n - 1) : 1 + i - 1 = i
      BY <2>1
    <3>4. \A i \in 1..(n - 1) : front[i] = l[i]
      BY <3>2, <3>3, Zenon
    <3>5. QED
      BY <2>1, <3>2, <3>3, <3>4
  <2>4. l = Append(front, r)
    <3>1. Append(front, r) \in Seq(Run) /\ Len(Append(front, r)) = n
      BY <2>1, <2>3, AppendProperties
    <3>2. \A i \in 1..n : l[i] = Append(front, r)[i]
      BY <2>1, <2>3, AppendProperties
    <3>3. QED
      BY <3>1, <3>2, SeqEqual
  <2>5. AddSector(l, x) = Append(front, longer)
    BY <1>3, <2>1, <2>2, <2>3 DEF AddSector
  <2>6. RunSectors(longer) = RunSectors(r) \o <<x>>
    <3>1. longer.start = r.start /\ longer.len = r.len + 1
      BY <2>1, <2>2 DEF Run
    <3> HIDE DEF r, longer
    <3>2. QED
      BY <2>1, <2>2, <3>1, LongerRun
  <2> HIDE DEF front, r, longer, n
  <2>7. /\ RunSectors(r) \in Seq(Nat) /\ <<x>> \in Seq(Nat) /\ Listed(front) \in Seq(Nat)
    BY <2>1, <2>3, RunSectorsType, ListedAppend
  <2>8. Listed(l) = Listed(front) \o RunSectors(r)
    BY <2>1, <2>3, <2>4, ListedAppend
  <2>9. Listed(AddSector(l, x)) = Listed(front) \o RunSectors(longer)
    BY <2>2, <2>3, <2>5, ListedAppend
  <2>10. Listed(AddSector(l, x)) = Listed(l) \o <<x>>
    BY <2>6, <2>7, <2>8, <2>9, ConcatAssociative
  <2>11. AddSector(l, x) \in Seq(Run)
    BY <2>2, <2>3, <2>5, AppendProperties
  <2>12. QED
    BY <1>1, <2>10, <2>11, AppendIsConcat
<1>4. QED
  BY <1>2, <1>3

LEMMA BlockListStep ==
  ASSUME NEW s \in Seq(Nat), Len(s) # 0
  PROVE  /\ BlockLists(s)[1] = <<>>
         /\ \A i \in 1..(Len(s) - 1) : BlockLists(s)[i + 1] = AddSector(BlockLists(s)[i], s[i + 1])
<1> DEFINE e(f, i) == IF i = 1 THEN <<>> ELSE AddSector(f[i - 1], s[i])
           Defines(f, n) == f = [i \in 1..n |-> e(f, i)]
           Good(n) == \E f : Defines(f, n)
           Bad == {n \in 1..Len(s) : ~Good(n)}
           N == Len(s)
<1>1. N \in Nat \ {0}
  OBVIOUS
<1>2. Good(1)
  <2> DEFINE f == [i \in 1..1 |-> <<>>]
  <2>1. \A i \in 1..1 : e(f, i) = <<>>
    OBVIOUS
  <2> HIDE DEF e
  <2>2. Defines(f, 1)
    BY <2>1
  <2>3. QED
    BY <2>2
<1>3. ASSUME NEW n \in 1..(N - 1), Good(n) PROVE Good(n + 1)
  <2>1. PICK f : Defines(f, n)
    BY <1>3
  <2> DEFINE c == AddSector(f[n], s[n + 1])
             g == [i \in 1..(n + 1) |-> IF i = n + 1 THEN c ELSE f[i]]
  <2> HIDE DEF c
  <2>2. g[n + 1] = c /\ (\A i \in 1..n : g[i] = f[i]) /\ g = [i \in 1..(n + 1) |-> g[i]]
    OBVIOUS
  <2> HIDE DEF g
  <2>3. ASSUME NEW i \in 1..(n + 1) PROVE g[i] = e(g, i)
    <3>1. CASE i = n + 1
      <4>1. i # 1 /\ i - 1 = n /\ n \in 1..n
        BY <3>1
      <4>2. e(g, i) = AddSector(g[n], s[n + 1]) /\ g[n] = f[n]
        BY <2>2, <3>1, <4>1, Zenon
      <4>3. QED
        BY <2>2, <3>1, <4>2, Zenon DEF c
    <3>2. CASE i # n + 1
      <4>1. i \in 1..n /\ (i = 1 \/ i - 1 \in 1..n)
        BY <3>2
      <4>2. f[i] = e(f, i)
        <5> HIDE DEF e
        <5> QED BY <2>1, <4>1
      <4>3. e(g, i) = e(f, i)
        BY <2>2, <4>1, Zenon
      <4>4. QED
        BY <2>2, <4>1, <4>2, <4>3, Zenon
    <3>3. QED
      BY <3>1, <3>2
  <2> HIDE DEF e
  <2>4. Defines(g, n + 1)
    BY <2>2, <2>3, Zenon
  <2>5. QED
    BY <2>4, Zenon
<1> HIDE DEF Good, N
<1>4. Good(N)
  <2> SUFFICES ASSUME ~Good(N) PROVE FALSE
    OBVIOUS
  <2>1. Bad # {} /\ Bad \subseteq Nat
    BY <1>1 DEF N
  <2>2. PICK n \in Bad : \A m \in Bad : n <= m
    <3> HIDE DEF Bad
    <3> QED BY <2>1, LeastNumber
  <2>3. n \in 1..N /\ ~Good(n) /\ n - 1 \notin Bad
    BY <2>2 DEF N
  <2>4. n # 1
    BY <1>2, <2>3
  <2>5. n - 1 \in 1..(N - 1) /\ (n - 1) + 1 = n
    BY <1>1, <2>3, <2>4
  <2>6. Good(n - 1)
    BY <1>1, <2>3, <2>5 DEF N
  <2>7. QED
    BY <1>3, <2>3, <2>5, <2>6
<1>5. Defines(BlockLists(s), N)
  <2>1. BlockLists(s) = CHOOSE f : Defines(f, N)
    BY Zenon DEF BlockLists, N
  <2> HIDE DEF Defines
  <2>2. QED
    BY <1>4, <2>1 DEF Good
<1>6. \A i \in 1..N : BlockLists(s)[i] = e(BlockLists(s), i)
  <2> DEFINE b == BlockLists(s)
  <2>1. b = [i \in 1..N |-> e(b, i)]
    BY <1>5
  <2> HIDE DEF e, b
  <2>2. \A i \in 1..N : b[i] = e(b, i)
    BY <2>1
  <2>3. QED
    BY <2>2 DEF b
<1>7. 1 \in 1..N /\ \A i \in 1..(N - 1) : i + 1 \in 1..N /\ i + 1 # 1 /\ (i + 1) - 1 = i
  BY <1>1
<1>8. BlockLists(s)[1] = <<>>
  BY <1>6, <1>7, Zenon
<1>9. \A i \in 1..(N - 1) : BlockLists(s)[i + 1] = AddSector(BlockLists(s)[i], s[i + 1])
  BY <1>6, <1>7, Zenon
<1>10. QED
  BY <1>8, <1>9 DEF N

(* The block list that disk_read_blocklist_func makes of an image lists    *)
(* the sectors of the image after its first, in their order, however they  *)
(* lie on the disk.                                                        *)
THEOREM BlockListIsImage ==
  ASSUME NEW s \in Seq(Nat), Len(s) # 0
  PROVE  BlockList(s) \in Seq(Run) /\ <<s[1]>> \o Listed(BlockList(s)) = s
<1> DEFINE N == Len(s)
           b == BlockLists(s)
           Good(i) == b[i] \in Seq(Run) /\ <<s[1]>> \o Listed(b[i]) = SubSeq(s, 1, i)
           Bad == {i \in 1..N : ~Good(i)}
<1>1. N \in Nat \ {0} /\ \A i \in 1..N : s[i] \in Nat
  OBVIOUS
<1>2. b[1] = <<>> /\ \A i \in 1..(N - 1) : b[i + 1] = AddSector(b[i], s[i + 1])
  BY BlockListStep
<1> HIDE DEF b, N
<1>0. <<s[1]>> \in Seq(Nat) /\ 1 \in 1..N /\ s[1] \in Nat
  BY <1>1
<1>3. Good(1)
  <2>1. SubSeq(s, 1, 1) = <<s[1]>>
    <3>1. 1 \in 1..Len(s) /\ 1 + 1 \in Int /\ 1 \in Int /\ 1 < 1 + 1
      BY <1>0 DEF N
    <3>2. SubSeq(s, 1, 1) = <<s[1]>> \o SubSeq(s, 1 + 1, 1)
      BY <3>1, SubSeqRecursiveFirst
    <3>3. SubSeq(s, 1 + 1, 1) = <<>>
      BY <3>1, SubSeqEmpty
    <3>4. QED
      BY <1>0, <3>2, <3>3, ConcatEmptySeq
  <2>2. Listed(<<>>) = <<>>
    <3>1. [start |-> 0, len |-> 0] \in Run /\ <<>> \in Seq(Run)
      BY DEF Run
    <3>2. QED
      BY <3>1, ListedAppend
  <2>3. <<s[1]>> \o <<>> = <<s[1]>>
    BY <1>0, ConcatEmptySeq
  <2>4. QED
    BY <1>2, <2>1, <2>2, <2>3
<1>4. ASSUME NEW i \in 1..(N - 1), Good(i) PROVE Good(i + 1)
  <2> DEFINE x == s[i + 1]
             first == SubSeq(s, 1, i)
             listed == Listed(b[i])
  <2>1. x \in Nat
    BY <1>1
  <2>2. b[i + 1] \in Seq(Run) /\ Listed(b[i + 1]) = Append(listed, x)
    BY <1>2, <1>4, <2>1, AddSectorLists
  <2>3. listed \in Seq(Nat)
    <3>1. [start |-> 0, len |-> 0] \in Run
      BY DEF Run
    <3>2. QED
      BY <1>4, <3>1, ListedAppend
  <2>4. SubSeq(s, 1, i + 1) = Append(first, x)
    <3>1. i + 1 \in 1..Len(s) /\ 1 \in 1..Len(s) /\ 1 \in 1..(i + 1) /\ (i + 1) - 1 = i
      BY <1>1 DEF N
    <3>2. SubSeq(s, 1, i + 1) = Append(SubSeq(s, 1, (i + 1) - 1), s[i + 1])
      BY <3>1, SubSeqRecursiveSecond
    <3>3. QED
      BY <3>1, <3>2
  <2> HIDE DEF x, first, listed
  <2>5. <<s[1]>> \o Append(listed, x) = Append(<<s[1]>> \o listed, x)
    <3>1. Append(listed, x) = listed \o <<x>> /\ <<x>> \in Seq(Nat)
      BY <2>1, <2>3, AppendIsConcat
    <3>2. <<s[1]>> \o (listed \o <<x>>) = (<<s[1]>> \o listed) \o <<x>>
      BY <1>0, <2>3, <3>1, ConcatAssociative, SMTT(30)
    <3>3. <<s[1]>> \o listed \in Seq(Nat)
      BY <1>0, <2>3, ConcatProperties
    <3>4. QED
      BY <2>1, <3>1, <3>2, <3>3, AppendIsConcat
  <2>6. <<s[1]>> \o listed = first
    BY <1>4 DEF listed, first
  <2>7. QED
    BY <2>2, <2>4, <2>5, <2>6
<1> HIDE DEF Good
<1>5. Good(N)
  <2> SUFFICES ASSUME ~Good(N) PROVE FALSE
    OBVIOUS
  <2>1. Bad # {} /\ Bad \subseteq Nat
    BY <1>1
  <2>2. PICK n \in Bad : \A m \in Bad : n <= m
    <3> HIDE DEF Bad
    <3> QED BY <2>1, LeastNumber
  <2>3. n \in 1..N /\ ~Good(n) /\ n - 1 \notin Bad
    BY <2>2
  <2>4. n # 1
    BY <1>3, <2>3
  <2>5. n - 1 \in 1..(N - 1) /\ (n - 1) + 1 = n
    BY <1>1, <2>3, <2>4
  <2>6. Good(n - 1)
    BY <1>1, <2>3, <2>5
  <2>7. QED
    BY <1>4, <2>3, <2>5, <2>6
<1>6. SubSeq(s, 1, N) = s /\ BlockList(s) = b[N]
  BY SubSeqFull DEF BlockList, b, N
<1>7. QED
  BY <1>5, <1>6 DEF Good
-----------------------------------------------------------------------------
(***************************************************************************)
(* The inductive invariant.                                                *)
(***************************************************************************)
(* What the disk is: the partition's image files lie after what its file   *)
(* system leaves free.                                                     *)
Geometry ==
  /\ lay.start \in Nat \ {0} /\ lay.start \in Sectors
  /\ lay.reserve \in Nat /\ lay.ezbios \in BOOLEAN
  /\ Stage2 \in Seq(Nat) /\ Len(Stage2) > 1
  /\ \A i \in 1..Len(Stage2) : Stage2[i] \in Sectors /\ Stage2[i] > lay.start + lay.reserve
  /\ \A i, j \in 1..Len(Stage2) : Stage2[i] = Stage2[j] => i = j

(* Stage 2 is whole at any time. *)
ImageWhole == IsImage("s2", Stage2)

(* Stage 1 in b loads Stage 2, or an image that was embedded. *)
LoadsStage2(b) ==
  /\ disk[b].next = Stage2[1]
  /\ disk[Stage2[1]].list = BlockList(Stage2) /\ disk[Stage2[2]].conf = "menu"

LoadsEmbedded(b) == disk[disk[b].next].img = "s15"

BootSectorsKept ==
  \A b \in BootSectors :
    /\ disk[b].img \in {"os", "stage1"}
    /\ disk[b].img = "stage1" => LoadsStage2(b) \/ LoadsEmbedded(b)

(* No boot sector is switched to an embedded image before the end. *)
NotYetSwitched ==
  ~reused /\ result # "installed" =>
    \A b \in BootSectors : disk[b].img = "stage1" => LoadsStage2(b)

(* The command embeds where there is room. *)
Placed == Room(Device) /\ job.at = Stage15At(AreaOf(Device))

(* What a write of install leaves behind. *)
Done(step) ==
  CASE step = "config" -> disk[Stage2[2]].conf = "menu"
    [] step = "first"  -> disk[ImageSectors[1]].list = BlockList(ImageSectors)
    [] step = "second" -> disk[ImageSectors[2]].conf = IF job.image = "s15" THEN "stage2" ELSE "menu"
    [] OTHER -> FALSE

UnderWay ==
  /\ pc # "idle" => result = "none"
  /\ pc \in {"idle", "embed", "embedding"} => job.image = "s2"
  /\ pc = "embedding" => /\ Placed /\ job.i \in 1..Stage15Size
                         /\ \A k \in 1..(job.i - 1) : disk[job.at[k]] = Cell("s15", k - 1)
  /\ job.image = "s15" => Placed /\ IsImage("s15", job.at)
  /\ pc = "writing" => /\ job.i \in 1..Len(Order(job.image))
                       /\ Fits(BlockList(ImageSectors))
                       /\ \A k \in 1..(job.i - 1) : Done(Order(job.image)[k])

IInv == /\ TypeOK /\ Geometry /\ ImageWhole /\ BootSectorsKept /\ NotYetSwitched /\ UnderWay

USE DEF MBR

LEMMA InitIInv == Init => IInv
<1> SUFFICES ASSUME Init PROVE IInv
  OBVIOUS
<1>1. PICK p \in Starts, r \in Reserves, e \in BOOLEAN, l \in Layouts :
        lay = [start |-> p, reserve |-> r, ezbios |-> e,
               stage2 |-> [i \in 1..Len(l) |-> p + r + l[i]]]
  BY DEF Init
<1>2. /\ p \in Nat \ {0} /\ r \in Nat /\ l \in Seq(Nat \ {0}) /\ Len(l) > 1 /\ Len(l) \in Nat
      /\ \A i \in 1..Len(l) : p + r + l[i] < DiskSize /\ l[i] \in Nat \ {0}
      /\ \A i, j \in 1..Len(l) : l[i] = l[j] => i = j
  <2>1. IsInjective(l) /\ DOMAIN l = 1..Len(l)
    BY LayoutAssumption, LenProperties
  <2>2. \A i, j \in 1..Len(l) : l[i] = l[j] => i = j
    BY <2>1 DEF IsInjective
  <2>3. QED
    BY <2>2, LayoutAssumption
<1>3. /\ lay.start = p /\ lay.reserve = r /\ lay.ezbios = e
      /\ Stage2 = [i \in 1..Len(l) |-> p + r + l[i]]
  BY <1>1 DEF Stage2
<1>4. /\ Stage2 \in Seq(Nat) /\ Len(Stage2) = Len(l)
      /\ \A i \in 1..Len(l) : Stage2[i] = p + r + l[i]
  BY <1>2, <1>3
<1>5. Geometry
  <2>1. \A i \in 1..Len(l) : Stage2[i] \in Nat /\ Stage2[i] < DiskSize /\ Stage2[i] > p + r
    BY <1>2, <1>4
  <2>2. p \in Sectors /\ \A i \in 1..Len(l) : Stage2[i] \in Sectors
    BY <1>2, <2>1, SizeAssumption, SMTT(30) DEF Sectors
  <2>3. \A i, j \in 1..Len(l) : Stage2[i] = Stage2[j] => i = j
    BY <1>2, <1>4, SMTT(30)
  <2>4. QED
    BY <1>2, <1>3, <1>4, <2>1, <2>2, <2>3 DEF Geometry
<1>6. BootSectors = {0, p} /\ 0 \in Sectors
  BY <1>2, <1>3, <1>5, SizeAssumption DEF BootSectors, Geometry, Sectors
<1>7. /\ <<>> \in Seq(Run) /\ Fits(<<>>)
  BY SizeAssumption DEF Fits
<1>8. \A n \in Nat : Cell("s2", n) \in SectorCell
  BY <1>6, <1>7 DEF Cell, SectorCell
<1>9. Foreign \in SectorCell /\ Data \in SectorCell /\ Foreign.img = "os"
  BY <1>6, <1>7 DEF Foreign, Data, Cell, SectorCell
<1>10. \A s \in Sectors : disk[s] \in SectorCell
  <2> SUFFICES ASSUME NEW s \in Sectors PROVE disk[s] \in SectorCell
    OBVIOUS
  <2>1. CASE \E i \in 1..Len(Stage2) : Stage2[i] = s
    <3> DEFINE j == CHOOSE i \in 1..Len(Stage2) : Stage2[i] = s
    <3>1. j \in 1..Len(Stage2)
      BY <2>1
    <3> HIDE DEF j
    <3>2. j - 1 \in Nat
      BY <1>2, <1>4, <3>1
    <3>3. disk[s] \in {Foreign, Cell("s2", j - 1)}
      BY <2>1, Zenon DEF Init, j
    <3>4. QED
      BY <1>8, <1>9, <3>2, <3>3
  <2>2. CASE ~\E i \in 1..Len(Stage2) : Stage2[i] = s
    BY <1>9, <2>2 DEF Init
  <2>3. QED
    BY <2>1, <2>2
<1>11. disk \in [Sectors -> SectorCell]
  <2>1. disk = [s \in Sectors |-> disk[s]]
    BY Zenon DEF Init
  <2>2. QED
    BY <1>10, <2>1
<1>12. TypeOK
  <2>1. job \in [dest : BootSectors, at : Seq(Sectors), attempt : 1..2, i : Nat,
                 setup : BOOLEAN, image : {"s2", "s15"}]
    <3>1. <<>> \in Seq(Sectors) /\ 0 \in BootSectors
      BY <1>6
    <3>2. job = NoJob
      BY DEF Init
    <3>3. QED
      BY <3>1, <3>2 DEF NoJob
  <2>2. pc = "idle" /\ result = "none" /\ reused = FALSE /\ commands = 0
    BY Zenon DEF Init
  <2>3. commands \in 0..MaxCommands
    BY <2>2, SizeAssumption
  <2>4. QED
    BY <1>11, <2>1, <2>2, <2>3, Zenon DEF TypeOK
<1>13. ImageWhole
  <2> SUFFICES ASSUME NEW i \in 1..Len(Stage2)
               PROVE  disk[Stage2[i]].img = "s2" /\ disk[Stage2[i]].n = i - 1
    BY DEF ImageWhole, IsImage
  <2>1. Stage2[i] \in Sectors /\ Stage2[i] \notin BootSectors
    BY <1>2, <1>3, <1>4, <1>5, <1>6 DEF Geometry
  <2>2. (CHOOSE j \in 1..Len(Stage2) : Stage2[j] = Stage2[i]) = i
    BY <1>5 DEF Geometry
  <2>3. disk[Stage2[i]] = Cell("s2", i - 1)
    BY <2>1, <2>2 DEF Init
  <2>4. QED
    BY <2>3 DEF Cell
<1>14. \A b \in BootSectors : disk[b].img = "os"
  <2>1. \A b \in BootSectors : b \in Sectors
    BY <1>3, <1>5, <1>6 DEF Geometry
  <2>2. \A b \in BootSectors : disk[b] = Foreign
    BY <2>1 DEF Init
  <2>3. QED
    BY <1>9, <2>2
<1>15. BootSectorsKept /\ NotYetSwitched
  BY <1>14 DEF BootSectorsKept, NotYetSwitched
<1>16. UnderWay
  BY DEF Init, UnderWay, NoJob
<1>17. QED
  BY <1>5, <1>12, <1>13, <1>15, <1>16 DEF IInv

-----------------------------------------------------------------------------
(* Where a Stage 1.5 is embedded belongs to no one. *)
LEMMA AreaFacts ==
  ASSUME Geometry, NEW b \in BootSectors, Room(b)
  PROVE  /\ Stage15At(AreaOf(b)) \in Seq(Sectors) /\ Len(Stage15At(AreaOf(b))) = Stage15Size
         /\ \A k \in 1..Stage15Size :
              /\ Stage15At(AreaOf(b))[k] \in Sectors \ BootSectors
              /\ \A i \in 1..Len(Stage2) : Stage2[i] # Stage15At(AreaOf(b))[k]
              /\ Free(Stage15At(AreaOf(b))[k])
         /\ \A j, k \in 1..Stage15Size :
              Stage15At(AreaOf(b))[j] = Stage15At(AreaOf(b))[k] => j = k
<1> DEFINE a == Stage15At(AreaOf(b))
<1>1. /\ Stage15Size \in Nat /\ DiskSize \in Nat
      /\ lay.start \in Nat \ {0} /\ lay.start \in Sectors /\ lay.reserve \in Nat
      /\ Len(Stage2) > 1 /\ Len(Stage2) \in Nat
      /\ \A i \in 1..Len(Stage2) : Stage2[i] \in Sectors /\ Stage2[i] > lay.start + lay.reserve
  BY SizeAssumption DEF Geometry
<1>2. b \in {0, lay.start} /\ b \in Nat
  BY <1>1 DEF BootSectors
<1>3. \A k \in 1..Stage15Size : a[k] = b + k
  BY <1>1, <1>2 DEF Stage15At, AreaOf
<1>4. ASSUME NEW k \in 1..Stage15Size
      PROVE  /\ b + k \in Sectors \ BootSectors /\ Free(b + k)
             /\ \A i \in 1..Len(Stage2) : Stage2[i] # b + k
  <2>1. CASE b = 0
    <3>1. lay.start - 1 >= Stage15Size /\ ~lay.ezbios
      BY <2>1 DEF Room
    <3>2. b + k \in 1..(lay.start - 1)
      BY <1>1, <2>1, <3>1
    <3>3. QED
      BY <1>1, <3>1, <3>2 DEF BootSectors, Free, Sectors
  <2>2. CASE b # 0
    <3>1. lay.reserve >= Stage15Size /\ b = lay.start
      BY <1>2, <2>2 DEF Room
    <3>2. b + k \in (lay.start + 1)..(lay.start + lay.reserve)
      BY <1>1, <3>1
    <3>3. Stage2[1] \in Sectors /\ Stage2[1] > lay.start + lay.reserve
      BY <1>1
    <3>4. b + k \in Sectors
      BY <1>1, <3>2, <3>3 DEF Sectors
    <3>5. QED
      BY <1>1, <3>2, <3>4 DEF BootSectors, Free, Sectors
  <2>3. QED
    BY <2>1, <2>2
<1>5. a = [k \in 1..Stage15Size |-> b + k]
  BY <1>1, <1>2 DEF Stage15At, AreaOf
<1>6. a \in Seq(Sectors) /\ Len(a) = Stage15Size
  BY <1>1, <1>4, <1>5
<1>7. \A j, k \in 1..Stage15Size : b + j = b + k => j = k
  BY <1>1, <1>2
<1>8. QED
  BY <1>3, <1>4, <1>6, <1>7

(* The image that install works on is whole, and lies where no boot sector *)
(* is.                                                                     *)
LEMMA ImageFacts ==
  ASSUME IInv
  PROVE  /\ ImageSectors \in Seq(Sectors) /\ Len(ImageSectors) > 1 /\ Len(ImageSectors) \in Nat
         /\ IsImage(job.image, ImageSectors)
         /\ ImageSectors[1] \in Sectors \ BootSectors /\ ImageSectors[2] \in Sectors \ BootSectors
         /\ ImageSectors[1] # ImageSectors[2]
         /\ job.image = "s2" => ImageSectors = Stage2
         /\ job.image = "s15" =>
              /\ ImageSectors = job.at /\ Len(job.at) = Stage15Size
              /\ \A k \in 1..Stage15Size :
                   /\ job.at[k] \in Sectors \ BootSectors /\ Free(job.at[k])
                   /\ \A i \in 1..Len(Stage2) : Stage2[i] # job.at[k]
         /\ \A i \in 1..Len(Stage2) : Stage2[i] \in Sectors \ BootSectors
         /\ Device \in BootSectors
<1>1. Geometry /\ TypeOK /\ ImageWhole
  BY DEF IInv
<1>2. /\ Len(Stage2) \in Nat /\ Len(Stage2) > 1 /\ Stage2 \in Seq(Nat)
      /\ \A i \in 1..Len(Stage2) : Stage2[i] \in Sectors \ BootSectors
  BY <1>1 DEF Geometry, BootSectors, Sectors
<1>3. Stage2 \in Seq(Sectors)
  BY <1>2, IsASeq, LenProperties
<1>4. 1 \in 1..Len(Stage2) /\ 2 \in 1..Len(Stage2) /\ Stage2[1] # Stage2[2]
  BY <1>1, <1>2 DEF Geometry
<1>5. Device \in BootSectors /\ job.image \in {"s2", "s15"}
  BY <1>1 DEF Device, TypeOK, BootSectors
<1>6. CASE job.image = "s2"
  <2>1. ImageSectors = Stage2
    BY <1>6 DEF ImageSectors
  <2>2. IsImage(job.image, ImageSectors)
    BY <1>1, <1>6, <2>1 DEF ImageWhole
  <2>3. QED
    BY <1>2, <1>3, <1>4, <1>5, <1>6, <2>1, <2>2
<1>7. CASE job.image = "s15"
  <2>1. ImageSectors = job.at /\ Room(Device) /\ job.at = Stage15At(AreaOf(Device)) /\ IsImage("s15", job.at)
    BY <1>7 DEF ImageSectors, IInv, UnderWay, Placed
  <2>2. /\ job.at \in Seq(Sectors) /\ Len(job.at) = Stage15Size
        /\ \A k \in 1..Stage15Size :
              /\ job.at[k] \in Sectors \ BootSectors /\ Free(job.at[k])
              /\ \A i \in 1..Len(Stage2) : Stage2[i] # job.at[k]
        /\ \A j, k \in 1..Stage15Size : job.at[j] = job.at[k] => j = k
    BY <1>1, <1>5, <2>1, AreaFacts
  <2>3. 1 \in 1..Stage15Size /\ 2 \in 1..Stage15Size /\ 1 # 2 /\ Stage15Size > 1 /\ Stage15Size \in Nat
    BY SizeAssumption
  <2>4. job.at[1] # job.at[2]
    BY <2>2, <2>3
  <2>5. QED
    BY <1>2, <1>5, <1>7, <2>1, <2>2, <2>3, <2>4
<1>8. QED
  BY <1>5, <1>6, <1>7
-----------------------------------------------------------------------------
(***************************************************************************)
(* What a step does to the disk.                                           *)
(***************************************************************************)
LEMMA BootOnDisk ==
  ASSUME Geometry PROVE BootSectors \subseteq Sectors
<1>1. lay.start \in Nat \ {0} /\ lay.start \in 0..(DiskSize - 1) /\ DiskSize \in Nat
  BY SizeAssumption DEF Geometry, Sectors
<1>2. 0 \in 0..(DiskSize - 1)
  BY <1>1
<1>3. QED
  BY <1>1, <1>2 DEF BootSectors, Sectors

(* Only the command's variables change. *)
LEMMA DiskSame ==
  ASSUME IInv, UNCHANGED <<lay, disk>>
  PROVE  /\ Geometry' /\ ImageWhole' /\ BootSectorsKept'
         /\ disk' \in [Sectors -> SectorCell] /\ BootSectors' = BootSectors /\ Stage2' = Stage2
         /\ \A b \in BootSectors : LoadsStage2(b) <=> LoadsStage2(b)'
<1>1. lay' = lay /\ disk' = disk
  OBVIOUS
<1>2. BootSectors' = BootSectors /\ Stage2' = Stage2
  BY <1>1 DEF BootSectors, Stage2
<1>3. Geometry'
  BY <1>1, <1>2, Zenon DEF IInv, Geometry
<1>4. ImageWhole'
  BY <1>1, <1>2, Zenon DEF IInv, ImageWhole, IsImage
<1>5. \A b \in BootSectors : LoadsStage2(b) <=> LoadsStage2(b)'
  BY <1>1, <1>2, Zenon DEF LoadsStage2
<1>6. BootSectorsKept'
  BY <1>1, <1>2, <1>5, Zenon DEF IInv, BootSectorsKept, LoadsEmbedded
<1>7. QED
  BY <1>1, <1>2, <1>3, <1>4, <1>5, <1>6 DEF IInv, TypeOK

(* What a write may do to a sector of an image: it leaves Stage 2 whole,   *)
(* patches it only with what it should hold, and does not undo an          *)
(* embedded image.                                                         *)
SafeCell(s, c) ==
  /\ \A i \in 1..Len(Stage2) : Stage2[i] = s => c.img = "s2" /\ c.n = disk[s].n
  /\ s = Stage2[1] => c.list \in {disk[s].list, BlockList(Stage2)}
  /\ s = Stage2[2] => c.conf \in {disk[s].conf, "menu"}
  /\ disk[s].img = "s15" => c.img = "s15"

LEMMA WriteKeeps ==
  ASSUME IInv, lay' = lay, NEW s \in Sectors \ BootSectors, NEW c \in SectorCell, SafeCell(s, c),
         disk' = [disk EXCEPT ![s] = c]
  PROVE  /\ Geometry' /\ ImageWhole' /\ BootSectorsKept'
         /\ disk' \in [Sectors -> SectorCell] /\ BootSectors' = BootSectors /\ Stage2' = Stage2
         /\ \A b \in BootSectors : disk'[b] = disk[b] /\ (LoadsStage2(b) => LoadsStage2(b)')
         /\ disk'[s] = c /\ \A t \in Sectors \ {s} : disk'[t] = disk[t]
<1>1. BootSectors' = BootSectors /\ Stage2' = Stage2
  BY DEF BootSectors, Stage2
<1>2. Geometry'
  BY <1>1, Zenon DEF IInv, Geometry
<1>3. disk \in [Sectors -> SectorCell]
  BY DEF IInv, TypeOK
<1>4. disk' \in [Sectors -> SectorCell] /\ disk'[s] = c /\ \A t \in Sectors \ {s} : disk'[t] = disk[t]
  BY <1>3
<1>5. \A b \in BootSectors : b \in Sectors \ {s}
  BY BootOnDisk DEF IInv
<1>6. \A b \in BootSectors : disk'[b] = disk[b]
  BY <1>4, <1>5
<1>7. ImageWhole'
  <2> SUFFICES ASSUME NEW i \in 1..Len(Stage2)
               PROVE  disk'[Stage2[i]].img = "s2" /\ disk'[Stage2[i]].n = i - 1
    BY <1>1 DEF ImageWhole, IsImage
  <2>1. disk[Stage2[i]].img = "s2" /\ disk[Stage2[i]].n = i - 1 /\ Stage2[i] \in Sectors
    BY DEF IInv, ImageWhole, IsImage, Geometry
  <2>2. QED
    BY <1>4, <2>1 DEF SafeCell
<1>8. ASSUME NEW b \in BootSectors, LoadsStage2(b) PROVE LoadsStage2(b)'
  <2>1. Stage2[1] \in Sectors /\ Stage2[2] \in Sectors
    BY DEF IInv, Geometry
  <2>2. disk'[b].next = Stage2[1] /\ disk[Stage2[1]].list = BlockList(Stage2) /\ disk[Stage2[2]].conf = "menu"
    BY <1>6, <1>8 DEF LoadsStage2
  <2>3. disk'[Stage2[1]].list = BlockList(Stage2)
    BY <1>4, <2>1, <2>2 DEF SafeCell
  <2>4. disk'[Stage2[2]].conf = "menu"
    BY <1>4, <2>1, <2>2 DEF SafeCell
  <2>5. QED
    BY <1>1, <2>2, <2>3, <2>4 DEF LoadsStage2
<1>9. ASSUME NEW b \in BootSectors, LoadsEmbedded(b) PROVE LoadsEmbedded(b)'
  <2>1. disk[b] \in SectorCell
    BY <1>3, <1>5
  <2>2. disk[b].next \in Sectors
    BY <2>1 DEF SectorCell
  <2>3. disk'[b].next = disk[b].next
    BY <1>6
  <2>4. disk'[disk[b].next].img = "s15"
    BY <1>4, <1>9, <2>2 DEF LoadsEmbedded, SafeCell
  <2>5. QED
    BY <2>3, <2>4 DEF LoadsEmbedded
<1>10. BootSectorsKept'
  <2> SUFFICES ASSUME NEW b \in BootSectors
               PROVE  /\ disk'[b].img \in {"os", "stage1"}
                      /\ disk'[b].img = "stage1" => LoadsStage2(b)' \/ LoadsEmbedded(b)'
    BY <1>1 DEF BootSectorsKept
  <2>1. /\ disk[b].img \in {"os", "stage1"}
        /\ disk[b].img = "stage1" => LoadsStage2(b) \/ LoadsEmbedded(b)
    BY DEF IInv, BootSectorsKept
  <2>2. QED
    BY <1>6, <1>8, <1>9, <2>1
<1>11. QED
  BY <1>1, <1>2, <1>4, <1>6, <1>7, <1>8, <1>10

(* A command that is under way has not switched to an embedded image. *)
LEMMA StillNotSwitched ==
  ASSUME IInv, pc # "idle", reused' = reused, BootSectors' = BootSectors,
         \A b \in BootSectors : disk'[b] = disk[b] /\ (LoadsStage2(b) => LoadsStage2(b)')
  PROVE  NotYetSwitched'
<1>1. result = "none"
  BY DEF IInv, UnderWay
<1>2. ~reused => \A b \in BootSectors : disk[b].img = "stage1" => LoadsStage2(b)
  BY <1>1 DEF IInv, NotYetSwitched
<1>3. QED
  BY <1>2 DEF NotYetSwitched
-----------------------------------------------------------------------------
(***************************************************************************)
(* The steps.                                                              *)
(***************************************************************************)
JobType == [dest : BootSectors, at : Seq(Sectors), attempt : 1..2, i : Nat,
            setup : BOOLEAN, image : {"s2", "s15"}]

LEMMA NoJobType == NoJob \in JobType
<1>1. <<>> \in Seq(Sectors) /\ 0 \in BootSectors
  BY DEF BootSectors
<1>2. QED
  BY <1>1 DEF NoJob, JobType

(* A command that ends leaves nothing under way. *)
LEMMA EndFacts ==
  ASSUME NEW r \in {"none", "failed", "embedded", "installed"}, End(r), BootSectors' = BootSectors
  PROVE  /\ UnderWay' /\ pc' = "idle" /\ job' \in JobType' /\ result' = r
<1>1. pc' = "idle" /\ result' = r /\ job' = NoJob
  BY DEF End
<1>2. job'.image = "s2"
  BY <1>1 DEF NoJob
<1>3. UnderWay'
  BY <1>1, <1>2 DEF UnderWay
<1>4. job' \in JobType'
  BY <1>1, NoJobType DEF JobType
<1>5. QED
  BY <1>1, <1>3, <1>4

LEMMA BeginKeeps ==
  ASSUME IInv, NEW next \in {"embed", "install"}, NEW j \in JobType, j.image = "s2", Begin(next, j)
  PROVE  IInv'
<1>1. /\ pc' = next /\ job' = j /\ result' = "none" /\ UNCHANGED <<lay, disk>>
      /\ reused' = \E b \in BootSectors : UsesArea(b)
      /\ commands < MaxCommands /\ commands' = commands + 1
  BY DEF Begin
<1>2. /\ Geometry' /\ ImageWhole' /\ BootSectorsKept'
      /\ disk' \in [Sectors -> SectorCell] /\ BootSectors' = BootSectors /\ Stage2' = Stage2
      /\ \A b \in BootSectors : LoadsStage2(b) <=> LoadsStage2(b)'
  BY <1>1, DiskSame
<1>3. NotYetSwitched'
  <2> SUFFICES ASSUME ~reused', NEW b \in BootSectors, disk'[b].img = "stage1" PROVE LoadsStage2(b)'
    BY <1>2 DEF NotYetSwitched
  <2>1. ~UsesArea(b) /\ disk[b].img = "stage1"
    BY <1>1
  <2>2. ~LoadsEmbedded(b)
    BY <2>1 DEF UsesArea, LoadsEmbedded
  <2>3. LoadsStage2(b)
    BY <2>1, <2>2 DEF IInv, BootSectorsKept
  <2>4. QED
    BY <1>2, <2>3
<1>4. UnderWay'
  BY <1>1 DEF UnderWay
<1>5. TypeOK'
  <2>1. commands' \in 0..MaxCommands
    BY <1>1, SizeAssumption DEF IInv, TypeOK
  <2>2. reused' \in BOOLEAN
    BY <1>1
  <2>3. job' \in JobType'
    BY <1>1, <1>2 DEF JobType
  <2>4. QED
    BY <1>1, <1>2, <2>1, <2>2, <2>3 DEF TypeOK, JobType
<1>6. QED
  BY <1>2, <1>3, <1>4, <1>5 DEF IInv

(* The steps of a command that is under way. *)
LEMMA StepKeeps ==
  ASSUME IInv, pc # "idle", UNCHANGED <<lay, reused, commands>>,
         Geometry', ImageWhole', BootSectorsKept', disk' \in [Sectors -> SectorCell],
         BootSectors' = BootSectors,
         \A b \in BootSectors : disk'[b] = disk[b] /\ (LoadsStage2(b) => LoadsStage2(b)'),
         UnderWay', pc' \in {"idle", "embed", "embedding", "install", "writing"},
         job' \in JobType', result' \in {"none", "failed", "embedded", "installed"}
  PROVE  IInv'
<1>1. NotYetSwitched'
  BY StillNotSwitched
<1>2. reused' \in BOOLEAN /\ commands' \in 0..MaxCommands
  BY DEF IInv, TypeOK
<1>3. TypeOK'
  BY <1>2, Zenon DEF TypeOK, JobType
<1>4. QED
  BY <1>1, <1>3 DEF IInv

(* One that writes nothing. *)
LEMMA QuietStepKeeps ==
  ASSUME IInv, pc # "idle", UNCHANGED <<lay, disk, reused, commands>>,
         UnderWay', pc' \in {"idle", "embed", "embedding", "install", "writing"},
         job' \in JobType', result' \in {"none", "failed", "embedded", "installed"}
  PROVE  IInv'
<1>1. /\ Geometry' /\ ImageWhole' /\ BootSectorsKept'
      /\ disk' \in [Sectors -> SectorCell] /\ BootSectors' = BootSectors /\ Stage2' = Stage2
      /\ \A b \in BootSectors : LoadsStage2(b) <=> LoadsStage2(b)'
  BY DiskSame
<1>2. disk' = disk
  OBVIOUS
<1>3. QED
  BY <1>1, <1>2, StepKeeps

LEMMA EndKeeps ==
  ASSUME IInv, pc # "idle", NEW r \in {"none", "failed"}, End(r),
         UNCHANGED <<lay, disk, reused, commands>>
  PROVE  IInv'
<1>1. BootSectors' = BootSectors
  BY DEF BootSectors
<1>2. UnderWay' /\ pc' = "idle" /\ job' \in JobType' /\ result' = r
  BY <1>1, EndFacts
<1>3. QED
  BY <1>2, QuietStepKeeps

LEMMA EmbedFailedKeeps ==
  ASSUME IInv, pc \in {"embed", "embedding"}, EmbedFailed, UNCHANGED <<lay, disk, reused, commands>>
  PROVE  IInv'
<1>1. CASE ~job.setup /\ End("failed")
  BY <1>1, EndKeeps
<1>2. job \in JobType /\ job.image = "s2" /\ result = "none" /\ BootSectors' = BootSectors
  BY DEF IInv, TypeOK, JobType, UnderWay, BootSectors
<1>3. CASE pc' = "embed" /\ job' = [job EXCEPT !.attempt = 2] /\ UNCHANGED result
  <2>1. job' \in JobType /\ job'.image = "s2"
    BY <1>2, <1>3 DEF JobType
  <2>2. job' \in JobType'
    BY <1>2, <2>1 DEF JobType
  <2>3. UnderWay'
    BY <1>2, <1>3, <2>1 DEF UnderWay
  <2>4. QED
    BY <1>2, <1>3, <2>2, <2>3, QuietStepKeeps
<1>4. CASE pc' = "install" /\ UNCHANGED <<job, result>>
  <2>1. job' \in JobType' /\ job'.image = "s2"
    BY <1>2, <1>4 DEF JobType
  <2>2. UnderWay'
    BY <1>2, <1>4, <2>1 DEF UnderWay
  <2>3. QED
    BY <1>2, <1>4, <2>1, <2>2, QuietStepKeeps
<1>5. QED
  BY <1>1, <1>3, <1>4 DEF EmbedFailed

LEMMA EmbedCheckKeeps ==
  ASSUME IInv, EmbedCheck PROVE IInv'
<1>1. pc = "embed" /\ UNCHANGED <<lay, disk, reused, commands>>
  BY DEF EmbedCheck
<1>2. CASE EmbedFailed
  BY <1>1, <1>2, EmbedFailedKeeps
<1>3. CASE /\ Room(Device)
           /\ pc' = "embedding"
           /\ job' = [job EXCEPT !.at = Stage15At(AreaOf(Device)), !.i = 1]
           /\ UNCHANGED result
  <2>1. job \in JobType /\ job.image = "s2" /\ result = "none" /\ BootSectors' = BootSectors
    BY <1>1 DEF IInv, TypeOK, JobType, UnderWay, BootSectors
  <2>2. Geometry /\ Device \in BootSectors
    BY ImageFacts DEF IInv
  <2>3. Stage15At(AreaOf(Device)) \in Seq(Sectors)
    BY <1>3, <2>2, AreaFacts
  <2>4. /\ job'.image = "s2" /\ job'.i = 1 /\ job'.at = Stage15At(AreaOf(Device))
        /\ job'.attempt = job.attempt /\ job'.dest = job.dest
    BY <1>3, <2>1 DEF JobType
  <2>5. job' \in JobType'
    BY <1>3, <2>1, <2>3 DEF JobType
  <2>6. Device' = Device /\ lay' = lay
    BY <1>1, <2>4 DEF Device
  <2>7. Placed'
    BY <1>3, <2>4, <2>6 DEF Placed, Room, AreaOf, Stage15At
  <2>8. job'.i \in 1..Stage15Size /\ \A k \in 1..(job'.i - 1) : FALSE
    BY <2>4, SizeAssumption
  <2>9. UnderWay'
    BY <1>1, <1>3, <2>1, <2>4, <2>7, <2>8, Zenon DEF UnderWay
  <2>10. QED
    BY <1>1, <1>3, <2>1, <2>5, <2>9, QuietStepKeeps
<1>4. QED
  BY <1>2, <1>3 DEF EmbedCheck

LEMMA EmbedWriteKeeps ==
  ASSUME IInv, EmbedWrite PROVE IInv'
<1> DEFINE s == job.at[job.i]
           c == Cell("s15", job.i - 1)
<1>1. /\ pc = "embedding" /\ UNCHANGED <<lay, reused, commands>>
      /\ disk' = [disk EXCEPT ![s] = c]
  BY DEF EmbedWrite
<1>2. /\ job \in JobType /\ job.image = "s2" /\ result = "none" /\ BootSectors' = BootSectors
      /\ Placed /\ job.i \in 1..Stage15Size /\ Geometry
      /\ \A k \in 1..(job.i - 1) : disk[job.at[k]] = Cell("s15", k - 1)
  BY <1>1 DEF IInv, TypeOK, JobType, UnderWay, BootSectors
<1>3. Device \in BootSectors /\ Room(Device) /\ job.at = Stage15At(AreaOf(Device))
  BY <1>2, ImageFacts DEF Placed
<1>4. /\ job.at \in Seq(Sectors) /\ Len(job.at) = Stage15Size
      /\ \A k \in 1..Stage15Size :
           /\ job.at[k] \in Sectors \ BootSectors
           /\ \A i \in 1..Len(Stage2) : Stage2[i] # job.at[k]
      /\ \A j, k \in 1..Stage15Size : job.at[j] = job.at[k] => j = k
  <2>1. PICK b, a : b = Device /\ a = Stage15At(AreaOf(b))
    BY Zenon
  <2>2. b \in BootSectors /\ Room(b) /\ Geometry /\ job.at = a
    BY <1>2, <1>3, <2>1, Zenon
  <2>3. /\ a \in Seq(Sectors) /\ Len(a) = Stage15Size
        /\ \A k \in 1..Stage15Size :
             a[k] \in Sectors \ BootSectors /\ \A i \in 1..Len(Stage2) : Stage2[i] # a[k]
        /\ \A j, k \in 1..Stage15Size : a[j] = a[k] => j = k
    BY <2>1, <2>2, AreaFacts, Zenon
  <2>4. QED
    BY <2>2, <2>3, Zenon
<1>5. c \in SectorCell /\ c.img = "s15"
  <2>1. job.i - 1 \in Nat /\ 0 \in Sectors
    BY <1>2, SizeAssumption, BootOnDisk DEF BootSectors
  <2>2. <<>> \in Seq(Run) /\ Fits(<<>>)
    BY SizeAssumption DEF Fits
  <2>3. QED
    BY <2>1, <2>2 DEF Cell, SectorCell
<1>6. s \in Sectors \ BootSectors /\ SafeCell(s, c)
  <2>1. 1 \in 1..Len(Stage2) /\ 2 \in 1..Len(Stage2)
    BY <1>2 DEF Geometry
  <2>2. s \in Sectors \ BootSectors /\ \A i \in 1..Len(Stage2) : Stage2[i] # s
    BY <1>2, <1>4
  <2>3. QED
    BY <1>5, <2>1, <2>2 DEF SafeCell
<1>7. disk' = [disk EXCEPT ![s] = c] /\ lay' = lay
  BY <1>1
<1> HIDE DEF s, c
<1>8. /\ Geometry' /\ ImageWhole' /\ BootSectorsKept'
      /\ disk' \in [Sectors -> SectorCell] /\ BootSectors' = BootSectors /\ Stage2' = Stage2
      /\ \A b \in BootSectors : disk'[b] = disk[b] /\ (LoadsStage2(b) => LoadsStage2(b)')
      /\ disk'[s] = c /\ \A t \in Sectors \ {s} : disk'[t] = disk[t]
  BY <1>5, <1>6, <1>7, WriteKeeps
<1>9. \A k \in 1..job.i : disk'[job.at[k]] = Cell("s15", k - 1)
  <2> SUFFICES ASSUME NEW k \in 1..job.i PROVE disk'[job.at[k]] = Cell("s15", k - 1)
    OBVIOUS
  <2>1. CASE k = job.i
    BY <1>8, <2>1 DEF s, c
  <2>2. CASE k # job.i
    <3>1. k \in 1..Stage15Size /\ k \in 1..(job.i - 1)
      BY <1>2, <2>2, SizeAssumption
    <3>2. job.at[k] \in Sectors \ {s}
      BY <1>2, <1>4, <2>2, <3>1 DEF s
    <3>3. QED
      BY <1>2, <1>8, <3>1, <3>2
  <2>3. QED
    BY <2>1, <2>2
<1>10. CASE job.i < Stage15Size /\ job' = [job EXCEPT !.i = @ + 1] /\ UNCHANGED <<pc, result>>
  <2>1. /\ job'.image = "s2" /\ job'.i = job.i + 1 /\ job'.at = job.at
        /\ job'.attempt = job.attempt /\ job'.dest = job.dest /\ job' \in JobType'
    BY <1>2, <1>10 DEF JobType
  <2>2. Placed'
    BY <1>1, <1>2, <2>1 DEF Placed, Device, Room, Stage15At, AreaOf
  <2>3. job'.i \in 1..Stage15Size /\ \A k \in 1..(job'.i - 1) : k \in 1..job.i
    BY <1>2, <1>10, <2>1, SizeAssumption
  <2>4. \A k \in 1..(job'.i - 1) : disk'[job'.at[k]] = Cell("s15", k - 1)
    BY <1>9, <2>1, <2>3
  <2>5. UnderWay'
    BY <1>1, <1>2, <1>10, <2>1, <2>2, <2>3, <2>4, Zenon DEF UnderWay, Cell
  <2>6. QED
    BY <1>1, <1>2, <1>8, <1>10, <2>1, <2>5, StepKeeps
<1>11. CASE End("embedded")
  <2>1. UnderWay' /\ pc' = "idle" /\ job' \in JobType' /\ result' = "embedded"
    BY <1>2, <1>11, EndFacts
  <2>2. QED
    BY <1>1, <1>8, <2>1, StepKeeps
<1>12. CASE /\ job.i = Stage15Size
            /\ pc' = "install" /\ job' = [job EXCEPT !.image = "s15"] /\ UNCHANGED result
  <2>1. /\ job'.image = "s15" /\ job'.at = job.at
        /\ job'.attempt = job.attempt /\ job'.dest = job.dest /\ job' \in JobType'
    BY <1>2, <1>12 DEF JobType
  <2>2. Placed'
    BY <1>1, <1>2, <2>1 DEF Placed, Device, Room, Stage15At, AreaOf
  <2>3. \A k \in 1..Len(job.at) : disk'[job.at[k]].img = "s15" /\ disk'[job.at[k]].n = k - 1
    <3> SUFFICES ASSUME NEW k \in 1..Len(job.at)
                 PROVE  disk'[job.at[k]].img = "s15" /\ disk'[job.at[k]].n = k - 1
      OBVIOUS
    <3>1. disk'[job.at[k]] = Cell("s15", k - 1)
      BY <1>4, <1>9, <1>12
    <3>2. QED
      BY <3>1 DEF Cell
  <2>4. IsImage("s15", job.at)'
    BY <2>1, <2>3 DEF IsImage
  <2>5. UnderWay'
    BY <1>2, <1>12, <2>1, <2>2, <2>4 DEF UnderWay
  <2>6. QED
    BY <1>1, <1>2, <1>8, <1>12, <2>1, <2>5, StepKeeps
<1>13. QED
  BY <1>10, <1>11, <1>12 DEF EmbedWrite

LEMMA InstallReadKeeps ==
  ASSUME IInv, InstallRead PROVE IInv'
<1>1. pc = "install" /\ UNCHANGED <<lay, disk, reused, commands>>
  BY DEF InstallRead
<1>2. CASE End("failed")
  BY <1>1, <1>2, EndKeeps
<1>3. CASE Fits(BlockList(ImageSectors)) /\ pc' = "writing" /\ job' = [job EXCEPT !.i = 1] /\ UNCHANGED result
  <2>1. job \in JobType /\ result = "none" /\ BootSectors' = BootSectors /\ Stage2' = Stage2
    BY <1>1 DEF IInv, TypeOK, JobType, UnderWay, BootSectors, Stage2
  <2>2. /\ job'.image = job.image /\ job'.i = 1 /\ job'.at = job.at
        /\ job'.attempt = job.attempt /\ job'.dest = job.dest /\ job' \in JobType'
    BY <1>3, <2>1 DEF JobType
  <2>3. job.image = "s15" => Placed' /\ IsImage("s15", job.at)'
    BY <1>1, <2>2 DEF IInv, UnderWay, Placed, Device, Room, Stage15At, AreaOf, IsImage
  <2>4. ImageSectors' = ImageSectors
    BY <2>1, <2>2 DEF ImageSectors
  <2>5. Fits(BlockList(ImageSectors)')
    BY <1>3, <2>4
  <2>6. job'.i \in 1..Len(Order(job'.image)) /\ \A k \in 1..(job'.i - 1) : FALSE
    BY <2>2 DEF Order
  <2>8. UnderWay'
    BY <1>3, <2>1, <2>2, <2>3, <2>4, <2>5, <2>6, Zenon DEF UnderWay, Fits
  <2>9. QED
    BY <1>1, <1>3, <2>1, <2>2, <2>8, QuietStepKeeps
<1>4. QED
  BY <1>2, <1>3 DEF InstallRead

(* Stage 1 is the last that install writes. *)
LEMMA OrderFacts ==
  ASSUME NEW image \in {"s2", "s15"}
  PROVE  /\ Len(Order(image)) \in Nat \ {0} /\ Order(image)[Len(Order(image))] = "stage1"
         /\ \A i \in 1..(Len(Order(image)) - 1) : Order(image)[i] \in {"config", "first", "second"}
         /\ \E i \in 1..(Len(Order(image)) - 1) : Order(image)[i] = "first"
         /\ \E i \in 1..(Len(Order(image)) - 1) : Order(image)[i] = "second"
         /\ image = "s15" => \E i \in 1..(Len(Order(image)) - 1) : Order(image)[i] = "config"
<1>1. CASE image = "s2"
  <2>1. Order(image) = <<"first", "second", "stage1">> /\ Len(Order(image)) = 3
    BY <1>1 DEF Order
  <2>2. 1 \in 1..2 /\ 2 \in 1..2 /\ 3 - 1 = 2 /\ 1..2 = {1, 2}
    OBVIOUS
  <2>3. Order(image)[1] = "first" /\ Order(image)[2] = "second" /\ Order(image)[3] = "stage1"
    BY <2>1
  <2>4. QED
    BY <1>1, <2>1, <2>2, <2>3
<1>2. CASE image = "s15"
  <2>1. Order(image) = <<"config", "first", "second", "stage1">> /\ Len(Order(image)) = 4
    BY <1>2 DEF Order
  <2>2. 1 \in 1..3 /\ 2 \in 1..3 /\ 3 \in 1..3 /\ 4 - 1 = 3 /\ 1..3 = {1, 2, 3}
    OBVIOUS
  <2>3. /\ Order(image)[1] = "config" /\ Order(image)[2] = "first" /\ Order(image)[3] = "second"
        /\ Order(image)[4] = "stage1"
    BY <2>1
  <2>4. QED
    BY <2>1, <2>2, <2>3
<1>3. QED
  BY <1>1, <1>2

ImageConf == IF job.image = "s15" THEN "stage2" ELSE "menu"

(* What the writes before the last one patch. *)
LEMMA PatchFacts ==
  ASSUME IInv, pc = "writing", NEW step \in {"config", "first", "second"}
  PROVE  /\ Place(step) \in Sectors \ BootSectors /\ Patched(step) \in SectorCell
         /\ SafeCell(Place(step), Patched(step))
         /\ Patched(step).img = disk[Place(step)].img /\ Patched(step).n = disk[Place(step)].n
         /\ Place(step) = ImageSectors[1] =>
              Patched(step).list \in {disk[Place(step)].list, BlockList(ImageSectors)}
         /\ Place(step) = ImageSectors[2] =>
              Patched(step).conf \in {disk[Place(step)].conf, ImageConf}
<1> DEFINE s == Place(step)
           c == Patched(step)
<1>1. /\ ImageSectors \in Seq(Sectors) /\ Len(ImageSectors) > 1 /\ Len(ImageSectors) \in Nat
      /\ ImageSectors[1] \in Sectors \ BootSectors /\ ImageSectors[2] \in Sectors \ BootSectors
      /\ ImageSectors[1] # ImageSectors[2]
      /\ \A i \in 1..Len(Stage2) : Stage2[i] \in Sectors \ BootSectors
  BY ImageFacts
<1>2. /\ job.image = "s2" => ImageSectors = Stage2
      /\ job.image = "s15" => ImageSectors = job.at /\ Len(job.at) = Stage15Size
                              /\ \A k \in 1..Stage15Size : \A i \in 1..Len(Stage2) : Stage2[i] # job.at[k]
  BY ImageFacts
<1>3. /\ Stage2 \in Seq(Nat) /\ 1 \in 1..Len(Stage2) /\ 2 \in 1..Len(Stage2) /\ Stage2[1] # Stage2[2]
      /\ 1 \in 1..Stage15Size /\ 2 \in 1..Stage15Size
      /\ job.image \in {"s2", "s15"} /\ Fits(BlockList(ImageSectors))
      /\ disk \in [Sectors -> SectorCell]
      /\ \A i \in 1..Len(Stage2) : disk[Stage2[i]].img = "s2"
  BY SizeAssumption DEF IInv, Geometry, TypeOK, UnderWay, ImageWhole, IsImage
<1>4. job.image = "s15" => /\ Stage2[1] # ImageSectors[1] /\ Stage2[1] # ImageSectors[2]
                           /\ Stage2[2] # ImageSectors[1] /\ Stage2[2] # ImageSectors[2]
  BY <1>2, <1>3
<1>5. BlockList(ImageSectors) \in Seq(Run)
  <2>1. ImageSectors \in Seq(Nat)
    <3>1. \A i \in 1..Len(ImageSectors) : ImageSectors[i] \in Nat
      BY <1>1, SizeAssumption DEF Sectors
    <3>2. QED
      BY <1>1, <3>1
  <2>2. Len(ImageSectors) # 0
    BY <1>1
  <2>3. QED
    BY <2>1, <2>2, BlockListIsImage, Zenon
<1>6. s \in Sectors \ BootSectors
  BY <1>1, <1>3 DEF Place
<1>7. disk[s] \in SectorCell
  BY <1>3, <1>6
<1>8. CASE step = "config"
  <2>1. s = Stage2[2] /\ c = [disk[s] EXCEPT !.conf = "menu"]
    BY <1>8 DEF Place, Patched
  <2>2. /\ c \in SectorCell /\ c.img = disk[s].img /\ c.n = disk[s].n
        /\ c.list = disk[s].list /\ c.conf = "menu"
    BY <1>7, <2>1 DEF SectorCell
  <2>3. s = ImageSectors[2] => ImageConf = "menu"
    BY <1>3, <1>4, <2>1 DEF ImageConf
  <2> HIDE DEF s, c
  <2>4. SafeCell(s, c)
    BY <1>3, <2>1, <2>2 DEF SafeCell
  <2>5. QED
    BY <1>6, <2>2, <2>3, <2>4 DEF s, c
<1>9. CASE step = "first"
  <2>1. s = ImageSectors[1] /\ c = [disk[s] EXCEPT !.list = BlockList(ImageSectors)]
    BY <1>9 DEF Place, Patched
  <2>2. /\ c \in SectorCell /\ c.img = disk[s].img /\ c.n = disk[s].n
        /\ c.conf = disk[s].conf /\ c.list = BlockList(ImageSectors)
    <3> DEFINE h == disk[s]
               l == BlockList(ImageSectors)
    <3>1. l \in {x \in Seq(Run) : Fits(x)} /\ h \in SectorCell /\ c = [h EXCEPT !.list = l]
      BY <1>3, <1>5, <1>7, <2>1
    <3> HIDE DEF h, l, c
    <3>2. c \in SectorCell /\ c.img = h.img /\ c.n = h.n /\ c.conf = h.conf /\ c.list = l
      BY <3>1 DEF SectorCell
    <3>3. QED
      BY <3>2 DEF h, l
  <2>3. s = Stage2[1] => c.list = BlockList(Stage2)
    BY <1>2, <1>3, <1>4, <2>1, <2>2
  <2> HIDE DEF s, c
  <2>4. SafeCell(s, c)
    BY <1>3, <2>1, <2>2, <2>3 DEF SafeCell
  <2>5. QED
    BY <1>6, <2>2, <2>4 DEF s, c
<1>10. CASE step = "second"
  <2>1. s = ImageSectors[2] /\ c = [disk[s] EXCEPT !.conf = ImageConf]
    BY <1>10 DEF Place, Patched, ImageConf
  <2>2. /\ c \in SectorCell /\ c.img = disk[s].img /\ c.n = disk[s].n
        /\ c.list = disk[s].list /\ c.conf = ImageConf
    BY <1>7, <2>1 DEF SectorCell, ImageConf
  <2>3. s = Stage2[2] => c.conf = "menu"
    BY <1>3, <1>4, <2>1, <2>2 DEF ImageConf
  <2> HIDE DEF s, c
  <2>4. SafeCell(s, c)
    BY <1>3, <2>1, <2>2, <2>3 DEF SafeCell
  <2>5. QED
    BY <1>6, <2>2, <2>4 DEF s, c
<1>11. QED
  BY <1>8, <1>9, <1>10

(* A write before the last one. *)
LEMMA PatchKeeps ==
  ASSUME IInv, InstallWrite, Order(job.image)[job.i] # "stage1" PROVE IInv'
<1>0. PICK step, o : step = Order(job.image)[job.i] /\ o = Order(job.image)
  BY Zenon
<1> DEFINE s == Place(step)
           c == Patched(step)
<1>1. /\ pc = "writing" /\ UNCHANGED <<lay, reused, commands>> /\ disk' = [disk EXCEPT ![s] = c]
  BY <1>0 DEF InstallWrite
<1>2. /\ job \in JobType /\ result = "none" /\ BootSectors' = BootSectors /\ Stage2' = Stage2
      /\ job.i \in 1..Len(o) /\ Fits(BlockList(ImageSectors))
      /\ \A k \in 1..(job.i - 1) : Done(o[k])
  BY <1>0, <1>1 DEF IInv, TypeOK, JobType, UnderWay, BootSectors, Stage2
<1>3. /\ Len(o) \in Nat \ {0} /\ o[Len(o)] = "stage1"
      /\ \A i \in 1..(Len(o) - 1) : o[i] \in {"config", "first", "second"}
  BY <1>0, <1>2, OrderFacts DEF JobType
<1>4. job.i # Len(o) /\ job.i < Len(o) /\ job.i \in 1..(Len(o) - 1)
  BY <1>0, <1>2, <1>3
<1>5. step \in {"config", "first", "second"}
  BY <1>0, <1>3, <1>4
<1>6. job' = [job EXCEPT !.i = @ + 1] /\ pc' = pc /\ result' = result
  BY <1>0, <1>4 DEF InstallWrite
<1>7. /\ s \in Sectors \ BootSectors /\ c \in SectorCell /\ SafeCell(s, c)
      /\ c.img = disk[s].img /\ c.n = disk[s].n
      /\ s = ImageSectors[1] => c.list \in {disk[s].list, BlockList(ImageSectors)}
      /\ s = ImageSectors[2] => c.conf \in {disk[s].conf, ImageConf}
  BY <1>1, <1>5, PatchFacts
<1>8. /\ ImageSectors[1] \in Sectors /\ ImageSectors[2] \in Sectors /\ ImageSectors[1] # ImageSectors[2]
      /\ Stage2[2] \in Sectors
      /\ job.image = "s15" => \A k \in 1..Len(job.at) : job.at[k] \in Sectors
  <2>1. 2 \in 1..Len(Stage2)
    BY DEF IInv, Geometry
  <2>2. QED
    BY <2>1, ImageFacts
<1>9. disk' = [disk EXCEPT ![s] = c] /\ lay' = lay
  BY <1>1
<1>10. /\ step = "config" => s = Stage2[2] /\ c.conf = "menu"
       /\ step = "first" => s = ImageSectors[1] /\ c.list = BlockList(ImageSectors)
       /\ step = "second" => s = ImageSectors[2] /\ c.conf = ImageConf
  <2>1. disk \in [Sectors -> SectorCell]
    BY DEF IInv, TypeOK
  <2>2. \A x \in Sectors : disk[x] \in SectorCell
    BY <2>1
  <2>3. CASE step = "config"
    <3>1. s = Stage2[2] /\ c = [disk[s] EXCEPT !.conf = "menu"]
      BY <2>3 DEF Place, Patched
    <3>2. disk[s] \in SectorCell
      BY <1>8, <2>2, <3>1
    <3>3. c.conf = "menu"
      BY <3>1, <3>2 DEF SectorCell
    <3>4. QED
      BY <2>3, <3>1, <3>3
  <2>4. CASE step = "first"
    BY <1>8, <2>2, <2>4 DEF Place, Patched, SectorCell
  <2>5. CASE step = "second"
    BY <1>8, <2>2, <2>5 DEF Place, Patched, SectorCell, ImageConf
  <2>6. QED
    BY <1>5, <2>3, <2>4, <2>5
<1> HIDE DEF s, c
<1>11. /\ Geometry' /\ ImageWhole' /\ BootSectorsKept'
       /\ disk' \in [Sectors -> SectorCell] /\ BootSectors' = BootSectors /\ Stage2' = Stage2
       /\ \A b \in BootSectors : disk'[b] = disk[b] /\ (LoadsStage2(b) => LoadsStage2(b)')
       /\ disk'[s] = c /\ \A x \in Sectors \ {s} : disk'[x] = disk[x]
  BY <1>7, <1>9, WriteKeeps
<1>12. /\ job'.image = job.image /\ job'.i = job.i + 1 /\ job'.at = job.at
       /\ job'.attempt = job.attempt /\ job'.dest = job.dest /\ job' \in JobType'
  BY <1>2, <1>6 DEF JobType
<1>13. ImageSectors' = ImageSectors /\ ImageConf' = ImageConf
  BY <1>2, <1>12 DEF ImageSectors, ImageConf
<1>14. ASSUME job.image = "s15" PROVE Placed' /\ IsImage("s15", job.at)'
  <2>1. Placed /\ IsImage("s15", job.at)
    BY <1>14 DEF IInv, UnderWay
  <2>2. Placed'
    BY <1>1, <1>12, <2>1 DEF Placed, Device, Room, Stage15At, AreaOf
  <2>3. \A x \in Sectors : disk'[x].img = disk[x].img /\ disk'[x].n = disk[x].n
    BY <1>7, <1>11
  <2>4. \A k \in 1..Len(job.at) : disk'[job.at[k]].img = "s15" /\ disk'[job.at[k]].n = k - 1
    <3> SUFFICES ASSUME NEW k \in 1..Len(job.at)
                 PROVE  disk'[job.at[k]].img = "s15" /\ disk'[job.at[k]].n = k - 1
      OBVIOUS
    <3>1. job.at[k] \in Sectors /\ disk[job.at[k]].img = "s15" /\ disk[job.at[k]].n = k - 1
      BY <1>8, <1>14, <2>1 DEF IsImage
    <3>2. QED
      BY <2>3, <3>1
  <2>5. QED
    BY <1>12, <2>2, <2>4 DEF IsImage
<1>15. Done(step)'
  BY <1>5, <1>10, <1>11, <1>13 DEF Done, ImageConf
<1>16. ASSUME NEW x \in {"config", "first", "second"}, Done(x) PROVE Done(x)'
  <2>1. CASE x = "config"
    <3>1. disk[Stage2[2]].conf = "menu"
      BY <1>16, <2>1 DEF Done
    <3>2. disk'[Stage2[2]].conf = "menu"
      BY <1>7, <1>8, <1>11, <3>1 DEF SafeCell
    <3>3. QED
      BY <1>11, <2>1, <3>2 DEF Done
  <2>2. CASE x = "first"
    BY <1>7, <1>8, <1>11, <1>13, <1>16, <2>2 DEF Done
  <2>3. CASE x = "second"
    <3>1. disk[ImageSectors[2]].conf = ImageConf
      BY <1>16, <2>3 DEF Done, ImageConf
    <3>2. disk'[ImageSectors[2]].conf = ImageConf
      BY <1>7, <1>8, <1>11, <3>1
    <3>3. QED
      BY <1>13, <2>3, <3>2 DEF Done, ImageConf
  <2>4. QED
    BY <2>1, <2>2, <2>3
<1>17. \A k \in 1..job.i : Done(o[k])'
  <2> SUFFICES ASSUME NEW k \in 1..job.i PROVE Done(o[k])'
    OBVIOUS
  <2>1. CASE k = job.i
    BY <1>0, <1>15, <2>1
  <2>2. CASE k # job.i
    <3>1. k \in 1..(job.i - 1) /\ k \in 1..(Len(o) - 1)
      BY <1>3, <1>4, <2>2
    <3>2. Done(o[k]) /\ o[k] \in {"config", "first", "second"}
      BY <1>2, <1>3, <3>1
    <3>3. QED
      BY <1>16, <3>2
  <2>3. QED
    BY <2>1, <2>2
<1>18. UnderWay'
  <2>1. job'.i \in 1..Len(o) /\ \A k \in 1..(job'.i - 1) : k \in 1..job.i
    BY <1>3, <1>4, <1>12
  <2>2. Order(job.image)' = o
    BY <1>0, <1>12 DEF Order
  <2>3. \A k \in 1..(job'.i - 1) : Done(Order(job.image)[k])'
    BY <1>12, <1>17, <2>1, <2>2
  <2>4. Fits(BlockList(ImageSectors))'
    BY <1>2, <1>13 DEF Fits
  <2>5. QED
    BY <1>1, <1>2, <1>6, <1>12, <1>14, <2>1, <2>2, <2>3, <2>4 DEF UnderWay
<1>19. QED
  BY <1>1, <1>2, <1>6, <1>11, <1>12, <1>18, StepKeeps

(* The image that install has written is loaded by a Stage 1 that names    *)
(* its first sector.                                                       *)
LEMMA SwitchLoads ==
  ASSUME IInv, InstallWrite, Order(job.image)[job.i] = "stage1"
  PROVE  /\ job.i = Len(Order(job.image)) /\ End("installed")
         /\ Done("first") /\ Done("second") /\ (job.image = "s15" => Done("config"))
         /\ StageOne \in SectorCell /\ StageOne.img = "stage1" /\ StageOne.next = ImageSectors[1]
         /\ StageOne.table = disk[job.dest].table
         /\ disk' = [disk EXCEPT ![job.dest] = StageOne] /\ UNCHANGED <<lay, reused, commands>>
         /\ job.dest \in BootSectors
<1>1. pc = "writing"
  BY DEF InstallWrite
<1>2. /\ job \in JobType /\ job.i \in 1..Len(Order(job.image))
      /\ \A k \in 1..(job.i - 1) : Done(Order(job.image)[k])
  BY <1>1 DEF IInv, TypeOK, JobType, UnderWay
<1>3. job.image \in {"s2", "s15"} /\ job.dest \in BootSectors
  BY <1>2 DEF JobType
<1> DEFINE o == Order(job.image)
<1>9. /\ Len(o) \in Nat \ {0}
      /\ \A i \in 1..(Len(o) - 1) : o[i] \in {"config", "first", "second"}
      /\ \E i \in 1..(Len(o) - 1) : o[i] = "first"
      /\ \E i \in 1..(Len(o) - 1) : o[i] = "second"
      /\ job.image = "s15" => \E i \in 1..(Len(o) - 1) : o[i] = "config"
  BY <1>3, OrderFacts, Zenon
<1>10. job.i \in 1..Len(o) /\ o[job.i] = "stage1" /\ \A k \in 1..(job.i - 1) : Done(o[k])
  BY <1>2
<1> HIDE DEF o
<1>11. job.i = Len(o)
  BY <1>9, <1>10
<1>4. job.i = Len(Order(job.image))
  BY <1>11 DEF o
<1>5. Done("first") /\ Done("second") /\ (job.image = "s15" => Done("config"))
  <2>1. \A k \in 1..(Len(o) - 1) : Done(o[k])
    BY <1>10, <1>11
  <2>2. PICK i \in 1..(Len(o) - 1) : o[i] = "first"
    BY <1>9
  <2>3. PICK j \in 1..(Len(o) - 1) : o[j] = "second"
    BY <1>9
  <2>4. Done(o[i]) /\ Done(o[j])
    BY <2>1
  <2>5. ASSUME job.image = "s15" PROVE Done("config")
    <3>1. PICK k \in 1..(Len(o) - 1) : o[k] = "config"
      BY <1>9, <2>5
    <3>2. Done(o[k])
      BY <2>1
    <3>3. QED
      BY <3>1, <3>2
  <2>6. QED
    BY <2>2, <2>3, <2>4, <2>5
<1>6. End("installed") /\ UNCHANGED <<lay, reused, commands>>
  BY <1>4 DEF InstallWrite
<1>7. disk' = [disk EXCEPT ![job.dest] = StageOne]
  <2>1. Place("stage1") = job.dest /\ Patched("stage1") = StageOne
    BY DEF Place, Patched
  <2>2. QED
    BY <2>1 DEF InstallWrite
<1>8. /\ StageOne \in SectorCell /\ StageOne.img = "stage1" /\ StageOne.next = ImageSectors[1]
      /\ StageOne.table = disk[job.dest].table
  <2>1. disk[job.dest] \in SectorCell /\ ImageSectors[1] \in Sectors
    BY <1>3, BootOnDisk, ImageFacts DEF IInv, TypeOK
  <2>2. <<>> \in Seq(Run) /\ Fits(<<>>)
    BY SizeAssumption DEF Fits
  <2>3. disk[job.dest].table \in {"none", "table"}
    BY <2>1 DEF SectorCell
  <2>4. QED
    BY <2>1, <2>2, <2>3 DEF StageOne, Cell, SectorCell
<1>12. QED
  BY <1>3, <1>4, <1>5, <1>6, <1>7, <1>8

(* The last write. *)
LEMMA SwitchKeeps ==
  ASSUME IInv, InstallWrite, Order(job.image)[job.i] = "stage1" PROVE IInv'
<1>1. /\ End("installed") /\ Done("first") /\ Done("second")
      /\ StageOne \in SectorCell /\ StageOne.img = "stage1" /\ StageOne.next = ImageSectors[1]
      /\ disk' = [disk EXCEPT ![job.dest] = StageOne] /\ UNCHANGED <<lay, reused, commands>>
      /\ job.dest \in BootSectors
  BY SwitchLoads
<1>2. /\ BootSectors' = BootSectors /\ Stage2' = Stage2 /\ BootSectors \subseteq Sectors
      /\ disk \in [Sectors -> SectorCell] /\ job.image \in {"s2", "s15"}
      /\ 1 \in 1..Len(Stage2) /\ 2 \in 1..Len(Stage2)
  BY <1>1, BootOnDisk DEF IInv, TypeOK, Geometry, BootSectors, Stage2
<1>3. Geometry'
  BY <1>1, <1>2, ZenonT(60) DEF IInv, Geometry
<1>4. /\ disk' \in [Sectors -> SectorCell] /\ disk'[job.dest] = StageOne
      /\ \A x \in Sectors : x # job.dest => disk'[x] = disk[x]
  BY <1>1, <1>2
<1>5. \A i \in 1..Len(Stage2) : Stage2[i] \in Sectors /\ Stage2[i] # job.dest
  BY <1>1, ImageFacts
<1>6. ImageWhole'
  <2> SUFFICES ASSUME NEW i \in 1..Len(Stage2)
               PROVE  disk'[Stage2[i]].img = "s2" /\ disk'[Stage2[i]].n = i - 1
    BY <1>2 DEF ImageWhole, IsImage
  <2>1. disk[Stage2[i]].img = "s2" /\ disk[Stage2[i]].n = i - 1
    BY DEF IInv, ImageWhole, IsImage
  <2>2. QED
    BY <1>4, <1>5, <2>1
<1>7. disk'[Stage2[1]] = disk[Stage2[1]] /\ disk'[Stage2[2]] = disk[Stage2[2]]
  BY <1>2, <1>4, <1>5
<1>8. BootSectorsKept'
  <2> SUFFICES ASSUME NEW b \in BootSectors
               PROVE  /\ disk'[b].img \in {"os", "stage1"}
                      /\ disk'[b].img = "stage1" => LoadsStage2(b)' \/ LoadsEmbedded(b)'
    BY <1>2 DEF BootSectorsKept
  <2>1. CASE b = job.dest
    <3>1. disk'[b].img = "stage1" /\ disk'[b].next = ImageSectors[1]
      BY <1>1, <1>4, <2>1
    <3>2. CASE job.image = "s2"
      <4>1. ImageSectors = Stage2
        BY <3>2, ImageFacts
      <4>2. disk[Stage2[1]].list = BlockList(Stage2) /\ disk[Stage2[2]].conf = "menu"
        BY <1>1, <3>2, <4>1 DEF Done
      <4>3. LoadsStage2(b)'
        BY <1>2, <1>7, <3>1, <4>1, <4>2 DEF LoadsStage2
      <4>4. QED
        BY <3>1, <4>3
    <3>3. CASE job.image = "s15"
      <4>1. disk[ImageSectors[1]].img = "s15"
        <5>1. 1 \in 1..Len(ImageSectors) /\ IsImage(job.image, ImageSectors)
          BY ImageFacts
        <5>2. QED
          BY <3>3, <5>1 DEF IsImage
      <4>2. ImageSectors[1] \in Sectors /\ ImageSectors[1] # job.dest
        BY <1>1, ImageFacts
      <4>3. disk'[ImageSectors[1]].img = "s15"
        BY <1>4, <4>1, <4>2
      <4>4. LoadsEmbedded(b)'
        BY <3>1, <4>3 DEF LoadsEmbedded
      <4>5. QED
        BY <3>1, <4>4
    <3>4. QED
      BY <1>2, <3>2, <3>3
  <2>2. CASE b # job.dest
    <3>1. disk'[b] = disk[b] /\ disk[b] \in SectorCell
      BY <1>2, <1>4, <2>2
    <3>2. /\ disk[b].img \in {"os", "stage1"}
          /\ disk[b].img = "stage1" => LoadsStage2(b) \/ LoadsEmbedded(b)
      BY DEF IInv, BootSectorsKept
    <3>3. LoadsStage2(b) => LoadsStage2(b)'
      BY <1>2, <1>7, <3>1 DEF LoadsStage2
    <3>4. LoadsEmbedded(b) => LoadsEmbedded(b)'
      <4>1. disk[b].next \in Sectors
        BY <3>1 DEF SectorCell
      <4>2. disk[job.dest].img # "s15"
        BY <1>1 DEF IInv, BootSectorsKept
      <4>3. LoadsEmbedded(b) => disk'[disk[b].next] = disk[disk[b].next]
        BY <1>4, <4>1, <4>2 DEF LoadsEmbedded
      <4>4. QED
        BY <3>1, <4>3 DEF LoadsEmbedded
    <3>5. QED
      BY <3>1, <3>2, <3>3, <3>4
  <2>3. QED
    BY <2>1, <2>2
<1>9. UnderWay' /\ pc' = "idle" /\ job' \in JobType' /\ result' = "installed"
  BY <1>1, <1>2, EndFacts
<1>10. NotYetSwitched'
  BY <1>9 DEF NotYetSwitched
<1>11. TypeOK'
  <2>1. reused' \in BOOLEAN /\ commands' \in 0..MaxCommands
    BY <1>1 DEF IInv, TypeOK
  <2>2. QED
    BY <1>4, <1>9, <2>1, Zenon DEF TypeOK, JobType
<1>12. QED
  BY <1>3, <1>6, <1>8, <1>9, <1>10, <1>11 DEF IInv

LEMMA NextIInv == IInv /\ [Next]_vars => IInv'
<1> SUFFICES ASSUME IInv, [Next]_vars PROVE IInv'
  OBVIOUS
<1>1. \A b \in BootSectors : \A x \in BOOLEAN :
        LET j == [NoJob EXCEPT !.dest = b, !.setup = x]
            k == [NoJob EXCEPT !.dest = b]
        IN j \in JobType /\ j.image = "s2" /\ k \in JobType /\ k.image = "s2"
  BY NoJobType DEF NoJob, JobType
<1>2. CASE setup
  <2>1. PICK b \in BootSectors : Begin("embed", [NoJob EXCEPT !.dest = b, !.setup = TRUE])
    BY <1>2 DEF setup
  <2>2. QED
    BY <1>1, <2>1, BeginKeeps
<1>3. CASE embed
  <2>1. PICK b \in BootSectors : Begin("embed", [NoJob EXCEPT !.dest = b])
    BY <1>3 DEF embed
  <2>2. QED
    BY <1>1, <2>1, BeginKeeps
<1>4. CASE install
  <2>1. PICK b \in BootSectors : Begin("install", [NoJob EXCEPT !.dest = b])
    BY <1>4 DEF install
  <2>2. QED
    BY <1>1, <2>1, BeginKeeps
<1>5. CASE EmbedCheck
  BY <1>5, EmbedCheckKeeps
<1>6. CASE EmbedWrite
  BY <1>6, EmbedWriteKeeps
<1>7. CASE EmbedWriteFails
  BY <1>7, EmbedFailedKeeps DEF EmbedWriteFails
<1>8. CASE InstallRead
  BY <1>8, InstallReadKeeps
<1>9. CASE InstallWrite
  BY <1>9, PatchKeeps, SwitchKeeps
<1>10. CASE InstallWriteFails
  BY <1>10, EndKeeps DEF InstallWriteFails
<1>11. CASE Crash
  BY <1>11, EndKeeps DEF Crash
<1>12. CASE UNCHANGED vars
  <2>1. /\ lay' = lay /\ disk' = disk /\ pc' = pc /\ job' = job /\ result' = result
        /\ reused' = reused /\ commands' = commands
    BY <1>12 DEF vars
  <2>2. /\ Geometry' /\ ImageWhole' /\ BootSectorsKept' /\ BootSectors' = BootSectors /\ Stage2' = Stage2
        /\ \A b \in BootSectors : LoadsStage2(b) <=> LoadsStage2(b)'
    BY <2>1, DiskSame
  <2>3. TypeOK'
    BY <2>1, <2>2, Zenon DEF IInv, TypeOK
  <2>4. NotYetSwitched'
    BY <2>1, <2>2, Zenon DEF IInv, NotYetSwitched
  <2>5. Placed' <=> Placed
    BY <2>1 DEF Placed, Device, Room, AreaOf, Stage15At
  <2>6. ImageSectors' = ImageSectors /\ \A x : Done(x)' <=> Done(x)
    BY <2>1, <2>2 DEF ImageSectors, Done
  <2>7. UnderWay'
    BY <2>1, <2>5, <2>6, Zenon DEF IInv, UnderWay, IsImage, Order, Fits, Cell
  <2>8. QED
    BY <2>2, <2>3, <2>4, <2>7 DEF IInv
<1>13. QED
  BY <1>2, <1>3, <1>4, <1>5, <1>6, <1>7, <1>8, <1>9, <1>10, <1>11, <1>12 DEF Next

(* The invariant of the commands, for every disk, image and number of      *)
(* commands.                                                               *)
THEOREM IInvHolds == Spec => []IInv
<1>1. Init => IInv
  BY InitIInv
<1>2. IInv /\ [Next]_vars => IInv'
  BY NextIInv
<1>3. QED
  BY <1>1, <1>2, PTL DEF Spec

(* What the commands write has the form of a sector, and no block list     *)
(* grows into the code of its sector: install refuses an image of too many *)
(* pieces before it writes.                                                *)
THEOREM TypeCorrect == Spec => []TypeOK
<1>1. IInv => TypeOK
  BY DEF IInv
<1>2. QED
  BY <1>1, IInvHolds, PTL
-----------------------------------------------------------------------------
(***************************************************************************)
(* What boots.                                                             *)
(***************************************************************************)
(* A first sector with the block list of its image loads that image. *)
LEMMA ListLoads ==
  ASSUME NEW s \in Seq(Nat), Len(s) # 0, NEW img, IsImage(img, s),
         disk[s[1]].list = BlockList(s)
  PROVE  <<s[1]>> \o Listed(disk[s[1]].list) = s /\ disk[s[1]].img = img
<1>1. 1 \in 1..Len(s)
  OBVIOUS
<1>2. <<s[1]>> \o Listed(BlockList(s)) = s
  BY BlockListIsImage
<1>3. QED
  BY <1>1, <1>2 DEF IsImage

(* Stage 2 with its block list and its configuration file is loaded. *)
LEMMA Stage2Loads ==
  ASSUME Geometry, ImageWhole,
         disk[Stage2[1]].list = BlockList(Stage2), disk[Stage2[2]].conf = "menu"
  PROVE  Loads(Stage2[1])
<1> DEFINE S == Stage2
           h == disk[S[1]]
<1>1. S \in Seq(Nat) /\ Len(S) # 0 /\ IsImage("s2", S) /\ h.list = BlockList(S) /\ disk[S[2]].conf = "menu"
  BY DEF Geometry, ImageWhole
<1>2. <<S[1]>> \o Listed(h.list) = S /\ h.img = "s2"
  <2> HIDE DEF S
  <2> QED BY <1>1, ListLoads
<1>3. Loads(S[1])
  BY <1>1, <1>2 DEF Loads
<1>4. QED
  BY <1>3

LEMMA LoadsStage2Boots ==
  ASSUME Geometry, ImageWhole, NEW b, disk[b].img = "stage1", LoadsStage2(b)
  PROVE  Boots(b)
BY Stage2Loads DEF LoadsStage2, Boots

(* A crash or a failed write leaves a disk that boots, wherever the        *)
(* partition, the reserve and Stage 2's sectors are, and after any         *)
(* commands, unless a command found an embedded image in use.              *)
THEOREM CrashIsSafe == Spec => []CrashSafe
<1>1. IInv => CrashSafe
  <2> SUFFICES ASSUME IInv, ~reused, result # "installed", NEW b \in BootSectors PROVE Boots(b)
    BY DEF CrashSafe
  <2>1. disk[b].img \in {"os", "stage1"} /\ Geometry /\ ImageWhole
    BY DEF IInv, BootSectorsKept
  <2>2. disk[b].img = "stage1" => LoadsStage2(b)
    BY DEF IInv, NotYetSwitched
  <2>3. CASE disk[b].img = "os"
    BY <2>3 DEF Boots
  <2>4. CASE disk[b].img = "stage1"
    BY <2>1, <2>2, <2>4, LoadsStage2Boots
  <2>5. QED
    BY <2>1, <2>3, <2>4
<1>2. QED
  BY <1>1, IInvHolds, PTL

(* When install reports success, the boot sector loads Stage 2, directly   *)
(* or through the Stage 1.5 that setup has embedded, for every layout.     *)
THEOREM InstalledDiskBoots == Spec => InstalledBoots
<1>0. \A b : Geometry /\ ImageWhole /\ disk[b].img = "stage1" /\ LoadsStage2(b) => Boots(b)
  BY LoadsStage2Boots
<1>3. (\A b : Geometry /\ ImageWhole /\ disk[b].img = "stage1" /\ LoadsStage2(b) => Boots(b))'
  BY <1>0, PTL
<1>1. IInv /\ IInv' /\ [Next]_vars =>
        [\A b \in BootSectors : pc = "writing" /\ job.dest = b /\ result' = "installed" => Boots(b)']_vars
  <2> SUFFICES ASSUME IInv, IInv', [Next]_vars,
                      NEW b \in BootSectors, pc = "writing", job.dest = b, result' = "installed"
               PROVE  Boots(b)'
    OBVIOUS
  <2>1. result = "none"
    BY DEF IInv, UnderWay
  <2>2. InstallWrite
    <3>1. ASSUME setup \/ embed \/ install \/ EmbedCheck \/ EmbedWrite \/ EmbedWriteFails \/ InstallRead
          PROVE  FALSE
      BY <3>1 DEF setup, embed, install, Begin, EmbedCheck, EmbedWrite, EmbedWriteFails, InstallRead
    <3>2. ASSUME InstallWriteFails \/ Crash \/ UNCHANGED vars PROVE FALSE
      BY <2>1, <3>2 DEF InstallWriteFails, Crash, End, vars
    <3>3. QED
      BY <3>1, <3>2 DEF Next
  <2>3. Order(job.image)[job.i] = "stage1"
    <3> SUFFICES ASSUME Order(job.image)[job.i] # "stage1" PROVE FALSE
      OBVIOUS
    <3>1. job.i # Len(Order(job.image))
      <4>1. job.image \in {"s2", "s15"}
        BY DEF IInv, TypeOK
      <4>2. Order(job.image)[Len(Order(job.image))] = "stage1"
        BY <4>1, OrderFacts, Zenon
      <4>3. QED
        BY <4>2
    <3>2. QED
      BY <2>1, <2>2, <3>1 DEF InstallWrite
  <2>4. /\ Done("first") /\ Done("second") /\ (job.image = "s15" => Done("config"))
        /\ StageOne.img = "stage1" /\ StageOne.next = ImageSectors[1]
        /\ disk' = [disk EXCEPT ![b] = StageOne] /\ lay' = lay
    BY <2>2, <2>3, SwitchLoads
  <2>5. /\ disk \in [Sectors -> SectorCell] /\ b \in Sectors /\ Stage2' = Stage2
        /\ Geometry' /\ ImageWhole' /\ job.image \in {"s2", "s15"}
        /\ 1 \in 1..Len(Stage2) /\ 2 \in 1..Len(Stage2)
    BY <2>4, BootOnDisk, SMTT(30) DEF IInv, TypeOK, Geometry, Stage2
  <2>6. disk'[b] = StageOne /\ \A x \in Sectors \ BootSectors : disk'[x] = disk[x]
    BY <2>4, <2>5
  <2>7. /\ ImageSectors \in Seq(Sectors) /\ Len(ImageSectors) > 1 /\ Len(ImageSectors) \in Nat
        /\ ImageSectors[1] \in Sectors \ BootSectors /\ ImageSectors[2] \in Sectors \ BootSectors
        /\ \A i \in 1..Len(Stage2) : Stage2[i] \in Sectors \ BootSectors
    BY ImageFacts
  <2>8. CASE job.image = "s2"
    <3>1. ImageSectors = Stage2
      BY <2>8, ImageFacts
    <3>2. disk[Stage2[1]].list = BlockList(Stage2) /\ disk[Stage2[2]].conf = "menu"
      BY <2>4, <2>8, <3>1 DEF Done
    <3>3. LoadsStage2(b)' /\ disk'[b].img = "stage1"
      <4>1. disk'[Stage2[1]] = disk[Stage2[1]] /\ disk'[Stage2[2]] = disk[Stage2[2]]
        BY <2>5, <2>6, <2>7
      <4>2. disk'[b].img = "stage1" /\ disk'[b].next = Stage2[1]
        BY <2>4, <2>6, <3>1
      <4>3. QED
        BY <2>5, <3>2, <4>1, <4>2 DEF LoadsStage2
    <3>4. QED
      BY <1>3, <2>5, <3>3
  <2>9. CASE job.image = "s15"
    <3> DEFINE at == job.at
    <3>1. /\ ImageSectors = at /\ Len(at) = Stage15Size /\ IsImage("s15", at)
          /\ \A k \in 1..Stage15Size : at[k] \in Sectors \ BootSectors
      BY <2>9, ImageFacts
    <3>2. /\ disk[at[1]].list = BlockList(at) /\ disk[at[2]].conf = "stage2"
          /\ disk[Stage2[2]].conf = "menu"
      BY <2>4, <2>9, <3>1 DEF Done
    <3>3. PICK a : a = at
      BY Zenon
    <3>4. /\ disk'[a[1]].list = BlockList(a) /\ disk'[a[2]].conf = "stage2"
          /\ disk'[Stage2[2]].conf = "menu"
      BY <2>5, <2>6, <2>7, <3>1, <3>2, <3>3
    <3>5. a \in Seq(Nat) /\ Len(a) # 0 /\ Len(a) = Stage15Size
      <4>1. \A i \in 1..Len(a) : a[i] \in Nat
        BY <2>7, <3>1, <3>3, SizeAssumption DEF Sectors
      <4>2. QED
        BY <2>7, <3>1, <3>3, <4>1
    <3>6. IsImage("s15", a)'
      <4> SUFFICES ASSUME NEW k \in 1..Len(a) PROVE disk'[a[k]].img = "s15" /\ disk'[a[k]].n = k - 1
        BY DEF IsImage
      <4>1. disk[a[k]].img = "s15" /\ disk[a[k]].n = k - 1
        BY <3>1, <3>3 DEF IsImage
      <4>2. a[k] \in Sectors \ BootSectors
        BY <3>1, <3>3
      <4>3. QED
        BY <2>6, <4>1, <4>2
    <3>7. <<a[1]>> \o Listed(disk'[a[1]].list) = a /\ disk'[a[1]].img = "s15"
      <4>1. <<a[1]>> \o Listed(BlockList(a)) = a /\ 1 \in 1..Len(a)
        BY <3>5, BlockListIsImage
      <4>2. disk'[a[1]].img = "s15"
        BY <3>6, <4>1 DEF IsImage
      <4>3. QED
        BY <3>4, <4>1, <4>2
    <3>8. Loads(a[1])'
      BY <2>5, <3>4, <3>5, <3>6, <3>7 DEF Loads, ImageWhole
    <3>9. disk'[b].img = "stage1" /\ disk'[b].next = a[1]
      BY <2>4, <2>6, <3>1, <3>3
    <3>10. QED
      BY <3>8, <3>9 DEF Boots
  <2>10. QED
    BY <2>5, <2>8, <2>9
<1>2. QED
  BY <1>1, IInvHolds, PTL DEF Spec, InstalledBoots

(* Every write of the commands goes to the boot sector they were given,    *)
(* whose partition table it keeps, to Stage 2, or to sectors that belong   *)
(* to no one, for every layout of the disk.                                *)
THEOREM WritesAreOwn == Spec => WritesOwnSectors
<1>1. IInv /\ [Next]_vars =>
        [\A s \in DOMAIN disk : disk'[s] # disk[s] =>
           \/ s = job.dest /\ disk'[s].table = disk[s].table
           \/ disk[s].img = "s2" /\ disk'[s].img = "s2" /\ disk'[s].n = disk[s].n
           \/ Free(s)]_vars
  <2> SUFFICES ASSUME IInv, [Next]_vars, NEW s \in DOMAIN disk, disk'[s] # disk[s]
               PROVE  \/ s = job.dest /\ disk'[s].table = disk[s].table
                      \/ disk[s].img = "s2" /\ disk'[s].img = "s2" /\ disk'[s].n = disk[s].n
                      \/ Free(s)
    OBVIOUS
  <2>1. disk \in [Sectors -> SectorCell] /\ s \in Sectors
    BY DEF IInv, TypeOK
  <2>2. EmbedWrite \/ InstallWrite
    <3>1. disk' # disk
      OBVIOUS
    <3>2. ~(setup \/ embed \/ install)
      BY <3>1 DEF setup, embed, install, Begin
    <3>3. ~(EmbedCheck \/ EmbedWriteFails \/ InstallRead \/ InstallWriteFails \/ Crash \/ UNCHANGED vars)
      BY <3>1 DEF EmbedCheck, EmbedWriteFails, InstallRead, InstallWriteFails, Crash, vars
    <3>4. QED
      BY <3>2, <3>3 DEF Next
  <2>3. CASE EmbedWrite
    <3>1. pc = "embedding" /\ disk' = [disk EXCEPT ![job.at[job.i]] = Cell("s15", job.i - 1)]
      BY <2>3 DEF EmbedWrite
    <3>2. s = job.at[job.i]
      BY <2>1, <3>1
    <3>3. /\ Geometry /\ Device \in BootSectors /\ Room(Device) /\ job.at = Stage15At(AreaOf(Device))
          /\ job.i \in 1..Stage15Size
      BY <3>1, ImageFacts DEF IInv, UnderWay, Placed
    <3>4. \A k \in 1..Stage15Size : Free(job.at[k])
      BY <3>3, AreaFacts
    <3>5. QED
      BY <3>2, <3>3, <3>4
  <2>4. CASE InstallWrite /\ Order(job.image)[job.i] = "stage1"
    <3>1. disk' = [disk EXCEPT ![job.dest] = StageOne] /\ StageOne.table = disk[job.dest].table
      BY <2>4, SwitchLoads
    <3>2. s = job.dest /\ disk'[s] = StageOne
      BY <2>1, <3>1
    <3>3. QED
      BY <3>1, <3>2
  <2>5. CASE InstallWrite /\ Order(job.image)[job.i] # "stage1"
    <3>1. PICK step : step = Order(job.image)[job.i]
      BY Zenon
    <3>2. pc = "writing" /\ disk' = [disk EXCEPT ![Place(step)] = Patched(step)]
      BY <2>5, <3>1 DEF InstallWrite
    <3>3. step \in {"config", "first", "second"}
      <4> DEFINE o == Order(job.image)
      <4>1. job.image \in {"s2", "s15"} /\ job.i \in 1..Len(o)
        BY <3>2 DEF IInv, TypeOK, UnderWay
      <4>2. /\ Len(o) \in Nat \ {0} /\ o[Len(o)] = "stage1"
            /\ \A i \in 1..(Len(o) - 1) : o[i] \in {"config", "first", "second"}
        BY <4>1, OrderFacts, Zenon
      <4>3. o[job.i] # "stage1" /\ step = o[job.i]
        BY <2>5, <3>1
      <4> HIDE DEF o
      <4>4. job.i \in 1..(Len(o) - 1)
        BY <4>1, <4>2, <4>3
      <4>5. QED
        BY <4>2, <4>3, <4>4
    <3>4. /\ Place(step) \in Sectors
          /\ Patched(step).img = disk[Place(step)].img /\ Patched(step).n = disk[Place(step)].n
      BY <3>2, <3>3, PatchFacts
    <3>5. s = Place(step) /\ disk'[s].img = disk[s].img /\ disk'[s].n = disk[s].n
      BY <2>1, <3>2, <3>4
    <3>6. \A i \in 1..Len(Stage2) : disk[Stage2[i]].img = "s2"
      BY DEF IInv, ImageWhole, IsImage
    <3>7. /\ 1 \in 1..Len(Stage2) /\ 2 \in 1..Len(Stage2)
          /\ 1 \in 1..Stage15Size /\ 2 \in 1..Stage15Size /\ job.image \in {"s2", "s15"}
      BY SizeAssumption DEF IInv, Geometry, TypeOK
    <3>8. Place(step) \in {Stage2[2], ImageSectors[1], ImageSectors[2]}
      BY <3>3 DEF Place
    <3>9. CASE job.image = "s2"
      <4>1. ImageSectors = Stage2
        BY <3>9, ImageFacts
      <4>2. QED
        BY <3>5, <3>6, <3>7, <3>8, <4>1
    <3>10. CASE job.image = "s15"
      <4>1. ImageSectors = job.at /\ \A k \in 1..Stage15Size : Free(job.at[k])
        BY <3>10, ImageFacts
      <4>2. QED
        BY <3>5, <3>6, <3>7, <3>8, <4>1
    <3>11. QED
      BY <3>7, <3>9, <3>10
  <2>6. QED
    BY <2>2, <2>3, <2>4, <2>5
<1>2. QED
  BY <1>1, IInvHolds, PTL DEF Spec, WritesOwnSectors
=============================================================================
