----------------------------- MODULE TerminalProofs -----------------------------
(***************************************************************************)
(* What Terminal promises of texts and of the volume, for texts of any     *)
(* length and bytes, any library, lists of devices and lines.              *)
(*                                                                         *)
(* Most of it is about functions that go through a text byte by byte.      *)
(* They are recursive functions; that they are defined, and what they      *)
(* give, is shown by looking at the first place where it would fail        *)
(* (LeastNatural), which is induction for a set rather than a predicate.   *)
(***************************************************************************)
EXTENDS Terminal, WellFoundedInduction, SequenceTheorems, TLAPS

Less == {p \in Nat \X Nat : p[1] < p[2]}

LEMMA LessIsWellFounded == IsWellFoundedOn(Less, Nat)
<1>1. OpToRel(<, Nat) = Less
  BY Zenon DEF OpToRel, Less
<1> QED BY Zenon, <1>1, NatLessThanWellFounded

(* Every set of natural numbers that is not empty has a least one. *)
LEMMA LeastNatural ==
  ASSUME NEW T, T \subseteq Nat, T # {}
  PROVE  \E x \in T : \A y \in T : x <= y
<1>1. PICK x \in T : \A y \in T : ~ (<<y, x>> \in Less)
  BY Zenon, LessIsWellFounded, WFMin
<1>2. \A y \in T : y \in Nat /\ x \in Nat
  OBVIOUS
<1>3. \A y \in T : <<y, x>> \in Less <=> y < x
  BY <1>2 DEF Less
<1>4. ASSUME NEW y \in T PROVE x <= y
  <2>1. ~(y < x)
    BY Zenon, <1>1, <1>3
  <2> QED BY <1>2, <2>1
<1> QED BY <1>4

(* Induction up to n, for a set. *)
LEMMA UpTo ==
  ASSUME NEW n \in Nat, NEW T,
         0 \in T,
         \A i \in 1..n : i - 1 \in T => i \in T
  PROVE  \A i \in 0..n : i \in T
<1> DEFINE Missing == {i \in 0..n : i \notin T}
<1> SUFFICES ASSUME Missing # {} PROVE FALSE
  OBVIOUS
<1>1. PICK x \in Missing : \A y \in Missing : x <= y
  <2>1. Missing \subseteq Nat
    OBVIOUS
  <2> HIDE DEF Missing
  <2> QED BY <2>1, LeastNatural
<1>2. x \in 1..n /\ x - 1 \in 0..n /\ x - 1 \notin Missing
  BY <1>1
<1> QED BY <1>1, <1>2

(* Induction down from n. *)
LEMMA DownFrom ==
  ASSUME NEW n \in Nat, NEW T,
         \A i \in 0..n : (\A j \in (i + 1)..n : j \in T) => i \in T
  PROVE  \A i \in 0..n : i \in T
<1> DEFINE Missing == {d \in 0..n : n - d \notin T}
<1> SUFFICES ASSUME NEW i \in 0..n, i \notin T PROVE FALSE
  OBVIOUS
<1>1. n - i \in Missing
  OBVIOUS
<1>2. PICK x \in Missing : \A y \in Missing : x <= y
  <2>1. Missing \subseteq Nat
    OBVIOUS
  <2> HIDE DEF Missing
  <2> QED BY <1>1, <2>1, LeastNatural
<1>3. \A j \in (n - x + 1)..n : j \in T
  <2> TAKE j \in (n - x + 1)..n
  <2>1. n - j \in 0..n /\ n - j < x /\ n - (n - j) = j
    BY <1>2
  <2> QED BY <1>2, <2>1
<1> QED BY <1>2, <1>3

(* A recursion that goes forward through 1..n, from a, is a function. *)
Forward(f, n, S, a, G) ==
  f \in [0..n -> S] /\ f[0] = a /\ \A i \in 1..n : f[i] = G[i][f[i - 1]]

LEMMA ForwardRecursion ==
  ASSUME NEW n \in Nat, NEW S, NEW a \in S, NEW G \in [1..n -> [S -> S]]
  PROVE  \E f : Forward(f, n, S, a, G)
<1> DEFINE T == {m \in 0..n : \E f : Forward(f, m, S, a, G)}
<1>1. 0 \in T
  <2> DEFINE f == [i \in 0..0 |-> a]
  <2>1. Forward(f, 0, S, a, G)
    BY DEF Forward
  <2> QED BY <2>1
<1>2. ASSUME NEW m \in 1..n, m - 1 \in T PROVE m \in T
  <2>1. PICK f : Forward(f, m - 1, S, a, G)
    BY <1>2
  <2> DEFINE g == [i \in 0..m |-> IF i = m THEN G[m][f[m - 1]] ELSE f[i]]
  <2>2. g \in [0..m -> S] /\ g[0] = a
    BY <2>1 DEF Forward
  <2>3. \A i \in 1..m : g[i] = G[i][g[i - 1]]
    BY <2>1 DEF Forward
  <2>4. Forward(g, m, S, a, G)
    <3> HIDE DEF g
    <3> QED BY <2>2, <2>3 DEF Forward
  <2> QED BY <2>4
<1>3. \A i \in 0..n : i \in T
  <2> HIDE DEF T
  <2> QED BY <1>1, <1>2, UpTo
<1> QED BY <1>3

(* A recursion that goes on from i at next[i], a later place, or ends at i  *)
(* with base[i] if next[i] is 0.                                            *)
Backward(f, m, n, S, next, base, G) ==
  /\ f \in [m..n -> S]
  /\ \A i \in m..n : f[i] = IF next[i] = 0 THEN base[i] ELSE G[i][f[next[i]]]

LEMMA BackwardRecursion ==
  ASSUME NEW n \in Nat, NEW S, NEW base \in [1..n -> S], NEW G \in [1..n -> [S -> S]],
         NEW next \in [1..n -> 0..n], \A i \in 1..n : next[i] = 0 \/ i < next[i]
  PROVE  \E f : Backward(f, 1, n, S, next, base, G)
<1> DEFINE Defined(m) == \E f : Backward(f, m, n, S, next, base, G)
           T == {d \in 0..n : Defined(n + 1 - d)}
<1>1. 0 \in T
  <2> DEFINE f == [i \in (n + 1)..n |-> base[i]]
  <2>1. \A i \in (n + 1)..n : FALSE
    OBVIOUS
  <2>2. Backward(f, n + 1, n, S, next, base, G)
    BY <2>1 DEF Backward
  <2>3. n + 1 - 0 = n + 1
    OBVIOUS
  <2> QED BY <2>2, <2>3
<1>2. ASSUME NEW d \in 1..n, d - 1 \in T PROVE d \in T
  <2> DEFINE m == n + 1 - d
  <2>1. m \in 1..n /\ n + 1 - (d - 1) = m + 1
    OBVIOUS
  <2>2. PICK f : Backward(f, m + 1, n, S, next, base, G)
    BY <1>2, <2>1
  <2> DEFINE g == [i \in m..n |-> IF i = m THEN IF next[m] = 0 THEN base[m] ELSE G[m][f[next[m]]]
                                          ELSE f[i]]
  <2> SUFFICES Defined(m)
    OBVIOUS
  <2> HIDE DEF m
  <2>3. ASSUME NEW i \in m..n
        PROVE  /\ i \in 1..n /\ (i # m => i \in (m + 1)..n)
               /\ next[i] # 0 => next[i] \in (m + 1)..n /\ next[i] \in m..n /\ next[i] # m
    <3>1. i \in 1..n /\ (i # m => i \in (m + 1)..n)
      BY <2>1
    <3>2. next[i] \in 0..n /\ (next[i] = 0 \/ i < next[i])
      BY <3>1
    <3> QED BY <2>1, <3>1, <3>2
  <2>4. f \in [(m + 1)..n -> S]
    BY <2>2 DEF Backward
  <2>5. ASSUME NEW i \in m..n
        PROVE  g[i] \in S /\ g[i] = IF next[i] = 0 THEN base[i] ELSE G[i][g[next[i]]]
    <3>1. next[i] # 0 => g[next[i]] = f[next[i]] /\ f[next[i]] \in S
      BY <2>3, <2>4
    <3>2. base[i] \in S /\ (next[i] # 0 => G[i][f[next[i]]] \in S)
      BY <2>3, <3>1
    <3>3. CASE i = m
      <4>1. g[i] = IF next[i] = 0 THEN base[i] ELSE G[i][f[next[i]]]
        BY <3>3
      <4> HIDE DEF g
      <4> QED BY <3>1, <3>2, <4>1
    <3>4. CASE i # m
      <4>1. g[i] = f[i] /\ i \in (m + 1)..n
        BY <2>3, <3>4
      <4>2. f[i] = IF next[i] = 0 THEN base[i] ELSE G[i][f[next[i]]]
        BY <2>2, <4>1 DEF Backward
      <4> HIDE DEF g
      <4> QED BY <2>4, <3>1, <4>1, <4>2
    <3> QED BY <3>3, <3>4
  <2>6. g \in [m..n -> S]
    <3>1. g = [i \in m..n |-> g[i]]
      OBVIOUS
    <3> HIDE DEF g
    <3> QED BY <2>5, <3>1
  <2>7. Backward(g, m, n, S, next, base, G)
    <3> HIDE DEF g
    <3> QED BY <2>5, <2>6 DEF Backward
  <2> QED BY <2>7
<1>3. \A i \in 0..n : i \in T
  <2> HIDE DEF T
  <2> QED BY <1>1, <1>2, UpTo
<1>4. n \in T /\ n + 1 - n = 1
  BY <1>3
<1> QED BY <1>4

(* What \o gives, element by element. *)
LEMMA Concat ==
  ASSUME NEW X, NEW s \in Seq(X), NEW t \in Seq(X)
  PROVE  /\ s \o t \in Seq(X)
         /\ Len(s \o t) = Len(s) + Len(t)
         /\ \A i \in 1..Len(s) : (s \o t)[i] = s[i]
         /\ \A i \in 1..Len(t) : (s \o t)[Len(s) + i] = t[i]
BY ConcatProperties

Joins(u, s, t) ==
  /\ Len(u) = Len(s) + Len(t)
  /\ \A i \in 1..Len(s) : u[i] = s[i]
  /\ \A i \in 1..Len(t) : u[Len(s) + i] = t[i]

LEMMA Joined ==
  ASSUME NEW X, NEW s \in Seq(X), NEW t \in Seq(X)
  PROVE  s \o t \in Seq(X) /\ Joins(s \o t, s, t)
BY Concat DEF Joins

LEMMA Slice ==
  ASSUME NEW X, NEW s \in Seq(X), NEW a \in 1..(Len(s) + 1), NEW b \in (a - 1)..Len(s)
  PROVE  /\ SubSeq(s, a, b) \in Seq(X)
         /\ Len(SubSeq(s, a, b)) = b - a + 1
         /\ \A i \in 1..(b - a + 1) : SubSeq(s, a, b)[i] = s[a + i - 1]
<1>1. Len(s) \in Nat /\ \A i \in a..b : i \in 1..Len(s) /\ s[i] \in X
  BY LenProperties, ElementOfSeq
<1> QED BY <1>1, SubSeqProperties

(* FlattenSeq() is defined, and joins its parts from the left. *)
LEMMA Flattened ==
  ASSUME NEW X, NEW q \in Seq(Seq(X))
  PROVE  \E f \in [0..Len(q) -> Seq(X)] :
           /\ f[0] = <<>>
           /\ \A i \in 1..Len(q) : f[i] = f[i - 1] \o q[i]
           /\ FlattenSeq(q) = f[Len(q)]
<1> DEFINE n == Len(q)
           S == Seq(X)
           none == <<>>
           Join(x, y) == x \o y
           G == [i \in 1..n |-> [x \in S |-> Join(x, q[i])]]
<1>1. n \in Nat /\ none \in S /\ \A i \in 1..n : q[i] \in S
  OBVIOUS
<1>2. /\ \A x, y \in S : Join(x, y) \in S
      /\ \A x \in S : Join(none, x) = x
  BY Concat
<1>3. CASE n = 0
  <2> DEFINE f == [i \in 0..0 |-> none]
  <2>1. q = none /\ FlattenSeq(q) = q
    BY <1>3 DEF FlattenSeq
  <2>2. f \in [0..0 -> S] /\ f[0] = none
    BY <1>1
  <2>3. FlattenSeq(q) = f[n] /\ n = 0
    BY <1>3, <2>1, <2>2
  <2> HIDE DEF f
  <2>4. \A i \in 1..n : f[i] = f[i - 1] \o q[i]
    BY <2>3
  <2> QED BY <2>2, <2>3, <2>4
<1>4. CASE n # 0
  <2> DEFINE Step(g) == [i \in 1..n |-> IF i = 1 THEN q[i] ELSE Join(g[i - 1], q[i])]
             fl == CHOOSE g : g = Step(g)
  <2>1. FlattenSeq(q) = fl[n]
    BY <1>4 DEF FlattenSeq
  <2> SUFFICES \E f \in [0..n -> S] :
                 f[0] = none /\ (\A i \in 1..n : f[i] = Join(f[i - 1], q[i])) /\ fl[n] = f[n]
    BY <2>1
  <2> HIDE DEF Join, none, S, n
  <2>2. G \in [1..n -> [S -> S]]
    BY <1>1, <1>2
  <2>3. PICK f : Forward(f, n, S, none, G)
    <3> HIDE DEF G
    <3> QED BY <1>1, <2>2, ForwardRecursion
  <2>4. f \in [0..n -> S] /\ f[0] = none
    BY <2>3 DEF Forward
  <2>5. ASSUME NEW i \in 1..n PROVE f[i - 1] \in S /\ f[i] = Join(f[i - 1], q[i])
    <3>1. i - 1 \in 0..n
      BY <1>1
    <3>2. f[i] = G[i][f[i - 1]]
      <4> HIDE DEF G
      <4> QED BY <2>3 DEF Forward
    <3> QED BY <2>4, <3>1, <3>2
  <2>6. 1 \in 1..n /\ f[1] = q[1]
    <3>1. 1 \in 1..n /\ 1 - 1 = 0
      BY <1>1, <1>4
    <3> QED BY <1>1, <1>2, <2>4, <2>5, <3>1
  <2>7. ASSUME NEW g, g = Step(g) PROVE g[n] = f[n]
    <3> DEFINE T == {i \in 0..n : i = 0 \/ g[i] = f[i]}
    <3>1. ASSUME NEW i \in 1..n, i - 1 \in T PROVE i \in T
      <4>1. g[i] = IF i = 1 THEN q[i] ELSE Join(g[i - 1], q[i])
        BY <2>7
      <4>2. i = 1 \/ g[i - 1] = f[i - 1]
        BY <1>1, <3>1
      <4>3. g[i] = f[i]
        BY <2>5, <2>6, <4>1, <4>2
      <4> QED BY <4>3
    <3>2. 0 \in T
      BY <1>1
    <3>3. \A i \in 0..n : i \in T
      <4> HIDE DEF T, Step
      <4> QED BY <1>1, <3>1, <3>2, UpTo
    <3> QED BY <1>1, <1>4, <3>3
  <2>8. fl = Step(fl)
    <3> DEFINE h == [i \in 1..n |-> f[i]]
    <3>1. ASSUME NEW i \in 1..n PROVE f[i] = IF i = 1 THEN q[i] ELSE Join(h[i - 1], q[i])
      <4>1. i # 1 => h[i - 1] = f[i - 1]
        BY <1>1
      <4> HIDE DEF h
      <4> QED BY <2>5, <2>6, <4>1
    <3>2. h = Step(h)
      BY <3>1
    <3> HIDE DEF h, Step
    <3> QED BY <3>2
  <2>9. fl[n] = f[n]
    <3> HIDE DEF fl, Step
    <3> QED BY <2>7, <2>8
  <2> HIDE DEF fl, G
  <2> QED BY <2>4, <2>5, <2>9
<1> QED BY <1>3, <1>4

(* Where the parts of q are found in FlattenSeq(q): q[i] after at[i - 1].   *)
Offsets(at, q) ==
  /\ at \in [0..Len(q) -> Nat]
  /\ at[0] = 0 /\ at[Len(q)] = Len(FlattenSeq(q))
  /\ \A i \in 1..Len(q) :
       /\ at[i] = at[i - 1] + Len(q[i]) /\ at[i] <= Len(FlattenSeq(q))
       /\ \A k \in 1..Len(q[i]) : FlattenSeq(q)[at[i - 1] + k] = q[i][k]

LEMMA FlattenAt ==
  ASSUME NEW X, NEW q \in Seq(Seq(X))
  PROVE  FlattenSeq(q) \in Seq(X) /\ \E at : Offsets(at, q)
<1> DEFINE n == Len(q)
<1>1. n \in Nat /\ \A i \in 1..n : q[i] \in Seq(X)
  OBVIOUS
<1>2. PICK f \in [0..n -> Seq(X)] :
        f[0] = <<>> /\ (\A i \in 1..n : f[i] = f[i - 1] \o q[i]) /\ FlattenSeq(q) = f[n]
  BY Flattened
<1> HIDE DEF n
<1> DEFINE at == [i \in 0..n |-> Len(f[i])]
<1>3. at \in [0..n -> Nat] /\ at[0] = 0 /\ at[n] = Len(f[n])
  BY <1>1, <1>2
<1>4. ASSUME NEW i \in 1..n
      PROVE  /\ i - 1 \in 0..n /\ i \in 0..n /\ Len(q[i]) \in Nat
             /\ at[i] = at[i - 1] + Len(q[i])
             /\ \A k \in 1..at[i - 1] : f[i][k] = f[i - 1][k]
             /\ \A k \in 1..Len(q[i]) : f[i][at[i - 1] + k] = q[i][k]
  <2>1. i - 1 \in 0..n /\ i \in 0..n
    BY <1>1
  <2>2. f[i - 1] \in Seq(X)
    BY <2>1
  <2>3. f[i] = f[i - 1] \o q[i] /\ q[i] \in Seq(X)
    BY <1>1, <1>2
  <2>4. at[i] = Len(f[i]) /\ at[i - 1] = Len(f[i - 1])
    BY Zenon, <2>1
  <2>5. Len(q[i]) \in Nat
    BY <2>3
  <2> HIDE DEF at
  <2> QED BY <2>1, <2>2, <2>3, <2>4, <2>5, Concat
<1> HIDE DEF at
<1> DEFINE Begins(i, j) ==
             at[i] <= at[j] /\ \A k \in 1..at[i] : f[j][k] = f[i][k]
           T == {j \in 0..n : \A i \in 0..j : Begins(i, j)}
<1>5. 0 \in T
  <2>1. \A i \in 0..0 : i = 0
    OBVIOUS
  <2>2. Begins(0, 0)
    BY <1>1, <1>3
  <2> HIDE DEF Begins
  <2> QED BY <1>1, <2>1, <2>2
<1>6. ASSUME NEW j \in 1..n, j - 1 \in T PROVE j \in T
  <2>1. ASSUME NEW i \in 0..j PROVE Begins(i, j)
    <3>1. CASE i = j
      <4>1. at[j] \in Nat
        BY <1>3, <1>4
      <4> QED BY <3>1, <4>1
    <3>2. CASE i # j
      <4>1. i \in 0..(j - 1) /\ i \in 0..n
        BY <1>1, <3>2
      <4>2. Begins(i, j - 1)
        BY <1>6, <4>1
      <4>3. at[i] \in Nat /\ at[j - 1] \in Nat
        BY <1>3, <1>4, <4>1
      <4>4. at[i] <= at[j]
        BY <1>4, <4>2, <4>3
      <4>5. \A k \in 1..at[i] : k \in 1..at[j - 1]
        BY <4>2, <4>3
      <4> QED BY <1>4, <4>2, <4>4, <4>5
    <3> QED BY <3>1, <3>2
  <2> HIDE DEF Begins
  <2> QED BY <1>1, <2>1
<1>7. \A j \in 0..n : j \in T
  <2> HIDE DEF T
  <2> QED BY <1>1, <1>5, <1>6, UpTo
<1>8. \A i \in 0..n : Begins(i, n)
  <2> HIDE DEF Begins
  <2> QED BY <1>1, <1>7
<1>9. ASSUME NEW i \in 1..n
      PROVE  /\ at[i] = at[i - 1] + Len(q[i]) /\ at[i] <= at[n]
             /\ \A k \in 1..Len(q[i]) : f[n][at[i - 1] + k] = q[i][k]
  <2>1. at[i - 1] \in Nat /\ at[i] = at[i - 1] + Len(q[i]) /\ Len(q[i]) \in Nat
    BY <1>3, <1>4
  <2>2. \A k \in 1..Len(q[i]) : at[i - 1] + k \in 1..at[i]
    BY <2>1
  <2> QED BY <1>4, <1>8, <2>1, <2>2
<1>10. Offsets(at, q)
  BY <1>2, <1>3, <1>9 DEF Offsets, n
<1> QED BY <1>1, <1>2, <1>10

-------------------------------------------------------------------------------
(* The volume                                                               *)

(* What parses as a number is one, whatever the width. *)
LEMMA ParsesToInt ==
  ASSUME NEW s, NEW max \in Nat
  PROVE  ParseInt(s, max) \in [some : BOOLEAN, value : Int]
<1> DEFINE negative == s # <<>> /\ s[1] = 45
           digits == IF negative THEN Tail(s) ELSE s
           value[i \in 0..Len(digits)] == IF i = 0 THEN 0 ELSE 10 * value[i - 1] + (digits[i] - 48)
           number == IF negative THEN -value[Len(digits)] ELSE value[Len(digits)]
           good == digits # <<>> /\ (\A i \in 1..Len(digits) : IsDigit(digits[i])) /\ number \in (-max - 1)..max
<1>1. ParseInt(s, max) = IF good THEN [some |-> TRUE, value |-> number] ELSE [some |-> FALSE, value |-> 0]
  BY Zenon DEF ParseInt
<1>2. good => number \in Int
  <2> HIDE DEF number
  <2> QED OBVIOUS
<1> HIDE DEF good, number
<1> QED BY <1>1, <1>2

OtherCommands ==
  [op : {"resumePlayback", "stopPlayback", "nextSong", "prevSong"}]
  \cup [op : {"playSong"}, album : Seq(0..255), song : Int]
  \cup [op : {"setOutputDevice"}, index : Int]
SetVolume(percent) == [op |-> "setVolume", percent |-> percent]
Commands == OtherCommands \cup {SetVolume(p) : p \in 0..100}

Others(i) == i \in DOMAIN queue => queue[i].op # "setVolume"
LastVolume(i) == i \in 1..Len(queue) /\ queue[i] = SetVolume(promised)
                 /\ \A j \in (i + 1)..Len(queue) : Others(j)

(* The last setVolume in the queue is for the volume last answered; with    *)
(* none there, it has been set.                                             *)
VolumeInv ==
  /\ queue \in Seq(Commands) /\ volume \in 0..100 /\ promised \in 0..100
  /\ \/ volume = promised /\ \A i \in 1..Len(queue) : Others(i)
     \/ \E i \in 1..Len(queue) : LastVolume(i)

(* What a line does to the queue. *)
Effect ==
  \/ UNCHANGED <<queue, promised>>
  \/ \E c \in OtherCommands : queue' = Append(queue, c) /\ promised' = promised
  \/ \E p \in 0..100 : queue' = Append(queue, SetVolume(p)) /\ promised' = p

LEMMA CommandKinds ==
  /\ \A c \in OtherCommands : c.op # "setVolume"
  /\ \A p \in 0..100 : SetVolume(p).op = "setVolume" /\ SetVolume(p).percent = p
  /\ \A c \in Commands : c.op = "setVolume" => c.percent \in 0..100
<1>1. \A c \in OtherCommands : c.op # "setVolume"
  BY DEF OtherCommands
<1>2. \A p \in 0..100 : SetVolume(p).op = "setVolume" /\ SetVolume(p).percent = p
  BY DEF SetVolume
<1> QED BY <1>1, <1>2 DEF Commands

LEMMA TargetsInRange ==
  ASSUME volume \in 0..100, NEW relative \in BOOLEAN, NEW value \in Int
  PROVE  Targets(relative, value) \subseteq 0..100
BY TerminalAssumption DEF Targets, Clamped

LEMMA ExecuteEffect ==
  ASSUME volume \in 0..100, NEW meant, NEW verb, NEW line, Execute(meant, verb, line)
  PROVE  Effect
<1> DEFINE args == Trim(line)
<1>1. ASSUME NEW m, NEW ok, NEW s, Say(m, ok, s) PROVE Effect
  BY <1>1 DEF Say, Effect
<1>2. ASSUME NEW op \in {"stopPlayback", "nextSong", "prevSong"}, Control(meant, op) PROVE Effect
  BY <1>2 DEF Control, Enqueue, Effect, OtherCommands
<1>3. ASSUME Songs(meant, args) PROVE Effect
  BY <1>1, <1>3 DEF Songs
<1>4. ASSUME Play(meant, args) PROVE Effect
  <2>1. CASE args = <<>>
    BY <1>4, <2>1 DEF Play, Enqueue, Effect, OtherCommands
  <2>2. CASE args # <<>>
    <3> DEFINE n == Named(args)
               call == [op |-> "playSong", album |-> Albums[n.album], song |-> n.track - 1]
    <3>1. CASE n.album \in Loaded /\ n.track \in 1..Tracks
      <4>1. queue' = Append(queue, call) /\ promised' = promised
        BY <1>4, <2>2, <3>1 DEF Play, Enqueue
      <4>2. Albums[n.album] \in Seq(0..255)
        <5>1. n.album \in 1..Len(Albums)
          BY <3>1, TerminalAssumption, Zenon
        <5> HIDE DEF n
        <5> QED BY <5>1, TerminalAssumption
      <4>3. n.track - 1 \in Int
        BY <3>1, TerminalAssumption
      <4>4. call \in OtherCommands
        <5> HIDE DEF n
        <5> QED BY <4>2, <4>3 DEF OtherCommands
      <4> QED BY <4>1, <4>4 DEF Effect
    <3>2. CASE ~(n.album \in Loaded /\ n.track \in 1..Tracks)
      BY <1>1, <1>4, <2>2, <3>2 DEF Play
    <3> QED BY <3>1, <3>2
  <2> QED BY <2>1, <2>2
<1>5. ASSUME Volume(meant, args) PROVE Effect
  <2> DEFINE sign == args # <<>> /\ args[1] \in {43, 45}
             n == ParseInt(IF sign /\ args[1] = 43 THEN Tail(args) ELSE args, IntMax)
  <2>1. CASE args = <<>> \/ ~n.some
    BY <1>1, <1>5, <2>1 DEF Volume
  <2>2. CASE ~(args = <<>> \/ ~n.some)
    <3>1. PICK p \in Targets(sign, n.value) : queue' = Append(queue, SetVolume(p)) /\ promised' = p
      BY <1>5, <2>2, Zenon DEF Volume, Enqueue, SetVolume
    <3>2. n.value \in Int
      BY ParsesToInt, TerminalAssumption
    <3>3. p \in 0..100
      BY <3>1, <3>2, TargetsInRange
    <3> QED BY <3>1, <3>3 DEF Effect
  <2> QED BY <2>1, <2>2
<1>6. ASSUME Output(meant, args) PROVE Effect
  <2> DEFINE n == ParseInt(args, IntMax)
  <2>1. PICK devices \in Outputs :
          IF args # <<>> /\ n.some /\ n.value \in 1..Len(devices)
          THEN /\ Enqueue([op |-> "setOutputDevice", index |-> n.value - 1])
               /\ Answer(meant, NoCall, <<>>, TRUE, devices[n.value])
               /\ UNCHANGED <<promised, quitting>>
          ELSE IF args \in {<<>>, ListWord} THEN List(meant, devices) ELSE Say(meant, FALSE, <<>>)
    BY <1>6, Zenon DEF Output
  <2>2. [op |-> "setOutputDevice", index |-> n.value - 1] \in OtherCommands
    <3>1. n.value \in Int
      BY ParsesToInt, TerminalAssumption
    <3> HIDE DEF n
    <3> QED BY <3>1 DEF OtherCommands
  <2> HIDE DEF n
  <2> QED BY <1>1, <2>1, <2>2 DEF Enqueue, Effect, List
<1>7. ASSUME Theme(meant, args) \/ Visual(meant, args) PROVE Effect
  BY <1>1, <1>7 DEF Theme, Visual, Effect
<1>8. ASSUME Root(meant, args) PROVE Effect
  BY <1>1, <1>8 DEF Root, Query, Effect
<1>9. ASSUME Quit(meant) PROVE Effect
  BY <1>9 DEF Quit, Effect
<1> HIDE DEF args
<1> QED BY <1>1, <1>2, <1>3, <1>4, <1>5, <1>6, <1>7, <1>8, <1>9 DEF Execute, args, Query, List

LEMMA EffectKeepsVolume ==
  ASSUME VolumeInv, Effect, UNCHANGED volume
  PROVE  VolumeInv'
<1>1. CASE UNCHANGED <<queue, promised>>
  BY <1>1 DEF VolumeInv, LastVolume, Others
<1>2. ASSUME NEW c \in OtherCommands, queue' = Append(queue, c), promised' = promised
      PROVE  VolumeInv'
  <2>0. PICK n \in Nat : n = Len(queue)
    BY DEF VolumeInv
  <2>1. /\ queue' \in Seq(Commands) /\ Len(queue') = n + 1
        /\ queue'[n + 1] = c
        /\ \A i \in 1..n : queue'[i] = queue[i]
    BY <1>2, <2>0 DEF VolumeInv, Commands
  <2>2. c.op # "setVolume"
    BY CommandKinds
  <2>3. \A i \in 1..n : Others(i) => Others(i)'
    BY <2>0, <2>1 DEF Others
  <2>4. Others(n + 1)'
    BY <2>1, <2>2 DEF Others
  <2>5. CASE volume = promised /\ \A i \in 1..n : Others(i)
    <3>1. \A i \in 1..Len(queue') : Others(i)'
      BY <2>1, <2>3, <2>4, <2>5
    <3> QED BY <1>2, <2>1, <2>5, <3>1 DEF VolumeInv
  <2>6. ASSUME NEW i \in 1..n, LastVolume(i) PROVE VolumeInv'
    <3>1. i \in 1..Len(queue') /\ queue'[i] = SetVolume(promised')
      BY <1>2, <2>0, <2>1, <2>6 DEF LastVolume
    <3>2. \A j \in (i + 1)..Len(queue') : Others(j)'
      <4> TAKE j \in (i + 1)..Len(queue')
      <4>1. (j \in (i + 1)..n /\ j \in 1..n) \/ j = n + 1
        BY <2>1
      <4> QED BY <2>0, <2>3, <2>4, <2>6, <4>1 DEF LastVolume
    <3> QED BY <1>2, <2>1, <3>1, <3>2 DEF VolumeInv, LastVolume
  <2> QED BY <2>0, <2>5, <2>6 DEF VolumeInv
<1>3. ASSUME NEW p \in 0..100, queue' = Append(queue, SetVolume(p)), promised' = p
      PROVE  VolumeInv'
  <2>1. SetVolume(p) \in Commands
    BY DEF Commands
  <2>2. PICK n \in Nat : /\ queue' \in Seq(Commands) /\ Len(queue') = n + 1
                        /\ queue'[n + 1] = SetVolume(p)
    BY <1>3, <2>1 DEF VolumeInv
  <2>3. LastVolume(n + 1)'
    BY <1>3, <2>2 DEF LastVolume
  <2>4. n + 1 \in 1..Len(queue')
    BY <2>2
  <2> QED BY <1>3, <2>2, <2>3, <2>4 DEF VolumeInv
<1> QED BY <1>1, <1>2, <1>3 DEF Effect

LEMMA WorkKeepsVolume ==
  ASSUME VolumeInv, Work
  PROVE  VolumeInv'
<1> DEFINE c == queue[1]
<1>1. /\ queue # <<>> /\ queue' = Tail(queue) /\ promised' = promised
      /\ volume' = IF c.op = "setVolume" THEN Clamped(c.percent) ELSE volume
      /\ queue \in Seq(Commands)
  BY DEF Work, VolumeInv
<1>2. /\ queue' \in Seq(Commands) /\ Len(queue') = Len(queue) - 1 /\ Len(queue) \in Nat \ {0}
      /\ c \in Commands
      /\ \A i \in 1..Len(queue') : queue'[i] = queue[i + 1]
  BY <1>1
<1>3. volume' \in 0..100 /\ promised' \in 0..100
  BY <1>1, <1>2, CommandKinds DEF VolumeInv, Clamped
<1>4. \A i \in 1..Len(queue') : i + 1 \in 1..Len(queue) /\ (Others(i + 1) => Others(i)')
  BY <1>2 DEF Others
<1>5. CASE volume = promised /\ \A i \in 1..Len(queue) : Others(i)
  <2>1. c.op # "setVolume"
    BY <1>2, <1>5 DEF Others
  <2> QED BY <1>1, <1>2, <1>3, <1>4, <1>5, <2>1 DEF VolumeInv
<1>6. ASSUME NEW i \in 1..Len(queue), LastVolume(i) PROVE VolumeInv'
  <2>1. CASE i = 1
    <3>1. c = SetVolume(promised) /\ promised \in 0..100
      BY <1>6, <2>1 DEF LastVolume, VolumeInv
    <3>2. volume' = promised'
      <4>1. c.op = "setVolume" /\ c.percent = promised
        BY <3>1, CommandKinds
      <4> HIDE DEF c
      <4> QED BY <1>1, <3>1, <4>1 DEF Clamped
    <3>3. \A j \in 1..Len(queue') : Others(j)'
      <4> TAKE j \in 1..Len(queue')
      <4>1. j + 1 \in (1 + 1)..Len(queue)
        BY <1>2
      <4> QED BY <1>4, <1>6, <2>1, <4>1 DEF LastVolume
    <3> QED BY <1>2, <1>3, <3>2, <3>3 DEF VolumeInv
  <2>2. CASE i # 1
    <3>1. i - 1 \in 1..Len(queue') /\ queue'[i - 1] = queue[i]
      BY <1>2, <2>2
    <3>2. \A j \in (i - 1 + 1)..Len(queue') : Others(j)'
      <4> TAKE j \in (i - 1 + 1)..Len(queue')
      <4>1. j + 1 \in (i + 1)..Len(queue) /\ j \in 1..Len(queue')
        BY <1>2
      <4> QED BY <1>4, <1>6, <4>1 DEF LastVolume
    <3>3. LastVolume(i - 1)'
      BY <1>1, <1>6, <3>1, <3>2 DEF LastVolume
    <3> QED BY <1>2, <1>3, <3>1, <3>3 DEF VolumeInv
  <2> QED BY <2>1, <2>2
<1> QED BY <1>5, <1>6 DEF VolumeInv

(* The invariant of volume and queue holds under every action.              *)
THEOREM VolumeInductive == Spec => []VolumeInv
<1>1. Init => VolumeInv
  <2> SUFFICES ASSUME Init PROVE VolumeInv
    OBVIOUS
  <2>1. queue = <<>> /\ volume = 100 /\ promised = 100 /\ Len(queue) = 0
    BY DEF Init
  <2>2. queue \in Seq(Commands)
    BY <2>1
  <2> QED BY <2>1, <2>2 DEF VolumeInv
<1>2. VolumeInv /\ [Next]_vars => VolumeInv'
  <2> SUFFICES ASSUME VolumeInv, [Next]_vars PROVE VolumeInv'
    OBVIOUS
  <2>0. volume \in 0..100
    BY DEF VolumeInv
  <2>1. ASSUME UNCHANGED <<queue, promised, volume>> PROVE VolumeInv'
    BY <2>1, EffectKeepsVolume DEF Effect
  <2>2. ASSUME NEW m, NEW v, NEW l, Execute(m, v, l), UNCHANGED volume PROVE VolumeInv'
    BY <2>0, <2>2, ExecuteEffect, EffectKeepsVolume
  <2>3. CASE Guide \/ Type \/ Escape \/ Compose \/ UNCHANGED vars
    BY <2>1, <2>3 DEF Guide, Type, Escape, Compose, vars
  <2>4. CASE Enter
    BY <2>2, <2>4 DEF Enter
  <2>5. CASE Arrow
    BY <2>5, EffectKeepsVolume DEF Arrow, Enqueue, Effect, SetVolume
  <2>6. CASE TypedPlay
    BY <2>2, <2>6 DEF TypedPlay
  <2>7. CASE Line
    BY <2>2, <2>7 DEF Line
  <2>8. CASE Request
    BY <2>2, <2>8, Zenon DEF Request
  <2>9. CASE Work
    BY <2>9, WorkKeepsVolume
  <2> QED BY <2>3, <2>4, <2>5, <2>6, <2>7, <2>8, <2>9 DEF Next
<1> QED BY <1>1, <1>2, PTL DEF Spec

(* Once the worker has caught up, the volume is the one last answered.      *)
THEOREM VolumeSettlesHolds == Spec => []VolumeSettles
<1>1. VolumeInv => VolumeSettles
  <2> SUFFICES ASSUME VolumeInv, \A i \in 1..Len(queue) : queue[i].op # "setVolume"
               PROVE  volume = promised
    BY DEF VolumeSettles
  <2>1. \A i \in 1..Len(queue) : ~LastVolume(i)
    BY CommandKinds DEF LastVolume, VolumeInv
  <2> QED BY <2>1 DEF VolumeInv
<1> QED BY <1>1, VolumeInductive, PTL

-------------------------------------------------------------------------------
(* Answers                                                                  *)

Text == Seq(0..255)
OneLine == Seq((0..255) \ {Newline})

LEMMA TextFacts ==
  ASSUME NEW s \in Text
  PROVE  Len(s) \in Nat /\ \A i \in 1..Len(s) : s[i] \in 0..255 /\ s[i] \in Int
<1>1. Len(s) \in Nat /\ \A i \in 1..Len(s) : s[i] \in 0..255
  BY LenProperties, ElementOfSeq DEF Text
<1>2. \A x \in 0..255 : x \in Int
  OBVIOUS
<1> QED BY <1>1, <1>2, Zenon

LEMMA TextSlice ==
  ASSUME NEW s \in Text, NEW a \in Int, NEW b \in Int, 1 <= a, a <= b + 1, b <= Len(s)
  PROVE  /\ SubSeq(s, a, b) \in Text
         /\ Len(SubSeq(s, a, b)) = b - a + 1
         /\ \A i \in 1..(b - a + 1) : SubSeq(s, a, b)[i] = s[a + i - 1]
<1> DEFINE X == 0..255
<1>1. s \in Seq(X)
  BY DEF Text
<1>2. Len(s) \in Nat
  BY TextFacts
<1>3. a \in 1..(Len(s) + 1) /\ b \in (a - 1)..Len(s)
  BY <1>2
<1> SUFFICES SubSeq(s, a, b) \in Seq(X) /\ Len(SubSeq(s, a, b)) = b - a + 1
             /\ \A i \in 1..(b - a + 1) : SubSeq(s, a, b)[i] = s[a + i - 1]
  BY DEF Text
<1> HIDE DEF X
<1> QED BY <1>1, <1>3, Slice

(* How a byte is written: as it is, as a pair, or by its number. *)
Plainly(c) == c \notin {Quote, Backslash} /\ JsonEscaped(c) = <<c>>
AsPair(c, e) == JsonEscaped(c) = <<Backslash, e>> /\ e # 117 /\ Unescaped(e) = c
ByNumber(c, h, l) == /\ JsonEscaped(c) = <<Backslash, 117, 48, 48, h, l>>
                     /\ 16 * HexValue(h) + HexValue(l) = c

LEMMA JsonParts ==
  ASSUME NEW c \in 0..255
  PROVE  /\ JsonEscaped(c) \in OneLine
         /\ \/ Plainly(c)
            \/ \E e \in 0..255 : AsPair(c, e)
            \/ \E h, l \in 0..255 : ByNumber(c, h, l)
<1> USE DEF Tab, Newline, Return, Quote, Backslash, OneLine
<1>1. ASSUME NEW e \in 0..255, AsPair(c, e), e # Newline
      PROVE  JsonEscaped(c) \in OneLine
  <2>1. <<Backslash, e>> \in OneLine
    BY <1>1
  <2> QED BY <1>1, <2>1 DEF AsPair
<1>2. CASE c \in {Quote, Backslash}
  <2>1. AsPair(c, c) /\ c # Newline /\ c \in 0..255
    BY <1>2 DEF JsonEscaped, Unescaped, AsPair
  <2>2. JsonEscaped(c) \in OneLine
    BY <1>1, <2>1, Zenon
  <2> QED BY <2>1, <2>2, Zenon
<1>3. CASE c = Newline
  <2>1. AsPair(c, 110) /\ 110 # Newline /\ 110 \in 0..255
    BY <1>3 DEF JsonEscaped, Unescaped, AsPair
  <2>2. JsonEscaped(c) \in OneLine
    BY <1>1, <2>1, Zenon
  <2> QED BY <2>1, <2>2, Zenon
<1>4. CASE c = Return
  <2>1. AsPair(c, 114) /\ 114 # Newline /\ 114 \in 0..255
    BY <1>4 DEF JsonEscaped, Unescaped, AsPair
  <2>2. JsonEscaped(c) \in OneLine
    BY <1>1, <2>1, Zenon
  <2> QED BY <2>1, <2>2, Zenon
<1>5. CASE c = Tab
  <2>1. AsPair(c, 116) /\ 116 # Newline /\ 116 \in 0..255
    BY <1>5 DEF JsonEscaped, Unescaped, AsPair
  <2>2. JsonEscaped(c) \in OneLine
    BY <1>1, <2>1, Zenon
  <2> QED BY <2>1, <2>2, Zenon
<1>6. CASE c < 32 /\ c \notin {Tab, Newline, Return}
  <2> DEFINE h == HexDigit(c \div 16)
             l == HexDigit(c % 16)
  <2>1. JsonEscaped(c) = <<Backslash, 117, 48, 48, h, l>>
    BY <1>6 DEF JsonEscaped
  <2>2. /\ c \div 16 \in 0..15 /\ c % 16 \in 0..15
        /\ 16 * (c \div 16) + (c % 16) = c
    BY <1>6
  <2>3. ASSUME NEW d \in 0..15
        PROVE  HexDigit(d) \in (0..255) \ {Newline} /\ HexValue(HexDigit(d)) = d
    <3>1. CASE d < 10
      BY <3>1 DEF HexDigit, HexValue, IsDigit
    <3>2. CASE d >= 10
      BY <3>2 DEF HexDigit, HexValue, IsDigit
    <3> QED BY <3>1, <3>2
  <2>4. /\ h \in (0..255) \ {Newline} /\ l \in (0..255) \ {Newline}
        /\ HexValue(h) = c \div 16 /\ HexValue(l) = c % 16
    BY <2>2, <2>3
  <2> HIDE DEF h, l
  <2>5. <<Backslash, 117, 48, 48, h, l>> \in OneLine
    BY <2>4
  <2>6. ByNumber(c, h, l)
    BY <2>1, <2>2, <2>4 DEF ByNumber
  <2> QED BY <2>1, <2>4, <2>5, <2>6
<1>7. CASE c >= 32 /\ c \notin {Quote, Backslash}
  <2>1. JsonEscaped(c) = <<c>>
    BY <1>7 DEF JsonEscaped
  <2>2. <<c>> \in OneLine
    BY <1>7
  <2> QED BY <1>7, <2>1, <2>2 DEF Plainly
<1>8. c \in {Quote, Backslash} \/ c = Newline \/ c = Return \/ c = Tab
      \/ (c < 32 /\ c \notin {Tab, Newline, Return}) \/ (c >= 32 /\ c \notin {Quote, Backslash})
  OBVIOUS
<1> QED BY <1>2, <1>3, <1>4, <1>5, <1>6, <1>7, <1>8

(* The parts of a message in quotes. *)
Escapes(m) == [i \in 1..Len(m) |-> JsonEscaped(m[i])]

LEMMA EscapesTyped ==
  ASSUME NEW m \in Text
  PROVE  Escapes(m) \in Seq(OneLine) /\ \A i \in 1..Len(m) : Escapes(m)[i] \in OneLine
<1>1. Len(m) \in Nat /\ \A i \in 1..Len(m) : m[i] \in 0..255
  BY LenProperties, ElementOfSeq DEF Text
<1>2. \A i \in 1..Len(m) : JsonEscaped(m[i]) \in OneLine
  BY <1>1, JsonParts
<1> QED BY <1>1, <1>2 DEF Escapes

(* An answer, byte by byte; it has no newline. *)
Framed(doc, part, n) ==
  /\ doc \in OneLine /\ Len(doc) = 14 + n
  /\ doc[1] = 123 /\ doc[2] = 34 /\ doc[3] = 111 /\ doc[4] = 34 /\ doc[5] = 58
  /\ doc[6] \in {116, 102} /\ doc[7] = 44
  /\ doc[8] = 34 /\ doc[9] = 109 /\ doc[10] = 34 /\ doc[11] = 58 /\ doc[12] = 34
  /\ (\A k \in 1..n : doc[12 + k] = part[k])
  /\ doc[13 + n] = 34 /\ doc[14 + n] = 125

LEMMA AnswerFramed ==
  ASSUME NEW ok, NEW m \in Text
  PROVE  Framed(ToJson(ok, m), FlattenSeq(Escapes(m)), Len(FlattenSeq(Escapes(m))))
<1> DEFINE q == Escapes(m)
           F == FlattenSeq(q)
           start == OkKey \o <<IF ok THEN 116 ELSE 102, 44>>
           head == start \o MessageKey
           quoted == <<Quote>> \o F \o <<Quote>>
           doc == head \o quoted \o <<125>>
           X == (0..255) \ {Newline}
<1>1. q \in Seq(Seq(X)) /\ F \in Seq(X) /\ Len(F) \in Nat
  <2>2. q \in Seq(Seq(X))
    BY EscapesTyped DEF OneLine
  <2>3. F \in Seq(X)
    <3> HIDE DEF q
    <3> QED BY <2>2, FlattenAt
  <2> QED BY <2>2, <2>3
<1>2. doc = ToJson(ok, m)
  BY DEF ToJson, JsonQuote, Escapes
<1> HIDE DEF q, F
<1>3. /\ start \in Seq(X) /\ Len(start) = 7
      /\ start[1] = 123 /\ start[2] = 34 /\ start[3] = 111 /\ start[4] = 34 /\ start[5] = 58
      /\ start[6] \in {116, 102} /\ start[7] = 44
  BY DEF OkKey, Quote, Newline
<1> HIDE DEF start
<1>4. /\ MessageKey \in Seq(X) /\ Len(MessageKey) = 4 /\ MessageKey[1] = 34 /\ MessageKey[2] = 109
      /\ MessageKey[3] = 34 /\ MessageKey[4] = 58
  BY DEF MessageKey, Quote, Newline
<1>5. /\ head \in Seq(X) /\ Len(head) = 11
      /\ \A i \in 1..7 : head[i] = start[i]
      /\ \A i \in 1..4 : head[7 + i] = MessageKey[i]
  <2> HIDE DEF X
  <2>1. head \in Seq(X) /\ Joins(head, start, MessageKey)
    BY <1>3, <1>4, Zenon, Joined
  <2> HIDE DEF head
  <2> QED BY <1>3, <1>4, <2>1 DEF Joins
<1> HIDE DEF head
<1>6. <<Quote>> \in Seq(X) /\ Len(<<Quote>>) = 1 /\ <<Quote>>[1] = 34 /\ <<125>> \in Seq(X)
  BY DEF Quote, Newline
<1>7. /\ quoted \in Seq(X) /\ Len(quoted) = Len(F) + 2
      /\ quoted[1] = 34 /\ quoted[Len(F) + 2] = 34 /\ \A k \in 1..Len(F) : quoted[1 + k] = F[k]
  <2> DEFINE open == <<Quote>> \o F
  <2>1. /\ open \in Seq(X) /\ Len(open) = Len(F) + 1 /\ open[1] = 34
        /\ \A k \in 1..Len(F) : open[1 + k] = F[k]
    BY <1>1, <1>6, Concat
  <2> HIDE DEF open
  <2>2. /\ open \o <<Quote>> \in Seq(X) /\ Len(open \o <<Quote>>) = Len(F) + 2
        /\ (\A i \in 1..(Len(F) + 1) : (open \o <<Quote>>)[i] = open[i])
        /\ (open \o <<Quote>>)[Len(F) + 1 + 1] = 34
    BY <1>1, <1>6, <2>1, Concat
  <2>3. quoted = open \o <<Quote>>
    BY DEF open
  <2>4. 1 \in 1..(Len(F) + 1) /\ Len(F) + 1 + 1 = Len(F) + 2 /\ \A k \in 1..Len(F) : 1 + k \in 1..(Len(F) + 1)
    BY <1>1
  <2> HIDE DEF quoted
  <2> QED BY <2>1, <2>2, <2>3, <2>4
<1> HIDE DEF quoted
<1>8. doc \in Seq(X) /\ Len(doc) = 14 + Len(F) /\ doc[14 + Len(F)] = 125
      /\ (\A i \in 1..11 : doc[i] = head[i]) /\ \A i \in 1..(Len(F) + 2) : doc[11 + i] = quoted[i]
  <2> DEFINE most == head \o quoted
  <2>1. /\ most \in Seq(X) /\ Len(most) = 13 + Len(F)
        /\ (\A i \in 1..11 : most[i] = head[i]) /\ \A i \in 1..(Len(F) + 2) : most[11 + i] = quoted[i]
    <3>1. 11 + (Len(F) + 2) = 13 + Len(F)
      BY <1>1
    <3> HIDE DEF X
    <3>2. most \in Seq(X) /\ Joins(most, head, quoted)
      BY <1>5, <1>7, Zenon, Joined
    <3> HIDE DEF most
    <3> QED BY <1>1, <1>5, <1>7, <3>1, <3>2 DEF Joins
  <2> HIDE DEF most
  <2>2. doc = most \o <<125>>
    BY DEF most
  <2>3. /\ most \o <<125>> \in Seq(X) /\ Len(most \o <<125>>) = 14 + Len(F)
        /\ (\A i \in 1..(13 + Len(F)) : (most \o <<125>>)[i] = most[i])
        /\ (most \o <<125>>)[13 + Len(F) + 1] = 125
    BY <1>1, <1>6, <2>1, Concat
  <2>4. /\ 13 + Len(F) + 1 = 14 + Len(F) /\ \A i \in 1..11 : i \in 1..(13 + Len(F))
        /\ \A i \in 1..(Len(F) + 2) : 11 + i \in 1..(13 + Len(F))
    BY <1>1
  <2> HIDE DEF doc
  <2> QED BY <2>1, <2>2, <2>3, <2>4
<1> HIDE DEF doc
<1>9. \A k \in 1..Len(F) : 1 + k \in 1..(Len(F) + 2) /\ 11 + (1 + k) = 12 + k
  BY <1>1
<1>10. Len(F) + 2 \in 1..(Len(F) + 2) /\ 11 + (Len(F) + 2) = 13 + Len(F) /\ 1 \in 1..(Len(F) + 2)
  BY <1>1
<1>11. \A k \in 1..Len(F) : doc[12 + k] = F[k]
  <2> TAKE k \in 1..Len(F)
  <2>1. 1 + k \in 1..(Len(F) + 2) /\ 11 + (1 + k) = 12 + k
    BY <1>9, Zenon
  <2>2. doc[11 + (1 + k)] = quoted[1 + k]
    BY <1>8, <2>1, Zenon
  <2>3. quoted[1 + k] = F[k]
    BY <1>7, Zenon
  <2> QED BY <2>1, <2>2, <2>3, Zenon
<1>12. doc[13 + Len(F)] = 34 /\ doc[12] = 34
  <2>1. doc[11 + (Len(F) + 2)] = quoted[Len(F) + 2] /\ doc[11 + 1] = quoted[1]
    BY <1>8, <1>10, Zenon
  <2>2. quoted[Len(F) + 2] = 34 /\ quoted[1] = 34
    BY <1>7
  <2>3. 11 + (Len(F) + 2) = 13 + Len(F) /\ 11 + 1 = 12
    BY <1>1
  <2> QED BY <2>1, <2>2, <2>3, Zenon
<1>13. Framed(doc, F, Len(F))
  BY <1>3, <1>4, <1>5, <1>8, <1>11, <1>12 DEF Framed, OneLine
<1> QED BY <1>2, <1>13 DEF F, q

(* findString() reads on from i, in its own terms. *)
Nothing == [some |-> FALSE, value |-> <<>>]
Found(value) == [some |-> TRUE, value |-> value]
Before(c, r) == [r EXCEPT !.value = <<c>> \o @]
ReadAt(doc, read, i) ==
  IF i > Len(doc) THEN Nothing
  ELSE IF doc[i] = Quote THEN Found(<<>>)
  ELSE IF doc[i] # Backslash \/ i = Len(doc) THEN Before(doc[i], read[i + 1])
  ELSE IF doc[i + 1] # 117 THEN Before(Unescaped(doc[i + 1]), read[i + 2])
  ELSE IF i + 5 <= Len(doc)
       THEN Before(16 * HexValue(doc[i + 4]) + HexValue(doc[i + 5]), read[i + 6])
       ELSE read[i + 2]
ReadsAll(doc, read) == \A i \in 1..(Len(doc) + 5) : read[i] = ReadAt(doc, read, i)
Needle == MessageKey \o <<Quote>>

LEMMA BeforeTyped ==
  ASSUME NEW c \in Int, NEW r \in [some : BOOLEAN, value : Seq(Int)]
  PROVE  /\ Before(c, r) \in [some : BOOLEAN, value : Seq(Int)]
         /\ Before(c, r) = [some |-> r.some, value |-> <<c>> \o r.value]
<1>1. <<c>> \in Seq(Int)
  OBVIOUS
<1>2. <<c>> \o r.value \in Seq(Int)
  BY <1>1, Concat
<1> DEFINE v == <<c>> \o r.value
<1>3. Before(c, r) = [r EXCEPT !.value = v]
  BY DEF Before
<1> HIDE DEF v
<1> QED BY <1>2, <1>3 DEF v

LEMMA ReadDefined ==
  ASSUME NEW doc \in Text
  PROVE  \E read : ReadsAll(doc, read) /\ read = [i \in 1..(Len(doc) + 5) |-> ReadAt(doc, read, i)]
<1> DEFINE n == Len(doc)
           S == [some : BOOLEAN, value : Seq(Int)]
           single(i) == doc[i] # Backslash \/ i = n
           skip(i) == ~single(i) /\ doc[i + 1] = 117 /\ i + 5 > n
           next == [i \in 1..(n + 5) |->
                      IF i > n \/ doc[i] = Quote THEN 0
                      ELSE IF single(i) THEN i + 1
                      ELSE IF doc[i + 1] # 117 \/ skip(i) THEN i + 2 ELSE i + 6]
           base == [i \in 1..(n + 5) |-> IF i > n THEN Nothing ELSE Found(<<>>)]
           char(i) == IF single(i) THEN doc[i]
                      ELSE IF doc[i + 1] # 117 THEN Unescaped(doc[i + 1])
                      ELSE 16 * HexValue(doc[i + 4]) + HexValue(doc[i + 5])
           G == [i \in 1..(n + 5) |-> [r \in S |-> IF i > n \/ skip(i) THEN r ELSE Before(char(i), r)]]
<1>1. n \in Nat /\ \A i \in 1..n : doc[i] \in Int
  BY TextFacts
<1> HIDE DEF n
<1>2. base \in [1..(n + 5) -> S]
  BY DEF Nothing, Found
<1>3. ASSUME NEW i \in 1..(n + 5)
      PROVE  next[i] \in 0..(n + 5) /\ (next[i] = 0 \/ i < next[i])
  BY <1>1
<1>4. G \in [1..(n + 5) -> [S -> S]]
  <2>1. ASSUME NEW i \in 1..(n + 5), ~(i > n \/ skip(i)) PROVE char(i) \in Int
    <3>1. i \in 1..n
      BY <1>1, <2>1
    <3>2. CASE single(i)
      BY <1>1, <3>1, <3>2
    <3>3. CASE ~single(i) /\ doc[i + 1] # 117
      <4>1. i + 1 \in 1..n
        BY <1>1, <3>1, <3>3
      <4>2. doc[i + 1] \in Int
        BY <1>1, <4>1
      <4>3. Unescaped(doc[i + 1]) \in Int
        BY <4>2 DEF Unescaped, Newline, Return, Tab
      <4> QED BY <3>3, <4>3
    <3>4. CASE ~single(i) /\ doc[i + 1] = 117
      <4>1. i + 4 \in 1..n /\ i + 5 \in 1..n
        BY <1>1, <2>1, <3>1, <3>4
      <4>2. doc[i + 4] \in Int /\ doc[i + 5] \in Int
        BY <1>1, <4>1
      <4>3. \A d \in Int : HexValue(d) \in Int
        BY DEF HexValue
      <4>4. HexValue(doc[i + 4]) \in Int /\ HexValue(doc[i + 5]) \in Int
        BY <4>2, <4>3
      <4>5. 16 * HexValue(doc[i + 4]) + HexValue(doc[i + 5]) \in Int
        BY <4>4
      <4> QED BY <3>4, <4>5
    <3> QED BY <3>2, <3>3, <3>4
  <2> HIDE DEF char, skip
  <2>2. ASSUME NEW i \in 1..(n + 5), NEW r \in S
        PROVE  (IF i > n \/ skip(i) THEN r ELSE Before(char(i), r)) \in S
    BY <2>1, BeforeTyped
  <2> HIDE DEF S
  <2> QED BY <2>2
<1>5. next \in [1..(n + 5) -> 0..(n + 5)]
  <2> HIDE DEF single, skip
  <2>1. next = [i \in 1..(n + 5) |-> next[i]]
    OBVIOUS
  <2> HIDE DEF next
  <2> QED BY <1>3, <2>1
<1>6. PICK f : Backward(f, 1, n + 5, S, next, base, G)
  <2> HIDE DEF S, G, next, base
  <2>1. n + 5 \in Nat /\ \A i \in 1..(n + 5) : next[i] = 0 \/ i < next[i]
    BY <1>1, <1>3
  <2> QED BY <1>2, <1>4, <1>5, <2>1, BackwardRecursion
<1>7. ASSUME NEW i \in 1..(n + 5)
      PROVE  f[i] = ReadAt(doc, f, i)
  <2>1. f[i] = IF next[i] = 0 THEN base[i] ELSE G[i][f[next[i]]]
    <3> HIDE DEF S, G, next, base
    <3> QED BY <1>6 DEF Backward
  <2>2. CASE i > n
    BY <2>1, <2>2 DEF ReadAt, n
  <2>3. CASE ~(i > n) /\ doc[i] = Quote
    BY <2>1, <2>3 DEF ReadAt, n
  <2>4. CASE ~(i > n) /\ doc[i] # Quote
    <3>1. next[i] # 0 /\ next[i] \in 1..(n + 5)
      BY <1>1, <1>3, <2>4
    <3>2. f[next[i]] \in S
      <4> HIDE DEF S, G, next, base
      <4> QED BY <1>6, <3>1 DEF Backward
    <3>3. f[i] = IF skip(i) THEN f[next[i]] ELSE Before(char(i), f[next[i]])
      <4> HIDE DEF S, skip, char, next
      <4> QED BY <2>1, <2>4, <3>1, <3>2
    <3>4. i + 5 \in Int /\ i \in Int
      BY <1>1
    <3> HIDE DEF S, G, base
    <3> QED BY <1>1, <2>4, <3>3, <3>4 DEF ReadAt, n
  <2> QED BY <2>2, <2>3, <2>4
<1>8. f = [i \in 1..(n + 5) |-> f[i]]
  <2> HIDE DEF S, G, next, base
  <2> QED BY <1>6 DEF Backward
<1>9. f = [i \in 1..(n + 5) |-> ReadAt(doc, f, i)]
  BY <1>7, <1>8
<1> QED BY <1>7, <1>9 DEF ReadsAll, n

(* findString() starts to read behind the key that the answer begins with. *)
LEMMA FindsMessage ==
  ASSUME NEW doc \in Text, NEW part, NEW n \in Nat, Framed(doc, part, n)
  PROVE  \E read : ReadsAll(doc, read) /\ FindMessage(doc) = read[13]
<1> DEFINE Step(g) == [i \in 1..(Len(doc) + 5) |-> ReadAt(doc, g, i)]
           read == CHOOSE g : g = Step(g)
           at == {i \in 1..(Len(doc) + 1 - Len(Needle)) : SubSeq(doc, i, i + Len(Needle) - 1) = Needle}
<1>1. FindMessage(doc) = IF at = {} THEN Nothing ELSE read[Min(at) + Len(Needle)]
  BY DEF FindMessage, Needle, ReadAt, Nothing, Found, Before
<1>2. read = Step(read)
  <2>1. \E g : g = Step(g)
    BY ReadDefined
  <2> HIDE DEF Step
  <2> QED BY <2>1
<1>3. ReadsAll(doc, read)
  <2> DEFINE g == read
  <2>1. g = Step(g)
    BY <1>2
  <2> HIDE DEF g
  <2> QED BY <2>1 DEF ReadsAll, g
<1>4. /\ Needle \in Text /\ Len(Needle) = 5 /\ Needle[1] = 34 /\ Needle[2] = 109
      /\ Needle[3] = 34 /\ Needle[4] = 58 /\ Needle[5] = 34
  <2>1. MessageKey \in Text /\ <<Quote>> \in Text /\ Len(MessageKey) = 4 /\ Len(<<Quote>>) = 1
    BY DEF MessageKey, Quote, Text
  <2>2. Needle \in Text /\ Joins(Needle, MessageKey, <<Quote>>)
    BY <2>1, Zenon, Joined DEF Needle, Text
  <2>3. MessageKey[1] = 34 /\ MessageKey[2] = 109 /\ MessageKey[3] = 34 /\ MessageKey[4] = 58
        /\ <<Quote>>[1] = 34
    BY DEF MessageKey, Quote
  <2> QED BY <2>1, <2>2, <2>3 DEF Joins
<1>5. Len(doc) = 14 + n /\ doc \in Seq(0..255)
  BY DEF Framed, Text
<1> HIDE DEF at
<1>6. 8 \in at
  <2>1. /\ SubSeq(doc, 8, 12) \in Seq(0..255) /\ Len(SubSeq(doc, 8, 12)) = 5
        /\ \A i \in 1..5 : SubSeq(doc, 8, 12)[i] = doc[8 + i - 1]
    <3>1. 12 <= Len(doc) /\ 12 - 8 + 1 = 5
      BY <1>5
    <3> DEFINE u == SubSeq(doc, 8, 12)
    <3>2. u \in Text /\ Len(u) = 12 - 8 + 1 /\ \A i \in 1..(12 - 8 + 1) : u[i] = doc[8 + i - 1]
      BY <3>1, TextSlice
    <3> QED BY <3>1, <3>2 DEF Text
  <2>2. \A i \in 1..5 : SubSeq(doc, 8, 12)[i] = Needle[i]
    <3> TAKE i \in 1..5
    <3>1. i = 1 \/ i = 2 \/ i = 3 \/ i = 4 \/ i = 5
      OBVIOUS
    <3>2. doc[8] = 34 /\ doc[9] = 109 /\ doc[10] = 34 /\ doc[11] = 58 /\ doc[12] = 34
      BY Zenon DEF Framed
    <3>3. SubSeq(doc, 8, 12)[i] = doc[8 + i - 1]
      BY <2>1
    <3> DEFINE u == SubSeq(doc, 8, 12)
    <3> HIDE DEF u, Needle
    <3>4. u[i] = doc[8 + i - 1]
      BY <3>3 DEF u
    <3>5. u[i] = Needle[i]
      BY <1>4, <3>1, <3>2, <3>4
    <3> QED BY <3>5 DEF u
  <2>3. SubSeq(doc, 8, 12) = Needle
    BY <1>4, <2>1, <2>2, SeqEqual DEF Text
  <2> QED BY <1>4, <1>5, <2>3 DEF at
<1>7. ASSUME NEW i \in at PROVE 8 <= i /\ i \in Int
  <2>1. i \in 1..(10 + n) /\ SubSeq(doc, i, i + 4) = Needle
    BY <1>4, <1>5, <1>7 DEF at
  <2>2. \A k \in 1..5 : SubSeq(doc, i, i + 4)[k] = doc[i + k - 1]
    <3>1. i \in 1..(Len(doc) + 1) /\ i + 4 \in (i - 1)..Len(doc) /\ (i + 4) - i + 1 = 5
      BY <1>5, <2>1
    <3> QED BY <1>5, <3>1, Slice
  <2>3. doc[i] = 34 /\ doc[i + 1] = 109
    <3>1. i + 1 - 1 = i /\ i + 2 - 1 = i + 1
      BY <2>1
    <3> QED BY <1>4, <2>1, <2>2, <3>1
  <2>4. i = 1 \/ i = 2 \/ i = 3 \/ i = 4 \/ i = 5 \/ i = 6 \/ i = 7 \/ 8 <= i
    BY <2>1
  <2>5. /\ 1 + 1 = 2 /\ 2 + 1 = 3 /\ 3 + 1 = 4 /\ 4 + 1 = 5 /\ 5 + 1 = 6
    OBVIOUS
  <2>6. /\ doc[1] # 34 /\ doc[3] # 34 /\ doc[5] # 34 /\ doc[6] # 34 /\ doc[7] # 34
        /\ doc[2 + 1] # 109 /\ doc[4 + 1] # 109
    BY <2>5 DEF Framed
  <2> QED BY <2>1, <2>3, <2>4, <2>6
<1>8. Min(at) = 8
  <2>2. \A x \in at : (\A y \in at : x <= y) => x = 8
    BY <1>6, <1>7
  <2> QED BY <1>6, <1>7, <2>2 DEF Min
<1> HIDE DEF read
<1> QED BY <1>1, <1>3, <1>4, <1>6, <1>8

(* u stands in doc from pos on. *)
StandsAt(u, doc, pos) == \A k \in 1..Len(u) : doc[pos + k - 1] = u[k]

(* One byte of the message is read from what stands for it, from pos on.    *)
Written(doc, read, N, c, pos, next) ==
  /\ N \in Nat /\ ReadsAll(doc, read) /\ Len(doc) = 14 + N
  /\ c \in 0..255 /\ pos \in 13..(12 + N) /\ next \in pos..(13 + N)
  /\ next = pos + Len(JsonEscaped(c)) /\ StandsAt(JsonEscaped(c), doc, pos)

LEMMA ReadsByte ==
  ASSUME NEW doc, NEW read, NEW N, NEW c, NEW pos, NEW next, Written(doc, read, N, c, pos, next)
  PROVE  read[pos] = Before(c, read[next])
<1> USE DEF Written
<1>1. read[pos] = ReadAt(doc, read, pos) /\ ~(pos > Len(doc)) /\ pos # Len(doc)
  BY DEF ReadsAll
<1> USE DEF StandsAt
<1>2. CASE Plainly(c)
  <2>1. Len(JsonEscaped(c)) = 1 /\ JsonEscaped(c)[1] = c /\ c # Quote /\ c # Backslash
    BY <1>2 DEF Plainly
  <2>2. doc[pos] = c /\ next = pos + 1
    <3>1. pos + 1 - 1 = pos /\ 1 \in 1..1
      OBVIOUS
    <3> QED BY <2>1, <3>1
  <2> QED BY <1>1, <2>1, <2>2 DEF ReadAt
<1>3. ASSUME NEW e \in 0..255, AsPair(c, e) PROVE read[pos] = Before(c, read[next])
  <2>1. Len(JsonEscaped(c)) = 2 /\ JsonEscaped(c)[1] = Backslash /\ JsonEscaped(c)[2] = e
        /\ e # 117 /\ Unescaped(e) = c
    BY <1>3 DEF AsPair
  <2>2. doc[pos] = Backslash /\ doc[pos + 1] = e /\ next = pos + 2
    <3>1. pos + 1 - 1 = pos /\ pos + 2 - 1 = pos + 1 /\ 1 \in 1..2 /\ 2 \in 1..2
      OBVIOUS
    <3> QED BY <2>1, <3>1
  <2> QED BY <1>1, <2>1, <2>2 DEF ReadAt, Quote, Backslash
<1>4. ASSUME NEW h \in 0..255, NEW l \in 0..255, ByNumber(c, h, l) PROVE read[pos] = Before(c, read[next])
  <2>1. /\ Len(JsonEscaped(c)) = 6 /\ JsonEscaped(c)[1] = Backslash /\ JsonEscaped(c)[2] = 117
        /\ JsonEscaped(c)[5] = h /\ JsonEscaped(c)[6] = l
        /\ 16 * HexValue(h) + HexValue(l) = c
    BY <1>4 DEF ByNumber
  <2>2. doc[pos] = Backslash /\ doc[pos + 1] = 117 /\ next = pos + 6
        /\ doc[pos + 4] = h /\ doc[pos + 5] = l
    <3>1. /\ pos + 1 - 1 = pos /\ pos + 2 - 1 = pos + 1 /\ pos + 5 - 1 = pos + 4 /\ pos + 6 - 1 = pos + 5
          /\ 1 \in 1..6 /\ 2 \in 1..6 /\ 5 \in 1..6 /\ 6 \in 1..6
      OBVIOUS
    <3> QED BY <2>1, <3>1
  <2>3. pos + 5 <= Len(doc)
    BY <2>2
  <2> QED BY <1>1, <2>1, <2>2, <2>3 DEF ReadAt, Quote, Backslash
<1> QED BY <1>2, <1>3, <1>4, JsonParts

LEMMA Places ==
  ASSUME NEW N \in Nat, NEW a \in Nat, NEW w \in Nat \ {0}, a + w <= N
  PROVE  /\ 13 + a \in 13..(12 + N) /\ 13 + (a + w) \in (13 + a)..(13 + N)
         /\ 13 + (a + w) = 13 + a + w
         /\ \A k \in 1..w : a + k \in 1..N /\ 12 + (a + k) = 13 + a + k - 1
OBVIOUS

LEMMA EscapedLength ==
  ASSUME NEW c \in 0..255
  PROVE  Len(JsonEscaped(c)) \in Nat \ {0}
<1>1. Plainly(c) => Len(JsonEscaped(c)) = 1
  BY DEF Plainly
<1>2. \A e \in 0..255 : AsPair(c, e) => Len(JsonEscaped(c)) = 2
  BY DEF AsPair
<1>3. \A h, l \in 0..255 : ByNumber(c, h, l) => Len(JsonEscaped(c)) = 6
  BY DEF ByNumber
<1>4. Len(JsonEscaped(c)) = 1 \/ Len(JsonEscaped(c)) = 2 \/ Len(JsonEscaped(c)) = 6
  BY <1>1, <1>2, <1>3, JsonParts, Zenon
<1> QED BY <1>4

(* An answer is one line, and its message is read back from it, whatever it *)
(* is.                                                                      *)
THEOREM MessageReadsBack ==
  ASSUME NEW ok, NEW m \in Text
  PROVE  ToJson(ok, m) \in OneLine /\ FindMessage(ToJson(ok, m)) = [some |-> TRUE, value |-> m]
<1> DEFINE q == Escapes(m)
           F == FlattenSeq(q)
           N == Len(F)
           n == Len(m)
           doc == ToJson(ok, m)
           rest(i) == SubSeq(m, i + 1, n)
<1>1. n \in Nat /\ \A i \in 1..n : m[i] \in 0..255
  BY TextFacts
<1>2. F \in OneLine /\ N \in Nat /\ \E at : Offsets(at, q)
  <2> DEFINE X == (0..255) \ {Newline}
  <2>1. q \in Seq(Seq(X))
    BY EscapesTyped DEF OneLine
  <2>2. F \in Seq(X) /\ \E at : Offsets(at, q)
    <3> HIDE DEF q, X
    <3> QED BY <2>1, FlattenAt
  <2>3. N \in Nat
    <3> HIDE DEF F, X
    <3> QED BY <2>2, LenProperties
  <2> QED BY <2>2, <2>3 DEF OneLine
<1>3. PICK at : Offsets(at, q)
  BY <1>2
<1>4. Framed(doc, F, N)
  BY AnswerFramed
<1>5. doc \in OneLine /\ doc \in Text
  <2>1. (0..255) \ {Newline} \subseteq 0..255
    OBVIOUS
  <2> HIDE DEF doc, F, N
  <2>2. doc \in OneLine
    BY <1>4 DEF Framed
  <2>3. doc \in Text
    <3> DEFINE X == (0..255) \ {Newline}
               Y == 0..255
    <3>1. doc \in Seq(X) /\ X \subseteq Y
      BY <2>1, <2>2 DEF OneLine
    <3>2. doc \in Seq(Y)
      <4> HIDE DEF X, Y
      <4> QED BY <3>1
    <3> QED BY <3>2 DEF Text
  <2> QED BY <2>2, <2>3
<1>6. PICK read : ReadsAll(doc, read) /\ FindMessage(doc) = read[13]
  <2> HIDE DEF doc, F, N
  <2> QED BY <1>2, <1>4, <1>5, FindsMessage
<1>7. Len(q) = n /\ \A i \in 1..n : q[i] = JsonEscaped(m[i])
  BY <1>1 DEF Escapes
<1>8. /\ at \in [0..n -> Nat] /\ at[0] = 0 /\ at[n] = N
      /\ \A i \in 1..n : /\ at[i] = at[i - 1] + Len(JsonEscaped(m[i])) /\ at[i] <= N
                         /\ \A k \in 1..Len(JsonEscaped(m[i])) : F[at[i - 1] + k] = JsonEscaped(m[i])[k]
  <2> HIDE DEF q, n
  <2> QED BY <1>3, <1>7 DEF Offsets
<1> DEFINE T == {i \in 0..n : read[13 + at[i]] = Found(rest(i))}
<1> HIDE DEF doc, N, F, q
<1>9. ASSUME NEW i \in 0..n, \A j \in (i + 1)..n : j \in T PROVE i \in T
  <2>1. Len(doc) = 14 + N /\ doc[13 + N] = 34 /\ \A k \in 1..N : doc[12 + k] = F[k]
    BY <1>4 DEF Framed
  <2>2. CASE i = n
    <3>1. 13 + N \in 1..(Len(doc) + 5) /\ ~(13 + N > Len(doc))
      BY <1>2, <2>1
    <3>2. read[13 + N] = Found(<<>>)
      BY <1>6, <2>1, <3>1 DEF ReadsAll, ReadAt, Quote
    <3>3. rest(n) = <<>>
      BY <1>1, SubSeqEmpty
    <3> QED BY <1>8, <2>2, <3>2, <3>3
  <2>3. CASE i # n
    <3> DEFINE j == i + 1
               c == m[j]
    <3>0. N \in Nat
      BY <1>2
    <3>1. j \in 1..n /\ j \in (i + 1)..n /\ j - 1 = i /\ i \in 0..n /\ j \in 0..n
      BY <1>1, <2>3
    <3>3. c \in 0..255 /\ c \in Int
      BY <3>1, TextFacts
    <3>4. at[i] \in Nat /\ at[j] \in Nat /\ at[j] = at[i] + Len(JsonEscaped(c)) /\ at[j] <= N
      BY <1>8, <3>1
    <3> HIDE DEF c
    <3>5. PICK w \in Nat \ {0} : w = Len(JsonEscaped(c))
      BY <3>3, EscapedLength
    <3>6. PICK a \in Nat : a = at[i] /\ at[j] = a + w /\ a + w <= N
      BY <3>4, <3>5
    <3> DEFINE pos == 13 + a
               next == 13 + (a + w)
    <3>2. read[next] = Found(SubSeq(m, j + 1, n))
      BY <1>9, <3>1, <3>6
    <3>7. pos \in 13..(12 + N) /\ next \in pos..(13 + N) /\ next = pos + w
      BY <3>0, <3>5, <3>6, Places
    <3>8. ASSUME NEW k \in 1..w PROVE doc[pos + k - 1] = JsonEscaped(c)[k]
      <4>1. a + k \in 1..N /\ 12 + (a + k) = pos + k - 1
        <5>1. a + w <= N
          BY <3>6
        <5>2. \A l \in 1..w : a + l \in 1..N /\ 12 + (a + l) = 13 + a + l - 1
          BY <3>0, <5>1, Places, Zenon
        <5> QED BY <5>2, Zenon
      <4>2. F[a + k] = JsonEscaped(c)[k]
        BY <1>8, <3>1, <3>5, <3>6 DEF c
      <4> QED BY <2>1, <4>1, <4>2
    <3>12. read[pos] = Before(c, read[next])
      <4> HIDE DEF pos, next, j
      <4>1. next = pos + Len(JsonEscaped(c)) /\ StandsAt(JsonEscaped(c), doc, pos)
        BY <3>5, <3>7, <3>8 DEF StandsAt
      <4>2. Len(doc) = 14 + N /\ ReadsAll(doc, read)
        BY <1>6, <2>1
      <4>3. Written(doc, read, N, c, pos, next)
        BY <3>0, <3>3, <3>7, <4>1, <4>2, Zenon DEF Written
      <4> QED BY <4>3, ReadsByte
    <3>9. SubSeq(m, j + 1, n) \in Seq(Int)
      <4>1. \A k \in (j + 1)..n : m[k] \in Int
        BY <3>1, TextFacts
      <4> QED BY <1>1, <3>1, <4>1, SubSeqProperties
    <3>10. read[pos] = Found(<<c>> \o SubSeq(m, j + 1, n))
      <4> DEFINE v == SubSeq(m, j + 1, n)
      <4>1. Found(v) \in [some : BOOLEAN, value : Seq(Int)] /\ Found(v).some = TRUE /\ Found(v).value = v
        BY <3>9 DEF Found
      <4>2. Before(c, Found(v)) = [some |-> Found(v).some, value |-> <<c>> \o Found(v).value]
        BY <3>3, <4>1, BeforeTyped, Zenon
      <4> QED BY <3>2, <3>12, <4>1, <4>2 DEF Found
    <3>11. SubSeq(m, j, n) = <<c>> \o SubSeq(m, j + 1, n)
      <4> DEFINE X == 0..255
      <4>1. m \in Seq(X) /\ j \in 1..Len(m) /\ Len(m) \in j..Len(m)
        BY <1>1, <3>1 DEF Text
      <4> HIDE DEF X
      <4> QED BY <4>1, SubSeqRecursiveFirst DEF c
    <3>13. read[13 + at[i]] = Found(rest(i))
      BY <3>6, <3>10, <3>11
    <3> QED BY <3>13
  <2> QED BY <2>2, <2>3
<1>10. 0 \in T
  <2> HIDE DEF T, n
  <2>1. \A i \in 0..n : i \in T
    BY <1>1, <1>9, DownFrom
  <2> QED BY <1>1, <2>1
<1>11. read[13] = Found(SubSeq(m, 1, n))
  BY <1>8, <1>10
<1>12. SubSeq(m, 1, n) = m
  BY SubSeqFull DEF Text
<1> QED BY <1>5, <1>6, <1>11, <1>12 DEF Found, doc

-------------------------------------------------------------------------------
(* Lines and their arguments                                                *)

(* The least and the greatest place of some. *)
LEMMA Ends ==
  ASSUME NEW n \in Nat, NEW T, T \subseteq 1..n, T # {}
  PROVE  /\ \E x \in T : \A y \in T : x <= y
         /\ \E x \in T : \A y \in T : y <= x
         /\ Min(T) \in T /\ \A y \in T : Min(T) <= y
         /\ Max(T) \in T /\ \A y \in T : y <= Max(T)
<1>1. \E x \in T : \A y \in T : x <= y
  <2>1. T \subseteq Nat
    OBVIOUS
  <2> QED BY <2>1, LeastNatural
<1>2. \E x \in T : \A y \in T : y <= x
  <2> DEFINE D == {d \in 0..n : n - d \in T}
  <2>1. D \subseteq Nat
    OBVIOUS
  <2>2. D # {}
    <3>1. PICK y \in T : TRUE
      OBVIOUS
    <3>2. n - y \in 0..n /\ n - (n - y) = y
      BY <3>1
    <3> QED BY <3>1, <3>2
  <2>3. PICK d \in D : \A e \in D : d <= e
    <3> HIDE DEF D
    <3> QED BY <2>1, <2>2, LeastNatural
  <2>4. ASSUME NEW y \in T PROVE y <= n - d
    <3>1. y \in 1..n /\ n - y \in 0..n /\ n - (n - y) = y
      OBVIOUS
    <3>2. n - y \in D
      BY <3>1
    <3> QED BY <2>3, <3>1, <3>2
  <2> QED BY <2>3, <2>4
<1>3. Min(T) \in T /\ \A y \in T : Min(T) <= y
  BY <1>1, Zenon DEF Min
<1>4. Max(T) \in T /\ \A y \in T : y <= Max(T)
  <2>1. \E x \in T : \A y \in T : x >= y
    BY <1>2
  <2>2. Max(T) \in T /\ \A y \in T : Max(T) >= y
    BY <2>1, Zenon DEF Max
  <2> QED BY <2>2
<1> QED BY <1>1, <1>2, <1>3, <1>4

LEMMA EmptyText == <<>> \in Text /\ Len(<<>>) = 0
BY DEF Text

(* Trimming leaves a text that neither begins nor ends with a blank, the    *)
(* whole of it if it did not.                                               *)
LEMMA Trimmed ==
  ASSUME NEW s \in Text
  PROVE  /\ Trim(s) \in Text
         /\ Trim(s) # <<>> => ~IsSpace(Trim(s)[1]) /\ ~IsSpace(Trim(s)[Len(Trim(s))])
         /\ s # <<>> /\ ~IsSpace(s[1]) /\ ~IsSpace(s[Len(s)]) => Trim(s) = s
<1> DEFINE ink == {i \in 1..Len(s) : ~IsSpace(s[i])}
<1>1. Len(s) \in Nat /\ ink \subseteq 1..Len(s)
  BY TextFacts
<1>2. CASE ink = {}
  <2>1. Trim(s) = <<>>
    BY <1>2, Zenon DEF Trim
  <2>2. s = <<>> \/ IsSpace(s[1])
    <3>1. s # <<>> => 1 \in 1..Len(s)
      BY <1>1 DEF Text
    <3> QED BY <1>2, <3>1
  <2> QED BY <2>1, <2>2, EmptyText
<1>3. CASE ink # {}
  <2> DEFINE a == Min(ink)
             b == Max(ink)
             t == SubSeq(s, a, b)
  <2>1. Trim(s) = t
    BY <1>3, Zenon DEF Trim
  <2>2. a \in ink /\ b \in ink /\ (\A i \in ink : a <= i) /\ \A i \in ink : i <= b
    <3> HIDE DEF ink
    <3> QED BY <1>1, <1>3, Ends
  <2> HIDE DEF a, b
  <2>3. a \in Int /\ b \in Int /\ 1 <= a /\ a <= b /\ b <= Len(s) /\ a \in 1..Len(s)
    BY <1>1, <2>2
  <2>4. t \in Text /\ Len(t) = b - a + 1 /\ \A i \in 1..(b - a + 1) : t[i] = s[a + i - 1]
    <3>1. a <= b + 1
      BY <2>3
    <3> QED BY <2>3, <3>1, TextSlice
  <2>5. ~IsSpace(s[a]) /\ ~IsSpace(s[b])
    BY <2>2
  <2>6. t[1] = s[a] /\ t[Len(t)] = s[b]
    <3>1. 1 \in 1..(b - a + 1) /\ a + 1 - 1 = a /\ b - a + 1 \in 1..(b - a + 1) /\ a + (b - a + 1) - 1 = b
      BY <2>3
    <3> HIDE DEF t
    <3> QED BY <2>4, <3>1
  <2>7. ASSUME s # <<>>, ~IsSpace(s[1]), ~IsSpace(s[Len(s)]) PROVE t = s
    <3>1. 1 \in 1..Len(s) /\ Len(s) \in 1..Len(s)
      BY <1>1, <2>3
    <3>2. a = 1 /\ b = Len(s)
      BY <2>2, <2>3, <2>7, <3>1
    <3> QED BY <3>2, SubSeqFull DEF Text
  <2> HIDE DEF t
  <2> QED BY <2>1, <2>4, <2>5, <2>6, <2>7
<1> QED BY <1>2, <1>3

(* tokenize(), byte by byte. *)
Start == [tokens |-> <<>>, current |-> <<>>, inToken |-> FALSE, quoted |-> FALSE, escaped |-> FALSE]
TokenState == [tokens : Seq(Text), current : Text, inToken : BOOLEAN, quoted : BOOLEAN, escaped : BOOLEAN]
TokensRead(run, s) ==
  /\ run[0] = Start
  /\ \A i \in 1..Len(s) : run[i] = TokenStep(run[i - 1], s[i])
  /\ \A i \in 0..Len(s) : run[i] \in TokenState
AtEnd(st) ==
  LET rest == IF st.escaped THEN Append(st.current, Backslash) ELSE st.current
  IN  IF st.inToken THEN Append(st.tokens, rest) ELSE st.tokens

LEMMA TokenStepTyped ==
  ASSUME NEW st \in TokenState, NEW c \in 0..255
  PROVE  TokenStep(st, c) \in TokenState
<1> DEFINE more == Append(st.current, c)
           done == IF st.inToken THEN Append(st.tokens, st.current) ELSE st.tokens
           none == <<>>
<1>1. st.tokens \in Seq(Text) /\ st.current \in Text /\ none \in Text
  BY EmptyText DEF TokenState
<1>2. more \in Text
  BY <1>1, AppendProperties DEF Text
<1>3. done \in Seq(Text)
  <2>1. Append(st.tokens, st.current) \in Seq(Text)
    BY <1>1, AppendProperties
  <2> QED BY <1>1, <2>1
<1>4. \/ TokenStep(st, c) = [st EXCEPT !.current = more, !.escaped = FALSE]
      \/ TokenStep(st, c) = [st EXCEPT !.escaped = TRUE]
      \/ TokenStep(st, c) = [st EXCEPT !.quoted = FALSE]
      \/ TokenStep(st, c) = [st EXCEPT !.quoted = TRUE, !.inToken = TRUE]
      \/ TokenStep(st, c) = [st EXCEPT !.tokens = done, !.current = none, !.inToken = FALSE]
      \/ TokenStep(st, c) = [st EXCEPT !.current = more, !.inToken = TRUE]
  <2>1. CASE st.quoted /\ st.escaped
    BY <2>1 DEF TokenStep
  <2>2. CASE st.quoted /\ ~st.escaped
    BY <2>2 DEF TokenStep
  <2>3. CASE ~st.quoted
    BY <2>3 DEF TokenStep
  <2> QED BY <2>1, <2>2, <2>3
<1> HIDE DEF more, done, none
<1>5. ASSUME NEW ts \in Seq(Text), NEW t \in Text, NEW a \in BOOLEAN, NEW b \in BOOLEAN, NEW e \in BOOLEAN
      PROVE  [tokens |-> ts, current |-> t, inToken |-> a, quoted |-> b, escaped |-> e] \in TokenState
  BY DEF TokenState
<1>6. /\ st.inToken \in BOOLEAN /\ st.quoted \in BOOLEAN /\ st.escaped \in BOOLEAN
      /\ st = [tokens |-> st.tokens, current |-> st.current, inToken |-> st.inToken,
               quoted |-> st.quoted, escaped |-> st.escaped]
  BY DEF TokenState
<1>7. CASE TokenStep(st, c) = [st EXCEPT !.current = more, !.escaped = FALSE]
  <2>1. TokenStep(st, c) = [tokens |-> st.tokens, current |-> more, inToken |-> st.inToken,
                            quoted |-> st.quoted, escaped |-> FALSE]
    BY <1>6, <1>7
  <2> QED BY <1>1, <1>2, <1>5, <1>6, <2>1
<1>8. CASE TokenStep(st, c) = [st EXCEPT !.escaped = TRUE]
  <2>1. TokenStep(st, c) = [tokens |-> st.tokens, current |-> st.current, inToken |-> st.inToken,
                            quoted |-> st.quoted, escaped |-> TRUE]
    BY <1>6, <1>8
  <2> QED BY <1>1, <1>5, <1>6, <2>1
<1>9. CASE TokenStep(st, c) = [st EXCEPT !.quoted = FALSE]
  <2>1. TokenStep(st, c) = [tokens |-> st.tokens, current |-> st.current, inToken |-> st.inToken,
                            quoted |-> FALSE, escaped |-> st.escaped]
    BY <1>6, <1>9
  <2> QED BY <1>1, <1>5, <1>6, <2>1
<1>10. CASE TokenStep(st, c) = [st EXCEPT !.quoted = TRUE, !.inToken = TRUE]
  <2>1. TokenStep(st, c) = [tokens |-> st.tokens, current |-> st.current, inToken |-> TRUE,
                            quoted |-> TRUE, escaped |-> st.escaped]
    BY <1>6, <1>10
  <2> QED BY <1>1, <1>5, <1>6, <2>1
<1>11. CASE TokenStep(st, c) = [st EXCEPT !.tokens = done, !.current = none, !.inToken = FALSE]
  <2>1. TokenStep(st, c) = [tokens |-> done, current |-> none, inToken |-> FALSE,
                            quoted |-> st.quoted, escaped |-> st.escaped]
    BY <1>6, <1>11
  <2> QED BY <1>1, <1>3, <1>5, <1>6, <2>1
<1>12. CASE TokenStep(st, c) = [st EXCEPT !.current = more, !.inToken = TRUE]
  <2>1. TokenStep(st, c) = [tokens |-> st.tokens, current |-> more, inToken |-> TRUE,
                            quoted |-> st.quoted, escaped |-> st.escaped]
    BY <1>6, <1>12
  <2> QED BY <1>1, <1>2, <1>5, <1>6, <2>1
<1> QED BY <1>4, <1>7, <1>8, <1>9, <1>10, <1>11, <1>12, Zenon

LEMMA Tokenized ==
  ASSUME NEW s \in Text
  PROVE  \E run : TokensRead(run, s) /\ Tokenize(s) = AtEnd(run[Len(s)])
<1> DEFINE n == Len(s)
           Step(g) == [i \in 0..n |-> IF i = 0 THEN Start ELSE TokenStep(g[i - 1], s[i])]
           run == CHOOSE g : g = Step(g)
           G == [i \in 1..n |-> [st \in TokenState |-> TokenStep(st, s[i])]]
<1>1. n \in Nat /\ \A i \in 1..n : s[i] \in 0..255
  BY TextFacts
<1>2. Start \in TokenState
  <2>1. <<>> \in Seq(Text) /\ <<>> \in Text
    BY EmptyText
  <2> QED BY <2>1 DEF Start, TokenState
<1>3. Tokenize(s) = AtEnd(run[Len(s)])
  BY Zenon DEF Tokenize, AtEnd, Start
<1> HIDE DEF n
<1>4. run = Step(run)
  <2>1. G \in [1..n -> [TokenState -> TokenState]]
    BY <1>1, TokenStepTyped
  <2>2. PICK f : Forward(f, n, TokenState, Start, G)
    <3> HIDE DEF G
    <3> QED BY <1>1, <1>2, <2>1, ForwardRecursion
  <2>3. f = [i \in 0..n |-> f[i]] /\ f[0] = Start /\ \A i \in 0..n : f[i] \in TokenState
    <3> HIDE DEF G
    <3> QED BY <1>1, <2>2 DEF Forward
  <2>4. ASSUME NEW i \in 0..n PROVE f[i] = IF i = 0 THEN Start ELSE TokenStep(f[i - 1], s[i])
    <3>1. CASE i = 0
      BY <2>3, <3>1
    <3>2. CASE i # 0
      <4>1. i \in 1..n /\ i - 1 \in 0..n
        BY <1>1, <3>2
      <4>2. f[i] = G[i][f[i - 1]]
        <5> HIDE DEF G
        <5> QED BY <2>2, <4>1 DEF Forward
      <4>3. f[i - 1] \in TokenState
        BY <2>3, <4>1
      <4> QED BY <3>2, <4>1, <4>2, <4>3
    <3> QED BY <3>1, <3>2
  <2>5. f = Step(f)
    BY <2>3, <2>4
  <2> HIDE DEF Step
  <2> QED BY <2>5
<1>5. ASSUME NEW g, g = Step(g) PROVE TokensRead(g, s)
  <2>1. g[0] = Start
    BY <1>1, <1>5
  <2>2. ASSUME NEW i \in 1..n PROVE i - 1 \in 0..n /\ g[i] = TokenStep(g[i - 1], s[i])
    <3>1. i \in 0..n /\ i # 0 /\ i - 1 \in 0..n
      BY <1>1
    <3> QED BY <1>5, <3>1
  <2> DEFINE T == {i \in 0..n : g[i] \in TokenState}
  <2>3. \A i \in 0..n : i \in T
    <3>1. 0 \in T
      BY <1>1, <1>2, <2>1
    <3>2. ASSUME NEW i \in 1..n, i - 1 \in T PROVE i \in T
      <4>1. TokenStep(g[i - 1], s[i]) \in TokenState
        BY <1>1, <3>2, TokenStepTyped
      <4>2. i \in 0..n
        BY <1>1
      <4> QED BY <2>2, <4>1, <4>2
    <3> HIDE DEF T
    <3> QED BY <1>1, <3>1, <3>2, UpTo
  <2> QED BY <2>1, <2>2, <2>3 DEF TokensRead, n
<1>6. TokensRead(run, s)
  <2> HIDE DEF run, Step
  <2> QED BY <1>4, <1>5
<1> HIDE DEF run
<1> QED BY <1>3, <1>6

LEMMA TokensTyped ==
  ASSUME NEW s \in Text
  PROVE  Tokenize(s) \in Seq(Text)
<1>1. PICK run : TokensRead(run, s) /\ Tokenize(s) = AtEnd(run[Len(s)])
  BY Tokenized
<1>2. Len(s) \in 0..Len(s)
  BY TextFacts
<1> DEFINE st == run[Len(s)]
           rest == IF st.escaped THEN Append(st.current, Backslash) ELSE st.current
<1>3. st \in TokenState
  BY <1>1, <1>2 DEF TokensRead
<1> HIDE DEF st
<1>4. st.tokens \in Seq(Text) /\ st.current \in Text
  BY <1>3 DEF TokenState
<1>5. rest \in Text
  <2>1. Backslash \in 0..255
    BY DEF Backslash
  <2>2. Append(st.current, Backslash) \in Text
    BY <1>4, <2>1, AppendProperties DEF Text
  <2> QED BY <1>4, <2>2
<1>6. Tokenize(s) = IF st.inToken THEN Append(st.tokens, rest) ELSE st.tokens
  BY <1>1 DEF AtEnd, st
<1> HIDE DEF rest
<1>7. Append(st.tokens, rest) \in Seq(Text)
  BY <1>4, <1>5, AppendProperties
<1> QED BY <1>4, <1>6, <1>7

LEMMA SingleArgTyped ==
  ASSUME NEW s \in Text
  PROVE  SingleArg(s) \in Text
<1> DEFINE t == Trim(s)
<1>1. t \in Text /\ <<>> \in Text
  BY Trimmed, EmptyText
<1> HIDE DEF t
<1>2. Tokenize(t) \in Seq(Text)
  BY <1>1, TokensTyped
<1>3. Tokenize(t) # <<>> => Tokenize(t)[1] \in Text
  BY <1>2
<1>4. SingleArg(s) = IF t = <<>> \/ t[1] # Quote THEN t
                     ELSE IF Tokenize(t) = <<>> THEN <<>> ELSE Tokenize(t)[1]
  BY Zenon DEF SingleArg, t
<1> QED BY <1>1, <1>3, <1>4

LEMMA ConstantTexts ==
  /\ Albums \in Seq(Text) /\ kThemes \in Seq(Text) /\ kVisuals \in Seq(Text)
  /\ (\A devices \in Outputs : devices \in Seq(Text))
  /\ Keys \subseteq Text /\ (\A l \in Lines : l.args \in Text)
BY TerminalAssumption DEF Text

(* An exact title resolves to itself, and what is resolved is an album.     *)
LEMMA Resolved ==
  ASSUME NEW name
  PROVE  /\ ResolveAlbum(name) \in 0..Len(Albums)
         /\ (\E i \in 1..Len(Albums) : Albums[i] = name)
              => ResolveAlbum(name) # 0 /\ Albums[ResolveAlbum(name)] = name
<1> DEFINE like == {i \in 1..Len(Albums) : IEquals(Albums[i], name)}
<1>1. \A i \in 1..Len(Albums) : Albums[i] = name => i \in like
  BY DEF IEquals
<1>2. Len(Albums) \in Nat
  BY ConstantTexts
<1>3. CASE \E i \in like : Albums[i] = name
  <2>1. ResolveAlbum(name) = CHOOSE i \in like : Albums[i] = name
    BY <1>3, Zenon DEF ResolveAlbum
  <2>2. ResolveAlbum(name) \in like /\ Albums[ResolveAlbum(name)] = name
    BY <1>3, <2>1, Zenon
  <2>3. ResolveAlbum(name) \in 1..Len(Albums)
    BY <2>2
  <2> QED BY <1>2, <2>2, <2>3
<1>4. CASE (\A i \in like : Albums[i] # name) /\ (\E i \in like : like = {i})
  <2>1. ResolveAlbum(name) = CHOOSE i \in like : TRUE
    BY <1>4, Zenon DEF ResolveAlbum
  <2>2. ResolveAlbum(name) \in like
    BY <1>4, <2>1, Zenon
  <2> QED BY <1>1, <1>2, <1>4, <2>2
<1>5. CASE (\A i \in like : Albums[i] # name) /\ ~(\E i \in like : like = {i})
  <2>1. ResolveAlbum(name) = 0
    BY <1>5, Zenon DEF ResolveAlbum
  <2> QED BY <1>1, <1>2, <1>5, <2>1
<1> QED BY <1>3, <1>4, <1>5, Zenon

LEMMA Picked ==
  ASSUME NEW arg, NEW names \in Seq(Text)
  PROVE  PickIndex(arg, names, IntMax) \in 0..Len(names)
<1> DEFINE n == ParseInt(arg, IntMax)
           named == {i \in 1..Len(names) : IEquals(arg, names[i])}
<1>1. Len(names) \in Nat /\ named \subseteq 1..Len(names)
  OBVIOUS
<1>2. named # {} => Min(named) \in 1..Len(names)
  <2> HIDE DEF named
  <2> QED BY <1>1, Ends
<1>3. PickIndex(arg, names, IntMax) = IF n.some /\ n.value \in 1..Len(names) THEN n.value
                                      ELSE IF named # {} THEN Min(named) ELSE 0
  BY Zenon DEF PickIndex
<1> HIDE DEF n, named
<1> QED BY <1>1, <1>2, <1>3

LEMMA ListTyped ==
  ASSUME NEW names \in Seq(Text)
  PROVE  OnePerLine(names) \in Text
<1> DEFINE n == Len(names)
           Between(i) == IF i = 1 THEN <<>> ELSE <<Newline>>
           Line2(x, i) == x \o Between(i) \o names[i]
           none == <<>>
           Step(g) == [i \in 0..n |-> IF i = 0 THEN none ELSE Line2(g[i - 1], i)]
           lines == CHOOSE g : g = Step(g)
           G == [i \in 1..n |-> [x \in Text |-> Line2(x, i)]]
<1>1. n \in Nat /\ none \in Text /\ \A i \in 1..n : names[i] \in Text
  BY EmptyText
<1>2. ASSUME NEW i \in 1..n, NEW x \in Text PROVE Line2(x, i) \in Text
  <2>1. Between(i) \in Text
    <3>1. Newline \in 0..255
      BY DEF Newline
    <3>2. <<Newline>> \in Text
      BY <3>1 DEF Text
    <3> QED BY <3>2, EmptyText, Zenon
  <2>2. \A u, v \in Text : u \o v \in Text
    BY Concat DEF Text
  <2> HIDE DEF Between
  <2> QED BY <1>1, <2>1, <2>2
<1>3. OnePerLine(names) = lines[n]
  BY Zenon DEF OnePerLine
<1> HIDE DEF n, Line2, none
<1>4. lines = Step(lines)
  <2>1. G \in [1..n -> [Text -> Text]]
    BY <1>2
  <2>2. PICK f : Forward(f, n, Text, none, G)
    <3> HIDE DEF G
    <3> QED BY <1>1, <2>1, ForwardRecursion
  <2>3. f = [i \in 0..n |-> f[i]] /\ f[0] = none /\ \A i \in 0..n : f[i] \in Text
    <3> HIDE DEF G
    <3> QED BY <1>1, <2>2 DEF Forward
  <2>4. ASSUME NEW i \in 0..n PROVE f[i] = IF i = 0 THEN none ELSE Line2(f[i - 1], i)
    <3>1. CASE i = 0
      BY <2>3, <3>1
    <3>2. CASE i # 0
      <4>1. i \in 1..n /\ i - 1 \in 0..n
        BY <1>1, <3>2
      <4>2. f[i] = G[i][f[i - 1]]
        <5> HIDE DEF G
        <5> QED BY <2>2, <4>1 DEF Forward
      <4>3. f[i - 1] \in Text
        BY <2>3, <4>1
      <4> QED BY <3>2, <4>1, <4>2, <4>3
    <3> QED BY <3>1, <3>2
  <2>5. f = Step(f)
    BY <2>3, <2>4
  <2> HIDE DEF Step
  <2> QED BY <2>5
<1>5. ASSUME NEW g, g = Step(g) PROVE g[n] \in Text
  <2> DEFINE T == {i \in 0..n : g[i] \in Text}
  <2>1. 0 \in T
    BY <1>1, <1>5
  <2>2. ASSUME NEW i \in 1..n, i - 1 \in T PROVE i \in T
    <3>1. i \in 0..n /\ i # 0
      BY <1>1
    <3>2. g[i] = Line2(g[i - 1], i)
      BY <1>5, <3>1
    <3> QED BY <1>2, <2>2, <3>1, <3>2
  <2>3. \A i \in 0..n : i \in T
    <3> HIDE DEF T
    <3> QED BY <1>1, <2>1, <2>2, UpTo
  <2> QED BY <1>1, <2>3
<1> HIDE DEF lines, Step
<1> QED BY <1>3, <1>4, <1>5

(* What a line answers is a text, as it goes over the wire. *)
Answered(m) == \E ok : last'.message = m /\ last'.wire = ToJson(ok, m)
AnswersText == \E m \in Text : Answered(m)

LEMMA AnswerKept ==
  ASSUME NEW meant, NEW call, NEW scanned, NEW ok, NEW m, Answer(meant, call, scanned, ok, m)
  PROVE  /\ Answered(m) /\ last'.meant = meant /\ last'.call = call /\ last'.scanned = scanned
BY DEF Answer, Answered

LEMMA SaysText ==
  ASSUME NEW meant, NEW ok, NEW m \in Text, Say(meant, ok, m)
  PROVE  AnswersText /\ last'.call = NoCall /\ last'.scanned = <<>>
<1>1. Answer(meant, NoCall, <<>>, ok, m)
  BY DEF Say
<1> QED BY <1>1, AnswerKept, Zenon DEF AnswersText

LEMMA ExecuteAnswersText ==
  ASSUME NEW meant, NEW verb, NEW line \in Text, Execute(meant, verb, line)
  PROVE  AnswersText
<1> DEFINE args == Trim(line)
<1>1. args \in Text /\ <<>> \in Text
  BY Trimmed, EmptyText
<1> HIDE DEF args
<1>2. ASSUME NEW call, NEW scanned, NEW ok, NEW m \in Text, Answer(meant, call, scanned, ok, m)
      PROVE  AnswersText
  BY <1>2, AnswerKept, Zenon DEF AnswersText
<1>3. ASSUME NEW ok, NEW m \in Text, Say(meant, ok, m) PROVE AnswersText
  BY <1>3, SaysText
<1>4. ASSUME Query(meant) PROVE AnswersText
  BY <1>1, <1>3, <1>4 DEF Query
<1>5. ASSUME NEW names \in Seq(Text), List(meant, names) PROVE AnswersText
  BY <1>3, <1>5, ListTyped DEF List
<1>6. \A i \in 1..Len(Albums) : Albums[i] \in Text
  BY ConstantTexts
<1>7. ASSUME Songs(meant, args) PROVE AnswersText
  <2> DEFINE requested == SingleArg(args)
  <2>1. requested \in Text
    BY <1>1, SingleArgTyped
  <2> HIDE DEF requested
  <2>2. IF requested = <<>> \/ ResolveAlbum(requested) = 0
        THEN Say(meant, FALSE, requested)
        ELSE Say(meant, TRUE, Albums[ResolveAlbum(requested)])
    BY <1>7, Zenon DEF Songs, requested
  <2>3. ResolveAlbum(requested) # 0 => Albums[ResolveAlbum(requested)] \in Text
    BY <1>6, Resolved
  <2> QED BY <1>3, <2>1, <2>2, <2>3
<1>8. ASSUME Play(meant, args) PROVE AnswersText
  <2> DEFINE n == Named(args)
             call == [op |-> "playSong", album |-> Albums[n.album], song |-> n.track - 1]
  <2>1. CASE args = <<>>
    BY <1>1, <1>2, <1>8, <2>1, Zenon DEF Play
  <2>2. CASE args # <<>> /\ n.album \in Loaded /\ n.track \in 1..Tracks
    <3>1. Answer(meant, call, <<>>, TRUE, Albums[n.album])
      BY <1>8, <2>2, Zenon DEF Play
    <3>2. n.album \in 1..Len(Albums)
      BY <2>2, TerminalAssumption, Zenon
    <3> HIDE DEF n, call
    <3> QED BY <1>2, <1>6, <3>1, <3>2
  <2>3. CASE args # <<>> /\ ~(n.album \in Loaded /\ n.track \in 1..Tracks)
    <3>1. Say(meant, FALSE, args)
      BY <1>8, <2>3, Zenon DEF Play
    <3> QED BY <1>1, <1>3, <3>1
  <2> QED BY <2>1, <2>2, <2>3, Zenon
<1>9. ASSUME NEW op, Control(meant, op) PROVE AnswersText
  BY <1>1, <1>2, <1>9, Zenon DEF Control
<1>10. ASSUME Volume(meant, args) PROVE AnswersText
  <2> DEFINE sign == args # <<>> /\ args[1] \in {43, 45}
             n == ParseInt(IF sign /\ args[1] = 43 THEN Tail(args) ELSE args, IntMax)
  <2>1. CASE args = <<>> \/ ~n.some
    <3>1. Say(meant, args = <<>>, <<>>)
      BY <1>10, <2>1, Zenon DEF Volume
    <3> QED BY <1>1, <1>3, <3>1
  <2>2. CASE ~(args = <<>> \/ ~n.some)
    <3>1. Answer(meant, NoCall, <<>>, TRUE, <<>>)
      BY <1>10, <2>2, Zenon DEF Volume
    <3> QED BY <1>1, <1>2, <3>1
  <2> QED BY <2>1, <2>2
<1>11. ASSUME Output(meant, args) PROVE AnswersText
  <2> DEFINE n == ParseInt(args, IntMax)
  <2>1. PICK devices \in Outputs :
          IF args # <<>> /\ n.some /\ n.value \in 1..Len(devices)
          THEN /\ Enqueue([op |-> "setOutputDevice", index |-> n.value - 1])
               /\ Answer(meant, NoCall, <<>>, TRUE, devices[n.value])
               /\ UNCHANGED <<promised, quitting>>
          ELSE IF args \in {<<>>, ListWord} THEN List(meant, devices) ELSE Say(meant, FALSE, <<>>)
    BY <1>11, Zenon DEF Output
  <2> HIDE DEF n
  <2>2. devices \in Seq(Text)
    BY ConstantTexts
  <2>3. CASE args # <<>> /\ n.some /\ n.value \in 1..Len(devices)
    <3>1. Answer(meant, NoCall, <<>>, TRUE, devices[n.value])
      BY <2>1, <2>3, Zenon
    <3>2. devices[n.value] \in Text
      BY <2>2, <2>3
    <3> QED BY <1>2, <3>1, <3>2
  <2>4. CASE ~(args # <<>> /\ n.some /\ n.value \in 1..Len(devices))
    <3>1. List(meant, devices) \/ Say(meant, FALSE, <<>>)
      BY <2>1, <2>4, Zenon
    <3> QED BY <1>1, <1>3, <1>5, <2>2, <3>1
  <2> QED BY <2>3, <2>4
<1>12. ASSUME NEW names \in Seq(Text), NEW op,
              LET index == PickIndex(args, names, IntMax)
              IN  IF args = <<>> \/ index = 0 THEN Say(meant, args = <<>>, <<>>)
                  ELSE /\ Answer(meant, [op |-> op, index |-> index - 1], <<>>, TRUE, names[index])
                       /\ UNCHANGED <<queue, promised, quitting>>
       PROVE  AnswersText
  <2> DEFINE index == PickIndex(args, names, IntMax)
  <2>1. index \in 0..Len(names)
    BY Picked
  <2>2. CASE args = <<>> \/ index = 0
    <3>1. Say(meant, args = <<>>, <<>>)
      BY <1>12, <2>2, Zenon
    <3> QED BY <1>1, <1>3, <3>1
  <2>3. CASE ~(args = <<>> \/ index = 0)
    <3>1. Answer(meant, [op |-> op, index |-> index - 1], <<>>, TRUE, names[index])
      BY <1>12, <2>3, Zenon
    <3> HIDE DEF index
    <3>2. names[index] \in Text
      BY <2>1, <2>3
    <3> QED BY <1>2, <3>1, <3>2
  <2> QED BY <2>2, <2>3
<1>13. ASSUME Theme(meant, args) \/ Visual(meant, args) PROVE AnswersText
  BY <1>12, <1>13, ConstantTexts, Zenon DEF Theme, Visual
<1>14. ASSUME Root(meant, args) PROVE AnswersText
  <2> DEFINE path == SingleArg(args)
  <2>1. path \in Text
    BY <1>1, SingleArgTyped
  <2>2. CASE path = <<>>
    BY <1>4, <1>14, <2>2, Zenon DEF Root
  <2>3. CASE path # <<>>
    <3> DEFINE m(there) == IF Validate(path, there).error = "None" THEN path ELSE <<>>
    <3>1. PICK there \in Kinds :
            Answer(meant, [op |-> "setRootPath", path |-> path], Validate(path, there).path,
                   Validate(path, there).error = "None", m(there))
      BY <1>14, <2>3, Zenon DEF Root
    <3>2. m(there) \in Text
      BY <1>1, <2>1, Zenon
    <3> HIDE DEF m, path
    <3> QED BY <1>2, <3>1, <3>2, Zenon
  <2> QED BY <2>2, <2>3
<1>15. ASSUME Quit(meant) PROVE AnswersText
  BY <1>1, <1>2, <1>15, Zenon DEF Quit
<1>16. Albums \in Seq(Text)
  BY ConstantTexts
<1> QED BY <1>1, <1>3, <1>4, <1>5, <1>7, <1>8, <1>9, <1>10, <1>11, <1>13, <1>14, <1>15, <1>16
        DEF Execute, args

(* The line that reaches execute() is a text. *)
LEMMA QuotedTyped ==
  ASSUME NEW X, NEW s \in Seq(X), X \subseteq 0..255, {Quote, Backslash} \subseteq X
  PROVE  InQuotes(s) \in Seq(X) /\ QuoteArg(s) \in Seq(X)
<1> DEFINE q == [i \in 1..Len(s) |-> Escaped(s[i])]
           open == <<Quote>>
           F == FlattenSeq(q)
<1>1. \A c \in X : Escaped(c) \in Seq(X)
  <2> TAKE c \in X
  <2>1. <<Backslash, c>> \in Seq(X) /\ <<c>> \in Seq(X)
    OBVIOUS
  <2> QED BY <2>1, Zenon DEF Escaped
<1>2. q \in Seq(Seq(X))
  <2>1. Len(s) \in Nat /\ \A i \in 1..Len(s) : s[i] \in X
    BY LenProperties, ElementOfSeq
  <2>2. \A i \in 1..Len(s) : Escaped(s[i]) \in Seq(X)
    BY <1>1, <2>1
  <2> QED BY <2>1, <2>2
<1>3. open \in Seq(X)
  OBVIOUS
<1>4. InQuotes(s) = open \o F \o open
  BY Zenon DEF InQuotes
<1> HIDE DEF q, open
<1>5. F \in Seq(X)
  BY <1>2, FlattenAt
<1> HIDE DEF F
<1>6. open \o F \in Seq(X)
  BY <1>3, <1>5, Concat
<1> DEFINE front == open \o F
<1> HIDE DEF front
<1>7. front \o open \in Seq(X)
  BY <1>3, <1>6, Concat DEF front
<1>8. InQuotes(s) \in Seq(X)
  BY <1>4, <1>7, Zenon DEF front
<1> QED BY <1>8, Zenon DEF QuoteArg

LEMMA QuotedText ==
  ASSUME NEW s \in Text
  PROVE  InQuotes(s) \in Text /\ QuoteArg(s) \in Text
<1> DEFINE X == 0..255
<1>1. X \subseteq 0..255 /\ {Quote, Backslash} \subseteq X
  BY DEF Quote, Backslash
<1>2. s \in Seq(X)
  BY DEF Text
<1>3. InQuotes(s) \in Seq(X) /\ QuoteArg(s) \in Seq(X)
  <2> HIDE DEF X
  <2> QED BY <1>1, <1>2, QuotedTyped
<1> QED BY <1>3 DEF Text

LEMMA LineEnds ==
  ASSUME NEW s \in Text
  PROVE  /\ UpToNewline(s) \in Text
         /\ ~Holds(s, {Newline}) => UpToNewline(s) = s
<1> DEFINE at == {i \in 1..Len(s) : s[i] = Newline}
           first == CHOOSE i \in at : \A j \in at : i <= j
<1>1. Len(s) \in Nat /\ at \subseteq 1..Len(s)
  BY TextFacts
<1>2. CASE at = {}
  <2>1. UpToNewline(s) = s
    BY <1>2, Zenon DEF UpToNewline
  <2> QED BY <2>1
<1>3. CASE at # {}
  <2>1. UpToNewline(s) = SubSeq(s, 1, first - 1)
    BY <1>3, Zenon DEF UpToNewline
  <2>2. \E i \in at : \A j \in at : i <= j
    <3> HIDE DEF at
    <3> QED BY <1>1, <1>3, Ends
  <2>3. first \in at
    BY <2>2, Zenon
  <2> HIDE DEF first
  <2>4. first \in 1..Len(s) /\ s[first] = Newline
    BY <2>3
  <2>5. SubSeq(s, 1, first - 1) \in Text
    <3>1. 1 \in Int /\ first - 1 \in Int /\ 1 <= 1 /\ 1 <= first - 1 + 1 /\ first - 1 <= Len(s)
      BY <1>1, <2>4
    <3> QED BY <3>1, TextSlice
  <2>6. Holds(s, {Newline})
    BY <2>4 DEF Holds
  <2> QED BY <2>1, <2>5, <2>6
<1> QED BY <1>2, <1>3

(* The lines that are executed: which step executes what. *)
Executes(line) == \E meant, verb : Execute(meant, verb, line)

LEMMA RequestLine ==
  ASSUME text \in Text, Request
  PROVE  \E line \in Text : Executes(line)
<1>1. QuoteArg(text) \in Text /\ UpToNewline(QuoteArg(text)) \in Text
  BY QuotedText, LineEnds
<1>2. CASE Execute(<<text>>, composing, UpToNewline(QuoteArg(text)))
  BY <1>1, <1>2, Zenon DEF Executes
<1> DEFINE Digits == {<<49>>, <<50>>}
<1>3. ASSUME NEW n \in Digits,
             Execute(<<text, n>>, "play", UpToNewline(QuoteArg(text) \o <<Blank>> \o QuoteArg(n)))
      PROVE  \E line \in Text : Executes(line)
  <2>1. n \in Text
    <3>1. <<49>> \in Text /\ <<50>> \in Text
      BY DEF Text
    <3> QED BY <3>1
  <2>2. <<Blank>> \in Text
    BY DEF Text, Blank
  <2>3. \A u, v \in Text : u \o v \in Text
    BY Concat DEF Text
  <2>4. QuoteArg(text) \o <<Blank>> \o QuoteArg(n) \in Text
    BY <1>1, <2>1, <2>2, <2>3, QuotedText
  <2> DEFINE line == QuoteArg(text) \o <<Blank>> \o QuoteArg(n)
  <2>5. UpToNewline(line) \in Text
    <3> HIDE DEF line
    <3> QED BY <2>4, LineEnds DEF line
  <2> QED BY <1>3, <2>5, Zenon DEF Executes
<1> QED BY <1>2, <1>3, Zenon DEF Request

(* Every step but a command line leaves no answer behind. *)
LEMMA StepAnswers ==
  ASSUME text \in Text, Next
  PROVE  last' = Nobody \/ \E line \in Text : Executes(line)
<1>1. CASE Guide \/ Type \/ Escape \/ Arrow \/ Compose \/ Work
  BY <1>1 DEF Guide, Type, Escape, Arrow, Compose, Work
<1>2. CASE Enter
  BY <1>2, QuotedText, Zenon DEF Enter, Executes
<1>3. CASE TypedPlay
  BY <1>3, Zenon DEF TypedPlay, Executes
<1>4. CASE Line
  BY <1>4, ConstantTexts, Zenon DEF Line, Executes
<1>5. CASE Request
  BY <1>5, RequestLine
<1> QED BY <1>1, <1>2, <1>3, <1>4, <1>5 DEF Next

LEMMA TextKept ==
  ASSUME text \in Text, [Next]_vars
  PROVE  text' \in Text
<1>1. <<>> \in Text /\ \A u, v \in Text : u \o v \in Text
  <2>1. \A u, v \in Text : u \o v \in Text
    BY Concat DEF Text
  <2> QED BY <2>1, EmptyText
<1>2. CASE Guide \/ Arrow \/ Line \/ Work \/ UNCHANGED vars
  BY <1>2 DEF Guide, Arrow, Line, Work, vars
<1>3. CASE Enter \/ Escape \/ TypedPlay \/ Request
  BY <1>1, <1>3 DEF Enter, Escape, TypedPlay, Request
<1>4. CASE Type
  BY <1>1, <1>4, ConstantTexts DEF Type
<1>5. CASE Compose
  <2>1. ASSUME NEW b \in Bytes PROVE (IF text = <<>> THEN <<Slash>> ELSE text) \o <<b>> \in Text
    <3>1. b \in 0..255 /\ Slash \in 0..255
      BY TerminalAssumption DEF Slash
    <3>2. <<b>> \in Text /\ <<Slash>> \in Text
      BY <3>1 DEF Text
    <3> QED BY <1>1, <3>2
  <2>2. ASSUME NEW key \in Keys PROVE text \o key \in Text
    BY <1>1, ConstantTexts
  <2> QED BY <1>5, <2>1, <2>2, Zenon DEF Compose
<1> QED BY <1>2, <1>3, <1>4, <1>5 DEF Next

(* What is typed, or given to ctl, is a text, and so is the last answer.    *)
AnswerInv ==
  /\ text \in Text
  /\ last.wire = <<>> \/ \E ok : last.wire = ToJson(ok, last.message) /\ last.message \in Text

(* AnswerInv holds whatever is typed, requested and answered (Answer, Say). *)
THEOREM AnswerInductive == Spec => []AnswerInv
<1>1. Init => AnswerInv
  <2> SUFFICES ASSUME Init PROVE AnswerInv
    OBVIOUS
  <2>1. text = <<>> /\ last.wire = <<>>
    BY DEF Init, Nobody
  <2> QED BY <2>1, EmptyText, Zenon DEF AnswerInv
<1>2. AnswerInv /\ [Next]_vars => AnswerInv'
  <2> SUFFICES ASSUME AnswerInv, [Next]_vars PROVE AnswerInv'
    OBVIOUS
  <2>1. text' \in Text
    BY TextKept DEF AnswerInv
  <2>2. CASE UNCHANGED vars
    BY <2>1, <2>2 DEF AnswerInv, vars
  <2>3. CASE last' = Nobody
    BY <2>1, <2>3 DEF AnswerInv, Nobody
  <2>4. ASSUME NEW line \in Text, Executes(line) PROVE AnswerInv'
    <3>1. AnswersText
      BY <2>4, ExecuteAnswersText, Zenon DEF Executes
    <3>2. PICK m \in Text : \E ok : last'.message = m /\ last'.wire = ToJson(ok, m)
      BY <3>1, Zenon DEF AnswersText, Answered
    <3> QED BY <2>1, <3>2, Zenon DEF AnswerInv
  <2> QED BY <2>2, <2>3, <2>4, StepAnswers DEF AnswerInv
<1> QED BY <1>1, <1>2, PTL DEF Spec

(* An answer is one line, from which ctl reads the message that was given.  *)
THEOREM AnswerReadsBackHolds == Spec => []AnswerReadsBack
<1>1. AnswerInv => AnswerReadsBack
  <2> SUFFICES ASSUME NEW ok, last.wire = ToJson(ok, last.message), last.message \in Text
               PROVE  ~Holds(last.wire, {Newline})
                      /\ FindMessage(last.wire) = [some |-> TRUE, value |-> last.message]
    BY Zenon DEF AnswerInv, AnswerReadsBack
  <2>1. last.wire \in OneLine /\ FindMessage(last.wire) = [some |-> TRUE, value |-> last.message]
    BY MessageReadsBack
  <2>2. ~Holds(last.wire, {Newline})
    <3> DEFINE X == (0..255) \ {Newline}
    <3>1. last.wire \in Seq(X) /\ \A c \in X : c \notin {Newline}
      BY <2>1 DEF OneLine
    <3>2. \A i \in 1..Len(last.wire) : last.wire[i] \in X
      <4> HIDE DEF X
      <4> QED BY <3>1, ElementOfSeq
    <3> HIDE DEF X
    <3> QED BY <3>1, <3>2, Zenon DEF Holds
  <2> QED BY <2>1, <2>2
<1> QED BY <1>1, AnswerInductive, PTL

-------------------------------------------------------------------------------
(* What is asked arrives                                                    *)

(* States of tokenize(): in the quotes, behind a backslash there, behind    *)
(* the closing quote, behind a blank, and in a token without quotes; and    *)
(* how it gets from one to the next.                                        *)
Reading(st, ts, x) == st \in TokenState /\ st.tokens = ts /\ st.current = x
InQuote(st, x) == Reading(st, <<>>, x) /\ st.inToken /\ st.quoted /\ ~st.escaped
Escaping(st, x) == Reading(st, <<>>, x) /\ st.inToken /\ st.quoted /\ st.escaped
Closed(st, x) == Reading(st, <<>>, x) /\ st.inToken /\ ~st.quoted /\ ~st.escaped
Parted(st, ts) == Reading(st, ts, <<>>) /\ ~st.inToken /\ ~st.quoted /\ ~st.escaped
Open(st, ts, x) == Reading(st, ts, x) /\ st.inToken /\ ~st.quoted /\ ~st.escaped

LEMMA SpecialBytes ==
  /\ Quote # Backslash /\ Blank # Quote /\ IsSpace(Blank) /\ ~IsSpace(Quote) /\ ~IsSpace(Backslash)
  /\ Quote \in 0..255 /\ Blank \in 0..255 /\ Backslash \in 0..255
BY DEF Quote, Backslash, Blank, IsSpace

LEMMA QuoteOpens == InQuote(TokenStep(Start, Quote), <<>>)
<1>1. Start \in TokenState /\ Start.tokens = <<>> /\ Start.current = <<>> /\ ~Start.quoted /\ ~Start.escaped
  <2>1. <<>> \in Seq(Text) /\ <<>> \in Text
    BY EmptyText
  <2> QED BY <2>1 DEF Start, TokenState
<1>2. TokenStep(Start, Quote) = [Start EXCEPT !.quoted = TRUE, !.inToken = TRUE]
  BY <1>1, SpecialBytes DEF TokenStep
<1>3. TokenStep(Start, Quote) \in TokenState
  BY <1>1, SpecialBytes, TokenStepTyped
<1> QED BY <1>1, <1>2, <1>3 DEF InQuote, Reading, TokenState

LEMMA QuoteTakes ==
  ASSUME NEW st, NEW x, InQuote(st, x), NEW c \in 0..255, c \notin {Quote, Backslash}
  PROVE  InQuote(TokenStep(st, c), Append(x, c))
<1>1. TokenStep(st, c) = [st EXCEPT !.current = Append(x, c), !.inToken = TRUE]
  BY DEF TokenStep, InQuote, Reading
<1> QED BY <1>1, TokenStepTyped DEF InQuote, Reading, TokenState

LEMMA QuoteEscapes ==
  ASSUME NEW st, NEW x, InQuote(st, x)
  PROVE  Escaping(TokenStep(st, Backslash), x)
<1>1. TokenStep(st, Backslash) = [st EXCEPT !.escaped = TRUE]
  BY SpecialBytes DEF TokenStep, InQuote
<1> QED BY <1>1, SpecialBytes, TokenStepTyped DEF InQuote, Escaping, Reading, TokenState

LEMMA EscapeTakes ==
  ASSUME NEW st, NEW x, Escaping(st, x), NEW c \in 0..255
  PROVE  InQuote(TokenStep(st, c), Append(x, c))
<1>1. TokenStep(st, c) = [st EXCEPT !.current = Append(x, c), !.escaped = FALSE]
  BY DEF TokenStep, Escaping, Reading
<1> QED BY <1>1, TokenStepTyped DEF InQuote, Escaping, Reading, TokenState

LEMMA QuoteCloses ==
  ASSUME NEW st, NEW x, InQuote(st, x)
  PROVE  Closed(TokenStep(st, Quote), x)
<1>1. TokenStep(st, Quote) = [st EXCEPT !.quoted = FALSE]
  BY SpecialBytes DEF TokenStep, InQuote
<1> QED BY <1>1, SpecialBytes, TokenStepTyped DEF InQuote, Closed, Reading, TokenState

LEMMA BlankParts ==
  ASSUME NEW st, NEW x, Closed(st, x)
  PROVE  Parted(TokenStep(st, Blank), Append(<<>>, x))
<1> DEFINE ts == IF st.inToken THEN Append(st.tokens, st.current) ELSE st.tokens
           none == <<>>
           next == TokenStep(st, Blank)
<1>1. ts = Append(<<>>, x)
  BY DEF Closed, Reading
<1>2. next = [st EXCEPT !.tokens = ts, !.current = none, !.inToken = FALSE]
  BY SpecialBytes DEF TokenStep, Closed
<1>3. st \in TokenState /\ ~st.quoted /\ ~st.escaped /\ next \in TokenState
  BY SpecialBytes, TokenStepTyped DEF Closed, Reading
<1> HIDE DEF ts, none, next
<1>4. Reading(next, ts, none) /\ ~next.inToken /\ ~next.quoted /\ ~next.escaped
  BY <1>2, <1>3 DEF Reading, TokenState
<1> QED BY <1>1, <1>4 DEF Parted, none, next

LEMMA TokenOpens ==
  ASSUME NEW st, NEW ts, Parted(st, ts), NEW c \in 0..255, c # Quote, ~IsSpace(c)
  PROVE  Open(TokenStep(st, c), ts, Append(<<>>, c))
<1> DEFINE v == Append(<<>>, c)
<1>1. TokenStep(st, c) = [st EXCEPT !.current = v, !.inToken = TRUE]
  BY DEF TokenStep, Parted, Reading
<1> HIDE DEF v
<1>2. Open(TokenStep(st, c), ts, v)
  BY <1>1, TokenStepTyped DEF Parted, Open, Reading, TokenState
<1> QED BY <1>2 DEF v

(* Where a line begins with a text in quotes: its quotes, and each byte     *)
(* between them.                                                            *)
LaidOut(doc, s, at, N) ==
  /\ N \in Nat /\ at \in [0..Len(s) -> Nat] /\ at[0] = 0 /\ at[Len(s)] = N
  /\ N + 2 <= Len(doc) /\ doc[1] = Quote /\ doc[N + 2] = Quote
  /\ \A i \in 1..Len(s) :
       /\ at[i] = at[i - 1] + Len(Escaped(s[i])) /\ at[i] <= N
       /\ \A k \in 1..Len(Escaped(s[i])) : doc[1 + (at[i - 1] + k)] = Escaped(s[i])[k]

LEMMA QuotesLaidOut ==
  ASSUME NEW s \in Text
  PROVE  \E at, N : LaidOut(InQuotes(s), s, at, N) /\ Len(InQuotes(s)) = N + 2
<1> DEFINE X == 0..255
           n == Len(s)
           q == [i \in 1..n |-> Escaped(s[i])]
           F == FlattenSeq(q)
           open == <<Quote>>
           front == open \o F
           doc == front \o open
<1>1. n \in Nat /\ \A i \in 1..n : s[i] \in X
  BY TextFacts
<1>2. \A c \in X : Escaped(c) \in Seq(X) /\ Len(Escaped(c)) \in {1, 2}
  <2> TAKE c \in X
  <2>1. <<Backslash, c>> \in Seq(X) /\ <<c>> \in Seq(X) /\ Len(<<Backslash, c>>) = 2 /\ Len(<<c>>) = 1
    BY DEF Backslash
  <2> QED BY <2>1 DEF Escaped
<1>3. InQuotes(s) = doc
  BY Zenon DEF InQuotes
<1>4. open \in Seq(X) /\ Len(open) = 1 /\ open[1] = Quote
  BY DEF Quote
<1> HIDE DEF open, X
<1>5. q \in Seq(Seq(X)) /\ Len(q) = n /\ \A i \in 1..n : q[i] = Escaped(s[i])
  <2>1. \A i \in 1..n : Escaped(s[i]) \in Seq(X)
    BY <1>1, <1>2
  <2> QED BY <1>1, <2>1
<1> HIDE DEF n, q
<1>6. F \in Seq(X) /\ Len(F) \in Nat /\ \E at : Offsets(at, q)
  <2>1. F \in Seq(X) /\ \E at : Offsets(at, q)
    BY <1>5, FlattenAt
  <2> HIDE DEF F
  <2> QED BY <2>1, LenProperties
<1>7. PICK at : Offsets(at, q)
  BY <1>6
<1>8. /\ at \in [0..n -> Nat] /\ at[0] = 0 /\ at[n] = Len(F)
      /\ \A i \in 1..n : /\ at[i] = at[i - 1] + Len(Escaped(s[i])) /\ at[i] <= Len(F)
                         /\ \A k \in 1..Len(Escaped(s[i])) : F[at[i - 1] + k] = Escaped(s[i])[k]
  BY <1>5, <1>7 DEF Offsets
<1>9. PICK N \in Nat : N = Len(F)
  BY <1>6
<1> HIDE DEF F
<1>10. front \in Seq(X) /\ Joins(front, open, F)
  BY <1>4, <1>6, Joined, Zenon
<1> HIDE DEF front
<1>11. Joins(doc, front, open)
  BY <1>4, <1>10, Joined, Zenon
<1> HIDE DEF doc
<1>12. Len(front) = N + 1 /\ front[1] = Quote /\ \A k \in 1..N : front[1 + k] = F[k]
  BY <1>4, <1>9, <1>10 DEF Joins
<1>13. /\ Len(doc) = N + 2 /\ doc[1] = Quote /\ doc[N + 2] = Quote
       /\ \A k \in 1..N : doc[1 + k] = F[k]
  <2>1. 1 \in 1..(N + 1) /\ (\A k \in 1..N : 1 + k \in 1..(N + 1)) /\ N + 1 + 1 = N + 2 /\ 1 \in 1..1
    OBVIOUS
  <2> QED BY <1>4, <1>11, <1>12, <2>1 DEF Joins
<1>14. ASSUME NEW i \in 1..n, NEW k \in 1..Len(Escaped(s[i]))
       PROVE  doc[1 + (at[i - 1] + k)] = Escaped(s[i])[k]
  <2>1. PICK w \in Nat : w = Len(Escaped(s[i]))
    BY <1>1, <1>2
  <2>2. i - 1 \in 0..n
    BY <1>1
  <2>3. PICK a \in Nat : a = at[i - 1]
    BY <1>8, <2>2
  <2>4. a + w <= N
    BY <1>8, <1>9, <2>1, <2>3
  <2>5. a + k \in 1..N
    BY <2>1, <2>4
  <2> QED BY <1>8, <1>13, <2>3, <2>5
<1>15. LaidOut(doc, s, at, N) /\ Len(doc) = N + 2
  BY <1>8, <1>9, <1>13, <1>14 DEF LaidOut, n
<1> QED BY <1>3, <1>15, Zenon

LEMMA QuotesRead ==
  ASSUME NEW s \in Text, NEW line \in Text, NEW at, NEW N, LaidOut(line, s, at, N),
         NEW run, TokensRead(run, line)
  PROVE  Closed(run[N + 2], s)
<1> DEFINE n == Len(s)
           part(i) == SubSeq(s, 1, i)
           T == {i \in 0..n : InQuote(run[1 + at[i]], part(i))}
<1>1. /\ n \in Nat /\ Len(line) \in Nat /\ N \in Nat /\ N + 2 <= Len(line)
      /\ \A i \in 1..Len(line) : line[i] \in 0..255
      /\ \A i \in 1..n : s[i] \in 0..255
  BY TextFacts DEF LaidOut
<1>2. /\ \A i \in 1..Len(line) : run[i] = TokenStep(run[i - 1], line[i])
      /\ run[0] = Start /\ \A i \in 0..Len(line) : run[i] \in TokenState
  BY DEF TokensRead
<1>3. /\ at \in [0..n -> Nat] /\ at[0] = 0 /\ at[n] = N
      /\ \A i \in 1..n : /\ at[i] = at[i - 1] + Len(Escaped(s[i])) /\ at[i] <= N
                         /\ \A k \in 1..Len(Escaped(s[i])) : line[1 + (at[i - 1] + k)] = Escaped(s[i])[k]
      /\ line[1] = Quote /\ line[N + 2] = Quote
  BY DEF LaidOut
<1>4. ASSUME NEW p \in Nat, p < Len(line)
      PROVE  run[p] \in TokenState /\ line[p + 1] \in 0..255 /\ run[p + 1] = TokenStep(run[p], line[p + 1])
  <2>1. p \in 0..Len(line) /\ p + 1 \in 1..Len(line) /\ p + 1 - 1 = p
    BY <1>1, <1>4
  <2> QED BY <1>1, <1>2, <2>1
<1>5. 0 \in T
  <2>1. run[1] = TokenStep(Start, Quote)
    <3>1. 0 \in Nat /\ 0 < Len(line) /\ 0 + 1 = 1
      BY <1>1
    <3> QED BY <1>2, <1>3, <1>4, <3>1
  <2>2. InQuote(run[1], <<>>)
    BY <2>1, QuoteOpens
  <2>3. part(0) = <<>>
    BY SubSeqEmpty
  <2>4. 0 \in 0..n /\ 1 + at[0] = 1
    BY <1>1, <1>3
  <2> HIDE DEF part
  <2> QED BY <2>2, <2>3, <2>4
<1>6. ASSUME NEW i \in 1..n, i - 1 \in T PROVE i \in T
  <2>1. s[i] \in 0..255 /\ i - 1 \in 0..n /\ i \in 0..n
    BY <1>1
  <2>2. PICK a \in Nat : a = at[i - 1]
    BY <1>3, <2>1
  <2>3. PICK c \in 0..255 : c = s[i]
    BY <2>1
  <2>4. InQuote(run[a + 1], part(i - 1))
    <3>1. InQuote(run[1 + a], part(i - 1))
      BY <1>6, <2>2
    <3>2. 1 + a = a + 1
      OBVIOUS
    <3> QED BY <3>1, <3>2
  <2>5. part(i) = Append(part(i - 1), c)
    <3> DEFINE X == 0..255
    <3>1. s \in Seq(X) /\ 1 \in 1..Len(s) /\ i \in 1..Len(s) /\ c \in X
      BY <1>1 DEF Text
    <3>2. part(i - 1) \in Seq(X)
      <4>1. 1 \in Int /\ i - 1 \in Int /\ 1 <= 1 /\ 1 <= i - 1 + 1 /\ i - 1 <= Len(s)
        BY <1>1
      <4> QED BY <4>1, TextSlice DEF Text
    <3> HIDE DEF X
    <3>3. part(i) = part(i - 1) \o <<c>>
      BY <2>3, <3>1, SubSeqRecursiveSecond
    <3> HIDE DEF part
    <3>4. Append(part(i - 1), c) = part(i - 1) \o <<c>>
      BY <3>1, <3>2, AppendIsConcat
    <3> QED BY <3>3, <3>4
  <2> HIDE DEF part
  <2>6. CASE c \notin {Quote, Backslash}
    <3>1. Escaped(c) = <<c>> /\ Len(<<c>>) = 1 /\ <<c>>[1] = c
      BY <2>6 DEF Escaped
    <3>2. at[i] = a + 1 /\ a + 1 <= N /\ line[1 + (a + 1)] = c
      <4>1. 1 \in 1..Len(Escaped(s[i]))
        BY <2>3, <3>1
      <4> QED BY <1>3, <2>2, <2>3, <3>1, <4>1
    <3>3. line[a + 1 + 1] = c /\ a + 1 \in Nat /\ a + 1 < Len(line)
      BY <1>1, <3>2
    <3>4. InQuote(run[a + 1 + 1], part(i))
      BY <1>4, <2>4, <2>5, <2>6, <3>3, QuoteTakes
    <3>5. 1 + at[i] = a + 1 + 1
      BY <3>2
    <3> QED BY <2>1, <3>4, <3>5
  <2>7. CASE c \in {Quote, Backslash}
    <3>1. Escaped(c) = <<Backslash, c>> /\ Len(<<Backslash, c>>) = 2
          /\ <<Backslash, c>>[1] = Backslash /\ <<Backslash, c>>[2] = c
      BY <2>7 DEF Escaped
    <3>2. at[i] = a + 2 /\ a + 2 <= N /\ line[1 + (a + 1)] = Backslash /\ line[1 + (a + 2)] = c
      <4>1. 1 \in 1..Len(Escaped(s[i])) /\ 2 \in 1..Len(Escaped(s[i]))
        BY <2>3, <3>1
      <4> QED BY <1>3, <2>2, <2>3, <3>1, <4>1
    <3>3. /\ line[a + 1 + 1] = Backslash /\ a + 1 \in Nat /\ a + 1 < Len(line)
          /\ line[a + 2 + 1] = c /\ a + 2 \in Nat /\ a + 2 < Len(line) /\ a + 1 + 1 = a + 2
      BY <1>1, <3>2
    <3>4. Escaping(run[a + 2], part(i - 1))
      <4>1. run[a + 1] \in TokenState /\ run[a + 2] = TokenStep(run[a + 1], Backslash) /\ Backslash \in 0..255
        BY <1>4, <3>3
      <4> QED BY <2>4, <4>1, QuoteEscapes
    <3>5. InQuote(run[a + 2 + 1], part(i))
      BY <1>4, <2>5, <3>3, <3>4, EscapeTakes
    <3>6. 1 + at[i] = a + 2 + 1
      BY <3>2
    <3> QED BY <2>1, <3>5, <3>6
  <2> QED BY <2>6, <2>7
<1>7. \A i \in 0..n : i \in T
  <2> HIDE DEF T
  <2> QED BY <1>1, <1>5, <1>6, UpTo
<1>8. InQuote(run[1 + N], s)
  <2>1. part(n) = s
    BY SubSeqFull DEF Text
  <2>2. n \in T
    BY <1>1, <1>7
  <2> HIDE DEF part
  <2> QED BY <1>3, <2>1, <2>2
<1>9. run[N + 2] = TokenStep(run[1 + N], Quote) /\ run[1 + N] \in TokenState /\ Quote \in 0..255
  <2>1. 1 + N \in Nat /\ 1 + N < Len(line) /\ 1 + N + 1 = N + 2
    BY <1>1
  <2>2. line[1 + N + 1] = Quote
    BY <1>3, <2>1
  <2> QED BY <1>4, <2>1, <2>2
<1> QED BY <1>8, <1>9, QuoteCloses

LEMMA LaidOutFurther ==
  ASSUME NEW s \in Text, NEW doc \in Text, NEW at, NEW N, LaidOut(doc, s, at, N),
         NEW line \in Text, Len(doc) <= Len(line), \A k \in 1..Len(doc) : line[k] = doc[k]
  PROVE  LaidOut(line, s, at, N)
<1>1. /\ N \in Nat /\ at \in [0..Len(s) -> Nat] /\ at[0] = 0 /\ at[Len(s)] = N
      /\ N + 2 <= Len(doc) /\ doc[1] = Quote /\ doc[N + 2] = Quote
      /\ \A i \in 1..Len(s) :
           /\ at[i] = at[i - 1] + Len(Escaped(s[i])) /\ at[i] <= N
           /\ \A k \in 1..Len(Escaped(s[i])) : doc[1 + (at[i - 1] + k)] = Escaped(s[i])[k]
  BY DEF LaidOut
<1>2. Len(doc) \in Nat /\ Len(line) \in Nat /\ Len(s) \in Nat
  BY TextFacts
<1>3. 1 \in 1..Len(doc) /\ N + 2 \in 1..Len(doc) /\ N + 2 <= Len(line)
  BY <1>1, <1>2
<1>4. ASSUME NEW i \in 1..Len(s), NEW k \in 1..Len(Escaped(s[i]))
      PROVE  line[1 + (at[i - 1] + k)] = Escaped(s[i])[k]
  <2>1. PICK w \in Nat : w = Len(Escaped(s[i]))
    <3>1. Len(Escaped(s[i])) = 1 \/ Len(Escaped(s[i])) = 2
      BY DEF Escaped
    <3> QED BY <3>1
  <2>2. i - 1 \in 0..Len(s)
    BY <1>2
  <2>3. PICK a \in Nat : a = at[i - 1]
    BY <1>1, <2>2
  <2>4. a + w <= N
    BY <1>1, <2>1, <2>3
  <2>5. 1 + (a + k) \in 1..Len(doc)
    BY <1>1, <1>2, <2>1, <2>4
  <2> QED BY <1>1, <2>3, <2>5
<1> QED BY <1>1, <1>3, <1>4 DEF LaidOut

(* A text in quotes is one token, itself; a digit behind it is another.     *)
LEMMA AtEndOpen ==
  ASSUME NEW st, NEW ts, NEW x, Open(st, ts, x)
  PROVE  AtEnd(st) = Append(ts, x)
<1>1. st.inToken /\ ~st.escaped /\ st.tokens = ts /\ st.current = x
  BY DEF Open, Reading
<1> QED BY <1>1 DEF AtEnd

LEMMA AtEndClosed ==
  ASSUME NEW st, NEW x, Closed(st, x)
  PROVE  AtEnd(st) = Append(<<>>, x)
<1>1. Open(st, <<>>, x)
  BY DEF Open, Closed
<1> QED BY <1>1, AtEndOpen

LEMMA QuotesAreOneToken ==
  ASSUME NEW s \in Text
  PROVE  Tokenize(InQuotes(s)) = <<s>>
<1> DEFINE line == InQuotes(s)
<1>1. line \in Text
  BY QuotedText
<1>2. PICK at, N : LaidOut(line, s, at, N) /\ Len(line) = N + 2
  BY QuotesLaidOut
<1> HIDE DEF line
<1>3. PICK run : TokensRead(run, line) /\ Tokenize(line) = AtEnd(run[Len(line)])
  BY <1>1, Tokenized
<1>4. Closed(run[N + 2], s)
  BY <1>1, <1>2, <1>3, QuotesRead
<1>5. Tokenize(line) = Append(<<>>, s)
  BY <1>2, <1>3, <1>4, AtEndClosed
<1> QED BY <1>5 DEF line

LEMMA Appended ==
  ASSUME NEW X, NEW x \in X, NEW y \in X, NEW s \in Seq(X), Len(s) = 1, s[1] = x
  PROVE  Append(s, y) \in Seq(X) /\ Len(Append(s, y)) = 2 /\ Append(s, y)[1] = x /\ Append(s, y)[2] = y
<1>1. Append(s, y) \in Seq(X) /\ Len(Append(s, y)) = Len(s) + 1
  BY AppendProperties
<1>2. Append(s, y)[Len(s) + 1] = y
  BY AppendProperties
<1>3. \A i \in 1..Len(s) : Append(s, y)[i] = s[i]
  BY AppendProperties
<1> QED BY <1>1, <1>2, <1>3

LEMMA Tuples ==
  ASSUME NEW u, NEW v
  PROVE  Append(<<>>, u) = <<u>> /\ Append(Append(<<>>, u), v) = <<u, v>>
<1> DEFINE S == {u, v}
           one == <<u>>
           two == <<u, v>>
<1>1. Append(<<>>, u) = one
  OBVIOUS
<1>2. one \in Seq(S) /\ Len(one) = 1 /\ one[1] = u /\ two \in Seq(S) /\ Len(two) = 2 /\ two[1] = u /\ two[2] = v
  OBVIOUS
<1>3. u \in S /\ v \in S
  OBVIOUS
<1> HIDE DEF S, one, two
<1> DEFINE both == Append(one, v)
<1>4. both \in Seq(S) /\ Len(both) = 2 /\ both[1] = u /\ both[2] = v
  BY <1>2, <1>3, Appended
<1> HIDE DEF both
<1>5. both = two
  <2>1. Len(both) = Len(two) /\ \A i \in 1..Len(both) : both[i] = two[i]
    BY <1>2, <1>4
  <2> QED BY <1>2, <1>4, <2>1, SeqEqual
<1> QED BY <1>1, <1>5 DEF one, two, both

LEMMA QuotedAndDigit ==
  ASSUME NEW s \in Text, NEW d \in 49..57
  PROVE  Tokenize(InQuotes(s) \o <<Blank>> \o <<d>>) = <<s, <<d>>>>
<1> DEFINE X == 0..255
           doc == InQuotes(s)
           gap == <<Blank>>
           digit == <<d>>
           front == doc \o gap
           line == front \o digit
<1>1. doc \in Seq(X) /\ gap \in Seq(X) /\ digit \in Seq(X) /\ Len(gap) = 1 /\ gap[1] = Blank /\ Len(digit) = 1 /\ digit[1] = d
  BY QuotedText DEF Text, Blank
<1>2. PICK at, N : LaidOut(doc, s, at, N) /\ Len(doc) = N + 2
  BY QuotesLaidOut
<1>3. N \in Nat
  BY <1>2 DEF LaidOut
<1> HIDE DEF doc, gap, digit, X
<1>4. front \in Seq(X) /\ Joins(front, doc, gap)
  BY <1>1, Joined, Zenon
<1> HIDE DEF front
<1>5. line \in Seq(X) /\ Joins(line, front, digit)
  BY <1>1, <1>4, Joined, Zenon
<1> HIDE DEF line
<1>6. Len(front) = N + 3 /\ front[N + 3] = Blank /\ \A k \in 1..(N + 2) : front[k] = doc[k]
  <2>1. N + 2 + 1 = N + 3 /\ 1 \in 1..1
    BY <1>3
  <2> QED BY <1>1, <1>2, <1>4, <2>1 DEF Joins
<1>7. Len(line) = N + 4 /\ line[N + 4] = d /\ line[N + 3] = Blank /\ \A k \in 1..(N + 2) : line[k] = doc[k]
  <2>1. N + 3 + 1 = N + 4 /\ 1 \in 1..1 /\ N + 3 \in 1..(N + 3) /\ \A k \in 1..(N + 2) : k \in 1..(N + 3)
    BY <1>3
  <2> QED BY <1>1, <1>5, <1>6, <2>1 DEF Joins
<1>8. line \in Text /\ doc \in Text
  BY <1>1, <1>5 DEF Text, X
<1>9. LaidOut(line, s, at, N)
  <2>1. Len(doc) <= Len(line)
    BY <1>2, <1>3, <1>7
  <2> QED BY <1>2, <1>7, <1>8, <2>1, LaidOutFurther
<1>10. PICK run : TokensRead(run, line) /\ Tokenize(line) = AtEnd(run[Len(line)])
  BY <1>8, Tokenized
<1>11. Closed(run[N + 2], s)
  BY <1>8, <1>9, <1>10, QuotesRead
<1>12. run[N + 3] = TokenStep(run[N + 2], Blank) /\ run[N + 4] = TokenStep(run[N + 3], d)
  <2>1. ASSUME NEW p \in Nat, p < Len(line) PROVE run[p + 1] = TokenStep(run[p], line[p + 1])
    <3>1. p + 1 \in 1..Len(line) /\ p + 1 - 1 = p
      BY <1>3, <1>7, <2>1
    <3> QED BY <1>10, <3>1 DEF TokensRead
  <2>2. /\ N + 2 \in Nat /\ N + 2 < Len(line) /\ N + 3 = N + 2 + 1
        /\ N + 3 \in Nat /\ N + 3 < Len(line) /\ N + 4 = N + 3 + 1
    BY <1>3, <1>7
  <2> QED BY <1>7, <2>1, <2>2, Zenon
<1>13. Parted(run[N + 3], Append(<<>>, s))
  BY <1>11, <1>12, BlankParts
<1>14. Open(run[N + 4], Append(<<>>, s), Append(<<>>, d))
  <2>1. d \in 0..255 /\ d # Quote /\ ~IsSpace(d)
    BY DEF Quote, IsSpace, Blank
  <2> QED BY <1>12, <1>13, <2>1, TokenOpens
<1>15. Tokenize(line) = Append(Append(<<>>, s), Append(<<>>, d))
  <2>1. AtEnd(run[N + 4]) = Append(Append(<<>>, s), Append(<<>>, d))
    BY <1>14, AtEndOpen, Zenon
  <2> QED BY <1>7, <1>10, <2>1, Zenon
<1> QED BY <1>15, Tuples, Zenon DEF line, front, doc, gap, digit

LEMMA OneLineKept ==
  ASSUME NEW line \in OneLine
  PROVE  line \in Text /\ UpToNewline(line) = line
<1> DEFINE X == (0..255) \ {Newline}
           Y == 0..255
<1>1. line \in Seq(X) /\ X \subseteq Y /\ \A c \in X : c # Newline
  BY DEF OneLine
<1>2. line \in Seq(Y)
  <2> HIDE DEF X, Y
  <2> QED BY <1>1
<1>3. \A i \in 1..Len(line) : line[i] \in X
  <2> HIDE DEF X
  <2> QED BY <1>1, ElementOfSeq
<1>4. ~Holds(line, {Newline})
  BY <1>3 DEF Holds
<1> QED BY <1>2, <1>4, LineEnds DEF Text

(* What a text in quotes, or one that needs none, is taken for.             *)
LEMMA InQuotesEnds ==
  ASSUME NEW s \in Text
  PROVE  /\ InQuotes(s) \in Text /\ InQuotes(s) # <<>> /\ InQuotes(s)[1] = Quote
         /\ Trim(InQuotes(s)) = InQuotes(s)
<1>1. PICK at, N : LaidOut(InQuotes(s), s, at, N) /\ Len(InQuotes(s)) = N + 2
  BY QuotesLaidOut
<1> DEFINE line == InQuotes(s)
<1>2. line \in Text
  BY QuotedText
<1> HIDE DEF line
<1>3. N \in Nat /\ line[1] = Quote /\ line[Len(line)] = Quote /\ Len(line) # 0
  BY <1>1 DEF LaidOut, line
<1>4. line # <<>>
  BY <1>3, EmptyText
<1>5. Trim(line) = line
  BY <1>2, <1>3, <1>4, SpecialBytes, Trimmed
<1> QED BY <1>2, <1>3, <1>4, <1>5 DEF line

LEMMA PlainText ==
  ASSUME NEW s \in Text, ~NeedsQuotes(s)
  PROVE  /\ s # <<>> /\ Len(s) \in Nat \ {0} /\ s[1] # Quote /\ Trim(s) = s
         /\ \A i \in 1..Len(s) : s[i] # Quote /\ s[i] # Backslash /\ ~IsSpace(s[i])
<1>1. s # <<>> /\ \A i \in 1..Len(s) : s[i] # Quote /\ s[i] # Backslash /\ ~IsSpace(s[i])
  BY DEF NeedsQuotes
<1>2. Len(s) \in Nat \ {0}
  <2> DEFINE X == 0..255
  <2>1. s \in Seq(X)
    BY DEF Text
  <2> HIDE DEF X
  <2> QED BY <1>1, <2>1, EmptySeq, LenProperties
<1>3. 1 \in 1..Len(s) /\ Len(s) \in 1..Len(s)
  BY <1>2
<1>4. Trim(s) = s
  BY <1>1, <1>3, Trimmed
<1> QED BY <1>1, <1>2, <1>3, <1>4

(* A text that is not quoted is read byte by byte.                          *)
LEMMA TokenGoesOn ==
  ASSUME NEW st, NEW x, Open(st, <<>>, x), NEW c \in 0..255, c # Quote, ~IsSpace(c)
  PROVE  Open(TokenStep(st, c), <<>>, Append(x, c))
<1> DEFINE v == Append(x, c)
<1>1. TokenStep(st, c) = [st EXCEPT !.current = v, !.inToken = TRUE]
  BY DEF TokenStep, Open, Reading
<1> HIDE DEF v
<1>2. Open(TokenStep(st, c), <<>>, v)
  BY <1>1, TokenStepTyped DEF Open, Reading, TokenState
<1> QED BY <1>2 DEF v

LEMMA FurtherPrefix ==
  ASSUME NEW s \in Text, NEW i \in 1..Len(s)
  PROVE  SubSeq(s, 1, i) = Append(SubSeq(s, 1, i - 1), s[i])
<1> DEFINE X == 0..255
           part(k) == SubSeq(s, 1, k)
<1>1. s \in Seq(X) /\ 1 \in 1..Len(s) /\ s[i] \in X /\ Len(s) \in Nat
  BY TextFacts DEF Text
<1>2. part(i - 1) \in Seq(X)
  <2>1. 1 \in Int /\ i - 1 \in Int /\ 1 <= 1 /\ 1 <= i - 1 + 1 /\ i - 1 <= Len(s)
    BY <1>1
  <2> QED BY <2>1, TextSlice DEF Text
<1> HIDE DEF X
<1>3. part(i) = part(i - 1) \o <<s[i]>>
  BY <1>1, SubSeqRecursiveSecond
<1> HIDE DEF part
<1>4. Append(part(i - 1), s[i]) = part(i - 1) \o <<s[i]>>
  BY <1>1, <1>2, AppendIsConcat
<1>5. part(i) = Append(part(i - 1), s[i])
  BY <1>3, <1>4
<1> QED BY <1>5 DEF part

LEMMA PlainIsOneToken ==
  ASSUME NEW s \in Text, ~NeedsQuotes(s)
  PROVE  Tokenize(s) = <<s>>
<1> DEFINE n == Len(s)
           part(i) == SubSeq(s, 1, i)
<1>1. n \in Nat \ {0} /\ \A i \in 1..n : s[i] \in 0..255 /\ s[i] # Quote /\ ~IsSpace(s[i])
  BY PlainText, TextFacts
<1>2. PICK run : TokensRead(run, s) /\ Tokenize(s) = AtEnd(run[Len(s)])
  BY Tokenized
<1>3. run[0] = Start /\ \A i \in 1..n : run[i] = TokenStep(run[i - 1], s[i])
  BY <1>2 DEF TokensRead
<1> DEFINE T == {i \in 0..n : i # 0 => Open(run[i], <<>>, part(i))}
<1>4. ASSUME NEW i \in 1..n, i - 1 \in T PROVE i \in T
  <2>1. part(i) = Append(part(i - 1), s[i])
    BY FurtherPrefix
  <2>2. run[i] = TokenStep(run[i - 1], s[i]) /\ s[i] \in 0..255 /\ s[i] # Quote /\ ~IsSpace(s[i])
    BY <1>1, <1>3
  <2>3. CASE i = 1
    <3>1. Parted(Start, <<>>)
      <4>1. <<>> \in Seq(Text) /\ <<>> \in Text
        BY EmptyText
      <4> QED BY <4>1 DEF Start, TokenState, Parted, Reading
    <3>2. run[i] = TokenStep(Start, s[i])
      BY <1>3, <2>2, <2>3
    <3>3. part(i - 1) = <<>>
      BY <2>3, SubSeqEmpty
    <3> HIDE DEF part
    <3>4. Open(run[i], <<>>, part(i))
      BY <2>1, <2>2, <3>1, <3>2, <3>3, TokenOpens
    <3> QED BY <3>4
  <2>4. CASE i # 1
    <3>1. i - 1 # 0
      BY <2>4
    <3> HIDE DEF part
    <3>2. Open(run[i - 1], <<>>, part(i - 1))
      BY <1>4, <3>1
    <3>3. Open(run[i], <<>>, part(i))
      BY <2>1, <2>2, <3>2, TokenGoesOn
    <3> QED BY <3>3
  <2> QED BY <2>3, <2>4
<1>5. 0 \in T
  BY <1>1
<1>6. \A i \in 0..n : i \in T
  <2> HIDE DEF T
  <2> QED BY <1>1, <1>4, <1>5, UpTo
<1>7. Open(run[n], <<>>, s)
  <2>1. part(n) = s
    BY SubSeqFull DEF Text
  <2>2. n \in T /\ n # 0
    BY <1>1, <1>6
  <2> HIDE DEF part
  <2> QED BY <2>1, <2>2
<1>8. Tokenize(s) = Append(<<>>, s)
  BY <1>2, <1>7, AtEndOpen
<1> QED BY <1>8

(* "Inverse of tokenize for a single argument" (quoteArg): whatever a text  *)
(* is, tokenize() makes of it, quoted, one token, the text itself.          *)
THEOREM QuotedIsOneToken ==
  ASSUME NEW s \in Text
  PROVE  Tokenize(QuoteArg(s)) = <<s>>
<1>1. CASE NeedsQuotes(s)
  BY <1>1, QuotesAreOneToken DEF QuoteArg
<1>2. CASE ~NeedsQuotes(s)
  BY <1>2, PlainIsOneToken DEF QuoteArg
<1> QED BY <1>1, <1>2

(* What is quoted is the argument again.                                    *)
LEMMA QuotedArrives ==
  ASSUME NEW s \in Text
  PROVE  SingleArg(Trim(QuoteArg(s))) = s
<1>1. CASE NeedsQuotes(s)
  <2> DEFINE line == InQuotes(s)
  <2>1. QuoteArg(s) = line
    BY <1>1 DEF QuoteArg
  <2>2. line # <<>> /\ line[1] = Quote /\ Trim(line) = line
    BY InQuotesEnds
  <2>3. Tokenize(line) = <<s>>
    BY QuotesAreOneToken
  <2>4. <<s>> # <<>> /\ <<s>>[1] = s
    OBVIOUS
  <2> HIDE DEF line
  <2>5. SingleArg(line) = s
    BY <2>2, <2>3, <2>4 DEF SingleArg
  <2> QED BY <2>1, <2>2, <2>5
<1>2. CASE ~NeedsQuotes(s)
  BY <1>2, PlainText DEF QuoteArg, SingleArg
<1> QED BY <1>1, <1>2

(* A text without a newline is one, in quotes or not: the line is not cut.  *)
LEMMA NotCut ==
  ASSUME NEW s \in Text, ~Holds(s, {Newline})
  PROVE  QuoteArg(s) \in OneLine /\ UpToNewline(QuoteArg(s)) = QuoteArg(s)
<1> DEFINE X == (0..255) \ {Newline}
<1>1. X \subseteq 0..255 /\ {Quote, Backslash} \subseteq X
  BY DEF Quote, Backslash, Newline
<1>2. \A i \in 1..Len(s) : s[i] \in X
  BY TextFacts DEF Holds
<1>3. s \in Seq(X)
  <2> DEFINE Y == 0..255
  <2>1. s \in Seq(Y)
    BY DEF Text
  <2> HIDE DEF X, Y
  <2>2. Len(s) \in Nat /\ s = [i \in 1..Len(s) |-> s[i]]
    BY <2>1, LenProperties
  <2>3. s \in [1..Len(s) -> X]
    BY <1>2, <2>2
  <2> QED BY <2>2, <2>3
<1>4. QuoteArg(s) \in Seq(X)
  <2> HIDE DEF X
  <2> QED BY <1>1, <1>3, QuotedTyped
<1>5. QuoteArg(s) \in OneLine
  BY <1>4 DEF OneLine
<1> QED BY <1>5, OneLineKept

LEMMA Spaced ==
  ASSUME NEW doc \in Text, doc # <<>>, ~IsSpace(doc[1]), NEW d \in 49..57
  PROVE  LET line == doc \o <<Blank>> \o <<d>>
         IN  /\ line \in Text /\ Len(line) = Len(doc) + 2
             /\ line[Len(doc) + 1] = Blank /\ line[Len(doc) + 2] = d
             /\ (\A i \in 1..Len(doc) : line[i] = doc[i]) /\ line[1] = doc[1]
             /\ Trim(line) = line
<1> DEFINE X == 0..255
           gap == <<Blank>>
           digit == <<d>>
           front == doc \o gap
           line == front \o digit
<1>1. doc \in Seq(X) /\ gap \in Seq(X) /\ digit \in Seq(X) /\ Len(gap) = 1 /\ gap[1] = Blank
      /\ Len(digit) = 1 /\ digit[1] = d /\ ~IsSpace(d)
  BY DEF Text, Blank, IsSpace
<1>2. PICK n \in Nat : n = Len(doc)
  BY TextFacts
<1>3. n # 0
  <2> HIDE DEF X
  <2> QED BY <1>1, <1>2, EmptySeq
<1> HIDE DEF gap, digit, X
<1>4. front \in Seq(X) /\ Joins(front, doc, gap)
  BY <1>1, Joined, Zenon
<1> HIDE DEF front
<1>5. line \in Seq(X) /\ Joins(line, front, digit)
  BY <1>1, <1>4, Joined, Zenon
<1> HIDE DEF line
<1>6. Len(front) = n + 1 /\ front[n + 1] = Blank /\ \A k \in 1..n : front[k] = doc[k]
  <2>1. 1 \in 1..1
    OBVIOUS
  <2> QED BY <1>1, <1>2, <1>4, <2>1 DEF Joins
<1>7. Len(line) = n + 2 /\ line[n + 2] = d /\ line[n + 1] = Blank /\ \A k \in 1..n : line[k] = doc[k]
  <2>1. n + 1 + 1 = n + 2 /\ 1 \in 1..1 /\ n + 1 \in 1..(n + 1) /\ \A k \in 1..n : k \in 1..(n + 1)
    OBVIOUS
  <2> QED BY <1>1, <1>5, <1>6, <2>1 DEF Joins
<1>8. line \in Text /\ 1 \in 1..n
  BY <1>3, <1>5 DEF Text, X
<1>9. line # <<>>
  <2>1. Len(line) # 0
    BY <1>7
  <2> QED BY <2>1, EmptyText
<1>10. Trim(line) = line
  BY <1>1, <1>7, <1>8, <1>9, Trimmed
<1> QED BY <1>2, <1>7, <1>8, <1>10 DEF line, front, gap, digit

(* The title of an album names it: in quotes, as it stands, and with a      *)
(* track unless the whole is the title of another.                          *)
Titled(s) == \E i \in 1..Len(Albums) : Albums[i] = s

LEMMA TitleNamed ==
  ASSUME NEW s \in Text, Titled(s), s[1] # Quote
  PROVE  Named(s) = [album |-> ResolveAlbum(s), track |-> 1]
<1>1. ResolveAlbum(s) # 0
  BY Resolved DEF Titled
<1> QED BY <1>1, Zenon DEF Named

LEMMA QuotedTitleNamed ==
  ASSUME NEW s \in Text, Titled(s)
  PROVE  Named(Trim(QuoteArg(s))) = [album |-> ResolveAlbum(s), track |-> 1]
<1>1. CASE NeedsQuotes(s)
  <2> DEFINE line == InQuotes(s)
             tokens == Tokenize(line)
  <2>1. QuoteArg(s) = line
    BY <1>1 DEF QuoteArg
  <2>2. line[1] = Quote /\ Trim(line) = line
    BY InQuotesEnds
  <2>3. tokens = <<s>>
    BY QuotesAreOneToken
  <2>4. Len(<<s>>) = 1 /\ <<s>>[1] = s
    OBVIOUS
  <2> HIDE DEF line
  <2>5. Named(line) = IF Len(tokens) \notin 1..2 THEN [album |-> 0, track |-> 0]
                      ELSE [album |-> ResolveAlbum(tokens[1]),
                            track |-> IF Len(tokens) = 2 THEN Number(tokens[2]) ELSE 1]
    BY <2>2, Zenon DEF Named
  <2> HIDE DEF tokens
  <2>6. Len(tokens) \in 1..2 /\ Len(tokens) # 2 /\ tokens[1] = s
    BY <2>3, <2>4
  <2> QED BY <2>1, <2>2, <2>5, <2>6
<1>2. CASE ~NeedsQuotes(s)
  BY <1>2, PlainText, TitleNamed DEF QuoteArg
<1> QED BY <1>1, <1>2

LEMMA QuotedTrackNamed ==
  ASSUME NEW s \in Text, NEW d \in 49..57, NeedsQuotes(s)
  PROVE  LET line == QuoteArg(s) \o <<Blank>> \o <<d>>
         IN  Trim(line) = line /\ Named(line) = [album |-> ResolveAlbum(s), track |-> Number(<<d>>)]
<1> DEFINE line == InQuotes(s) \o <<Blank>> \o <<d>>
           tokens == Tokenize(line)
           pair == <<s, <<d>>>>
<1>1. QuoteArg(s) = InQuotes(s)
  BY DEF QuoteArg
<1>2. tokens = pair
  BY QuotedAndDigit
<1>3. line[1] = Quote /\ Trim(line) = line
  <2> DEFINE doc == InQuotes(s)
  <2>1. doc \in Text /\ doc # <<>> /\ doc[1] = Quote /\ ~IsSpace(doc[1])
    BY InQuotesEnds, SpecialBytes
  <2> HIDE DEF doc
  <2>2. Trim(doc \o <<Blank>> \o <<d>>) = doc \o <<Blank>> \o <<d>> /\ (doc \o <<Blank>> \o <<d>>)[1] = doc[1]
    BY <2>1, Spaced
  <2> QED BY <2>1, <2>2 DEF doc
<1>4. Len(pair) = 2 /\ pair[1] = s /\ pair[2] = <<d>>
  OBVIOUS
<1> HIDE DEF line
<1>5. Named(line) = IF Len(tokens) \notin 1..2 THEN [album |-> 0, track |-> 0]
                    ELSE [album |-> ResolveAlbum(tokens[1]),
                          track |-> IF Len(tokens) = 2 THEN Number(tokens[2]) ELSE 1]
  BY <1>3, Zenon DEF Named
<1> HIDE DEF tokens, pair
<1>6. Len(tokens) \in 1..2 /\ Len(tokens) = 2 /\ tokens[1] = s /\ tokens[2] = <<d>>
  BY <1>2, <1>4
<1>7. Named(line) = [album |-> ResolveAlbum(s), track |-> Number(<<d>>)]
  BY <1>5, <1>6
<1> QED BY <1>1, <1>3, <1>7 DEF line

LEMMA PlainTrackNamed ==
  ASSUME NEW s \in Text, NEW d \in 49..57, ~NeedsQuotes(s)
  PROVE  LET line == QuoteArg(s) \o <<Blank>> \o <<d>>
         IN  /\ Trim(line) = line
             /\ \/ ResolveAlbum(line) # 0
                \/ Named(line).album = 0
                \/ Named(line) = [album |-> ResolveAlbum(s), track |-> Number(<<d>>)]
<1> DEFINE line == s \o <<Blank>> \o <<d>>
           cut == LastBlank(line)
           track == Number(SubSeq(line, cut + 1, Len(line)))
<1>1. QuoteArg(s) = s
  BY DEF QuoteArg
<1>2. /\ s # <<>> /\ Len(s) \in Nat \ {0} /\ s[1] # Quote /\ Trim(s) = s
      /\ \A i \in 1..Len(s) : s[i] # Quote /\ s[i] # Backslash /\ ~IsSpace(s[i])
  BY PlainText
<1>3. /\ line \in Text /\ Len(line) = Len(s) + 2 /\ line[Len(s) + 1] = Blank /\ line[Len(s) + 2] = d
      /\ (\A i \in 1..Len(s) : line[i] = s[i]) /\ line[1] = s[1] /\ Trim(line) = line
  <2>1. ~IsSpace(s[1])
    <3>1. 1 \in 1..Len(s)
      BY <1>2
    <3> QED BY <1>2, <3>1
  <2> QED BY <1>2, <2>1, Spaced
<1> HIDE DEF line
<1>4. cut = Len(s) + 1
  <2> DEFINE at == {i \in 1..Len(line) : line[i] \in {Blank, Tab}}
  <2>1. \A i \in at : i = Len(s) + 1
    <3> TAKE i \in at
    <3>1. i \in 1..(Len(s) + 2) /\ line[i] \in {Blank, Tab} /\ Len(s) \in Nat
      BY <1>2, <1>3
    <3>2. IsSpace(line[i])
      BY <3>1 DEF IsSpace, Blank, Tab
    <3>3. i # Len(s) + 2
      BY <1>3, <3>2 DEF IsSpace, Blank
    <3>4. i \notin 1..Len(s)
      BY <1>2, <1>3, <3>2
    <3> QED BY <3>1, <3>3, <3>4
  <2>2. Len(s) + 1 \in at
    BY <1>2, <1>3
  <2>3. cut = CHOOSE i \in at : \A j \in at : j <= i
    <3>1. at # {}
      BY <2>2
    <3> QED BY <3>1, Zenon DEF LastBlank
  <2> HIDE DEF at
  <2>4. \E i \in at : \A j \in at : j <= i
    <3>1. Len(s) + 1 <= Len(s) + 1
      BY <1>2
    <3> QED BY <2>1, <2>2, <3>1
  <2>5. cut \in at
    BY <2>3, <2>4, Zenon
  <2> QED BY <2>1, <2>5
<1>5. SubSeq(line, cut + 1, Len(line)) = <<d>> /\ SubSeq(line, 1, cut - 1) = s
  <2> DEFINE X == 0..255
             last1 == SubSeq(line, Len(s) + 2, Len(line))
             first == SubSeq(line, 1, Len(s))
             one == <<d>>
  <2>1. /\ last1 \in Text /\ Len(last1) = 1 /\ last1[1] = d
        /\ first \in Text /\ Len(first) = Len(s) /\ \A i \in 1..Len(s) : first[i] = s[i]
    <3>1. PICK n \in Nat : n = Len(s) /\ n # 0
      BY <1>2
    <3>2. /\ last1 \in Text /\ Len(last1) = n + 2 - (n + 2) + 1
          /\ \A i \in 1..(n + 2 - (n + 2) + 1) : last1[i] = line[n + 2 + i - 1]
      <4>1. n + 2 \in Int /\ 1 <= n + 2 /\ n + 2 <= n + 2 + 1 /\ n + 2 <= Len(line) /\ Len(line) = n + 2
        BY <1>3, <3>1
      <4> QED BY <1>3, <3>1, <4>1, TextSlice
    <3>3. /\ first \in Text /\ Len(first) = n - 1 + 1 /\ \A i \in 1..(n - 1 + 1) : first[i] = line[1 + i - 1]
      <4>1. n \in Int /\ 1 \in Int /\ 1 <= 1 /\ 1 <= n + 1 /\ n <= Len(line)
        BY <1>3, <3>1
      <4> QED BY <1>3, <3>1, <4>1, TextSlice
    <3> HIDE DEF last1, first
    <3>4. n + 2 - (n + 2) + 1 = 1 /\ n + 2 + 1 - 1 = n + 2 /\ 1 \in 1..1 /\ n - 1 + 1 = n
      OBVIOUS
    <3>5. Len(last1) = 1 /\ last1[1] = d
      BY <1>3, <3>1, <3>2, <3>4
    <3>6. Len(first) = Len(s) /\ \A i \in 1..Len(s) : first[i] = line[i]
      BY <3>1, <3>3, <3>4
    <3> QED BY <1>3, <3>2, <3>3, <3>5, <3>6
  <2>2. one \in Seq(X) /\ Len(one) = 1 /\ one[1] = d /\ s \in Seq(X)
    BY DEF Text
  <2>3. cut + 1 = Len(s) + 2 /\ cut - 1 = Len(s)
    BY <1>2, <1>4
  <2> HIDE DEF last1, first, one
  <2>4. last1 \in Seq(X) /\ first \in Seq(X)
    BY <2>1 DEF Text
  <2> HIDE DEF X
  <2>5. last1 = one
    BY <2>1, <2>2, <2>4, SeqEqual
  <2>6. first = s
    BY <2>1, <2>2, <2>4, SeqEqual
  <2> QED BY <2>3, <2>5, <2>6 DEF last1, first, one
<1>6. Named(line) = IF ResolveAlbum(line) # 0 \/ cut = 0 \/ track = 0
                    THEN [album |-> ResolveAlbum(line), track |-> 1]
                    ELSE [album |-> ResolveAlbum(Trim(SubSeq(line, 1, cut - 1))), track |-> track]
  BY <1>2, <1>3, Zenon DEF Named
<1>7. track = Number(<<d>>) /\ Trim(SubSeq(line, 1, cut - 1)) = s
  BY <1>2, <1>5
<1> HIDE DEF track, cut
<1>8. cut # 0
  BY <1>2, <1>4
<1>9. \/ ResolveAlbum(line) # 0
      \/ Named(line).album = 0
      \/ Named(line) = [album |-> ResolveAlbum(s), track |-> Number(<<d>>)]
  BY <1>6, <1>7, <1>8
<1> QED BY <1>1, <1>3, <1>9 DEF line

(* The calls that a command line makes of the service for a text: a root,   *)
(* and a song.                                                              *)
Scans(line, call) == call.op = "setRootPath" /\ call.path = SingleArg(Trim(line))
Plays(line, call) ==
  LET n == Named(Trim(line))
  IN  /\ call.op = "playSong" /\ n.album \in Loaded
      /\ call.album = Albums[n.album] /\ call.song = n.track - 1
Elsewhere(call) == call.op \notin {"setRootPath", "playSong"}

Calls(verb, line, call) ==
  \/ Elsewhere(call)
  \/ verb \in {"root", "RootConfig"} /\ Scans(line, call)
  \/ verb = "play" /\ Plays(line, call)

LEMMA ExecuteCalls ==
  ASSUME NEW meant, NEW verb, NEW line, Execute(meant, verb, line)
  PROVE  last'.meant = meant /\ Calls(verb, line, last'.call)
<1> DEFINE args == Trim(line)
           Good == last'.meant = meant /\ Calls(verb, line, last'.call)
<1>1. ASSUME NEW call, NEW scanned, NEW ok, NEW m, Answer(meant, call, scanned, ok, m),
             Calls(verb, line, call)
      PROVE  Good
  <2>1. last'.meant = meant /\ last'.call = call
    BY <1>1, AnswerKept
  <2> QED BY <1>1, <2>1
<1>2. Calls(verb, line, NoCall)
  BY DEF Calls, Elsewhere, NoCall
<1> HIDE DEF Good, args
<1>3. ASSUME NEW ok, NEW m, Say(meant, ok, m) PROVE Good
  BY <1>1, <1>2, <1>3, Zenon DEF Say
<1>4. ASSUME NEW names, List(meant, names) PROVE Good
  BY <1>3, <1>4, Zenon DEF List
<1>5. ASSUME Query(meant) \/ Songs(meant, args) PROVE Good
  BY <1>3, <1>5, Zenon DEF Query, Songs
<1>6. ASSUME verb = "play", Play(meant, args) PROVE Good
  <2> DEFINE n == Named(args)
             call == [op |-> "playSong", album |-> Albums[n.album], song |-> n.track - 1]
  <2>1. CASE args = <<>>
    BY <1>1, <1>2, <1>6, <2>1, Zenon DEF Play
  <2>2. CASE args # <<>> /\ n.album \in Loaded /\ n.track \in 1..Tracks
    <3>1. Answer(meant, call, <<>>, TRUE, Albums[n.album])
      BY <1>6, <2>2, Zenon DEF Play
    <3>2. Plays(line, call)
      BY <2>2 DEF Plays, args
    <3>3. Calls(verb, line, call)
      BY <1>6, <3>2, Zenon DEF Calls
    <3> HIDE DEF n, call
    <3> QED BY <1>1, <3>1, <3>3
  <2>3. CASE args # <<>> /\ ~(n.album \in Loaded /\ n.track \in 1..Tracks)
    <3>1. Say(meant, FALSE, args)
      BY <1>6, <2>3, Zenon DEF Play
    <3> QED BY <1>3, <3>1
  <2> QED BY <2>1, <2>2, <2>3, Zenon
<1>7. ASSUME NEW op, Control(meant, op) PROVE Good
  BY <1>1, <1>2, <1>7, Zenon DEF Control
<1>8. ASSUME Volume(meant, args) PROVE Good
  BY <1>1, <1>2, <1>3, <1>8, Zenon DEF Volume
<1>9. ASSUME Output(meant, args) PROVE Good
  <2> DEFINE n == ParseInt(args, IntMax)
             call == [op |-> "setOutputDevice", index |-> n.value - 1]
  <2>1. PICK devices \in Outputs :
          IF args # <<>> /\ n.some /\ n.value \in 1..Len(devices)
          THEN Enqueue(call) /\ Answer(meant, NoCall, <<>>, TRUE, devices[n.value])
               /\ UNCHANGED <<promised, quitting>>
          ELSE IF args \in {<<>>, ListWord} THEN List(meant, devices) ELSE Say(meant, FALSE, <<>>)
    BY <1>9, Zenon DEF Output
  <2> QED BY <1>1, <1>2, <1>3, <1>4, <2>1, Zenon
<1>10. ASSUME Theme(meant, args) \/ Visual(meant, args) PROVE Good
  <2>1. \A index : /\ Calls(verb, line, [op |-> "setTheme", index |-> index])
                    /\ Calls(verb, line, [op |-> "setVisual", index |-> index])
    BY DEF Calls, Elsewhere
  <2>2. CASE Theme(meant, args)
    BY <1>1, <1>3, <2>1, <2>2, Zenon DEF Theme
  <2>3. CASE Visual(meant, args)
    BY <1>1, <1>3, <2>1, <2>3, Zenon DEF Visual
  <2> QED BY <1>10, <2>2, <2>3
<1>11. ASSUME verb \in {"root", "RootConfig"}, Root(meant, args) PROVE Good
  <2> DEFINE path == SingleArg(args)
             call == [op |-> "setRootPath", path |-> path]
  <2>1. Calls(verb, line, call)
    BY <1>11 DEF Calls, Scans, args
  <2>2. CASE path = <<>>
    BY <1>5, <1>11, <2>2, Zenon DEF Root
  <2>3. CASE path # <<>>
    <3>1. \E scanned, ok, m : Answer(meant, call, scanned, ok, m)
      BY <1>11, <2>3, Zenon DEF Root
    <3> HIDE DEF call
    <3> QED BY <1>1, <2>1, <3>1
  <2> QED BY <2>2, <2>3
<1>12. ASSUME Quit(meant) PROVE Good
  BY <1>1, <1>2, <1>12, Zenon DEF Quit
<1>13. Good
  BY <1>3, <1>4, <1>5, <1>6, <1>7, <1>8, <1>9, <1>10, <1>11, <1>12 DEF Execute, args
<1> QED BY <1>13 DEF Good

(* What TextArrives says of what is asked and what is called. *)
Arrived(asked, call) ==
  asked # <<>> /\ ~Holds(asked[1], {Newline}) =>
    /\ call.op = "setRootPath" => call.path = asked[1]
    /\ call.op = "playSong" /\ asked[1] \in {Albums[i] : i \in Loaded}
         => \/ /\ call.album = asked[1]
               /\ call.song = IF Len(asked) = 2 THEN Number(asked[2]) - 1 ELSE 0
            \/ WholeName(asked)

LEMMA LoadedTitled ==
  ASSUME NEW s \in {Albums[i] : i \in Loaded}
  PROVE  Titled(s)
BY TerminalAssumption, Zenon DEF Titled

(* An argument in quotes, or one that needs none, arrives; *)
LEMMA ArgumentArrives ==
  ASSUME NEW s \in Text, NEW verb, NEW call, Calls(verb, QuoteArg(s), call)
  PROVE  Arrived(<<s>>, call)
<1> DEFINE asked == <<s>>
<1>1. asked # <<>> /\ asked[1] = s /\ Len(asked) # 2
  OBVIOUS
<1> SUFFICES Arrived(asked, call)
  OBVIOUS
<1> HIDE DEF asked
<1>2. CASE Elsewhere(call)
  BY <1>2 DEF Elsewhere, Arrived
<1>3. CASE Scans(QuoteArg(s), call)
  <2>1. call.op = "setRootPath" /\ call.path = s
    BY <1>3, QuotedArrives DEF Scans
  <2> QED BY <1>1, <2>1 DEF Arrived
<1>4. CASE Plays(QuoteArg(s), call)
  <2>1. call.op = "playSong"
    BY <1>4, Zenon DEF Plays
  <2>2. ASSUME s \in {Albums[i] : i \in Loaded} PROVE call.album = s /\ call.song = 0
    <3>1. Titled(s)
      BY <2>2, LoadedTitled
    <3> DEFINE n == Named(Trim(QuoteArg(s)))
    <3>2. call.album = Albums[n.album] /\ call.song = n.track - 1
      BY <1>4, Zenon DEF Plays
    <3>3. n = [album |-> ResolveAlbum(s), track |-> 1]
      BY <3>1, QuotedTitleNamed
    <3> HIDE DEF n
    <3>4. Albums[ResolveAlbum(s)] = s
      BY <3>1, Resolved DEF Titled
    <3> QED BY <3>2, <3>3, <3>4
  <2> QED BY <1>1, <2>1, <2>2 DEF Arrived
<1> QED BY <1>2, <1>3, <1>4 DEF Calls

(* so does a title typed as it stands, *)
LEMMA TypedArrives ==
  ASSUME NEW s \in Text, NEW call, Calls("play", s, call), Trim(s) # <<>>, Trim(s)[1] # Quote
  PROVE  Arrived(<<Trim(s)>>, call)
<1> DEFINE t == Trim(s)
           asked == <<t>>
<1>1. asked # <<>> /\ asked[1] = t /\ Len(asked) # 2
  OBVIOUS
<1>2. t \in Text /\ t[1] # Quote
  BY Trimmed
<1> SUFFICES Arrived(asked, call)
  OBVIOUS
<1>3. CASE Elsewhere(call)
  BY <1>3 DEF Elsewhere, Arrived
<1>4. CASE Plays(s, call)
  <2> DEFINE n == Named(t)
  <2>1. call.op = "playSong" /\ call.album = Albums[n.album] /\ call.song = n.track - 1
    BY <1>4, Zenon DEF Plays
  <2> HIDE DEF t, asked
  <2>2. ASSUME t \in {Albums[i] : i \in Loaded} PROVE call.album = t /\ call.song = 0
    <3>1. Titled(t)
      BY <2>2, LoadedTitled
    <3>2. n = [album |-> ResolveAlbum(t), track |-> 1]
      BY <1>2, <3>1, TitleNamed
    <3> HIDE DEF n
    <3>3. Albums[ResolveAlbum(t)] = t
      BY <3>1, Resolved DEF Titled
    <3> QED BY <2>1, <3>2, <3>3
  <2> HIDE DEF n
  <2> QED BY <1>1, <2>1, <2>2 DEF Arrived
<1>5. "play" \notin {"root", "RootConfig"}
  OBVIOUS
<1> QED BY <1>3, <1>4, <1>5 DEF Calls

(* and a title with a track. *)
LEMMA TrackArrives ==
  ASSUME NEW s \in Text, NEW d \in 49..57, NEW call,
         Calls("play", QuoteArg(s) \o <<Blank>> \o <<d>>, call)
  PROVE  Arrived(<<s, <<d>>>>, call)
<1> DEFINE line == QuoteArg(s) \o <<Blank>> \o <<d>>
           asked == <<s, <<d>>>>
           n == Named(line)
<1>1. asked # <<>> /\ asked[1] = s /\ asked[2] = <<d>> /\ Len(asked) = 2
  OBVIOUS
<1> SUFFICES Arrived(asked, call)
  OBVIOUS
<1>2. CASE Elsewhere(call)
  BY <1>2 DEF Elsewhere, Arrived
<1>3. CASE Plays(line, call)
  <2>1. /\ Trim(line) = line
        /\ \/ ~NeedsQuotes(s) /\ ResolveAlbum(line) # 0
           \/ n.album = 0
           \/ n = [album |-> ResolveAlbum(s), track |-> Number(<<d>>)]
    BY QuotedTrackNamed, PlainTrackNamed
  <2>2. /\ call.op = "playSong" /\ n.album \in Loaded
        /\ call.album = Albums[n.album] /\ call.song = n.track - 1
    BY <1>3, <2>1, Zenon DEF Plays
  <2>3. n.album # 0
    <3> HIDE DEF n
    <3>1. n.album \in 1..Len(Albums)
      BY <2>2, TerminalAssumption, Zenon
    <3> QED BY <3>1
  <2>4. ASSUME s \in {Albums[i] : i \in Loaded}, n = [album |-> ResolveAlbum(s), track |-> Number(<<d>>)]
        PROVE  call.album = s /\ call.song = Number(<<d>>) - 1
    <3> HIDE DEF n
    <3>1. Albums[ResolveAlbum(s)] = s
      BY <2>4, LoadedTitled, Resolved DEF Titled
    <3> QED BY <2>2, <2>4, <3>1
  <2>5. ASSUME ~NeedsQuotes(s), ResolveAlbum(line) # 0 PROVE WholeName(asked)
    <3>1. QuoteArg(s) = s
      BY <2>5 DEF QuoteArg
    <3> QED BY <1>1, <2>5, <3>1 DEF WholeName
  <2> HIDE DEF n, asked, line
  <2> QED BY <1>1, <2>1, <2>2, <2>3, <2>4, <2>5 DEF Arrived
<1>4. "play" \notin {"root", "RootConfig"}
  OBVIOUS
<1> QED BY <1>2, <1>3, <1>4 DEF Calls

(* A step that executes a line is given what was asked.                     *)
LEMMA StepArrives ==
  ASSUME text \in Text, Next
  PROVE  Arrived(last'.meant, last'.call)
<1> DEFINE Good == Arrived(last'.meant, last'.call)
<1>1. ASSUME NEW meant, NEW verb, NEW line, Execute(meant, verb, line),
             \A call : Calls(verb, line, call) => Arrived(meant, call)
      PROVE  Good
  <2>1. last'.meant = meant /\ Calls(verb, line, last'.call)
    BY <1>1, ExecuteCalls
  <2> QED BY <1>1, <2>1
<1>2. \A call : Arrived(<<>>, call)
  BY DEF Arrived
<1> SUFFICES Good
  OBVIOUS
<1> HIDE DEF Good
<1>3. ASSUME last' = Nobody PROVE Good
  <2>1. last'.meant = <<>>
    BY <1>3 DEF Nobody
  <2> QED BY <1>2, <2>1 DEF Good
<1>4. CASE Guide \/ Type \/ Escape \/ Arrow \/ Compose \/ Work
  BY <1>3, <1>4 DEF Guide, Type, Escape, Arrow, Compose, Work
<1>5. CASE Enter
  <2>1. Execute(<<text>>, PromptVerb, QuoteArg(text))
    BY <1>5, Zenon DEF Enter
  <2> QED BY <1>1, <2>1, ArgumentArrives
<1>6. CASE TypedPlay
  <2> DEFINE title == Trim(text)
  <2>1. CASE title = <<>> \/ title[1] = Quote
    <3>1. Execute(<<>>, "play", text)
      BY <1>6, <2>1, Zenon DEF TypedPlay
    <3> QED BY <1>1, <1>2, <3>1
  <2>2. CASE ~(title = <<>> \/ title[1] = Quote)
    <3>1. Execute(<<title>>, "play", text)
      BY <1>6, <2>2, Zenon DEF TypedPlay
    <3> QED BY <1>1, <2>2, <3>1, TypedArrives
  <2> QED BY <2>1, <2>2
<1>7. CASE Line
  <2>1. PICK l \in Lines : Execute(<<>>, l.verb, l.args)
    BY <1>7, Zenon DEF Line
  <2> QED BY <1>1, <1>2, <2>1
<1>8. CASE Execute(<<text>>, composing, UpToNewline(QuoteArg(text)))
  <2> DEFINE asked == <<text>>
             line == UpToNewline(QuoteArg(text))
  <2>1. asked[1] = text
    OBVIOUS
  <2>2. ASSUME NEW call, Calls(composing, line, call) PROVE Arrived(asked, call)
    <3>1. CASE Holds(text, {Newline})
      <4> HIDE DEF asked
      <4> QED BY <2>1, <3>1 DEF Arrived
    <3>2. CASE ~Holds(text, {Newline})
      <4>1. line = QuoteArg(text)
        BY <3>2, NotCut
      <4> QED BY <2>2, <4>1, ArgumentArrives
    <3> QED BY <3>1, <3>2
  <2> HIDE DEF asked, line
  <2>3. Execute(asked, composing, line)
    BY <1>8 DEF asked, line
  <2> QED BY <1>1, <2>2, <2>3
<1>9. ASSUME NEW d \in {49, 50},
             Execute(<<text, <<d>>>>, "play", UpToNewline(QuoteArg(text) \o <<Blank>> \o QuoteArg(<<d>>)))
      PROVE  Good
  <2> DEFINE asked == <<text, <<d>>>>
             line == UpToNewline(QuoteArg(text) \o <<Blank>> \o QuoteArg(<<d>>))
  <2>1. asked[1] = text
    OBVIOUS
  <2>2. QuoteArg(<<d>>) = <<d>>
    <3>1. <<d>> # <<>> /\ \A i \in 1..Len(<<d>>) : <<d>>[i] = d
      OBVIOUS
    <3>2. d \notin {Quote, Backslash} /\ ~IsSpace(d)
      BY DEF Quote, Backslash, IsSpace, Blank
    <3>3. ~NeedsQuotes(<<d>>)
      BY <3>1, <3>2 DEF NeedsQuotes
    <3> QED BY <3>3 DEF QuoteArg
  <2>3. ASSUME NEW call, Calls("play", line, call) PROVE Arrived(asked, call)
    <3>1. CASE Holds(text, {Newline})
      <4> HIDE DEF asked
      <4> QED BY <2>1, <3>1 DEF Arrived
    <3>2. CASE ~Holds(text, {Newline})
      <4> DEFINE X == (0..255) \ {Newline}
                 all == QuoteArg(text) \o <<Blank>> \o <<d>>
      <4>1. \A u, v \in OneLine : u \o v \in OneLine
        BY Concat DEF OneLine
      <4>2. <<Blank>> \in OneLine /\ <<d>> \in OneLine
        BY DEF OneLine, Blank, Newline
      <4>3. QuoteArg(text) \in OneLine
        BY <3>2, NotCut
      <4>4. all \in OneLine
        BY <4>1, <4>2, <4>3
      <4> HIDE DEF all
      <4>5. UpToNewline(all) = all
        BY <4>4, OneLineKept
      <4>6. line = all
        BY <2>2, <4>5 DEF all
      <4>7. Calls("play", QuoteArg(text) \o <<Blank>> \o <<d>>, call)
        BY <2>3, <4>6, Zenon DEF all
      <4>8. d \in 49..57
        OBVIOUS
      <4> QED BY <4>7, <4>8, TrackArrives
    <3> QED BY <3>1, <3>2
  <2> HIDE DEF asked, line
  <2>4. Execute(asked, "play", line)
    BY <1>9 DEF asked, line
  <2> QED BY <1>1, <2>3, <2>4
<1>10. CASE Request
  <2> DEFINE Digits == {<<49>>, <<50>>}
  <2>1. ASSUME NEW n \in Digits,
               Execute(<<text, n>>, "play", UpToNewline(QuoteArg(text) \o <<Blank>> \o QuoteArg(n)))
        PROVE  Good
    <3>1. n = <<49>> \/ n = <<50>>
      OBVIOUS
    <3>2. 49 \in {49, 50} /\ 50 \in {49, 50}
      OBVIOUS
    <3> QED BY <1>9, <2>1, <3>1, <3>2, Zenon
  <2> QED BY <1>8, <1>10, <2>1, Zenon DEF Request
<1> QED BY <1>4, <1>5, <1>6, <1>7, <1>10 DEF Next

(* What is typed at a prompt or given to ctl is what the service is given:  *)
(* a root as it stands, a title of the library as that album, with the      *)
(* track that was asked for, whatever bytes are in it.                      *)
THEOREM TextArrivesHolds == Spec => []TextArrives
<1>1. TextArrives <=> Arrived(last.meant, last.call)
  BY Zenon DEF TextArrives, Arrived
<1>2. TextArrives' <=> Arrived(last'.meant, last'.call)
  BY Zenon DEF TextArrives, Arrived
<1>3. Init => TextArrives
  <2> SUFFICES ASSUME Init PROVE TextArrives
    OBVIOUS
  <2>1. last.meant = <<>>
    BY DEF Init, Nobody
  <2> QED BY <2>1 DEF TextArrives
<1>4. AnswerInv /\ TextArrives /\ [Next]_vars => TextArrives'
  <2> SUFFICES ASSUME AnswerInv, TextArrives, [Next]_vars PROVE TextArrives'
    OBVIOUS
  <2>1. CASE Next
    BY <1>2, <2>1, StepArrives DEF AnswerInv
  <2>2. CASE UNCHANGED vars
    <3>1. last' = last
      BY <2>2 DEF vars
    <3> QED BY <1>1, <1>2, <3>1
  <2> QED BY <2>1, <2>2
<1> QED BY <1>3, <1>4, AnswerInductive, PTL DEF Spec

-------------------------------------------------------------------------------
(* The path that is scanned                                                 *)

LEMMA CharacterOfOne ==
  ASSUME NEW b, Len(b) = 1, b[1] \in 0..127
  PROVE  IsCharacter(b)
  BY DEF IsCharacter

(* The bytes are integers in plain bounds here: an interval of literals is  *)
(* enumerated by the translation to the prover.                             *)
LEMMA PointOfTwo ==
  ASSUME NEW a \in Int, NEW b \in Int, 194 <= a, a <= 223, 128 <= b, b <= 191
  PROVE  LET p == (a - 192) * 64 + (b - 128) IN 128 <= p /\ p <= 2047
  OBVIOUS

LEMMA PointOfThree ==
  ASSUME NEW a \in Int, NEW b \in Int, NEW c \in Int, 224 <= a, a <= 239, 128 <= b, b <= 191,
         128 <= c, c <= 191, a # 224 \/ b >= 160
  PROVE  LET p == (a - 224) * 4096 + (b - 128) * 64 + (c - 128) IN 2048 <= p /\ p <= 65535
  OBVIOUS

LEMMA CharacterOfTwo ==
  ASSUME NEW b, Len(b) = 2, b[1] \in 194..223, b[2] \in 128..191
  PROVE  IsCharacter(b)
<1>1. /\ b[1] \in Int /\ b[2] \in Int /\ 194 <= b[1] /\ b[1] <= 223 /\ 128 <= b[2] /\ b[2] <= 191
      /\ b[1] \in 192..223
  OBVIOUS
<1>2. \A k \in 2..Len(b) : b[k] \in 128..191
  OBVIOUS
<1>3. CodePoint(b) = (b[1] - 192) * 64 + (b[2] - 128)
  BY DEF CodePoint
<1>4. 128 <= CodePoint(b) /\ CodePoint(b) <= 2047
  BY <1>1, <1>3, PointOfTwo
<1> QED BY <1>1, <1>2, <1>4 DEF IsCharacter

LEMMA CharacterOfThree ==
  ASSUME NEW b, Len(b) = 3, b[1] \in 224..239, b[2] \in 128..191, b[3] \in 128..191,
         ~(b[1] = 224 /\ b[2] < 160)
  PROVE  IsCharacter(b)
<1>1. /\ b[1] \in Int /\ b[2] \in Int /\ b[3] \in Int
      /\ 224 <= b[1] /\ b[1] <= 239 /\ 128 <= b[2] /\ b[2] <= 191 /\ 128 <= b[3] /\ b[3] <= 191
      /\ (b[1] # 224 \/ b[2] >= 160)
  OBVIOUS
<1>2. \A k \in 2..Len(b) : b[k] \in 128..191
  OBVIOUS
<1>3. CodePoint(b) = (b[1] - 224) * 4096 + (b[2] - 128) * 64 + (b[3] - 128)
  BY DEF CodePoint
<1>4. 2048 <= CodePoint(b) /\ CodePoint(b) <= 65535
  BY <1>1, <1>3, PointOfThree
<1> QED BY <1>2, <1>4 DEF IsCharacter

LEMMA CharacterOfFour ==
  ASSUME NEW b, Len(b) = 4, b[1] \in 240..244, b[2] \in 128..191, b[3] \in 128..191, b[4] \in 128..191,
         ~(b[1] = 240 /\ b[2] < 144), ~(b[1] = 244 /\ b[2] > 143)
  PROVE  IsCharacter(b)
<1>1. /\ b[1] \in Int /\ b[2] \in Int /\ b[3] \in Int /\ b[4] \in Int
      /\ 240 <= b[1] /\ b[1] <= 244 /\ 128 <= b[2] /\ b[2] <= 191 /\ 128 <= b[3] /\ b[3] <= 191
      /\ 128 <= b[4] /\ b[4] <= 191
      /\ (b[1] # 240 \/ b[2] >= 144) /\ (b[1] # 244 \/ b[2] <= 143)
  OBVIOUS
<1>2. \A k \in 2..Len(b) : b[k] \in 128..191
  OBVIOUS
<1>3. CodePoint(b) = (b[1] - 240) * 262144 + (b[2] - 128) * 4096 + (b[3] - 128) * 64 + (b[4] - 128)
  BY DEF CodePoint
<1>4. 65536 <= CodePoint(b) /\ CodePoint(b) <= 1114111
  <2>1. PICK w \in Int : w = b[1]
    BY <1>1
  <2>2. PICK x \in Int : x = b[2]
    BY <1>1
  <2>3. PICK y \in Int : y = b[3]
    BY <1>1
  <2>4. PICK z \in Int : z = b[4]
    BY <1>1
  <2>5. /\ 240 <= w /\ w <= 244 /\ 128 <= x /\ x <= 191 /\ 128 <= y /\ y <= 191 /\ 128 <= z /\ z <= 191
        /\ (w # 240 \/ x >= 144) /\ (w # 244 \/ x <= 143)
    BY <1>1, <2>1, <2>2, <2>3, <2>4, SMT
  <2>6. /\ 65536 <= (w - 240) * 262144 + (x - 128) * 4096 + (y - 128) * 64 + (z - 128)
        /\ (w - 240) * 262144 + (x - 128) * 4096 + (y - 128) * 64 + (z - 128) <= 1114111
    BY <2>5, SMT
  <2>7. CodePoint(b) = (w - 240) * 262144 + (x - 128) * 4096 + (y - 128) * 64 + (z - 128)
    BY <1>3, <2>1, <2>2, <2>3, <2>4, SMT
  <2> QED BY <2>6, <2>7, SMT
<1>5. b[1] \in 240..247
  OBVIOUS
<1> QED BY <1>2, <1>4, <1>5 DEF IsCharacter

(* What isValidUtf8() takes for a character is one.                         *)
LEMMA Lengths ==
  ASSUME NEW s, NEW i
  PROVE  LET c == s[i]
         IN  \/ CharacterLength(s, i) = 1 /\ c <= 127
             \/ CharacterLength(s, i) = 2 /\ c \in 194..223 /\ Continues(s, i, 1)
             \/ CharacterLength(s, i) = 3 /\ c \in 224..239 /\ Continues(s, i, 2) /\ ~(c = 224 /\ s[i + 1] < 160)
             \/ CharacterLength(s, i) = 4 /\ c \in 240..244 /\ Continues(s, i, 3)
                  /\ ~(c = 240 /\ s[i + 1] < 144) /\ ~(c = 244 /\ s[i + 1] > 143)
             \/ CharacterLength(s, i) = 0
<1> DEFINE c == s[i]
           One == c <= 127
           Two == c \in 192..223 /\ Continues(s, i, 1) /\ c >= 194
           Three == c \in 224..239 /\ Continues(s, i, 2) /\ ~(c = 224 /\ s[i + 1] < 160)
           Four == c \in 240..247 /\ Continues(s, i, 3) /\ ~(c = 240 /\ s[i + 1] < 144)
                     /\ c <= 244 /\ ~(c = 244 /\ s[i + 1] > 143)
<1>1. CharacterLength(s, i) = CASE One -> 1 [] Two -> 2 [] Three -> 3 [] Four -> 4 [] OTHER -> 0
  BY Zenon DEF CharacterLength
<1>2. /\ Two => c \in 194..223 /\ Continues(s, i, 1)
      /\ Three => c \in 224..239 /\ Continues(s, i, 2) /\ ~(c = 224 /\ s[i + 1] < 160)
      /\ Four => c \in 240..244 /\ Continues(s, i, 3) /\ ~(c = 240 /\ s[i + 1] < 144) /\ ~(c = 244 /\ s[i + 1] > 143)
  OBVIOUS
<1>3. /\ ~(One /\ Two) /\ ~(One /\ Three) /\ ~(One /\ Four) /\ ~(Two /\ Three) /\ ~(Two /\ Four) /\ ~(Three /\ Four)
  OBVIOUS
<1> HIDE DEF One, Two, Three, Four
<1>4. \/ CharacterLength(s, i) = 1 /\ One
      \/ CharacterLength(s, i) = 2 /\ Two
      \/ CharacterLength(s, i) = 3 /\ Three
      \/ CharacterLength(s, i) = 4 /\ Four
      \/ CharacterLength(s, i) = 0
  BY <1>1, <1>3
<1> QED BY <1>2, <1>4 DEF One

LEMMA Characters ==
  ASSUME NEW s \in Text, NEW i \in 1..Len(s), CharacterLength(s, i) # 0
  PROVE  /\ CharacterLength(s, i) \in 1..4 /\ i + CharacterLength(s, i) \in (i + 1)..(Len(s) + 1)
         /\ IsCharacter(SubSeq(s, i, i + CharacterLength(s, i) - 1))
<1> DEFINE c == s[i]
           L == CharacterLength(s, i)
<1>1. PICK n \in Nat : n = Len(s)
  BY TextFacts
<1>2. \A k \in 1..n : s[k] \in 0..255
  BY <1>1, TextFacts
<1>3. ASSUME NEW m \in 1..4, i + m - 1 <= n
      PROVE  LET b == SubSeq(s, i, i + m - 1)
             IN  Len(b) = m /\ \A k \in 1..m : b[k] = s[i + k - 1]
  <2>1. PICK e \in Int : e = i + m - 1 /\ e - i + 1 = m
    BY <1>1
  <2>2. i \in Int /\ 1 <= i /\ i <= e + 1 /\ e <= Len(s)
    BY <1>1, <1>3, <2>1
  <2>3. /\ Len(SubSeq(s, i, e)) = e - i + 1
        /\ \A k \in 1..(e - i + 1) : SubSeq(s, i, e)[k] = s[i + k - 1]
    BY <2>2, TextSlice
  <2> QED BY <2>1, <2>3
<1>4. CASE L = 1 /\ c <= 127
  <2> DEFINE b == SubSeq(s, i, i + 1 - 1)
  <2>1. 1 \in 1..4 /\ i + 1 - 1 <= n /\ i \in 1..n
    BY <1>1
  <2>2. Len(b) = 1 /\ b[1] = s[i + 1 - 1]
    BY <1>3, <2>1
  <2>3. PICK v \in 0..255 : v = s[i]
    BY <1>2, <2>1
  <2>4. b[1] = v
    BY <2>1, <2>2, <2>3
  <2> HIDE DEF b
  <2>5. v <= 127
    BY <1>4, <2>3
  <2> HIDE DEF c, L
  <2>6. v \in 0..127
    BY <2>5
  <2>7. IsCharacter(b)
    BY <2>2, <2>4, <2>6, CharacterOfOne
  <2> QED BY <1>1, <1>4, <2>7 DEF b, L
<1>5. CASE L = 2 /\ c \in 194..223 /\ Continues(s, i, 1)
  <2> DEFINE b == SubSeq(s, i, i + 2 - 1)
  <2>1. i + 1 <= n /\ s[i + 1] \in 128..191
    <3>1. i + 1 \in (i + 1)..(i + 1)
      BY <1>1
    <3> QED BY <1>1, <1>5, <3>1 DEF Continues
  <2>2. Len(b) = 2 /\ b[1] = s[i] /\ b[2] = s[i + 1]
    <3>1. 2 \in 1..4 /\ i + 2 - 1 <= n /\ 1 \in 1..2 /\ 2 \in 1..2 /\ i + 1 - 1 = i /\ i + 2 - 1 = i + 1
      BY <1>1, <2>1
    <3>2. Len(b) = 2 /\ b[1] = s[i + 1 - 1] /\ b[2] = s[i + 2 - 1]
      BY <1>3, <3>1
    <3> QED BY <3>1, <3>2
  <2> HIDE DEF b, L
  <2>3. b[1] \in 194..223 /\ b[2] \in 128..191
    BY <1>5, <2>1, <2>2
  <2>4. IsCharacter(b)
    BY <2>2, <2>3, CharacterOfTwo
  <2> QED BY <1>1, <1>5, <2>1, <2>4 DEF b, L
<1>6. CASE L = 3 /\ c \in 224..239 /\ Continues(s, i, 2) /\ ~(c = 224 /\ s[i + 1] < 160)
  <2> DEFINE b == SubSeq(s, i, i + 3 - 1)
  <2>1. i + 2 <= n /\ s[i + 1] \in 128..191 /\ s[i + 2] \in 128..191
    <3>1. i + 1 \in (i + 1)..(i + 2) /\ i + 2 \in (i + 1)..(i + 2)
      BY <1>1
    <3> QED BY <1>1, <1>6, <3>1 DEF Continues
  <2>2. Len(b) = 3 /\ b[1] = s[i] /\ b[2] = s[i + 1] /\ b[3] = s[i + 2]
    <3>1. /\ 3 \in 1..4 /\ i + 3 - 1 <= n /\ 1 \in 1..3 /\ 2 \in 1..3 /\ 3 \in 1..3
          /\ i + 1 - 1 = i /\ i + 2 - 1 = i + 1 /\ i + 3 - 1 = i + 2
      BY <1>1, <2>1
    <3>2. Len(b) = 3 /\ b[1] = s[i + 1 - 1] /\ b[2] = s[i + 2 - 1] /\ b[3] = s[i + 3 - 1]
      BY <1>3, <3>1
    <3> QED BY <3>1, <3>2
  <2> HIDE DEF b, L
  <2>3. b[1] \in 224..239 /\ b[2] \in 128..191 /\ b[3] \in 128..191 /\ ~(b[1] = 224 /\ b[2] < 160)
    BY <1>6, <2>1, <2>2
  <2>4. IsCharacter(b)
    BY <2>2, <2>3, CharacterOfThree
  <2> QED BY <1>1, <1>6, <2>1, <2>4 DEF b, L
<1>7. CASE L = 4 /\ c \in 240..244 /\ Continues(s, i, 3)
             /\ ~(c = 240 /\ s[i + 1] < 144) /\ ~(c = 244 /\ s[i + 1] > 143)
  <2> DEFINE b == SubSeq(s, i, i + 4 - 1)
  <2>1. i + 3 <= n /\ s[i + 1] \in 128..191 /\ s[i + 2] \in 128..191 /\ s[i + 3] \in 128..191
    <3>1. i + 1 \in (i + 1)..(i + 3) /\ i + 2 \in (i + 1)..(i + 3) /\ i + 3 \in (i + 1)..(i + 3)
      BY <1>1
    <3> QED BY <1>1, <1>7, <3>1 DEF Continues
  <2>2. Len(b) = 4 /\ b[1] = s[i] /\ b[2] = s[i + 1] /\ b[3] = s[i + 2] /\ b[4] = s[i + 3]
    <3>1. /\ 4 \in 1..4 /\ i + 4 - 1 <= n /\ 1 \in 1..4 /\ 2 \in 1..4 /\ 3 \in 1..4
          /\ i + 1 - 1 = i /\ i + 2 - 1 = i + 1 /\ i + 3 - 1 = i + 2 /\ i + 4 - 1 = i + 3
      BY <1>1, <2>1
    <3>2. Len(b) = 4 /\ b[1] = s[i + 1 - 1] /\ b[2] = s[i + 2 - 1] /\ b[3] = s[i + 3 - 1] /\ b[4] = s[i + 4 - 1]
      BY <1>3, <3>1
    <3> QED BY <3>1, <3>2
  <2> HIDE DEF b, L
  <2>3. /\ b[1] \in 240..244 /\ b[2] \in 128..191 /\ b[3] \in 128..191 /\ b[4] \in 128..191
        /\ ~(b[1] = 240 /\ b[2] < 144) /\ ~(b[1] = 244 /\ b[2] > 143)
    BY <1>7, <2>1, <2>2
  <2>4. IsCharacter(b)
    BY <2>2, <2>3, CharacterOfFour
  <2> QED BY <1>1, <1>7, <2>1, <2>4 DEF b, L
<1> HIDE DEF L, c
<1>8. \/ L = 1 /\ c <= 127
      \/ L = 2 /\ c \in 194..223 /\ Continues(s, i, 1)
      \/ L = 3 /\ c \in 224..239 /\ Continues(s, i, 2) /\ ~(c = 224 /\ s[i + 1] < 160)
      \/ L = 4 /\ c \in 240..244 /\ Continues(s, i, 3)
           /\ ~(c = 240 /\ s[i + 1] < 144) /\ ~(c = 244 /\ s[i + 1] > 143)
  <2>1. L # 0
    BY DEF L
  <2> QED BY <2>1, Lengths, Zenon DEF L, c
<1> QED BY <1>4, <1>5, <1>6, <1>7, <1>8

(* What isValidUtf8() goes through from a place it has reached to the end.  *)
LEMMA ValidReads ==
  ASSUME NEW s \in Text, IsValidUtf8(s)
  PROVE  \E T \in SUBSET (1..(Len(s) + 1)) :
           /\ 1 \in T
           /\ \A i \in T : i <= Len(s) =>
                CharacterLength(s, i) # 0 /\ i + CharacterLength(s, i) \in T
<1> DEFINE n == Len(s)
<1>1. n \in Nat /\ n + 1 \in Nat
  BY TextFacts
<1> DEFINE L(i) == CharacterLength(s, i)
           Reads(from, i) == IF i > n THEN TRUE ELSE L(i) # 0 /\ from[i + L(i)]
           S == {0, 1}
           next == [i \in 1..(n + 1) |-> IF i > n THEN 0 ELSE IF L(i) = 0 THEN 0 ELSE i + L(i)]
           base == [i \in 1..(n + 1) |-> IF i > n THEN 1 ELSE 0]
           G == [i \in 1..(n + 1) |-> [x \in S |-> x]]
<1>2. ASSUME NEW i \in 1..n, L(i) # 0 PROVE i + L(i) \in (i + 1)..(n + 1)
  BY <1>2, Characters
<1> HIDE DEF n
<1> USE <1>1
<1>3. ASSUME NEW i \in 1..(n + 1)
      PROVE  /\ next[i] \in 0..(n + 1) /\ (next[i] = 0 \/ i < next[i])
             /\ i > n => next[i] = 0 /\ base[i] = 1
             /\ ~(i > n) => i \in 1..n /\ base[i] = 0 /\ next[i] = IF L(i) = 0 THEN 0 ELSE i + L(i)
  <2>1. CASE i > n
    BY <2>1
  <2>2. CASE i <= n
    <3>1. i \in 1..n /\ ~(i > n)
      BY <2>2
    <3>2. CASE L(i) = 0
      BY <3>1, <3>2
    <3>3. CASE L(i) # 0
      <4>1. i + L(i) \in (i + 1)..(n + 1)
        BY <1>2, <3>1, <3>3
      <4> HIDE DEF L
      <4> QED BY <3>1, <3>3, <4>1
    <3> QED BY <3>2, <3>3
  <2> QED BY <2>1, <2>2
<1> HIDE DEF L
<1>4. PICK f : Backward(f, 1, n + 1, S, next, base, G)
  <2>1. next = [i \in 1..(n + 1) |-> next[i]] /\ base \in [1..(n + 1) -> S] /\ G \in [1..(n + 1) -> [S -> S]]
    OBVIOUS
  <2> HIDE DEF S, G, next, base
  <2>2. next \in [1..(n + 1) -> 0..(n + 1)] /\ \A i \in 1..(n + 1) : next[i] = 0 \/ i < next[i]
    BY <1>3, <2>1
  <2> QED BY <1>1, <2>1, <2>2, BackwardRecursion
<1> DEFINE h == [i \in 1..(n + 1) |-> f[i] = 1]
<1>5. ASSUME NEW i \in 1..(n + 1) PROVE h[i] = Reads(h, i)
  <2>1. f[i] = IF next[i] = 0 THEN base[i] ELSE G[i][f[next[i]]]
    <3> HIDE DEF S, G, next, base
    <3> QED BY <1>4 DEF Backward
  <2>2. CASE i > n
    <3>1. f[i] = 1
      BY <1>3, <2>1, <2>2
    <3> QED BY <2>2, <3>1
  <2>3. CASE ~(i > n) /\ L(i) = 0
    <3>1. f[i] = 0
      BY <1>3, <2>1, <2>3
    <3>2. f[i] # 1
      BY <3>1
    <3> QED BY <2>3, <3>2, Zenon
  <2>4. CASE ~(i > n) /\ L(i) # 0
    <3>1. i + L(i) \in 1..(n + 1) /\ i + L(i) # 0
      <4>1. i + L(i) \in (i + 1)..(n + 1)
        BY <1>2, <1>3, <2>4
      <4> QED BY <4>1
    <3>2. f[i + L(i)] \in S
      <4> HIDE DEF S, G, next, base
      <4> QED BY <1>4, <3>1 DEF Backward
    <3>3. f[i] = G[i][f[i + L(i)]]
      <4>1. next[i] = i + L(i) /\ next[i] # 0
        BY <1>3, <2>4, <3>1
      <4> HIDE DEF S, G, next, base
      <4> QED BY <2>1, <4>1
    <3>4. f[i] = f[i + L(i)]
      <4> HIDE DEF S, next, base
      <4> QED BY <3>2, <3>3
    <3>5. h[i + L(i)] = (f[i + L(i)] = 1) /\ h[i] = (f[i] = 1)
      BY <3>1, Zenon
    <3> HIDE DEF h
    <3> QED BY <2>4, <3>4, <3>5, Zenon
  <2> QED BY <2>2, <2>3, <2>4
<1> DEFINE from == CHOOSE g : g = [i \in 1..(n + 1) |-> Reads(g, i)]
<1>6. from = [i \in 1..(n + 1) |-> Reads(from, i)]
  <2>1. h = [i \in 1..(n + 1) |-> Reads(h, i)]
    <3> DEFINE k == [i \in 1..(n + 1) |-> Reads(h, i)]
    <3>1. \A i \in 1..(n + 1) : h[i] = k[i]
      BY <1>5, Zenon
    <3>2. h = [i \in 1..(n + 1) |-> h[i]] /\ k = [i \in 1..(n + 1) |-> k[i]]
      BY Zenon
    <3> HIDE DEF h, k
    <3>3. h = k
      BY <3>1, <3>2
    <3> QED BY <3>3 DEF k
  <2> HIDE DEF h, Reads
  <2> QED BY <2>1, Zenon
<1>7. from[1]
  BY Zenon DEF IsValidUtf8, L, n
<1> HIDE DEF from
<1> DEFINE T == {i \in 1..(n + 1) : from[i]}
<1>8. ASSUME NEW i \in T, i <= n PROVE L(i) # 0 /\ i + L(i) \in T
  <2>1. from[i] = Reads(from, i) /\ from[i] /\ i \in 1..(n + 1)
    BY <1>6, Zenon
  <2>2. ~(i > n) /\ i \in 1..n
    BY <1>8, <2>1
  <2>3. L(i) # 0 /\ from[i + L(i)]
    BY <2>1, <2>2, Zenon
  <2>4. i + L(i) \in 1..(n + 1)
    <3>1. i + L(i) \in (i + 1)..(n + 1)
      BY <1>2, <2>2, <2>3
    <3> QED BY <2>2, <3>1
  <2> QED BY <2>3, <2>4
<1>9. 1 \in T
  <2>1. 1 \in 1..(n + 1)
    BY <1>1
  <2> QED BY <1>7, <2>1, Zenon
<1>10. T \in SUBSET (1..(n + 1))
  OBVIOUS
<1> HIDE DEF T
<1> QED BY <1>8, <1>9, <1>10 DEF L, n

(* E are the ends of characters that the bytes from i on fall into.         *)
Divides(E, s, i) ==
  /\ E \subseteq i..Len(s)
  /\ i <= Len(s) => Len(s) \in E
  /\ \A e \in E : \E b \in i..e :
       /\ IsCharacter(SubSeq(s, b, e))
       /\ b = i \/ b - 1 \in E
       /\ \A f \in E : f < e => f < b

LEMMA ValidDivides ==
  ASSUME NEW s \in Text, IsValidUtf8(s)
  PROVE  \E E : Divides(E, s, 1)
<1> DEFINE n == Len(s)
<1>1. n \in Nat /\ n + 1 \in Nat
  BY TextFacts
<1>2. PICK T \in SUBSET (1..(n + 1)) :
        1 \in T /\ \A i \in T : i <= n => CharacterLength(s, i) # 0 /\ i + CharacterLength(s, i) \in T
  BY ValidReads
<1>3. ASSUME NEW i \in T, i <= n
      PROVE  \E j \in T : j \in (i + 1)..(n + 1) /\ IsCharacter(SubSeq(s, i, j - 1))
  <2> DEFINE j == i + CharacterLength(s, i)
  <2>1. i \in 1..n
    BY <1>1, <1>3
  <2>2. CharacterLength(s, i) # 0 /\ j \in T
    BY <1>2, <1>3
  <2>3. j \in (i + 1)..(n + 1) /\ IsCharacter(SubSeq(s, i, j - 1))
    BY <2>1, <2>2, Characters
  <2> QED BY <2>2, <2>3
<1> DEFINE D == {i \in 0..(n + 1) : i \in T => \E E : Divides(E, s, i)}
<1>4. ASSUME NEW i \in 0..(n + 1), \A j \in (i + 1)..(n + 1) : j \in D PROVE i \in D
  <2> SUFFICES ASSUME i \in T PROVE \E E : Divides(E, s, i)
    OBVIOUS
  <2>1. CASE i > n
    <3>1. Divides({}, s, i)
      BY <1>1, <2>1 DEF Divides
    <3> QED BY <3>1
  <2>2. CASE i <= n
    <3>1. PICK j \in T : j \in (i + 1)..(n + 1) /\ IsCharacter(SubSeq(s, i, j - 1))
      BY <1>3, <2>2
    <3>2. PICK E : Divides(E, s, j)
      BY <1>4, <3>1
    <3> HIDE DEF n
    <3>3. /\ E \subseteq j..n /\ (j <= n => n \in E)
          /\ \A e \in E : \E b \in j..e : /\ IsCharacter(SubSeq(s, b, e))
                                          /\ b = j \/ b - 1 \in E
                                          /\ \A f \in E : f < e => f < b
      BY <3>2 DEF Divides, n
    <3> DEFINE F == E \cup {j - 1}
    <3>4. i \in 0..n /\ j \in Int /\ i + 1 <= j /\ j <= n + 1
      BY <1>1, <2>2, <3>1
    <3>5. F \subseteq i..n /\ n \in F
      BY <1>1, <3>3, <3>4
    <3>6. ASSUME NEW e \in F
          PROVE  \E b \in i..e : /\ IsCharacter(SubSeq(s, b, e))
                                 /\ b = i \/ b - 1 \in F
                                 /\ \A f \in F : f < e => f < b
      <4>1. CASE e \in E
        <5>1. PICK b \in j..e : /\ IsCharacter(SubSeq(s, b, e))
                                /\ b = j \/ b - 1 \in E
                                /\ \A f \in E : f < e => f < b
          BY <3>3, <4>1
        <5>2. e \in Int /\ b \in i..e
          BY <3>4, <3>5
        <5>3. b = i \/ b - 1 \in F
          BY <5>1
        <5>4. j - 1 < b
          BY <3>4, <5>1, <5>2
        <5>5. \A f \in F : f < e => f < b
          BY <5>1, <5>4
        <5> QED BY <5>1, <5>2, <5>3, <5>5
      <4>2. CASE e = j - 1
        <5>1. i \in i..e
          BY <3>4, <4>2
        <5>2. \A f \in F : ~(f < e)
          BY <3>3, <3>4, <4>2
        <5> QED BY <3>1, <4>2, <5>1, <5>2
      <4> QED BY <4>1, <4>2
    <3> HIDE DEF F
    <3>7. Divides(F, s, i)
      BY <3>5, <3>6 DEF Divides, n
    <3> QED BY <3>7
  <2> QED BY <1>1, <2>1, <2>2
<1>5. 1 \in D
  <2>1. 1 \in 0..(n + 1)
    BY <1>1
  <2> HIDE DEF D, n
  <2> QED BY <1>1, <1>4, <2>1, DownFrom
<1> QED BY <1>2, <1>5

(* A text may be cut before a slash: no character goes on with one.         *)
LEMMA CharacterGoesOn ==
  ASSUME NEW b, IsCharacter(b), NEW k \in 2..Len(b)
  PROVE  b[k] # Slash
<1>1. PICK v \in 128..191 : v = b[k]
  BY DEF IsCharacter
<1>2. v # 47
  OBVIOUS
<1> QED BY <1>1, <1>2 DEF Slash

LEMMA EndsBeforeSlash ==
  ASSUME NEW s \in Text, NEW E, Divides(E, s, 1), NEW m \in 1..Len(s),
         m = Len(s) \/ s[m + 1] = Slash
  PROVE  m \in E
<1>1. PICK n \in Nat : n = Len(s)
  BY TextFacts
<1>2. /\ E \subseteq 1..n /\ n \in E
      /\ \A e \in E : \E b \in 1..e : /\ IsCharacter(SubSeq(s, b, e))
                                      /\ b = 1 \/ b - 1 \in E
                                      /\ \A f \in E : f < e => f < b
  BY <1>1 DEF Divides
<1>3. CASE m = n
  BY <1>2, <1>3
<1>4. CASE m < n /\ s[m + 1] = Slash
  <2> DEFINE After == {e \in E : m < e}
  <2>1. After \subseteq 1..n /\ After # {}
    BY <1>2, <1>4
  <2>2. PICK e \in After : \A f \in After : e <= f
    <3> HIDE DEF After
    <3> QED BY <2>1, Ends
  <2>3. e \in E /\ e \in 1..n /\ m + 1 <= e /\ \A f \in E : m < f => e <= f
    BY <1>1, <1>2, <2>2
  <2>4. PICK b \in 1..e : IsCharacter(SubSeq(s, b, e)) /\ (b = 1 \/ b - 1 \in E)
    BY <1>2, <2>3
  <2> HIDE DEF After
  <2>5. m + 1 <= b
    <3> SUFFICES ASSUME b <= m PROVE FALSE
      BY <2>3, <2>4
    <3>1. b \in Int /\ e \in Int /\ 1 <= b /\ b <= e + 1 /\ e <= Len(s)
      BY <1>1, <2>3, <2>4
    <3>2. /\ Len(SubSeq(s, b, e)) = e - b + 1
          /\ \A i \in 1..(e - b + 1) : SubSeq(s, b, e)[i] = s[b + i - 1]
      BY <3>1, TextSlice
    <3>3. PICK k \in 2..(e - b + 1) : b + k - 1 = m + 1
      <4>1. m + 2 - b \in 2..(e - b + 1) /\ b + (m + 2 - b) - 1 = m + 1
        BY <2>3, <3>1
      <4> QED BY <4>1
    <3>4. SubSeq(s, b, e)[k] = Slash
      <4>1. k \in 1..(e - b + 1)
        BY <3>3
      <4> QED BY <1>4, <3>2, <3>3, <4>1
    <3>5. k \in 2..Len(SubSeq(s, b, e))
      BY <3>2, <3>3
    <3> QED BY <2>4, <3>4, <3>5, CharacterGoesOn
  <2>6. b - 1 \in E /\ b \in 1..e
    BY <2>4, <2>5
  <2>7. b - 1 = m
    <3>1. ~(m < b - 1)
      BY <2>3, <2>6
    <3> QED BY <2>3, <2>5, <2>6, <3>1
  <2> QED BY <2>6, <2>7
<1> QED BY <1>1, <1>3, <1>4

LEMMA PrefixWellFormed ==
  ASSUME NEW s \in Text, IsValidUtf8(s), NEW m \in 1..Len(s), m = Len(s) \/ s[m + 1] = Slash
  PROVE  WellFormed(SubSeq(s, 1, m))
<1>1. PICK n \in Nat : n = Len(s)
  BY TextFacts
<1>2. PICK E : Divides(E, s, 1)
  BY ValidDivides
<1>3. m \in E
  BY <1>2, EndsBeforeSlash
<1>4. /\ E \subseteq 1..n
      /\ \A e \in E : \E b \in 1..e : /\ IsCharacter(SubSeq(s, b, e))
                                      /\ b = 1 \/ b - 1 \in E
                                      /\ \A f \in E : f < e => f < b
  BY <1>1, <1>2 DEF Divides
<1> DEFINE p == SubSeq(s, 1, m)
           ends == {e \in E : e <= m}
<1>5. p \in Text /\ Len(p) = m /\ \A i \in 1..m : p[i] = s[i]
  <2>1. 1 \in Int /\ m \in Int /\ 1 <= 1 /\ 1 <= m + 1 /\ m <= Len(s) /\ m - 1 + 1 = m
    BY <1>1
  <2>2. p \in Text /\ Len(p) = m - 1 + 1 /\ \A i \in 1..(m - 1 + 1) : p[i] = s[1 + i - 1]
    BY <2>1, TextSlice
  <2> HIDE DEF p
  <2> QED BY <2>1, <2>2
<1>6. ends \in SUBSET (1..m) /\ m \in ends
  <2>1. \A e \in ends : e \in 1..n /\ e <= m
    BY <1>4
  <2>2. ends \subseteq 1..m
    BY <1>1, <2>1
  <2>3. m <= m
    BY <1>1
  <2> QED BY <1>3, <2>2, <2>3
<1> HIDE DEF p
<1> DEFINE Behind(before) == IF before = {} THEN 1 ELSE 1 + CHOOSE f \in before : \A g \in before : g <= f
<1>7. ASSUME NEW e \in ends
      PROVE  IsCharacter(SubSeq(p, Behind({f \in ends : f < e}), e))
  <2> DEFINE before == {f \in ends : f < e}
  <2>1. PICK b \in 1..e : /\ IsCharacter(SubSeq(s, b, e))
                          /\ b = 1 \/ b - 1 \in E
                          /\ \A f \in E : f < e => f < b
    BY <1>4
  <2>2. e \in 1..m /\ b \in 1..m
    BY <1>6
  <2>3. b # 1 => b - 1 \in before
    BY <2>1, <2>2
  <2>4. \A f \in before : f \in 1..m /\ f <= b - 1
    BY <1>6, <2>1, <2>2
  <2>5. Behind(before) = b
    <3> HIDE DEF before
    <3>1. CASE before = {}
      BY <2>3, <3>1
    <3>2. CASE before # {}
      <4>1. b - 1 \in before /\ \A g \in before : g <= b - 1
        <5>1. b # 1
          BY <2>2, <2>4, <3>2
        <5> QED BY <2>3, <2>4, <5>1
      <4> DEFINE x == CHOOSE f \in before : \A g \in before : g <= f
      <4>2. x \in before /\ \A g \in before : g <= x
        BY <4>1, Zenon
      <4>3. Behind(before) = 1 + x
        BY <3>2, Zenon
      <4> HIDE DEF x, Behind
      <4>4. x = b - 1
        BY <2>2, <2>4, <4>1, <4>2
      <4> QED BY <2>2, <4>3, <4>4
    <3> QED BY <3>1, <3>2
  <2>6. SubSeq(p, b, e) = SubSeq(s, b, e)
    <3>1. b \in Int /\ e \in Int /\ 1 <= b /\ b <= e + 1 /\ e <= Len(s) /\ e <= Len(p)
      BY <1>1, <1>5, <2>2
    <3>2. /\ SubSeq(s, b, e) \in Text /\ Len(SubSeq(s, b, e)) = e - b + 1
          /\ \A i \in 1..(e - b + 1) : SubSeq(s, b, e)[i] = s[b + i - 1]
      BY <3>1, TextSlice
    <3>3. /\ SubSeq(p, b, e) \in Text /\ Len(SubSeq(p, b, e)) = e - b + 1
          /\ \A i \in 1..(e - b + 1) : SubSeq(p, b, e)[i] = p[b + i - 1]
      BY <1>5, <3>1, TextSlice
    <3>4. \A i \in 1..(e - b + 1) : p[b + i - 1] = s[b + i - 1]
      <4>1. \A i \in 1..(e - b + 1) : b + i - 1 \in 1..m
        BY <2>2
      <4> QED BY <1>5, <4>1
    <3>5. \A i \in 1..(e - b + 1) : SubSeq(p, b, e)[i] = SubSeq(s, b, e)[i]
      BY <3>2, <3>3, <3>4
    <3> DEFINE u == SubSeq(s, b, e)
               v == SubSeq(p, b, e)
    <3>6. u \in Seq(0..255) /\ v \in Seq(0..255) /\ Len(u) = Len(v) /\ \A i \in 1..Len(v) : v[i] = u[i]
      BY <3>2, <3>3, <3>5 DEF Text
    <3> HIDE DEF u, v
    <3>7. v = u
      BY <3>6, SeqEqual
    <3> QED BY <3>7 DEF u, v
  <2> HIDE DEF before, Behind
  <2> QED BY <2>1, <2>5, <2>6 DEF before
<1> HIDE DEF ends
<1>8. WellFormed(p)
  BY <1>5, <1>6, <1>7, Zenon DEF WellFormed
<1> QED BY <1>8 DEF p

(* What Terminal asks of a path that is scanned.                            *)
Sound(p) == p # <<>> => /\ p[1] = Slash /\ WellFormed(p)
                        /\ Len(p) > 1 => p[Len(p)] # Slash

LEMMA Normalized ==
  ASSUME NEW s \in Text, s # <<>>, IsValidUtf8(s), ~Holds(s, ShellMetacharacters), s[1] = Slash
  PROVE  Sound(NormalizePath(s))
<1>1. PICK n \in Nat : n = Len(s)
  BY TextFacts
<1>2. n \in Nat \ {0}
  <2>1. s \in Seq(0..255)
    BY DEF Text
  <2> QED BY <1>1, <2>1, EmptySeq
<1> DEFINE kept == {i \in 1..n : i = 1 \/ s[i] \notin {Slash, Backslash}}
<1>3. 1 \in kept /\ kept \subseteq 1..n
  BY <1>2
<1> DEFINE m == CHOOSE i \in kept : \A j \in kept : j <= i
<1>4. m \in kept /\ \A j \in kept : j <= m
  <2> HIDE DEF kept
  <2>1. \E i \in kept : \A j \in kept : j <= i
    BY <1>1, <1>3, Ends
  <2> QED BY <2>1, Zenon
<1>5. NormalizePath(s) = SubSeq(s, 1, m)
  BY <1>1, Zenon DEF NormalizePath
<1> HIDE DEF m
<1>6. m \in 1..n
  BY <1>3, <1>4
<1>7. m = n \/ s[m + 1] = Slash
  <2> SUFFICES ASSUME m # n PROVE s[m + 1] = Slash
    OBVIOUS
  <2>1. m + 1 \in 1..n /\ m + 1 # 1 /\ ~(m + 1 <= m)
    BY <1>1, <1>6
  <2>2. s[m + 1] \in {Slash, Backslash}
    BY <1>4, <2>1
  <2>3. s[m + 1] # Backslash
    <3>1. Backslash \in ShellMetacharacters
      BY DEF Backslash, ShellMetacharacters
    <3> QED BY <1>1, <2>1, <3>1 DEF Holds
  <2> QED BY <2>2, <2>3
<1>8. m = 1 \/ s[m] # Slash
  BY <1>4
<1> HIDE DEF kept
<1>9. WellFormed(SubSeq(s, 1, m))
  BY <1>1, <1>6, <1>7, PrefixWellFormed
<1>10. Len(SubSeq(s, 1, m)) = m /\ \A i \in 1..m : SubSeq(s, 1, m)[i] = s[i]
  <2>1. 1 \in Int /\ m \in Int /\ 1 <= 1 /\ 1 <= m + 1 /\ m <= Len(s) /\ m - 1 + 1 = m
    BY <1>1, <1>6
  <2>2. Len(SubSeq(s, 1, m)) = m - 1 + 1 /\ \A i \in 1..(m - 1 + 1) : SubSeq(s, 1, m)[i] = s[1 + i - 1]
    BY <2>1, TextSlice
  <2> DEFINE p == SubSeq(s, 1, m)
  <2> HIDE DEF p
  <2>3. Len(p) = m /\ \A i \in 1..m : p[i] = s[i]
    BY <2>1, <2>2 DEF p
  <2> QED BY <2>3 DEF p
<1> DEFINE p == SubSeq(s, 1, m)
<1>11. p[1] = Slash /\ (Len(p) > 1 => p[Len(p)] # Slash)
  <2> HIDE DEF p
  <2>1. Len(p) = m /\ p[1] = s[1] /\ p[m] = s[m]
    <3>1. 1 \in 1..m /\ m \in 1..m
      BY <1>6
    <3> QED BY <1>10, <3>1 DEF p
  <2> QED BY <1>6, <1>8, <2>1
<1> HIDE DEF p
<1>12. NormalizePath(s) = p /\ WellFormed(p)
  BY <1>5, <1>9 DEF p
<1> QED BY <1>11, <1>12, Zenon DEF Sound

LEMMA CheckPasses ==
  ASSUME NEW s, NEW there
  PROVE  /\ Fails("EmptyPath", s, there) <=> s = <<>>
         /\ Fails("ContainsShellMetacharacters", s, there) <=> Holds(s, ShellMetacharacters)
         /\ Fails("InvalidUtf8", s, there) <=> ~IsValidUtf8(s)
         /\ Fails("Relative", s, there) <=> s = <<>> \/ s[1] # Slash
         /\ Fails("None", s, there) <=> TRUE
<1>1. Fails("EmptyPath", s, there) = (s = <<>>)
  BY DEF Fails
<1>2. Fails("ContainsShellMetacharacters", s, there) = Holds(s, ShellMetacharacters)
  BY DEF Fails
<1>3. Fails("InvalidUtf8", s, there) = ~IsValidUtf8(s)
  BY DEF Fails
<1>4. Fails("Relative", s, there) = (s = <<>> \/ s[1] # Slash)
  BY DEF Fails
<1>5. Fails("None", s, there) = TRUE
  BY DEF Fails
<1> QED BY <1>1, <1>2, <1>3, <1>4, <1>5, Zenon

LEMMA Validated ==
  ASSUME NEW input \in Text, NEW there
  PROVE  Sound(Validate(input, there).path)
<1> DEFINE s == Trim(input)
           At(e, i) == /\ Checks[i] = e /\ Fails(e, s, there)
                       /\ \A j \in 1..(i - 1) : ~Fails(Checks[j], s, there)
           P(e) == \E i \in 1..Len(Checks) : At(e, i)
           error == CHOOSE e \in {Checks[i] : i \in 1..Len(Checks)} : P(e)
           path == IF error = "None" THEN NormalizePath(s) ELSE <<>>
<1>1. Validate(input, there) = [error |-> error, path |-> path]
  BY Zenon DEF Validate
<1>2. Validate(input, there).path = path
  <2> HIDE DEF error, path
  <2> QED BY <1>1
<1>3. /\ Len(Checks) = 12 /\ Checks[12] = "None"
      /\ Checks[1] = "EmptyPath" /\ Checks[6] = "ContainsShellMetacharacters"
      /\ Checks[7] = "InvalidUtf8" /\ Checks[8] = "Relative"
      /\ \A i \in 1..12 : Checks[i] = "None" => i = 12
  BY DEF Checks
<1> DEFINE failing == {i \in 1..12 : Fails(Checks[i], s, there)}
<1>4. PICK k \in failing : \A j \in failing : k <= j
  <2>1. 12 \in failing
    BY <1>3, CheckPasses
  <2>2. 12 \in Nat /\ failing \subseteq 1..12
    OBVIOUS
  <2> HIDE DEF failing
  <2> QED BY <2>1, <2>2, Ends
<1>5. k \in 1..12 /\ Fails(Checks[k], s, there) /\ \A j \in 1..(k - 1) : ~Fails(Checks[j], s, there)
  <2>1. k \in 1..12 /\ Fails(Checks[k], s, there)
    OBVIOUS
  <2>2. ASSUME NEW j \in 1..(k - 1) PROVE ~Fails(Checks[j], s, there)
    <3>1. j \in 1..12 /\ ~(k <= j)
      BY <2>1
    <3> QED BY <1>4, <3>1
  <2> QED BY <2>1, <2>2
<1> HIDE DEF failing, s
<1>6. P(error)
  <2> DEFINE e == Checks[k]
  <2>1. e \in {Checks[i] : i \in 1..Len(Checks)} /\ At(e, k)
    BY <1>3, <1>5
  <2>2. P(e)
    BY <1>3, <1>5, <2>1
  <2> HIDE DEF e, P
  <2> QED BY <2>1, <2>2, Zenon
<1> HIDE DEF error
<1>7. CASE error = "None"
  <2>1. PICK i \in 1..12 : At("None", i)
    BY <1>3, <1>6, <1>7
  <2>2. i = 12
    BY <1>3, <2>1
  <2>3. 1 \in 1..(i - 1) /\ 6 \in 1..(i - 1) /\ 7 \in 1..(i - 1) /\ 8 \in 1..(i - 1)
    BY <2>2
  <2>4. /\ ~Fails("EmptyPath", s, there) /\ ~Fails("ContainsShellMetacharacters", s, there)
        /\ ~Fails("InvalidUtf8", s, there) /\ ~Fails("Relative", s, there)
    BY <1>3, <2>1, <2>3, Zenon
  <2>5. s # <<>> /\ ~Holds(s, ShellMetacharacters) /\ IsValidUtf8(s) /\ s[1] = Slash
    BY <2>4, CheckPasses, Zenon
  <2>6. s \in Text
    BY Trimmed DEF s
  <2>7. Sound(NormalizePath(s))
    BY <2>5, <2>6, Normalized
  <2> QED BY <1>2, <1>7, <2>7
<1>8. CASE error # "None"
  <2>1. path = <<>>
    BY <1>8
  <2> QED BY <1>2, <2>1 DEF Sound
<1> QED BY <1>7, <1>8

(* Only root scans, and what it scans is what validate() returned.          *)
LEMMA ExecuteScans ==
  ASSUME NEW meant, NEW verb, NEW line \in Text, Execute(meant, verb, line)
  PROVE  Sound(last'.scanned)
<1> DEFINE args == Trim(line)
           Good == Sound(last'.scanned)
<1>1. args \in Text
  BY Trimmed
<1>2. ASSUME NEW call, NEW scanned, NEW ok, NEW m, Answer(meant, call, scanned, ok, m), Sound(scanned)
      PROVE  Good
  <2>1. last'.scanned = scanned
    BY <1>2, AnswerKept
  <2> QED BY <1>2, <2>1
<1>3. Sound(<<>>)
  BY DEF Sound
<1> HIDE DEF Good, args
<1>4. ASSUME NEW ok, NEW m, Say(meant, ok, m) PROVE Good
  BY <1>2, <1>3, <1>4, Zenon DEF Say
<1>5. ASSUME NEW names, List(meant, names) PROVE Good
  BY <1>4, <1>5, Zenon DEF List
<1>6. ASSUME Query(meant) \/ Songs(meant, args) PROVE Good
  BY <1>4, <1>6, Zenon DEF Query, Songs
<1>7. ASSUME Play(meant, args) PROVE Good
  BY <1>2, <1>3, <1>4, <1>7, Zenon DEF Play
<1>8. ASSUME NEW op, Control(meant, op) PROVE Good
  BY <1>2, <1>3, <1>8, Zenon DEF Control
<1>9. ASSUME Volume(meant, args) \/ Output(meant, args) PROVE Good
  BY <1>2, <1>3, <1>4, <1>5, <1>9, Zenon DEF Volume, Output
<1>10. ASSUME Theme(meant, args) \/ Visual(meant, args) PROVE Good
  BY <1>2, <1>3, <1>4, <1>10, Zenon DEF Theme, Visual
<1>11. ASSUME Root(meant, args) PROVE Good
  <2> DEFINE path == SingleArg(args)
  <2>1. path \in Text
    BY <1>1, SingleArgTyped
  <2>2. CASE path = <<>>
    BY <1>6, <1>11, <2>2, Zenon DEF Root
  <2>3. CASE path # <<>>
    <3>1. PICK there \in Kinds : \E call, ok, m : Answer(meant, call, Validate(path, there).path, ok, m)
      BY <1>11, <2>3, Zenon DEF Root
    <3> HIDE DEF path
    <3>2. Sound(Validate(path, there).path)
      BY <2>1, Validated
    <3> QED BY <1>2, <3>1, <3>2, Zenon
  <2> QED BY <2>2, <2>3
<1>12. ASSUME Quit(meant) PROVE Good
  BY <1>2, <1>3, <1>12, Zenon DEF Quit
<1>13. Good
  BY <1>4, <1>5, <1>6, <1>7, <1>8, <1>9, <1>10, <1>11, <1>12 DEF Execute, args
<1> QED BY <1>13 DEF Good

(* Whatever is typed or given to ctl, the path that is scanned is absolute, *)
(* has no slash at its end and is well-formed UTF-8 (validate()).           *)
THEOREM PathIsSoundHolds == Spec => []PathIsSound
<1>1. /\ PathIsSound <=> Sound(last.scanned)
      /\ PathIsSound' <=> Sound(last'.scanned)
  BY Zenon DEF PathIsSound, Sound
<1>2. Init => PathIsSound
  <2> SUFFICES ASSUME Init PROVE PathIsSound
    OBVIOUS
  <2>1. last.scanned = <<>>
    BY DEF Init, Nobody
  <2> QED BY <1>1, <2>1 DEF Sound
<1>3. AnswerInv /\ PathIsSound /\ [Next]_vars => PathIsSound'
  <2> SUFFICES ASSUME AnswerInv, PathIsSound, [Next]_vars PROVE PathIsSound'
    OBVIOUS
  <2>1. CASE UNCHANGED vars
    <3>1. last' = last
      BY <2>1 DEF vars
    <3> QED BY <1>1, <3>1
  <2>2. CASE last' = Nobody
    <3>1. last'.scanned = <<>>
      BY <2>2 DEF Nobody
    <3> QED BY <1>1, <3>1 DEF Sound
  <2>3. ASSUME NEW line \in Text, Executes(line) PROVE PathIsSound'
    <3>1. Sound(last'.scanned)
      BY <2>3, ExecuteScans, Zenon DEF Executes
    <3> QED BY <1>1, <3>1
  <2> QED BY <2>1, <2>2, <2>3, StepAnswers DEF AnswerInv
<1> QED BY <1>2, <1>3, AnswerInductive, PTL DEF Spec
===============================================================================
