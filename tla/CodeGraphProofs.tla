-------------------------- MODULE CodeGraphProofs --------------------------
(***************************************************************************)
(* Theorems about CodeGraph, for any number of scopes, projects, files,    *)
(* contents, processes, tool calls and crashes.                            *)
(***************************************************************************)
EXTENDS CodeGraph, FiniteSetTheorems, TLAPS

(***************************************************************************)
(* Numbers and recursion.  An induction is an argument about the least     *)
(* number for which a claim fails.                                         *)
(***************************************************************************)
LEMMA LeastNumber ==
    ASSUME NEW S \in SUBSET Nat, S # {}
    PROVE  \E n \in S : \A m \in S : n <= m
<1> DEFINE R == {ss \in Nat \X Nat : ss[1] < ss[2]}
<1>1. IsWellFoundedOn(R, Nat)
  BY NatLessThanWellFounded DEF OpToRel
<1>2. PICK n \in S : \A m \in S : ~(<<m, n>> \in R)
  BY <1>1, WFMin
<1>3. ASSUME NEW m \in S PROVE n <= m
  <2>1. m \in Nat /\ n \in Nat /\ <<m, n>> \notin R
    BY <1>2
  <2>2. ~(m < n)
    BY <2>1
  <2> QED
    BY <2>1, <2>2
<1> QED
  BY <1>3

\* Every recursion along an interval has a solution.
Solvable(n, V, a, step) ==
    \E g \in [0..n -> V] : g[0] = a /\ \A i \in 1..n : g[i] = step[i][g[i - 1]]

LEMMA Recursion ==
    ASSUME NEW n \in Nat, NEW V, NEW a \in V, NEW step \in [1..n -> [V -> V]]
    PROVE  Solvable(n, V, a, step)
<1> DEFINE Solves(m, g) == g[0] = a /\ \A i \in 1..m : g[i] = step[i][g[i - 1]]
           Failed == {m \in 0..n : ~\E g \in [0..m -> V] : Solves(m, g)}
<1>1. CASE Failed = {}
  <2>1. n \in 0..n
    OBVIOUS
  <2> QED
    BY <1>1, <2>1 DEF Solvable
<1>2. CASE Failed # {}
  <2>1. PICK m \in Failed : \A k \in Failed : m <= k
    <3>1. Failed \in SUBSET Nat
      OBVIOUS
    <3> HIDE DEF Failed
    <3> QED
      BY <1>2, <3>1, LeastNumber
  <2>2. CASE m = 0
    <3> DEFINE g == [i \in 0..m |-> a]
    <3>1. g \in [0..m -> V] /\ Solves(m, g)
      BY <2>2
    <3> QED
      BY <2>1, <3>1
  <2>3. CASE m # 0
    <3>0. m \in 0..n
      OBVIOUS
    <3>1. m - 1 \in 0..n /\ m - 1 \notin Failed /\ m \in 1..n
      <4> HIDE DEF Failed
      <4>1. m - 1 \in 0..n /\ m \in 1..n /\ ~(m <= m - 1)
        BY <2>3, <3>0
      <4> QED
        BY <2>1, <4>1
    <3>2. PICK g \in [0..(m - 1) -> V] : Solves(m - 1, g)
      BY <3>1
    <3> DEFINE h == [i \in 0..m |-> IF i = m THEN step[m][g[m - 1]] ELSE g[i]]
    <3>3. g[m - 1] \in V /\ step[m][g[m - 1]] \in V
      BY <3>1
    <3>4. h \in [0..m -> V]
      BY <3>1, <3>3
    <3>5. \A i \in 0..(m - 1) : h[i] = g[i]
      BY <3>1
    <3>6. h[m] = step[m][h[m - 1]]
      BY <3>1, <3>5
    <3>7. h[0] = a
      BY <3>1, <3>2, <3>5
    <3>8. ASSUME NEW i \in 1..m PROVE h[i] = step[i][h[i - 1]]
      <4>1. CASE i = m
        BY <3>6, <4>1
      <4>2. CASE i # m
        <5>1. i \in 1..(m - 1) /\ i - 1 \in 0..(m - 1) /\ i \in 0..(m - 1)
          BY <3>1, <4>2
        <5> QED
          BY <3>2, <3>5, <5>1
      <4> QED
        BY <4>1, <4>2
    <3> QED
      BY <2>1, <3>4, <3>7, <3>8
  <2> QED
    BY <2>2, <2>3
<1> QED
  BY <1>1, <1>2

(***************************************************************************)
(* A sequence of sequences, one after the other.                           *)
(***************************************************************************)
\* Joined(seqs, F): F lists the joins of the first i sequences.
Joined(seqs, F) == F = [i \in 1..Len(seqs) |-> IF i = 1 THEN seqs[i] ELSE F[i - 1] \o seqs[i]]

LEMMA FlattenFacts ==
    ASSUME NEW A, NEW seqs \in Seq(Seq(A))
    PROVE  \/ Len(seqs) = 0 /\ FlattenSeq(seqs) = <<>>
           \/ Len(seqs) > 0 /\ \E F : Joined(seqs, F) /\ FlattenSeq(seqs) = F[Len(seqs)]
<1>1. CASE Len(seqs) = 0
  BY <1>1 DEF FlattenSeq
<1>2. CASE Len(seqs) # 0
  <2> DEFINE n == Len(seqs)
             V == Seq(A)
             step == [i \in 1..n |-> [s \in V |-> IF i = 1 THEN seqs[i] ELSE s \o seqs[i]]]
  <2>1. n \in Nat /\ n > 0 /\ \A i \in 1..n : seqs[i] \in V
    BY <1>2
  <2>2. step \in [1..n -> [V -> V]]
    <3>1. ASSUME NEW i \in 1..n, NEW s \in V PROVE (IF i = 1 THEN seqs[i] ELSE s \o seqs[i]) \in V
      BY <2>1
    <3> QED
      BY <3>1
  <2>3. <<>> \in V
    OBVIOUS
  <2>4. PICK g \in [0..n -> V] : g[0] = <<>> /\ \A i \in 1..n : g[i] = step[i][g[i - 1]]
    <3> HIDE DEF step, V, n
    <3>1. Solvable(n, V, <<>>, step)
      BY <2>1, <2>2, <2>3, Recursion
    <3> QED
      BY <3>1 DEF Solvable
  <2> DEFINE G == [i \in 1..n |-> g[i]]
  <2>5. Joined(seqs, G)
    <3>1. ASSUME NEW i \in 1..n PROVE G[i] = IF i = 1 THEN seqs[i] ELSE G[i - 1] \o seqs[i]
      <4>0. i - 1 \in 0..n
        BY <2>1
      <4>1. g[i - 1] \in V
        BY <4>0
      <4>2. g[i] = IF i = 1 THEN seqs[i] ELSE g[i - 1] \o seqs[i]
        BY <2>4, <4>1
      <4>3. i # 1 => i - 1 \in 1..n
        BY <2>1
      <4> QED
        BY <4>2, <4>3
    <3> QED
      BY <3>1 DEF Joined
  <2>6. \E F : Joined(seqs, F) /\ FlattenSeq(seqs) = F[Len(seqs)]
    <3> DEFINE F == CHOOSE flatten : flatten = [i \in 1..Len(seqs) |->
                        IF i = 1 THEN seqs[i] ELSE flatten[i - 1] \o seqs[i]]
    <3>1. Joined(seqs, F)
      BY <2>5 DEF Joined
    <3>2. FlattenSeq(seqs) = F[Len(seqs)]
      BY <1>2 DEF FlattenSeq
    <3> QED
      BY <3>1, <3>2
  <2> QED
    BY <2>1, <2>6
<1> QED
  BY <1>1, <1>2

-----------------------------------------------------------------------------
(***************************************************************************)
(* Scripts.  A script over a set S of nodes names the ends of a relation   *)
(* only if they are in S or an earlier statement upserts them; and of the  *)
(* relations it draws from a file or a symbol, those that do not define an *)
(* imported name start at the path f of p.                                 *)
(***************************************************************************)
IsSeq(s) == s \in Seq(Range(s))

Nodes(s) == {s[i].id : i \in {j \in DOMAIN s : s[j].op = "node"}}

Supplied(s, S) ==
    \A j \in DOMAIN s : s[j].op = "rel" => \A e \in {s[j].id[1], s[j].id[3]} :
        e \in S \/ \E i \in 1..(j - 1) : s[i].op = "node" /\ s[i].id = e

StartsAt(p, f, k) ==
    k[1][1] \in {"file", "symbol"} =>
        \/ k[1][2] = p /\ k[1][3] = f
        \/ k[2] = "defines" /\ k[3][1] = "imported"

Good(s, S, p, f) ==
    /\ IsSeq(s) /\ Supplied(s, S)
    /\ \A j \in DOMAIN s : s[j].op = "rel" => StartsAt(p, f, s[j].id)

LEMMA SeqFacts ==
    ASSUME NEW s, IsSeq(s)
    PROVE  DOMAIN s = 1..Len(s) /\ Len(s) \in Nat /\ Range(s) = {s[i] : i \in 1..Len(s)}
BY DEF IsSeq, Range

LEMMA SeqOverItself == ASSUME NEW A, NEW s \in Seq(A) PROVE IsSeq(s)
BY DEF IsSeq, Range

LEMMA ConcatFacts ==
    ASSUME NEW a, NEW b, IsSeq(a), IsSeq(b)
    PROVE  /\ IsSeq(a \o b) /\ Len(a \o b) = Len(a) + Len(b) /\ DOMAIN (a \o b) = 1..(Len(a) + Len(b))
           /\ \A i \in 1..Len(a) : (a \o b)[i] = a[i]
           /\ \A i \in (Len(a) + 1)..(Len(a) + Len(b)) : (a \o b)[i] = b[i - Len(a)]
           /\ \A i \in 1..Len(b) : (a \o b)[Len(a) + i] = b[i]
<1> DEFINE A == Range(a) \cup Range(b)
<1>1. a \in Seq(A) /\ b \in Seq(A)
  BY DEF IsSeq
<1>2. a \o b \in Seq(A)
  BY <1>1
<1>3. IsSeq(a \o b)
  BY <1>2, SeqOverItself
<1>4. Len(a) \in Nat /\ Len(b) \in Nat /\ Len(a \o b) = Len(a) + Len(b)
  BY <1>1
<1>5. DOMAIN (a \o b) = 1..(Len(a) + Len(b))
  BY <1>1
<1>6. \A i \in 1..(Len(a) + Len(b)) : (a \o b)[i] = IF i <= Len(a) THEN a[i] ELSE b[i - Len(a)]
  BY <1>1
<1> QED
  BY <1>3, <1>4, <1>5, <1>6

LEMMA ConcatNodes ==
    ASSUME NEW a, NEW b, IsSeq(a), IsSeq(b)
    PROVE  Nodes(a \o b) = Nodes(a) \cup Nodes(b)
<1> DEFINE c == a \o b
           m == Len(a)
           n == Len(b)
<1>0. /\ DOMAIN c = 1..(m + n) /\ DOMAIN a = 1..m /\ DOMAIN b = 1..n /\ m \in Nat /\ n \in Nat
      /\ \A i \in 1..m : c[i] = a[i]
      /\ \A i \in (m + 1)..(m + n) : c[i] = b[i - m]
      /\ \A i \in 1..n : c[m + i] = b[i]
  BY ConcatFacts, SeqFacts
<1> HIDE DEF c, m, n
<1>1. ASSUME NEW x \in Nodes(c) PROVE x \in Nodes(a) \cup Nodes(b)
  <2>1. PICK j \in 1..(m + n) : c[j].op = "node" /\ x = c[j].id
    BY <1>0, <1>1 DEF Nodes
  <2>2. CASE j <= m
    <3>1. j \in 1..m /\ c[j] = a[j]
      BY <1>0, <2>2
    <3> QED
      BY <1>0, <2>1, <3>1 DEF Nodes
  <2>3. CASE ~(j <= m)
    <3>1. j - m \in 1..n /\ c[j] = b[j - m]
      BY <1>0, <2>1, <2>3
    <3> QED
      BY <1>0, <2>1, <3>1 DEF Nodes
  <2> QED
    BY <2>2, <2>3
<1>2. ASSUME NEW x \in Nodes(a) PROVE x \in Nodes(c)
  <2>1. PICK j \in 1..m : a[j].op = "node" /\ x = a[j].id
    BY <1>0, <1>2 DEF Nodes
  <2>2. j \in 1..(m + n) /\ c[j] = a[j]
    BY <1>0, <2>1
  <2> QED
    BY <1>0, <2>1, <2>2 DEF Nodes
<1>3. ASSUME NEW x \in Nodes(b) PROVE x \in Nodes(c)
  <2>1. PICK j \in 1..n : b[j].op = "node" /\ x = b[j].id
    BY <1>0, <1>3 DEF Nodes
  <2>2. m + j \in 1..(m + n) /\ c[m + j] = b[j]
    BY <1>0, <2>1
  <2> QED
    BY <1>0, <2>1, <2>2 DEF Nodes
<1> QED
  BY <1>1, <1>2, <1>3 DEF c

LEMMA GoodWider ==
    ASSUME NEW s, NEW S, NEW T, NEW p, NEW f, Good(s, S, p, f), S \subseteq T
    PROVE  Good(s, T, p, f)
BY DEF Good, Supplied

LEMMA ConcatGood ==
    ASSUME NEW a, NEW b, NEW S, NEW p, NEW f, Good(a, S, p, f), Good(b, S \cup Nodes(a), p, f)
    PROVE  Good(a \o b, S, p, f)
<1> DEFINE c == a \o b
           m == Len(a)
           n == Len(b)
<1>0. /\ DOMAIN c = 1..(m + n) /\ DOMAIN a = 1..m /\ DOMAIN b = 1..n /\ m \in Nat /\ n \in Nat
      /\ \A i \in 1..m : c[i] = a[i]
      /\ \A i \in (m + 1)..(m + n) : c[i] = b[i - m]
      /\ \A i \in 1..n : c[m + i] = b[i]
      /\ IsSeq(c)
  BY ConcatFacts, SeqFacts DEF Good
<1> HIDE DEF c, m, n
<1>1. ASSUME NEW j \in 1..(m + n), c[j].op = "rel"
      PROVE  /\ StartsAt(p, f, c[j].id)
             /\ \A e \in {c[j].id[1], c[j].id[3]} :
                   e \in S \/ \E i \in 1..(j - 1) : c[i].op = "node" /\ c[i].id = e
  <2>1. CASE j <= m
    <3>1. j \in 1..m /\ c[j] = a[j] /\ \A i \in 1..(j - 1) : c[i] = a[i]
      BY <1>0, <2>1
    <3>2. StartsAt(p, f, c[j].id)
      BY <1>0, <1>1, <3>1 DEF Good
    <3>3. Supplied(a, S) /\ j \in DOMAIN a /\ a[j].op = "rel"
      BY <1>0, <1>1, <3>1 DEF Good
    <3>4. \A e \in {a[j].id[1], a[j].id[3]} : e \in S \/ \E i \in 1..(j - 1) : a[i].op = "node" /\ a[i].id = e
      BY <3>3 DEF Supplied
    <3> QED
      BY <3>1, <3>2, <3>4
  <2>2. CASE ~(j <= m)
    <3>1. j - m \in 1..n /\ c[j] = b[j - m]
      BY <1>0, <2>2
    <3>2. StartsAt(p, f, c[j].id)
      BY <1>0, <1>1, <3>1 DEF Good
    <3>3. ASSUME NEW e \in {c[j].id[1], c[j].id[3]}, e \notin S
          PROVE  \E i \in 1..(j - 1) : c[i].op = "node" /\ c[i].id = e
      <4>1. e \in Nodes(a) \/ \E i \in 1..(j - m - 1) : b[i].op = "node" /\ b[i].id = e
        <5>1. Supplied(b, S \cup Nodes(a)) /\ j - m \in DOMAIN b /\ b[j - m].op = "rel"
          BY <1>0, <1>1, <3>1 DEF Good
        <5>2. e \in {b[j - m].id[1], b[j - m].id[3]}
          BY <3>1
        <5> QED
          BY <3>3, <5>1, <5>2 DEF Supplied
      <4>2. CASE e \in Nodes(a)
        <5>1. PICK i \in 1..m : a[i].op = "node" /\ a[i].id = e
          BY <1>0, <4>2 DEF Nodes
        <5>2. i \in 1..(j - 1) /\ c[i] = a[i]
          BY <1>0, <2>2, <5>1
        <5> QED
          BY <5>1, <5>2
      <4>3. ASSUME NEW i \in 1..(j - m - 1), b[i].op = "node", b[i].id = e
            PROVE  \E h \in 1..(j - 1) : c[h].op = "node" /\ c[h].id = e
        <5>1. m + i \in 1..(j - 1) /\ i \in 1..n /\ c[m + i] = b[i]
          BY <1>0, <3>1
        <5> QED
          BY <4>3, <5>1
      <4> QED
        BY <4>1, <4>2, <4>3
    <3> QED
      BY <3>2, <3>3
  <2> QED
    BY <2>1, <2>2
<1>2. Good(c, S, p, f)
  BY <1>0, <1>1 DEF Good, Supplied
<1> QED
  BY <1>2 DEF c

\* What holds of every part holds of the parts one after the other.
LEMMA FlattenGood ==
    ASSUME NEW A, NEW seqs \in Seq(Seq(A)), NEW S, NEW p, NEW f,
           \A i \in 1..Len(seqs) : Good(seqs[i], S, p, f)
    PROVE  /\ Good(FlattenSeq(seqs), S, p, f)
           /\ Nodes(FlattenSeq(seqs)) = UNION {Nodes(seqs[i]) : i \in 1..Len(seqs)}
<1> DEFINE n == Len(seqs)
<1>0. n \in Nat /\ \A i \in 1..n : seqs[i] \in Seq(A) /\ IsSeq(seqs[i])
  BY SeqOverItself
<1>1. CASE n = 0
  <2>1. FlattenSeq(seqs) = <<>>
    BY <1>1 DEF FlattenSeq
  <2>3. 1..n = {}
    BY <1>1
  <2>2. Good(<<>>, S, p, f) /\ Nodes(<<>>) = {}
    BY DEF Good, IsSeq, Supplied, Nodes, Range
  <2> QED
    BY <2>1, <2>2, <2>3
<1>2. CASE n # 0
  <2>1. PICK F : Joined(seqs, F) /\ FlattenSeq(seqs) = F[n]
    BY <1>0, <1>2, FlattenFacts
  <2>2. \A i \in 1..n : F[i] = IF i = 1 THEN seqs[i] ELSE F[i - 1] \o seqs[i]
    BY <2>1 DEF Joined
  <2> DEFINE Holds(i) == Good(F[i], S, p, f) /\ Nodes(F[i]) = UNION {Nodes(seqs[j]) : j \in 1..i}
             Failed == {i \in 1..n : ~Holds(i)}
  <2>3. CASE Failed = {}
    <3>1. n \in 1..n
      BY <1>0, <1>2
    <3> QED
      BY <2>1, <2>3, <3>1
  <2>4. CASE Failed # {}
    <3>1. PICK i \in Failed : \A k \in Failed : i <= k
      <4>1. Failed \in SUBSET Nat
        BY <1>0
      <4> HIDE DEF Failed
      <4> QED
        BY <2>4, <4>1, LeastNumber
    <3>2. i \in 1..n /\ ~Holds(i)
      OBVIOUS
    <3>3. CASE i = 1
      <4>1. F[i] = seqs[i] /\ 1..i = {i}
        BY <2>2, <3>2, <3>3
      <4>2. Good(F[i], S, p, f)
        BY <3>2, <4>1
      <4>3. Nodes(F[i]) = UNION {Nodes(seqs[j]) : j \in {i}}
        BY <4>1
      <4> QED
        BY <3>2, <4>1, <4>2, <4>3
    <3>4. CASE i # 1
      <4>1. i - 1 \in 1..n /\ Holds(i - 1)
        <5>1. i - 1 \in 1..n /\ ~(i <= i - 1)
          BY <1>0, <3>2, <3>4
        <5>2. i - 1 \notin Failed
          <6> HIDE DEF Failed
          <6> QED BY <3>1, <5>1
        <5> QED
          BY <5>1, <5>2
      <4>2. F[i] = F[i - 1] \o seqs[i]
        BY <2>2, <3>2, <3>4
      <4>3. Good(F[i - 1], S, p, f) /\ Good(seqs[i], S \cup Nodes(F[i - 1]), p, f)
        BY <3>2, <4>1, GoodWider
      <4>4. Good(F[i], S, p, f)
        BY <4>2, <4>3, ConcatGood
      <4>5. Nodes(F[i]) = Nodes(F[i - 1]) \cup Nodes(seqs[i])
        BY <1>0, <3>2, <4>2, <4>3, ConcatNodes DEF Good
      <4>6. 1..i = 1..(i - 1) \cup {i}
        BY <3>2
      <4>7. Nodes(F[i]) = UNION {Nodes(seqs[j]) : j \in 1..i}
        BY <4>1, <4>5, <4>6
      <4> QED
        BY <3>2, <4>4, <4>7
    <3> QED
      BY <3>3, <3>4
  <2> QED
    BY <2>3, <2>4
<1> QED
  BY <1>1, <1>2

\* The parts drawn for each element of a sequence.
LEMMA PartsGood ==
    ASSUME NEW seq, IsSeq(seq), NEW parts, parts = [i \in DOMAIN seq |-> parts[i]],
           NEW S, NEW p, NEW f, \A i \in DOMAIN seq : Good(parts[i], S, p, f)
    PROVE  /\ Good(FlattenSeq(parts), S, p, f)
           /\ Nodes(FlattenSeq(parts)) = UNION {Nodes(parts[i]) : i \in DOMAIN seq}
<1> DEFINE A == UNION {Range(parts[i]) : i \in DOMAIN seq}
<1>1. DOMAIN seq = 1..Len(seq) /\ Len(seq) \in Nat
  BY SeqFacts
<1>2. \A i \in 1..Len(seq) : parts[i] \in Seq(A)
  <2>1. ASSUME NEW i \in 1..Len(seq) PROVE parts[i] \in Seq(A)
    <3>1. parts[i] \in Seq(Range(parts[i])) /\ Range(parts[i]) \subseteq A
      BY <1>1 DEF Good, IsSeq
    <3> QED
      BY <3>1
  <2> QED
    BY <2>1
<1>3. parts \in Seq(Seq(A)) /\ Len(parts) = Len(seq)
  <2> HIDE DEF A
  <2> QED
    BY <1>1, <1>2
<1>4. \A i \in 1..Len(parts) : Good(parts[i], S, p, f)
  BY <1>1, <1>3
<1> HIDE DEF A
<1>5. Good(FlattenSeq(parts), S, p, f)
  BY <1>3, <1>4, FlattenGood
<1>6. Nodes(FlattenSeq(parts)) = UNION {Nodes(parts[i]) : i \in 1..Len(parts)}
  BY <1>3, <1>4, FlattenGood
<1> QED
  BY <1>1, <1>3, <1>5, <1>6

LEMMA NodeGood ==
    ASSUME NEW x, NEW S, NEW p, NEW f
    PROVE  Good(<<NodeOp(x)>>, S, p, f) /\ Nodes(<<NodeOp(x)>>) = {x}
<1>1. IsSeq(<<NodeOp(x)>>)
  BY DEF IsSeq, Range
<1>2. DOMAIN <<NodeOp(x)>> = {1} /\ <<NodeOp(x)>>[1] = NodeOp(x) /\ NodeOp(x).op = "node" /\ NodeOp(x).id = x
  BY DEF NodeOp
<1> QED
  BY <1>1, <1>2 DEF Good, Supplied, Nodes

LEMMA RelGood ==
    ASSUME NEW S, NEW a \in S, NEW type, NEW b \in S, NEW p, NEW f, StartsAt(p, f, <<a, type, b>>)
    PROVE  Good(<<RelOp(a, type, b)>>, S, p, f) /\ Nodes(<<RelOp(a, type, b)>>) = {}
<1> DEFINE r == RelOp(a, type, b)
<1>1. IsSeq(<<r>>)
  BY DEF IsSeq, Range
<1>2. DOMAIN <<r>> = {1} /\ <<r>>[1] = r /\ r.op = "rel" /\ r.id = <<a, type, b>>
  BY DEF RelOp
<1>3. r.id[1] = a /\ r.id[3] = b
  BY <1>2
<1> HIDE DEF r
<1>4. Good(<<r>>, S, p, f) /\ Nodes(<<r>>) = {}
  BY <1>1, <1>2, <1>3 DEF Good, Supplied, Nodes
<1> QED
  BY <1>4 DEF r

LEMMA OneByOne ==
    ASSUME NEW x, NEW y, NEW z
    PROVE  <<x, y>> = <<x>> \o <<y>> /\ <<x, y, z>> = <<x, y>> \o <<z>>
<1> DEFINE A == {x, y, z}
           two == <<x>> \o <<y>>
           three == <<x, y>> \o <<z>>
<1>1. <<x>> \in Seq(A) /\ <<y>> \in Seq(A) /\ <<z>> \in Seq(A) /\ <<x, y>> \in Seq(A) /\ <<x, y, z>> \in Seq(A)
  OBVIOUS
<1>2. two \in Seq(A) /\ Len(two) = 2 /\ two[1] = x /\ two[2] = y
  <2> HIDE DEF A
  <2> QED
    BY <1>1
<1>3. three \in Seq(A) /\ Len(three) = 3 /\ three[1] = x /\ three[2] = y /\ three[3] = z
  <2> HIDE DEF A
  <2> QED
    BY <1>1
<1> HIDE DEF A, two, three
<1>4. <<x, y>> = two
  <2>1. DOMAIN two = 1..2 /\ two = [i \in 1..2 |-> two[i]]
    BY <1>2
  <2> QED
    BY <1>2, <2>1
<1>5. <<x, y, z>> = three
  <2>1. DOMAIN three = 1..3 /\ three = [i \in 1..3 |-> three[i]]
    BY <1>3
  <2> QED
    BY <1>3, <2>1
<1> QED
  BY <1>4, <1>5 DEF two, three

LEMMA FiniteImage ==
    ASSUME NEW S, IsFiniteSet(S), NEW g
    PROVE  IsFiniteSet({g[x] : x \in S})
<1> DEFINE T == {g[x] : x \in S}
           h == [x \in S |-> g[x]]
<1>1. h \in Surjection(S, T)
  BY DEF Surjection
<1> HIDE DEF T, h
<1>2. IsFiniteSet(T)
  BY <1>1, FS_Surjection
<1> QED
  BY <1>2 DEF T

LEMMA FiniteRange == ASSUME NEW s, IsSeq(s) PROVE IsFiniteSet(Range(s))
<1>1. IsFiniteSet(1..Len(s))
  BY SeqFacts, FS_Interval
<1>2. IsFiniteSet({s[i] : i \in 1..Len(s)})
  BY <1>1, FiniteImage
<1> QED
  BY <1>2, SeqFacts

LEMMA OrderFacts ==
    ASSUME NEW S, IsFiniteSet(S)
    PROVE  IsSeq(InSomeOrder(S)) /\ \A i \in DOMAIN InSomeOrder(S) : InSomeOrder(S)[i] \in S
<1> DEFINE n == Cardinality(S)
<1>1. n \in Nat /\ ExistsBijection(1..n, S)
  BY FS_CardinalityType
<1>2. \E g \in [1..n -> S] : IsInjective(g)
  BY <1>1 DEF ExistsBijection, Bijection, Injection
<1>3. InSomeOrder(S) \in [1..n -> S]
  BY <1>2 DEF InSomeOrder, SetToSeq
<1>4. InSomeOrder(S) \in Seq(S)
  <2> HIDE DEF n
  <2> QED
    BY <1>1, <1>3
<1> QED
  BY <1>4, SeqOverItself

-----------------------------------------------------------------------------
(***************************************************************************)
(* The sections of the populator's script.                                 *)
(***************************************************************************)
SymbolNodes(p, f, c) == {SymbolNode(p, f, s.name) : s \in Range(c.symbols)}
BoundNodes(p, c) == UNION {{Bound(p, i, n) : n \in Range(i.names)} : i \in Range(c.imports)}

\* Relations from the file and its symbols.
LEMMA OwnSources ==
    ASSUME NEW p, NEW f, NEW n, NEW type, NEW x
    PROVE  StartsAt(p, f, <<FileNode(p, f), type, x>>) /\ StartsAt(p, f, <<SymbolNode(p, f, n), type, x>>)
BY DEF StartsAt, FileNode, SymbolNode

\* A node and a relation that ends in it.
LEMMA PairGood ==
    ASSUME NEW x, NEW S, NEW a \in S, NEW type, NEW p, NEW f, StartsAt(p, f, <<a, type, x>>)
    PROVE  /\ Good(<<NodeOp(x), RelOp(a, type, x)>>, S, p, f)
           /\ Nodes(<<NodeOp(x), RelOp(a, type, x)>>) = {x}
<1>1. Good(<<NodeOp(x)>>, S, p, f) /\ Nodes(<<NodeOp(x)>>) = {x}
  BY NodeGood
<1>2. Good(<<RelOp(a, type, x)>>, S \cup {x}, p, f) /\ Nodes(<<RelOp(a, type, x)>>) = {}
  BY RelGood
<1>3. <<NodeOp(x), RelOp(a, type, x)>> = <<NodeOp(x)>> \o <<RelOp(a, type, x)>>
  BY OneByOne
<1>4. Good(<<NodeOp(x)>> \o <<RelOp(a, type, x)>>, S, p, f)
  BY <1>1, <1>2, ConcatGood
<1>5. Nodes(<<NodeOp(x)>> \o <<RelOp(a, type, x)>>) = {x}
  BY <1>1, <1>2, ConcatNodes DEF Good
<1> QED
  BY <1>3, <1>4, <1>5

LEMMA FileGood ==
    ASSUME NEW p, NEW f
    PROVE  Good(DrawFile(p, f), {}, p, f) /\ FileNode(p, f) \in Nodes(DrawFile(p, f))
<1> DEFINE x == FileNode(p, f)
           m == ModuleNode(p, ModuleOf[f])
<1>1. Good(<<NodeOp(x)>>, {}, p, f) /\ Nodes(<<NodeOp(x)>>) = {x}
  BY NodeGood
<1>2. CASE ModuleOf[f] = None
  BY <1>1, <1>2 DEF DrawFile
<1>3. CASE ModuleOf[f] # None
  <2> DEFINE r == RelOp(m, "defines", x)
  <2>1. StartsAt(p, f, <<m, "defines", x>>)
    BY DEF StartsAt, ModuleNode
  <2>2. DrawFile(p, f) = (<<NodeOp(x)>> \o <<NodeOp(m)>>) \o <<r>>
    <3>1. DrawFile(p, f) = <<NodeOp(x), NodeOp(m), r>>
      BY <1>3 DEF DrawFile
    <3> QED
      BY <3>1, OneByOne
  <2> HIDE DEF x, m, r
  <2>3. Good(<<NodeOp(m)>>, {x}, p, f) /\ Nodes(<<NodeOp(m)>>) = {m}
    BY NodeGood
  <2>4. Good(<<r>>, {x, m}, p, f) /\ Nodes(<<r>>) = {}
    BY <2>1, RelGood DEF r
  <2>5. Good(<<NodeOp(x)>> \o <<NodeOp(m)>>, {}, p, f)
    BY <1>1, <2>3, ConcatGood
  <2>6. Nodes(<<NodeOp(x)>> \o <<NodeOp(m)>>) = {x, m}
    BY <1>1, <2>3, ConcatNodes DEF Good
  <2>7. Good((<<NodeOp(x)>> \o <<NodeOp(m)>>) \o <<r>>, {}, p, f)
    BY <2>4, <2>5, <2>6, ConcatGood
  <2>8. Nodes((<<NodeOp(x)>> \o <<NodeOp(m)>>) \o <<r>>) = {x, m}
    BY <2>4, <2>5, <2>6, ConcatNodes DEF Good
  <2> QED
    BY <2>2, <2>7, <2>8 DEF x
<1> QED
  BY <1>2, <1>3

LEMMA SymbolsGood ==
    ASSUME NEW p, NEW f, NEW c \in Contents
    PROVE  /\ Good(DrawSymbols(p, f, c), {FileNode(p, f)}, p, f)
           /\ SymbolNodes(p, f, c) \subseteq Nodes(DrawSymbols(p, f, c))
<1> DEFINE x(i) == SymbolNode(p, f, c.symbols[i].name)
           part(i) == <<NodeOp(x(i)), RelOp(FileNode(p, f), "defines", x(i))>>
           parts == [i \in DOMAIN c.symbols |-> part(i)]
<1>1. DrawSymbols(p, f, c) = FlattenSeq(parts)
  BY DEF DrawSymbols, Each
<1>2. IsSeq(c.symbols)
  BY ContentsAssumption DEF IsSeq
<1>3. \A i \in DOMAIN c.symbols : Good(parts[i], {FileNode(p, f)}, p, f) /\ Nodes(parts[i]) = {x(i)}
  <2>1. ASSUME NEW i \in DOMAIN c.symbols
        PROVE  Good(part(i), {FileNode(p, f)}, p, f) /\ Nodes(part(i)) = {x(i)}
    BY PairGood, OwnSources
  <2> HIDE DEF part, x
  <2> QED
    BY <2>1
<1> HIDE DEF parts
<1>4. parts = [i \in DOMAIN c.symbols |-> parts[i]]
  BY DEF parts
<1>5. Good(FlattenSeq(parts), {FileNode(p, f)}, p, f)
  BY <1>2, <1>3, <1>4, PartsGood
<1>6. Nodes(FlattenSeq(parts)) = UNION {Nodes(parts[i]) : i \in DOMAIN c.symbols}
  BY <1>2, <1>3, <1>4, PartsGood
<1>7. \A i \in DOMAIN c.symbols : x(i) \in Nodes(FlattenSeq(parts))
  BY <1>3, <1>6
<1> QED
  BY <1>1, <1>5, <1>7 DEF SymbolNodes, Range

\* Nodes with a relation each.
LEMMA PairsGood ==
    ASSUME NEW p, NEW f, NEW T, NEW seq, IsSeq(seq), NEW parts, parts = [i \in DOMAIN seq |-> parts[i]],
           NEW from \in T, NEW type, NEW to,
           \A i \in DOMAIN seq : /\ parts[i] = <<NodeOp(to[i]), RelOp(from, type, to[i])>>
                                  /\ StartsAt(p, f, <<from, type, to[i]>>)
    PROVE  /\ Good(FlattenSeq(parts), T, p, f)
           /\ \A i \in DOMAIN seq : to[i] \in Nodes(FlattenSeq(parts))
<1>1. ASSUME NEW i \in DOMAIN seq PROVE Good(parts[i], T, p, f) /\ Nodes(parts[i]) = {to[i]}
  <2>1. /\ Good(<<NodeOp(to[i]), RelOp(from, type, to[i])>>, T, p, f)
        /\ Nodes(<<NodeOp(to[i]), RelOp(from, type, to[i])>>) = {to[i]}
    BY PairGood
  <2> QED
    BY <2>1
<1>2. Good(FlattenSeq(parts), T, p, f)
  BY <1>1, PartsGood
<1>3. Nodes(FlattenSeq(parts)) = UNION {Nodes(parts[i]) : i \in DOMAIN seq}
  BY <1>1, PartsGood
<1> QED
  BY <1>1, <1>2, <1>3

\* One import: its target and its two relations, and then the names it binds.
LEMMA ImportHeadGood ==
    ASSUME NEW p, NEW f, NEW F, F = FileNode(p, f), NEW t
    PROVE  /\ Good(<<NodeOp(t), RelOp(F, "imports", t), RelOp(F, "depends_on", t)>>, {F}, p, f)
           /\ Nodes(<<NodeOp(t), RelOp(F, "imports", t), RelOp(F, "depends_on", t)>>) = {t}
<1> DEFINE pair == <<NodeOp(t), RelOp(F, "imports", t)>>
           rest == <<RelOp(F, "depends_on", t)>>
<1>1. Good(pair, {F}, p, f) /\ Nodes(pair) = {t}
  BY PairGood, OwnSources
<1>2. Good(rest, {F, t}, p, f) /\ Nodes(rest) = {}
  <2>1. StartsAt(p, f, <<F, "depends_on", t>>) /\ F \in {F, t} /\ t \in {F, t}
    BY OwnSources
  <2> QED
    BY <2>1, RelGood
<1>3. <<NodeOp(t), RelOp(F, "imports", t), RelOp(F, "depends_on", t)>> = pair \o rest
  BY OneByOne
<1> HIDE DEF pair, rest
<1>4. Good(rest, {F} \cup Nodes(pair), p, f)
  BY <1>1, <1>2, GoodWider
<1>5. Good(pair \o rest, {F}, p, f)
  BY <1>1, <1>4, ConcatGood
<1>6. IsSeq(pair) /\ IsSeq(rest)
  BY <1>1, <1>2 DEF Good
<1>7. Nodes(pair \o rest) = {t}
  BY <1>1, <1>2, <1>6, ConcatNodes
<1> QED
  BY <1>3, <1>5, <1>7

LEMMA ImportGood ==
    ASSUME NEW p, NEW f, NEW F, F = FileNode(p, f), NEW i, IsSeq(i.names), NEW t, t = Imported(p, i),
           NEW names, names = [k \in DOMAIN i.names |-> names[k]],
           \A k \in DOMAIN i.names :
               names[k] = <<NodeOp(Bound(p, i, i.names[k])), RelOp(t, "defines", Bound(p, i, i.names[k]))>>,
           NEW head, head = <<NodeOp(t), RelOp(F, "imports", t), RelOp(F, "depends_on", t)>>
    PROVE  /\ Good(head \o FlattenSeq(names), {F}, p, f)
           /\ \A n \in Range(i.names) : Bound(p, i, n) \in Nodes(head \o FlattenSeq(names))
<1> DEFINE to == [k \in DOMAIN i.names |-> Bound(p, i, i.names[k])]
<1>1. Good(head, {F}, p, f) /\ Nodes(head) = {t}
  BY ImportHeadGood
<1>2. \A k \in DOMAIN i.names : StartsAt(p, f, <<t, "defines", to[k]>>)
  BY DEF StartsAt, Imported, Bound, FileNode, DependencyNode, ImportedNode
<1>3. \A k \in DOMAIN i.names : names[k] = <<NodeOp(to[k]), RelOp(t, "defines", to[k])>>
  OBVIOUS
<1>4. /\ Good(FlattenSeq(names), {F, t}, p, f)
      /\ \A k \in DOMAIN i.names : to[k] \in Nodes(FlattenSeq(names))
  <2> HIDE DEF to
  <2> QED
    BY ZenonT(60), <1>2, <1>3, PairsGood
<1>5. Good(FlattenSeq(names), {F} \cup Nodes(head), p, f)
  BY <1>1, <1>4, GoodWider
<1>6. Good(head \o FlattenSeq(names), {F}, p, f)
  BY <1>1, <1>5, ConcatGood
<1>7. IsSeq(head) /\ IsSeq(FlattenSeq(names))
  BY <1>1, <1>4 DEF Good
<1>8. Nodes(head \o FlattenSeq(names)) = Nodes(head) \cup Nodes(FlattenSeq(names))
  BY <1>7, ConcatNodes
<1>9. \A k \in DOMAIN i.names : Bound(p, i, i.names[k]) \in Nodes(head \o FlattenSeq(names))
  BY <1>4, <1>8
<1> QED
  BY <1>6, <1>9 DEF Range

LEMMA ImportsGood ==
    ASSUME NEW p, NEW f, NEW c \in Contents
    PROVE  /\ Good(DrawImports(p, f, c), {FileNode(p, f)}, p, f)
           /\ BoundNodes(p, c) \subseteq Nodes(DrawImports(p, f, c))
<1> DEFINE imp(j) == c.imports[j]
           names(j) == [k \in DOMAIN imp(j).names |->
               <<NodeOp(Bound(p, imp(j), imp(j).names[k])),
                 RelOp(Imported(p, imp(j)), "defines", Bound(p, imp(j), imp(j).names[k]))>>]
           head(j) == <<NodeOp(Imported(p, imp(j))),
                        RelOp(FileNode(p, f), "imports", Imported(p, imp(j))),
                        RelOp(FileNode(p, f), "depends_on", Imported(p, imp(j)))>>
           parts == [j \in DOMAIN c.imports |-> head(j) \o FlattenSeq(names(j))]
<1>1. DrawImports(p, f, c) = FlattenSeq(parts)
  BY DEF DrawImports, Each
<1>2. IsSeq(c.imports) /\ \A j \in DOMAIN c.imports : IsSeq(imp(j).names)
  BY ContentsAssumption DEF IsSeq, Range
<1>3. \A j \in DOMAIN c.imports :
        /\ Good(parts[j], {FileNode(p, f)}, p, f)
        /\ {Bound(p, imp(j), n) : n \in Range(imp(j).names)} \subseteq Nodes(parts[j])
  <2>1. ASSUME NEW j \in DOMAIN c.imports
        PROVE  /\ Good(head(j) \o FlattenSeq(names(j)), {FileNode(p, f)}, p, f)
               /\ {Bound(p, imp(j), n) : n \in Range(imp(j).names)} \subseteq Nodes(head(j) \o FlattenSeq(names(j)))
    <3> DEFINE i == imp(j)
               t == Imported(p, i)
               F == FileNode(p, f)
    <3>1. IsSeq(i.names)
      BY <1>2
    <3>2. /\ names(j) = [k \in DOMAIN i.names |-> names(j)[k]]
          /\ \A k \in DOMAIN i.names :
               names(j)[k] = <<NodeOp(Bound(p, i, i.names[k])), RelOp(t, "defines", Bound(p, i, i.names[k]))>>
      OBVIOUS
    <3>3. head(j) = <<NodeOp(t), RelOp(F, "imports", t), RelOp(F, "depends_on", t)>>
      OBVIOUS
    <3>4. t = Imported(p, i) /\ F = FileNode(p, f)
      OBVIOUS
    <3> HIDE DEF i, t, F, names, head
    <3>5. /\ Good(head(j) \o FlattenSeq(names(j)), {F}, p, f)
          /\ \A n \in Range(i.names) : Bound(p, i, n) \in Nodes(head(j) \o FlattenSeq(names(j)))
      BY <3>1, <3>2, <3>3, <3>4, ImportGood
    <3> QED
      BY <3>4, <3>5 DEF i
  <2> HIDE DEF head, names, imp
  <2> QED
    BY <2>1
<1> HIDE DEF parts
<1>4. parts = [j \in DOMAIN c.imports |-> parts[j]]
  BY DEF parts
<1>5. Good(FlattenSeq(parts), {FileNode(p, f)}, p, f)
  BY <1>2, <1>3, <1>4, PartsGood
<1>6. Nodes(FlattenSeq(parts)) = UNION {Nodes(parts[j]) : j \in DOMAIN c.imports}
  BY <1>2, <1>3, <1>4, PartsGood
<1>7. \A i \in Range(c.imports) : {Bound(p, i, n) : n \in Range(i.names)} \subseteq Nodes(FlattenSeq(parts))
  <2>1. \A j \in DOMAIN c.imports :
          {Bound(p, imp(j), n) : n \in Range(imp(j).names)} \subseteq Nodes(FlattenSeq(parts))
    BY <1>3, <1>6
  <2> QED
    BY <2>1 DEF Range
<1> QED
  BY <1>1, <1>5, <1>7 DEF BoundNodes

\* Relations from symbols of the file, or from the file, to one node each.
LEMMA RelationsGood ==
    ASSUME NEW p, NEW f, NEW T, NEW seq, IsSeq(seq), NEW parts, parts = [i \in DOMAIN seq |-> parts[i]],
           NEW from, NEW type, NEW to,
           \A i \in DOMAIN seq : /\ parts[i] = <<RelOp(from[i], type, to[i])>>
                                  /\ from[i] \in T /\ to[i] \in T
                                  /\ StartsAt(p, f, <<from[i], type, to[i]>>)
    PROVE  Good(FlattenSeq(parts), T, p, f) /\ Nodes(FlattenSeq(parts)) = {}
<1>1. ASSUME NEW i \in DOMAIN seq PROVE Good(parts[i], T, p, f) /\ Nodes(parts[i]) = {}
  <2>1. /\ Good(<<RelOp(from[i], type, to[i])>>, T, p, f)
        /\ Nodes(<<RelOp(from[i], type, to[i])>>) = {}
    BY RelGood
  <2> QED
    BY <2>1
<1>2. Good(FlattenSeq(parts), T, p, f)
  BY <1>1, PartsGood
<1>3. Nodes(FlattenSeq(parts)) = UNION {Nodes(parts[i]) : i \in DOMAIN seq}
  BY <1>1, PartsGood
<1> QED
  BY <1>1, <1>2, <1>3

LEMMA CalleesFacts ==
    ASSUME NEW p, NEW f, NEW c \in Contents, NEW n
    PROVE  /\ IsFiniteSet(Callees(p, f, c, n))
           /\ Callees(p, f, c, n) \subseteq SymbolNodes(p, f, c) \cup BoundNodes(p, c)
<1>1. CASE \E s \in Range(c.symbols) : s.name = n
  <2>1. Callees(p, f, c, n) = {SymbolNode(p, f, n)}
    BY <1>1 DEF Callees
  <2>2. IsFiniteSet({SymbolNode(p, f, n)})
    BY FS_Singleton
  <2> QED
    BY <1>1, <2>1, <2>2 DEF SymbolNodes
<1>2. CASE ~\E s \in Range(c.symbols) : s.name = n
  <2> DEFINE I == {j \in Range(c.imports) : n \in Range(j.names)}
             g == [i \in I |-> Bound(p, i, n)]
  <2>1. Callees(p, f, c, n) = {Bound(p, i, n) : i \in I}
    BY <1>2 DEF Callees
  <2>2. IsFiniteSet(I)
    <3>1. IsFiniteSet(Range(c.imports))
      BY ContentsAssumption, FiniteRange DEF IsSeq
    <3> QED
      BY <3>1, FS_Subset
  <2>3. IsFiniteSet({g[i] : i \in I})
    <3> HIDE DEF I, g
    <3> QED
      BY <2>2, FiniteImage
  <2>4. {g[i] : i \in I} = {Bound(p, i, n) : i \in I}
    OBVIOUS
  <2>5. {Bound(p, i, n) : i \in I} \subseteq BoundNodes(p, c)
    BY DEF BoundNodes
  <2> QED
    BY <2>1, <2>3, <2>4, <2>5
<1> QED
  BY <1>1, <1>2

\* The calls of one symbol.
LEMMA CallGood ==
    ASSUME NEW p, NEW f, NEW T, NEW from \in T, \A x : StartsAt(p, f, <<from, "calls", x>>),
           NEW seq, IsSeq(seq), \A k \in DOMAIN seq : seq[k] \in T,
           NEW parts, parts = [k \in DOMAIN seq |-> parts[k]],
           \A k \in DOMAIN seq : parts[k] = <<RelOp(from, "calls", seq[k])>>
    PROVE  Good(FlattenSeq(parts), T, p, f)
<1>1. ASSUME NEW k \in DOMAIN seq PROVE Good(parts[k], T, p, f)
  <2> DEFINE x == seq[k]
             type == "calls"
  <2>1. x \in T /\ StartsAt(p, f, <<from, type, x>>) /\ parts[k] = <<RelOp(from, type, x)>>
    OBVIOUS
  <2> HIDE DEF x, type
  <2> QED
    BY SMTT(30), <2>1, RelGood
<1> QED
  BY <1>1, PartsGood

LEMMA CallsGood ==
    ASSUME NEW p, NEW f, NEW c \in Contents
    PROVE  Good(DrawCalls(p, f, c), SymbolNodes(p, f, c) \cup BoundNodes(p, c), p, f)
<1> DEFINE T == SymbolNodes(p, f, c) \cup BoundNodes(p, c)
           s(i) == c.symbols[i]
           x(i) == SymbolNode(p, f, s(i).name)
           targets(i) == (UNION {Callees(p, f, c, n) : n \in s(i).calls}) \ {x(i)}
           part(i) == [k \in DOMAIN InSomeOrder(targets(i)) |-> <<RelOp(x(i), "calls", InSomeOrder(targets(i))[k])>>]
           parts == [i \in DOMAIN c.symbols |-> FlattenSeq(part(i))]
<1>1. DrawCalls(p, f, c) = FlattenSeq(parts)
  BY DEF DrawCalls, Each
<1>2. IsSeq(c.symbols) /\ \A i \in DOMAIN c.symbols : s(i) \in Range(c.symbols)
  BY ContentsAssumption DEF IsSeq, Range
<1>3. ASSUME NEW i \in DOMAIN c.symbols PROVE Good(parts[i], T, p, f)
  <2>1. IsFiniteSet(targets(i)) /\ targets(i) \subseteq T
    <3> DEFINE called == s(i).calls
               g == [n \in called |-> Callees(p, f, c, n)]
    <3>1. IsFiniteSet(called)
      BY <1>2, ContentsAssumption
    <3>2. IsFiniteSet({g[n] : n \in called})
      <4> HIDE DEF called, g
      <4> QED
        BY <3>1, FiniteImage
    <3>3. {g[n] : n \in called} = {Callees(p, f, c, n) : n \in called}
      OBVIOUS
    <3>4. \A C \in {Callees(p, f, c, n) : n \in called} : IsFiniteSet(C) /\ C \subseteq T
      BY CalleesFacts
    <3> DEFINE U == {Callees(p, f, c, n) : n \in called}
    <3>5. IsFiniteSet(U) /\ \A C \in U : IsFiniteSet(C) /\ C \subseteq T
      BY <3>2, <3>3, <3>4
    <3>6. targets(i) = (UNION U) \ {x(i)}
      OBVIOUS
    <3> HIDE DEF U
    <3>7. IsFiniteSet(UNION U) /\ UNION U \subseteq T
      BY <3>5, FS_UNION
    <3> QED
      BY <3>6, <3>7, FS_Subset
  <2>2. x(i) \in T /\ \A y : StartsAt(p, f, <<x(i), "calls", y>>)
    BY <1>2, OwnSources DEF SymbolNodes
  <2>3. parts[i] = FlattenSeq(part(i))
    OBVIOUS
  <2> DEFINE seq == InSomeOrder(targets(i))
             from == x(i)
             rels == part(i)
  <2>5. /\ rels = [k \in DOMAIN seq |-> rels[k]]
        /\ \A k \in DOMAIN seq : rels[k] = <<RelOp(from, "calls", seq[k])>>
    OBVIOUS
  <2> HIDE DEF T, targets, parts
  <2>6. IsSeq(seq) /\ \A k \in DOMAIN seq : seq[k] \in T
    BY <2>1, OrderFacts
  <2> HIDE DEF s, x, seq, from, rels, part
  <2>7. from \in T /\ \A y : StartsAt(p, f, <<from, "calls", y>>)
    BY <2>2 DEF from
  <2>4. Good(FlattenSeq(rels), T, p, f)
    BY <2>5, <2>6, <2>7, CallGood
  <2> QED
    BY <2>3, <2>4 DEF rels
<1>4. parts = [i \in DOMAIN c.symbols |-> parts[i]]
  OBVIOUS
<1>5. Good(FlattenSeq(parts), T, p, f)
  <2> HIDE DEF parts, T
  <2> QED
    BY <1>2, <1>3, <1>4, PartsGood
<1> QED
  BY <1>1, <1>5

(***************************************************************************)
(* Routes, jobs and events: a node, and a relation from each of its owners.*)
(***************************************************************************)
OwnNodes(p, f, c) == {FileNode(p, f)} \cup SymbolNodes(p, f, c)

LEMMA DrawGood ==
    ASSUME NEW p, NEW f, NEW c \in Contents, NEW node, NEW type,
           NEW owners, IsFiniteSet(owners), owners \subseteq OwnNodes(p, f, c)
    PROVE  Good(Draw(node, type, owners), OwnNodes(p, f, c), p, f)
<1> DEFINE S == OwnNodes(p, f, c)
           T == S \cup {node}
           seq == InSomeOrder(owners)
           parts == [k \in DOMAIN seq |-> <<RelOp(seq[k], type, node)>>]
           to == [k \in DOMAIN seq |-> node]
<1>1. Draw(node, type, owners) = <<NodeOp(node)>> \o FlattenSeq(parts)
  BY DEF Draw, Each
<1>2. IsSeq(seq) /\ \A k \in DOMAIN seq : seq[k] \in S
  BY OrderFacts
<1>3. \A x \in S : StartsAt(p, f, <<x, type, node>>)
  BY OwnSources DEF OwnNodes, SymbolNodes
<1>4. parts = [k \in DOMAIN seq |-> parts[k]]
      /\ \A k \in DOMAIN seq : parts[k] = <<RelOp(seq[k], type, to[k])>> /\ to[k] = node
  OBVIOUS
<1> HIDE DEF S, seq, parts, to
<1>5. Good(FlattenSeq(parts), T, p, f)
  <2>1. \A k \in DOMAIN seq : /\ parts[k] = <<RelOp(seq[k], type, to[k])>>
                              /\ seq[k] \in T /\ to[k] \in T
                              /\ StartsAt(p, f, <<seq[k], type, to[k]>>)
    BY <1>2, <1>3, <1>4
  <2> HIDE DEF T
  <2> QED
    BY <1>2, <1>4, <2>1, RelationsGood
<1>6. Good(<<NodeOp(node)>>, S, p, f) /\ Nodes(<<NodeOp(node)>>) = {node}
  BY NodeGood
<1>7. Good(FlattenSeq(parts), S \cup Nodes(<<NodeOp(node)>>), p, f)
  BY <1>5, <1>6
<1>8. Good(<<NodeOp(node)>> \o FlattenSeq(parts), S, p, f)
  BY <1>6, <1>7, ConcatGood
<1> QED
  BY <1>1, <1>8 DEF S

\* One after the other, for the members of a finite set.
LEMMA DrawsGood ==
    ASSUME NEW p, NEW f, NEW c \in Contents, NEW things, IsFiniteSet(things), NEW node, NEW type, NEW owners,
           \A x \in things : IsFiniteSet(owners[x]) /\ owners[x] \subseteq OwnNodes(p, f, c),
           NEW parts, parts = [k \in DOMAIN InSomeOrder(things) |-> parts[k]],
           \A k \in DOMAIN InSomeOrder(things) :
               parts[k] = Draw(node[InSomeOrder(things)[k]], type, owners[InSomeOrder(things)[k]])
    PROVE  Good(FlattenSeq(parts), OwnNodes(p, f, c), p, f)
<1> DEFINE seq == InSomeOrder(things)
<1>1. IsSeq(seq) /\ \A k \in DOMAIN seq : seq[k] \in things
  BY OrderFacts
<1>2. ASSUME NEW k \in DOMAIN seq PROVE Good(parts[k], OwnNodes(p, f, c), p, f)
  <2>1. IsFiniteSet(owners[seq[k]]) /\ owners[seq[k]] \subseteq OwnNodes(p, f, c)
    BY <1>1
  <2>2. Good(Draw(node[seq[k]], type, owners[seq[k]]), OwnNodes(p, f, c), p, f)
    BY <2>1, DrawGood
  <2> QED
    BY <2>2
<1> HIDE DEF seq
<1>3. parts = [k \in DOMAIN seq |-> parts[k]]
  BY DEF seq
<1> QED
  BY <1>1, <1>2, <1>3, PartsGood

LEMMA HoldersFacts ==
    ASSUME NEW p, NEW f, NEW c \in Contents, NEW what, NEW x
    PROVE  IsFiniteSet(Holders(p, f, c, what, x)) /\ Holders(p, f, c, what, x) \subseteq OwnNodes(p, f, c)
<1> DEFINE I == {t \in Range(c.symbols) : x \in t[what]}
           g == [s \in I |-> SymbolNode(p, f, s.name)]
<1>1. IsFiniteSet(I)
  <2>1. IsFiniteSet(Range(c.symbols))
    BY ContentsAssumption, FiniteRange DEF IsSeq
  <2> QED
    BY <2>1, FS_Subset
<1>2. IsFiniteSet({g[s] : s \in I})
  <2> HIDE DEF I, g
  <2> QED
    BY <1>1, FiniteImage
<1>3. {g[s] : s \in I} = Holders(p, f, c, what, x)
  BY DEF Holders
<1> QED
  BY <1>2, <1>3 DEF Holders, OwnNodes, SymbolNodes

LEMMA OwnersFacts ==
    ASSUME NEW p, NEW f, NEW c \in Contents, NEW what, NEW x
    PROVE  /\ IsFiniteSet(Owners(p, f, c, what, x)) /\ Owners(p, f, c, what, x) \subseteq OwnNodes(p, f, c)
           /\ IsFiniteSet(EventOwners(p, f, c, what, x)) /\ EventOwners(p, f, c, what, x) \subseteq OwnNodes(p, f, c)
<1>1. IsFiniteSet({FileNode(p, f)}) /\ {FileNode(p, f)} \subseteq OwnNodes(p, f, c)
  BY FS_Singleton DEF OwnNodes
<1>2. IsFiniteSet(Holders(p, f, c, what, x)) /\ Holders(p, f, c, what, x) \subseteq OwnNodes(p, f, c)
  BY HoldersFacts
<1> QED
  BY <1>1, <1>2 DEF Owners, EventOwners

LEMMA RoutesGood ==
    ASSUME NEW p, NEW f, NEW c \in Contents
    PROVE  Good(DrawRoutes(p, f, c), OwnNodes(p, f, c), p, f)
<1> DEFINE things == c.routes
           seq == InSomeOrder(things)
           node == [x \in things |-> RouteNode(p, x)]
           owners == [x \in things |-> Owners(p, f, c, "routes", x)]
           parts == [k \in DOMAIN seq |-> Draw(RouteNode(p, seq[k]), "routes_to", Owners(p, f, c, "routes", seq[k]))]
           type == "routes_to"
<1>1. DrawRoutes(p, f, c) = FlattenSeq(parts)
  BY DEF DrawRoutes, Each
<1>2. IsFiniteSet(things)
  BY ContentsAssumption
<1>3. \A k \in DOMAIN seq : seq[k] \in things
  BY <1>2, OrderFacts
<1>4. \A x \in things : IsFiniteSet(owners[x]) /\ owners[x] \subseteq OwnNodes(p, f, c)
  BY OwnersFacts
<1>5. /\ parts = [k \in DOMAIN seq |-> parts[k]]
      /\ \A k \in DOMAIN seq : parts[k] = Draw(node[seq[k]], type, owners[seq[k]])
  BY <1>3
<1> HIDE DEF things, node, owners, parts, type
<1>6. Good(FlattenSeq(parts), OwnNodes(p, f, c), p, f)
  BY <1>2, <1>4, <1>5, DrawsGood
<1> QED
  BY <1>1, <1>6

LEMMA JobsGood ==
    ASSUME NEW p, NEW f, NEW c \in Contents
    PROVE  Good(DrawJobs(p, f, c), OwnNodes(p, f, c), p, f)
<1> DEFINE things == c.jobs
           seq == InSomeOrder(things)
           node == [x \in things |-> JobNode(p, f, x)]
           owners == [x \in things |-> Owners(p, f, c, "jobs", x)]
           parts == [k \in DOMAIN seq |-> Draw(JobNode(p, f, seq[k]), "scheduled_as", Owners(p, f, c, "jobs", seq[k]))]
           type == "scheduled_as"
<1>1. DrawJobs(p, f, c) = FlattenSeq(parts)
  BY DEF DrawJobs, Each
<1>2. IsFiniteSet(things)
  BY ContentsAssumption
<1>3. \A k \in DOMAIN seq : seq[k] \in things
  BY <1>2, OrderFacts
<1>4. \A x \in things : IsFiniteSet(owners[x]) /\ owners[x] \subseteq OwnNodes(p, f, c)
  BY OwnersFacts
<1>5. /\ parts = [k \in DOMAIN seq |-> parts[k]]
      /\ \A k \in DOMAIN seq : parts[k] = Draw(node[seq[k]], type, owners[seq[k]])
  BY <1>3
<1> HIDE DEF things, node, owners, parts, type
<1>6. Good(FlattenSeq(parts), OwnNodes(p, f, c), p, f)
  BY <1>2, <1>4, <1>5, DrawsGood
<1> QED
  BY <1>1, <1>6

\* The two halves of the events section.
Emitted(p, f, c) ==
    Each(InSomeOrder(c.emits), LAMBDA e : Draw(EventNode(p, e), "emits", EventOwners(p, f, c, "emits", e)))
Consumed(p, f, c) ==
    Each(InSomeOrder(c.consumes), LAMBDA e :
        Draw(EventNode(p, e), "consumes", EventOwners(p, f, c, "consumes", e)))

LEMMA EmittedGood ==
    ASSUME NEW p, NEW f, NEW c \in Contents
    PROVE  Good(Emitted(p, f, c), OwnNodes(p, f, c), p, f)
<1> DEFINE things == c.emits
           seq == InSomeOrder(things)
           node == [x \in things |-> EventNode(p, x)]
           owners == [x \in things |-> EventOwners(p, f, c, "emits", x)]
           parts == [k \in DOMAIN seq |-> Draw(EventNode(p, seq[k]), "emits", EventOwners(p, f, c, "emits", seq[k]))]
           type == "emits"
<1>1. Emitted(p, f, c) = FlattenSeq(parts)
  BY DEF Emitted, Each
<1>2. IsFiniteSet(things)
  BY ContentsAssumption
<1>3. \A k \in DOMAIN seq : seq[k] \in things
  BY <1>2, OrderFacts
<1>4. \A x \in things : IsFiniteSet(owners[x]) /\ owners[x] \subseteq OwnNodes(p, f, c)
  BY OwnersFacts
<1>5. /\ parts = [k \in DOMAIN seq |-> parts[k]]
      /\ \A k \in DOMAIN seq : parts[k] = Draw(node[seq[k]], type, owners[seq[k]])
  BY <1>3
<1> HIDE DEF things, node, owners, parts, type
<1>6. Good(FlattenSeq(parts), OwnNodes(p, f, c), p, f)
  BY <1>2, <1>4, <1>5, DrawsGood
<1> QED
  BY <1>1, <1>6

LEMMA ConsumedGood ==
    ASSUME NEW p, NEW f, NEW c \in Contents
    PROVE  Good(Consumed(p, f, c), OwnNodes(p, f, c), p, f)
<1> DEFINE things == c.consumes
           seq == InSomeOrder(things)
           node == [x \in things |-> EventNode(p, x)]
           owners == [x \in things |-> EventOwners(p, f, c, "consumes", x)]
           parts == [k \in DOMAIN seq |-> Draw(EventNode(p, seq[k]), "consumes", EventOwners(p, f, c, "consumes", seq[k]))]
           type == "consumes"
<1>1. Consumed(p, f, c) = FlattenSeq(parts)
  BY DEF Consumed, Each
<1>2. IsFiniteSet(things)
  BY ContentsAssumption
<1>3. \A k \in DOMAIN seq : seq[k] \in things
  BY <1>2, OrderFacts
<1>4. \A x \in things : IsFiniteSet(owners[x]) /\ owners[x] \subseteq OwnNodes(p, f, c)
  BY OwnersFacts
<1>5. /\ parts = [k \in DOMAIN seq |-> parts[k]]
      /\ \A k \in DOMAIN seq : parts[k] = Draw(node[seq[k]], type, owners[seq[k]])
  BY <1>3
<1> HIDE DEF things, node, owners, parts, type
<1>6. Good(FlattenSeq(parts), OwnNodes(p, f, c), p, f)
  BY <1>2, <1>4, <1>5, DrawsGood
<1> QED
  BY <1>1, <1>6

\* The whole script names no node before it upserts it.
LEMMA ScriptGood ==
    ASSUME NEW p, NEW f, NEW c \in Contents
    PROVE  Good(Script(p, f, c), {}, p, f)
<1> DEFINE d1 == DrawFile(p, f)
           d2 == DrawSymbols(p, f, c)
           d3 == DrawImports(p, f, c)
           d4 == DrawCalls(p, f, c)
           d5 == DrawRoutes(p, f, c)
           d6 == DrawJobs(p, f, c)
           d7 == Emitted(p, f, c)
           d8 == Consumed(p, f, c)
           F == FileNode(p, f)
           X == SymbolNodes(p, f, c)
           B == BoundNodes(p, c)
           O == OwnNodes(p, f, c)
<1>0. Script(p, f, c) = d1 \o d2 \o d3 \o d4 \o d5 \o d6 \o (d7 \o d8)
  BY DEF Script, DrawEvents, Emitted, Consumed
<1>1. Good(d1, {}, p, f) /\ F \in Nodes(d1)
  BY FileGood
<1>2. Good(d2, {F}, p, f) /\ X \subseteq Nodes(d2)
  BY SymbolsGood
<1>3. Good(d3, {F}, p, f) /\ B \subseteq Nodes(d3)
  BY ImportsGood
<1>4. Good(d4, X \cup B, p, f)
  BY CallsGood
<1>5. Good(d5, O, p, f) /\ Good(d6, O, p, f) /\ Good(d7, O, p, f) /\ Good(d8, O, p, f)
  BY RoutesGood, JobsGood, EmittedGood, ConsumedGood
<1>6. O = {F} \cup X
  BY DEF OwnNodes
<1> HIDE DEF d1, d2, d3, d4, d5, d6, d7, d8, F, X, B, O
<1> DEFINE e2 == d1 \o d2
           e3 == e2 \o d3
           e4 == e3 \o d4
           e5 == e4 \o d5
           e6 == e5 \o d6
           e8 == d7 \o d8
<1>7. Good(e2, {}, p, f) /\ Nodes(e2) = Nodes(d1) \cup Nodes(d2)
  <2>1. Good(d2, {} \cup Nodes(d1), p, f)
    BY <1>1, <1>2, GoodWider
  <2> QED
    BY <1>1, <1>2, <2>1, ConcatGood, ConcatNodes DEF Good
<1> HIDE DEF e2
<1>8. Good(e3, {}, p, f) /\ Nodes(e3) = Nodes(e2) \cup Nodes(d3)
  <2>1. Good(d3, {} \cup Nodes(e2), p, f)
    BY <1>1, <1>3, <1>7, GoodWider
  <2> QED
    BY <1>3, <1>7, <2>1, ConcatGood, ConcatNodes DEF Good
<1> HIDE DEF e3
<1>9. O \cup X \cup B \subseteq Nodes(e3)
  BY <1>1, <1>2, <1>3, <1>6, <1>7, <1>8
<1>10. Good(e4, {}, p, f) /\ Nodes(e4) = Nodes(e3) \cup Nodes(d4)
  <2>1. Good(d4, {} \cup Nodes(e3), p, f)
    BY <1>4, <1>9, GoodWider
  <2> QED
    BY <1>4, <1>8, <2>1, ConcatGood, ConcatNodes DEF Good
<1> HIDE DEF e4
<1>11. Good(e5, {}, p, f) /\ Nodes(e5) = Nodes(e4) \cup Nodes(d5)
  <2>1. Good(d5, {} \cup Nodes(e4), p, f)
    BY <1>5, <1>9, <1>10, GoodWider
  <2> QED
    BY <1>5, <1>10, <2>1, ConcatGood, ConcatNodes DEF Good
<1> HIDE DEF e5
<1>12. Good(e6, {}, p, f) /\ Nodes(e6) = Nodes(e5) \cup Nodes(d6)
  <2>1. Good(d6, {} \cup Nodes(e5), p, f)
    BY <1>5, <1>9, <1>10, <1>11, GoodWider
  <2> QED
    BY <1>5, <1>11, <2>1, ConcatGood, ConcatNodes DEF Good
<1> HIDE DEF e6
<1>13. Good(e8, {} \cup Nodes(e6), p, f)
  <2>1. Good(d7, Nodes(e6), p, f) /\ Good(d8, Nodes(e6) \cup Nodes(d7), p, f)
    BY <1>5, <1>9, <1>10, <1>11, <1>12, GoodWider
  <2> QED
    BY <2>1, ConcatGood
<1> HIDE DEF e8
<1>14. Good(e6 \o e8, {}, p, f)
  BY <1>12, <1>13, ConcatGood
<1> QED
  BY <1>0, <1>14 DEF e8, e6, e5, e4, e3, e2

-----------------------------------------------------------------------------
(***************************************************************************)
(* The inductive invariant.                                                *)
(***************************************************************************)
RelsOf(s) == {s[j].id : j \in {i \in DOMAIN s : s[i].op = "rel"}}
SeenIn(table, s) == {n \in DOMAIN table : table[n] = s}

LinkOps(k) == {NodeOp(k[1]), NodeOp(k[3]), RelOp(k[1], k[2], k[3])}
Ops == UNION ({Range(ScriptOf[run]) : run \in Runs} \cup {LinkOps(k) : k \in Links})

Indexing == [kind : {"index"}, scope : Scopes, run : Runs, path : Files, pc : {"wipe", "draw"},
             todo : Seq(Ops), absent : BOOLEAN]
Upserting == [kind : {"upsert"}, scope : Scopes, path : {k[1][3] : k \in Links}, pc : {"draw"},
              todo : Seq(Ops), absent : BOOLEAN]

TypeOK ==
    /\ work \in [Procs -> {Idle} \cup Indexing \cup Upserting]
    /\ last \in [Scopes -> [Files -> Runs \cup {None}]]
    /\ drawn \in [Scopes -> [Files -> {"never", "alone", "whole", "mixed", "cut"}]]

\* A relation row is of a scope; the path of one the indexer drew is a file, a tool's row has none.
RowsOK ==
    \A k \in DOMAIN rel :
        /\ rel[k].scope \in Scopes
        /\ rel[k].by = "index" => rel[k].path \in Files
        /\ rel[k].by = "tool" => rel[k].path = None

\* What a run has still to draw is part of its script, and its ends are there or upserted before they are named.
OnScript(r) ==
    /\ r.path = r.run[2]
    /\ RelsOf(r.todo) \subseteq Relations[r.run]
    /\ r.pc = "wipe" => r.todo = ScriptOf[r.run]

RunsOnScript ==
    \A w \in Procs : work[w].kind = "index" =>
        OnScript(work[w]) /\ Supplied(work[w].todo, SeenIn(entity, work[w].scope))

\* A run that draws a path no other run draws is the path's last one.
BusyIsLast ==
    \A w \in Procs, s \in Scopes, f \in Files :
        Busy(w, s, f) /\ drawn[s][f] # "mixed" => last[s][f] = work[w].run

OwnRow(s, f, k) == k \in DOMAIN rel /\ rel[k].scope = s /\ rel[k].by = "index" /\ rel[k].path = f
OwnOf(run, f) == {k \in Relations[run] : Own(run[1], f, k)}

OwnDrawn ==
    \A s \in Scopes, f \in Files :
        /\ drawn[s][f] = "whole" => \A k \in OwnOf(last[s][f], f) : OwnRow(s, f, k)
        /\ drawn[s][f] = "alone" => \A w \in Procs : Busy(w, s, f) =>
            \A k \in OwnOf(last[s][f], f) : OwnRow(s, f, k) \/ k \in RelsOf(work[w].todo)

IInv == TypeOK /\ RowsOK /\ EndsInScope /\ RunsOnScript /\ BusyIsLast /\ StaleGone /\ OwnDrawn

(***************************************************************************)
(* What is left to draw, and what a run draws in all.                      *)
(***************************************************************************)
LEMMA TailFacts ==
    ASSUME NEW s, IsSeq(s), s # <<>>
    PROVE  /\ IsSeq(Tail(s)) /\ Range(Tail(s)) \subseteq Range(s)
           /\ DOMAIN s = 1..Len(s) /\ Len(s) \in Nat /\ Len(s) > 0 /\ Head(s) = s[1]
           /\ DOMAIN Tail(s) = 1..(Len(s) - 1) /\ \A i \in 1..(Len(s) - 1) : Tail(s)[i] = s[i + 1]
<1> DEFINE A == Range(s)
<1>1. s \in Seq(A)
  BY DEF IsSeq
<1> HIDE DEF A
<1>2. Tail(s) \in Seq(A)
  BY <1>1
<1>3. IsSeq(Tail(s))
  BY <1>2, SeqOverItself
<1>4. Len(s) \in Nat /\ Len(s) > 0 /\ DOMAIN s = 1..Len(s) /\ Head(s) = s[1]
  BY <1>1
<1>5. DOMAIN Tail(s) = 1..(Len(s) - 1) /\ \A i \in 1..(Len(s) - 1) : Tail(s)[i] = s[i + 1]
  BY <1>1, <1>4
<1>6. Range(Tail(s)) \subseteq Range(s)
  BY <1>4, <1>5 DEF Range
<1> QED
  BY <1>3, <1>4, <1>5, <1>6

LEMMA TailRels ==
    ASSUME NEW s, IsSeq(s), s # <<>>
    PROVE  /\ RelsOf(Tail(s)) \subseteq RelsOf(s)
           /\ Head(s).op = "rel" => Head(s).id \in RelsOf(s)
           /\ \A k \in RelsOf(s) : k \in RelsOf(Tail(s)) \/ (Head(s).op = "rel" /\ k = Head(s).id)
<1> DEFINE n == Len(s)
           t == Tail(s)
<1>1. /\ DOMAIN s = 1..n /\ n \in Nat /\ n > 0 /\ Head(s) = s[1]
      /\ DOMAIN t = 1..(n - 1) /\ \A i \in 1..(n - 1) : t[i] = s[i + 1]
  BY TailFacts
<1> HIDE DEF n, t
<1>2. ASSUME NEW k \in RelsOf(t) PROVE k \in RelsOf(s)
  <2>1. PICK i \in 1..(n - 1) : t[i].op = "rel" /\ k = t[i].id
    BY <1>1, <1>2 DEF RelsOf
  <2>2. i + 1 \in 1..n /\ t[i] = s[i + 1]
    BY <1>1
  <2> QED
    BY <1>1, <2>1, <2>2 DEF RelsOf
<1>3. Head(s).op = "rel" => Head(s).id \in RelsOf(s)
  <2>1. 1 \in 1..n
    BY <1>1
  <2> QED
    BY <1>1, <2>1 DEF RelsOf
<1>4. ASSUME NEW k \in RelsOf(s) PROVE k \in RelsOf(t) \/ (Head(s).op = "rel" /\ k = Head(s).id)
  <2>1. PICK i \in 1..n : s[i].op = "rel" /\ k = s[i].id
    BY <1>1, <1>4 DEF RelsOf
  <2>2. CASE i = 1
    BY <1>1, <2>1, <2>2
  <2>3. CASE i # 1
    <3>1. i - 1 \in 1..(n - 1) /\ t[i - 1] = s[i]
      BY <1>1, <2>3
    <3> QED
      BY <1>1, <2>1, <3>1 DEF RelsOf
  <2> QED
    BY <2>2, <2>3
<1> QED
  BY <1>2, <1>3, <1>4 DEF t

LEMMA SuppliedWider == ASSUME NEW s, NEW S, NEW T, Supplied(s, S), S \subseteq T PROVE Supplied(s, T)
BY DEF Supplied

LEMMA TailSupplied ==
    ASSUME NEW s, IsSeq(s), s # <<>>, NEW S, Supplied(s, S)
    PROVE  /\ Head(s).op = "rel" => {Head(s).id[1], Head(s).id[3]} \subseteq S /\ Supplied(Tail(s), S)
           /\ Head(s).op = "node" => Supplied(Tail(s), S \cup {Head(s).id})
<1> DEFINE n == Len(s)
           t == Tail(s)
           h == Head(s)
           U == IF h.op = "node" THEN S \cup {h.id} ELSE S
<1>1. /\ DOMAIN s = 1..n /\ n \in Nat /\ n > 0 /\ h = s[1]
      /\ DOMAIN t = 1..(n - 1) /\ \A i \in 1..(n - 1) : t[i] = s[i + 1]
  BY TailFacts
<1> HIDE DEF n, t, h
<1>2. h.op = "rel" => {h.id[1], h.id[3]} \subseteq S
  <2>1. 1 \in 1..n /\ 1..(1 - 1) = {}
    BY <1>1
  <2> QED
    BY <1>1, <2>1 DEF Supplied
<1>3. ASSUME NEW j \in DOMAIN t, t[j].op = "rel", NEW e \in {t[j].id[1], t[j].id[3]}, e \notin U
      PROVE  \E i \in 1..(j - 1) : t[i].op = "node" /\ t[i].id = e
  <2>1. j \in 1..(n - 1) /\ j + 1 \in 1..n /\ t[j] = s[j + 1] /\ (j + 1) - 1 = j
    BY <1>1
  <2>2. e \notin S
    BY <1>3
  <2>3. PICK i \in 1..j : s[i].op = "node" /\ s[i].id = e
    BY SMTT(30), <1>1, <1>3, <2>1, <2>2 DEF Supplied
  <2>4. CASE i = 1
    BY <1>1, <1>3, <2>3, <2>4
  <2>5. CASE i # 1
    <3>1. i - 1 \in 1..(j - 1) /\ i - 1 \in 1..(n - 1) /\ t[i - 1] = s[i]
      BY <1>1, <2>1, <2>5
    <3> QED
      BY <2>3, <3>1
  <2> QED
    BY <2>4, <2>5
<1>4. Supplied(t, U)
  BY <1>3 DEF Supplied
<1> QED
  BY <1>2, <1>4 DEF t, h

LEMMA ScriptFacts ==
    ASSUME NEW run \in Runs
    PROVE  /\ IsSeq(ScriptOf[run]) /\ Range(ScriptOf[run]) \subseteq Ops /\ Supplied(ScriptOf[run], {})
           /\ RelsOf(ScriptOf[run]) = Relations[run]
           /\ \A k \in Relations[run] : StartsAt(run[1], run[2], k)
<1> DEFINE s == Script(run[1], run[2], run[3])
           rels == {op.id : op \in {o \in Range(ScriptOf[run]) : o.op = "rel"}}
<1>1. run[3] \in Contents
  BY RunsAssumption
<1>2. Good(s, {}, run[1], run[2])
  BY <1>1, ScriptGood
<1>3. ScriptOf[run] = s
  BY DEF ScriptOf
<1>4. Relations[run] = rels
  BY DEF Relations
<1> HIDE DEF s
<1>5. rels = RelsOf(s)
  BY <1>3 DEF RelsOf, Range
<1> HIDE DEF rels
<1>6. \A k \in RelsOf(s) : StartsAt(run[1], run[2], k)
  BY <1>2 DEF Good, RelsOf
<1>7. Range(ScriptOf[run]) \subseteq Ops
  BY DEF Ops
<1> QED
  BY <1>2, <1>3, <1>4, <1>5, <1>6, <1>7 DEF Good

\* Joining sequences over A gives a sequence over A.
LEMMA FlattenType ==
    ASSUME NEW A, NEW seqs \in Seq(Seq(A))
    PROVE  FlattenSeq(seqs) \in Seq(A)
<1> DEFINE n == Len(seqs)
<1>0. n \in Nat /\ \A i \in 1..n : seqs[i] \in Seq(A)
  OBVIOUS
<1>1. CASE n = 0
  BY <1>1 DEF FlattenSeq
<1>2. CASE n # 0
  <2>1. PICK F : Joined(seqs, F) /\ FlattenSeq(seqs) = F[n]
    BY <1>0, <1>2, FlattenFacts
  <2>2. \A i \in 1..n : F[i] = IF i = 1 THEN seqs[i] ELSE F[i - 1] \o seqs[i]
    BY <2>1 DEF Joined
  <2> DEFINE Failed == {i \in 1..n : F[i] \notin Seq(A)}
  <2>3. CASE Failed = {}
    <3>1. n \in 1..n
      BY <1>0, <1>2
    <3> QED
      BY <2>1, <2>3, <3>1
  <2>4. CASE Failed # {}
    <3>1. PICK i \in Failed : \A k \in Failed : i <= k
      <4>1. Failed \in SUBSET Nat
        BY <1>0
      <4> HIDE DEF Failed
      <4> QED
        BY <2>4, <4>1, LeastNumber
    <3>2. i \in 1..n /\ F[i] \notin Seq(A)
      OBVIOUS
    <3>3. i # 1
      BY <1>0, <2>2, <3>2
    <3>4. i - 1 \in 1..n /\ F[i - 1] \in Seq(A)
      <4>1. i - 1 \in 1..n /\ ~(i <= i - 1)
        BY <1>0, <3>2, <3>3
      <4>2. i - 1 \notin Failed
        <5> HIDE DEF Failed
        <5> QED
          BY <3>1, <4>1
      <4> QED
        BY <4>1, <4>2
    <3>5. F[i] = F[i - 1] \o seqs[i] /\ seqs[i] \in Seq(A)
      BY <1>0, <2>2, <3>2, <3>3
    <3> QED
      BY <3>2, <3>4, <3>5
  <2> QED
    BY <2>3, <2>4
<1> QED
  BY <1>1, <1>2

\* The statements of a call of graph.code.upsert.
LEMMA UpsertOps ==
    ASSUME NEW k \in Links, NEW nodes \in {<<k[1]>>, <<k[1], k[3]>>}
    PROVE  Each(nodes, LAMBDA id : <<NodeOp(id)>>) \o <<RelOp(k[1], k[2], k[3])>> \in Seq(Ops)
<1> DEFINE parts == [i \in DOMAIN nodes |-> <<NodeOp(nodes[i])>>]
           n == Len(nodes)
<1>1. n \in Nat /\ DOMAIN nodes = 1..n /\ \A i \in 1..n : nodes[i] \in {k[1], k[3]}
  OBVIOUS
<1>2. LinkOps(k) \subseteq Ops
  BY DEF Ops
<1>3. \A i \in 1..n : <<NodeOp(nodes[i])>> \in Seq(Ops)
  <2>1. \A i \in 1..n : NodeOp(nodes[i]) \in Ops
    BY <1>1, <1>2 DEF LinkOps
  <2> QED
    BY <2>1
<1>4. <<RelOp(k[1], k[2], k[3])>> \in Seq(Ops)
  <2>1. RelOp(k[1], k[2], k[3]) \in Ops
    BY <1>2 DEF LinkOps
  <2> QED
    BY <2>1
<1>6. parts \in Seq(Seq(Ops))
  BY <1>1, <1>3
<1> HIDE DEF parts
<1>7. FlattenSeq(parts) \in Seq(Ops)
  BY <1>6, FlattenType
<1>8. FlattenSeq(parts) \o <<RelOp(k[1], k[2], k[3])>> \in Seq(Ops)
  BY <1>4, <1>7
<1> QED
  BY <1>8 DEF parts, Each

-----------------------------------------------------------------------------
(***************************************************************************)
(* Pieces of steps.                                                        *)
(***************************************************************************)
LEMMA WorkFacts ==
    ASSUME TypeOK, NEW w \in Procs
    PROVE  \/ work[w] = Idle /\ work[w].kind = "idle"
           \/ work[w] \in Indexing /\ work[w].kind = "index"
           \/ work[w] \in Upserting /\ work[w].kind = "upsert"
BY DEF TypeOK, Idle, Indexing, Upserting

\* What Done(w) leaves and what it changes.
LEMMA DoneFacts ==
    ASSUME TypeOK, NEW w \in Procs, Working(w), work[w].todo # <<>>
    PROVE  /\ Done(w) \in [Procs -> {Idle} \cup Indexing \cup Upserting]
           /\ \A v \in Procs \ {w} : Done(w)[v] = work[v]
           /\ IsSeq(work[w].todo) /\ Done(w)[w].todo = Tail(work[w].todo)
           /\ Done(w)[w].kind = work[w].kind /\ Done(w)[w].scope = work[w].scope
           /\ Done(w)[w].path = work[w].path /\ Done(w)[w].pc = work[w].pc
           /\ work[w].kind = "index" => Done(w)[w].run = work[w].run
<1>1. work[w] \in Indexing \/ work[w] \in Upserting
  BY WorkFacts DEF Working
<1>2. work[w].todo \in Seq(Ops) /\ Tail(work[w].todo) \in Seq(Ops) /\ work[w].scope \in Scopes
  <2>1. work[w].todo \in Seq(Ops) /\ work[w].scope \in Scopes
    BY <1>1 DEF Indexing, Upserting
  <2> QED
    BY <2>1
<1>3. IsSeq(work[w].todo)
  BY <1>2, SeqOverItself
<1> DEFINE r == [work[w] EXCEPT !.todo = Tail(@), !.absent = FALSE]
<1>4. work \in [Procs -> {Idle} \cup Indexing \cup Upserting]
  BY DEF TypeOK
<1>5. Done(w) = [work EXCEPT ![w] = r]
  BY <1>4 DEF Done
<1>6. CASE work[w] \in Indexing
  <2>1. /\ r \in Indexing
        /\ r.todo = Tail(work[w].todo) /\ r.kind = work[w].kind /\ r.scope = work[w].scope
        /\ r.path = work[w].path /\ r.pc = work[w].pc /\ r.run = work[w].run
    BY <1>2, <1>6 DEF Indexing
  <2> HIDE DEF r
  <2> QED
    BY <1>3, <1>4, <1>5, <2>1
<1>7. CASE work[w] \in Upserting
  <2>1. /\ r \in Upserting
        /\ r.todo = Tail(work[w].todo) /\ r.kind = work[w].kind /\ r.scope = work[w].scope
        /\ r.path = work[w].path /\ r.pc = work[w].pc /\ work[w].kind # "index"
    BY <1>2, <1>7 DEF Upserting
  <2> HIDE DEF r
  <2> QED
    BY <1>3, <1>4, <1>5, <2>1
<1> QED
  BY <1>1, <1>6, <1>7

LEMMA PutFacts ==
    ASSUME NEW table, NEW id, NEW row
    PROVE  /\ DOMAIN Put(table, id, row) = DOMAIN table \cup {id} /\ Put(table, id, row)[id] = row
           /\ \A k \in DOMAIN table : k # id => Put(table, id, row)[k] = table[k]
BY DEF Put

LEMMA CutFacts ==
    ASSUME TypeOK, RowsOK, NEW k
    PROVE  /\ Cut(k) \in [Scopes -> [Files -> {"never", "alone", "whole", "mixed", "cut"}]]
           /\ \A s \in Scopes, f \in Files :
                /\ Cut(k)[s][f] = drawn[s][f] \/ (Cut(k)[s][f] = "cut" /\ drawn[s][f] # "mixed")
                /\ OwnRow(s, f, k) /\ drawn[s][f] \in {"alone", "whole"} => Cut(k)[s][f] = "cut"
<1>1. CASE k \in DOMAIN rel /\ rel[k].by = "index" /\ drawn[rel[k].scope][rel[k].path] \in {"alone", "whole"}
  <2> DEFINE s0 == rel[k].scope
             f0 == rel[k].path
  <2>1. s0 \in Scopes /\ f0 \in Files
    BY <1>1 DEF RowsOK
  <2>2. Cut(k) = [drawn EXCEPT ![s0][f0] = "cut"]
    BY <1>1 DEF Cut
  <2>3. drawn[s0][f0] \in {"alone", "whole"}
    BY <1>1
  <2>4. \A s \in Scopes, f \in Files : OwnRow(s, f, k) => s = s0 /\ f = f0
    BY DEF OwnRow
  <2> HIDE DEF s0, f0
  <2>5. drawn \in [Scopes -> [Files -> {"never", "alone", "whole", "mixed", "cut"}]]
    BY DEF TypeOK
  <2>6. \A s \in Scopes, f \in Files : Cut(k)[s][f] = IF s = s0 /\ f = f0 THEN "cut" ELSE drawn[s][f]
    BY <2>1, <2>2, <2>5
  <2>7. Cut(k) \in [Scopes -> [Files -> {"never", "alone", "whole", "mixed", "cut"}]]
    BY <2>1, <2>2, <2>5
  <2> QED
    BY <2>3, <2>4, <2>6, <2>7
<1>2. CASE ~(k \in DOMAIN rel /\ rel[k].by = "index" /\ drawn[rel[k].scope][rel[k].path] \in {"alone", "whole"})
  BY <1>2 DEF Cut, TypeOK, OwnRow
<1> QED
  BY <1>1, <1>2

LEMMA SeenIsSeenIn == ASSUME NEW s, NEW id PROVE Seen(s, id) <=> id \in SeenIn(entity, s)
BY DEF Seen, SeenIn

\* A process that draws the same script goes on without losing a relation.
GoesOn(r, q) ==
    /\ q.kind = "index" /\ r.kind = "index" /\ q.pc = r.pc
    /\ q.scope = r.scope /\ q.path = r.path /\ q.run = r.run
    /\ RelsOf(r.todo) \subseteq RelsOf(q.todo)

\* Steps that leave the relations and the histories alone.
LEMMA WorkStep ==
    ASSUME IInv, UNCHANGED <<rel, last, drawn>>, \A s : SeenIn(entity, s) \subseteq SeenIn(entity', s),
           work' \in [Procs -> {Idle} \cup Indexing \cup Upserting],
           \A v \in Procs :
               \/ work'[v] = work[v] \/ work'[v].kind # "index"
               \/ /\ OnScript(work'[v]) /\ Supplied(work'[v].todo, SeenIn(entity', work'[v].scope))
                  /\ work'[v].pc = "wipe" \/ GoesOn(work[v], work'[v])
    PROVE  IInv'
<1>1. TypeOK'
  BY DEF IInv, TypeOK
<1>2. RowsOK' /\ StaleGone'
  BY DEF IInv, RowsOK, StaleGone
<1>3. EndsInScope'
  <2>1. \A k \in DOMAIN rel : k[1] \in SeenIn(entity, rel[k].scope) /\ k[3] \in SeenIn(entity, rel[k].scope)
    BY SeenIsSeenIn DEF IInv, EndsInScope
  <2>2. \A k \in DOMAIN rel : k[1] \in SeenIn(entity', rel[k].scope) /\ k[3] \in SeenIn(entity', rel[k].scope)
    BY <2>1
  <2>3. \A s, id : Seen(s, id)' <=> id \in SeenIn(entity', s)
    BY DEF Seen, SeenIn
  <2> QED
    BY <2>2, <2>3 DEF EndsInScope
<1>4. RunsOnScript'
  <2>1. ASSUME NEW v \in Procs, work'[v].kind = "index"
        PROVE  OnScript(work'[v]) /\ Supplied(work'[v].todo, SeenIn(entity', work'[v].scope))
    <3>1. CASE work'[v] = work[v]
      <4>1. OnScript(work[v]) /\ Supplied(work[v].todo, SeenIn(entity, work[v].scope))
        BY <2>1, <3>1 DEF IInv, RunsOnScript
      <4>2. SeenIn(entity, work[v].scope) \subseteq SeenIn(entity', work'[v].scope)
        BY <3>1
      <4> QED
        BY <3>1, <4>1, <4>2, SuppliedWider
    <3> QED
      BY <2>1, <3>1
  <2> QED
    BY <2>1 DEF RunsOnScript
<1>5. ASSUME NEW v \in Procs, NEW s \in Scopes, NEW f \in Files, Busy(v, s, f)'
      PROVE  Busy(v, s, f) /\ work'[v].run = work[v].run /\ RelsOf(work[v].todo) \subseteq RelsOf(work'[v].todo)
  <2>1. work'[v] = work[v] \/ GoesOn(work[v], work'[v])
    BY <1>5 DEF Busy
  <2> QED
    BY <1>5, <2>1 DEF Busy, GoesOn
<1>6. BusyIsLast'
  BY <1>5 DEF IInv, BusyIsLast
<1>7. OwnDrawn'
  <2>1. \A s, f, k : OwnRow(s, f, k)' <=> OwnRow(s, f, k)
    BY DEF OwnRow
  <2> QED
    BY <1>5, <2>1 DEF IInv, OwnDrawn
<1> QED
  BY <1>1, <1>2, <1>3, <1>4, <1>6, <1>7 DEF IInv

LEMMA StopKeeps ==
    ASSUME IInv, NEW w \in Procs, Stop(w), UNCHANGED <<entity, rel, last, drawn>>
    PROVE  IInv'
<1>1. work \in [Procs -> {Idle} \cup Indexing \cup Upserting]
  BY DEF IInv, TypeOK
<1>2. work' \in [Procs -> {Idle} \cup Indexing \cup Upserting]
  BY <1>1 DEF Stop
<1>3. \A v \in Procs : work'[v] = work[v] \/ work'[v].kind # "index"
  BY <1>1 DEF Stop, Idle
<1>4. \A s : SeenIn(entity, s) \subseteq SeenIn(entity', s)
  OBVIOUS
<1> QED
  BY <1>2, <1>3, <1>4, WorkStep

\* The next node of a script is there: drawn by the step, or before it.
LEMMA NodeDrawn ==
    ASSUME IInv, NEW w \in Procs, Do(w, "node"), work' = Done(w), UNCHANGED <<rel, last, drawn>>,
           \A s : SeenIn(entity, s) \subseteq SeenIn(entity', s), Here(w) \in SeenIn(entity', work[w].scope)
    PROVE  IInv'
<1> DEFINE todo == work[w].todo
<1>1. /\ work' \in [Procs -> {Idle} \cup Indexing \cup Upserting]
      /\ \A v \in Procs \ {w} : work'[v] = work[v]
      /\ IsSeq(todo) /\ todo # <<>> /\ Head(todo).op = "node" /\ work'[w].todo = Tail(todo)
      /\ work'[w].kind = work[w].kind /\ work'[w].scope = work[w].scope
      /\ work'[w].path = work[w].path /\ work'[w].pc = work[w].pc /\ work[w].pc = "draw"
      /\ work[w].kind = "index" => work'[w].run = work[w].run
  BY DoneFacts DEF Do, IInv
<1>2. ASSUME work[w].kind = "index"
      PROVE  /\ OnScript(work'[w]) /\ Supplied(work'[w].todo, SeenIn(entity', work'[w].scope))
             /\ GoesOn(work[w], work'[w])
  <2>1. OnScript(work[w]) /\ Supplied(todo, SeenIn(entity, work[w].scope))
    BY <1>2 DEF IInv, RunsOnScript
  <2>2. RelsOf(Tail(todo)) \subseteq RelsOf(todo) /\ RelsOf(todo) \subseteq RelsOf(Tail(todo))
    BY <1>1, TailRels
  <2>3. Supplied(Tail(todo), SeenIn(entity, work[w].scope) \cup {Head(todo).id})
    BY <1>1, <2>1, TailSupplied
  <2>4. SeenIn(entity, work[w].scope) \cup {Head(todo).id} \subseteq SeenIn(entity', work'[w].scope)
    BY <1>1 DEF Here
  <2>5. Supplied(work'[w].todo, SeenIn(entity', work'[w].scope))
    BY <1>1, <2>3, <2>4, SuppliedWider
  <2>6. OnScript(work'[w])
    BY <1>1, <1>2, <2>1, <2>2 DEF OnScript
  <2>7. GoesOn(work[w], work'[w])
    BY <1>1, <1>2, <2>2 DEF GoesOn
  <2> QED
    BY <2>5, <2>6, <2>7
<1> HIDE DEF todo
<1>3. \A v \in Procs :
        \/ work'[v] = work[v] \/ work'[v].kind # "index"
        \/ /\ OnScript(work'[v]) /\ Supplied(work'[v].todo, SeenIn(entity', work'[v].scope))
           /\ work'[v].pc = "wipe" \/ GoesOn(work[v], work'[v])
  BY <1>1, <1>2
<1> QED
  BY <1>1, <1>3, WorkStep

LEMMA ReindexKeeps == ASSUME IInv, NEW w \in Procs, NEW run \in Runs, Reindex(w, run) PROVE IInv'
<1> DEFINE r == [kind |-> "index", scope |-> ScopeOf[run[1]], run |-> run,
                 path |-> run[2], pc |-> "wipe", todo |-> ScriptOf[run], absent |-> FALSE]
<1>1. work \in [Procs -> {Idle} \cup Indexing \cup Upserting]
  BY DEF IInv, TypeOK
<1>2. ScriptOf[run] \in Seq(Ops) /\ Supplied(ScriptOf[run], {}) /\ RelsOf(ScriptOf[run]) = Relations[run]
  <2>1. ScriptOf[run] \in Seq(Range(ScriptOf[run])) /\ Range(ScriptOf[run]) \subseteq Ops
    BY ScriptFacts DEF IsSeq
  <2>2. ScriptOf[run] \in Seq(Ops)
    BY <2>1
  <2> QED
    BY <2>2, ScriptFacts
<1>3. ScopeOf[run[1]] \in Scopes /\ run[2] \in Files
  BY RunsAssumption, ScopeOfAssumption
<1>4. r \in Indexing
  BY <1>2, <1>3 DEF Indexing
<1>5. OnScript(r) /\ Supplied(r.todo, SeenIn(entity', r.scope)) /\ r.pc = "wipe"
  <2>1. Supplied(ScriptOf[run], SeenIn(entity', r.scope))
    BY <1>2, SuppliedWider
  <2> QED
    BY <1>2, <2>1 DEF OnScript
<1>6. work' = [work EXCEPT ![w] = r]
  BY DEF Reindex
<1> HIDE DEF r
<1>7. /\ work' \in [Procs -> {Idle} \cup Indexing \cup Upserting]
      /\ \A v \in Procs : work'[v] = work[v] \/ work'[v] = r
  BY <1>1, <1>4, <1>6
<1>8. UNCHANGED <<rel, last, drawn>> /\ \A s : SeenIn(entity, s) \subseteq SeenIn(entity', s)
  BY DEF Reindex
<1>9. \A v \in Procs :
        \/ work'[v] = work[v] \/ work'[v].kind # "index"
        \/ /\ OnScript(work'[v]) /\ Supplied(work'[v].todo, SeenIn(entity', work'[v].scope))
           /\ work'[v].pc = "wipe" \/ GoesOn(work[v], work'[v])
  BY <1>5, <1>7
<1> QED
  BY <1>7, <1>8, <1>9, WorkStep

LEMMA UpsertCodeKeeps ==
    ASSUME IInv, NEW w \in Procs, NEW s \in Scopes, NEW k \in Links, NEW nodes \in {<<k[1]>>, <<k[1], k[3]>>},
           UpsertCode(w, s, nodes, k)
    PROVE  IInv'
<1> DEFINE todo == Each(nodes, LAMBDA id : <<NodeOp(id)>>) \o <<RelOp(k[1], k[2], k[3])>>
           r == [kind |-> "upsert", scope |-> s, path |-> k[1][3], pc |-> "draw", todo |-> todo, absent |-> FALSE]
<1>1. work \in [Procs -> {Idle} \cup Indexing \cup Upserting]
  BY DEF IInv, TypeOK
<1>2. todo \in Seq(Ops)
  BY UpsertOps
<1>3. work' = [work EXCEPT ![w] = r]
  BY DEF UpsertCode
<1> HIDE DEF todo
<1>4. r \in Upserting /\ r.kind = "upsert"
  BY <1>2 DEF Upserting
<1> HIDE DEF r
<1>5. /\ work' \in [Procs -> {Idle} \cup Indexing \cup Upserting]
      /\ \A v \in Procs : work'[v] = work[v] \/ work'[v].kind # "index"
  BY <1>1, <1>3, <1>4
<1>6. UNCHANGED <<rel, last, drawn>> /\ \A x : SeenIn(entity, x) \subseteq SeenIn(entity', x)
  BY DEF UpsertCode
<1> QED
  BY <1>5, <1>6, WorkStep

\* A new row of the entity table takes none from any scope.
LEMMA NewEntity ==
    ASSUME NEW id, id \notin DOMAIN entity, NEW s, entity' = Put(entity, id, s)
    PROVE  id \in SeenIn(entity', s) /\ \A x : SeenIn(entity, x) \subseteq SeenIn(entity', x)
<1>1. DOMAIN entity' = DOMAIN entity \cup {id} /\ entity'[id] = s /\ \A k \in DOMAIN entity : entity'[k] = entity[k]
  BY DEF Put
<1> QED
  BY <1>1 DEF SeenIn

LEMMA CreateEntityKeeps ==
    ASSUME IInv, NEW s \in Scopes, NEW n \in HandNames, CreateEntity(s, n)
    PROVE  IInv'
<1>1. \A x : SeenIn(entity, x) \subseteq SeenIn(entity', x)
  BY NewEntity DEF CreateEntity
<1>2. work' = work /\ work' \in [Procs -> {Idle} \cup Indexing \cup Upserting] /\ UNCHANGED <<rel, last, drawn>>
  BY DEF CreateEntity, IInv, TypeOK
<1> QED
  BY <1>1, <1>2, WorkStep

LEMMA SelectKeeps == ASSUME IInv, NEW w \in Procs, Select(w) PROVE IInv'
<1>1. CASE Seen(work[w].scope, Here(w))
  <2>1. work' = Done(w) /\ Do(w, "node") /\ UNCHANGED <<entity, rel, last, drawn>>
    BY <1>1 DEF Select
  <2>2. \A s : SeenIn(entity, s) \subseteq SeenIn(entity', s) /\ SeenIn(entity', s) = SeenIn(entity, s)
    BY <2>1
  <2>3. Here(w) \in SeenIn(entity', work[w].scope)
    BY <1>1, <2>2, SeenIsSeenIn
  <2> QED
    BY <2>1, <2>2, <2>3, NodeDrawn
<1>2. CASE ~Seen(work[w].scope, Here(w))
  <2> DEFINE r == [work[w] EXCEPT !.absent = TRUE]
  <2>1. work' = [work EXCEPT ![w] = r] /\ UNCHANGED <<entity, rel, last, drawn>> /\ Working(w)
    BY <1>2 DEF Select, Do
  <2>2. work \in [Procs -> {Idle} \cup Indexing \cup Upserting]
    BY DEF IInv, TypeOK
  <2>3. work[w] \in Indexing \cup Upserting
    BY <2>1, WorkFacts DEF Working, IInv
  <2>4. CASE work[w] \in Upserting
    <3>1. r \in Upserting /\ r.kind = "upsert"
      BY <2>4 DEF Upserting
    <3> HIDE DEF r
    <3>2. /\ work' \in [Procs -> {Idle} \cup Indexing \cup Upserting]
          /\ \A v \in Procs : work'[v] = work[v] \/ work'[v].kind # "index"
      BY <2>1, <2>2, <3>1
    <3>3. \A s : SeenIn(entity, s) \subseteq SeenIn(entity', s)
      BY <2>1
    <3> QED
      BY <2>1, <3>2, <3>3, WorkStep
  <2>5. CASE work[w] \in Indexing
    <3>1. /\ r \in Indexing /\ r.kind = "index" /\ work[w].kind = "index" /\ r.run = work[w].run
          /\ r.scope = work[w].scope /\ r.path = work[w].path /\ r.pc = work[w].pc /\ r.todo = work[w].todo
      BY <2>5 DEF Indexing
    <3> HIDE DEF r
    <3>2. /\ work' \in [Procs -> {Idle} \cup Indexing \cup Upserting]
          /\ \A v \in Procs \ {w} : work'[v] = work[v]
          /\ work'[w] = r
      BY <2>1, <2>2, <3>1
    <3>3. \A s : SeenIn(entity, s) \subseteq SeenIn(entity', s) /\ SeenIn(entity', s) = SeenIn(entity, s)
      BY <2>1
    <3>4. OnScript(work[w]) /\ Supplied(work[w].todo, SeenIn(entity, work[w].scope))
      BY <3>1 DEF IInv, RunsOnScript
    <3>5. OnScript(work'[w]) /\ GoesOn(work[w], work'[w])
      BY <3>1, <3>2, <3>4 DEF OnScript, GoesOn
    <3>6. Supplied(work'[w].todo, SeenIn(entity', work'[w].scope))
      <4>1. SeenIn(entity', work'[w].scope) = SeenIn(entity, work[w].scope)
        BY <3>1, <3>2, <3>3
      <4> QED
        BY <3>1, <3>2, <3>4, <4>1
    <3>7. \A v \in Procs :
            \/ work'[v] = work[v] \/ work'[v].kind # "index"
            \/ /\ OnScript(work'[v]) /\ Supplied(work'[v].todo, SeenIn(entity', work'[v].scope))
               /\ work'[v].pc = "wipe" \/ GoesOn(work[v], work'[v])
      BY <3>2, <3>5, <3>6
    <3> QED
      BY <2>1, <3>2, <3>3, <3>7, WorkStep
  <2> QED
    BY <2>3, <2>4, <2>5
<1> QED
  BY <1>1, <1>2

LEMMA InsertKeeps == ASSUME IInv, NEW w \in Procs, Insert(w) PROVE IInv'
<1>1. CASE Here(w) \in DOMAIN entity
  <2>1. Stop(w) /\ UNCHANGED <<entity, rel, last, drawn>>
    BY <1>1 DEF Insert
  <2> QED
    BY <2>1, StopKeeps
<1>2. CASE Here(w) \notin DOMAIN entity
  <2>1. /\ entity' = Put(entity, Here(w), work[w].scope)
        /\ work' = Done(w) /\ Do(w, "node") /\ UNCHANGED <<rel, last, drawn>>
    BY <1>2 DEF Insert
  <2>2. Here(w) \in SeenIn(entity', work[w].scope) /\ \A s : SeenIn(entity, s) \subseteq SeenIn(entity', s)
    BY <1>2, <2>1, NewEntity
  <2> QED
    BY <2>1, <2>2, NodeDrawn
<1> QED
  BY <1>1, <1>2

LEMMA WipeKeeps == ASSUME IInv, NEW w \in Procs, Wipe(w) PROVE IInv'
<1>0. PICK s, f, run : s = work[w].scope /\ f = work[w].path /\ run = work[w].run
  OBVIOUS
<1> DEFINE r == [work[w] EXCEPT !.pc = "draw"]
           kept == {k \in DOMAIN rel : ~Wipes(s, f, k)}
           others == \E v \in Procs \ {w} : Busy(v, s, f)
<1>1. work \in [Procs -> {Idle} \cup Indexing \cup Upserting]
  BY DEF IInv, TypeOK
<1>2. work[w] \in Indexing /\ work[w].kind = "index" /\ work[w].pc = "wipe"
  <2>1. Working(w) /\ work[w].pc = "wipe"
    BY DEF Wipe
  <2>2. work[w] \in Indexing \cup Upserting
    BY <2>1, WorkFacts DEF Working, IInv
  <2> QED
    BY <2>1, <2>2 DEF Indexing, Upserting
<1>3. s \in Scopes /\ f \in Files /\ run \in Runs
  BY <1>0, <1>2 DEF Indexing
<1>4. /\ r \in Indexing /\ r.kind = "index" /\ r.pc = "draw" /\ r.scope = s /\ r.path = f
      /\ r.run = run /\ r.todo = work[w].todo
  BY <1>0, <1>2 DEF Indexing
<1>5. OnScript(work[w]) /\ Supplied(work[w].todo, SeenIn(entity, s)) /\ work[w].todo = ScriptOf[run]
  BY <1>0, <1>2 DEF IInv, RunsOnScript, OnScript
<1>6. /\ work' = [work EXCEPT ![w] = r] /\ UNCHANGED entity
      /\ rel' = Restrict(rel, kept) /\ last' = [last EXCEPT ![s][f] = run]
      /\ drawn' = [drawn EXCEPT ![s][f] = IF others THEN "mixed" ELSE "alone"]
  BY <1>0 DEF Wipe
<1>7. DOMAIN rel' = kept /\ \A k \in kept : rel'[k] = rel[k]
  BY <1>6 DEF Restrict
<1>8. /\ \A k \in DOMAIN rel' : k \in DOMAIN rel /\ rel'[k] = rel[k] /\ ~Wipes(s, f, k)
      /\ \A k \in DOMAIN rel : ~Wipes(s, f, k) => k \in DOMAIN rel' /\ rel'[k] = rel[k]
  BY <1>7
<1> HIDE DEF r, kept
<1>9. last \in [Scopes -> [Files -> Runs \cup {None}]]
      /\ drawn \in [Scopes -> [Files -> {"never", "alone", "whole", "mixed", "cut"}]]
  BY DEF IInv, TypeOK
<1>10. /\ last' \in [Scopes -> [Files -> Runs \cup {None}]]
       /\ \A s2 \in Scopes, f2 \in Files : last'[s2][f2] = IF s2 = s /\ f2 = f THEN run ELSE last[s2][f2]
  BY <1>3, <1>6, <1>9
<1> DEFINE how == IF others THEN "mixed" ELSE "alone"
<1>11. /\ drawn' \in [Scopes -> [Files -> {"never", "alone", "whole", "mixed", "cut"}]]
       /\ \A s2 \in Scopes, f2 \in Files : drawn'[s2][f2] = IF s2 = s /\ f2 = f THEN how ELSE drawn[s2][f2]
  <2>1. drawn' = [drawn EXCEPT ![s][f] = how] /\ how \in {"mixed", "alone"}
    BY <1>6
  <2> HIDE DEF how
  <2> QED
    BY <1>3, <1>9, <2>1
<1>12. /\ work' \in [Procs -> {Idle} \cup Indexing \cup Upserting]
       /\ work'[w] = r /\ \A v \in Procs \ {w} : work'[v] = work[v]
  BY <1>1, <1>4, <1>6
<1>13. TypeOK'
  BY <1>10, <1>11, <1>12 DEF TypeOK
<1>14. RowsOK'
  BY <1>8 DEF IInv, RowsOK
<1>15. EndsInScope'
  BY <1>6, <1>8 DEF IInv, EndsInScope, Seen
<1>16. RunsOnScript'
  <2>1. OnScript(r)
    BY <1>0, <1>4, <1>5 DEF OnScript
  <2>2. Supplied(r.todo, SeenIn(entity', r.scope))
    BY <1>4, <1>5, <1>6
  <2> QED
    BY <1>6, <1>12, <2>1, <2>2 DEF IInv, RunsOnScript
<1>17. \A v \in Procs, s2 \in Scopes, f2 \in Files :
         Busy(v, s2, f2)' => IF v = w THEN s2 = s /\ f2 = f ELSE Busy(v, s2, f2)
  BY <1>4, <1>12 DEF Busy
<1>18. BusyIsLast'
  <2>1. ASSUME NEW v \in Procs, NEW s2 \in Scopes, NEW f2 \in Files, Busy(v, s2, f2)', drawn'[s2][f2] # "mixed"
        PROVE  last'[s2][f2] = work'[v].run
    <3>1. CASE v = w
      BY <1>4, <1>10, <1>12, <1>17, <2>1, <3>1
    <3>2. CASE v # w
      <4>1. Busy(v, s2, f2)
        BY <1>17, <2>1, <3>2
      <4>2. ~(s2 = s /\ f2 = f)
        <5>1. CASE s2 = s /\ f2 = f
          <6>1. others
            BY <3>2, <4>1, <5>1
          <6> QED
            BY <1>11, <2>1, <5>1, <6>1
        <5> QED
          BY <5>1
      <4> QED
        BY <1>10, <1>11, <1>12, <2>1, <3>2, <4>1, <4>2 DEF IInv, BusyIsLast
    <3> QED
      BY <3>1, <3>2
  <2> QED
    BY <2>1 DEF BusyIsLast
<1>19. StaleGone'
  <2>1. ASSUME NEW k \in DOMAIN rel', rel'[k].by = "index", k[2] \in Deletable,
               drawn'[rel'[k].scope][rel'[k].path] # "mixed"
        PROVE  k \in Relations[last'[rel'[k].scope][rel'[k].path]]
    <3>1. k \in DOMAIN rel /\ rel'[k] = rel[k] /\ ~Wipes(s, f, k)
      BY <1>8, <2>1
    <3>2. rel[k].scope \in Scopes /\ rel[k].path \in Files
      BY <2>1, <3>1 DEF IInv, RowsOK
    <3>3. ~(rel[k].scope = s /\ rel[k].path = f)
      BY <2>1, <3>1 DEF Wipes
    <3> QED
      BY <1>10, <1>11, <2>1, <3>1, <3>2, <3>3 DEF IInv, StaleGone
  <2> QED
    BY <2>1 DEF StaleGone
<1>20. OwnDrawn'
  <2>1. ASSUME NEW s2 \in Scopes, NEW f2 \in Files, s2 # s \/ f2 # f
        PROVE  /\ \A k : OwnRow(s2, f2, k) => OwnRow(s2, f2, k)'
               /\ last'[s2][f2] = last[s2][f2] /\ drawn'[s2][f2] = drawn[s2][f2]
               /\ \A v \in Procs : Busy(v, s2, f2)' => Busy(v, s2, f2) /\ work'[v] = work[v]
    <3>1. ASSUME NEW k, OwnRow(s2, f2, k) PROVE OwnRow(s2, f2, k)'
      <4>1. ~Wipes(s, f, k)
        BY <2>1, <3>1 DEF OwnRow, Wipes
      <4> QED
        BY <1>8, <3>1, <4>1 DEF OwnRow
    <3> QED
      BY <1>10, <1>11, <1>12, <1>17, <2>1, <3>1
  <2>2. drawn'[s][f] \in {"mixed", "alone"} /\ last'[s][f] = run
    BY <1>3, <1>10, <1>11
  <2>3. ASSUME drawn'[s][f] = "alone", NEW v \in Procs, Busy(v, s, f)', NEW k \in OwnOf(run, f)
        PROVE  k \in RelsOf(work'[v].todo)
    <3>1. v = w
      <4>1. ~others
        BY <1>3, <1>11, <2>3
      <4> QED
        BY <1>3, <1>17, <2>3, <4>1
    <3>2. RelsOf(work'[w].todo) = Relations[run]
      BY <1>3, <1>4, <1>5, <1>12, ScriptFacts
    <3> QED
      BY <2>3, <3>1, <3>2 DEF OwnOf
  <2>4. ASSUME NEW s2 \in Scopes, NEW f2 \in Files
        PROVE  /\ drawn'[s2][f2] = "whole" => \A k \in OwnOf(last'[s2][f2], f2) : OwnRow(s2, f2, k)'
               /\ drawn'[s2][f2] = "alone" => \A v \in Procs : Busy(v, s2, f2)' =>
                    \A k \in OwnOf(last'[s2][f2], f2) : OwnRow(s2, f2, k)' \/ k \in RelsOf(work'[v].todo)
    <3>1. CASE s2 = s /\ f2 = f
      BY <2>2, <2>3, <3>1
    <3>2. CASE s2 # s \/ f2 # f
      BY <2>1, <3>2 DEF IInv, OwnDrawn
    <3> QED
      BY <3>1, <3>2
  <2>5. \A run2, f2 : OwnOf(run2, f2)' = OwnOf(run2, f2)
    BY DEF OwnOf
  <2> QED
    BY <2>4 DEF OwnDrawn
<1> QED
  BY <1>13, <1>14, <1>15, <1>16, <1>18, <1>19, <1>20 DEF IInv

\* What a write of a relation with both ends in its scope does to the table.
LEMMA WrittenFacts ==
    ASSUME IInv, NEW k, NEW s \in Scopes, Seen(s, k[1]), Seen(s, k[3]), NEW by, NEW path, rel' = Written(s, k, by, path)
    PROVE  /\ DOMAIN rel' = DOMAIN rel \cup {k}
           /\ rel'[k].scope = s /\ rel'[k].by = by /\ rel'[k].path = path
           /\ \A j \in DOMAIN rel : j # k => rel'[j] = rel[j]
           /\ \A s2, f2 : OwnRow(s2, f2, k) => s2 = s
<1> DEFINE r == [scope |-> IF k \in DOMAIN rel THEN rel[k].scope ELSE s, by |-> by, path |-> path]
<1>1. k \in DOMAIN rel => rel[k].scope = s
  BY DEF IInv, EndsInScope, Seen
<1>2. r.scope = s /\ r.by = by /\ r.path = path
  BY <1>1
<1>3. rel' = Put(rel, k, r)
  BY DEF Written
<1> HIDE DEF r
<1>4. DOMAIN rel' = DOMAIN rel \cup {k} /\ rel'[k] = r /\ \A j \in DOMAIN rel : j # k => rel'[j] = rel[j]
  BY <1>3 DEF Put
<1> QED
  BY <1>1, <1>2, <1>4 DEF OwnRow

LEMMA IndexRelateKeeps == ASSUME IInv, NEW w \in Procs, Relate(w), work[w].kind = "index" PROVE IInv'
<1>0. PICK s, f, run, k : s = work[w].scope /\ f = work[w].path /\ run = work[w].run /\ k = Here(w)
  OBVIOUS
<1> DEFINE todo == work[w].todo
<1>1. work[w] \in Indexing /\ s \in Scopes /\ f \in Files /\ run \in Runs /\ TypeOK
  <2>1. work[w] \in Indexing
    BY WorkFacts DEF IInv
  <2> QED
    BY <1>0, <2>1 DEF Indexing, IInv
<1>2. /\ Do(w, "rel") /\ rel' = Written(s, k, "index", f) /\ drawn' = drawn /\ work' = Done(w)
      /\ UNCHANGED <<entity, last>>
  BY <1>0 DEF Relate
<1>3. /\ work' \in [Procs -> {Idle} \cup Indexing \cup Upserting]
      /\ \A v \in Procs \ {w} : work'[v] = work[v]
      /\ IsSeq(todo) /\ todo # <<>> /\ Head(todo).op = "rel" /\ k = Head(todo).id /\ work'[w].todo = Tail(todo)
      /\ work'[w].kind = "index" /\ work'[w].scope = s /\ work'[w].path = f
      /\ work'[w].pc = "draw" /\ work[w].pc = "draw" /\ work'[w].run = run
  BY <1>0, <1>1, <1>2, DoneFacts DEF Do, Here
<1>4. f = run[2] /\ RelsOf(todo) \subseteq Relations[run] /\ Supplied(todo, SeenIn(entity, s))
  BY <1>0 DEF IInv, RunsOnScript, OnScript
<1>5. k \in RelsOf(todo) /\ RelsOf(Tail(todo)) \subseteq RelsOf(todo)
      /\ \A j \in RelsOf(todo) : j \in RelsOf(Tail(todo)) \/ j = k
  BY <1>3, TailRels
<1>6. Seen(s, k[1]) /\ Seen(s, k[3]) /\ Supplied(Tail(todo), SeenIn(entity, s))
  BY <1>3, <1>4, TailSupplied, SeenIsSeenIn
<1>7. StartsAt(run[1], f, k)
  BY <1>1, <1>4, <1>5, ScriptFacts
<1>8. /\ DOMAIN rel' = DOMAIN rel \cup {k}
      /\ rel'[k].scope = s /\ rel'[k].by = "index" /\ rel'[k].path = f
      /\ \A j \in DOMAIN rel : j # k => rel'[j] = rel[j]
      /\ \A s2, f2 : OwnRow(s2, f2, k) => s2 = s
  BY <1>1, <1>2, <1>6, WrittenFacts
<1>9. Busy(w, s, f)
  BY <1>0, <1>3 DEF Busy
<1> HIDE DEF todo
<1>10. TypeOK'
  BY <1>1, <1>2, <1>3 DEF TypeOK
<1>11. RowsOK'
  BY <1>1, <1>8 DEF IInv, RowsOK
<1>12. EndsInScope'
  BY <1>2, <1>6, <1>8 DEF IInv, EndsInScope, Seen
<1>13. RunsOnScript'
  <2>1. OnScript(work'[w]) /\ Supplied(work'[w].todo, SeenIn(entity', work'[w].scope))
    BY <1>2, <1>3, <1>4, <1>5, <1>6 DEF OnScript
  <2> QED
    BY <1>2, <1>3, <2>1 DEF IInv, RunsOnScript
<1>14. \A v \in Procs, s2 \in Scopes, f2 \in Files : Busy(v, s2, f2)' => Busy(v, s2, f2) /\ work'[v].run = work[v].run
  BY <1>0, <1>3 DEF Busy
<1>15. BusyIsLast'
  BY <1>2, <1>14 DEF IInv, BusyIsLast
<1>16. StaleGone'
  <2>1. ASSUME NEW j \in DOMAIN rel', rel'[j].by = "index", j[2] \in Deletable,
               drawn[rel'[j].scope][rel'[j].path] # "mixed"
        PROVE  j \in Relations[last[rel'[j].scope][rel'[j].path]]
    <3>1. CASE j = k
      <4>1. drawn[s][f] # "mixed"
        BY <1>8, <2>1, <3>1
      <4>2. last[s][f] = run
        BY <1>0, <1>1, <1>9, <4>1 DEF IInv, BusyIsLast
      <4> QED
        BY <1>4, <1>5, <1>8, <3>1, <4>2
    <3>2. CASE j # k
      BY <1>8, <2>1, <3>2 DEF IInv, StaleGone
    <3> QED
      BY <3>1, <3>2
  <2> QED
    BY <1>2, <2>1 DEF StaleGone
<1>17. OwnDrawn'
  <2>1. ASSUME NEW s2 \in Scopes, NEW f2 \in Files, NEW j \in OwnOf(last[s2][f2], f2), OwnRow(s2, f2, j)
        PROVE  OwnRow(s2, f2, j)'
    <3>1. CASE j # k
      BY <1>8, <2>1, <3>1 DEF OwnRow
    <3>2. CASE j = k
      <4>1. s2 = s
        BY <1>8, <2>1, <3>2
      <4>2. f2 = f
        BY <1>7, <2>1, <3>2 DEF OwnOf, Own, Owned, StartsAt
      <4> QED
        BY <1>8, <3>2, <4>1, <4>2 DEF OwnRow
    <3> QED
      BY <3>1, <3>2
  <2>2. OwnRow(s, f, k)'
    BY <1>8 DEF OwnRow
  <2>3. ASSUME NEW s2 \in Scopes, NEW f2 \in Files, NEW v \in Procs, Busy(v, s2, f2)',
               NEW j \in OwnOf(last[s2][f2], f2), j \in RelsOf(work[v].todo)
        PROVE  OwnRow(s2, f2, j)' \/ j \in RelsOf(work'[v].todo)
    <3>1. CASE v # w
      BY <1>3, <2>3, <3>1
    <3>2. CASE v = w
      <4>1. s2 = s /\ f2 = f
        BY <1>3, <2>3, <3>2 DEF Busy
      <4>2. j \in RelsOf(work'[w].todo) \/ j = k
        BY <1>3, <1>5, <2>3, <3>2 DEF todo
      <4> QED
        BY <2>2, <3>2, <4>1, <4>2
    <3> QED
      BY <3>1, <3>2
  <2>4. ASSUME NEW s2 \in Scopes, NEW f2 \in Files
        PROVE  /\ drawn[s2][f2] = "whole" => \A j \in OwnOf(last[s2][f2], f2) : OwnRow(s2, f2, j)'
               /\ drawn[s2][f2] = "alone" => \A v \in Procs : Busy(v, s2, f2)' =>
                    \A j \in OwnOf(last[s2][f2], f2) : OwnRow(s2, f2, j)' \/ j \in RelsOf(work'[v].todo)
    <3>1. CASE drawn[s2][f2] = "whole"
      BY <2>1, <3>1 DEF IInv, OwnDrawn
    <3>2. ASSUME drawn[s2][f2] = "alone", NEW v \in Procs, Busy(v, s2, f2)', NEW j \in OwnOf(last[s2][f2], f2)
          PROVE  OwnRow(s2, f2, j)' \/ j \in RelsOf(work'[v].todo)
      <4>1. OwnRow(s2, f2, j) \/ j \in RelsOf(work[v].todo)
        BY <1>14, <3>2 DEF IInv, OwnDrawn
      <4> QED
        BY <2>1, <2>3, <3>2, <4>1
    <3> QED
      BY <3>1, <3>2
  <2> QED
    BY <1>2, <2>4 DEF OwnDrawn
<1> QED
  BY <1>10, <1>11, <1>12, <1>13, <1>15, <1>16, <1>17 DEF IInv

\* A tool call writes a relation between two entities of its scope.
LEMMA HandWritten ==
    ASSUME IInv, NEW k, NEW s \in Scopes, Seen(s, k[1]), Seen(s, k[3]),
           NEW by, by # "index", NEW path, by = "tool" => path = None,
           rel' = Written(s, k, by, path), drawn' = Cut(k), UNCHANGED <<entity, last>>,
           work' \in [Procs -> {Idle} \cup Indexing \cup Upserting],
           \A v \in Procs : work'[v] = work[v] \/ work'[v].kind # "index"
    PROVE  IInv'
<1>1. /\ DOMAIN rel' = DOMAIN rel \cup {k}
      /\ rel'[k].scope = s /\ rel'[k].by = by /\ rel'[k].path = path
      /\ \A j \in DOMAIN rel : j # k => rel'[j] = rel[j]
  <2> DEFINE r == [scope |-> IF k \in DOMAIN rel THEN rel[k].scope ELSE s, by |-> by, path |-> path]
  <2>1. k \in DOMAIN rel => rel[k].scope = s
    BY DEF IInv, EndsInScope, Seen
  <2>2. r.scope = s /\ r.by = by /\ r.path = path
    BY <2>1
  <2>3. rel' = Put(rel, k, r)
    BY DEF Written
  <2> HIDE DEF r
  <2>4. DOMAIN rel' = DOMAIN rel \cup {k} /\ rel'[k] = r /\ \A j \in DOMAIN rel : j # k => rel'[j] = rel[j]
    BY <2>3 DEF Put
  <2> QED
    BY <2>2, <2>4
<1>2. /\ drawn' \in [Scopes -> [Files -> {"never", "alone", "whole", "mixed", "cut"}]]
      /\ \A s2 \in Scopes, f2 \in Files :
           /\ drawn'[s2][f2] = drawn[s2][f2] \/ (drawn'[s2][f2] = "cut" /\ drawn[s2][f2] # "mixed")
           /\ OwnRow(s2, f2, k) /\ drawn[s2][f2] \in {"alone", "whole"} => drawn'[s2][f2] = "cut"
  BY CutFacts DEF IInv
<1>3. TypeOK'
  BY <1>2 DEF IInv, TypeOK
<1>4. RowsOK'
  BY <1>1 DEF IInv, RowsOK
<1>5. EndsInScope'
  BY <1>1 DEF IInv, EndsInScope, Seen
<1>6. RunsOnScript'
  BY DEF IInv, RunsOnScript
<1>7. \A v \in Procs, s2 \in Scopes, f2 \in Files : Busy(v, s2, f2)' => Busy(v, s2, f2) /\ work'[v] = work[v]
  BY DEF Busy
<1>8. BusyIsLast'
  BY <1>2, <1>7 DEF IInv, BusyIsLast
<1>9. StaleGone'
  <2>1. ASSUME NEW j \in DOMAIN rel', rel'[j].by = "index", j[2] \in Deletable,
               drawn'[rel'[j].scope][rel'[j].path] # "mixed"
        PROVE  j \in Relations[last[rel'[j].scope][rel'[j].path]]
    <3>1. j \in DOMAIN rel /\ rel'[j] = rel[j]
      BY <1>1, <2>1
    <3>2. rel[j].scope \in Scopes /\ rel[j].path \in Files
      BY <2>1, <3>1 DEF IInv, RowsOK
    <3> QED
      BY <1>2, <2>1, <3>1, <3>2 DEF IInv, StaleGone
  <2> QED
    BY <2>1 DEF StaleGone
<1>10. OwnDrawn'
  <2>1. ASSUME NEW s2 \in Scopes, NEW f2 \in Files, drawn'[s2][f2] \in {"alone", "whole"}, NEW j, OwnRow(s2, f2, j)
        PROVE  OwnRow(s2, f2, j)' /\ drawn[s2][f2] = drawn'[s2][f2]
    <3>1. j # k /\ drawn[s2][f2] = drawn'[s2][f2]
      BY <1>2, <2>1
    <3> QED
      BY <1>1, <2>1, <3>1 DEF OwnRow
  <2>2. \A s2 \in Scopes, f2 \in Files : drawn'[s2][f2] \in {"alone", "whole"} => drawn[s2][f2] = drawn'[s2][f2]
    BY <1>2
  <2> QED
    BY <1>7, <2>1, <2>2 DEF IInv, OwnDrawn
<1> QED
  BY <1>3, <1>4, <1>5, <1>6, <1>8, <1>9, <1>10 DEF IInv

LEMMA UpsertRelateKeeps == ASSUME IInv, NEW w \in Procs, Relate(w), work[w].kind # "index" PROVE IInv'
<1>0. PICK s, k : s = work[w].scope /\ k = Here(w)
  OBVIOUS
<1>1. Working(w) /\ work[w].todo # <<>>
  BY DEF Relate, Do
<1>2. work[w] \in Upserting /\ work[w].kind = "upsert" /\ s \in Scopes
  <2>1. work[w] \in Upserting /\ work[w].kind = "upsert"
    BY <1>1, WorkFacts DEF IInv, Working
  <2> QED
    BY <1>0, <2>1 DEF Upserting
<1>3. CASE Seen(s, k[1]) /\ Seen(s, k[3])
  <2>1. rel' = Written(s, k, "agent", work[w].path) /\ drawn' = Cut(k) /\ work' = Done(w) /\ UNCHANGED <<entity, last>>
    BY <1>0, <1>2, <1>3 DEF Relate
  <2>2. /\ work' \in [Procs -> {Idle} \cup Indexing \cup Upserting]
        /\ \A v \in Procs : work'[v] = work[v] \/ work'[v].kind # "index"
    BY <1>1, <1>2, <2>1, DoneFacts DEF IInv
  <2> QED
    BY <1>2, <1>3, <2>1, <2>2, HandWritten
<1>4. CASE ~(Seen(s, k[1]) /\ Seen(s, k[3]))
  <2>1. Stop(w) /\ UNCHANGED <<entity, rel, last, drawn>>
    BY <1>0, <1>2, <1>4 DEF Relate
  <2> QED
    BY <2>1, StopKeeps
<1> QED
  BY <1>3, <1>4

LEMMA AddRelationKeeps ==
    ASSUME IInv, NEW s \in Scopes, NEW k \in Links, AddRelation(s, k)
    PROVE  IInv'
<1>1. Seen(s, k[1]) /\ Seen(s, k[3]) /\ rel' = Written(s, k, "tool", None) /\ drawn' = Cut(k)
      /\ UNCHANGED <<entity, last>> /\ work' = work
  BY DEF AddRelation, Ends
<1>2. work' \in [Procs -> {Idle} \cup Indexing \cup Upserting] /\ \A v \in Procs : work'[v] = work[v]
  BY <1>1 DEF IInv, TypeOK
<1> QED
  BY <1>1, <1>2, HandWritten

LEMMA RemoveRelationKeeps ==
    ASSUME IInv, NEW s \in Scopes, NEW k \in Links, RemoveRelation(s, k)
    PROVE  IInv'
<1>1. rel' = Restrict(rel, DOMAIN rel \ {k}) /\ drawn' = Cut(k) /\ UNCHANGED <<entity, last, work>>
  BY DEF RemoveRelation
<1>2. DOMAIN rel' = DOMAIN rel \ {k} /\ \A j \in DOMAIN rel : j # k => rel'[j] = rel[j]
  BY <1>1 DEF Restrict
<1>3. /\ drawn' \in [Scopes -> [Files -> {"never", "alone", "whole", "mixed", "cut"}]]
      /\ \A s2 \in Scopes, f2 \in Files :
           /\ drawn'[s2][f2] = drawn[s2][f2] \/ (drawn'[s2][f2] = "cut" /\ drawn[s2][f2] # "mixed")
           /\ OwnRow(s2, f2, k) /\ drawn[s2][f2] \in {"alone", "whole"} => drawn'[s2][f2] = "cut"
  BY <1>1, CutFacts DEF IInv
<1>4. TypeOK' /\ RowsOK'
  <2>1. TypeOK'
    BY <1>1, <1>3 DEF IInv, TypeOK
  <2>2. RowsOK'
    BY <1>2 DEF IInv, RowsOK
  <2> QED
    BY <2>1, <2>2
<1>5. EndsInScope' /\ RunsOnScript'
  BY <1>1, <1>2 DEF IInv, EndsInScope, Seen, RunsOnScript
<1>6. \A v \in Procs, s2 \in Scopes, f2 \in Files : Busy(v, s2, f2)' <=> Busy(v, s2, f2)
  BY <1>1 DEF Busy
<1>7. BusyIsLast'
  BY <1>1, <1>3, <1>6 DEF IInv, BusyIsLast
<1>8. StaleGone'
  <2>1. ASSUME NEW j \in DOMAIN rel', rel'[j].by = "index", j[2] \in Deletable,
               drawn'[rel'[j].scope][rel'[j].path] # "mixed"
        PROVE  j \in Relations[last[rel'[j].scope][rel'[j].path]]
    <3>1. j \in DOMAIN rel /\ rel'[j] = rel[j]
      BY <1>2, <2>1
    <3>2. rel[j].scope \in Scopes /\ rel[j].path \in Files
      BY <2>1, <3>1 DEF IInv, RowsOK
    <3> QED
      BY <1>3, <2>1, <3>1, <3>2 DEF IInv, StaleGone
  <2> QED
    BY <1>1, <2>1 DEF StaleGone
<1>9. OwnDrawn'
  <2>1. ASSUME NEW s2 \in Scopes, NEW f2 \in Files, drawn'[s2][f2] \in {"alone", "whole"}, NEW j, OwnRow(s2, f2, j)
        PROVE  OwnRow(s2, f2, j)'
    <3>1. j # k
      BY <1>3, <2>1
    <3> QED
      BY <1>2, <2>1, <3>1 DEF OwnRow
  <2>2. \A s2 \in Scopes, f2 \in Files : drawn'[s2][f2] \in {"alone", "whole"} => drawn[s2][f2] = drawn'[s2][f2]
    BY <1>3
  <2> QED
    BY <1>1, <1>6, <2>1, <2>2 DEF IInv, OwnDrawn
<1> QED
  BY <1>4, <1>5, <1>7, <1>8, <1>9 DEF IInv

LEMMA FinishKeeps == ASSUME IInv, NEW w \in Procs, Finish(w) PROVE IInv'
<1>1. Stop(w) /\ UNCHANGED <<entity, rel, last>> /\ Working(w) /\ work[w].pc = "draw" /\ work[w].todo = <<>>
  BY DEF Finish
<1>2. CASE drawn' = drawn
  BY <1>1, <1>2, StopKeeps
<1>3. CASE drawn' # drawn
  <2>0. PICK s, f : s = work[w].scope /\ f = work[w].path
    OBVIOUS
  <2>1. /\ work[w].kind = "index" /\ drawn[s][f] = "alone"
        /\ drawn' = [drawn EXCEPT ![s][f] = "whole"]
    BY <1>3, <2>0 DEF Finish
  <2>2. work[w] \in Indexing /\ s \in Scopes /\ f \in Files
    <3>1. work[w] \in Indexing
      BY <2>1, WorkFacts DEF IInv
    <3> QED
      BY <2>0, <3>1 DEF Indexing
  <2>3. work \in [Procs -> {Idle} \cup Indexing \cup Upserting]
        /\ drawn \in [Scopes -> [Files -> {"never", "alone", "whole", "mixed", "cut"}]]
    BY DEF IInv, TypeOK
  <2>4. work' = [work EXCEPT ![w] = Idle] /\ Idle.kind = "idle"
    BY <1>1 DEF Stop, Idle
  <2>5. /\ work' \in [Procs -> {Idle} \cup Indexing \cup Upserting]
        /\ \A v \in Procs : work'[v] = work[v] \/ (v = w /\ work'[v].kind = "idle")
    BY <2>3, <2>4
  <2>6. /\ drawn' \in [Scopes -> [Files -> {"never", "alone", "whole", "mixed", "cut"}]]
        /\ \A s2 \in Scopes, f2 \in Files : drawn'[s2][f2] = IF s2 = s /\ f2 = f THEN "whole" ELSE drawn[s2][f2]
    BY <2>1, <2>2, <2>3
  <2>7. TypeOK' /\ RowsOK' /\ EndsInScope'
    BY <1>1, <2>5, <2>6 DEF IInv, TypeOK, RowsOK, EndsInScope, Seen
  <2>8. RunsOnScript'
    BY <1>1, <2>5 DEF IInv, RunsOnScript
  <2>9. \A v \in Procs, s2 \in Scopes, f2 \in Files : Busy(v, s2, f2)' => Busy(v, s2, f2) /\ work'[v] = work[v]
    BY <2>5 DEF Busy
  <2>10. BusyIsLast'
    BY <1>1, <2>1, <2>6, <2>9 DEF IInv, BusyIsLast
  <2>11. StaleGone'
    BY <1>1, <2>1, <2>6 DEF IInv, StaleGone, RowsOK
  <2>12. \A j \in OwnOf(last[s][f], f) : OwnRow(s, f, j)
    <3>1. Busy(w, s, f)
      BY <1>1, <2>0, <2>1 DEF Busy
    <3>2. RelsOf(work[w].todo) = {}
      BY <1>1 DEF RelsOf
    <3> QED
      BY <2>1, <2>2, <3>1, <3>2 DEF IInv, OwnDrawn
  <2>13. OwnDrawn'
    <3>1. \A s2, f2, j : OwnRow(s2, f2, j)' <=> OwnRow(s2, f2, j)
      BY <1>1 DEF OwnRow
    <3>2. ASSUME NEW s2 \in Scopes, NEW f2 \in Files
          PROVE  /\ drawn'[s2][f2] = "whole" => \A j \in OwnOf(last[s2][f2], f2) : OwnRow(s2, f2, j)
                 /\ drawn'[s2][f2] = "alone" => \A v \in Procs : Busy(v, s2, f2)' =>
                      \A j \in OwnOf(last[s2][f2], f2) : OwnRow(s2, f2, j) \/ j \in RelsOf(work'[v].todo)
      BY <2>6, <2>9, <2>12 DEF IInv, OwnDrawn
    <3> QED
      BY <1>1, <3>1, <3>2 DEF OwnDrawn
  <2> QED
    BY <2>7, <2>8, <2>10, <2>11, <2>13 DEF IInv
<1> QED
  BY <1>2, <1>3

LEMMA InitInv == Init => IInv
<1> SUFFICES ASSUME Init PROVE IInv
  OBVIOUS
<1>1. DOMAIN rel = {} /\ \A w \in Procs : work[w] = Idle /\ Idle.kind = "idle"
  BY DEF Init, Idle
<1>2. TypeOK
  BY DEF Init, TypeOK
<1>3. RowsOK /\ EndsInScope /\ StaleGone
  BY <1>1 DEF RowsOK, EndsInScope, StaleGone
<1>4. RunsOnScript /\ BusyIsLast
  BY <1>1 DEF RunsOnScript, BusyIsLast, Busy
<1>5. OwnDrawn
  BY DEF Init, OwnDrawn
<1> QED
  BY <1>2, <1>3, <1>4, <1>5 DEF IInv

LEMMA NextKeeps == IInv /\ [Next]_vars => IInv'
<1> SUFFICES ASSUME IInv, [Next]_vars PROVE IInv'
  OBVIOUS
<1>1. CASE UNCHANGED vars
  <2>1. UNCHANGED <<rel, last, drawn>> /\ work' = work /\ \A s : SeenIn(entity, s) \subseteq SeenIn(entity', s)
    BY <1>1 DEF vars
  <2>2. work' \in [Procs -> {Idle} \cup Indexing \cup Upserting]
    BY <2>1 DEF IInv, TypeOK
  <2> QED
    BY <2>1, <2>2, WorkStep
<1>2. ASSUME NEW w \in Procs, NEW run \in Runs, Reindex(w, run) PROVE IInv'
  BY <1>2, ReindexKeeps
<1>3. ASSUME NEW w \in Procs, Wipe(w) PROVE IInv'
  BY <1>3, WipeKeeps
<1>4. ASSUME NEW w \in Procs, Select(w) PROVE IInv'
  BY <1>4, SelectKeeps
<1>5. ASSUME NEW w \in Procs, Insert(w) PROVE IInv'
  BY <1>5, InsertKeeps
<1>6. ASSUME NEW w \in Procs, Relate(w) PROVE IInv'
  BY <1>6, IndexRelateKeeps, UpsertRelateKeeps
<1>7. ASSUME NEW w \in Procs, Finish(w) PROVE IInv'
  BY <1>7, FinishKeeps
<1>8. ASSUME NEW w \in Procs, Crash(w) PROVE IInv'
  BY <1>8, StopKeeps DEF Crash
<1>9. ASSUME NEW w \in Procs, NEW s \in Scopes, NEW k \in Links, NEW nodes \in {<<k[1]>>, <<k[1], k[3]>>},
             UpsertCode(w, s, nodes, k)
      PROVE  IInv'
  BY <1>9, UpsertCodeKeeps
<1>10. ASSUME NEW s \in Scopes, NEW n \in HandNames, CreateEntity(s, n) PROVE IInv'
  BY <1>10, CreateEntityKeeps
<1>11. ASSUME NEW s \in Scopes, NEW k \in Links, AddRelation(s, k) PROVE IInv'
  BY <1>11, AddRelationKeeps
<1>12. ASSUME NEW s \in Scopes, NEW k \in Links, RemoveRelation(s, k) PROVE IInv'
  BY <1>12, RemoveRelationKeeps
<1> QED
  BY <1>1, <1>2, <1>3, <1>4, <1>5, <1>6, <1>7, <1>8, <1>9, <1>10, <1>11, <1>12 DEF Next

\* The inductive invariant holds throughout: every row and every run is of its type, what a run still
\* has to draw lies on its script, and a run alone on its path has drawn or will draw what is its own.
THEOREM GraphInvariant == Spec => []IInv
<1>1. Init => IInv
  BY InitInv
<1>2. IInv /\ [Next]_vars => IInv'
  BY NextKeeps
<1> QED
  BY <1>1, <1>2, PTL DEF Spec

\* Both ends of every relation are entities of its own scope, in every interleaving of the indexer,
\* graph.code.upsert and graph.rel.add, and whatever a crash or a failed INSERT leaves half done.
THEOREM EndsStayInScope == Spec => []EndsInScope
<1>1. IInv => EndsInScope
  BY DEF IInv
<1> QED
  BY <1>1, GraphInvariant, PTL

\* No relation of the six deleted types that an older content drew is left beside the last run on the
\* path, unless runs on that path overlapped.
THEOREM NoStaleRelation == Spec => []StaleGone
<1>1. IInv => StaleGone
  BY DEF IInv
<1> QED
  BY <1>1, GraphInvariant, PTL

\* A path whose last run ended alone and untouched by tools has every relation that is the file's own.
THEOREM OwnRelationsStay == Spec => []OwnRelationsKept
<1>1. IInv => OwnRelationsKept
  BY DEF IInv, OwnDrawn, OwnRelationsKept, OwnOf, OwnRow
<1> QED
  BY <1>1, GraphInvariant, PTL

\* Only a tool call takes a relation away that graph.rel.add drew.
THEOREM ToolRelationsStay == Spec => ToolRelationsKept
<1>1. IInv /\ [Next]_vars =>
        [\A k \in DOMAIN rel : rel[k].by = "tool" /\ k \notin DOMAIN rel' => calls' = calls + 1]_vars
  <2> SUFFICES ASSUME IInv, Next, NEW k \in DOMAIN rel, rel[k].by = "tool", k \notin DOMAIN rel'
               PROVE  calls' = calls + 1
    OBVIOUS
  <2>1. ASSUME NEW w \in Procs, Wipe(w) PROVE FALSE
    <3>1. Working(w) /\ work[w].pc = "wipe"
      BY <2>1 DEF Wipe
    <3>2. work[w].path \in Files
      BY <3>1, WorkFacts DEF IInv, Working, Indexing, Upserting
    <3>3. rel[k].path = None
      BY DEF IInv, RowsOK
    <3>4. ~Wipes(work[w].scope, work[w].path, k)
      BY <3>2, <3>3, NoneAssumption DEF Wipes
    <3>5. k \in DOMAIN rel'
      BY <2>1, <3>4 DEF Wipe, Restrict
    <3> QED
      BY <3>5
  <2>2. ASSUME NEW w \in Procs, Relate(w) PROVE FALSE
    <3>1. \A s, j, by, path : DOMAIN rel \subseteq DOMAIN Written(s, j, by, path)
      BY DEF Written, Put
    <3> QED
      BY <2>2, <3>1 DEF Relate
  <2>3. ASSUME NEW w \in Procs, NEW run \in Runs, Reindex(w, run) PROVE FALSE
    BY <2>3 DEF Reindex
  <2>4. ASSUME NEW w \in Procs, Select(w) \/ Insert(w) \/ Finish(w) \/ Crash(w) PROVE FALSE
    BY <2>4 DEF Select, Insert, Finish, Crash
  <2>5. ASSUME NEW w \in Procs, NEW s \in Scopes, NEW l \in Links, NEW nodes \in {<<l[1]>>, <<l[1], l[3]>>},
               UpsertCode(w, s, nodes, l)
        PROVE  FALSE
    BY <2>5 DEF UpsertCode
  <2>6. ASSUME NEW s \in Scopes, NEW n \in HandNames, CreateEntity(s, n) PROVE FALSE
    BY <2>6 DEF CreateEntity
  <2>7. ASSUME NEW s \in Scopes, NEW l \in Links, AddRelation(s, l) \/ RemoveRelation(s, l) PROVE calls' = calls + 1
    BY <2>7 DEF AddRelation, RemoveRelation
  <2> QED
    BY <2>1, <2>2, <2>3, <2>4, <2>5, <2>6, <2>7 DEF Next
<1> QED
  BY <1>1, GraphInvariant, PTL DEF Spec, ToolRelationsKept

-----------------------------------------------------------------------------
(***************************************************************************)
(* Traversals.  The ends of every relation of a scope are in the scope, so *)
(* a level that is expanded loses nothing, however often the relations     *)
(* lead back.                                                              *)
(***************************************************************************)
\* One level of traverseGraph, and one more relation.
NextLevel(s, coded, prev) ==
    LET fresh == prev.level \ prev.visited
    IN [level |-> UNION {Across(s, n, coded) : n \in {m \in fresh : Seen(s, m)}}, visited |-> prev.visited \cup fresh]
Further(s, coded, nearer) == nearer \cup UNION {Across(s, n, coded) : n \in nearer}

Levelled(s, start, depth, coded, at) ==
    /\ at[0] = [level |-> {start}, visited |-> {}]
    /\ \A i \in 1..depth : at[i] = NextLevel(s, coded, at[i - 1])

Widened(s, start, depth, coded, within) ==
    /\ within[1] = {start} \cap {n \in DOMAIN entity : entity[n] = s}
    /\ \A i \in 2..depth : within[i] = Further(s, coded, within[i - 1])

\* Every node a traversal can meet.
Ground(start) == {start} \cup {k[1] : k \in DOMAIN rel} \cup {k[3] : k \in DOMAIN rel}

LEMMA AcrossGround == ASSUME NEW s, NEW n, NEW coded, NEW start PROVE Across(s, n, coded) \subseteq Ground(start)
BY DEF Across, Touching, Ground

LEMMA LevelsFacts ==
    ASSUME NEW s, NEW start, NEW depth \in Nat, NEW coded
    PROVE  \E at : Levelled(s, start, depth, coded, at) /\ Levels(s, start, depth, coded) = at[depth]
<1> DEFINE V == [level : SUBSET Ground(start), visited : SUBSET Ground(start)]
           a == [level |-> {start}, visited |-> {}]
           step == [i \in 1..depth |-> [prev \in V |-> NextLevel(s, coded, prev)]]
           at == CHOOSE at : at = [i \in 0..depth |->
               IF i = 0 THEN [level |-> {start}, visited |-> {}]
               ELSE LET prev == at[i - 1]
                        fresh == prev.level \ prev.visited
                    IN [level |-> UNION {Across(s, n, coded) : n \in {m \in fresh : Seen(s, m)}},
                        visited |-> prev.visited \cup fresh]]
<1>1. a \in V
  BY DEF Ground
<1>2. step \in [1..depth -> [V -> V]]
  <2>1. ASSUME NEW prev \in V PROVE NextLevel(s, coded, prev) \in V
    BY AcrossGround DEF NextLevel
  <2> QED
    BY <2>1
<1>3. PICK g \in [0..depth -> V] : g[0] = a /\ \A i \in 1..depth : g[i] = step[i][g[i - 1]]
  <2> HIDE DEF V, a, step
  <2>1. Solvable(depth, V, a, step)
    BY <1>1, <1>2, Recursion
  <2> QED
    BY <2>1 DEF Solvable
<1>4. \A i \in 1..depth : i \in 0..depth /\ i - 1 \in 0..depth /\ i # 0
  OBVIOUS
<1>5. \A i \in 1..depth : g[i] = NextLevel(s, coded, g[i - 1])
  <2> HIDE DEF V
  <2> QED
    BY <1>3, <1>4
<1>6. g = [i \in 0..depth |-> IF i = 0 THEN a ELSE NextLevel(s, coded, g[i - 1])]
  <2>1. \A i \in 0..depth : g[i] = IF i = 0 THEN a ELSE NextLevel(s, coded, g[i - 1])
    <3>1. \A i \in 0..depth : i = 0 \/ i \in 1..depth
      OBVIOUS
    <3> HIDE DEF a
    <3> QED
      BY <1>3, <1>5, <3>1
  <2> HIDE DEF V, a
  <2> QED
    BY <1>3, <2>1
<1>7. at = [i \in 0..depth |-> IF i = 0 THEN a ELSE NextLevel(s, coded, at[i - 1])]
  BY <1>6 DEF NextLevel
<1>8. Levels(s, start, depth, coded) = at[depth]
  BY DEF Levels
<1> HIDE DEF at
<1>9. at[0] = a /\ \A i \in 1..depth : at[i] = NextLevel(s, coded, at[i - 1])
  <2>1. 0 \in 0..depth
    OBVIOUS
  <2> HIDE DEF a
  <2> QED
    BY <1>4, <1>7, <2>1
<1> QED
  BY <1>8, <1>9 DEF Levelled

LEMMA WidenedFacts ==
    ASSUME NEW s, NEW start, NEW depth \in Nat, depth > 0, NEW coded
    PROVE  Widened(s, start, depth, coded, Reach(s, start, depth, coded))
<1> DEFINE V == SUBSET Ground(start)
           a == {start} \cap {n \in DOMAIN entity : entity[n] = s}
           step == [i \in 1..depth |-> [near \in V |-> IF i = 1 THEN a ELSE Further(s, coded, near)]]
           within == CHOOSE within : within = [i \in 1..depth |->
               IF i = 1 THEN {start} \cap {n \in DOMAIN entity : entity[n] = s}
               ELSE LET nearer == within[i - 1] IN nearer \cup UNION {Across(s, n, coded) : n \in nearer}]
<1>1. a \in V
  BY DEF Ground
<1>2. step \in [1..depth -> [V -> V]]
  <2>1. ASSUME NEW near \in V PROVE Further(s, coded, near) \in V
    BY AcrossGround DEF Further
  <2> HIDE DEF V, a
  <2>2. ASSUME NEW i \in 1..depth, NEW near \in V PROVE (IF i = 1 THEN a ELSE Further(s, coded, near)) \in V
    BY <1>1, <2>1
  <2> QED
    BY <2>2
<1>3. PICK g \in [0..depth -> V] : g[0] = a /\ \A i \in 1..depth : g[i] = step[i][g[i - 1]]
  <2> HIDE DEF V, a, step
  <2>1. Solvable(depth, V, a, step)
    BY <1>1, <1>2, Recursion
  <2> QED
    BY <2>1 DEF Solvable
<1>4. \A i \in 1..depth : i \in 0..depth /\ i - 1 \in 0..depth
  OBVIOUS
<1>5. \A i \in 1..depth : g[i] = IF i = 1 THEN a ELSE Further(s, coded, g[i - 1])
  <2> HIDE DEF V, a
  <2> QED
    BY <1>3, <1>4
<1> DEFINE h == [i \in 1..depth |-> g[i]]
<1>6. h = [i \in 1..depth |-> IF i = 1 THEN a ELSE Further(s, coded, h[i - 1])]
  <2>1. \A i \in 1..depth : i # 1 => i - 1 \in 1..depth
    OBVIOUS
  <2>2. \A i \in 1..depth : h[i] = IF i = 1 THEN a ELSE Further(s, coded, h[i - 1])
    <3> HIDE DEF a
    <3> QED
      BY <1>5, <2>1
  <2>3. h = [i \in 1..depth |-> h[i]]
    OBVIOUS
  <2> HIDE DEF a, h
  <2> QED
    BY <2>2, <2>3
<1> HIDE DEF h
<1>7. within = [i \in 1..depth |-> IF i = 1 THEN a ELSE Further(s, coded, within[i - 1])]
  BY <1>6 DEF Further
<1> HIDE DEF within
<1>8. within[1] = a /\ \A i \in 2..depth : within[i] = Further(s, coded, within[i - 1])
  <2>1. 1 \in 1..depth /\ \A i \in 2..depth : i \in 1..depth /\ i # 1
    OBVIOUS
  <2> HIDE DEF a
  <2> QED
    BY <1>7, <2>1
<1>9. Widened(s, start, depth, coded, within)
  BY <1>8 DEF Widened
<1> QED
  BY <1>9 DEF within, Reach

\* The expanded nodes are those in reach, and the nodes of the next level those one relation further.
LEMMA LevelsReach ==
    ASSUME EndsInScope, NEW s, NEW start, NEW depth \in Nat, depth > 0, NEW coded,
           NEW at, Levelled(s, start, depth, coded, at), NEW within, Widened(s, start, depth, coded, within)
    PROVE  at[depth].visited \cap SeenIn(entity, s) = within[depth]
<1> DEFINE S == SeenIn(entity, s)
           A(n) == Across(s, n, coded)
           Holds(i) == /\ at[i].visited \cap S = within[i]
                       /\ (at[i].visited \cup at[i].level) \cap S = Further(s, coded, within[i])
           Failed == {i \in 1..depth : ~Holds(i)}
<1>1. \A n : A(n) \subseteq S
  BY DEF EndsInScope, Across, Touching, Seen, SeenIn
<1>2. \A m : Seen(s, m) <=> m \in S
  BY SeenIsSeenIn
<1>3. ASSUME NEW i \in 1..depth, ~Holds(i), \A j \in 1..depth : ~Holds(j) => i <= j
      PROVE  FALSE
  <2>1. CASE i = 1
    <3>1. at[0] = [level |-> {start}, visited |-> {}] /\ at[1] = NextLevel(s, coded, at[0])
      BY DEF Levelled
    <3>2. at[1].visited = {start} /\ at[1].level = UNION {A(n) : n \in {m \in {start} : Seen(s, m)}}
      BY <3>1 DEF NextLevel
    <3>3. within[1] = {start} \cap S
      BY DEF Widened, SeenIn
    <3> HIDE DEF S, A
    <3>4. at[1].level = UNION {A(n) : n \in within[1]} /\ at[1].level \subseteq S
      BY <1>1, <1>2, <3>2, <3>3
    <3>5. Holds(1)
      BY <3>2, <3>3, <3>4 DEF Further, A
    <3> QED
      BY <1>3, <2>1, <3>5
  <2>2. CASE i # 1
    <3>1. i - 1 \in 1..depth /\ Holds(i - 1)
      <4>1. i - 1 \in 1..depth /\ ~(i <= i - 1)
        BY <2>2
      <4> HIDE DEF Holds
      <4> QED
        BY <1>3, <4>1
    <3> DEFINE lev == at[i - 1].level
               vis == at[i - 1].visited
               fresh == lev \ vis
               near == within[i - 1]
    <3>2. /\ at[i].visited = vis \cup lev
          /\ at[i].level = UNION {A(n) : n \in {m \in fresh : Seen(s, m)}}
      <4>1. at[i] = NextLevel(s, coded, at[i - 1])
        BY DEF Levelled
      <4>2. at[i].visited = vis \cup fresh /\ at[i].level = UNION {A(n) : n \in {m \in fresh : Seen(s, m)}}
        BY <4>1 DEF NextLevel
      <4> QED
        BY <4>2
    <3>3. within[i] = Further(s, coded, near)
      <4>1. i \in 2..depth
        BY <2>2
      <4> QED
        BY <4>1 DEF Widened
    <3>4. vis \cap S = near /\ (vis \cup lev) \cap S = Further(s, coded, near)
      BY <3>1
    <3>5. Further(s, coded, near) = near \cup UNION {A(n) : n \in near}
          /\ Further(s, coded, within[i]) = within[i] \cup UNION {A(n) : n \in within[i]}
      BY DEF Further
    <3>6. at[i].visited \cap S = within[i]
      BY <3>2, <3>3, <3>4
    <3> HIDE DEF lev, vis, near, S, A
    <3>7. at[i].level \subseteq S /\ at[i].level \subseteq UNION {A(n) : n \in within[i]}
      BY <1>1, <1>2, <3>2, <3>3, <3>4
    <3>8. ASSUME NEW n \in within[i] PROVE A(n) \subseteq at[i].visited \cup at[i].level
      <4>1. n \in S /\ (n \in vis \/ n \in lev)
        BY <3>3, <3>4, <3>8
      <4>2. CASE n \in vis
        <5>1. A(n) \subseteq Further(s, coded, near)
          BY <3>4, <3>5, <4>1, <4>2
        <5> QED
          BY <3>2, <3>4, <5>1
      <4>3. CASE n \notin vis
        <5>1. n \in {m \in fresh : Seen(s, m)}
          BY <1>2, <4>1, <4>3
        <5> QED
          BY <3>2, <5>1
      <4> QED
        BY <4>2, <4>3
    <3>9. (at[i].visited \cup at[i].level) \cap S = Further(s, coded, within[i])
      <4>1. \A n \in within[i] : A(n) \subseteq S
        BY <1>1
      <4> QED
        BY <3>5, <3>6, <3>7, <3>8, <4>1
    <3>10. Holds(i)
      BY <3>6, <3>9
    <3> QED
      BY <1>3, <3>10
  <2> QED
    BY <2>1, <2>2
<1>4. Failed = {}
  <2>1. Failed \in SUBSET Nat
    OBVIOUS
  <2>2. \A i \in Failed : i \in 1..depth /\ ~Holds(i)
    OBVIOUS
  <2>3. \A j \in 1..depth : ~Holds(j) => j \in Failed
    OBVIOUS
  <2> HIDE DEF Failed, Holds
  <2>4. ASSUME Failed # {} PROVE FALSE
    <3>1. PICK i \in Failed : \A j \in Failed : i <= j
      BY <2>1, <2>4, LeastNumber
    <3> QED
      BY <1>3, <2>2, <2>3, <3>1
  <2> QED
    BY <2>4
<1>5. Holds(depth)
  <2>1. depth \in 1..depth
    OBVIOUS
  <2> QED
    BY <1>4, <2>1
<1> QED
  BY <1>5

\* A traversal of any scope, from any entity and of any depth from 1, of all relations or those of the
\* code graph alone, returns exactly the entities fewer than that many relations away.
THEOREM TraversalsAreBalls == Spec => []TraversalIsBall
<1>1. ASSUME EndsInScope, NEW s, NEW start, NEW depth \in 1..3, NEW coded
      PROVE  Traverse(s, start, depth, coded) = Reach(s, start, depth, coded)[depth]
  <2>1. depth \in Nat /\ depth > 0
    OBVIOUS
  <2>2. PICK within : within = Reach(s, start, depth, coded)
    OBVIOUS
  <2>3. Widened(s, start, depth, coded, within)
    BY <2>1, <2>2, WidenedFacts
  <2>4. PICK at : Levelled(s, start, depth, coded, at) /\ Levels(s, start, depth, coded) = at[depth]
    BY <2>1, LevelsFacts
  <2>5. at[depth].visited \cap SeenIn(entity, s) = within[depth]
    BY <1>1, <2>1, <2>3, <2>4, LevelsReach
  <2> QED
    BY <2>2, <2>4, <2>5, SeenIsSeenIn DEF Traverse
<1>2. EndsInScope => TraversalIsBall
  BY <1>1 DEF TraversalIsBall
<1> QED
  BY <1>2, EndsStayInScope, PTL
=============================================================================
