-------------------------- MODULE Container_proofs --------------------------
(***************************************************************************)
(* Theorems about packages/container: how the scan of ModuleScanner finds  *)
(* the annotated methods of an application, for every graph of modules;    *)
(* how a call of MethodInvoker goes on; what the stack machine of          *)
(* Container builds; and what its validation is worth.  The proofs of      *)
(* EventBus and HttpServer rest on the first two.                          *)
(*                                                                         *)
(* The scan is a loop, and what is said of it is proved by the place from  *)
(* which it goes wrong although the place after one more turn does not: a  *)
(* place with the fewest unvisited modules, and of these one with the      *)
(* shortest stack.  The validation is a recursion, and what is said of it  *)
(* is proved in the same way, by a call with the longest path.             *)
(***************************************************************************)
EXTENDS Container, MethodInvoker, ModuleScanner, TLAPS, FiniteSetTheorems, WellFoundedInduction

(* A set of numbers that is not empty has a least element.                 *)
LEMMA Smallest ==
  ASSUME NEW T \in SUBSET Nat, T # {}
  PROVE  \E m \in T : \A n \in T : m <= n
<1>. DEFINE Less == {ss \in Nat \X Nat : ss[1] < ss[2]}
<1>1. IsWellFoundedOn(Less, Nat)
  BY NatLessThanWellFounded DEF OpToRel
<1>2. PICK m \in T : \A n \in T : <<n, m>> \notin Less
  BY <1>1, WFMin, Zenon
<1>3. ASSUME NEW n \in T PROVE m <= n
  <2>1. n \in Nat /\ m \in Nat /\ ~(n < m)
    BY <1>2
  <2>. QED
    BY <2>1
<1>. QED
  BY <1>3

(* The elements of two sequences, one appended to the other.               *)
LEMMA AppendedSets ==
  ASSUME NEW S, NEW s \in Seq(S), NEW t \in Seq(S)
  PROVE  s \o t \in Seq(S) /\ ToSet(s \o t) = ToSet(s) \cup ToSet(t)
<1>1. /\ s \o t \in Seq(S) /\ Len(s) \in Nat /\ Len(t) \in Nat /\ Len(s \o t) = Len(s) + Len(t)
      /\ \A i \in 1 .. Len(s) : (s \o t)[i] = s[i]
      /\ \A i \in 1 .. Len(t) : (s \o t)[i + Len(s)] = t[i]
  OBVIOUS
<1>. DEFINE u == s \o t
<1>2. DOMAIN s = 1 .. Len(s) /\ DOMAIN t = 1 .. Len(t) /\ DOMAIN u = 1 .. Len(u)
  BY <1>1
<1>3. Len(u) = Len(s) + Len(t)
  BY <1>1
<1>4. \A i \in 1 .. Len(s) : u[i] = s[i]
  BY <1>1
<1>5. \A i \in 1 .. Len(t) : u[i + Len(s)] = t[i]
  BY <1>1
<1>. HIDE DEF u
<1>6. ASSUME NEW x \in ToSet(u) PROVE x \in ToSet(s) \cup ToSet(t)
  <2>1. PICK k \in 1 .. Len(u) : x = u[k]
    BY <1>2, <1>6 DEF ToSet
  <2>2. CASE k <= Len(s)
    BY <1>1, <1>2, <1>4, <2>1, <2>2 DEF ToSet
  <2>3. CASE ~(k <= Len(s))
    <3>1. k - Len(s) \in 1 .. Len(t) /\ (k - Len(s)) + Len(s) = k
      BY <1>1, <1>3, <2>1, <2>3
    <3>2. x = t[k - Len(s)]
      BY <1>5, <2>1, <3>1
    <3>. QED
      BY <1>2, <3>1, <3>2 DEF ToSet
  <2>. QED
    BY <2>2, <2>3
<1>7. ASSUME NEW x \in ToSet(s) \cup ToSet(t) PROVE x \in ToSet(u)
  <2>1. CASE x \in ToSet(s)
    <3>1. PICK k \in 1 .. Len(s) : x = s[k]
      BY <1>2, <2>1 DEF ToSet
    <3>2. k \in 1 .. Len(u) /\ u[k] = x
      BY <1>1, <1>3, <1>4, <3>1
    <3>. QED
      BY <1>2, <3>2 DEF ToSet
  <2>2. CASE x \in ToSet(t)
    <3>1. PICK k \in 1 .. Len(t) : x = t[k]
      BY <1>2, <2>2 DEF ToSet
    <3>2. k + Len(s) \in 1 .. Len(u) /\ u[k + Len(s)] = x
      BY <1>1, <1>3, <1>5, <3>1
    <3>. QED
      BY <1>2, <3>2 DEF ToSet
  <2>. QED
    BY <2>1, <2>2
<1>. QED
  BY <1>1, <1>6, <1>7 DEF u

(* FlattenSeq() joins the sequences one by one.                            *)
LEMMA Joined ==
  ASSUME NEW S, NEW seqs \in Seq(Seq(S))
  PROVE  \E f : /\ f[0] = <<>> /\ f[Len(seqs)] = FlattenSeq(seqs)
                /\ \A i \in 1 .. Len(seqs) : f[i] = f[i - 1] \o seqs[i]
                /\ \A i \in 0 .. Len(seqs) : f[i] \in Seq(S)
<1>. DEFINE N == Len(seqs)
            Solves(n, f) == f = [i \in 1 .. n |-> IF i = 1 THEN seqs[i] ELSE f[i - 1] \o seqs[i]]
            F == CHOOSE f : Solves(N, f)
<1>1. N \in Nat /\ DOMAIN seqs = 1 .. N /\ \A i \in 1 .. N : seqs[i] \in Seq(S)
  OBVIOUS
<1>2. N = 0 => FlattenSeq(seqs) = <<>>
  BY DEF FlattenSeq
<1>3. N # 0 => FlattenSeq(seqs) = F[N]
  BY DEF FlattenSeq
<1>. HIDE DEF N, F
<1>4. N # 0 => \E f : Solves(N, f)
  <2>. DEFINE Missing == {n \in 1 .. N : ~\E f : Solves(n, f)}
  <2>1. CASE Missing # {}
    <3>1. PICK n \in Missing : \A k \in Missing : n <= k
      <4>1. Missing \in SUBSET Nat
        <5>1. 1 .. N \subseteq Nat
          BY <1>1
        <5>. HIDE DEF Solves
        <5>. QED
          BY <5>1
      <4>. HIDE DEF Missing
      <4>. QED
        BY <2>1, <4>1, Smallest
    <3>2. CASE n = 1
      <4>1. Solves(1, [i \in 1 .. 1 |-> seqs[1]])
        OBVIOUS
      <4>. QED
        BY <3>1, <3>2, <4>1
    <3>3. CASE n # 1
      <4>0. n \in 1 .. N /\ n \in Nat /\ n >= 1
        BY <1>1, <3>1
      <4>1. n - 1 \in 1 .. N /\ n - 1 \notin Missing /\ n \in Nat
        <5>1. n - 1 \in 1 .. N /\ ~(n <= n - 1)
          BY <1>1, <3>3, <4>0
        <5>. HIDE DEF Missing
        <5>. QED
          BY <3>1, <4>0, <5>1
      <4>2. PICK f : Solves(n - 1, f)
        BY <4>1
      <4>. DEFINE g == [i \in 1 .. n |-> IF i = n THEN f[n - 1] \o seqs[n] ELSE f[i]]
      <4>3. ASSUME NEW i \in 1 .. n
            PROVE  g[i] = IF i = 1 THEN seqs[i] ELSE g[i - 1] \o seqs[i]
        <5>1. CASE i = n
          <6>1. n - 1 \in 1 .. n /\ n - 1 # n
            BY <3>3, <4>1
          <6>2. g[n - 1] = f[n - 1] /\ g[n] = f[n - 1] \o seqs[n]
            <7>1. n \in 1 .. n
              BY <4>0
            <7>. HIDE DEF Missing, Solves
            <7>. QED
              BY <6>1, <7>1
          <6>. QED
            BY <3>3, <5>1, <6>2
        <5>2. CASE i # n
          <6>1. i \in 1 .. n - 1 /\ (i # 1 => i - 1 \in 1 .. n /\ i - 1 # n)
            BY <4>1, <5>2
          <6>2. f[i] = IF i = 1 THEN seqs[i] ELSE f[i - 1] \o seqs[i]
            BY <4>2, <6>1
          <6>. QED
            BY <5>2, <6>1, <6>2
        <5>. QED
          BY <5>1, <5>2
      <4>4. g = [i \in 1 .. n |-> g[i]]
        OBVIOUS
      <4>. HIDE DEF g
      <4>5. Solves(n, g)
        BY <4>3, <4>4
      <4>. QED
        BY <3>1, <4>5
    <3>. QED
      BY <3>2, <3>3
  <2>2. CASE Missing = {}
    <3>1. N # 0 => N \in 1 .. N
      BY <1>1
    <3>. QED
      BY <2>2, <3>1
  <2>. QED
    BY <2>1, <2>2
<1>5. N # 0 => Solves(N, F)
  <2>. HIDE DEF Solves
  <2>. QED
    BY <1>4 DEF F
<1>6. \A i \in 1 .. N : F[i] = IF i = 1 THEN seqs[i] ELSE F[i - 1] \o seqs[i]
  <2>1. \A i \in 1 .. N : N # 0
    BY <1>1
  <2>. QED
    BY <1>5, <2>1
<1>. HIDE DEF Solves
<1>. DEFINE g == [i \in 0 .. N |-> IF i = 0 THEN <<>> ELSE F[i]]
<1>7. g[0] = <<>> /\ \A i \in 1 .. N : g[i] = F[i]
  BY <1>1
<1>8. \A i \in 1 .. N : g[i] = IF i = 1 THEN seqs[i] ELSE g[i - 1] \o seqs[i]
  <2>1. \A i \in 1 .. N : i # 1 => i - 1 \in 1 .. N
    BY <1>1
  <2>. HIDE DEF g
  <2>. QED
    BY <1>6, <1>7, <2>1
<1>9. g[N] = FlattenSeq(seqs)
  <2>1. N # 0 => N \in 1 .. N
    BY <1>1
  <2>. HIDE DEF g
  <2>. QED
    BY <1>2, <1>3, <1>7, <2>1
<1>. HIDE DEF g
<1>10. \A i \in 0 .. N : g[i] \in Seq(S)
  <2>. DEFINE Wrong == {i \in 0 .. N : g[i] \notin Seq(S)}
  <2>. SUFFICES ASSUME Wrong # {} PROVE FALSE
    OBVIOUS
  <2>1. PICK i \in Wrong : \A k \in Wrong : i <= k
    <3>1. Wrong \in SUBSET Nat
      BY <1>1
    <3>. HIDE DEF Wrong
    <3>. QED
      BY <3>1, Smallest
  <2>2. i \in 0 .. N /\ i # 0
    <3>1. i \in 0 .. N /\ g[i] \notin Seq(S)
      BY <2>1
    <3>2. <<>> \in Seq(S)
      OBVIOUS
    <3>. HIDE DEF Wrong
    <3>. QED
      BY <1>7, <3>1, <3>2
  <2>3. i \in 1 .. N /\ i - 1 \in 0 .. N /\ ~(i <= i - 1)
    BY <1>1, <2>2
  <2>4. g[i - 1] \in Seq(S) /\ seqs[i] \in Seq(S)
    BY <1>1, <2>1, <2>3
  <2>5. g[i] = seqs[i] \/ g[i] = g[i - 1] \o seqs[i]
    BY <1>8, <2>3
  <2>6. g[i - 1] \o seqs[i] \in Seq(S)
    BY <2>4
  <2>. QED
    BY <2>1, <2>4, <2>5, <2>6
<1>11. \A i \in 1 .. N : g[i] = g[i - 1] \o seqs[i]
  <2>1. ASSUME NEW i \in 1 .. N, i = 1 PROVE g[i] = g[i - 1] \o seqs[i]
    <3>1. i - 1 = 0 /\ <<>> \o seqs[i] = seqs[i]
      BY <1>1, <2>1
    <3>. QED
      BY <1>7, <1>8, <2>1, <3>1
  <2>. QED
    BY <1>8, <2>1
<1>. QED
  BY <1>7, <1>9, <1>10, <1>11 DEF N

(* FlattenSeq() loses none of the elements.                                *)
LEMMA Flattened ==
  ASSUME NEW S, NEW seqs \in Seq(Seq(S))
  PROVE  /\ FlattenSeq(seqs) \in Seq(S)
         /\ ToSet(FlattenSeq(seqs)) = UNION {ToSet(seqs[i]) : i \in DOMAIN seqs}
<1>. DEFINE N == Len(seqs)
<1>1. N \in Nat /\ DOMAIN seqs = 1 .. N /\ \A i \in 1 .. N : seqs[i] \in Seq(S)
  OBVIOUS
<1>2. PICK F : /\ F[0] = <<>> /\ F[N] = FlattenSeq(seqs)
               /\ \A i \in 1 .. N : F[i] = F[i - 1] \o seqs[i]
               /\ \A i \in 0 .. N : F[i] \in Seq(S)
  BY Joined
<1>. HIDE DEF N
<1>. DEFINE Right(j) == ToSet(F[j]) = UNION {ToSet(seqs[i]) : i \in 1 .. j}
            Wrong == {j \in 0 .. N : ~Right(j)}
<1>3. Wrong = {}
  <2>. SUFFICES ASSUME Wrong # {} PROVE FALSE
    OBVIOUS
  <2>1. PICK j \in Wrong : \A k \in Wrong : j <= k
    <3>1. Wrong \in SUBSET Nat
      BY <1>1
    <3>. HIDE DEF Wrong
    <3>. QED
      BY <3>1, Smallest
  <2>2. j \in 0 .. N /\ j # 0
    <3>1. Right(0)
      BY <1>2 DEF ToSet
    <3>2. ~Right(j) /\ j \in 0 .. N
      BY <2>1
    <3>. HIDE DEF Right
    <3>. QED
      BY <3>1, <3>2
  <2>3. j \in 1 .. N /\ j - 1 \in 0 .. N /\ ~(j <= j - 1)
    BY <1>1, <2>2
  <2>4. Right(j - 1)
    <3>1. j - 1 \notin Wrong
      <4>. HIDE DEF Wrong
      <4>. QED
        BY <2>1, <2>3
    <3>. HIDE DEF Right
    <3>. QED
      BY <2>3, <3>1
  <2>5. ToSet(F[j]) = ToSet(F[j - 1]) \cup ToSet(seqs[j])
    <3>1. F[j - 1] \in Seq(S) /\ seqs[j] \in Seq(S) /\ F[j] = F[j - 1] \o seqs[j]
      BY <1>1, <1>2, <2>3
    <3>2. ToSet(F[j - 1] \o seqs[j]) = ToSet(F[j - 1]) \cup ToSet(seqs[j])
      BY <3>1, AppendedSets
    <3>. QED
      BY <3>1, <3>2
  <2>6. 1 .. j = (1 .. j - 1) \cup {j}
    BY <1>1, <2>3
  <2>7. Right(j)
    BY <2>4, <2>5, <2>6
  <2>8. ~Right(j)
    BY <2>1
  <2>. HIDE DEF Right
  <2>. QED
    BY <2>7, <2>8
<1>4. N \in 0 .. N
  BY <1>1
<1>5. Right(N)
  BY <1>3, <1>4
<1>. QED
  BY <1>1, <1>2, <1>4, <1>5

(* What is popped from a sequence that is not empty, and what remains.     *)
LEMMA Popped ==
  ASSUME NEW S, NEW q \in Seq(S), q # <<>>
  PROVE  /\ Last(q) \in S /\ Front(q) \in Seq(S) /\ Len(q) \in Nat
         /\ Len(Front(q)) \in Nat /\ Len(Front(q)) < Len(q)
         /\ ToSet(q) = ToSet(Front(q)) \cup {Last(q)}
<1>1. Len(q) \in Nat /\ Len(q) # 0 /\ DOMAIN q = 1 .. Len(q)
  OBVIOUS
<1>2. Front(q) = [i \in 1 .. Len(q) - 1 |-> q[i]]
  BY <1>1 DEF Front
<1>3. Front(q) \in Seq(S) /\ Len(Front(q)) = Len(q) - 1 /\ DOMAIN Front(q) = 1 .. Len(q) - 1
  BY <1>1, <1>2
<1>4. Last(q) = q[Len(q)] /\ Last(q) \in S
  BY <1>1 DEF Last
<1>5. \A i \in 1 .. Len(q) - 1 : Front(q)[i] = q[i]
  BY <1>2
<1>6. 1 .. Len(q) = (1 .. Len(q) - 1) \cup {Len(q)}
  BY <1>1
<1>7. ToSet(q) = ToSet(Front(q)) \cup {Last(q)}
  BY <1>1, <1>3, <1>4, <1>5, <1>6 DEF ToSet
<1>. QED
  BY <1>1, <1>3, <1>4, <1>7

Places == Seq(Mod) \X SUBSET Mod

(* What one turn of the loop leaves.                                       *)
LEMMA Turns ==
  ASSUME NEW at \in Places, at[1] # <<>>
  PROVE  /\ Turn(at[1], at[2]) \in Places /\ Called(at[1], at[2]) \in Seq(Mod)
         /\ Last(at[1]) \in Mod /\ ToSet(at[1]) = ToSet(Front(at[1])) \cup {Last(at[1])}
         /\ Last(at[1]) \in at[2] =>
              /\ Turn(at[1], at[2])[1] = Front(at[1]) /\ Turn(at[1], at[2])[2] = at[2]
              /\ ToSet(Called(at[1], at[2])) = {}
         /\ Last(at[1]) \notin at[2] =>
              /\ ToSet(Turn(at[1], at[2])[1]) =
                   ToSet(Front(at[1])) \cup (ToSet(Requires[Last(at[1])]) \ at[2])
              /\ Turn(at[1], at[2])[2] = at[2] \cup {Last(at[1])}
              /\ ToSet(Called(at[1], at[2])) = {Last(at[1])}
<1>. DEFINE q == at[1]
            v == at[2]
            m == Last(q)
            r == Requires[m]
            pieces == [k \in DOMAIN r |-> IF r[k] \in v THEN <<>> ELSE <<r[k]>>]
<1>1. q \in Seq(Mod) /\ v \in SUBSET Mod /\ q # <<>>
  BY DEF Places
<1>2. m \in Mod /\ Front(q) \in Seq(Mod) /\ ToSet(q) = ToSet(Front(q)) \cup {m}
  BY <1>1, Popped
<1>3. r \in Seq(Mod)
  BY <1>2, ScannerAssumption
<1>4. Unvisited(m, v) \in Seq(Mod) /\ ToSet(Unvisited(m, v)) = ToSet(r) \ v
  <2>1. Len(r) \in Nat /\ DOMAIN r = 1 .. Len(r) /\ \A k \in DOMAIN r : r[k] \in Mod
    BY <1>3
  <2>2. pieces \in Seq(Seq(Mod)) /\ DOMAIN pieces = DOMAIN r
    <3>. HIDE DEF r, v
    <3>1. \A k \in DOMAIN r : (IF r[k] \in v THEN <<>> ELSE <<r[k]>>) \in Seq(Mod)
      BY <2>1
    <3>. QED
      BY <2>1, <3>1
  <2>3. \A k \in DOMAIN r : ToSet(pieces[k]) = IF r[k] \in v THEN {} ELSE {r[k]}
    <3>. HIDE DEF r, v
    <3>1. ToSet(<<>>) = {} /\ \A x : ToSet(<<x>>) = {x}
      BY DEF ToSet
    <3>. QED
      BY <3>1
  <2>4. Unvisited(m, v) = FlattenSeq(pieces)
    BY DEF Unvisited
  <2>. HIDE DEF pieces, r, v
  <2>. DEFINE parts == UNION {ToSet(pieces[k]) : k \in DOMAIN pieces}
  <2>5. FlattenSeq(pieces) \in Seq(Mod) /\ ToSet(FlattenSeq(pieces)) = parts
    BY <2>2, Flattened
  <2>6. ASSUME NEW x PROVE x \in parts <=> \E k \in DOMAIN r : x = r[k] /\ x \notin v
    <3>1. x \in parts <=> \E k \in DOMAIN r : x \in ToSet(pieces[k])
      BY <2>2
    <3>2. \A k \in DOMAIN r : x \in ToSet(pieces[k]) <=> (r[k] \notin v /\ x = r[k])
      BY <2>3
    <3>. HIDE DEF parts
    <3>. QED
      BY <3>1, <3>2
  <2>7. ASSUME NEW x PROVE x \in ToSet(r) \ v <=> \E k \in DOMAIN r : x = r[k] /\ x \notin v
    BY <2>1 DEF ToSet
  <2>. HIDE DEF parts
  <2>8. parts = ToSet(r) \ v
    BY <2>6, <2>7
  <2>. QED
    BY <2>4, <2>5, <2>8
<1>5. ToSet(<<>>) = {} /\ ToSet(<<m>>) = {m}
  BY DEF ToSet
<1>. HIDE DEF r
<1>6. CASE m \in v
  <2>1. Turn(q, v) = <<Front(q), v>> /\ Called(q, v) = <<>>
    BY <1>6 DEF Turn, Called
  <2>. QED
    BY <1>1, <1>2, <1>5, <1>6, <2>1 DEF Places
<1>7. CASE m \notin v
  <2>1. Turn(q, v) = <<Front(q) \o Unvisited(m, v), v \cup {m}>> /\ Called(q, v) = <<m>>
    BY <1>7 DEF Turn, Called
  <2>2. /\ Front(q) \o Unvisited(m, v) \in Seq(Mod)
        /\ ToSet(Front(q) \o Unvisited(m, v)) = ToSet(Front(q)) \cup (ToSet(r) \ v)
    BY <1>2, <1>4, AppendedSets
  <2>. HIDE DEF q, v
  <2>3. Turn(q, v)[1] = Front(q) \o Unvisited(m, v) /\ Turn(q, v)[2] = v \cup {m}
    BY <2>1
  <2>4. Turn(q, v) \in Places
    <3>1. v \cup {m} \in SUBSET Mod
      BY <1>1, <1>2
    <3>2. Front(q) \o Unvisited(m, v) \in Seq(Mod)
      BY <2>2
    <3>3. \A a \in Seq(Mod), b \in SUBSET Mod : <<a, b>> \in Places
      BY DEF Places
    <3>4. <<Front(q) \o Unvisited(m, v), v \cup {m}>> \in Places
      BY <3>1, <3>2, <3>3, Zenon
    <3>. QED
      BY <2>1, <3>4, Zenon
  <2>5. Called(q, v) \in Seq(Mod) /\ ToSet(Called(q, v)) = {m}
    BY <1>2, <1>5, <2>1
  <2>6. ToSet(Turn(q, v)[1]) = ToSet(Front(q)) \cup (ToSet(r) \ v)
    BY <2>2, <2>3
  <2>. QED
    BY <1>2, <1>7, <2>3, <2>4, <2>5, <2>6 DEF q, v, r
<1>. QED
  BY <1>6, <1>7

(* The loop ends: no set of places is such that the loop never leaves it.  *)
LEMMA LoopEnds ==
  ASSUME NEW T \in SUBSET Places, T # {}
  PROVE  \E at \in T : at[1] = <<>> \/ Turn(at[1], at[2]) \notin T
<1>. DEFINE Left(at) == Cardinality(Mod \ at[2])
            Sizes == {Left(at) : at \in T}
<1>1. \A at \in Places : IsFiniteSet(Mod \ at[2]) /\ Left(at) \in Nat
  BY ScannerAssumption, FS_Difference, FS_CardinalityType
<1>2. PICK c \in Sizes : \A n \in Sizes : c <= n
  <2>1. Sizes \in SUBSET Nat /\ Sizes # {}
    BY <1>1
  <2>. HIDE DEF Sizes
  <2>. QED
    BY <2>1, Smallest
<1>. DEFINE Small == {at \in T : Left(at) = c}
            Lens == {Len(at[1]) : at \in Small}
<1>3. PICK l \in Lens : \A n \in Lens : l <= n
  <2>1. \A at \in Places : Len(at[1]) \in Nat
    BY DEF Places
  <2>2. Lens \in SUBSET Nat /\ Lens # {}
    BY <1>2, <2>1
  <2>. HIDE DEF Lens
  <2>. QED
    BY <2>2, Smallest
<1>4. PICK at \in Small : l = Len(at[1])
  BY <1>3
<1>5. at \in T /\ at \in Places /\ Left(at) = c /\ c \in Nat /\ l \in Nat
  <2>1. Len(at[1]) \in Nat
    BY <1>4 DEF Places
  <2>. QED
    BY <1>1, <1>4, <2>1
<1>. DEFINE next == Turn(at[1], at[2])
<1>6. ASSUME at[1] # <<>>, next \in T PROVE FALSE
  <2>1. next \in Places
    BY <1>6
  <2>2. CASE Last(at[1]) \in at[2]
    <3>1. next[1] = Front(at[1]) /\ next[2] = at[2]
      BY <1>5, <1>6, <2>2, Turns
    <3>2. Left(next) = c
      BY <1>5, <3>1
    <3>3. Len(next[1]) \in Lens
      BY <1>6, <3>2
    <3>4. at[1] \in Seq(Mod)
      BY <1>5 DEF Places
    <3>5. Len(next[1]) < Len(at[1]) /\ Len(next[1]) \in Nat
      BY <1>6, <3>1, <3>4, Popped
    <3>6. l <= Len(next[1])
      BY <1>3, <3>3
    <3>. QED
      BY <1>4, <1>5, <3>5, <3>6
  <2>3. CASE Last(at[1]) \notin at[2]
    <3>1. next[2] = at[2] \cup {Last(at[1])} /\ Last(at[1]) \in Mod \ at[2]
      BY <1>5, <1>6, <2>3, Turns
    <3>2. Mod \ next[2] = (Mod \ at[2]) \ {Last(at[1])}
      BY <3>1
    <3>3. Left(next) = c - 1
      <4>. DEFINE rest == Mod \ at[2]
                  m == Last(at[1])
      <4>1. IsFiniteSet(rest) /\ m \in rest /\ Cardinality(rest) = c
        BY <1>1, <1>5, <3>1
      <4>2. Left(next) = Cardinality(rest \ {m})
        BY <3>2
      <4>. HIDE DEF rest, m, Left
      <4>. QED
        BY <4>1, <4>2, FS_RemoveElement
    <3>4. c <= Left(next)
      BY <1>2, <1>6
    <3>. QED
      BY <1>5, <3>3, <3>4
  <2>. QED
    BY <2>2, <2>3
<1>. QED
  BY <1>5, <1>6

(* f says, of the places of D, for which modules the loop calls back.      *)
Continued(f, at) ==
  IF at[1] = <<>> THEN <<>> ELSE Called(at[1], at[2]) \o f[Turn(at[1], at[2])]

Scans(D, f) ==
  /\ D \in SUBSET Places
  /\ \A at \in D : at[1] # <<>> => Turn(at[1], at[2]) \in D
  /\ f = [at \in D |-> Continued(f, at)]

(* Two such functions agree on the places that both know.                  *)
LEMMA ScansAgree ==
  ASSUME NEW D, NEW f, Scans(D, f), NEW E, NEW g, Scans(E, g)
  PROVE  \A at \in D \cap E : f[at] = g[at]
<1>. DEFINE T == {at \in D \cap E : f[at] # g[at]}
<1>. SUFFICES ASSUME T # {} PROVE FALSE
  OBVIOUS
<1>1. PICK at \in T : at[1] = <<>> \/ Turn(at[1], at[2]) \notin T
  <2>1. T \in SUBSET Places
    BY DEF Scans
  <2>. HIDE DEF T
  <2>. QED
    BY <2>1, LoopEnds
<1>2. f[at] = Continued(f, at) /\ g[at] = Continued(g, at)
  BY DEF Scans
<1>3. CASE at[1] = <<>>
  BY <1>2, <1>3 DEF Continued
<1>4. CASE at[1] # <<>>
  <2>1. Turn(at[1], at[2]) \in D \cap E
    BY <1>4 DEF Scans
  <2>2. f[Turn(at[1], at[2])] = g[Turn(at[1], at[2])]
    BY <1>1, <1>4, <2>1
  <2>. QED
    BY <1>2, <1>4, <2>2 DEF Continued
<1>. QED
  BY <1>3, <1>4

(* There is such a function for every place.                               *)
LEMMA ScansExist ==
  ASSUME NEW at \in Places
  PROVE  \E D, f : at \in D /\ Scans(D, f)
<1>. DEFINE T == {x \in Places : ~\E D, f : x \in D /\ Scans(D, f)}
<1>. SUFFICES ASSUME T # {} PROVE FALSE
  OBVIOUS
<1>1. PICK x \in T : x[1] = <<>> \/ Turn(x[1], x[2]) \notin T
  <2>1. T \in SUBSET Places
    OBVIOUS
  <2>. HIDE DEF T
  <2>. QED
    BY <2>1, LoopEnds
<1>2. CASE x[1] = <<>>
  <2>1. Scans({x}, [y \in {x} |-> <<>>])
    BY <1>2 DEF Scans, Continued
  <2>. QED
    BY <2>1
<1>3. CASE x[1] # <<>>
  <2>. DEFINE next == Turn(x[1], x[2])
  <2>1. next \in Places
    BY <1>3, Turns
  <2>2. PICK D, f : next \in D /\ Scans(D, f)
    BY <1>1, <1>3, <2>1
  <2>3. x \notin D
    BY <2>2
  <2>. DEFINE g == [y \in D \cup {x} |-> IF y = x THEN Called(x[1], x[2]) \o f[next] ELSE f[y]]
  <2>. HIDE DEF next
  <2>4. g[next] = f[next] /\ \A y \in D : g[y] = f[y]
    BY <2>2, <2>3
  <2>5. g[x] = Called(x[1], x[2]) \o f[next]
    OBVIOUS
  <2>6. g = [y \in D \cup {x} |-> g[y]]
    OBVIOUS
  <2>. HIDE DEF g
  <2>7. ASSUME NEW y \in D \cup {x} PROVE g[y] = Continued(g, y)
    <3>1. CASE y = x
      BY <1>3, <2>4, <2>5, <3>1 DEF Continued, next
    <3>2. CASE y # x
      <4>1. f[y] = Continued(f, y)
        BY <2>2, <3>2 DEF Scans
      <4>2. y[1] # <<>> => g[Turn(y[1], y[2])] = f[Turn(y[1], y[2])]
        BY <2>2, <2>4, <3>2 DEF Scans
      <4>. QED
        BY <2>4, <3>2, <4>1, <4>2 DEF Continued
    <3>. QED
      BY <3>1, <3>2
  <2>8. Scans(D \cup {x}, g)
    <3>1. \A y \in D \cup {x} : y[1] # <<>> => Turn(y[1], y[2]) \in D \cup {x}
      BY <2>2 DEF Scans, next
    <3>2. D \cup {x} \in SUBSET Places
      BY <2>2 DEF Scans
    <3>3. g = [y \in D \cup {x} |-> Continued(g, y)]
      BY <2>6, <2>7
    <3>. QED
      BY <3>1, <3>2, <3>3 DEF Scans
  <2>. QED
    BY <2>8
<1>. QED
  BY <1>2, <1>3

(* The equation of Visiting: the loop ends, so there is such a function.   *)
LEMMA VisitingDef ==
  ASSUME NEW at \in Places
  PROVE  Visiting[at] = Continued(Visiting, at)
<1>. DEFINE Pair(x) == CHOOSE p : x \in p[1] /\ Scans(p[1], p[2])
            f == [x \in Places |-> Pair(x)[2][x]]
<1>1. ASSUME NEW x \in Places PROVE x \in Pair(x)[1] /\ Scans(Pair(x)[1], Pair(x)[2])
  <2>1. PICK D, g : x \in D /\ Scans(D, g)
    BY ScansExist
  <2>2. x \in <<D, g>>[1] /\ Scans(<<D, g>>[1], <<D, g>>[2])
    BY <2>1
  <2>. QED
    BY <2>2
<1>. HIDE DEF Pair
<1>2. ASSUME NEW x \in Places PROVE f[x] = Continued(f, x)
  <2>. DEFINE D == Pair(x)[1]
              g == Pair(x)[2]
              next == Turn(x[1], x[2])
  <2>1. x \in D /\ Scans(D, g) /\ g[x] = Continued(g, x) /\ f[x] = g[x]
    BY <1>1 DEF Scans
  <2>2. CASE x[1] = <<>>
    BY <2>1, <2>2 DEF Continued
  <2>3. CASE x[1] # <<>>
    <3>1. next \in D /\ next \in Places
      BY <2>1, <2>3 DEF Scans
    <3>2. next \in Pair(next)[1] /\ Scans(Pair(next)[1], Pair(next)[2])
      BY <1>1, <3>1
    <3>3. g[next] = Pair(next)[2][next]
      BY <2>1, <3>1, <3>2, ScansAgree
    <3>4. f[next] = Pair(next)[2][next]
      BY <3>1
    <3>. HIDE DEF f, g
    <3>5. f[next] = g[next]
      BY <3>3, <3>4
    <3>. QED
      BY <2>1, <2>3, <3>5 DEF Continued
  <2>. QED
    BY <2>2, <2>3
<1>. HIDE DEF f
<1>3. f = [x \in Places |-> Continued(f, x)]
  <2>1. f = [x \in Places |-> f[x]]
    BY DEF f
  <2>. QED
    BY <1>2, <2>1
<1>4. Visiting = CHOOSE v : v = [x \in Places |-> Continued(v, x)]
  BY Zenon DEF Visiting, Continued, Places
<1>5. Visiting = [x \in Places |-> Continued(Visiting, x)]
  BY <1>3, <1>4
<1>. QED
  BY <1>5

(* What the loop still calls back for, from a place on: modules that, with *)
(* the visited ones, contain the stack and what they require, and no more  *)
(* than any closed set does that contains the stack.                       *)
IsClosed(S) == \A x \in Mod \cap S : ToSet(Requires[x]) \subseteq S

Right(at) ==
  LET found == ToSet(Visiting[at])
  IN  /\ Visiting[at] \in Seq(Mod)
      /\ ToSet(at[1]) \subseteq found \cup at[2]
      /\ \A m \in found : ToSet(Requires[m]) \subseteq found \cup at[2]
      /\ \A S \in SUBSET Mod : ToSet(at[1]) \subseteq S /\ IsClosed(S) => found \subseteq S

(* What is right after a turn of the loop is right before it.              *)
LEMMA TurnIsRight ==
  ASSUME NEW at \in Places, at[1] # <<>>, Right(Turn(at[1], at[2]))
  PROVE  Right(at)
<1>. DEFINE q == at[1]
            v == at[2]
            m == Last(q)
            next == Turn(q, v)
            found == ToSet(Visiting[at])
            later == ToSet(Visiting[next])
<1>1. /\ next \in Places /\ Called(q, v) \in Seq(Mod) /\ m \in Mod
      /\ ToSet(q) = ToSet(Front(q)) \cup {m}
  BY Turns
<1>2. /\ Visiting[next] \in Seq(Mod)
      /\ ToSet(next[1]) \subseteq later \cup next[2]
      /\ \A x \in later : ToSet(Requires[x]) \subseteq later \cup next[2]
      /\ \A S \in SUBSET Mod : ToSet(next[1]) \subseteq S /\ IsClosed(S) => later \subseteq S
  BY DEF Right
<1>3. Visiting[at] = Called(q, v) \o Visiting[next]
  BY VisitingDef DEF Continued
<1>4. Visiting[at] \in Seq(Mod) /\ found = ToSet(Called(q, v)) \cup later
  BY <1>1, <1>2, <1>3, AppendedSets
<1>5. m \in v => next[1] = Front(q) /\ next[2] = v /\ ToSet(Called(q, v)) = {}
  BY Turns
<1>6. m \notin v =>
        /\ ToSet(next[1]) = ToSet(Front(q)) \cup (ToSet(Requires[m]) \ v)
        /\ next[2] = v \cup {m} /\ ToSet(Called(q, v)) = {m}
  BY Turns
<1>. SUFFICES /\ ToSet(q) \subseteq found \cup v
              /\ \A x \in found : ToSet(Requires[x]) \subseteq found \cup v
              /\ \A S \in SUBSET Mod : ToSet(q) \subseteq S /\ IsClosed(S) => found \subseteq S
  BY <1>4 DEF Right
<1>. HIDE DEF q, v, m, next, found, later
<1>7. CASE m \in v
  BY <1>1, <1>2, <1>4, <1>5, <1>7
<1>8. CASE m \notin v
  <2>1. ToSet(q) \subseteq found \cup v
    BY <1>1, <1>2, <1>4, <1>6, <1>8
  <2>2. \A x \in found : ToSet(Requires[x]) \subseteq found \cup v
    BY <1>2, <1>4, <1>6, <1>8
  <2>3. ASSUME NEW S \in SUBSET Mod, ToSet(q) \subseteq S, IsClosed(S) PROVE found \subseteq S
    <3>1. m \in S /\ ToSet(Requires[m]) \subseteq S
      BY <1>1, <2>3 DEF IsClosed
    <3>2. ToSet(next[1]) \subseteq S
      BY <1>1, <1>6, <1>8, <2>3, <3>1
    <3>. QED
      BY <1>2, <1>4, <1>6, <1>8, <2>3, <3>1, <3>2
  <2>. QED
    BY <2>1, <2>2, <2>3
<1>. QED
  BY <1>7, <1>8

(* It is right from every place on.                                        *)
LEMMA VisitingIsRight ==
  ASSUME NEW at \in Places
  PROVE  Right(at)
<1>. DEFINE T == {x \in Places : ~Right(x)}
<1>. SUFFICES ASSUME T # {} PROVE FALSE
  OBVIOUS
<1>1. PICK x \in T : x[1] = <<>> \/ Turn(x[1], x[2]) \notin T
  <2>1. T \in SUBSET Places
    OBVIOUS
  <2>. HIDE DEF T
  <2>. QED
    BY <2>1, LoopEnds
<1>2. CASE x[1] = <<>>
  <2>1. Visiting[x] = <<>>
    BY <1>2, VisitingDef DEF Continued
  <2>2. ToSet(<<>>) = {} /\ <<>> \in Seq(Mod)
    BY DEF ToSet
  <2>3. Right(x)
    BY <1>2, <2>1, <2>2 DEF Right
  <2>. QED
    BY <2>3
<1>3. CASE x[1] # <<>>
  <2>1. Turn(x[1], x[2]) \in Places
    BY <1>3, Turns
  <2>2. Right(Turn(x[1], x[2]))
    BY <1>1, <1>3, <2>1
  <2>. QED
    BY <1>3, <2>2, TurnIsRight
<1>. QED
  BY <1>2, <1>3

(* scanModule() calls back for the modules that can be reached from the    *)
(* entry module, and for no other.                                         *)
LEMMA ScanReaches == ScanModule \in Seq(Mod) /\ ToSet(ScanModule) = Reachable
<1>. DEFINE first == <<<<Entry>>, {}>>
            found == ToSet(ScanModule)
<1>1. first \in Places /\ ToSet(first[1]) = {Entry} /\ first[2] = {}
  <2>1. <<Entry>> \in Seq(Mod) /\ {} \in SUBSET Mod
    BY ScannerAssumption
  <2>2. \A a \in Seq(Mod), b \in SUBSET Mod : <<a, b>> \in Places
    BY DEF Places
  <2>3. first \in Places
    BY <2>1, <2>2, Zenon
  <2>4. ToSet(<<Entry>>) = {Entry}
    BY DEF ToSet
  <2>5. first[1] = <<Entry>> /\ first[2] = {}
    OBVIOUS
  <2>. QED
    BY <2>3, <2>4, <2>5
<1>2. Right(first) /\ ScanModule = Visiting[first]
  BY <1>1, VisitingIsRight DEF ScanModule
<1>. HIDE DEF first
<1>3. /\ ScanModule \in Seq(Mod) /\ Entry \in found
      /\ \A m \in found : ToSet(Requires[m]) \subseteq found
      /\ \A S \in SUBSET Mod : Entry \in S /\ IsClosed(S) => found \subseteq S
  BY <1>1, <1>2 DEF Right
<1>4. found \in SUBSET Mod
  BY <1>3 DEF ToSet
<1>. HIDE DEF found
<1>5. Reachable \subseteq found
  BY <1>3, <1>4 DEF Reachable
<1>6. ASSUME NEW m \in found PROVE m \in Reachable
  <2>1. ASSUME NEW S \in SUBSET Mod, Entry \in S, \A x \in S : ToSet(Requires[x]) \subseteq S
        PROVE  m \in S
    BY <1>3, <2>1 DEF IsClosed
  <2>. QED
    BY <1>4, <2>1 DEF Reachable
<1>. QED
  BY <1>3, <1>5, <1>6 DEF found

(* The scan of any graph finds the annotated methods of the matching       *)
(* controllers that can be reached, and no others.                         *)
THEOREM ScanFindsAll ==
  ASSUME NEW components, \A m \in Mod : components[m] \in Seq(ToSet(components[m]))
  PROVE  ScanIsComplete(components)
<1>. DEFINE All == UNION {ToSet(Methods[c]) : c \in DOMAIN ControllerLabels}
            MethodsOf(c) == IF IsMatching(c) THEN Methods[c] ELSE <<>>
            Of(m) == [k \in DOMAIN components[m] |-> MethodsOf(components[m][k])]
            found == [i \in DOMAIN ScanModule |-> FlattenSeq(Of(ScanModule[i]))]
<1>1. \A c : MethodsOf(c) \in Seq(All)
  <2>1. ASSUME NEW c, IsMatching(c) PROVE Methods[c] \in Seq(All)
    <3>1. c \in DOMAIN ControllerLabels /\ Methods[c] \in Seq(ToSet(Methods[c]))
      BY <2>1, ScannerAssumption DEF IsMatching
    <3>2. ToSet(Methods[c]) \subseteq All
      BY <3>1
    <3>. DEFINE own == ToSet(Methods[c])
    <3>3. Methods[c] \in Seq(own) /\ own \subseteq All
      BY <3>1, <3>2
    <3>. HIDE DEF own, All
    <3>. QED
      BY <3>3
  <2>. HIDE DEF All
  <2>2. <<>> \in Seq(All)
    OBVIOUS
  <2>. QED
    BY <2>1, <2>2
<1>2. ASSUME NEW m \in Mod
      PROVE  /\ FlattenSeq(Of(m)) \in Seq(All)
             /\ ToSet(FlattenSeq(Of(m))) = UNION {ToSet(MethodsOf(c)) : c \in ToSet(components[m])}
  <2>. DEFINE own == components[m]
              pieces == Of(m)
  <2>1. Len(own) \in Nat /\ DOMAIN own = 1 .. Len(own)
    <3>1. own \in Seq(ToSet(own))
      OBVIOUS
    <3>. HIDE DEF own
    <3>. QED
      BY <3>1
  <2>2. pieces \in Seq(Seq(All)) /\ DOMAIN pieces = DOMAIN own /\ \A k \in DOMAIN own : pieces[k] = MethodsOf(own[k])
    <3>1. pieces = [k \in DOMAIN own |-> MethodsOf(own[k])]
      OBVIOUS
    <3>. HIDE DEF own, pieces, MethodsOf, All
    <3>. QED
      BY <1>1, <2>1, <3>1
  <2>. HIDE DEF pieces, All, MethodsOf
  <2>3. /\ FlattenSeq(pieces) \in Seq(All)
        /\ ToSet(FlattenSeq(pieces)) = UNION {ToSet(pieces[i]) : i \in DOMAIN pieces}
    BY <2>2, Flattened
  <2>4. ToSet(own) = {own[k] : k \in DOMAIN own}
    BY DEF ToSet
  <2>. HIDE DEF own
  <2>5. UNION {ToSet(pieces[i]) : i \in DOMAIN pieces} = UNION {ToSet(MethodsOf(c)) : c \in ToSet(own)}
    BY <2>2, <2>4
  <2>. QED
    BY <2>3, <2>5 DEF pieces, own
<1>3. /\ found \in Seq(Seq(All)) /\ DOMAIN found = DOMAIN ScanModule
      /\ \A i \in DOMAIN ScanModule : found[i] = FlattenSeq(Of(ScanModule[i])) /\ ScanModule[i] \in Mod
      /\ Reachable = {ScanModule[i] : i \in DOMAIN ScanModule}
  <2>1. /\ Len(ScanModule) \in Nat /\ DOMAIN ScanModule = 1 .. Len(ScanModule)
        /\ \A i \in DOMAIN ScanModule : ScanModule[i] \in Mod
        /\ Reachable = {ScanModule[i] : i \in DOMAIN ScanModule}
    BY ScanReaches DEF ToSet
  <2>2. \A i \in DOMAIN ScanModule : FlattenSeq(Of(ScanModule[i])) \in Seq(All)
    BY <1>2, <2>1
  <2>. HIDE DEF All, Of
  <2>. QED
    BY <2>1, <2>2
<1>4. Found(components) = FlattenSeq(found)
  BY DEF Found
<1>. HIDE DEF found, All
<1>5. ToSet(Found(components)) = UNION {ToSet(found[i]) : i \in DOMAIN found}
  BY <1>3, <1>4, Flattened
<1>. HIDE DEF Of
<1>6. \A c : ~IsMatching(c) => ToSet(MethodsOf(c)) = {}
  BY DEF ToSet
<1>7. \A c : IsMatching(c) => MethodsOf(c) = Methods[c]
  OBVIOUS
<1>. HIDE DEF MethodsOf
<1>8. ASSUME NEW x PROVE x \in ToSet(Found(components)) <=> x \in Expected(components)
  <2>1. x \in ToSet(Found(components)) <=> \E i \in DOMAIN ScanModule : x \in ToSet(found[i])
    BY <1>3, <1>5
  <2>2. \A i \in DOMAIN ScanModule :
          x \in ToSet(found[i]) <=> \E c \in ToSet(components[ScanModule[i]]) : x \in ToSet(MethodsOf(c))
    BY <1>2, <1>3
  <2>3. x \in ToSet(Found(components)) <=>
          \E m \in Reachable : \E c \in ToSet(components[m]) : x \in ToSet(MethodsOf(c))
    BY <1>3, <2>1, <2>2
  <2>4. \A c : x \in ToSet(MethodsOf(c)) <=> IsMatching(c) /\ x \in ToSet(Methods[c])
    BY <1>6, <1>7
  <2>. QED
    BY <2>3, <2>4 DEF Expected
<1>. QED
  BY <1>8 DEF ScanIsComplete

-----------------------------------------------------------------------------
RunState == {"none", "running", "ok", "failed"}
ChainLevel == [needs : SUBSET Service, provides : SUBSET Service]

(* What the invariant says of one call.                                    *)
CallOK(c) ==
  /\ state[c] \in [Level(c) -> RunState]
  /\ nexts[c] \in [Level(c) -> 0 .. MaxNexts] /\ awaits[c] \in [Level(c) -> BOOLEAN]
  /\ \A i \in Level(c) : nexts[c][i] > 0 => i < Depth(c)
  /\ provided[c] \subseteq Service /\ value[c] \in Nat /\ runs[c] \in Nat /\ value[c] <= runs[c]
  /\ LevelsInv(c)

(* The variables are functions of the calls.                               *)
Rows ==
  /\ chain = [c \in Call |-> chain[c]]
  /\ state = [c \in Call |-> state[c]] /\ nexts = [c \in Call |-> nexts[c]]
  /\ awaits = [c \in Call |-> awaits[c]] /\ provided = [c \in Call |-> provided[c]]
  /\ value = [c \in Call |-> value[c]] /\ runs = [c \in Call |-> runs[c]]

AllOK == Rows /\ (\A c \in Call : CallOK(c)) /\ missing = {}

(* The invariant of the invoker, call by call.                             *)
LEMMA InvokerIInvDef ==
  InvokerIInv <=> Rows /\ (\A c \in Call : CallOK(c)) /\ missing = {}
<1>1. ASSUME InvokerIInv PROVE Rows /\ (\A c \in Call : CallOK(c)) /\ missing = {}
  BY <1>1 DEF InvokerIInv, Rows, CallOK, RunState, NothingMissing
<1>2. ASSUME Rows, \A c \in Call : CallOK(c), missing = {} PROVE InvokerIInv
  <2>1. provided \in [Call -> SUBSET Service] /\ value \in [Call -> Nat] /\ runs \in [Call -> Nat]
    BY <1>2 DEF Rows, CallOK
  <2>. QED
    BY <1>2, <2>1 DEF InvokerIInv, Rows, CallOK, RunState, NothingMissing
<1>. QED
  BY <1>1, <1>2

(* The same, of the state after a step.                                    *)
LEMMA InvokerIInvNext ==
  Rows' /\ (\A c \in Call : CallOK(c)') /\ missing' = {} => InvokerIInv'
<1>1. AllOK => InvokerIInv
  BY InvokerIInvDef DEF AllOK
<1>2. AllOK' => InvokerIInv'
  BY <1>1, PTL
<1>. QED
  BY <1>2 DEF AllOK

(* The chain of a call is a sequence of levels, and not empty.             *)
LEMMA ChainType ==
  ASSUME NEW c \in Call, chain[c] \in Chains[c]
  PROVE  /\ chain[c] \in Seq(ChainLevel) /\ Depth(c) \in Nat /\ Depth(c) > 0
         /\ 1 \in Level(c) /\ Depth(c) \in Level(c)
         /\ DOMAIN chain[c] = Level(c)
         /\ \A i \in Level(c) : chain[c][i].needs \subseteq Service /\ chain[c][i].provides \subseteq Service
<1>1. chain[c] \in Seq(ChainLevel) /\ chain[c] # <<>>
  BY InvokerAssumption DEF ChainLevel
<1>2. Len(chain[c]) \in Nat /\ Len(chain[c]) > 0 /\ DOMAIN chain[c] = 1 .. Len(chain[c])
  BY <1>1
<1>3. \A i \in 1 .. Len(chain[c]) : chain[c][i] \in ChainLevel
  BY <1>1
<1>. QED
  BY <1>1, <1>2, <1>3 DEF Depth, Level, ChainLevel

(* The initial states satisfy the invariant.                               *)
LEMMA InvokerInitEstablishes == InvokerInit => InvokerIInv
<1>. SUFFICES ASSUME InvokerInit PROVE InvokerIInv
  OBVIOUS
<1>1. Rows /\ missing = {} /\ \A c \in Call : chain[c] \in Chains[c] /\ Buildable(chain[c])
  BY DEF InvokerInit, Rows
<1>2. MaxNexts \in Nat
  BY InvokerAssumption
<1>3. ASSUME NEW c \in Call PROVE CallOK(c)
  <2>1. /\ state[c] = [i \in Level(c) |-> "none"] /\ nexts[c] = [i \in Level(c) |-> 0]
        /\ awaits[c] = [i \in Level(c) |-> FALSE]
        /\ provided[c] = {} /\ value[c] = 0 /\ runs[c] = 0
    BY DEF InvokerInit
  <2>2. LevelsInv(c)
    BY <1>1, <2>1 DEF LevelsInv, IsSettled
  <2>. QED
    BY <1>2, <2>1, <2>2 DEF CallOK, RunState
<1>. QED
  BY <1>1, <1>3, InvokerIInvDef

(* A step changes the row of one call.                                     *)
SameRow(d) ==
  /\ state'[d] = state[d] /\ nexts'[d] = nexts[d] /\ awaits'[d] = awaits[d]
  /\ provided'[d] = provided[d] /\ value'[d] = value[d] /\ runs'[d] = runs[d]

(* A step of one call keeps the invariant if that of its row is kept.      *)
LEMMA OneCall ==
  ASSUME InvokerIInv, NEW c \in Call, Rows', chain' = chain, missing' = {}, CallOK(c)',
         \A d \in Call \ {c} : SameRow(d)
  PROVE  InvokerIInv'
<1>1. ASSUME NEW d \in Call, d # c PROVE CallOK(d)'
  <2>1. CallOK(d) /\ SameRow(d) /\ chain'[d] = chain[d]
    BY <1>1, InvokerIInvDef
  <2>2. Depth(d)' = Depth(d) /\ Level(d)' = Level(d) /\ (Buildable(chain[d])' <=> Buildable(chain[d]))
    BY DEF Depth, Level, Buildable
  <2>. QED
    BY <2>1, <2>2 DEF CallOK, LevelsInv, SameRow
<1>. QED
  BY <1>1, InvokerIInvNext

(* What the building of the invoker accepted is in the session of a level  *)
(* all of whose upper levels have provided.                                *)
LEMMA NeedsAreFound ==
  ASSUME NEW c \in Call, chain[c] \in Chains[c], Buildable(chain[c]),
         NEW i \in Level(c), NEW available,
         \A j \in 1 .. i - 1 : chain[c][j].provides \subseteq available
  PROVE  chain[c][i].needs \subseteq Session(available)
<1>1. i \in DOMAIN chain[c]
  BY ChainType
<1>2. chain[c][i].needs \subseteq BoundIds \cup ContextIds \cup UNION {chain[c][j].provides : j \in 1 .. i - 1}
  BY <1>1 DEF Buildable
<1>3. UNION {chain[c][j].provides : j \in 1 .. i - 1} \subseteq available
  OBVIOUS
<1>. QED
  BY <1>2, <1>3 DEF Session

(* A level is entered: it is the new end of the call.                      *)
LEMMA EnterKeeps ==
  ASSUME InvokerIInv, NEW c \in Call, NEW i \in Level(c), NEW available,
         \A j \in 1 .. i - 1 : chain[c][j].provides \subseteq available,
         Enter(c, i, state[c], available)
  PROVE  /\ missing' = {}
         /\ state' = [d \in Call |-> state'[d]] /\ runs' = [d \in Call |-> runs'[d]]
         /\ state'[c] \in [Level(c) -> RunState]
         /\ state'[c][i] \in {"running", "failed"}
         /\ \A j \in Level(c) : (j < i => state'[c][j] = state[c][j]) /\ (j > i => state'[c][j] = "none")
         /\ runs'[c] \in Nat /\ runs'[c] >= runs[c]
         /\ \A d \in Call \ {c} : state'[d] = state[d] /\ runs'[d] = runs[d]
<1>1. Rows /\ CallOK(c) /\ missing = {} /\ chain[c] \in Chains[c] /\ Buildable(chain[c])
  BY InvokerIInvDef DEF CallOK, LevelsInv
<1>2. chain[c][i].needs \subseteq Session(available)
  BY <1>1, NeedsAreFound
<1>3. PICK s \in {"running", "failed"} :
        /\ state' = [state EXCEPT ![c] = [j \in Level(c) |-> IF j < i THEN state[c][j]
                                          ELSE IF j = i THEN s ELSE "none"]]
        /\ runs' = IF i = Depth(c) /\ s = "running" THEN [runs EXCEPT ![c] = @ + 1] ELSE runs
  BY <1>2 DEF Enter
<1>4. missing' = {}
  BY <1>1, <1>2 DEF Enter
<1>5. state'[c] = [j \in Level(c) |-> IF j < i THEN state[c][j] ELSE IF j = i THEN s ELSE "none"]
  BY <1>1, <1>3 DEF Rows
<1>6. state' = [d \in Call |-> state'[d]] /\ \A d \in Call \ {c} : state'[d] = state[d]
  BY <1>1, <1>3 DEF Rows
<1>7. /\ runs' = [d \in Call |-> runs'[d]] /\ \A d \in Call \ {c} : runs'[d] = runs[d]
      /\ runs'[c] \in Nat /\ runs'[c] >= runs[c]
  BY <1>1, <1>3 DEF Rows, CallOK
<1>8. Level(c) \subseteq Nat /\ i \in Nat
  BY DEF Level
<1>9. state'[c] \in [Level(c) -> RunState]
  BY <1>1, <1>5 DEF CallOK, RunState
<1>. QED
  BY <1>4, <1>5, <1>6, <1>7, <1>8, <1>9

(* invoke() opens the session.                                             *)
LEMMA InvokeKeeps ==
  ASSUME InvokerIInv, NEW c \in Call, Invoke(c)
  PROVE  /\ InvokerIInv' /\ chain' = chain
         /\ state[c][1] = "none" /\ state'[c][1] # "none"
         /\ \A d \in Call \ {c} : SameRow(d)
<1>1. /\ Rows /\ CallOK(c) /\ missing = {} /\ LevelsInv(c) /\ chain[c] \in Chains[c]
      /\ state[c][1] = "none" /\ Enter(c, 1, state[c], {})
      /\ UNCHANGED <<chain, nexts, awaits, provided, value>>
  BY InvokerIInvDef DEF Invoke, CallOK, LevelsInv
<1>2. 1 \in Level(c) /\ Level(c) \subseteq Nat \ {0}
  BY <1>1, ChainType DEF Level
<1>3. /\ missing' = {}
      /\ state' = [d \in Call |-> state'[d]] /\ runs' = [d \in Call |-> runs'[d]]
      /\ state'[c] \in [Level(c) -> RunState]
      /\ state'[c][1] \in {"running", "failed"}
      /\ \A j \in Level(c) : j > 1 => state'[c][j] = "none"
      /\ runs'[c] \in Nat /\ runs'[c] >= runs[c]
      /\ \A d \in Call \ {c} : state'[d] = state[d] /\ runs'[d] = runs[d]
  BY <1>1, <1>2, EnterKeeps
<1>4. Rows'
  BY <1>1, <1>3 DEF Rows
<1>5. (Level(c) = Level(c)') /\ Depth(c)' = Depth(c) /\ (Buildable(chain[c])' <=> Buildable(chain[c]))
  BY <1>1 DEF Level, Depth, Buildable
<1>6. LevelsInv(c)'
  BY <1>1, <1>2, <1>3, <1>5 DEF LevelsInv
<1>7. CallOK(c)'
  BY <1>1, <1>3, <1>5, <1>6 DEF CallOK
<1>8. \A d \in Call \ {c} : SameRow(d)
  BY <1>1, <1>3 DEF SameRow
<1>. QED
  BY <1>1, <1>3, <1>4, <1>7, <1>8, OneCall

(* The levels of a call whose states are known to be those of CallNext.    *)
LEMMA CallNextKeeps ==
  ASSUME InvokerIInv, NEW c \in Call, NEW i \in Level(c), CallNext(c, i)
  PROVE  /\ InvokerIInv' /\ chain' = chain /\ value' = value
         /\ state'[c][1] = state[c][1]
         /\ \A d \in Call \ {c} : SameRow(d)
<1>1. /\ Rows /\ CallOK(c) /\ missing = {} /\ LevelsInv(c) /\ chain[c] \in Chains[c]
      /\ state[c][i] = "running" /\ i < Depth(c) /\ nexts[c][i] < MaxNexts
      /\ Enter(c, i + 1, state[c], provided'[c])
      /\ provided' = [provided EXCEPT ![c] = @ \cup chain[c][i].provides]
      /\ UNCHANGED <<chain, value>>
  BY InvokerIInvDef DEF CallNext, MayGoOn, CallOK, LevelsInv
<1>2. /\ Level(c) = 1 .. Depth(c) /\ Depth(c) \in Nat /\ i + 1 \in Level(c) /\ i \in Nat \ {0}
      /\ chain[c][i].provides \subseteq Service
  BY <1>1, ChainType DEF Level
<1>3. /\ provided' = [d \in Call |-> provided'[d]]
      /\ provided'[c] = provided[c] \cup chain[c][i].provides
      /\ \A d \in Call \ {c} : provided'[d] = provided[d]
  BY <1>1 DEF Rows
<1>4. \A j \in 1 .. i : chain[c][j].provides \subseteq provided'[c]
  BY <1>1, <1>2, <1>3 DEF LevelsInv
<1>5. /\ missing' = {}
      /\ state' = [d \in Call |-> state'[d]] /\ runs' = [d \in Call |-> runs'[d]]
      /\ state'[c] \in [Level(c) -> RunState]
      /\ state'[c][i + 1] \in {"running", "failed"}
      /\ \A j \in Level(c) : (j < i + 1 => state'[c][j] = state[c][j])
                             /\ (j > i + 1 => state'[c][j] = "none")
      /\ runs'[c] \in Nat /\ runs'[c] >= runs[c]
      /\ \A d \in Call \ {c} : state'[d] = state[d] /\ runs'[d] = runs[d]
  <2>1. \A j \in 1 .. (i + 1) - 1 : chain[c][j].provides \subseteq provided'[c]
    BY <1>2, <1>4
  <2>2. i + 1 \in Level(c)
    BY <1>2
  <2>. QED
    BY <1>1, <2>1, <2>2, EnterKeeps
<1>6. PICK a \in BOOLEAN :
        awaits' = [awaits EXCEPT ![c] = [j \in Level(c) |-> IF j = i THEN a ELSE j < i /\ @[j]]]
  BY DEF CallNext
<1>7. /\ awaits'[c] \in [Level(c) -> BOOLEAN]
      /\ \A j \in Level(c) : j < i => awaits'[c][j] = awaits[c][j]
      /\ awaits' = [d \in Call |-> awaits'[d]] /\ \A d \in Call \ {c} : awaits'[d] = awaits[d]
  <2>1. awaits'[c] = [j \in Level(c) |-> IF j = i THEN a ELSE j < i /\ awaits[c][j]]
    BY <1>1, <1>6 DEF Rows
  <2>2. \A j \in Level(c) : awaits[c][j] \in BOOLEAN
    BY <1>1 DEF CallOK
  <2>3. awaits' = [d \in Call |-> awaits'[d]] /\ \A d \in Call \ {c} : awaits'[d] = awaits[d]
    BY <1>1, <1>6 DEF Rows
  <2>4. \A j \in Level(c) : awaits'[c][j] = (IF j = i THEN a ELSE j < i /\ awaits[c][j])
    BY <2>1
  <2>5. \A j \in Level(c) : j < i => awaits'[c][j] = awaits[c][j]
    <3>. TAKE j \in Level(c)
    <3>1. awaits[c][j] \in BOOLEAN /\ (j < i => j # i)
      BY <1>2, <2>2
    <3>. QED
      BY <2>4, <3>1
  <2>6. \A j \in Level(c) : (IF j = i THEN a ELSE j < i /\ awaits[c][j]) \in BOOLEAN
    BY <1>6
  <2>7. awaits'[c] \in [Level(c) -> BOOLEAN]
    BY <2>1, <2>6
  <2>. QED
    BY <2>3, <2>5, <2>7
<1>8. /\ nexts'[c] \in [Level(c) -> 0 .. MaxNexts]
      /\ nexts'[c][i] > 0
      /\ \A j \in Level(c) : (j < i => nexts'[c][j] = nexts[c][j]) /\ (j > i => nexts'[c][j] = 0)
      /\ nexts' = [d \in Call |-> nexts'[d]] /\ \A d \in Call \ {c} : nexts'[d] = nexts[d]
  <2>1. nexts' = [nexts EXCEPT ![c] = [j \in Level(c) |-> IF j = i THEN @[j] + 1
                                                       ELSE IF j > i THEN 0 ELSE @[j]]]
    BY DEF CallNext
  <2>2. nexts'[c] = [j \in Level(c) |-> IF j = i THEN nexts[c][j] + 1
                                         ELSE IF j > i THEN 0 ELSE nexts[c][j]]
    BY <1>1, <2>1 DEF Rows
  <2>3. MaxNexts \in Nat /\ \A j \in Level(c) : nexts[c][j] \in 0 .. MaxNexts
    BY <1>1, InvokerAssumption DEF CallOK
  <2>4. nexts' = [d \in Call |-> nexts'[d]] /\ \A d \in Call \ {c} : nexts'[d] = nexts[d]
    BY <1>1, <2>1 DEF Rows
  <2>5. nexts[c][i] \in 0 .. MaxNexts - 1
    BY <1>1, <2>3
  <2>6. \A j \in Level(c) : /\ nexts'[c][j] \in 0 .. MaxNexts
                            /\ j < i => nexts'[c][j] = nexts[c][j]
                            /\ j > i => nexts'[c][j] = 0
                            /\ j = i => nexts'[c][j] > 0
    BY <1>2, <2>2, <2>3, <2>5
  <2>7. nexts'[c] \in [Level(c) -> 0 .. MaxNexts]
    BY <2>2, <2>6
  <2>. QED
    BY <2>4, <2>6, <2>7
<1>9. (Level(c) = Level(c)') /\ Depth(c)' = Depth(c) /\ (Buildable(chain[c])' <=> Buildable(chain[c]))
  BY <1>1 DEF Level, Depth, Buildable
<1>10. LevelsInv(c)'
  <2>1. ASSUME NEW k \in Level(c), state'[c][k] # "none", NEW j \in 1 .. k - 1
        PROVE  /\ state'[c][j] # "none" /\ nexts'[c][j] > 0
               /\ chain[c][j].provides \subseteq provided'[c]
    <3>1. k <= i + 1 /\ j \in 1 .. i /\ j \in Level(c) /\ j < i + 1
      BY <1>2, <1>5, <2>1
    <3>2. state[c][j] # "none"
      BY <1>1, <1>2, <3>1 DEF LevelsInv
    <3>3. nexts'[c][j] > 0
      BY <1>1, <1>2, <1>8, <3>1 DEF LevelsInv
    <3>. QED
      BY <1>4, <1>5, <3>1, <3>2, <3>3
  <2>2. ASSUME NEW h \in Level(c), NEW k \in Level(c), h < k,
               IsSettled(state'[c][h]), state'[c][k] = "running"
        PROVE  \E j \in h .. k - 1 : nexts'[c][j] > 0 /\ ~awaits'[c][j]
    <3>1. k <= i + 1 /\ h < i + 1 /\ state'[c][h] = state[c][h]
      BY <1>2, <1>5, <2>2
    <3>2. h # i
      BY <1>1, <2>2, <3>1 DEF IsSettled
    <3>3. PICK j \in h .. i - 1 : j < k /\ nexts[c][j] > 0 /\ ~awaits[c][j]
      <4>1. CASE k = i + 1
        BY <1>1, <1>2, <2>2, <3>1, <3>2, <4>1 DEF LevelsInv
      <4>2. CASE k < i + 1
        <5>1. state[c][k] = "running"
          BY <1>5, <2>2, <4>2
        <5>. QED
          BY <1>1, <1>2, <2>2, <3>1, <4>2, <5>1 DEF LevelsInv
      <4>. QED
        BY <1>2, <3>1, <4>1, <4>2
    <3>4. j \in Level(c) /\ j < i /\ j \in h .. k - 1
      BY <1>2, <3>3
    <3>. QED
      BY <1>7, <1>8, <3>3, <3>4
  <2>. QED
    BY <1>1, <1>9, <2>1, <2>2 DEF LevelsInv
<1>11. CallOK(c)'
  <2>1. provided'[c] \subseteq Service
    BY <1>1, <1>2, <1>3 DEF CallOK
  <2>2. \A j \in Level(c) : nexts'[c][j] > 0 => j < Depth(c)
    BY <1>1, <1>2, <1>8
  <2>. QED
    BY <1>1, <1>5, <1>7, <1>8, <1>9, <1>10, <2>1, <2>2 DEF CallOK
<1>12. Rows'
  BY <1>1, <1>3, <1>5, <1>7, <1>8 DEF Rows
<1>13. \A d \in Call \ {c} : SameRow(d)
  BY <1>1, <1>3, <1>5, <1>7, <1>8 DEF SameRow
<1>14. state'[c][1] = state[c][1]
  BY <1>2, <1>5
<1>. QED
  BY <1>1, <1>5, <1>11, <1>12, <1>13, <1>14, OneCall

(* handle() of a middleware settles: whatever it awaited has settled.      *)
LEMMA HandleKeeps ==
  ASSUME InvokerIInv, NEW c \in Call, NEW i \in Level(c), HandleSettles(c, i)
  PROVE  /\ InvokerIInv' /\ chain' = chain /\ value' = value
         /\ state[c][i] = "running" /\ state'[c][i] \in {"ok", "failed"}
         /\ \A j \in Level(c) \ {i} : state'[c][j] = state[c][j]
         /\ \A d \in Call \ {c} : SameRow(d)
<1>1. /\ Rows /\ CallOK(c) /\ missing = {} /\ LevelsInv(c) /\ chain[c] \in Chains[c]
      /\ state[c][i] = "running" /\ i < Depth(c)
      /\ awaits[c][i] => IsSettled(state[c][i + 1])
      /\ UNCHANGED <<chain, nexts, awaits, provided, value, runs, missing>>
  BY InvokerIInvDef DEF HandleSettles, MayGoOn, CallOK, LevelsInv
<1>2. /\ Level(c) = 1 .. Depth(c) /\ Depth(c) \in Nat /\ i + 1 \in Level(c) /\ i \in Nat \ {0}
  BY <1>1, ChainType DEF Level
<1>3. PICK s \in {"ok", "failed"} : state' = [state EXCEPT ![c][i] = s]
  BY DEF HandleSettles
<1>4. /\ state'[c] = [state[c] EXCEPT ![i] = s]
      /\ state' = [d \in Call |-> state'[d]] /\ \A d \in Call \ {c} : state'[d] = state[d]
  BY <1>1, <1>3 DEF Rows
<1>5. /\ state'[c] \in [Level(c) -> RunState] /\ state'[c][i] = s
      /\ \A j \in Level(c) \ {i} : state'[c][j] = state[c][j]
  BY <1>1, <1>4 DEF CallOK, RunState
<1>6. (Level(c) = Level(c)') /\ Depth(c)' = Depth(c) /\ (Buildable(chain[c])' <=> Buildable(chain[c]))
  BY <1>1 DEF Level, Depth, Buildable
<1>7. LevelsInv(c)'
  <2>1. ASSUME NEW k \in Level(c), state'[c][k] # "none", NEW j \in 1 .. k - 1
        PROVE  /\ state'[c][j] # "none" /\ nexts[c][j] > 0
               /\ chain[c][j].provides \subseteq provided[c]
    <3>1. state[c][k] # "none" /\ j \in Level(c)
      BY <1>1, <1>2, <1>5, <2>1
    <3>. QED
      BY <1>1, <1>5, <2>1, <3>1 DEF LevelsInv
  <2>2. ASSUME NEW h \in Level(c), NEW k \in Level(c), h < k,
               IsSettled(state'[c][h]), state'[c][k] = "running"
        PROVE  \E j \in h .. k - 1 : nexts[c][j] > 0 /\ ~awaits[c][j]
    <3>1. k # i /\ state[c][k] = "running"
      BY <1>5, <2>2
    <3>2. CASE h # i
      BY <1>1, <1>5, <2>2, <3>1, <3>2 DEF LevelsInv
    <3>3. CASE h = i /\ ~awaits[c][i]
      BY <1>1, <1>2, <2>2, <3>1, <3>3 DEF LevelsInv
    <3>4. CASE h = i /\ awaits[c][i]
      <4>1. IsSettled(state[c][i + 1]) /\ i + 1 < k
        BY <1>1, <1>2, <2>2, <3>1, <3>4 DEF IsSettled
      <4>2. PICK j \in i + 1 .. k - 1 : nexts[c][j] > 0 /\ ~awaits[c][j]
        BY <1>1, <1>2, <2>2, <3>1, <4>1 DEF LevelsInv
      <4>. QED
        BY <1>2, <3>4, <4>2
    <3>. QED
      BY <3>2, <3>3, <3>4
  <2>. QED
    BY <1>1, <1>6, <2>1, <2>2 DEF LevelsInv
<1>8. CallOK(c)'
  BY <1>1, <1>5, <1>6, <1>7 DEF CallOK
<1>9. Rows'
  BY <1>1, <1>4 DEF Rows
<1>10. \A d \in Call \ {c} : SameRow(d)
  BY <1>1, <1>4 DEF SameRow
<1>. QED
  BY <1>1, <1>5, <1>8, <1>9, <1>10, OneCall

(* The promise of the method settles: a value is kept once it is there.    *)
LEMMA MethodKeeps ==
  ASSUME InvokerIInv, NEW c \in Call, MethodSettles(c)
  PROVE  /\ InvokerIInv' /\ chain' = chain
         /\ value[c] # 0 => value'[c] = value[c]
         /\ state[c][Depth(c)] = "running" /\ state'[c][Depth(c)] \in {"ok", "failed"}
         /\ \A j \in Level(c) \ {Depth(c)} : state'[c][j] = state[c][j]
         /\ \A d \in Call \ {c} : SameRow(d)
<1>1. /\ Rows /\ CallOK(c) /\ missing = {} /\ LevelsInv(c) /\ chain[c] \in Chains[c]
      /\ state[c][Depth(c)] = "running"
      /\ UNCHANGED <<chain, nexts, awaits, provided, runs, missing>>
  BY InvokerIInvDef DEF MethodSettles, CallOK, LevelsInv
<1>2. /\ Level(c) = 1 .. Depth(c) /\ Depth(c) \in Level(c) /\ Depth(c) \in Nat \ {0}
  BY <1>1, ChainType DEF Level
<1>3. PICK s \in {"ok", "failed"} : state' = [state EXCEPT ![c][Depth(c)] = s]
  BY DEF MethodSettles
<1>4. /\ state'[c] = [state[c] EXCEPT ![Depth(c)] = s]
      /\ state' = [d \in Call |-> state'[d]] /\ \A d \in Call \ {c} : state'[d] = state[d]
  BY <1>1, <1>3 DEF Rows
<1>5. /\ state'[c] \in [Level(c) -> RunState] /\ state'[c][Depth(c)] = s
      /\ \A j \in Level(c) \ {Depth(c)} : state'[c][j] = state[c][j]
  BY <1>1, <1>2, <1>4 DEF CallOK, RunState
<1>6. (Level(c) = Level(c)') /\ Depth(c)' = Depth(c) /\ (Buildable(chain[c])' <=> Buildable(chain[c]))
  BY <1>1 DEF Level, Depth, Buildable
<1>7. /\ value' = [d \in Call |-> value'[d]] /\ \A d \in Call \ {c} : value'[d] = value[d]
      /\ value'[c] \in Nat /\ value'[c] <= runs[c] /\ (value[c] # 0 => value'[c] = value[c])
  <2>1. \/ value' = value
        \/ value[c] = 0 /\ value' = [value EXCEPT ![c] = runs[c]]
    <3>1. \/ value' = IF value[c] = 0 THEN [value EXCEPT ![c] = runs[c]] ELSE value
          \/ value' = value
      BY DEF MethodSettles
    <3>. QED
      BY <3>1
  <2>. QED
    BY <1>1, <2>1 DEF Rows, CallOK
<1>8. LevelsInv(c)'
  <2>1. ASSUME NEW k \in Level(c), state'[c][k] # "none", NEW j \in 1 .. k - 1
        PROVE  /\ state'[c][j] # "none" /\ nexts[c][j] > 0
               /\ chain[c][j].provides \subseteq provided[c]
    <3>1. state[c][k] # "none" /\ j \in Level(c)
      BY <1>1, <1>2, <1>5, <2>1
    <3>. QED
      BY <1>1, <1>5, <2>1, <3>1 DEF LevelsInv
  <2>2. ASSUME NEW h \in Level(c), NEW k \in Level(c), h < k,
               IsSettled(state'[c][h]), state'[c][k] = "running"
        PROVE  \E j \in h .. k - 1 : nexts[c][j] > 0 /\ ~awaits[c][j]
    <3>1. k # Depth(c) /\ h # Depth(c)
      BY <1>2, <1>5, <2>2
    <3>. QED
      BY <1>1, <1>5, <2>2, <3>1 DEF LevelsInv
  <2>. QED
    BY <1>1, <1>6, <2>1, <2>2 DEF LevelsInv
<1>9. CallOK(c)'
  BY <1>1, <1>5, <1>6, <1>7, <1>8 DEF CallOK
<1>10. Rows'
  BY <1>1, <1>4, <1>7 DEF Rows
<1>11. \A d \in Call \ {c} : SameRow(d)
  BY <1>1, <1>4, <1>7 DEF SameRow
<1>. QED
  BY <1>1, <1>2, <1>5, <1>7, <1>9, <1>10, <1>11, OneCall

(* A step of a call that was invoked: it stays invoked, what has settled   *)
(* on the outside stays so, and a value stays.                             *)
LEMMA CallStepKeeps ==
  ASSUME InvokerIInv, NEW c \in Call, CallStep(c)
  PROVE  /\ InvokerIInv' /\ chain' = chain
         /\ state[c][1] # "none" /\ state'[c][1] # "none"
         /\ IsSettled(state[c][1]) => state'[c][1] = state[c][1]
         /\ value[c] # 0 => value'[c] = value[c]
         /\ \A d \in Call \ {c} : SameRow(d)
<1>1. /\ LevelsInv(c) /\ 1 \in Level(c) /\ Level(c) = 1 .. Depth(c) /\ Depth(c) \in Level(c)
      /\ Depth(c) \in Nat
  BY InvokerIInvDef, ChainType DEF CallOK, LevelsInv, Level
<1>2. \A i \in Level(c) : state[c][i] = "running" => state[c][1] # "none"
  BY <1>1 DEF LevelsInv
<1>3. ASSUME NEW i \in Level(c), CallNext(c, i)
      PROVE  /\ InvokerIInv' /\ chain' = chain /\ value' = value
             /\ state[c][i] = "running" /\ state'[c][1] = state[c][1]
             /\ \A d \in Call \ {c} : SameRow(d)
  BY <1>3, CallNextKeeps DEF CallNext, MayGoOn
<1>4. ASSUME NEW i \in Level(c), HandleSettles(c, i)
      PROVE  /\ InvokerIInv' /\ chain' = chain /\ value' = value
             /\ state[c][i] = "running" /\ state'[c][i] \in {"ok", "failed"}
             /\ \A j \in Level(c) \ {i} : state'[c][j] = state[c][j]
             /\ \A d \in Call \ {c} : SameRow(d)
  BY <1>4, HandleKeeps
<1>5. CASE MethodSettles(c)
  BY <1>1, <1>2, <1>5, MethodKeeps DEF IsSettled
<1>6. CASE \E i \in Level(c) : HandleSettles(c, i)
  BY <1>1, <1>2, <1>4, <1>6 DEF IsSettled
<1>7. CASE \E i \in Level(c) : CallNext(c, i)
  BY <1>1, <1>2, <1>3, <1>7
<1>. QED
  BY <1>5, <1>6, <1>7 DEF CallStep, CallSettles

(* The other modules leave the calls alone.                                *)
LEMMA CallsKeep == InvokerIInv /\ UNCHANGED invokerVars => InvokerIInv'
<1>. SUFFICES ASSUME InvokerIInv, UNCHANGED invokerVars PROVE InvokerIInv'
  OBVIOUS
<1>1. /\ UNCHANGED <<chain, state, nexts, awaits, provided, value, runs, missing>>
  BY DEF invokerVars
<1>2. ASSUME NEW c \in Call PROVE CallOK(c)'
  <2>1. CallOK(c) /\ Depth(c)' = Depth(c) /\ Level(c)' = Level(c) /\ (Buildable(chain[c])' <=> Buildable(chain[c]))
    BY <1>1, InvokerIInvDef DEF Depth, Level, Buildable
  <2>. QED
    BY <1>1, <2>1 DEF CallOK, LevelsInv
<1>. QED
  BY <1>1, <1>2, InvokerIInvDef, InvokerIInvNext DEF Rows

(* The type invariant of the calls is a part of the invariant.             *)
LEMMA InvokerTypes == InvokerIInv => InvokerTypeOK
<1>. SUFFICES ASSUME InvokerIInv PROVE InvokerTypeOK
  OBVIOUS
<1>1. ASSUME NEW c \in Call
      PROVE  /\ chain[c] \in Chains[c] /\ DOMAIN state[c] = Level(c)
             /\ \A i \in Level(c) : /\ state[c][i] \in {"none", "running", "ok", "failed"}
                                    /\ nexts[c][i] \in 0 .. MaxNexts
                                    /\ nexts[c][i] > 0 => i < Depth(c)
             /\ provided[c] \subseteq Service /\ value[c] \in 0 .. runs[c]
  <2>1. CallOK(c)
    BY InvokerIInvDef
  <2>. QED
    BY <2>1 DEF CallOK, LevelsInv, RunState
<1>. QED
  BY <1>1, InvokerIInvDef DEF InvokerTypeOK

-----------------------------------------------------------------------------
(* The inductive invariant behind OneInstance.                             *)

Classes == {Proxy} \cup {id \in Id : IsClass(bindings[id])}

(* The instructions of a class; every plan may take a temporary binding    *)
(* but for those below a singleton.                                        *)
Codes == [id \in Classes |-> Compile(id, ScopeOf(id) # "SINGLETON")]

Uncached(s) == {id \in Classes : Cached(s, id) = None}

(* The plans that session s cannot answer from a cache, and the class that *)
(* it builds for each.                                                     *)
PlanCode == [code : {"PLAN"}, target : Id \cup {Proxy}, optional : BOOLEAN, allowTemporary : BOOLEAN]
Instr == PlanCode \cup [code : {"TRANSFORM"}] \cup [code : {"BUILD"}, target : Id \cup {Proxy}]

Elaborated(s) ==
  {x \in PlanCode \X Classes :
     LET end == Chase(s, x[1].target, x[1].allowTemporary)
     IN  /\ Cached(s, x[1].target) = None
         /\ end.id = x[2] /\ end.end \in {"bound", "temporary"}}

IsBuild(is, i) == i \in DOMAIN is /\ is[i].code = "BUILD"

(* From i to j there is what is left of the instructions of one class.     *)
Within(is, i, j) ==
  IsBuild(is, i) /\ j \in i .. Len(is) /\ \A k \in i + 1 .. j : ~IsBuild(is, k)

(* The class built at j is for the plan that was above Within(is, i, j - 1)*)
Above(is, i, j) == i < j /\ IsBuild(is, j) /\ Within(is, i, j - 1)

(* A stack of instructions is made of frames: of each class what is left   *)
(* of its code; the plan above it is what the next class is built for.     *)
(* A stack begins with a BUILD, and no BUILD is of a class in a cache.     *)
Pending(is, uncached) ==
  /\ is # <<>> => IsBuild(is, 1)
  /\ \A i \in DOMAIN is : IsBuild(is, i) => is[i].target \in uncached

Leftover(is, codes) ==
  \A i, j \in DOMAIN is : Within(is, i, j) =>
    j - i + 1 \in DOMAIN codes[is[i].target] /\ is[j] = codes[is[i].target][j - i + 1]

BuiltFor(is, codes, elaborated) ==
  \A i, j \in DOMAIN is : Above(is, i, j) =>
    /\ j - i + 1 \in DOMAIN codes[is[i].target]
    /\ <<codes[is[i].target][j - i + 1], is[j].target>> \in elaborated

(* A class is there twice only when it needs itself, and then the one below*)
(* has done more plans than the one above.                                 *)
Ahead(is) ==
  \A i, k, j \in DOMAIN is :
    Above(is, i, k) /\ k <= j /\ IsBuild(is, j) /\ is[i].target = is[j].target =>
      \/ \E l \in DOMAIN is : Above(is, j, l) /\ k - i <= l - j
      \/ Within(is, j, Len(is)) /\ k - i <= Len(is) - j

Frames(is, codes, elaborated, uncached) ==
  /\ Pending(is, uncached) /\ Leftover(is, codes)
  /\ BuiltFor(is, codes, elaborated) /\ Ahead(is)

(* What was built cleanly for a scope is in the cache of the scope.        *)
CachedInv(id) ==
  \A i \in DOMAIN made[id] : made[id][i].clean =>
    /\ IsClass(bindings[id])
    /\ ScopeOf(id) = "SINGLETON" => globalCache[id] # None
    /\ ScopeOf(id) = "SESSION" => sessionCache[made[id][i].by][id] # None

MachineTypeOK ==
  /\ bindings \in [Id -> Binding \cup {None}] /\ program \in Program
  /\ \A id \in compiled : id \in Id /\ IsClass(bindings[id])
  /\ running \in Calls \cup {None} /\ threw \subseteq ResolveSession
  /\ instructions \in [ResolveSession -> Seq(Instr)]
  /\ globalCache = [id \in Id |-> globalCache[id]]
  /\ sessionCache = [s \in ResolveSession |-> [id \in Id |-> sessionCache[s][id]]]
  /\ made = [id \in Id |-> made[id]]
  /\ \A id \in Id :
       /\ Len(made[id]) \in Nat /\ made[id] = [i \in 1 .. Len(made[id]) |-> made[id][i]]
       /\ \A i \in DOMAIN made[id] : made[id][i].by \in ResolveSession

(* Only the session that runs has instructions left.                       *)
FramesInv(s) ==
  /\ Frames(instructions[s], Codes, Elaborated(s), Uncached(s))
  /\ running = None \/ running.by # s => instructions[s] = <<>>

MachineInv ==
  /\ MachineTypeOK
  /\ \A s \in ResolveSession \ threw : FramesInv(s)
  /\ \A id \in Id : CachedInv(id)
  /\ OneInstance

-----------------------------------------------------------------------------
(* The stack machine: frames of instructions.                              *)

(* The code of a class begins with its BUILD, and has no other.            *)
CodesOK(codes) ==
  \A id \in DOMAIN codes :
    /\ Len(codes[id]) \in Nat /\ DOMAIN codes[id] = 1 .. Len(codes[id]) /\ Len(codes[id]) >= 1
    /\ codes[id][1].code = "BUILD" /\ codes[id][1].target = id
    /\ \A k \in DOMAIN codes[id] : k > 1 => codes[id][k].code # "BUILD"

(* The length and the domain of a sequence.                                *)
LEMMA SequenceFacts ==
  ASSUME NEW S, NEW is \in Seq(S)
  PROVE  Len(is) \in Nat /\ DOMAIN is = 1 .. Len(is) /\ (is = <<>> <=> Len(is) = 0)
OBVIOUS

(* A stack whose top is popped.                                            *)
LEMMA FrontFacts ==
  ASSUME NEW S, NEW is \in Seq(S), is # <<>>, NEW js, js = Front(is)
  PROVE  /\ js \in Seq(S) /\ Len(js) \in Nat /\ Len(is) = Len(js) + 1
         /\ DOMAIN js = 1 .. Len(js) /\ DOMAIN is = 1 .. Len(js) + 1
         /\ \A i \in DOMAIN js : js[i] = is[i]
<1>1. Len(is) \in Nat /\ Len(is) # 0 /\ DOMAIN is = 1 .. Len(is)
  OBVIOUS
<1>2. js = [i \in 1 .. Len(is) - 1 |-> is[i]]
  BY <1>1 DEF Front
<1>3. js \in Seq(S) /\ Len(js) = Len(is) - 1
  BY <1>1, <1>2
<1>. QED
  BY <1>1, <1>2, <1>3

(* The relations of a stack are those of a shorter one.                    *)
LEMMA SamePlaces ==
  ASSUME NEW is, NEW js, NEW n \in Nat, Len(js) \in Nat, Len(is) \in Nat,
         DOMAIN is = 1 .. Len(is), DOMAIN js = 1 .. Len(js),
         n <= Len(is), n <= Len(js), \A i \in 1 .. n : is[i] = js[i]
  PROVE  /\ \A i \in 1 .. n : IsBuild(is, i) <=> IsBuild(js, i)
         /\ \A i, j \in 1 .. n : Within(is, i, j) <=> Within(js, i, j)
         /\ \A i, j \in 1 .. n : Above(is, i, j) <=> Above(js, i, j)
<1>1. \A i \in 1 .. n : IsBuild(is, i) <=> IsBuild(js, i)
  BY DEF IsBuild
<1>2. ASSUME NEW i \in 1 .. n, NEW j \in 1 .. n PROVE Within(is, i, j) <=> Within(js, i, j)
  <2>1. \A k \in i + 1 .. j : k \in 1 .. n
    OBVIOUS
  <2>2. j \in i .. Len(is) <=> j \in i .. Len(js)
    OBVIOUS
  <2>. QED
    BY <1>1, <2>1, <2>2 DEF Within
<1>3. ASSUME NEW i \in 1 .. n, NEW j \in 1 .. n, i < j PROVE Within(is, i, j - 1) <=> Within(js, i, j - 1)
  <2>1. j - 1 \in 1 .. n
    BY <1>3
  <2>. QED
    BY <1>2, <2>1
<1>. QED
  BY <1>1, <1>2, <1>3 DEF Above

(* A shorter stack has the frames of the longer one.                       *)
LEMMA FrontFrames ==
  ASSUME NEW S, NEW is \in Seq(S), is # <<>>, NEW codes, NEW e, NEW u,
         Pending(is, u), Leftover(is, codes), BuiltFor(is, codes, e)
  PROVE  /\ Pending(Front(is), u) /\ Leftover(Front(is), codes) /\ BuiltFor(Front(is), codes, e)
<1>. DEFINE js == Front(is)
            n == Len(js)
<1>1. /\ n \in Nat /\ Len(is) = n + 1 /\ DOMAIN js = 1 .. n /\ DOMAIN is = 1 .. n + 1
      /\ \A i \in 1 .. n : js[i] = is[i]
  BY FrontFacts
<1>3. (js = <<>> <=> n = 0)
  <2>1. js \in Seq(S)
    BY FrontFacts
  <2>. HIDE DEF js
  <2>. QED
    BY <2>1
<1>. HIDE DEF js
<1>4. /\ \A i \in 1 .. n : IsBuild(is, i) <=> IsBuild(js, i)
      /\ \A i, j \in 1 .. n : Within(is, i, j) <=> Within(js, i, j)
      /\ \A i, j \in 1 .. n : Above(is, i, j) <=> Above(js, i, j)
  BY <1>1, SamePlaces
<1>. HIDE DEF n
<1>5. \A i \in 1 .. n : i \in DOMAIN is
  BY <1>1
<1>6. Pending(js, u)
  BY <1>1, <1>3, <1>4, <1>5 DEF Pending
<1>7. Leftover(js, codes)
  BY <1>1, <1>4, <1>5 DEF Leftover
<1>8. BuiltFor(js, codes, e)
  BY <1>1, <1>4, <1>5 DEF BuiltFor
<1>. QED
  BY <1>6, <1>7, <1>8 DEF js

(* The top is no BUILD, and no class that is in no cache is built for it:  *)
(* a value is pushed, or transformed.                                      *)
LEMMA PopCode ==
  ASSUME NEW S, NEW is \in Seq(S), is # <<>>, NEW codes, NEW e, NEW u,
         Frames(is, codes, e, u), Last(is).code # "BUILD", \A id \in u : <<Last(is), id>> \notin e
  PROVE  Frames(Front(is), codes, e, u)
<1>. DEFINE js == Front(is)
            n == Len(js)
<1>1. /\ n \in Nat /\ Len(is) = n + 1 /\ DOMAIN js = 1 .. n /\ DOMAIN is = 1 .. n + 1
      /\ \A i \in 1 .. n : js[i] = is[i]
  BY FrontFacts
<1>2. Last(is) = is[n + 1] /\ ~IsBuild(is, n + 1)
  BY <1>1 DEF Last, IsBuild
<1>3. Pending(js, u) /\ Leftover(js, codes) /\ BuiltFor(js, codes, e)
  BY FrontFrames DEF Frames
<1>. HIDE DEF js
<1>4. /\ \A i \in 1 .. n : IsBuild(is, i) <=> IsBuild(js, i)
      /\ \A i, j \in 1 .. n : Within(is, i, j) <=> Within(js, i, j)
      /\ \A i, j \in 1 .. n : Above(is, i, j) <=> Above(js, i, j)
  BY <1>1, SamePlaces
<1>. HIDE DEF n
<1>5. \A i \in 1 .. n : i \in DOMAIN is
  BY <1>1
<1>6. Leftover(is, codes) /\ BuiltFor(is, codes, e) /\ Ahead(is) /\ Pending(is, u)
  BY DEF Frames
<1>7. ASSUME NEW i \in 1 .. n, NEW k \in 1 .. n, NEW j \in 1 .. n,
             Above(js, i, k), k <= j, IsBuild(js, j), js[i].target = js[j].target
      PROVE  \/ \E l \in 1 .. n : Above(js, j, l) /\ k - i <= l - j
             \/ Within(js, j, n) /\ k - i <= n - j
  <2>1. Above(is, i, k) /\ IsBuild(is, j) /\ is[i].target = is[j].target
    BY <1>1, <1>4, <1>7
  <2>2. CASE \E l \in DOMAIN is : Above(is, j, l) /\ k - i <= l - j
    <3>1. PICK l \in DOMAIN is : Above(is, j, l) /\ k - i <= l - j
      BY <2>2
    <3>2. l # n + 1
      BY <1>2, <3>1 DEF Above
    <3>3. l \in 1 .. n
      BY <1>1, <3>1, <3>2
    <3>. QED
      BY <1>4, <3>1, <3>3
  <2>3. CASE Within(is, j, Len(is)) /\ k - i <= Len(is) - j
    <3>1. Within(is, j, n + 1) /\ k - i <= (n + 1) - j
      BY <1>1, <2>3
    <3>2. Within(is, j, n)
      <4>1. n \in j .. Len(is) /\ j + 1 .. n \subseteq j + 1 .. n + 1
        BY <1>1
      <4>. QED
        BY <3>1, <4>1 DEF Within
    <3>3. n \in 1 .. n
      BY <1>1
    <3>4. Within(js, j, n)
      BY <1>4, <3>2, <3>3
    <3>5. CASE k - i = (n + 1) - j
      <4>1. is[n + 1] = codes[is[j].target][(n + 1) - j + 1]
        <5>1. n + 1 \in DOMAIN is /\ j \in DOMAIN is
          BY <1>1
        <5>2. \A a, b \in DOMAIN is : Within(is, a, b) => is[b] = codes[is[a].target][b - a + 1]
          BY <1>6 DEF Leftover
        <5>. HIDE DEF n
        <5>. QED
          BY <3>1, <5>1, <5>2, Zenon
      <4>2. <<codes[is[i].target][k - i + 1], is[k].target>> \in e
        BY <1>5, <1>6, <2>1 DEF BuiltFor
      <4>3. (n + 1) - j + 1 = k - i + 1
        BY <1>1, <3>5
      <4>4. is[n + 1] = codes[is[i].target][k - i + 1]
        BY <2>1, <4>1, <4>3
      <4>5. is[k].target \in u
        BY <1>5, <1>6, <2>1 DEF Above, Pending
      <4>. QED
        BY <1>2, <4>2, <4>4, <4>5
    <3>6. CASE k - i # (n + 1) - j
      <4>1. k - i <= n - j
        BY <1>1, <3>1, <3>6
      <4>. QED
        BY <3>4, <4>1
    <3>. QED
      BY <3>5, <3>6
  <2>. QED
    BY <1>5, <1>6, <1>7, <2>1, <2>2, <2>3 DEF Ahead
<1>8. DOMAIN js = 1 .. n /\ Len(js) = n
  BY <1>1 DEF n
<1>9. Ahead(js)
  BY <1>7, <1>8 DEF Ahead
<1>. QED
  BY <1>3, <1>9 DEF Frames, js

(* The top is the plan of a class that is in no cache: the code of the     *)
(* class takes its place.                                                  *)
LEMMA PushCode ==
  ASSUME NEW S, NEW is \in Seq(S), is # <<>>, NEW codes, NEW e, NEW u, NEW t \in u,
         CodesOK(codes), t \in DOMAIN codes, codes[t] \in Seq(S),
         Frames(is, codes, e, u), Last(is).code # "BUILD", <<Last(is), t>> \in e
  PROVE  Frames(Front(is) \o codes[t], codes, e, u)
<1>. DEFINE front == Front(is)
            n == Len(front)
            c == codes[t]
            m == Len(c)
            js == front \o c
<1>1. /\ n \in Nat /\ Len(is) = n + 1 /\ DOMAIN front = 1 .. n /\ DOMAIN is = 1 .. n + 1
      /\ \A i \in 1 .. n : front[i] = is[i]
      /\ front \in Seq(S)
  BY FrontFacts
<1>2. Last(is) = is[n + 1] /\ ~IsBuild(is, n + 1)
  BY <1>1 DEF Last, IsBuild
<1>3. /\ m \in Nat /\ m >= 1 /\ DOMAIN c = 1 .. m /\ c[1].code = "BUILD" /\ c[1].target = t
      /\ \A k \in 2 .. m : c[k].code # "BUILD"
  BY DEF CodesOK
<1>4. Pending(front, u) /\ Leftover(front, codes) /\ BuiltFor(front, codes, e)
  BY FrontFrames DEF Frames
<1>5. Leftover(is, codes) /\ BuiltFor(is, codes, e) /\ Ahead(is) /\ Pending(is, u)
  BY DEF Frames
<1>. HIDE DEF front, c
<1>6. /\ js \in Seq(S) /\ Len(js) = n + m /\ DOMAIN js = 1 .. n + m
      /\ \A i \in 1 .. n : js[i] = is[i]
      /\ \A k \in 1 .. m : js[n + k] = c[k]
  BY <1>1, <1>3 DEF c
<1>7. c = codes[t]
  BY DEF c
<1>. HIDE DEF js, n, m
<1>8. /\ \A i \in 1 .. n : IsBuild(is, i) <=> IsBuild(js, i)
      /\ \A i, j \in 1 .. n : Within(is, i, j) <=> Within(js, i, j)
      /\ \A i, j \in 1 .. n : Above(is, i, j) <=> Above(js, i, j)
  <2>1. /\ Len(is) \in Nat /\ Len(js) \in Nat /\ DOMAIN is = 1 .. Len(is) /\ DOMAIN js = 1 .. Len(js)
        /\ n <= Len(is) /\ n <= Len(js) /\ \A i \in 1 .. n : is[i] = js[i]
    BY <1>1, <1>3, <1>6
  <2>. QED
    BY <1>1, <2>1, SamePlaces
<1>9. /\ IsBuild(js, n + 1) /\ js[n + 1].target = t
      /\ \A i \in n + 2 .. n + m : ~IsBuild(js, i)
  <2>1. n + 1 \in 1 .. n + m /\ js[n + 1] = c[1]
    BY <1>1, <1>3, <1>6
  <2>2. ASSUME NEW i \in n + 2 .. n + m PROVE ~IsBuild(js, i)
    <3>1. i - n \in 2 .. m /\ js[n + (i - n)] = c[i - n] /\ n + (i - n) = i
      BY <1>1, <1>3, <1>6
    <3>. QED
      BY <1>3, <3>1 DEF IsBuild
  <2>. QED
    BY <1>3, <1>6, <2>1, <2>2 DEF IsBuild
(* The places of the stack: below, the new BUILD, and above.               *)
<1>10. ASSUME NEW i \in 1 .. n + m, NEW j \in 1 .. n + m, Within(js, i, j)
       PROVE  \/ i \in 1 .. n /\ j \in 1 .. n /\ Within(is, i, j)
              \/ i = n + 1 /\ j \in n + 1 .. n + m
  <2>1. IsBuild(js, i) /\ i <= j /\ \A k \in i + 1 .. j : ~IsBuild(js, k)
    BY <1>6, <1>10 DEF Within
  <2>2. i <= n + 1
    BY <1>1, <1>3, <1>9, <2>1
  <2>3. CASE i = n + 1
    BY <1>1, <1>3, <2>1, <2>3
  <2>4. CASE i <= n
    <3>1. ~(n + 1 \in i + 1 .. j)
      BY <1>9, <2>1
    <3>2. j <= n
      BY <1>1, <1>3, <2>4, <3>1
    <3>3. i \in 1 .. n /\ j \in 1 .. n
      BY <1>1, <1>3, <2>1, <2>4, <3>2
    <3>. QED
      BY <1>8, <1>10, <3>3
  <2>. QED
    BY <1>1, <1>3, <2>2, <2>3, <2>4
<1>11. ASSUME NEW i \in 1 .. n + m, NEW j \in 1 .. n + m, Above(js, i, j)
       PROVE  /\ i \in 1 .. n
              /\ \/ j \in 1 .. n /\ Above(is, i, j)
                 \/ j = n + 1 /\ Within(is, i, n + 1)
  <2>1. i < j /\ IsBuild(js, j) /\ Within(js, i, j - 1)
    BY <1>11 DEF Above
  <2>2. j <= n + 1
    BY <1>1, <1>3, <1>9, <2>1
  <2>3. i \in 1 .. n /\ j - 1 \in 1 .. n /\ Within(is, i, j - 1)
    <3>1. j - 1 \in 1 .. n + m /\ j - 1 <= n
      BY <1>1, <1>3, <2>1, <2>2
    <3>. QED
      BY <1>1, <1>3, <1>10, <2>1, <3>1
  <2>4. CASE j = n + 1
    <3>1. IsBuild(is, i) /\ n + 1 \in i .. Len(is)
      BY <1>1, <2>3 DEF Within
    <3>2. \A k \in i + 1 .. n + 1 : k = n + 1 \/ k \in i + 1 .. n
      BY <1>1, <2>3
    <3>3. \A k \in i + 1 .. n + 1 : ~IsBuild(is, k)
      BY <1>1, <1>2, <2>3, <2>4, <3>2 DEF Within
    <3>. QED
      BY <2>3, <2>4, <3>1, <3>3 DEF Within
  <2>5. CASE j # n + 1
    <3>1. j \in 1 .. n
      BY <1>1, <1>3, <2>2, <2>5
    <3>. QED
      BY <1>8, <1>11, <2>3, <3>1
  <2>. QED
    BY <2>3, <2>4, <2>5
<1>12. Pending(js, u)
  <2>1. IsBuild(js, 1)
    <3>1. CASE n = 0
      BY <1>9, <3>1
    <3>2. CASE n # 0
      <4>1. 1 \in 1 .. n /\ is # <<>>
        BY <1>1, <3>2
      <4>. QED
        BY <1>5, <1>8, <4>1 DEF Pending
    <3>. QED
      BY <3>1, <3>2
  <2>2. ASSUME NEW i \in 1 .. n + m, IsBuild(js, i) PROVE js[i].target \in u
    <3>1. i <= n + 1
      BY <1>1, <1>3, <1>9, <2>2
    <3>2. CASE i = n + 1
      BY <1>9, <3>2
    <3>3. CASE i # n + 1
      <4>1. i \in 1 .. n /\ i \in DOMAIN is
        BY <1>1, <1>3, <3>1, <3>3
      <4>. QED
        BY <1>5, <1>6, <1>8, <2>2, <4>1 DEF Pending
    <3>. QED
      BY <3>2, <3>3
  <2>. QED
    BY <1>6, <2>1, <2>2 DEF Pending
<1>13. Leftover(js, codes)
  <2>1. ASSUME NEW i \in 1 .. n + m, NEW j \in 1 .. n + m, Within(js, i, j)
        PROVE  j - i + 1 \in DOMAIN codes[js[i].target] /\ js[j] = codes[js[i].target][j - i + 1]
    <3>1. CASE i \in 1 .. n /\ j \in 1 .. n /\ Within(is, i, j)
      <4>1. i \in DOMAIN is /\ j \in DOMAIN is /\ js[i] = is[i] /\ js[j] = is[j]
        BY <1>1, <1>6, <3>1
      <4>. QED
        BY <1>5, <3>1, <4>1 DEF Leftover
    <3>2. CASE i = n + 1 /\ j \in n + 1 .. n + m
      <4>1. j - n \in 1 .. m /\ js[n + (j - n)] = c[j - n] /\ n + (j - n) = j /\ j - i + 1 = j - n
        BY <1>1, <1>3, <1>6, <3>2
      <4>. QED
        BY <1>3, <1>7, <1>9, <3>2, <4>1
    <3>. QED
      BY <1>10, <2>1, <3>1, <3>2
  <2>. QED
    BY <1>6, <2>1 DEF Leftover
<1>14. \A i \in 1 .. n : Within(is, i, n + 1) =>
         (n + 1) - i + 1 \in DOMAIN codes[is[i].target] /\ is[n + 1] = codes[is[i].target][(n + 1) - i + 1]
  <2>1. n + 1 \in DOMAIN is /\ \A i \in 1 .. n : i \in DOMAIN is
    BY <1>1
  <2>2. \A a, b \in DOMAIN is : Within(is, a, b) =>
          b - a + 1 \in DOMAIN codes[is[a].target] /\ is[b] = codes[is[a].target][b - a + 1]
    BY <1>5 DEF Leftover
  <2>. QED
    BY <2>1, <2>2, Zenon
<1>15. BuiltFor(js, codes, e)
  <2>1. ASSUME NEW i \in 1 .. n + m, NEW j \in 1 .. n + m, Above(js, i, j)
        PROVE  /\ j - i + 1 \in DOMAIN codes[js[i].target]
               /\ <<codes[js[i].target][j - i + 1], js[j].target>> \in e
    <3>1. i \in 1 .. n /\ i \in DOMAIN is /\ js[i] = is[i]
      BY <1>1, <1>6, <1>11, <2>1
    <3>2. CASE j \in 1 .. n /\ Above(is, i, j)
      <4>1. j \in DOMAIN is /\ js[j] = is[j]
        BY <1>1, <1>6, <3>2
      <4>. QED
        BY <1>5, <3>1, <3>2, <4>1 DEF BuiltFor
    <3>3. CASE j = n + 1 /\ Within(is, i, n + 1)
      BY <1>2, <1>9, <1>14, <3>1, <3>3
    <3>. QED
      BY <1>11, <2>1, <3>2, <3>3
  <2>. QED
    BY <1>6, <2>1 DEF BuiltFor
<1>16. Ahead(js)
  <2>1. ASSUME NEW i \in 1 .. n + m, NEW k \in 1 .. n + m, NEW j \in 1 .. n + m,
               Above(js, i, k), k <= j, IsBuild(js, j), js[i].target = js[j].target
        PROVE  \/ \E l \in 1 .. n + m : Above(js, j, l) /\ k - i <= l - j
               \/ Within(js, j, n + m) /\ k - i <= (n + m) - j
    <3>1. i \in 1 .. n /\ i \in DOMAIN is /\ js[i] = is[i]
      BY <1>1, <1>6, <1>11, <2>1
    <3>2. k - i + 1 \in DOMAIN codes[js[i].target]
      BY <1>6, <1>15, <2>1 DEF BuiltFor
    <3>3. j <= n + 1
      BY <1>1, <1>3, <1>9, <2>1
    <3>4. CASE j = n + 1
      <4>1. Within(js, n + 1, n + m)
        BY <1>1, <1>3, <1>6, <1>9 DEF Within
      <4>2. k - i + 1 \in 1 .. m
        BY <1>3, <1>7, <1>9, <2>1, <3>2, <3>4
      <4>3. k - i <= (n + m) - (n + 1)
        BY <1>1, <1>3, <4>2
      <4>. QED
        BY <3>4, <4>1, <4>3
    <3>5. CASE j # n + 1
      <4>1. j \in 1 .. n /\ k \in 1 .. n /\ k # n + 1
        BY <1>1, <1>3, <2>1, <3>3, <3>5
      <4>2. /\ j \in DOMAIN is /\ k \in DOMAIN is /\ js[j] = is[j]
            /\ Above(is, i, k) /\ IsBuild(is, j)
        BY <1>1, <1>6, <1>8, <1>11, <2>1, <4>1
      <4>3. \/ \E l \in DOMAIN is : Above(is, j, l) /\ k - i <= l - j
            \/ Within(is, j, Len(is)) /\ k - i <= Len(is) - j
        BY <1>5, <2>1, <3>1, <4>2 DEF Ahead
      <4>4. CASE \E l \in DOMAIN is : Above(is, j, l) /\ k - i <= l - j
        <5>1. PICK l \in DOMAIN is : Above(is, j, l) /\ k - i <= l - j
          BY <4>4
        <5>2. l # n + 1
          BY <1>2, <5>1 DEF Above
        <5>3. l \in 1 .. n /\ l \in 1 .. n + m
          BY <1>1, <1>3, <5>1, <5>2
        <5>4. Above(js, j, l)
          BY <1>8, <4>1, <5>1, <5>3
        <5>. QED
          BY <5>1, <5>3, <5>4
      <4>5. CASE Within(is, j, Len(is)) /\ k - i <= Len(is) - j
        <5>1. Within(is, j, n + 1) /\ k - i <= (n + 1) - j
          BY <1>1, <4>5
        <5>2. Within(is, j, n)
          <6>1. n \in j .. Len(is) /\ j + 1 .. n \subseteq j + 1 .. n + 1
            BY <1>1, <4>1
          <6>. QED
            BY <5>1, <6>1 DEF Within
        <5>3. n \in 1 .. n
          BY <1>1, <4>1
        <5>4. Within(js, j, n)
          BY <1>8, <4>1, <5>2, <5>3
        <5>5. Above(js, j, n + 1) /\ n + 1 \in 1 .. n + m
          <6>1. (n + 1) - 1 = n /\ j < n + 1 /\ n + 1 \in 1 .. n + m
            BY <1>1, <1>3, <4>1
          <6>. QED
            BY <1>9, <5>4, <6>1 DEF Above
        <5>. QED
          BY <1>1, <5>1, <5>5
      <4>. QED
        BY <4>3, <4>4, <4>5
    <3>. QED
      BY <3>4, <3>5
  <2>. QED
    BY <1>6, <2>1 DEF Ahead
<1>. QED
  BY <1>12, <1>13, <1>15, <1>16 DEF Frames, js, front, c

(* The code of a class on an empty stack.                                  *)
LEMMA FirstCode ==
  ASSUME NEW codes, NEW e, NEW u, NEW t \in u, CodesOK(codes), t \in DOMAIN codes
  PROVE  Frames(codes[t], codes, e, u)
<1>. DEFINE c == codes[t]
            m == Len(c)
<1>1. /\ m \in Nat /\ m >= 1 /\ DOMAIN c = 1 .. m /\ c[1].code = "BUILD" /\ c[1].target = t
      /\ \A k \in 2 .. m : c[k].code # "BUILD"
  BY DEF CodesOK
<1>2. c = codes[t]
  OBVIOUS
<1>. HIDE DEF c, m
<1>3. IsBuild(c, 1) /\ \A i \in 1 .. m : IsBuild(c, i) => i = 1
  BY <1>1 DEF IsBuild
<1>4. \A i, j \in 1 .. m : ~Above(c, i, j)
  <2>1. ASSUME NEW i \in 1 .. m, NEW j \in 1 .. m, Above(c, i, j) PROVE FALSE
    <3>1. i < j /\ IsBuild(c, j)
      BY <2>1 DEF Above
    <3>. QED
      BY <1>3, <3>1
  <2>. QED
    BY <2>1
<1>5. \A i, j \in 1 .. m : Within(c, i, j) => i = 1
  BY <1>3 DEF Within
<1>6. \A i, j \in 1 .. m : Within(c, i, j) =>
        j - i + 1 \in DOMAIN codes[c[i].target] /\ c[j] = codes[c[i].target][j - i + 1]
  <2>1. \A j \in 1 .. m : j - 1 + 1 = j
    OBVIOUS
  <2>. QED
    BY <1>1, <1>2, <1>5, <2>1
<1>. QED
  BY <1>1, <1>3, <1>4, <1>6 DEF Frames, Pending, Leftover, BuiltFor, Ahead, c

(* The class of a frame below others is built for one above it.            *)
LEMMA NextFrame ==
  ASSUME NEW S, NEW is \in Seq(S), NEW i \in DOMAIN is, NEW j \in DOMAIN is,
         i < j, IsBuild(is, i), IsBuild(is, j)
  PROVE  \E k \in DOMAIN is : Above(is, i, k) /\ k <= j
<1>. DEFINE T == {k - i : k \in {l \in i + 1 .. j : IsBuild(is, l)}}
<1>1. i \in Nat /\ j \in Nat /\ i >= 1 /\ j <= Len(is) /\ Len(is) \in Nat /\ DOMAIN is = 1 .. Len(is)
  BY SequenceFacts
<1>2. T \in SUBSET Nat /\ T # {}
  <2>1. j \in i + 1 .. j
    BY <1>1
  <2>2. \A k \in i + 1 .. j : k - i \in Nat
    BY <1>1
  <2>. QED
    BY <2>1, <2>2
<1>3. PICK d \in T : \A n \in T : d <= n
  <2>. HIDE DEF T
  <2>. QED
    BY <1>2, Smallest
<1>4. PICK k \in i + 1 .. j : IsBuild(is, k) /\ d = k - i
  OBVIOUS
<1>5. ASSUME NEW l \in i + 1 .. k - 1, IsBuild(is, l) PROVE FALSE
  <2>1. l \in i + 1 .. j /\ l < k /\ l \in Nat
    BY <1>1, <1>4
  <2>2. l - i \in T
    BY <1>5, <2>1
  <2>3. d <= l - i
    BY <1>3, <2>2
  <2>. QED
    BY <1>1, <1>4, <2>1, <2>3
<1>6. k - 1 \in i .. Len(is) /\ k \in DOMAIN is /\ i < k /\ k <= j
  BY <1>1
<1>. QED
  BY <1>4, <1>5, <1>6 DEF Within, Above

(* The top is the BUILD of a class, which is in a cache then: no other     *)
(* BUILD of it is left.                                                    *)
LEMMA PopBuild ==
  ASSUME NEW S, NEW is \in Seq(S), is # <<>>, NEW codes, NEW e, NEW u, NEW f, NEW v,
         Frames(is, codes, e, u), Last(is).code = "BUILD",
         \A id \in u : id # Last(is).target => id \in v,
         \A p, id : <<p, id>> \in e /\ id # Last(is).target => <<p, id>> \in f,
         \A p, x, y : <<p, x>> \in e /\ <<p, y>> \in e => x = y
  PROVE  Frames(Front(is), codes, f, v)
<1>. DEFINE js == Front(is)
            n == Len(js)
            t == Last(is).target
<1>1. /\ n \in Nat /\ Len(is) = n + 1 /\ DOMAIN js = 1 .. n /\ DOMAIN is = 1 .. n + 1
      /\ \A i \in 1 .. n : js[i] = is[i]
  BY FrontFacts
<1>2. Last(is) = is[n + 1] /\ IsBuild(is, n + 1) /\ is[n + 1].target = t
  BY <1>1 DEF Last, IsBuild
<1>3. Pending(js, u) /\ Leftover(js, codes) /\ BuiltFor(js, codes, e)
  BY FrontFrames DEF Frames
<1>4. Ahead(is)
  BY DEF Frames
<1>5. \A id \in u : id # t => id \in v
  OBVIOUS
<1>6. \A p, id : <<p, id>> \in e /\ id # t => <<p, id>> \in f
  OBVIOUS
<1>. HIDE DEF js, t
<1>7. /\ \A i \in 1 .. n : IsBuild(is, i) <=> IsBuild(js, i)
      /\ \A i, j \in 1 .. n : Above(is, i, j) <=> Above(js, i, j)
      /\ \A i, j \in 1 .. n : Within(is, i, j) <=> Within(js, i, j)
  BY <1>1, SamePlaces
<1>. HIDE DEF n
<1>8. ASSUME NEW i \in 1 .. n, IsBuild(js, i) PROVE js[i].target # t
  <2>1. SUFFICES ASSUME js[i].target = t PROVE FALSE
    OBVIOUS
  <2>2. i \in DOMAIN is /\ n + 1 \in DOMAIN is /\ i < n + 1 /\ IsBuild(is, i) /\ is[i].target = t
    BY <1>1, <1>7, <1>8, <2>1
  <2>3. PICK k \in DOMAIN is : Above(is, i, k) /\ k <= n + 1
    BY <1>2, <2>2, NextFrame
  <2>4. \/ \E l \in DOMAIN is : Above(is, n + 1, l) /\ k - i <= l - (n + 1)
        \/ Within(is, n + 1, Len(is)) /\ k - i <= Len(is) - (n + 1)
    BY <1>2, <1>4, <2>2, <2>3 DEF Ahead
  <2>5. \A l \in DOMAIN is : ~Above(is, n + 1, l)
    BY <1>1 DEF Above
  <2>6. i < k
    BY <2>3 DEF Above
  <2>. QED
    BY <1>1, <2>2, <2>3, <2>4, <2>5, <2>6
<1>9. Pending(js, v)
  BY <1>1, <1>3, <1>5, <1>8 DEF Pending
<1>10. BuiltFor(js, codes, f)
  <2>1. ASSUME NEW i \in 1 .. n, NEW j \in 1 .. n, Above(js, i, j)
        PROVE  /\ j - i + 1 \in DOMAIN codes[js[i].target]
               /\ <<codes[js[i].target][j - i + 1], js[j].target>> \in f
    <3>1. IsBuild(js, j)
      BY <2>1 DEF Above
    <3>2. js[j].target # t
      BY <1>8, <3>1
    <3>3. /\ j - i + 1 \in DOMAIN codes[js[i].target]
          /\ <<codes[js[i].target][j - i + 1], js[j].target>> \in e
      BY <1>1, <1>3, <2>1 DEF BuiltFor
    <3>. QED
      BY <1>6, <3>2, <3>3
  <2>. QED
    BY <1>1, <2>1 DEF BuiltFor
<1>11. Ahead(js)
  <2>1. ASSUME NEW i \in 1 .. n, NEW k \in 1 .. n, NEW j \in 1 .. n,
               Above(js, i, k), k <= j, IsBuild(js, j), js[i].target = js[j].target
        PROVE  \/ \E l \in 1 .. n : Above(js, j, l) /\ k - i <= l - j
               \/ Within(js, j, n) /\ k - i <= n - j
    <3>1. /\ i \in DOMAIN is /\ k \in DOMAIN is /\ j \in DOMAIN is /\ js[i] = is[i] /\ js[j] = is[j]
          /\ Above(is, i, k) /\ IsBuild(is, j)
      BY <1>1, <1>7, <2>1
    <3>2. \/ \E l \in DOMAIN is : Above(is, j, l) /\ k - i <= l - j
          \/ Within(is, j, Len(is)) /\ k - i <= Len(is) - j
      BY <1>4, <2>1, <3>1 DEF Ahead
    <3>3. ~Within(is, j, Len(is))
      <4>1. n + 1 \in j + 1 .. Len(is)
        BY <1>1
      <4>. QED
        BY <1>2, <4>1 DEF Within
    <3>4. PICK l \in DOMAIN is : Above(is, j, l) /\ k - i <= l - j
      BY <3>2, <3>3
    <3>5. CASE l = n + 1
      <4>1. (n + 1) - 1 = n /\ n \in 1 .. n
        BY <1>1
      <4>2. Within(is, j, n)
        BY <3>4, <3>5, <4>1 DEF Above
      <4>3. Within(js, j, n)
        BY <1>7, <4>1, <4>2
      <4>4. k - i # (n + 1) - j
        <5>1. SUFFICES ASSUME k - i = (n + 1) - j PROVE FALSE
          OBVIOUS
        <5>2. n + 1 \in DOMAIN is /\ BuiltFor(is, codes, e)
          BY <1>1 DEF Frames
        <5>3. \A a, b \in DOMAIN is : Above(is, a, b) => <<codes[is[a].target][b - a + 1], is[b].target>> \in e
          BY <5>2 DEF BuiltFor
        <5>4. <<codes[is[j].target][(n + 1) - j + 1], is[n + 1].target>> \in e
          BY <3>1, <3>4, <3>5, <5>2, <5>3, Zenon
        <5>5. <<codes[is[i].target][k - i + 1], is[k].target>> \in e
          BY <3>1, <5>3, Zenon
        <5>6. is[i].target = is[j].target
          BY <2>1, <3>1
        <5>7. is[k].target = t
          BY <1>2, <5>1, <5>4, <5>5, <5>6
        <5>8. IsBuild(js, k) /\ js[k].target = t
          BY <1>1, <2>1, <5>7 DEF Above
        <5>. QED
          BY <1>8, <5>8
      <4>5. k - i <= n - j
        BY <1>1, <3>4, <3>5, <4>4
      <4>. QED
        BY <4>3, <4>5
    <3>6. CASE l # n + 1
      <4>1. l \in 1 .. n
        BY <1>1, <3>6
      <4>. QED
        BY <1>7, <3>4, <4>1
    <3>. QED
      BY <3>5, <3>6
  <2>2. Len(js) = n
    BY DEF n
  <2>. QED
    BY <1>1, <2>1, <2>2 DEF Ahead
<1>. QED
  BY <1>3, <1>9, <1>10, <1>11 DEF Frames, js

-----------------------------------------------------------------------------
(* Iterations of a function.                                               *)

(* A recursion that applies a function to what it has come to has a        *)
(* solution.                                                               *)
LEMMA IterationExists ==
  ASSUME NEW D, NEW x \in D, NEW next \in [D -> D]
  PROVE  \E f \in [Nat -> D] : f[0] = x /\ \A n \in Nat : f[n + 1] = next[f[n]]
<1>. DEFINE UpTo(n) == {f \in [0 .. n -> D] : f[0] = x /\ \A k \in 0 .. n - 1 : f[k + 1] = next[f[k]]}
            T == {n \in Nat : UpTo(n) = {}}
            Same(k) == \A n \in Nat, p \in Nat : \A f \in UpTo(n), g \in UpTo(p) :
                         k <= n /\ k <= p => f[k] = g[k]
            S == {k \in Nat : ~Same(k)}
<1>1. T = {}
  <2>. SUFFICES ASSUME T # {} PROVE FALSE
    OBVIOUS
  <2>1. PICK n \in T : \A k \in T : n <= k
    <3>1. T \in SUBSET Nat
      OBVIOUS
    <3>. HIDE DEF T
    <3>. QED
      BY <3>1, Smallest
  <2>2. CASE n = 0
    <3>. DEFINE f == [k \in 0 .. 0 |-> x]
    <3>1. f \in [0 .. 0 -> D] /\ f[0] = x /\ 0 .. 0 - 1 = {}
      OBVIOUS
    <3>2. f \in UpTo(0)
      BY <3>1
    <3>. QED
      BY <2>1, <2>2, <3>2
  <2>3. CASE n # 0
    <3>1. n \in Nat /\ n - 1 \in Nat /\ n - 1 \notin T
      <4>1. \A k \in T : k \in Nat
        OBVIOUS
      <4>. HIDE DEF T
      <4>. QED
        BY <2>1, <2>3, <4>1
    <3>2. PICK g \in UpTo(n - 1) : TRUE
      <4>. HIDE DEF UpTo
      <4>. QED
        BY <3>1
    <3>3. /\ g \in [0 .. n - 1 -> D] /\ g[0] = x
          /\ \A k \in 0 .. (n - 1) - 1 : g[k + 1] = next[g[k]]
      BY <3>2
    <3>. HIDE DEF T
    <3>. DEFINE f == [k \in 0 .. n |-> IF k = n THEN next[g[n - 1]] ELSE g[k]]
    <3>4. f \in [0 .. n -> D]
      BY <3>1, <3>3
    <3>5. f[0] = x
      BY <2>3, <3>1, <3>3
    <3>6. ASSUME NEW k \in 0 .. n - 1 PROVE f[k + 1] = next[f[k]]
      <4>1. f[k] = g[k]
        BY <3>1
      <4>2. CASE k = n - 1
        <5>1. k + 1 = n /\ n \in 0 .. n
          BY <3>1, <4>2
        <5>. QED
          BY <4>1, <4>2, <5>1
      <4>3. CASE k # n - 1
        <5>1. k \in 0 .. (n - 1) - 1 /\ k + 1 \in 0 .. n /\ k + 1 # n
          BY <3>1, <4>3
        <5>. QED
          BY <3>3, <4>1, <5>1
      <4>. QED
        BY <4>2, <4>3
    <3>7. f \in UpTo(n)
      BY <3>4, <3>5, <3>6
    <3>. QED
      BY <2>1, <3>7 DEF T
  <2>. QED
    BY <2>2, <2>3
<1>2. S = {}
  <2>. SUFFICES ASSUME S # {} PROVE FALSE
    OBVIOUS
  <2>1. PICK k \in S : \A m \in S : k <= m
    <3>1. S \in SUBSET Nat
      OBVIOUS
    <3>. HIDE DEF S
    <3>. QED
      BY <3>1, Smallest
  <2>2. PICK n \in Nat, p \in Nat : \E f \in UpTo(n), g \in UpTo(p) : k <= n /\ k <= p /\ f[k] # g[k]
    <3>1. ~Same(k)
      BY <2>1
    <3>. HIDE DEF UpTo, S
    <3>. QED
      BY <3>1
  <2>3. PICK f \in UpTo(n), g \in UpTo(p) : k <= n /\ k <= p /\ f[k] # g[k]
    BY <2>2
  <2>4. k # 0 /\ k \in Nat /\ k - 1 \in Nat
    BY <2>1, <2>3
  <2>5. Same(k - 1)
    <3>1. k - 1 \notin S
      <4>. HIDE DEF S
      <4>. QED
        BY <2>1, <2>4
    <3>. HIDE DEF Same
    <3>. QED
      BY <2>4, <3>1
  <2>6. f[k - 1] = g[k - 1]
    <3>1. k - 1 <= n /\ k - 1 <= p
      BY <2>3, <2>4
    <3>. HIDE DEF UpTo, S
    <3>. QED
      BY <2>2, <2>3, <2>5, <3>1
  <2>7. (k - 1) + 1 = k /\ k - 1 \in 0 .. n - 1 /\ k - 1 \in 0 .. p - 1
    BY <2>3, <2>4
  <2>8. f[k] = next[f[k - 1]] /\ g[k] = next[g[k - 1]]
    BY <2>3, <2>7
  <2>. QED
    BY <2>3, <2>6, <2>8
<1>3. \A n \in Nat : UpTo(n) # {}
  BY <1>1
<1>4. \A n \in Nat, p \in Nat : \A f \in UpTo(n), g \in UpTo(p) :
        \A k \in Nat : k <= n /\ k <= p => f[k] = g[k]
  <2>1. \A k \in Nat : Same(k)
    <3>. HIDE DEF Same
    <3>. QED
      BY <1>2
  <2>. HIDE DEF UpTo, S
  <2>. QED
    BY <2>1
<1>5. \A n \in Nat : \A f \in UpTo(n) :
        /\ f \in [0 .. n -> D] /\ f[0] = x /\ \A k \in 0 .. n - 1 : f[k + 1] = next[f[k]]
  OBVIOUS
<1>. HIDE DEF UpTo
<1>. DEFINE Some(n) == CHOOSE f : f \in UpTo(n)
            h == [n \in Nat |-> Some(n)[n]]
<1>6. \A n \in Nat : Some(n) \in UpTo(n)
  BY <1>3
<1>. HIDE DEF Some
<1>7. \A n \in Nat : h[n] = Some(n)[n] /\ h[n] \in D
  BY <1>5, <1>6
<1>8. h \in [Nat -> D]
  BY <1>7
<1>9. h[0] = x
  BY <1>5, <1>6
<1>10. ASSUME NEW n \in Nat PROVE h[n + 1] = next[h[n]]
  <2>1. n + 1 \in Nat /\ n \in 0 .. (n + 1) - 1
    OBVIOUS
  <2>2. Some(n + 1)[n + 1] = next[Some(n + 1)[n]]
    BY <1>5, <1>6, <2>1
  <2>3. Some(n + 1)[n] = Some(n)[n]
    BY <1>4, <1>6, <2>1
  <2>. QED
    BY <1>7, <2>1, <2>2, <2>3
<1>. QED
  BY <1>8, <1>9, <1>10

(* The recursion has a solution.                                           *)
LEMMA IterationSolved ==
  ASSUME NEW D, NEW x \in D, NEW next \in [D -> D]
  PROVE  \E f : f = [n \in Nat |-> IF n = 0 THEN x ELSE next[f[n - 1]]]
<1>1. PICK h \in [Nat -> D] : h[0] = x /\ \A n \in Nat : h[n + 1] = next[h[n]]
  BY IterationExists
<1>2. h = [n \in Nat |-> IF n = 0 THEN x ELSE next[h[n - 1]]]
  <2>1. ASSUME NEW n \in Nat PROVE h[n] = IF n = 0 THEN x ELSE next[h[n - 1]]
    <3>1. n = 0 \/ (n - 1 \in Nat /\ (n - 1) + 1 = n)
      OBVIOUS
    <3>. QED
      BY <1>1, <3>1
  <2>. QED
    BY <1>1, <2>1
<1>. QED
  BY <1>2

(* And a solution is the iteration.                                        *)
LEMMA Iteration ==
  ASSUME NEW D, NEW x \in D, NEW next \in [D -> D], NEW at,
         at = [n \in Nat |-> IF n = 0 THEN x ELSE next[at[n - 1]]]
  PROVE  /\ at \in [Nat -> D] /\ at[0] = x
         /\ \A n \in Nat : at[n + 1] = next[at[n]]
<1>4. at[0] = x /\ \A n \in Nat : at[n + 1] = next[at[n]]
  <2>1. \A m \in Nat : at[m] = IF m = 0 THEN x ELSE next[at[m - 1]]
    OBVIOUS
  <2>2. ASSUME NEW n \in Nat PROVE at[n + 1] = next[at[n]]
    <3>1. n + 1 \in Nat /\ (n + 1) - 1 = n /\ n + 1 # 0
      OBVIOUS
    <3>. QED
      BY <2>1, <3>1
  <2>. QED
    BY <2>1, <2>2
<1>5. \A n \in Nat : at[n] \in D
  <2>. DEFINE T == {n \in Nat : at[n] \notin D}
  <2>. SUFFICES ASSUME T # {} PROVE FALSE
    OBVIOUS
  <2>1. PICK n \in T : \A k \in T : n <= k
    <3>1. T \in SUBSET Nat
      OBVIOUS
    <3>. HIDE DEF T
    <3>. QED
      BY <3>1, Smallest
  <2>2. n # 0 /\ n - 1 \in Nat /\ (n - 1) + 1 = n
    BY <1>4, <2>1
  <2>3. at[n - 1] \in D
    BY <2>1, <2>2
  <2>. QED
    BY <1>4, <2>1, <2>2, <2>3
<1>. QED
  BY <1>4, <1>5

-----------------------------------------------------------------------------
(* Bindings and the code of classes.                                       *)

(* A binding, taken apart.                                                 *)
LEMMA BindingParts ==
  ASSUME bindings \in [Id -> Binding \cup {None}], NEW id \in Id, Bound(id)
  PROVE  /\ bindings[id].type \in {"INSTANCE", "CONSTANT", "ALIAS"}
         /\ bindings[id].type = "ALIAS" => bindings[id].to \in Id
         /\ bindings[id].type = "INSTANCE" =>
              bindings[id].params \in Seq(Param) /\ bindings[id].scope \in Scope
<1>1. bindings[id] \in Binding
  BY DEF Bound
<1>. QED
  BY <1>1 DEF Binding

(* An alias is a link to an id.                                            *)
LEMMA LinkIs ==
  ASSUME bindings \in [Id -> Binding \cup {None}], NEW s, NEW allow
  PROVE  Link(s, allow) \in [Id \cup {Proxy} -> Id \cup {Proxy}]
<1>1. ASSUME NEW i \in Id \cup {Proxy}, IsLink(s, i, allow) PROVE bindings[i].to \in Id
  <2>1. i \in Id /\ Bound(i) /\ bindings[i].type = "ALIAS"
    BY <1>1 DEF IsLink
  <2>. QED
    BY <2>1, BindingParts
<1>. QED
  BY <1>1 DEF Link

Iterates(at, D, step, x) ==
  at \in [Nat -> D] /\ at[0] = x /\ \A n \in Nat : at[n + 1] = step[at[n]]

(* Iterate() is the iteration of its function.                             *)
LEMMA IterateIs ==
  ASSUME NEW D, NEW step \in [D -> D], NEW x \in D
  PROVE  Iterates(Iterate(step, x), D, step, x)
<1>. DEFINE at == Iterate(step, x)
<1>1. at = CHOOSE f : f = [n \in Nat |-> IF n = 0 THEN x ELSE step[f[n - 1]]]
  BY DEF Iterate
<1>. HIDE DEF at
<1>2. at = [n \in Nat |-> IF n = 0 THEN x ELSE step[at[n - 1]]]
  BY <1>1, IterationSolved
<1>3. at \in [Nat -> D] /\ at[0] = x /\ \A n \in Nat : at[n + 1] = step[at[n]]
  BY <1>2, Iteration
<1>. QED
  BY <1>3 DEF at, Iterates

(* A relation that every step keeps holds between what two functions come  *)
(* to.                                                                     *)
Related(f, D, g, E, R) == \A a \in D, b \in E : <<a, b>> \in R => <<f[a], g[b]>> \in R

(* Functions that keep a relation keep it when they are iterated.          *)
LEMMA IteratesRelate ==
  ASSUME NEW D, NEW E, NEW f \in [D -> D], NEW g \in [E -> E], NEW x \in D, NEW y \in E,
         NEW R, <<x, y>> \in R, Related(f, D, g, E, R)
  PROVE  \A n \in Nat : <<Iterate(f, x)[n], Iterate(g, y)[n]>> \in R
<1>. DEFINE p == Iterate(f, x)
            q == Iterate(g, y)
            T == {n \in Nat : <<p[n], q[n]>> \notin R}
<1>1. p \in [Nat -> D] /\ p[0] = x /\ \A n \in Nat : p[n + 1] = f[p[n]]
  <2>1. Iterates(p, D, f, x)
    BY IterateIs
  <2>. HIDE DEF p
  <2>. QED
    BY <2>1 DEF Iterates
<1>2. q \in [Nat -> E] /\ q[0] = y /\ \A n \in Nat : q[n + 1] = g[q[n]]
  <2>1. Iterates(q, E, g, y)
    BY IterateIs
  <2>. HIDE DEF q
  <2>. QED
    BY <2>1 DEF Iterates
<1>. HIDE DEF p, q
<1>3. T = {}
  <2>. SUFFICES ASSUME T # {} PROVE FALSE
    OBVIOUS
  <2>1. PICK n \in T : \A k \in T : n <= k
    <3>1. T \in SUBSET Nat
      OBVIOUS
    <3>. HIDE DEF T
    <3>. QED
      BY <3>1, Smallest
  <2>2. n # 0 /\ n - 1 \in Nat /\ (n - 1) + 1 = n
    BY <1>1, <1>2, <2>1
  <2>3. <<p[n - 1], q[n - 1]>> \in R
    BY <2>1, <2>2
  <2>4. <<f[p[n - 1]], g[q[n - 1]]>> \in R
    BY <1>1, <1>2, <2>2, <2>3 DEF Related
  <2>. QED
    BY <1>1, <1>2, <2>1, <2>2, <2>4
<1>. QED
  BY <1>3 DEF p, q

(* The chain of aliases ends where it begins if that is no alias.          *)
LEMMA ChaseEnds ==
  ASSUME bindings \in [Id -> Binding \cup {None}],
         NEW s, NEW allow, NEW id \in Id \cup {Proxy}
  PROVE  /\ Chase(s, id, allow).id \in Id \cup {Proxy}
         /\ ~IsLink(s, id, allow) => Chase(s, id, allow).id = id
<1>. DEFINE link == Link(s, allow)
            N == Cardinality(Id)
<1>1. N \in Nat
  BY ContainerAssumption, FS_CardinalityType
<1>2. Chase(s, id, allow).id = Iterate(link, id)[N]
  BY DEF Chase
<1>3. link \in [Id \cup {Proxy} -> Id \cup {Proxy}]
  BY LinkIs
<1>4. ~IsLink(s, id, allow) => link[id] = id
  BY DEF Link
<1>. HIDE DEF link, N
<1>5. Iterate(link, id) \in [Nat -> Id \cup {Proxy}]
  BY <1>3, IterateIs DEF Iterates
<1>6. ASSUME link[id] = id PROVE \A n \in Nat : <<Iterate(link, id)[n], Iterate(link, id)[n]>> \in {<<id, id>>}
  <2>. DEFINE D == Id \cup {Proxy}
              R == {<<id, id>>}
  <2>1. <<id, id>> \in R /\ Related(link, D, link, D, R)
    BY <1>6 DEF Related
  <2>. HIDE DEF D, R
  <2>2. \A n \in Nat : <<Iterate(link, id)[n], Iterate(link, id)[n]>> \in R
    BY <1>3, <2>1, IteratesRelate DEF D
  <2>. QED
    BY <2>2 DEF R
<1>. QED
  BY <1>1, <1>2, <1>4, <1>5, <1>6

(* The instructions of a class.                                            *)
LEMMA CompileIs ==
  ASSUME bindings \in [Id -> Binding \cup {None}], NEW id \in Classes, NEW allow \in BOOLEAN
  PROVE  /\ Compile(id, allow) \in Seq(Instr)
         /\ Len(Compile(id, allow)) \in Nat /\ Len(Compile(id, allow)) >= 1
         /\ DOMAIN Compile(id, allow) = 1 .. Len(Compile(id, allow))
         /\ Compile(id, allow)[1].code = "BUILD" /\ Compile(id, allow)[1].target = id
         /\ \A k \in DOMAIN Compile(id, allow) : k > 1 => Compile(id, allow)[k].code # "BUILD"
<1>. DEFINE Body == PlanCode \cup [code : {"TRANSFORM"}]
            params == ParamsOf(id)
            param(p) == (IF p.transform THEN <<[code |-> "TRANSFORM"]>> ELSE <<>>)
                          \o <<PlanOf(p.id, p.optional, allow)>>
            pieces == [k \in DOMAIN params |-> param(Reverse(params)[k])]
            rest == FlattenSeq(pieces)
            build == [code |-> "BUILD", target |-> id]
<1>1. params \in Seq(Param)
  <2>1. CASE id = Proxy
    BY <2>1, ContainerAssumption DEF ParamsOf
  <2>2. CASE id # Proxy
    <3>1. id \in Id /\ Bound(id) /\ bindings[id].type = "INSTANCE"
      BY <2>2 DEF Classes, IsClass, Bound
    <3>. QED
      BY <2>2, <3>1, BindingParts DEF ParamsOf
  <2>. QED
    BY <2>1, <2>2
<1>2. ASSUME NEW p \in Param PROVE param(p) \in Seq(Body)
  <2>1. PlanOf(p.id, p.optional, allow) \in Body
    BY DEF Param, PlanOf, PlanCode
  <2>2. [code |-> "TRANSFORM"] \in Body
    OBVIOUS
  <2>. HIDE DEF Body
  <2>. QED
    BY <2>1, <2>2
<1>. HIDE DEF Body, param, params
<1>3. pieces \in Seq(Seq(Body))
  <2>1. Len(params) \in Nat /\ DOMAIN params = 1 .. Len(params) /\ \A k \in 1 .. Len(params) : params[k] \in Param
    BY <1>1
  <2>2. ASSUME NEW k \in 1 .. Len(params) PROVE Reverse(params)[k] \in Param
    <3>1. (Len(params) - k) + 1 \in 1 .. Len(params)
      BY <2>1
    <3>. QED
      BY <2>1, <3>1 DEF Reverse
  <2>3. \A k \in 1 .. Len(params) : param(Reverse(params)[k]) \in Seq(Body)
    BY <1>2, <2>2
  <2>. QED
    BY <2>1, <2>3
<1>4. rest \in Seq(Body)
  BY <1>3, Flattened
<1>5. Compile(id, allow) = <<build>> \o rest
  BY DEF Compile, params, param
<1>. HIDE DEF rest
<1>6. build \in Instr /\ Body \subseteq Instr /\ \A b \in Body : b.code # "BUILD"
  BY DEF Instr, Body, Classes, PlanCode
<1>7. build.code = "BUILD" /\ build.target = id
  OBVIOUS
<1>. HIDE DEF build
<1>. DEFINE c == <<build>> \o rest
<1>8. Len(rest) \in Nat /\ DOMAIN rest = 1 .. Len(rest) /\ \A k \in 1 .. Len(rest) : rest[k] \in Body
  BY <1>4
<1>9. /\ c \in Seq(Instr) /\ Len(c) = Len(rest) + 1 /\ DOMAIN c = 1 .. Len(rest) + 1 /\ c[1] = build
      /\ \A k \in 2 .. Len(rest) + 1 : c[k] = rest[k - 1]
  <2>1. <<build>> \in Seq(Instr) /\ rest \in Seq(Instr)
    BY <1>4, <1>6
  <2>. QED
    BY <1>8, <2>1
<1>. HIDE DEF c
<1>10. \A k \in DOMAIN c : k > 1 => c[k].code # "BUILD"
  <2>1. ASSUME NEW k \in DOMAIN c, k > 1 PROVE c[k].code # "BUILD"
    <3>1. k \in 2 .. Len(rest) + 1 /\ k - 1 \in 1 .. Len(rest)
      BY <1>8, <1>9, <2>1
    <3>. QED
      BY <1>6, <1>8, <1>9, <3>1
  <2>. QED
    BY <2>1
<1>11. Compile(id, allow) = c
  BY <1>5 DEF c
<1>. QED
  BY <1>7, <1>8, <1>9, <1>10, <1>11

(* The codes are as the lemmas about frames want them.                     *)
LEMMA CodesAre ==
  ASSUME bindings \in [Id -> Binding \cup {None}]
  PROVE  CodesOK(Codes) /\ DOMAIN Codes = Classes /\ \A id \in Classes : Codes[id] \in Seq(Instr)
<1>1. \A id \in Classes : Codes[id] = Compile(id, ScopeOf(id) # "SINGLETON")
  BY DEF Codes
<1>2. DOMAIN Codes = Classes
  BY DEF Codes
<1>3. ASSUME NEW id \in Classes
      PROVE  /\ Codes[id] \in Seq(Instr)
             /\ Len(Codes[id]) \in Nat /\ Len(Codes[id]) >= 1 /\ DOMAIN Codes[id] = 1 .. Len(Codes[id])
             /\ Codes[id][1].code = "BUILD" /\ Codes[id][1].target = id
             /\ \A k \in DOMAIN Codes[id] : k > 1 => Codes[id][k].code # "BUILD"
  <2>. DEFINE allow == ScopeOf(id) # "SINGLETON"
  <2>1. allow \in BOOLEAN /\ Codes[id] = Compile(id, allow)
    BY <1>1
  <2>. HIDE DEF allow
  <2>. QED
    BY <2>1, CompileIs
<1>. HIDE DEF Codes
<1>. QED
  BY <1>2, <1>3 DEF CodesOK

(* Nothing is left on an empty stack.                                      *)
LEMMA EmptyFrames ==
  ASSUME NEW codes, NEW e, NEW u
  PROVE  Frames(<<>>, codes, e, u)
<1>. DOMAIN <<>> = {}
  OBVIOUS
<1>. QED
  BY DEF Frames, Pending, Leftover, BuiltFor, Ahead

(* What does not depend on the caches.                                     *)
LEMMA ChaseStays ==
  ASSUME UNCHANGED <<bindings, temporary>>, NEW s, NEW id, NEW allow
  PROVE  Chase(s, id, allow)' = Chase(s, id, allow)
<1>1. \A i : IsLink(s, i, allow)' <=> IsLink(s, i, allow)
  BY DEF IsLink, Bound
<1>2. Link(s, allow)' = Link(s, allow)
  BY <1>1 DEF Link
<1>3. Iterate(Link(s, allow), id)' = Iterate(Link(s, allow), id)
  BY <1>2
<1>. DEFINE last == Iterate(Link(s, allow), id)[Cardinality(Id)]
            end == CASE IsLink(s, last, allow) -> "endless"
                     [] last # Proxy /\ allow /\ last \in temporary[s] -> "temporary"
                     [] last # Proxy /\ Bound(last) /\ bindings[last].type # "ALIAS" -> "bound"
                     [] OTHER -> "unbound"
<1>4. last' = last
  BY <1>3
<1>5. Chase(s, id, allow) = [id |-> last, end |-> end]
  BY DEF Chase
<1>6. Chase(s, id, allow)' = [id |-> last', end |-> end']
  BY DEF Chase
<1>. HIDE DEF last
<1>7. end' = end
  BY <1>1, <1>4 DEF Bound
<1>. QED
  BY <1>4, <1>5, <1>6, <1>7

(* The instructions of the classes change with the bindings alone.         *)
LEMMA CodesStay ==
  ASSUME UNCHANGED bindings
  PROVE  Classes' = Classes /\ Codes' = Codes
<1>1. Classes' = Classes
  BY DEF Classes, IsClass
<1>2. \A id : ParamsOf(id)' = ParamsOf(id) /\ ScopeOf(id)' = ScopeOf(id)
  BY DEF ParamsOf, ScopeOf
<1>3. \A id, allow : Compile(id, allow)' = Compile(id, allow)
  BY <1>2 DEF Compile
<1>. QED
  BY <1>1, <1>2, <1>3 DEF Codes

(* Where a chain may end.                                                  *)
LEMMA ChaseParts ==
  ASSUME NEW s, NEW id, NEW allow
  PROVE  LET b == Chase(s, id, allow)
         IN  /\ b.end \in {"endless", "unbound", "bound", "temporary"}
             /\ b.end \in {"bound", "temporary"} => b.id # Proxy
<1>. DEFINE last == Iterate(Link(s, allow), id)[Cardinality(Id)]
            end == CASE IsLink(s, last, allow) -> "endless"
                     [] last # Proxy /\ allow /\ last \in temporary[s] -> "temporary"
                     [] last # Proxy /\ Bound(last) /\ bindings[last].type # "ALIAS" -> "bound"
                     [] OTHER -> "unbound"
<1>1. Chase(s, id, allow) = [id |-> last, end |-> end]
  BY DEF Chase
<1>. HIDE DEF last
<1>2. end \in {"endless", "unbound", "bound", "temporary"}
  OBVIOUS
<1>3. end \in {"bound", "temporary"} => last # Proxy
  OBVIOUS
<1>. HIDE DEF end
<1>. QED
  BY <1>1, <1>2, <1>3

(* A plan that does not throw pushes a value, and then no class that is in *)
(* no cache is built for it; or the code of the class that is; or that of  *)
(* Proxy.                                                                  *)
LEMMA PlanRight ==
  ASSUME MachineTypeOK, NEW s \in ResolveSession, NEW p \in PlanCode, NEW allowUnbound,
         Planned(s, p, allowUnbound).error = None
  PROVE  \/ /\ Planned(s, p, allowUnbound).code = <<>>
            /\ \A id \in Uncached(s) : <<p, id>> \notin Elaborated(s)
         \/ \E t \in Uncached(s) :
              /\ Planned(s, p, allowUnbound).code = Codes[t]
              /\ <<p, t>> \in Elaborated(s)
         \/ allowUnbound /\ Planned(s, p, allowUnbound).code = Compile(Proxy, p.allowTemporary)
<1>. DEFINE b == Chase(s, p.target, p.allowTemporary)
            r == Planned(s, p, allowUnbound)
            hit == Cached(s, p.target)
            again == Cached(s, b.id)
<1>1. b.end \in {"endless", "unbound", "bound", "temporary"} /\ (b.end \in {"bound", "temporary"} => b.id # Proxy)
  BY ChaseParts
<1>2. b.id \in Id \cup {Proxy}
  <2>1. p.target \in Id \cup {Proxy}
    BY DEF PlanCode
  <2>. QED
    BY <2>1, ChaseEnds DEF MachineTypeOK
<1>3. \A id : <<p, id>> \in Elaborated(s) <=>
              id \in Classes /\ hit = None /\ b.id = id /\ b.end \in {"bound", "temporary"}
  BY DEF Elaborated
<1>4. \A id : id \in Uncached(s) <=> id \in Classes /\ Cached(s, id) = None
  BY DEF Uncached
<1>5. r = CASE hit # None -> [values |-> <<hit>>, code |-> <<>>, error |-> None]
            [] hit = None /\ b.end = "endless" -> [values |-> <<>>, code |-> <<>>, error |-> "endless"]
            [] hit = None /\ b.end = "unbound" ->
                 IF p.optional THEN [values |-> <<Undefined>>, code |-> <<>>, error |-> None]
                 ELSE IF allowUnbound /\ b.id = Proxy
                 THEN [values |-> <<>>, code |-> Compile(b.id, p.allowTemporary), error |-> None]
                 ELSE [values |-> <<>>, code |-> <<>>, error |-> "notFound"]
            [] hit = None /\ b.end \in {"bound", "temporary"} ->
                 IF again # None THEN [values |-> <<again>>, code |-> <<>>, error |-> None]
                 ELSE IF bindings[b.id].type = "CONSTANT"
                 THEN [values |-> <<Value("constant", b.id, 0)>>, code |-> <<>>, error |-> None]
                 ELSE IF b.id \in compiled
                 THEN [values |-> <<>>, code |-> Compile(b.id, ScopeOf(b.id) # "SINGLETON"), error |-> None]
                 ELSE [values |-> <<>>, code |-> <<>>, error |-> "notCompiled"]
  BY DEF Planned
<1>. HIDE DEF b, r, hit
<1>6. None \notin {"endless", "notFound", "notCompiled"}
  BY ContainerAssumption
<1>7. CASE hit # None
  <2>1. r.code = <<>>
    BY <1>5, <1>7
  <2>. QED
    BY <1>3, <1>7, <2>1 DEF r
<1>8. CASE hit = None /\ b.end = "endless"
  BY <1>5, <1>6, <1>8 DEF r
<1>9. CASE hit = None /\ b.end = "unbound"
  <2>1. CASE p.optional
    <3>1. r.code = <<>>
      BY <1>5, <1>9, <2>1
    <3>. QED
      BY <1>3, <1>9, <3>1 DEF r
  <2>2. CASE ~p.optional /\ allowUnbound /\ b.id = Proxy
    <3>1. r.code = Compile(Proxy, p.allowTemporary)
      BY <1>5, <1>9, <2>2
    <3>. QED
      BY <2>2, <3>1 DEF r
  <2>3. CASE ~p.optional /\ ~(allowUnbound /\ b.id = Proxy)
    <3>1. r.error = "notFound"
      BY <1>5, <1>9, <2>3
    <3>. QED
      BY <1>6, <3>1 DEF r
  <2>. QED
    BY <2>1, <2>2, <2>3
<1>10. CASE hit = None /\ b.end \in {"bound", "temporary"}
  <2>1. r = IF again # None THEN [values |-> <<again>>, code |-> <<>>, error |-> None]
            ELSE IF bindings[b.id].type = "CONSTANT"
            THEN [values |-> <<Value("constant", b.id, 0)>>, code |-> <<>>, error |-> None]
            ELSE IF b.id \in compiled
            THEN [values |-> <<>>, code |-> Compile(b.id, ScopeOf(b.id) # "SINGLETON"), error |-> None]
            ELSE [values |-> <<>>, code |-> <<>>, error |-> "notCompiled"]
    <3>1. b.end # "endless" /\ b.end # "unbound"
      BY <1>10
    <3>. QED
      BY <1>5, <1>10, <3>1
  <2>2. b.id \in Id /\ b.id # Proxy
    BY <1>1, <1>2, <1>10
  <2>. DEFINE x == b.id
  <2>3. CASE again # None
    <3>1. r.code = <<>>
      BY <2>1, <2>3
    <3>. QED
      BY <1>3, <1>4, <2>3, <3>1 DEF r
  <2>4. CASE again = None /\ bindings[b.id].type = "CONSTANT"
    <3>1. r.code = <<>>
      BY <2>1, <2>4
    <3>2. b.id \notin Classes
      BY <2>2, <2>4 DEF Classes, IsClass
    <3>. QED
      BY <1>3, <3>1, <3>2 DEF r
  <2>5. CASE again = None /\ bindings[b.id].type # "CONSTANT" /\ b.id \in compiled
    <3>1. r.code = Compile(b.id, ScopeOf(b.id) # "SINGLETON")
      BY <2>1, <2>5
    <3>2. b.id \in Classes
      BY <2>5 DEF MachineTypeOK, Classes
    <3>3. r.code = Codes[b.id]
      BY <3>1, <3>2 DEF Codes
    <3>. QED
      BY <1>3, <1>4, <1>10, <2>5, <3>2, <3>3 DEF r
  <2>6. CASE again = None /\ bindings[b.id].type # "CONSTANT" /\ b.id \notin compiled
    <3>1. r.error = "notCompiled"
      BY <2>1, <2>6
    <3>. QED
      BY <1>6, <3>1 DEF r
  <2>. QED
    BY <2>3, <2>4, <2>5, <2>6
<1>. QED
  BY <1>1, <1>7, <1>8, <1>9, <1>10

(* Whatever it pushes are instructions, and none when it throws.           *)
LEMMA PlannedCode ==
  ASSUME MachineTypeOK, NEW s \in ResolveSession, NEW p \in PlanCode, NEW allowUnbound
  PROVE  Planned(s, p, allowUnbound).code \in Seq(Instr)
<1>. DEFINE r == Planned(s, p, allowUnbound)
<1>1. CASE r.error = None
  <2>1. \A t \in Uncached(s) : t \in Classes
    BY DEF Uncached
  <2>2. Proxy \in Classes /\ p.allowTemporary \in BOOLEAN /\ bindings \in [Id -> Binding \cup {None}]
    BY DEF Classes, PlanCode, MachineTypeOK
  <2>3. Compile(Proxy, p.allowTemporary) \in Seq(Instr)
    BY <2>2, CompileIs
  <2>4. \A t \in Classes : Codes[t] \in Seq(Instr)
    BY <2>2, CodesAre
  <2>5. <<>> \in Seq(Instr)
    OBVIOUS
  <2>. QED
    BY <1>1, <2>1, <2>3, <2>4, <2>5, PlanRight
<1>2. CASE r.error # None
  <2>1. r.code = <<>>
    <3>. DEFINE b == Chase(s, p.target, p.allowTemporary)
                hit == Cached(s, p.target)
    <3>1. b.end \in {"endless", "unbound", "bound", "temporary"}
      BY ChaseParts
    <3>2. CASE hit # None
      BY <1>2, <3>2 DEF Planned
    <3>3. CASE hit = None /\ b.end = "endless"
      BY <3>3 DEF Planned
    <3>4. CASE hit = None /\ b.end = "unbound"
      BY <1>2, <3>4 DEF Planned
    <3>5. CASE hit = None /\ b.end \in {"bound", "temporary"}
      <4>1. b.end # "endless" /\ b.end # "unbound"
        BY <3>5
      <4>. QED
        BY <1>2, <3>5, <4>1 DEF Planned
    <3>. QED
      BY <3>1, <3>2, <3>3, <3>4, <3>5
  <2>2. <<>> \in Seq(Instr)
    OBVIOUS
  <2>. QED
    BY <2>1, <2>2
<1>. QED
  BY <1>1, <1>2

-----------------------------------------------------------------------------
(* What steps keep.                                                        *)

(* What a session answers from a cache, or builds, changes with the        *)
(* bindings, the caches and the temporary bindings alone.                  *)
LEMMA PlansStay ==
  ASSUME UNCHANGED <<bindings, temporary, globalCache, sessionCache>>, NEW s
  PROVE  Elaborated(s)' = Elaborated(s) /\ Uncached(s)' = Uncached(s) /\ Codes' = Codes
<1>1. \A id, allow : Chase(s, id, allow)' = Chase(s, id, allow)
  BY ChaseStays
<1>2. Classes' = Classes /\ Codes' = Codes
  BY CodesStay
<1>3. \A id : Cached(s, id)' = Cached(s, id)
  BY DEF Cached
<1>. QED
  BY <1>1, <1>2, <1>3 DEF Elaborated, Uncached

(* What OneInstance says of an id.                                         *)
Cleanly(id) == {i \in DOMAIN made[id] : made[id][i].clean}

OneOf(id) ==
  /\ ScopeOf(id) = "SINGLETON" => Cardinality(Cleanly(id)) <= 1
  /\ ScopeOf(id) = "SESSION" =>
       \A i, j \in Cleanly(id) : made[id][i].by = made[id][j].by => i = j

(* OneInstance, id by id.                                                  *)
LEMMA OneInstanceIs ==
  ASSUME MachineTypeOK
  PROVE  OneInstance <=> \A id \in Id : IsClass(bindings[id]) => OneOf(id)
<1>1. ASSUME NEW id \in Id, IsClass(bindings[id])
      PROVE  Bound(id) /\ ScopeOf(id) \in {"SESSION", "SINGLETON", "TRANSIENT"}
  <2>1. Bound(id) /\ bindings[id].type = "INSTANCE"
    BY <1>1 DEF IsClass, Bound
  <2>2. bindings[id].scope \in Scope
    BY <2>1, BindingParts DEF MachineTypeOK
  <2>3. id # Proxy
    BY ContainerAssumption
  <2>. QED
    BY <2>1, <2>2, <2>3 DEF ScopeOf, Scope
<1>2. OneInstance <=>
        \A id \in Id : Bound(id) /\ IsClass(bindings[id]) =>
          CASE ScopeOf(id) = "SINGLETON" -> Cardinality(Cleanly(id)) <= 1
            [] ScopeOf(id) = "SESSION" ->
                 \A i, j \in Cleanly(id) : made[id][i].by = made[id][j].by => i = j
            [] ScopeOf(id) = "TRANSIENT" -> TRUE
  BY DEF OneInstance, Cleanly
<1>3. ASSUME NEW id \in Id, IsClass(bindings[id])
      PROVE  (CASE ScopeOf(id) = "SINGLETON" -> Cardinality(Cleanly(id)) <= 1
                [] ScopeOf(id) = "SESSION" ->
                     \A i, j \in Cleanly(id) : made[id][i].by = made[id][j].by => i = j
                [] ScopeOf(id) = "TRANSIENT" -> TRUE) <=> OneOf(id)
  <2>1. CASE ScopeOf(id) = "SINGLETON"
    BY <2>1 DEF OneOf
  <2>2. CASE ScopeOf(id) = "SESSION"
    BY <2>2 DEF OneOf
  <2>3. CASE ScopeOf(id) = "TRANSIENT"
    BY <2>3 DEF OneOf
  <2>. QED
    BY <1>1, <1>3, <2>1, <2>2, <2>3
<1>. QED
  BY <1>1, <1>2, <1>3

(* The same of the next state.                                             *)
LEMMA OneInstanceIsNext ==
  MachineTypeOK' => (OneInstance <=> \A id \in Id : IsClass(bindings[id]) => OneOf(id))'
<1>1. MachineTypeOK => (OneInstance <=> \A id \in Id : IsClass(bindings[id]) => OneOf(id))
  BY OneInstanceIs
<1>. QED
  BY <1>1, PTL

(* A step that builds nothing, empties no cache and binds no class anew.   *)
LEMMA BuildsStay ==
  ASSUME MachineInv, MachineTypeOK', UNCHANGED made,
         \A id \in Id : IsClass(bindings[id]) => bindings'[id] = bindings[id],
         \A id \in Id : globalCache[id] # None => globalCache'[id] # None,
         \A s \in ResolveSession, id \in Id :
           sessionCache[s][id] # None => sessionCache'[s][id] # None
  PROVE  (\A id \in Id : CachedInv(id)') /\ OneInstance'
<1>1. ASSUME NEW id \in Id PROVE CachedInv(id)'
  <2>1. id # Proxy
    BY ContainerAssumption
  <2>2. CachedInv(id)
    BY DEF MachineInv
  <2>3. ASSUME NEW i \in DOMAIN made[id], made[id][i].clean
        PROVE  /\ IsClass(bindings'[id])
               /\ bindings'[id].scope = "SINGLETON" => globalCache'[id] # None
               /\ bindings'[id].scope = "SESSION" => sessionCache'[made[id][i].by][id] # None
    <3>1. made[id][i].by \in ResolveSession
      BY DEF MachineInv, MachineTypeOK
    <3>2. IsClass(bindings[id]) /\ bindings'[id] = bindings[id]
      BY <2>2, <2>3 DEF CachedInv
    <3>. QED
      BY <2>1, <2>2, <2>3, <3>1, <3>2 DEF CachedInv, ScopeOf
  <2>. QED
    BY <2>1, <2>3 DEF CachedInv, ScopeOf
<1>2. ASSUME NEW id \in Id, IsClass(bindings[id])' PROVE OneOf(id)'
  <2>1. id # Proxy
    BY ContainerAssumption
  <2>2. Cleanly(id)' = Cleanly(id)
    BY DEF Cleanly
  <2>3. CASE IsClass(bindings[id])
    <3>1. ScopeOf(id)' = ScopeOf(id)
      BY <2>1, <2>3 DEF ScopeOf
    <3>2. OneOf(id)
      BY <2>3, OneInstanceIs DEF MachineInv
    <3>. QED
      BY <2>2, <3>1, <3>2 DEF OneOf
  <2>4. CASE ~IsClass(bindings[id])
    <3>1. Cleanly(id) = {}
      BY <2>4 DEF MachineInv, CachedInv, Cleanly
    <3>2. Cardinality(Cleanly(id)) = 0
      BY <3>1, FS_EmptySet
    <3>. QED
      BY <2>2, <3>1, <3>2 DEF OneOf
  <2>. QED
    BY <2>3, <2>4
<1>. QED
  BY <1>1, <1>2, OneInstanceIsNext

(* Between calls nothing is left to do in a session in which no call threw.*)
LEMMA IdleStacks ==
  ASSUME MachineInv, UNCHANGED <<instructions, running>>, threw \subseteq threw', running = None
  PROVE  \A s \in ResolveSession \ threw' : FramesInv(s)'
<1>1. ASSUME NEW s \in ResolveSession \ threw' PROVE FramesInv(s)'
  <2>1. instructions[s] = <<>>
    BY DEF MachineInv, FramesInv
  <2>2. Frames(<<>>, Codes', Elaborated(s)', Uncached(s)')
    BY EmptyFrames
  <2>3. Frames(instructions[s], Codes, Elaborated(s), Uncached(s))'
    BY <2>1, <2>2
  <2>. QED
    BY <2>1, <2>3 DEF FramesInv
<1>. QED
  BY <1>1

-----------------------------------------------------------------------------
(* The steps.                                                              *)

(* Nothing is bound at first.                                              *)
LEMMA MachineInitEstablishes == ContainerInit => MachineInv
<1>. SUFFICES ASSUME ContainerInit PROVE MachineInv
  OBVIOUS
<1>1. MachineTypeOK
  <2>1. /\ bindings \in [Id -> Binding \cup {None}] /\ program \in Program /\ compiled = {}
        /\ running \in Calls \cup {None} /\ threw \subseteq ResolveSession
    BY DEF ContainerInit
  <2>2. instructions \in [ResolveSession -> Seq(Instr)]
    BY DEF ContainerInit
  <2>3. /\ globalCache = [id \in Id |-> globalCache[id]]
        /\ sessionCache = [s \in ResolveSession |-> [id \in Id |-> sessionCache[s][id]]]
        /\ made = [id \in Id |-> made[id]]
    BY DEF ContainerInit
  <2>4. ASSUME NEW id \in Id
        PROVE  /\ Len(made[id]) \in Nat /\ made[id] = [i \in 1 .. Len(made[id]) |-> made[id][i]]
               /\ \A i \in DOMAIN made[id] : made[id][i].by \in ResolveSession
    <3>1. made[id] = <<>> /\ Len(<<>>) = 0 /\ DOMAIN <<>> = {}
      BY DEF ContainerInit
    <3>2. <<>> = [i \in 1 .. 0 |-> made[id][i]]
      OBVIOUS
    <3>. QED
      BY <3>1, <3>2
  <2>. QED
    BY <2>1, <2>2, <2>3, <2>4 DEF MachineTypeOK
<1>2. ASSUME NEW s \in ResolveSession PROVE FramesInv(s)
  <2>1. instructions[s] = <<>>
    BY DEF ContainerInit
  <2>. QED
    BY <2>1, EmptyFrames DEF FramesInv
<1>3. \A id \in Id : DOMAIN made[id] = {} /\ bindings[id] = None
  BY DEF ContainerInit
<1>4. \A id \in Id : CachedInv(id)
  BY <1>3 DEF CachedInv
<1>5. OneInstance
  BY <1>3 DEF OneInstance, Bound
<1>. QED
  BY <1>1, <1>2, <1>4, <1>5 DEF MachineInv

(* What is bound stays bound to the same.                                  *)
LEMMA BindAdds ==
  ASSUME MachineTypeOK, NEW id \in Id, Bind(id)
  PROVE  /\ bindings' \in [Id -> Binding \cup {None}]
         /\ \A i \in Id : Bound(i) => bindings'[i] = bindings[i]
         /\ bindings'[id] = program[id]
         /\ \A i \in Id : bindings'[i] \in {bindings[i], program[id], [type |-> "ALIAS", to |-> id]}
         /\ order \in Seq(Id) /\ ToSet(order) = {i \in Id : Bound(i)} =>
              order' \in Seq(Id) /\ ToSet(order') = {i \in Id : Bound(i)'}
<1>. DEFINE b == program[id]
            names == IF IsClass(b) /\ ~b.gap THEN <<id>> \o Parents[id] ELSE <<id>>
            I == {i \in 1 .. Len(names) : Bound(names[i])}
            free == IF I # {} THEN Min(I) ELSE 0
            new == IF free = 0 THEN names ELSE SubSeq(names, 1, free - 1)
            alias == [type |-> "ALIAS", to |-> id]
<1>1. /\ running = None /\ b # None /\ ~Bound(id) /\ order' = order \o new
      /\ bindings' = [i \in Id |-> IF i = id THEN b ELSE IF i \in ToSet(new) THEN alias ELSE bindings[i]]
  BY DEF Bind, ghostVars, SelectInSeq
<1>2. b \in Binding /\ alias \in Binding
  <2>1. program \in [Id -> Binding \cup {None}]
    BY ContainerAssumption DEF MachineTypeOK
  <2>. QED
    BY <1>1, <2>1 DEF Binding
<1>3. (\A i \in ToSet(new) : i \in Id /\ ~Bound(i)) /\ new \in Seq(Id) /\ id \in ToSet(new)
  <2>1. names \in Seq(Id) /\ Len(names) >= 1 /\ names[1] = id
    <3>1. Parents[id] \in Seq(Id) /\ <<id>> \in Seq(Id)
      BY ContainerAssumption
    <3>2. /\ <<id>> \o Parents[id] \in Seq(Id) /\ Len(<<id>> \o Parents[id]) >= 1
          /\ (<<id>> \o Parents[id])[1] = id
      BY <3>1
    <3>. QED
      BY <3>1, <3>2
  <2>. HIDE DEF names
  <2>2. Len(names) \in Nat /\ DOMAIN names = 1 .. Len(names) /\ \A i \in 1 .. Len(names) : names[i] \in Id
    BY <2>1
  <2>3. CASE I = {}
    <3>1. new = names
      BY <2>3
    <3>2. \A i \in DOMAIN new : new[i] \in Id /\ ~Bound(new[i])
      BY <2>2, <2>3, <3>1
    <3>. HIDE DEF new
    <3>3. new \in Seq(Id) /\ new[1] = id
      BY <2>1, <3>1
    <3>4. 1 \in DOMAIN new
      BY <2>1, <2>2, <3>1
    <3>. QED
      BY <3>2, <3>3, <3>4 DEF ToSet
  <2>4. CASE I # {}
    <3>1. PICK m \in I : \A n \in I : m <= n
      <4>1. I \in SUBSET Nat
        OBVIOUS
      <4>. HIDE DEF I
      <4>. QED
        BY <2>4, <4>1, Smallest
    <3>2. Min(I) \in I /\ \A n \in I : Min(I) <= n
      <4>. HIDE DEF I
      <4>. QED
        BY <3>1 DEF Min
    <3>3. free = Min(I) /\ free \in 1 .. Len(names) /\ \A n \in I : free <= n
      BY <2>4, <3>2
    <3>. HIDE DEF free
    <3>4. new = SubSeq(names, 1, free - 1)
      <4>1. free # 0
        BY <2>2, <3>3
      <4>. QED
        BY <4>1
    <3>. HIDE DEF new
    <3>5. \A i \in 1 .. free - 1 : i \in 1 .. Len(names) /\ i \notin I
      BY <2>2, <3>3
    <3>6. DOMAIN new = 1 .. free - 1 /\ \A i \in 1 .. free - 1 : new[i] = names[i]
      <4>1. free - 1 \in Nat /\ free - 1 <= Len(names)
        BY <2>2, <3>3
      <4>. QED
        BY <2>1, <2>2, <3>4, <4>1
    <3>7. \A i \in DOMAIN new : new[i] \in Id /\ ~Bound(new[i])
      BY <2>2, <3>5, <3>6
    <3>8. 1 \in 1 .. free - 1
      <4>1. free # 1
        <5>1. free \in I
          BY <2>4, <3>2, <3>3
        <5>. QED
          BY <1>1, <2>1, <5>1
      <4>. QED
        BY <2>2, <3>3, <4>1
    <3>9. new \in Seq(Id) /\ 1 \in DOMAIN new /\ new[1] = id
      <4>1. free - 1 \in Nat /\ free - 1 <= Len(names)
        BY <2>2, <3>3
      <4>2. new \in Seq(Id)
        BY <2>1, <2>2, <3>4, <4>1
      <4>. QED
        BY <2>1, <3>6, <3>8, <4>2
    <3>. QED
      BY <3>7, <3>9 DEF ToSet
  <2>. QED
    BY <2>3, <2>4
<1>. HIDE DEF new, alias
<1>4. \A i \in Id : Bound(i) => bindings'[i] = bindings[i]
  BY <1>1, <1>3
<1>5. bindings' \in [Id -> Binding \cup {None}]
  BY <1>1, <1>2 DEF MachineTypeOK
<1>6. bindings'[id] = b
  BY <1>1
<1>7. \A i \in Id : bindings'[i] \in {bindings[i], b, alias}
  BY <1>1
<1>8. ASSUME order \in Seq(Id), ToSet(order) = {i \in Id : Bound(i)}
      PROVE  order' \in Seq(Id) /\ ToSet(order') = {i \in Id : bindings'[i] # None}
  <2>1. order' \in Seq(Id) /\ ToSet(order') = ToSet(order) \cup ToSet(new)
    BY <1>1, <1>3, <1>8, AppendedSets
  <2>2. \A i \in Id : i \in ToSet(new) \/ bindings'[i] = bindings[i]
    BY <1>1, <1>3
  <2>3. \A i \in ToSet(new) : bindings'[i] # None
    BY <1>1, <1>2, <1>3, ContainerAssumption
  <2>. QED
    BY <1>3, <1>4, <1>8, <2>1, <2>2, <2>3 DEF Bound
<1>. QED
  BY <1>4, <1>5, <1>6, <1>7, <1>8 DEF Bound, alias

(* No id is bound again.                                                   *)
LEMMA BindKeeps ==
  ASSUME MachineInv, NEW id \in Id, Bind(id)
  PROVE  MachineInv'
<1>1. /\ running = None /\ program[id] # None /\ ~Bound(id)
      /\ compiled' = IF IsClass(program[id]) /\ ~program[id].gap THEN compiled \cup {id} ELSE compiled
      /\ UNCHANGED <<program, globalCache, instructions, sessionCache, temporary, running, threw, made>>
  BY DEF Bind, ghostVars
<1>2. MachineTypeOK
  BY DEF MachineInv
<1>3. /\ bindings' \in [Id -> Binding \cup {None}] /\ bindings'[id] = program[id]
      /\ \A i \in Id : Bound(i) => bindings'[i] = bindings[i]
  BY <1>2, BindAdds
<1>4. \A i \in Id : IsClass(bindings[i]) => bindings'[i] = bindings[i]
  BY <1>3 DEF Bound, IsClass
<1>5. MachineTypeOK'
  <2>1. \A i \in compiled' : i \in Id /\ IsClass(bindings'[i])
    BY <1>1, <1>2, <1>3, <1>4 DEF MachineTypeOK
  <2>. QED
    BY <1>1, <1>2, <1>3, <2>1 DEF MachineTypeOK
<1>6. \A s \in ResolveSession \ threw' : FramesInv(s)'
  BY <1>1, IdleStacks
<1>7. (\A i \in Id : CachedInv(i)') /\ OneInstance'
  BY <1>1, <1>4, <1>5, BuildsStay
<1>. QED
  BY <1>5, <1>6, <1>7 DEF MachineInv

(* A step that leaves the machine alone.                                   *)
LEMMA ValidateKeeps ==
  ASSUME MachineInv, UNCHANGED <<program, bindings, compiled, globalCache, instructions,
                                 sessionCache, temporary, running, threw, made>>
  PROVE  MachineInv'
<1>1. MachineTypeOK'
  BY DEF MachineInv, MachineTypeOK
<1>2. ASSUME NEW s \in ResolveSession \ threw' PROVE FramesInv(s)'
  <2>1. FramesInv(s)
    BY DEF MachineInv
  <2>2. Elaborated(s)' = Elaborated(s) /\ Uncached(s)' = Uncached(s) /\ Codes' = Codes
    BY PlansStay
  <2>. QED
    BY <2>1, <2>2 DEF FramesInv
<1>3. (\A i \in Id : CachedInv(i)') /\ OneInstance'
  BY <1>1, BuildsStay
<1>. QED
  BY <1>1, <1>2, <1>3 DEF MachineInv

(* A temporary binding is made between calls.                              *)
LEMMA AddTemporaryKeeps ==
  ASSUME MachineInv, NEW s \in ResolveSession, NEW id \in Id, AddTemporary(s, id)
  PROVE  MachineInv'
<1>. DEFINE v == Value("temporary", id, 0)
<1>1. /\ running = None
      /\ sessionCache' = [sessionCache EXCEPT ![s][id] = v]
      /\ UNCHANGED <<program, bindings, compiled, globalCache, instructions, running, threw, made>>
  BY DEF AddTemporary, bindVars, ghostVars
<1>2. v # None
  <2>1. v \in Values
    BY DEF Value, Values
  <2>. QED
    BY <2>1, ContainerAssumption
<1>3. MachineTypeOK
  BY DEF MachineInv
<1>. HIDE DEF v
<1>4. MachineTypeOK'
  <2>1. sessionCache' = [x \in ResolveSession |-> [i \in Id |-> sessionCache'[x][i]]]
    BY <1>1, <1>3 DEF MachineTypeOK
  <2>. QED
    BY <1>1, <1>3, <2>1 DEF MachineTypeOK
<1>5. \A x \in ResolveSession \ threw' : FramesInv(x)'
  BY <1>1, IdleStacks
<1>6. \A x \in ResolveSession, i \in Id : sessionCache[x][i] # None => sessionCache'[x][i] # None
  BY <1>1, <1>2, <1>3 DEF MachineTypeOK
<1>7. (\A i \in Id : CachedInv(i)') /\ OneInstance'
  BY <1>1, <1>4, <1>6, BuildsStay
<1>. QED
  BY <1>4, <1>5, <1>7 DEF MachineInv

(* Plans.                                                                  *)
LEMMA PerformKeeps ==
  ASSUME MachineInv, NEW s \in ResolveSession, NEW p \in PlanCode, NEW rest \in Seq(Instr), NEW u,
         NEW target \in Id \cup {Proxy}, PerformPlan(s, p, rest, u, target),
         UNCHANGED <<program, bindings, compiled, temporary, globalCache, sessionCache, made>>,
         \A x \in ResolveSession \ threw : x # s => instructions[x] = <<>>,
         s \notin threw /\ Planned(s, p, u).error = None =>
           Frames(rest \o Planned(s, p, u).code, Codes, Elaborated(s), Uncached(s))
  PROVE  MachineInv'
<1>. DEFINE r == Planned(s, p, u)
            grown == rest \o r.code
            e == IF r.error = None /\ Len(grown) > MaxDepth THEN "endless" ELSE r.error
            call == [by |-> s, target |-> target]
<1>1. /\ instructions' = [instructions EXCEPT ![s] = grown]
      /\ IF e = None THEN running' = call /\ threw' = threw
         ELSE running' = (IF e = "endless" THEN call ELSE None) /\ threw' = threw \cup {s}
  BY DEF PerformPlan
<1>2. MachineTypeOK
  BY DEF MachineInv
<1>3. e = None => r.error = None
  BY ContainerAssumption
<1>4. grown \in Seq(Instr)
  <2>1. r.code \in Seq(Instr)
    BY <1>2, PlannedCode
  <2>. QED
    BY <2>1
<1>5. call \in Calls
  BY DEF Calls
<1>6. s \notin threw /\ r.error = None => Frames(grown, Codes, Elaborated(s), Uncached(s))
  OBVIOUS
<1>7. call.by = s /\ call # None
  BY <1>5, ContainerAssumption
<1>. HIDE DEF r, grown, e, call
<1>8. MachineTypeOK'
  <2>1. instructions' \in [ResolveSession -> Seq(Instr)]
    BY <1>1, <1>2, <1>4 DEF MachineTypeOK
  <2>2. running' \in Calls \cup {None} /\ threw' \subseteq ResolveSession
    BY <1>1, <1>2, <1>5 DEF MachineTypeOK
  <2>. QED
    BY <1>2, <2>1, <2>2 DEF MachineTypeOK
<1>9. ASSUME NEW x \in ResolveSession \ threw' PROVE FramesInv(x)'
  <2>1. Elaborated(x)' = Elaborated(x) /\ Uncached(x)' = Uncached(x) /\ Codes' = Codes
    BY PlansStay
  <2>2. instructions'[x] = IF x = s THEN grown ELSE instructions[x]
    BY <1>1, <1>2 DEF MachineTypeOK
  <2>3. x \notin threw
    BY <1>1
  <2>4. CASE x = s
    <3>1. e = None /\ running' = call
      BY <1>1, <2>4
    <3>2. Frames(grown, Codes, Elaborated(x), Uncached(x))
      BY <1>3, <1>6, <2>3, <2>4, <3>1
    <3>3. Frames(instructions[x], Codes, Elaborated(x), Uncached(x))'
      BY <2>1, <2>2, <2>4, <3>2
    <3>4. ~(running' = None \/ running'.by # x)
      BY <1>7, <2>4, <3>1
    <3>. QED
      BY <3>3, <3>4 DEF FramesInv
  <2>5. CASE x # s
    <3>1. instructions'[x] = <<>>
      BY <2>2, <2>3, <2>5
    <3>2. Frames(<<>>, Codes', Elaborated(x)', Uncached(x)')
      BY EmptyFrames
    <3>. QED
      BY <3>1, <3>2 DEF FramesInv
  <2>. QED
    BY <2>4, <2>5
<1>10. (\A i \in Id : CachedInv(i)') /\ OneInstance'
  BY <1>8, BuildsStay
<1>. QED
  BY <1>8, <1>9, <1>10 DEF MachineInv

(* A call begins with the plan of its target (resolve-session.ts:66).      *)
LEMMA ResolveKeeps ==
  ASSUME MachineInv, NEW s \in ResolveSession, NEW target \in Id \cup {Proxy}, Resolve(s, target)
  PROVE  MachineInv'
<1>. DEFINE p == PlanOf(target, FALSE, TRUE)
            u == target = Proxy
            r == Planned(s, p, u)
<1>1. /\ running = None /\ PerformPlan(s, p, instructions[s], u, target)
      /\ UNCHANGED <<program, bindings, compiled, temporary, globalCache, sessionCache, made>>
  BY DEF Resolve, bindVars
<1>2. MachineTypeOK /\ instructions[s] \in Seq(Instr)
  BY DEF MachineInv, MachineTypeOK
<1>3. p \in PlanCode /\ p.allowTemporary = TRUE
  BY DEF PlanOf, PlanCode
<1>4. \A x \in ResolveSession \ threw : instructions[x] = <<>>
  BY <1>1 DEF MachineInv, FramesInv
<1>. HIDE DEF p, u
<1>5. ASSUME s \notin threw, r.error = None
      PROVE  Frames(instructions[s] \o r.code, Codes, Elaborated(s), Uncached(s))
  <2>1. CodesOK(Codes) /\ DOMAIN Codes = Classes /\ \A id \in Classes : Codes[id] \in Seq(Instr)
    BY <1>2, CodesAre DEF MachineTypeOK
  <2>2. \A t \in Uncached(s) : t \in Classes
    BY DEF Uncached
  <2>3. instructions[s] = <<>> /\ <<>> \o r.code = r.code
    <3>1. r.code \in Seq(Instr)
      BY <1>2, <1>3, PlannedCode
    <3>. HIDE DEF r
    <3>. QED
      BY <1>4, <1>5, <3>1
  <2>4. CASE r.code = <<>>
    BY <2>3, <2>4, EmptyFrames
  <2>5. ASSUME NEW t \in Uncached(s), r.code = Codes[t]
        PROVE  Frames(r.code, Codes, Elaborated(s), Uncached(s))
    BY <2>1, <2>2, <2>5, FirstCode
  <2>6. ASSUME r.code = Compile(Proxy, p.allowTemporary)
        PROVE  r.code = Codes[Proxy] /\ Proxy \in Uncached(s)
    <3>1. Proxy \in Classes /\ Cached(s, Proxy) = None
      BY DEF Classes, Cached
    <3>2. ScopeOf(Proxy) # "SINGLETON"
      BY DEF ScopeOf
    <3>3. (ScopeOf(Proxy) # "SINGLETON") = TRUE
      BY <3>2
    <3>4. Codes[Proxy] = Compile(Proxy, ScopeOf(Proxy) # "SINGLETON")
      BY <3>1 DEF Codes
    <3>. HIDE DEF r
    <3>. QED
      BY <1>3, <2>6, <3>1, <3>3, <3>4 DEF Uncached
  <2>. HIDE DEF r
  <2>7. \/ r.code = <<>>
        \/ \E t \in Uncached(s) : r.code = Codes[t]
        \/ r.code = Compile(Proxy, p.allowTemporary)
    BY <1>2, <1>3, <1>5, PlanRight DEF r
  <2>. QED
    BY <2>3, <2>4, <2>5, <2>6, <2>7
<1>. QED
  BY <1>1, <1>2, <1>3, <1>4, <1>5, PerformKeeps

(* The session that runs, and the top of its stack.                        *)
LEMMA RunningFacts ==
  ASSUME MachineInv, NEW s \in ResolveSession, Running(s)
  PROVE  /\ running \in Calls /\ running.by = s /\ running.target \in Id \cup {Proxy}
         /\ instructions[s] \in Seq(Instr)
         /\ \A x \in ResolveSession \ threw : x # s => instructions[x] = <<>>
         /\ instructions[s] # <<>> => Top(s) \in Instr /\ Rest(s) \in Seq(Instr)
<1>1. running # None /\ running.by = s
  BY DEF Running
<1>2. running \in Calls
  BY <1>1 DEF MachineInv, MachineTypeOK
<1>3. running.target \in Id \cup {Proxy}
  BY <1>2 DEF Calls
<1>4. instructions[s] \in Seq(Instr)
  BY DEF MachineInv, MachineTypeOK
<1>5. \A x \in ResolveSession \ threw : x # s => instructions[x] = <<>>
  BY <1>1 DEF MachineInv, FramesInv
<1>6. ASSUME NEW is \in Seq(Instr), is # <<>> PROVE Last(is) \in Instr /\ Front(is) \in Seq(Instr)
  <2>1. Len(is) \in Nat /\ Len(is) # 0 /\ Len(is) \in DOMAIN is
    BY <1>6, SequenceFacts
  <2>. QED
    BY <1>6, <2>1, FrontFacts DEF Last
<1>. QED
  BY <1>1, <1>2, <1>3, <1>4, <1>5, <1>6 DEF Top, Rest

(* The plan on top of the stack is performed (resolve-session.ts:98).      *)
LEMMA PlanKeeps ==
  ASSUME MachineInv, NEW s \in ResolveSession, Plan(s)
  PROVE  MachineInv'
<1>1. /\ Running(s) /\ instructions[s] # <<>> /\ Top(s).code = "PLAN"
      /\ PerformPlan(s, Top(s), Rest(s), FALSE, running.target)
      /\ UNCHANGED <<program, bindings, compiled, temporary, globalCache, sessionCache, made>>
  BY DEF Plan, bindVars
<1>2. /\ running.target \in Id \cup {Proxy} /\ instructions[s] \in Seq(Instr)
      /\ \A x \in ResolveSession \ threw : x # s => instructions[x] = <<>>
      /\ Top(s) \in Instr /\ Rest(s) \in Seq(Instr)
  BY <1>1, RunningFacts
<1>3. Top(s) \in PlanCode
  <2>1. \A i \in Instr : i.code = "PLAN" => i \in PlanCode
    BY DEF Instr, PlanCode
  <2>. QED
    BY <1>1, <1>2, <2>1
<1>4. PICK p \in PlanCode : p = Top(s)
  BY <1>3
<1>5. PICK rest \in Seq(Instr) : rest = Rest(s)
  BY <1>2
<1>6. PICK target \in Id \cup {Proxy} : target = running.target
  BY <1>2
<1>7. MachineTypeOK
  BY DEF MachineInv
<1>8. ASSUME s \notin threw, Planned(s, p, FALSE).error = None
      PROVE  Frames(rest \o Planned(s, p, FALSE).code, Codes, Elaborated(s), Uncached(s))
  <2>. DEFINE r == Planned(s, p, FALSE)
              is == instructions[s]
  <2>1. CodesOK(Codes) /\ DOMAIN Codes = Classes /\ \A id \in Classes : Codes[id] \in Seq(Instr)
    BY <1>7, CodesAre DEF MachineTypeOK
  <2>2. \A t \in Uncached(s) : t \in Classes
    BY DEF Uncached
  <2>3. Frames(is, Codes, Elaborated(s), Uncached(s))
    BY <1>8 DEF MachineInv, FramesInv
  <2>4. p = Last(is) /\ rest = Front(is) /\ is \in Seq(Instr) /\ is # <<>> /\ Last(is).code # "BUILD"
    BY <1>1, <1>2, <1>4, <1>5 DEF Top, Rest
  <2>5. \/ r.code = <<>> /\ \A id \in Uncached(s) : <<p, id>> \notin Elaborated(s)
        \/ \E t \in Uncached(s) : r.code = Codes[t] /\ <<p, t>> \in Elaborated(s)
    BY <1>7, <1>8, PlanRight
  <2>. HIDE DEF r, is
  <2>6. CASE r.code = <<>> /\ \A id \in Uncached(s) : <<p, id>> \notin Elaborated(s)
    <3>1. Frames(Front(is), Codes, Elaborated(s), Uncached(s))
      BY <2>3, <2>4, <2>6, PopCode
    <3>2. rest \o <<>> = rest
      OBVIOUS
    <3>. QED
      BY <2>4, <2>6, <3>1, <3>2 DEF r
  <2>7. ASSUME NEW t \in Uncached(s), r.code = Codes[t], <<p, t>> \in Elaborated(s)
        PROVE  Frames(rest \o r.code, Codes, Elaborated(s), Uncached(s))
    <3>1. Frames(Front(is) \o Codes[t], Codes, Elaborated(s), Uncached(s))
      BY <2>1, <2>2, <2>3, <2>4, <2>7, PushCode
    <3>. QED
      BY <2>4, <2>7, <3>1
  <2>. QED
    BY <2>5, <2>6, <2>7 DEF r
<1>. QED
  BY <1>1, <1>2, <1>4, <1>5, <1>6, <1>8, PerformKeeps

(* A transformation is no part of the frames.                              *)
LEMMA TransformKeeps ==
  ASSUME MachineInv, NEW s \in ResolveSession, Transform(s)
  PROVE  MachineInv'
<1>1. /\ Running(s) /\ instructions[s] # <<>> /\ Top(s).code = "TRANSFORM"
      /\ instructions' = [instructions EXCEPT ![s] = Rest(s)]
      /\ UNCHANGED <<program, bindings, compiled, temporary, globalCache, sessionCache, made,
                     running, threw>>
  BY DEF Transform, bindVars, ghostVars
<1>2. /\ running # None /\ running.by = s /\ instructions[s] \in Seq(Instr)
      /\ \A x \in ResolveSession \ threw : x # s => instructions[x] = <<>>
      /\ Rest(s) \in Seq(Instr)
  BY <1>1, RunningFacts DEF Running
<1>3. MachineTypeOK
  BY DEF MachineInv
<1>4. MachineTypeOK'
  <2>1. instructions' \in [ResolveSession -> Seq(Instr)]
    BY <1>1, <1>2, <1>3 DEF MachineTypeOK
  <2>. QED
    BY <1>1, <1>3, <2>1 DEF MachineTypeOK
<1>5. ASSUME NEW x \in ResolveSession \ threw' PROVE FramesInv(x)'
  <2>1. Elaborated(x)' = Elaborated(x) /\ Uncached(x)' = Uncached(x) /\ Codes' = Codes
    BY <1>1, PlansStay
  <2>2. instructions'[x] = IF x = s THEN Rest(s) ELSE instructions[x]
    BY <1>1, <1>3 DEF MachineTypeOK
  <2>3. Frames(instructions[x], Codes, Elaborated(x), Uncached(x))
    BY <1>1 DEF MachineInv, FramesInv
  <2>4. CASE x = s
    <3>1. \A id : <<Last(instructions[s]), id>> \notin Elaborated(s)
      BY <1>1 DEF Elaborated, PlanCode, Top
    <3>2. Last(instructions[s]).code # "BUILD"
      BY <1>1 DEF Top
    <3>3. Frames(Front(instructions[s]), Codes, Elaborated(s), Uncached(s))
      BY <1>1, <1>2, <2>3, <2>4, <3>1, <3>2, PopCode
    <3>4. Frames(instructions[x], Codes, Elaborated(x), Uncached(x))'
      BY <2>1, <2>2, <2>4, <3>3 DEF Rest
    <3>. QED
      BY <1>1, <1>2, <2>4, <3>4 DEF FramesInv
  <2>5. CASE x # s
    <3>1. instructions'[x] = <<>>
      BY <1>1, <1>2, <2>2, <2>5
    <3>2. Frames(<<>>, Codes', Elaborated(x)', Uncached(x)')
      BY EmptyFrames
    <3>. QED
      BY <3>1, <3>2 DEF FramesInv
  <2>. QED
    BY <2>4, <2>5
<1>6. (\A i \in Id : CachedInv(i)') /\ OneInstance'
  BY <1>1, <1>4, BuildsStay
<1>. QED
  BY <1>4, <1>5, <1>6 DEF MachineInv

(* A call ends with nothing left to do.                                    *)
LEMMA ReturnKeeps ==
  ASSUME MachineInv, NEW s \in ResolveSession, Return(s)
  PROVE  MachineInv'
<1>1. /\ Running(s) /\ instructions[s] = <<>> /\ running' = None
      /\ UNCHANGED <<program, bindings, compiled, temporary, globalCache, instructions,
                     sessionCache, made, threw>>
  BY DEF Return, bindVars
<1>2. \A x \in ResolveSession \ threw : x # s => instructions[x] = <<>>
  BY <1>1, RunningFacts
<1>3. MachineTypeOK'
  BY <1>1 DEF MachineInv, MachineTypeOK
<1>4. ASSUME NEW x \in ResolveSession \ threw' PROVE FramesInv(x)'
  <2>1. instructions'[x] = <<>>
    BY <1>1, <1>2
  <2>2. Frames(<<>>, Codes', Elaborated(x)', Uncached(x)')
    BY EmptyFrames
  <2>. QED
    BY <2>1, <2>2 DEF FramesInv
<1>5. (\A i \in Id : CachedInv(i)') /\ OneInstance'
  BY <1>1, <1>3, BuildsStay
<1>. QED
  BY <1>3, <1>4, <1>5 DEF MachineInv

(* A record appended to the builds of an id.                               *)
LEMMA OneMore ==
  ASSUME NEW q, NEW x, Len(q) \in Nat, q = [i \in 1 .. Len(q) |-> q[i]]
  PROVE  /\ Len(Append(q, x)) = Len(q) + 1
         /\ Append(q, x) = [i \in 1 .. Len(q) + 1 |-> Append(q, x)[i]]
         /\ DOMAIN q = 1 .. Len(q) /\ DOMAIN Append(q, x) = 1 .. Len(q) + 1
         /\ \A i \in 1 .. Len(q) : Append(q, x)[i] = q[i]
         /\ Append(q, x)[Len(q) + 1] = x
<1>. DEFINE S == {q[i] : i \in 1 .. Len(q)} \cup {x}
            n == Len(q)
<1>1. q \in [1 .. n -> S]
  <2>1. \A i \in 1 .. n : q[i] \in S
    OBVIOUS
  <2>. HIDE DEF S
  <2>. QED
    BY <2>1
<1>2. x \in S
  OBVIOUS
<1>. HIDE DEF S
<1>3. q \in Seq(S)
  BY <1>1
<1>4. Append(q, x) \in Seq(S) /\ Len(Append(q, x)) = Len(q) + 1
  BY <1>2, <1>3
<1>5. DOMAIN q = 1 .. Len(q) /\ DOMAIN Append(q, x) = 1 .. Len(q) + 1
  BY <1>3, <1>4
<1>6. \A i \in 1 .. Len(q) : Append(q, x)[i] = q[i]
  BY <1>2, <1>3
<1>7. Append(q, x)[Len(q) + 1] = x
  BY <1>2, <1>3
<1>8. Append(q, x) = [i \in 1 .. Len(q) + 1 |-> Append(q, x)[i]]
  <2>1. \A a \in Seq(S) : a = [i \in 1 .. Len(a) |-> a[i]]
    OBVIOUS
  <2>. QED
    BY <1>4, <2>1, Zenon
<1>. QED
  BY <1>4, <1>5, <1>6, <1>7, <1>8

(* What a build leaves to do in a session in which no call threw: the      *)
(* class was in no cache, and no other build of it is due.                 *)
LEMMA BuildFrames ==
  ASSUME MachineInv, NEW s \in ResolveSession \ threw, Running(s), instructions[s] # <<>>,
         Top(s).code = "BUILD", UNCHANGED <<bindings, temporary>>,
         \A id \in Id : id # Top(s).target => Cached(s, id)' = Cached(s, id)
  PROVE  /\ Top(s).target \in Uncached(s)
         /\ Frames(Rest(s), Codes', Elaborated(s)', Uncached(s)')
<1>. DEFINE is == instructions[s]
            t == Top(s).target
<1>1. is \in Seq(Instr) /\ is # <<>> /\ Last(is).code = "BUILD" /\ Last(is).target = t
  BY RunningFacts DEF Top
<1>2. Frames(is, Codes, Elaborated(s), Uncached(s))
  BY DEF MachineInv, FramesInv
<1>3. bindings \in [Id -> Binding \cup {None}]
  BY DEF MachineInv, MachineTypeOK
<1>4. t \in Uncached(s)
  <2>. HIDE DEF is, t
  <2>1. Len(is) \in DOMAIN is
    BY <1>1, SequenceFacts
  <2>. QED
    BY <1>1, <1>2, <2>1 DEF Frames, Pending, IsBuild, Last
<1>5. t \in Classes /\ Cached(s, t) = None
  BY <1>4 DEF Uncached
<1>6. Classes' = Classes /\ Codes' = Codes
  BY CodesStay
<1>7. \A id \in Id \cup {Proxy} : id # t => Cached(s, id)' = Cached(s, id)
  BY DEF Cached
<1>8. Classes \subseteq Id \cup {Proxy}
  BY DEF Classes
<1>9. \A id \in Uncached(s) : id # t => id \in Uncached(s)'
  BY <1>6, <1>7, <1>8 DEF Uncached
<1>10. ASSUME NEW p, NEW id, <<p, id>> \in Elaborated(s), id # t
       PROVE  <<p, id>> \in Elaborated(s)'
  <2>. DEFINE end == Chase(s, p.target, p.allowTemporary)
  <2>1. p \in PlanCode /\ id \in Classes /\ Cached(s, p.target) = None /\ end.id = id /\ end.end \in {"bound", "temporary"}
    BY <1>10 DEF Elaborated
  <2>2. p.target \in Id \cup {Proxy}
    BY <2>1 DEF PlanCode
  <2>3. p.target # t
    <3>1. SUFFICES ASSUME p.target = t PROVE FALSE
      OBVIOUS
    <3>2. ~IsLink(s, t, p.allowTemporary)
      BY <1>5 DEF Classes, IsClass, IsLink
    <3>3. end.id = t
      BY <1>3, <2>2, <3>1, <3>2, ChaseEnds
    <3>. QED
      BY <1>10, <2>1, <3>3
  <2>4. Cached(s, p.target)' = None
    BY <1>7, <2>1, <2>2, <2>3
  <2>5. Chase(s, p.target, p.allowTemporary)' = end
    BY ChaseStays
  <2>. HIDE DEF end
  <2>6. <<p, id>> \in PlanCode \X Classes'
    BY <1>6, <2>1
  <2>. QED
    BY <2>1, <2>4, <2>5, <2>6 DEF Elaborated
<1>11. \A p, x, y : <<p, x>> \in Elaborated(s) /\ <<p, y>> \in Elaborated(s) => x = y
  BY DEF Elaborated
<1>. HIDE DEF is, t
<1>12. Frames(Front(is), Codes, Elaborated(s)', Uncached(s)')
  BY <1>1, <1>2, <1>9, <1>10, <1>11, PopBuild
<1>. QED
  BY <1>4, <1>6, <1>12 DEF is, t, Rest

(* An instance is cached for its scope (resolve-session.ts:197, :205).     *)
LEMMA BuildKeeps ==
  ASSUME MachineInv, NEW s \in ResolveSession, Build(s)
  PROVE  MachineInv'
<1>. DEFINE top == Top(s).target
            n == Len(ParamsOf(top))
            below == SubSeq(stack[s], 1, Len(stack[s]) - n)
            taken == SubSeq(stack[s], Len(stack[s]) - n + 1, Len(stack[s]))
            instance == Value("instance", top, IF top = Proxy THEN 0 ELSE Len(made[top]) + 1)
            build == [by |-> s, args |-> taken, clean |-> s \notin threw]
<1>1. /\ Running(s) /\ instructions[s] # <<>> /\ Top(s).code = "BUILD"
      /\ instructions' = [instructions EXCEPT ![s] = Rest(s)]
      /\ UNCHANGED <<program, bindings, compiled, temporary>>
      /\ \/ /\ CacheIfNecessary(s, top, instance)
            /\ made' = IF top = Proxy THEN made ELSE [made EXCEPT ![top] = Append(@, build)]
            /\ UNCHANGED <<running, threw>>
         \/ /\ threw' = threw \cup {s} /\ running' = None
            /\ UNCHANGED <<globalCache, sessionCache, made>>
  BY DEF Build, bindVars
<1>2. PICK t \in Id \cup {Proxy} : t = top
  <2>1. Top(s) \in Instr
    BY <1>1, RunningFacts
  <2>2. \A i \in Instr : i.code = "BUILD" => i.target \in Id \cup {Proxy}
    BY DEF Instr, PlanCode
  <2>. QED
    BY <1>1, <2>1, <2>2
<1>3. PICK v : v = instance
  OBVIOUS
<1>4. PICK new : new = build
  OBVIOUS
<1>5. MachineTypeOK
  BY DEF MachineInv
<1>6. v # None
  <2>1. instance \in Values
    <3>1. top = Proxy \/ Len(made[top]) + 1 \in Nat
      BY <1>2, <1>5 DEF MachineTypeOK
    <3>2. (IF top = Proxy THEN 0 ELSE Len(made[top]) + 1) \in Nat
      BY <3>1
    <3>3. top \in Id \cup {Proxy, None}
      BY <1>2
    <3>. HIDE DEF top
    <3>. QED
      BY <3>2, <3>3 DEF Value, Values
  <2>. QED
    BY <1>3, <2>1, ContainerAssumption
<1>7. new.by = s /\ (new.clean <=> s \notin threw)
  BY <1>4
<1>8. /\ running # None /\ running.by = s /\ Rest(s) \in Seq(Instr)
      /\ \A x \in ResolveSession \ threw : x # s => instructions[x] = <<>>
  BY <1>1, RunningFacts DEF Running
<1>9. \/ /\ CacheIfNecessary(s, t, v)
         /\ made' = IF t = Proxy THEN made ELSE [made EXCEPT ![t] = Append(@, new)]
         /\ UNCHANGED <<running, threw>>
      \/ /\ threw' = threw \cup {s} /\ running' = None
         /\ UNCHANGED <<globalCache, sessionCache, made>>
  BY <1>1, <1>2, <1>3, <1>4
<1>. HIDE DEF instance, build, n, below, taken
<1>10. instructions' \in [ResolveSession -> Seq(Instr)] /\ instructions'[s] = Rest(s)
       /\ \A x \in ResolveSession : x # s => instructions'[x] = instructions[x]
  BY <1>1, <1>5, <1>8 DEF MachineTypeOK
<1>11. CASE /\ threw' = threw \cup {s} /\ running' = None
            /\ UNCHANGED <<globalCache, sessionCache, made>>
  <2>1. MachineTypeOK'
    BY <1>1, <1>5, <1>10, <1>11 DEF MachineTypeOK
  <2>2. ASSUME NEW x \in ResolveSession \ threw' PROVE FramesInv(x)'
    <3>1. instructions'[x] = <<>>
      BY <1>8, <1>10, <1>11
    <3>2. Frames(<<>>, Codes', Elaborated(x)', Uncached(x)')
      BY EmptyFrames
    <3>. QED
      BY <3>1, <3>2 DEF FramesInv
  <2>3. (\A i \in Id : CachedInv(i)') /\ OneInstance'
    BY <1>1, <1>11, <2>1, BuildsStay
  <2>. QED
    BY <2>1, <2>2, <2>3 DEF MachineInv
<1>12. CASE /\ CacheIfNecessary(s, t, v)
            /\ made' = IF t = Proxy THEN made ELSE [made EXCEPT ![t] = Append(@, new)]
            /\ UNCHANGED <<running, threw>>
  <2>1. /\ sessionCache' = [x \in ResolveSession |-> [i \in Id |-> sessionCache'[x][i]]]
        /\ globalCache' = [i \in Id |-> globalCache'[i]]
        /\ \A i \in Id : globalCache'[i] = IF i = t /\ ScopeOf(t) = "SINGLETON" THEN v ELSE globalCache[i]
        /\ \A x \in ResolveSession, i \in Id :
             sessionCache'[x][i] = IF x = s /\ i = t /\ ScopeOf(t) = "SESSION" THEN v ELSE sessionCache[x][i]
    <3>1. globalCache' = IF ScopeOf(t) = "SINGLETON" THEN [globalCache EXCEPT ![t] = v] ELSE globalCache
      BY <1>12 DEF CacheIfNecessary
    <3>2. sessionCache' = IF ScopeOf(t) = "SESSION" THEN [sessionCache EXCEPT ![s][t] = v] ELSE sessionCache
      BY <1>12 DEF CacheIfNecessary
    <3>3. /\ globalCache = [i \in Id |-> globalCache[i]]
          /\ sessionCache = [x \in ResolveSession |-> [i \in Id |-> sessionCache[x][i]]]
      BY <1>5 DEF MachineTypeOK
    <3>4. globalCache' = [i \in Id |-> globalCache'[i]] /\ \A i \in Id :
            globalCache'[i] = IF i = t /\ ScopeOf(t) = "SINGLETON" THEN v ELSE globalCache[i]
      BY <3>1, <3>3
    <3>5. /\ sessionCache' = [x \in ResolveSession |-> [i \in Id |-> sessionCache'[x][i]]]
          /\ \A x \in ResolveSession, i \in Id :
               sessionCache'[x][i] = IF x = s /\ i = t /\ ScopeOf(t) = "SESSION" THEN v ELSE sessionCache[x][i]
      BY <3>2, <3>3
    <3>. QED
      BY <3>4, <3>5
  <2>2. made' = [i \in Id |-> made'[i]]
    <3>1. made = [i \in Id |-> made[i]]
      BY <1>5 DEF MachineTypeOK
    <3>. QED
      BY <1>12, <3>1
  <2>3. \A i \in Id : i # t => made'[i] = made[i]
    BY <1>5, <1>12 DEF MachineTypeOK
  <2>4. t \in Id => made'[t] = Append(made[t], new)
    BY <1>5, <1>12, ContainerAssumption DEF MachineTypeOK
  <2>5. ASSUME t \in Id
        PROVE  /\ Len(made[t]) \in Nat /\ Len(made'[t]) = Len(made[t]) + 1
               /\ made'[t] = [i \in 1 .. Len(made'[t]) |-> made'[t][i]]
               /\ DOMAIN made[t] = 1 .. Len(made[t]) /\ DOMAIN made'[t] = 1 .. Len(made[t]) + 1
               /\ \A i \in 1 .. Len(made[t]) : made'[t][i] = made[t][i]
               /\ made'[t][Len(made[t]) + 1] = new
    <3>1. Len(made[t]) \in Nat /\ made[t] = [i \in 1 .. Len(made[t]) |-> made[t][i]]
      BY <1>5, <2>5 DEF MachineTypeOK
    <3>2. /\ Len(Append(made[t], new)) = Len(made[t]) + 1
          /\ Append(made[t], new) = [i \in 1 .. Len(made[t]) + 1 |-> Append(made[t], new)[i]]
          /\ DOMAIN made[t] = 1 .. Len(made[t]) /\ DOMAIN Append(made[t], new) = 1 .. Len(made[t]) + 1
          /\ \A i \in 1 .. Len(made[t]) : Append(made[t], new)[i] = made[t][i]
          /\ Append(made[t], new)[Len(made[t]) + 1] = new
      <4>. DEFINE q == made[t]
      <4>1. Len(q) \in Nat /\ q = [i \in 1 .. Len(q) |-> q[i]]
        BY <3>1
      <4>. HIDE DEF q
      <4>2. /\ Len(Append(q, new)) = Len(q) + 1
            /\ Append(q, new) = [i \in 1 .. Len(q) + 1 |-> Append(q, new)[i]]
            /\ DOMAIN q = 1 .. Len(q) /\ DOMAIN Append(q, new) = 1 .. Len(q) + 1
            /\ \A i \in 1 .. Len(q) : Append(q, new)[i] = q[i]
            /\ Append(q, new)[Len(q) + 1] = new
        BY <4>1, OneMore
      <4>. QED
        BY <4>2 DEF q
    <3>3. made'[t] = Append(made[t], new)
      BY <2>4, <2>5
    <3>4. Len(made'[t]) = Len(made[t]) + 1
      BY <3>2, <3>3, Zenon
    <3>5. made'[t] = [i \in 1 .. Len(made'[t]) |-> made'[t][i]]
      BY <3>2, <3>3, <3>4, Zenon
    <3>6. DOMAIN made'[t] = 1 .. Len(made[t]) + 1 /\ \A i \in 1 .. Len(made[t]) : made'[t][i] = made[t][i]
      BY <3>2, <3>3, Zenon
    <3>7. made'[t][Len(made[t]) + 1] = new
      BY <3>2, <3>3, Zenon
    <3>. QED
      BY <3>1, <3>2, <3>4, <3>5, <3>6, <3>7
  <2>6. MachineTypeOK'
    <3>1. ASSUME NEW id \in Id
          PROVE  /\ Len(made'[id]) \in Nat /\ made'[id] = [i \in 1 .. Len(made'[id]) |-> made'[id][i]]
                 /\ \A i \in DOMAIN made'[id] : made'[id][i].by \in ResolveSession
      <4>1. /\ Len(made[id]) \in Nat /\ made[id] = [i \in 1 .. Len(made[id]) |-> made[id][i]]
            /\ \A i \in DOMAIN made[id] : made[id][i].by \in ResolveSession
        BY <1>5 DEF MachineTypeOK
      <4>2. CASE id # t
        <5>1. made'[id] = made[id]
          BY <2>3, <4>2
        <5>. QED
          BY <4>1, <5>1
      <4>3. CASE id = t
        <5>1. \A i \in DOMAIN made'[t] : i \in 1 .. Len(made[t]) \/ i = Len(made[t]) + 1
          BY <2>5, <4>3
        <5>2. \A i \in DOMAIN made'[t] : made'[t][i].by \in ResolveSession
          BY <1>7, <2>5, <4>1, <4>3, <5>1
        <5>3. Len(made'[t]) \in Nat
          BY <2>5, <4>3
        <5>. QED
          BY <2>5, <4>3, <5>2, <5>3
      <4>. QED
        BY <4>2, <4>3
    <3>. QED
      BY <1>1, <1>5, <1>10, <1>12, <2>1, <2>2, <3>1 DEF MachineTypeOK
  <2>7. \A id \in Id : id # t => Cached(s, id)' = Cached(s, id)
    BY <2>1 DEF Cached
  <2>8. ASSUME s \notin threw
        PROVE  t \in Uncached(s) /\ Frames(Rest(s), Codes', Elaborated(s)', Uncached(s)')
    BY <1>1, <1>2, <2>7, <2>8, BuildFrames
  <2>9. ASSUME NEW x \in ResolveSession \ threw' PROVE FramesInv(x)'
    <3>1. CASE x = s
      <4>1. Frames(instructions[x], Codes, Elaborated(x), Uncached(x))'
        BY <1>10, <1>12, <2>8, <3>1
      <4>2. ~(running' = None \/ running'.by # x)
        BY <1>8, <1>12, <3>1
      <4>. QED
        BY <4>1, <4>2 DEF FramesInv
    <3>2. CASE x # s
      <4>1. instructions'[x] = <<>>
        BY <1>8, <1>10, <1>12, <3>2
      <4>2. Frames(<<>>, Codes', Elaborated(x)', Uncached(x)')
        BY EmptyFrames
      <4>. QED
        BY <4>1, <4>2 DEF FramesInv
    <3>. QED
      BY <3>1, <3>2
  <2>10. ASSUME s \notin threw, t \in Id
         PROVE  /\ IsClass(bindings[t]) /\ globalCache[t] = None /\ sessionCache[s][t] = None
    <3>1. t # Proxy
      BY <2>10, ContainerAssumption
    <3>2. t \in Classes /\ Cached(s, t) = None
      BY <2>8, <2>10 DEF Uncached
    <3>. QED
      BY <3>1, <3>2 DEF Classes, Cached
  <2>11. ASSUME NEW id \in Id PROVE CachedInv(id)'
    <3>1. id # Proxy /\ CachedInv(id)
      BY ContainerAssumption DEF MachineInv
    <3>2. ScopeOf(id)' = ScopeOf(id) /\ bindings'[id] = bindings[id]
      BY <1>1 DEF ScopeOf
    <3>3. globalCache[id] # None => globalCache'[id] # None
      BY <1>6, <2>1
    <3>4. ASSUME NEW x \in ResolveSession, sessionCache[x][id] # None PROVE sessionCache'[x][id] # None
      BY <1>6, <2>1, <3>4
    <3>5. ASSUME NEW i \in DOMAIN made[id], made[id][i].clean
          PROVE  /\ IsClass(bindings'[id])
                 /\ ScopeOf(id)' = "SINGLETON" => globalCache'[id] # None
                 /\ ScopeOf(id)' = "SESSION" => sessionCache'[made[id][i].by][id] # None
      <4>1. made[id][i].by \in ResolveSession
        BY <1>5 DEF MachineTypeOK
      <4>. QED
        BY <3>1, <3>2, <3>3, <3>4, <3>5, <4>1 DEF CachedInv
    <3>6. CASE id # t
      <4>1. made'[id] = made[id]
        BY <2>3, <3>6
      <4>. QED
        BY <3>5, <4>1 DEF CachedInv
    <3>7. CASE id = t
      <4>1. ASSUME NEW i \in DOMAIN made'[id], made'[id][i].clean
            PROVE  /\ IsClass(bindings'[id])
                   /\ ScopeOf(id)' = "SINGLETON" => globalCache'[id] # None
                   /\ ScopeOf(id)' = "SESSION" => sessionCache'[made'[id][i].by][id] # None
        <5>1. CASE i \in DOMAIN made[id]
          <6>1. made'[id][i] = made[id][i]
            BY <2>5, <3>7, <5>1
          <6>. QED
            BY <3>5, <4>1, <5>1, <6>1
        <5>2. CASE i \notin DOMAIN made[id]
          <6>1. i = Len(made[t]) + 1
            BY <2>5, <3>7, <5>2
          <6>2. made'[id][i] = new
            BY <2>5, <3>7, <6>1
          <6>3. s \notin threw
            BY <1>7, <4>1, <6>2
          <6>4. IsClass(bindings[id])
            BY <2>10, <3>7, <6>3
          <6>5. ScopeOf(id)' = "SINGLETON" => globalCache'[id] = v
            BY <2>1, <3>2, <3>7
          <6>6. ScopeOf(id)' = "SESSION" => sessionCache'[s][id] = v
            BY <2>1, <3>2, <3>7
          <6>. QED
            BY <1>6, <1>7, <3>2, <6>2, <6>4, <6>5, <6>6
        <5>. QED
          BY <5>1, <5>2
      <4>. QED
        BY <4>1 DEF CachedInv
    <3>. QED
      BY <3>6, <3>7
  <2>12. ASSUME NEW id \in Id, IsClass(bindings[id])' PROVE OneOf(id)'
    <3>1. id # Proxy
      BY ContainerAssumption
    <3>2. ScopeOf(id)' = ScopeOf(id) /\ bindings'[id] = bindings[id]
      BY <1>1 DEF ScopeOf
    <3>3. OneOf(id)
      BY <1>5, <2>12, <3>2, OneInstanceIs DEF MachineInv
    <3>4. CASE id # t
      <4>1. made'[id] = made[id]
        BY <2>3, <3>4
      <4>2. Cleanly(id)' = Cleanly(id)
        BY <4>1 DEF Cleanly
      <4>. QED
        BY <3>2, <3>3, <4>1, <4>2 DEF OneOf
    <3>5. CASE id = t
      <4>1. \A i \in Cleanly(id) : made'[id][i] = made[id][i] /\ i \in DOMAIN made[id]
        BY <2>5, <3>5 DEF Cleanly
      <4>2. CASE s \in threw
        <5>1. ~new.clean
          BY <1>7, <4>2
        <5>2. \A i \in DOMAIN made'[id] : i \in DOMAIN made[id] \/ made'[id][i] = new
          BY <2>5, <3>5
        <5>3. \A i \in DOMAIN made[id] : i \in DOMAIN made'[id] /\ made'[id][i] = made[id][i]
          BY <2>5, <3>5
        <5>4. Cleanly(id)' = Cleanly(id)
          BY <5>1, <5>2, <5>3 DEF Cleanly
        <5>. QED
          BY <3>2, <3>3, <4>1, <5>4 DEF OneOf
      <4>3. CASE s \notin threw
        <5>. DEFINE k == Len(made[t]) + 1
        <5>1. k \in DOMAIN made'[id] /\ made'[id][k] = new /\ new.clean
          BY <1>7, <2>5, <3>5, <4>3
        <5>2. \A i \in DOMAIN made'[id] : i = k \/ (i \in DOMAIN made[id] /\ made'[id][i] = made[id][i])
          BY <2>5, <3>5
        <5>. HIDE DEF k
        <5>3. Cleanly(id)' \subseteq Cleanly(id) \cup {k}
          BY <5>2 DEF Cleanly
        <5>4. CachedInv(id)
          BY DEF MachineInv
        <5>5. ScopeOf(id) = "SINGLETON" => Cardinality(Cleanly(id)') <= 1
          <6>1. SUFFICES ASSUME ScopeOf(id) = "SINGLETON" PROVE Cardinality(Cleanly(id)') <= 1
            OBVIOUS
          <6>2. Cleanly(id) = {}
            BY <2>10, <3>5, <4>3, <5>4, <6>1 DEF CachedInv, Cleanly
          <6>3. Cleanly(id)' = {} \/ Cleanly(id)' = {k}
            BY <5>3, <6>2
          <6>4. Cardinality({}) = 0 /\ Cardinality({k}) = 1
            BY FS_EmptySet, FS_Singleton
          <6>. QED
            BY <6>3, <6>4
        <5>6. ASSUME ScopeOf(id) = "SESSION", NEW i \in Cleanly(id)', NEW j \in Cleanly(id)',
                     made'[id][i].by = made'[id][j].by
              PROVE  i = j
          <6>1. \A l \in Cleanly(id) : made[id][l].by # s
            BY <2>10, <3>5, <4>3, <5>4, <5>6 DEF CachedInv, Cleanly
          <6>2. \A l \in Cleanly(id) : made'[id][l].by # s
            BY <4>1, <6>1
          <6>3. made'[id][k].by = s
            BY <1>7, <5>1
          <6>4. CASE i = k \/ j = k
            BY <5>3, <5>6, <6>2, <6>3, <6>4
          <6>5. CASE i # k /\ j # k
            <7>1. i \in Cleanly(id) /\ j \in Cleanly(id)
              BY <5>3, <6>5
            <7>. QED
              BY <3>3, <4>1, <5>6, <7>1 DEF OneOf
          <6>. QED
            BY <6>4, <6>5
        <5>. QED
          BY <3>2, <5>5, <5>6 DEF OneOf
      <4>. QED
        BY <4>2, <4>3
    <3>. QED
      BY <3>4, <3>5
  <2>13. OneInstance'
    BY <2>6, <2>12, OneInstanceIsNext
  <2>. QED
    BY <2>6, <2>9, <2>11, <2>13 DEF MachineInv
<1>. QED
  BY <1>9, <1>11, <1>12

(* The invariant of the stack machine: a stack of instructions is made of  *)
(* frames, and what was built in a session in which no call threw is in    *)
(* the cache of its scope (resolve-session.ts:98, :197, :205).             *)
THEOREM MachineInvariance == ContainerSpec => []MachineInv
<1>1. ContainerInit => MachineInv
  BY MachineInitEstablishes
<1>2. ASSUME MachineInv, [ContainerNext]_containerVars PROVE MachineInv'
  <2>1. ASSUME NEW id \in Id, Bind(id) PROVE MachineInv'
    BY <1>2, <2>1, BindKeeps
  <2>2. CASE Validate
    <3>1. UNCHANGED <<program, bindings, compiled, globalCache, instructions,
                      sessionCache, temporary, running, threw, made>>
      BY <2>2 DEF Validate, ghostVars
    <3>. QED
      BY <1>2, <3>1, ValidateKeeps
  <2>3. ASSUME NEW s \in ResolveSession, NEW id \in Id \cup {Proxy}, Resolve(s, id) PROVE MachineInv'
    BY <1>2, <2>3, ResolveKeeps
  <2>4. ASSUME NEW s \in ResolveSession, NEW id \in Id, AddTemporary(s, id) PROVE MachineInv'
    BY <1>2, <2>4, AddTemporaryKeeps
  <2>5. ASSUME NEW s \in ResolveSession, Step(s) PROVE MachineInv'
    BY <1>2, <2>5, PlanKeeps, TransformKeeps, BuildKeeps, ReturnKeeps DEF Step
  <2>6. CASE UNCHANGED containerVars
    <3>1. UNCHANGED <<program, bindings, compiled, globalCache, instructions,
                      sessionCache, temporary, running, threw, made>>
      BY <2>6 DEF containerVars
    <3>. QED
      BY <1>2, <3>1, ValidateKeeps
  <2>. QED
    BY <1>2, <2>1, <2>2, <2>3, <2>4, <2>5, <2>6 DEF ContainerNext
<1>. QED
  BY <1>1, <1>2, PTL DEF ContainerSpec

(* A singleton is built once, whatever the sessions that need it, and an   *)
(* instance of session scope once in a session, but for sessions in which  *)
(* a call has thrown (resolve-session.ts:205 #cacheIfNecessary()).         *)
THEOREM OneInstanceHolds == ContainerSpec => []OneInstance
<1>1. MachineInv => OneInstance
  BY DEF MachineInv
<1>. QED
  BY <1>1, MachineInvariance, PTL

-----------------------------------------------------------------------------
(* The inductive invariant behind RightArguments: what the instructions    *)
(* make of the values below them.                                          *)

(* What is asked of a value on the stack.                                  *)
Demand == [id : Id \cup {Proxy}, optional : BOOLEAN, transform : BOOLEAN]

(* An instruction makes a stack for the demands after of one for those     *)
(* before.                                                                 *)
Effect(i, before, after) ==
  CASE i.code = "PLAN" ->
         after = Append(before, [id |-> i.target, optional |-> i.optional, transform |-> FALSE])
    [] i.code = "TRANSFORM" ->
         \E below \in Seq(Demand), d \in Demand :
           before = Append(below, d) /\ after = Append(below, [d EXCEPT !.transform = TRUE])
    [] i.code = "BUILD" ->
         \E below \in Seq(Demand), d \in Demand :
           /\ before = below \o ParamsOf(i.target) /\ after = Append(below, d)
           /\ i.target \in Aliases(d.id) /\ ~d.transform

(* Instructions are run from the last to the first.                        *)
Traced(is, before, after) ==
  \E demands \in [0 .. Len(is) -> Seq(Demand)] :
    /\ demands[Len(is)] = before /\ demands[0] = after
    /\ \A i \in 1 .. Len(is) : Effect(is[i], demands[i], demands[i - 1])

Meets(values, demands) ==
  /\ values \in Seq(Values) /\ demands \in Seq(Demand) /\ Len(values) = Len(demands)
  /\ \A k \in 1 .. Len(values) : Fits(values[k], demands[k])

(* What is left of the instructions makes an answer to the call that runs  *)
(* of the values on the stack, and between calls nothing is left.          *)
TraceInv(s) ==
  IF running # None /\ running.by = s
  THEN \E demands \in Seq(Demand) :
         /\ Meets(stack[s], demands)
         /\ Traced(instructions[s], demands,
                   <<[id |-> running.target, optional |-> FALSE, transform |-> FALSE]>>)
  ELSE stack[s] = <<>> /\ instructions[s] = <<>>

Keeps(v, id) == v # None => v \in Values /\ v.of = id /\ ~v.transformed

CachesKeep ==
  \A id \in Id : Keeps(globalCache[id], id) /\ \A s \in ResolveSession : Keeps(sessionCache[s][id], id)

BuiltRight(id) ==
  \A i \in DOMAIN made[id] : made[id][i].clean =>
    \A k \in DOMAIN ParamsOf(id) : Fits(made[id][i].args[k], ParamsOf(id)[k])

ArgumentsInv ==
  /\ stack = [s \in ResolveSession |-> stack[s]] /\ CachesKeep
  /\ \A s \in ResolveSession \ threw : TraceInv(s)
  /\ \A id \in Id : BuiltRight(id)
  /\ resolved # None /\ resolved.clean =>
       resolved.target \in Id \cup {Proxy} /\ resolved.value.of \in Aliases(resolved.target)

-----------------------------------------------------------------------------
(* Aliases.                                                                *)

(* A set of ids is widened by the aliases among them.                      *)
LEMMA WidenedIs ==
  ASSUME bindings \in [Id -> Binding \cup {None}]
  PROVE  /\ Widened \in [SUBSET (Id \cup {Proxy}) -> SUBSET (Id \cup {Proxy})]
         /\ \A ids \in SUBSET (Id \cup {Proxy}) :
              /\ ids \subseteq Widened[ids]
              /\ \A i : i \in Widened[ids] <=>
                   \/ i \in ids
                   \/ \E j \in ids \cap Id : Bound(j) /\ bindings[j].type = "ALIAS" /\ i = bindings[j].to
<1>. DEFINE D == Id \cup {Proxy}
            Ends(ids) == {bindings[i].to : i \in {j \in ids \ {Proxy} : Bound(j) /\ bindings[j].type = "ALIAS"}}
<1>1. Widened = [ids \in SUBSET D |-> ids \cup Ends(ids)]
  BY DEF Widened
<1>2. Proxy \notin Id
  BY ContainerAssumption
<1>3. ASSUME NEW ids \in SUBSET D
      PROVE  /\ \A i : i \in Ends(ids) <=>
                  \E j \in ids \cap Id : Bound(j) /\ bindings[j].type = "ALIAS" /\ i = bindings[j].to
             /\ Ends(ids) \subseteq D
  <2>1. \A j : j \in ids \ {Proxy} <=> j \in ids \cap Id
    BY <1>2
  <2>2. \A j \in Id : Bound(j) /\ bindings[j].type = "ALIAS" => bindings[j].to \in Id
    BY BindingParts
  <2>. QED
    BY <2>1, <2>2
<1>. HIDE DEF Ends
<1>. QED
  BY <1>1, <1>3

(* What a set of aliases is widened to is related to what a longer set, or *)
(* the link of a member, comes to.                                         *)
LEMMA AliasesAre ==
  ASSUME bindings \in [Id -> Binding \cup {None}], NEW id \in Id \cup {Proxy}
  PROVE  Aliases(id) \in SUBSET (Id \cup {Proxy}) /\ id \in Aliases(id)
<1>. DEFINE D == Id \cup {Proxy}
            N == Cardinality(Id)
            same == [i \in D |-> i]
            R == {x \in D \X SUBSET D : x[1] \in x[2]}
<1>1. N \in Nat
  BY ContainerAssumption, FS_CardinalityType
<1>2. Widened \in [SUBSET D -> SUBSET D] /\ \A ids \in SUBSET D : ids \subseteq Widened[ids]
  BY WidenedIs
<1>3. {id} \in SUBSET D /\ id \in D /\ same \in [D -> D]
  OBVIOUS
<1>4. Aliases(id) = Iterate(Widened, {id})[N]
  BY DEF Aliases
<1>5. <<id, {id}>> \in R /\ Related(same, D, Widened, SUBSET D, R)
  <2>1. ASSUME NEW a \in D, NEW ids \in SUBSET D, <<a, ids>> \in R PROVE <<same[a], Widened[ids]>> \in R
    BY <1>2, <2>1
  <2>. QED
    BY <1>3, <2>1 DEF Related
<1>. HIDE DEF D, N, same, R
<1>6. <<Iterate(same, id)[N], Iterate(Widened, {id})[N]>> \in R
  BY <1>1, <1>2, <1>3, <1>5, IteratesRelate
<1>7. Iterate(Widened, {id})[N] \in SUBSET D
  <2>1. Iterates(Iterate(Widened, {id}), SUBSET D, Widened, {id})
    BY <1>2, <1>3, IterateIs
  <2>. QED
    BY <1>1, <2>1 DEF Iterates
<1>8. Iterate(same, id)[N] = id
  <2>. DEFINE Q == {<<id, id>>}
  <2>1. <<id, id>> \in Q /\ Related(same, D, same, D, Q)
    BY <1>3 DEF Related, same
  <2>. HIDE DEF Q
  <2>2. <<Iterate(same, id)[N], Iterate(same, id)[N]>> \in Q
    BY <1>1, <1>3, <2>1, IteratesRelate
  <2>. QED
    BY <2>2 DEF Q
<1>. QED
  BY <1>4, <1>6, <1>7, <1>8 DEF R, D

(* A chain of aliases ends with one.                                       *)
LEMMA ChaseIsAlias ==
  ASSUME bindings \in [Id -> Binding \cup {None}],
         NEW s, NEW allow, NEW id \in Id \cup {Proxy}
  PROVE  Chase(s, id, allow).id \in Aliases(id)
<1>. DEFINE D == Id \cup {Proxy}
            N == Cardinality(Id)
            link == Link(s, allow)
            R == {x \in D \X SUBSET D : x[1] \in x[2]}
<1>1. N \in Nat
  BY ContainerAssumption, FS_CardinalityType
<1>2. /\ Widened \in [SUBSET D -> SUBSET D] /\ link \in [D -> D]
      /\ {id} \in SUBSET D /\ id \in D
  BY WidenedIs, LinkIs
<1>3. Chase(s, id, allow).id = Iterate(link, id)[N]
  BY DEF Chase
<1>4. Aliases(id) = Iterate(Widened, {id})[N]
  BY DEF Aliases
<1>5. <<id, {id}>> \in R /\ Related(link, D, Widened, SUBSET D, R)
  <2>1. ASSUME NEW a \in D, NEW ids \in SUBSET D, a \in ids PROVE link[a] \in Widened[ids]
    <3>1. CASE IsLink(s, a, allow)
      <4>1. a \in ids \cap Id /\ Bound(a) /\ bindings[a].type = "ALIAS" /\ link[a] = bindings[a].to
        BY <3>1, <2>1 DEF IsLink, Link
      <4>. HIDE DEF link
      <4>. QED
        BY <4>1, WidenedIs
    <3>2. CASE ~IsLink(s, a, allow)
      <4>1. link[a] = a
        BY <3>2 DEF Link
      <4>. HIDE DEF link
      <4>. QED
        BY <2>1, <4>1, WidenedIs
    <3>. QED
      BY <3>1, <3>2
  <2>. HIDE DEF link
  <2>. QED
    BY <1>2, <2>1 DEF Related
<1>. HIDE DEF D, N, link, R
<1>6. <<Iterate(link, id)[N], Iterate(Widened, {id})[N]>> \in R
  BY <1>1, <1>2, <1>5, IteratesRelate
<1>. QED
  BY <1>3, <1>4, <1>6 DEF R

(* Aliases depend on the bindings, and are kept by new ones.               *)
LEMMA AliasesStay ==
  ASSUME UNCHANGED bindings, NEW id
  PROVE  Aliases(id)' = Aliases(id)
<1>1. Widened' = Widened
  BY DEF Widened, Bound
<1>2. Iterate(Widened, {id})' = Iterate(Widened, {id})
  BY <1>1
<1>. QED
  BY <1>2 DEF Aliases

(* The same of the next state.                                             *)
LEMMA WidenedIsNext ==
  bindings' \in [Id -> Binding \cup {None}] =>
    /\ Widened' \in [SUBSET (Id \cup {Proxy}) -> SUBSET (Id \cup {Proxy})]
    /\ \A ids \in SUBSET (Id \cup {Proxy}) :
         /\ ids \subseteq Widened'[ids]
         /\ \A i : i \in Widened'[ids] <=>
              \/ i \in ids
              \/ \E j \in ids \cap Id : Bound(j)' /\ bindings'[j].type = "ALIAS" /\ i = bindings'[j].to
<1>1. bindings \in [Id -> Binding \cup {None}] =>
        /\ Widened \in [SUBSET (Id \cup {Proxy}) -> SUBSET (Id \cup {Proxy})]
        /\ \A ids \in SUBSET (Id \cup {Proxy}) :
             /\ ids \subseteq Widened[ids]
             /\ \A i : i \in Widened[ids] <=>
                  \/ i \in ids
                  \/ \E j \in ids \cap Id : Bound(j) /\ bindings[j].type = "ALIAS" /\ i = bindings[j].to
  BY WidenedIs
<1>2. (bindings \in [Id -> Binding \cup {None}] =>
        /\ Widened \in [SUBSET (Id \cup {Proxy}) -> SUBSET (Id \cup {Proxy})]
        /\ \A ids \in SUBSET (Id \cup {Proxy}) :
             /\ ids \subseteq Widened[ids]
             /\ \A i : i \in Widened[ids] <=>
                  \/ i \in ids
                  \/ \E j \in ids \cap Id : Bound(j) /\ bindings[j].type = "ALIAS" /\ i = bindings[j].to)'
  BY <1>1, PTL
<1>. QED
  BY <1>2

(* A new binding takes no alias away.                                      *)
LEMMA AliasesGrow ==
  ASSUME bindings \in [Id -> Binding \cup {None}], bindings' \in [Id -> Binding \cup {None}],
         \A i \in Id : Bound(i) => bindings'[i] = bindings[i],
         NEW id \in Id \cup {Proxy}
  PROVE  Aliases(id) \subseteq Aliases(id)'
<1>. DEFINE D == Id \cup {Proxy}
            N == Cardinality(Id)
            R == {x \in (SUBSET D) \X SUBSET D : x[1] \subseteq x[2]}
<1>1. N \in Nat
  BY ContainerAssumption, FS_CardinalityType
<1>2. Widened \in [SUBSET D -> SUBSET D] /\ Widened' \in [SUBSET D -> SUBSET D] /\ {id} \in SUBSET D
  BY WidenedIs, WidenedIsNext
<1>3. Aliases(id) = Iterate(Widened, {id})[N] /\ Aliases(id)' = Iterate(Widened', {id})[N]
  BY DEF Aliases
<1>4. PICK f \in [SUBSET D -> SUBSET D] : f = Widened
  BY <1>2
<1>5. PICK g \in [SUBSET D -> SUBSET D] : g = Widened'
  BY <1>2
<1>6. <<{id}, {id}>> \in R /\ Related(f, SUBSET D, g, SUBSET D, R)
  <2>1. ASSUME NEW a \in SUBSET D, NEW b \in SUBSET D, a \subseteq b PROVE f[a] \subseteq g[b]
    <3>1. ASSUME NEW i \in f[a] PROVE i \in g[b]
      <4>1. \/ i \in a
            \/ \E j \in a \cap Id : Bound(j) /\ bindings[j].type = "ALIAS" /\ i = bindings[j].to
        BY <1>4, <3>1, WidenedIs
      <4>2. \A j \in Id : Bound(j) => Bound(j)'
        BY DEF Bound
      <4>3. \/ i \in b
            \/ \E j \in b \cap Id : Bound(j)' /\ bindings'[j].type = "ALIAS" /\ i = bindings'[j].to
        BY <2>1, <4>1, <4>2
      <4>. QED
        BY <1>5, <4>3, WidenedIsNext
    <3>. QED
      BY <3>1
  <2>. QED
    BY <1>2, <2>1 DEF Related
<1>. HIDE DEF D, N, R
<1>7. <<Iterate(f, {id})[N], Iterate(g, {id})[N]>> \in R
  BY <1>1, <1>2, <1>6, IteratesRelate
<1>. QED
  BY <1>3, <1>4, <1>5, <1>7 DEF R

-----------------------------------------------------------------------------
(* What instructions make of the stack.                                    *)

(* Nothing changes nothing.                                                *)
LEMMA TraceNil ==
  ASSUME NEW A \in Seq(Demand), NEW C
  PROVE  Traced(<<>>, A, C) <=> A = C
<1>1. Len(<<>>) = 0 /\ 0 .. 0 = {0} /\ 1 .. 0 = {}
  OBVIOUS
<1>2. ASSUME Traced(<<>>, A, C) PROVE A = C
  BY <1>1, <1>2 DEF Traced
<1>3. ASSUME A = C PROVE Traced(<<>>, A, C)
  <2>. DEFINE u == [i \in 0 .. 0 |-> A]
  <2>1. u \in [0 .. 0 -> Seq(Demand)] /\ u[0] = A
    OBVIOUS
  <2>. HIDE DEF u
  <2>. QED
    BY <1>1, <1>3, <2>1 DEF Traced
<1>. QED
  BY <1>2, <1>3

(* The demands before and after are demands.                               *)
LEMMA TraceEnds ==
  ASSUME NEW S, NEW is \in Seq(S), NEW A, NEW C, Traced(is, A, C)
  PROVE  A \in Seq(Demand) /\ C \in Seq(Demand)
<1>1. Len(is) \in Nat /\ 0 \in 0 .. Len(is) /\ Len(is) \in 0 .. Len(is)
  OBVIOUS
<1>. QED
  BY <1>1 DEF Traced

(* An instruction has the effect that it has.                              *)
LEMMA TraceOne ==
  ASSUME NEW i, NEW A \in Seq(Demand), NEW C \in Seq(Demand), Effect(i, A, C)
  PROVE  Traced(<<i>>, A, C)
<1>. DEFINE u == [k \in 0 .. 1 |-> IF k = 0 THEN C ELSE A]
<1>1. u \in [0 .. 1 -> Seq(Demand)] /\ u[0] = C /\ u[1] = A
  OBVIOUS
<1>2. Len(<<i>>) = 1 /\ <<i>>[1] = i /\ 1 .. 1 = {1} /\ 1 - 1 = 0
  OBVIOUS
<1>. HIDE DEF u
<1>3. \A k \in 1 .. 1 : Effect(<<i>>[k], u[k], u[k - 1])
  BY <1>1, <1>2
<1>. QED
  BY <1>1, <1>2, <1>3 DEF Traced

(* What is above is run first.                                             *)
LEMMA TraceJoin ==
  ASSUME NEW S, NEW is \in Seq(S), NEW js \in Seq(S), NEW A, NEW B, NEW C,
         Traced(is, B, C), Traced(js, A, B)
  PROVE  Traced(is \o js, A, C)
<1>. DEFINE n == Len(is)
            m == Len(js)
            ks == is \o js
<1>1. /\ n \in Nat /\ m \in Nat /\ Len(ks) = n + m
      /\ \A i \in 1 .. n : ks[i] = is[i]
      /\ \A i \in 1 .. m : ks[n + i] = js[i]
  OBVIOUS
<1>2. PICK u \in [0 .. n -> Seq(Demand)] : u[n] = B /\ u[0] = C /\ \A i \in 1 .. n : Effect(is[i], u[i], u[i - 1])
  BY DEF Traced
<1>3. PICK v \in [0 .. m -> Seq(Demand)] : v[m] = A /\ v[0] = B /\ \A i \in 1 .. m : Effect(js[i], v[i], v[i - 1])
  BY DEF Traced
<1>. HIDE DEF ks, n, m
<1>. DEFINE w == [i \in 0 .. n + m |-> IF i <= n THEN u[i] ELSE v[i - n]]
<1>4. w \in [0 .. n + m -> Seq(Demand)]
  <2>1. ASSUME NEW i \in 0 .. n + m PROVE w[i] \in Seq(Demand)
    <3>1. CASE i <= n
      <4>1. i \in 0 .. n
        BY <1>1, <3>1
      <4>. QED
        BY <1>2, <3>1, <4>1
    <3>2. CASE ~(i <= n)
      <4>1. i - n \in 0 .. m
        BY <1>1, <3>2
      <4>. QED
        BY <1>3, <3>2, <4>1
    <3>. QED
      BY <3>1, <3>2
  <2>2. w = [i \in 0 .. n + m |-> w[i]]
    OBVIOUS
  <2>. HIDE DEF w
  <2>. QED
    BY <2>1, <2>2
<1>5. w[0] = C
  BY <1>1, <1>2
<1>6. w[n + m] = A
  <2>1. CASE m = 0
    BY <1>1, <1>2, <1>3, <2>1
  <2>2. CASE m # 0
    BY <1>1, <1>3, <2>2
  <2>. QED
    BY <2>1, <2>2
<1>7. ASSUME NEW i \in 1 .. n + m PROVE Effect(ks[i], w[i], w[i - 1])
  <2>1. CASE i <= n
    <3>1. i \in 1 .. n /\ w[i] = u[i] /\ w[i - 1] = u[i - 1]
      BY <1>1, <2>1
    <3>. QED
      BY <1>1, <1>2, <3>1
  <2>2. CASE ~(i <= n)
    <3>1. i - n \in 1 .. m /\ n + (i - n) = i /\ w[i] = v[i - n]
      BY <1>1, <2>2
    <3>2. w[i - 1] = v[(i - n) - 1]
      <4>1. CASE i = n + 1
        BY <1>1, <1>2, <1>3, <4>1
      <4>2. CASE i # n + 1
        BY <1>1, <2>2, <4>2
      <4>. QED
        BY <4>1, <4>2
    <3>3. ks[i] = js[i - n]
      BY <1>1, <3>1
    <3>. QED
      BY <1>3, <3>1, <3>2, <3>3
  <2>. QED
    BY <2>1, <2>2
<1>. HIDE DEF w
<1>8. Traced(ks, A, C)
  BY <1>1, <1>4, <1>5, <1>6, <1>7 DEF Traced
<1>. QED
  BY <1>8 DEF ks

(* The top is run, and then the rest.                                      *)
LEMMA TracePop ==
  ASSUME NEW S, NEW is \in Seq(S), is # <<>>, NEW A, NEW C, Traced(is, A, C)
  PROVE  \E B \in Seq(Demand) : Effect(Last(is), A, B) /\ Traced(Front(is), B, C)
<1>. DEFINE js == Front(is)
            n == Len(js)
<1>1. n \in Nat /\ Len(is) = n + 1 /\ \A i \in 1 .. n : js[i] = is[i]
  <2>1. DOMAIN js = 1 .. n
    BY FrontFacts
  <2>. QED
    BY <2>1, FrontFacts
<1>2. Last(is) = is[n + 1]
  BY <1>1 DEF Last
<1>. HIDE DEF js, n
<1>3. PICK u \in [0 .. n + 1 -> Seq(Demand)] :
        u[n + 1] = A /\ u[0] = C /\ \A i \in 1 .. n + 1 : Effect(is[i], u[i], u[i - 1])
  BY <1>1 DEF Traced
<1>4. n + 1 \in 1 .. n + 1 /\ (n + 1) - 1 = n /\ n \in 0 .. n + 1
  BY <1>1
<1>5. Effect(is[n + 1], A, u[n]) /\ u[n] \in Seq(Demand)
  BY <1>3, <1>4
<1>. DEFINE v == [i \in 0 .. n |-> u[i]]
<1>6. v \in [0 .. n -> Seq(Demand)] /\ v[n] = u[n] /\ v[0] = C
  BY <1>1, <1>3
<1>7. ASSUME NEW i \in 1 .. n PROVE Effect(js[i], v[i], v[i - 1])
  <2>1. i \in 1 .. n + 1 /\ v[i] = u[i] /\ v[i - 1] = u[i - 1] /\ js[i] = is[i]
    BY <1>1
  <2>. QED
    BY <1>3, <2>1
<1>. HIDE DEF v
<1>8. Traced(js, u[n], C)
  BY <1>6, <1>7 DEF Traced, n
<1>. QED
  BY <1>2, <1>5, <1>8 DEF js

(* The instructions of one parameter make a value of what it asks for.     *)
LEMMA ParamTraced ==
  ASSUME NEW p \in Param, NEW allow, NEW A \in Seq(Demand)
  PROVE  Traced((IF p.transform THEN <<[code |-> "TRANSFORM"]>> ELSE <<>>)
                   \o <<PlanOf(p.id, p.optional, allow)>>, A, Append(A, p))
<1>. DEFINE plan == PlanOf(p.id, p.optional, allow)
            transform == [code |-> "TRANSFORM"]
            q == [id |-> p.id, optional |-> p.optional, transform |-> FALSE]
            B == Append(A, q)
            C == Append(A, p)
<1>1. p \in Demand /\ q \in Demand /\ p = [id |-> p.id, optional |-> p.optional, transform |-> p.transform]
      /\ p.transform \in BOOLEAN
  BY DEF Param, Demand
<1>2. Effect(plan, A, B)
  BY DEF Effect, PlanOf
<1>3. p.transform => p = [q EXCEPT !.transform = TRUE]
  BY <1>1
<1>4. ~p.transform => p = q
  BY <1>1
<1>. HIDE DEF q, plan
<1>5. B \in Seq(Demand) /\ C \in Seq(Demand)
  BY <1>1
<1>6. Traced(<<plan>>, A, B)
  BY <1>2, <1>5, TraceOne
<1>7. CASE p.transform
  <2>1. Effect(transform, B, C)
    BY <1>1, <1>3, <1>7 DEF Effect
  <2>. HIDE DEF transform, B, C
  <2>2. Traced(<<transform>>, B, C)
    BY <1>5, <2>1, TraceOne
  <2>3. Traced(<<transform>> \o <<plan>>, A, C)
    <3>. DEFINE T == {plan, transform}
    <3>1. <<plan>> \in Seq(T) /\ <<transform>> \in Seq(T)
      OBVIOUS
    <3>. HIDE DEF T
    <3>. QED
      BY <1>6, <2>2, <3>1, TraceJoin
  <2>4. (IF p.transform THEN <<transform>> ELSE <<>>) \o <<plan>> = <<transform>> \o <<plan>>
    BY <1>7
  <2>. QED
    BY <2>3, <2>4 DEF plan, transform, C
<1>8. CASE ~p.transform
  <2>1. (IF p.transform THEN <<transform>> ELSE <<>>) \o <<plan>> = <<plan>>
    BY <1>8
  <2>2. B = C
    BY <1>4, <1>8
  <2>. HIDE DEF B, C
  <2>. QED
    BY <1>6, <2>1, <2>2 DEF plan, C
<1>. QED
  BY <1>7, <1>8

(* The parameters of a class.                                              *)
LEMMA ParamsAre ==
  ASSUME bindings \in [Id -> Binding \cup {None}], NEW id \in Classes
  PROVE  ParamsOf(id) \in Seq(Param)
<1>1. CASE id = Proxy
  BY <1>1, ContainerAssumption DEF ParamsOf
<1>2. CASE id # Proxy
  <2>1. id \in Id /\ Bound(id) /\ bindings[id].type = "INSTANCE"
    BY <1>2 DEF Classes, IsClass, Bound
  <2>. QED
    BY <1>2, <2>1, BindingParts DEF ParamsOf
<1>. QED
  BY <1>1, <1>2

(* The code of a class makes an instance of it, below which nothing        *)
(* changes.                                                                *)
LEMMA CodeTraced ==
  ASSUME bindings \in [Id -> Binding \cup {None}], NEW t \in Classes, NEW allow \in BOOLEAN,
         NEW A \in Seq(Demand), NEW d \in Demand, t \in Aliases(d.id), ~d.transform
  PROVE  Traced(Compile(t, allow), A, Append(A, d))
<1>. DEFINE params == ParamsOf(t)
            n == Len(params)
            code(p) == (IF p.transform THEN <<[code |-> "TRANSFORM"]>> ELSE <<>>)
                         \o <<PlanOf(p.id, p.optional, allow)>>
            pieces == [k \in DOMAIN params |-> code(Reverse(params)[k])]
            build == [code |-> "BUILD", target |-> t]
            Body == PlanCode \cup [code : {"TRANSFORM"}]
            Done(j) == A \o SubSeq(params, 1, j)
<1>1. params \in Seq(Param)
  BY ParamsAre
<1>2. Compile(t, allow) = <<build>> \o FlattenSeq(pieces)
  BY DEF Compile
<1>3. Param \subseteq Demand
  BY DEF Param, Demand
<1>4. Effect(build, A \o params, Append(A, d))
  BY DEF Effect
<1>5. ASSUME NEW p \in Param PROVE code(p) \in Seq(Body)
  <2>1. PlanOf(p.id, p.optional, allow) \in Body
    BY DEF Param, PlanOf, PlanCode
  <2>2. [code |-> "TRANSFORM"] \in Body
    OBVIOUS
  <2>. HIDE DEF Body
  <2>. QED
    BY <2>1, <2>2
<1>6. \A p \in Param, B \in Seq(Demand) : Traced(code(p), B, Append(B, p))
  BY ParamTraced
<1>. HIDE DEF params, code, Body
<1>7. n \in Nat /\ DOMAIN params = 1 .. n /\ \A k \in 1 .. n : params[k] \in Param /\ params[k] \in Demand
  BY <1>1, <1>3
<1>8. ASSUME NEW k \in 1 .. n
      PROVE  /\ (n - k) + 1 \in 1 .. n /\ Reverse(params)[k] = params[(n - k) + 1]
             /\ pieces[k] = code(params[(n - k) + 1]) /\ pieces[k] \in Seq(Body)
  <2>1. (n - k) + 1 \in 1 .. n
    BY <1>7
  <2>2. Reverse(params)[k] = params[(n - k) + 1]
    BY <1>7 DEF Reverse
  <2>3. pieces[k] = code(params[(n - k) + 1])
    BY <1>7, <2>2
  <2>. QED
    BY <1>5, <1>7, <2>1, <2>2, <2>3
<1>9. pieces \in Seq(Seq(Body)) /\ Len(pieces) = n
  <2>1. DOMAIN pieces = 1 .. n /\ pieces = [k \in 1 .. n |-> pieces[k]]
    BY <1>7
  <2>. HIDE DEF pieces
  <2>. QED
    BY <1>7, <1>8, <2>1
<1>. HIDE DEF pieces
<1>10. PICK F : /\ F[0] = <<>> /\ F[n] = FlattenSeq(pieces)
                /\ \A k \in 1 .. n : F[k] = F[k - 1] \o pieces[k]
                /\ \A k \in 0 .. n : F[k] \in Seq(Body)
  BY <1>9, Joined
<1>11. ASSUME NEW j \in 0 .. n
       PROVE  Done(j) \in Seq(Demand) /\ (j < n => Done(j + 1) = Append(Done(j), params[j + 1]))
  <2>1. params \in Seq(Demand)
    BY <1>1, <1>3
  <2>2. SubSeq(params, 1, j) \in Seq(Demand)
    BY <1>7, <2>1
  <2>3. ASSUME j < n PROVE SubSeq(params, 1, j + 1) = Append(SubSeq(params, 1, j), params[j + 1])
    BY <1>7, <2>1, <2>3
  <2>4. \A q \in Seq(Demand), p \in Demand : A \o Append(q, p) = Append(A \o q, p)
    OBVIOUS
  <2>5. j < n => params[j + 1] \in Demand
    BY <1>7
  <2>6. A \o SubSeq(params, 1, j) \in Seq(Demand)
    BY <2>2
  <2>7. ASSUME j < n PROVE A \o SubSeq(params, 1, j + 1) = Append(A \o SubSeq(params, 1, j), params[j + 1])
    BY <2>2, <2>3, <2>4, <2>5, <2>7
  <2>. QED
    BY <2>6, <2>7
<1>12. Done(0) = A /\ Done(n) = A \o params
  <2>1. SubSeq(params, 1, 0) = <<>> /\ SubSeq(params, 1, n) = params
    BY <1>1, <1>7
  <2>2. A \o <<>> = A
    OBVIOUS
  <2>. QED
    BY <2>1, <2>2
<1>. HIDE DEF Done, n
<1>. DEFINE Reached(k) == Traced(F[k], Done(n - k), Done(n))
            Missed == {k \in 0 .. n : ~Reached(k)}
<1>13. Missed = {}
  <2>. SUFFICES ASSUME Missed # {} PROVE FALSE
    OBVIOUS
  <2>1. PICK k \in Missed : \A j \in Missed : k <= j
    <3>1. Missed \in SUBSET Nat
      BY <1>7
    <3>. HIDE DEF Missed
    <3>. QED
      BY <3>1, Smallest
  <2>2. k \in 0 .. n /\ ~Reached(k)
    BY <2>1
  <2>3. k # 0
    <3>1. n - 0 = n /\ n \in 0 .. n
      BY <1>7
    <3>2. Done(n) \in Seq(Demand)
      BY <1>11, <3>1
    <3>3. Traced(<<>>, Done(n), Done(n))
      BY <3>2, TraceNil
    <3>4. Reached(0)
      BY <1>10, <3>1, <3>3
    <3>. HIDE DEF Reached
    <3>. QED
      BY <2>2, <3>4
  <2>4. k \in 1 .. n /\ k - 1 \in 0 .. n /\ ~(k <= k - 1)
    BY <1>7, <2>2, <2>3
  <2>5. Reached(k - 1)
    <3>1. k - 1 \notin Missed
      <4>. HIDE DEF Missed
      <4>. QED
        BY <2>1, <2>4
    <3>. HIDE DEF Reached
    <3>. QED
      BY <2>4, <3>1
  <2>6. /\ n - k \in 0 .. n /\ n - k < n /\ n - (k - 1) = (n - k) + 1
    BY <1>7, <2>4
  <2>7. Traced(F[k - 1], Done((n - k) + 1), Done(n))
    BY <2>5, <2>6
  <2>8. Done((n - k) + 1) = Append(Done(n - k), params[(n - k) + 1]) /\ Done(n - k) \in Seq(Demand)
    BY <1>11, <2>6
  <2>9. Traced(pieces[k], Done(n - k), Done((n - k) + 1))
    BY <1>6, <1>7, <1>8, <2>4, <2>8
  <2>10. F[k - 1] \in Seq(Body) /\ pieces[k] \in Seq(Body) /\ F[k] = F[k - 1] \o pieces[k]
    BY <1>8, <1>10, <2>4
  <2>11. Traced(F[k - 1] \o pieces[k], Done(n - k), Done(n))
    BY <2>7, <2>9, <2>10, TraceJoin
  <2>12. Reached(k)
    BY <2>10, <2>11
  <2>. HIDE DEF Reached
  <2>. QED
    BY <2>2, <2>12
<1>14. Traced(FlattenSeq(pieces), A, A \o params)
  <2>1. n \in 0 .. n /\ n - n = 0
    BY <1>7
  <2>2. Reached(n)
    BY <1>13, <2>1
  <2>. QED
    BY <1>10, <1>12, <2>1, <2>2
<1>15. A \o params \in Seq(Demand) /\ Append(A, d) \in Seq(Demand)
  BY <1>1, <1>3
<1>16. Traced(<<build>>, A \o params, Append(A, d))
  BY <1>4, <1>15, TraceOne DEF params
<1>. QED
  <2>. DEFINE T == Body \cup {build}
              rest == FlattenSeq(pieces)
  <2>1. rest \in Seq(Body)
    BY <1>9, Flattened
  <2>. HIDE DEF rest
  <2>2. rest \in Seq(T) /\ <<build>> \in Seq(T)
    BY <2>1
  <2>. HIDE DEF T, build
  <2>3. Traced(rest, A, A \o params)
    BY <1>14 DEF rest
  <2>4. Traced(<<build>> \o rest, A, Append(A, d))
    BY <1>16, <2>2, <2>3, TraceJoin
  <2>. QED
    BY <1>2, <2>4 DEF rest, params, code, build, pieces

-----------------------------------------------------------------------------
(* What meets the demands on a stack.                                      *)

(* A value that fits is pushed.                                            *)
LEMMA MeetsPush ==
  ASSUME NEW vs, NEW A, Meets(vs, A), NEW v \in Values, NEW d \in Demand, Fits(v, d)
  PROVE  Meets(Append(vs, v), Append(A, d))
<1>. DEFINE n == Len(vs)
            ws == Append(vs, v)
            B == Append(A, d)
<1>1. vs \in Seq(Values) /\ A \in Seq(Demand) /\ Len(A) = n /\ n \in Nat /\ \A k \in 1 .. n : Fits(vs[k], A[k])
  BY DEF Meets
<1>2. ws \in Seq(Values) /\ Len(ws) = n + 1 /\ ws[n + 1] = v /\ \A k \in 1 .. n : ws[k] = vs[k]
  BY <1>1
<1>3. B \in Seq(Demand) /\ Len(B) = n + 1 /\ B[n + 1] = d /\ \A k \in 1 .. n : B[k] = A[k]
  BY <1>1
<1>. HIDE DEF ws, B, n
<1>4. ASSUME NEW k \in 1 .. n + 1 PROVE Fits(ws[k], B[k])
  <2>1. k = n + 1 \/ k \in 1 .. n
    BY <1>1
  <2>. QED
    BY <1>1, <1>2, <1>3, <2>1
<1>5. Meets(ws, B)
  BY <1>2, <1>3, <1>4 DEF Meets
<1>. QED
  BY <1>5 DEF ws, B

(* The topmost value is popped.                                            *)
LEMMA MeetsPop ==
  ASSUME NEW vs, NEW A \in Seq(Demand), NEW d \in Demand, Meets(vs, Append(A, d))
  PROVE  vs # <<>> /\ Meets(Front(vs), A) /\ Last(vs) \in Values /\ Fits(Last(vs), d)
<1>. DEFINE n == Len(A)
            B == Append(A, d)
            ws == Front(vs)
<1>1. n \in Nat /\ Len(B) = n + 1 /\ B[n + 1] = d /\ \A k \in 1 .. n : B[k] = A[k]
  OBVIOUS
<1>2. vs \in Seq(Values) /\ Len(vs) = Len(B) /\ \A k \in 1 .. Len(vs) : Fits(vs[k], B[k])
  BY DEF Meets
<1>. HIDE DEF B
<1>3. Len(vs) = n + 1 /\ vs # <<>>
  <2>1. Len(vs) = n + 1
    BY <1>1, <1>2
  <2>2. Len(vs) # 0
    BY <1>1, <2>1
  <2>. QED
    BY <1>2, <2>1, <2>2, SequenceFacts
<1>4. ws \in Seq(Values) /\ Len(ws) = n /\ \A k \in 1 .. n : ws[k] = vs[k]
  <2>1. ws \in Seq(Values) /\ Len(ws) \in Nat /\ Len(vs) = Len(ws) + 1 /\ DOMAIN ws = 1 .. Len(ws)
        /\ \A i \in DOMAIN ws : ws[i] = vs[i]
    BY <1>2, <1>3, FrontFacts
  <2>. HIDE DEF ws
  <2>. QED
    BY <1>1, <1>3, <2>1
<1>5. Last(vs) = vs[n + 1] /\ vs[n + 1] \in Values
  BY <1>1, <1>2, <1>3 DEF Last
<1>. HIDE DEF ws, n
<1>6. \A k \in 1 .. n : Fits(ws[k], A[k])
  BY <1>1, <1>2, <1>3, <1>4
<1>7. Fits(vs[n + 1], d)
  BY <1>1, <1>2, <1>3
<1>8. Meets(ws, A)
  BY <1>4, <1>6 DEF Meets, n
<1>. QED
  BY <1>3, <1>5, <1>7, <1>8 DEF ws

(* The arguments of a constructor are cut off (resolve-session.ts:199).    *)
LEMMA MeetsSplit ==
  ASSUME NEW vs, NEW A \in Seq(Demand), NEW P \in Seq(Demand), Meets(vs, A \o P)
  PROVE  /\ Meets(SubSeq(vs, 1, Len(vs) - Len(P)), A)
         /\ \A k \in 1 .. Len(P) : Fits(SubSeq(vs, Len(vs) - Len(P) + 1, Len(vs))[k], P[k])
<1>. DEFINE n == Len(A)
            m == Len(P)
            B == A \o P
            ws == SubSeq(vs, 1, Len(vs) - m)
            us == SubSeq(vs, Len(vs) - m + 1, Len(vs))
<1>1. /\ n \in Nat /\ m \in Nat /\ Len(B) = n + m /\ \A k \in 1 .. n : B[k] = A[k]
      /\ \A k \in 1 .. m : B[n + k] = P[k]
  OBVIOUS
<1>2. vs \in Seq(Values) /\ Len(vs) = Len(B) /\ \A k \in 1 .. Len(vs) : Fits(vs[k], B[k])
  BY DEF Meets
<1>. HIDE DEF B
<1>3. Len(vs) = n + m /\ Len(vs) - m = n /\ Len(vs) - m + 1 = n + 1
  BY <1>1, <1>2
<1>. HIDE DEF n, m
<1>4. ws \in Seq(Values) /\ Len(ws) = n /\ \A k \in 1 .. n : ws[k] = vs[k]
  <2>1. ws = SubSeq(vs, 1, n)
    BY <1>3
  <2>. HIDE DEF ws
  <2>. QED
    BY <1>1, <1>2, <1>3, <2>1
<1>5. \A k \in 1 .. m : us[k] = vs[n + k]
  <2>1. us = SubSeq(vs, n + 1, n + m)
    BY <1>3
  <2>. HIDE DEF us
  <2>2. ASSUME NEW k \in 1 .. m PROVE us[k] = vs[n + k]
    <3>1. /\ n + 1 \in Nat /\ n + m \in Nat /\ k \in Nat /\ k \in 1 .. (n + m) - (n + 1) + 1
          /\ (n + 1) + k - 1 = n + k /\ vs \in Seq(Values) /\ Len(vs) = n + m
          /\ 1 <= n + 1 /\ n + 1 <= n + m /\ 1 <= k /\ k <= (n + m) - (n + 1) + 1
      BY <1>1, <1>2, <1>3
    <3>2. SubSeq(vs, n + 1, n + m)[k] = vs[(n + 1) + k - 1]
      BY <3>1
    <3>. QED
      BY <2>1, <3>1, <3>2
  <2>. QED
    BY <2>2
<1>. HIDE DEF ws, us
<1>6. ASSUME NEW k \in 1 .. n PROVE Fits(ws[k], A[k])
  <2>1. k \in 1 .. Len(vs)
    BY <1>1, <1>3
  <2>2. ws[k] = vs[k] /\ B[k] = A[k] /\ Fits(vs[k], B[k])
    BY <1>1, <1>2, <1>4, <2>1
  <2>. QED
    BY <2>2
<1>7. ASSUME NEW k \in 1 .. m PROVE Fits(us[k], P[k])
  <2>1. n + k \in 1 .. Len(vs) /\ us[k] = vs[n + k] /\ B[n + k] = P[k]
    BY <1>1, <1>3, <1>5
  <2>2. Fits(vs[n + k], B[n + k])
    BY <1>2, <2>1
  <2>. QED
    BY <2>1, <2>2
<1>8. Meets(ws, A)
  BY <1>4, <1>6 DEF Meets, n
<1>. QED
  BY <1>7, <1>8 DEF ws, us, m

-----------------------------------------------------------------------------
(* What a plan asks for.                                                   *)

Asked(p) == [id |-> p.target, optional |-> p.optional, transform |-> FALSE]

(* A plan has one effect: its demand is met.                               *)
LEMMA AskedIs ==
  ASSUME NEW p \in PlanCode
  PROVE  /\ Asked(p) \in Demand /\ Asked(p).id = p.target /\ p.target \in Id \cup {Proxy}
         /\ Asked(p).optional = p.optional /\ ~Asked(p).transform
         /\ \A A, C : Effect(p, A, C) <=> C = Append(A, Asked(p))
<1>1. p.code = "PLAN" /\ p.target \in Id \cup {Proxy} /\ p.optional \in BOOLEAN
  BY DEF PlanCode
<1>. QED
  BY <1>1 DEF Asked, Demand, Effect

(* A cached value is an instance of the id it is cached for.               *)
LEMMA CachedFits ==
  ASSUME MachineTypeOK, CachesKeep, NEW s \in ResolveSession, NEW id \in Id \cup {Proxy},
         Cached(s, id) # None
  PROVE  Cached(s, id) \in Values /\ Cached(s, id).of = id /\ ~Cached(s, id).transformed
<1>1. id # Proxy /\ id \in Id
  BY DEF Cached
<1>2. Keeps(globalCache[id], id) /\ Keeps(sessionCache[s][id], id)
  BY <1>1 DEF CachesKeep
<1>. QED
  BY <1>1, <1>2 DEF Cached, Keeps

(* A plan that does not throw pushes a value that fits, or the code of a   *)
(* class that does.                                                        *)
LEMMA PlannedFits ==
  ASSUME MachineTypeOK, CachesKeep, NEW s \in ResolveSession, NEW p \in PlanCode, NEW u,
         Planned(s, p, u).error = None
  PROVE  \/ /\ Planned(s, p, u).code = <<>>
            /\ \E v \in Values : Planned(s, p, u).values = <<v>> /\ Fits(v, Asked(p))
         \/ /\ Planned(s, p, u).values = <<>>
            /\ \E t \in Classes : /\ t \in Aliases(p.target)
                                  /\ \E allow \in BOOLEAN : Planned(s, p, u).code = Compile(t, allow)
<1>. DEFINE b == Chase(s, p.target, p.allowTemporary)
            r == Planned(s, p, u)
            hit == Cached(s, p.target)
            again == Cached(s, b.id)
<1>1. b.end \in {"endless", "unbound", "bound", "temporary"} /\ (b.end \in {"bound", "temporary"} => b.id # Proxy)
  BY ChaseParts
<1>2. /\ p.target \in Id \cup {Proxy} /\ p.optional \in BOOLEAN /\ p.allowTemporary \in BOOLEAN
      /\ Asked(p).id = p.target /\ Asked(p).optional = p.optional /\ ~Asked(p).transform
      /\ Asked(p).transform \in BOOLEAN
  BY DEF PlanCode, Asked
<1>3. bindings \in [Id -> Binding \cup {None}]
  BY DEF MachineTypeOK
<1>4. b.id \in Id \cup {Proxy} /\ b.id \in Aliases(p.target) /\ p.target \in Aliases(p.target)
  BY <1>2, <1>3, ChaseEnds, ChaseIsAlias, AliasesAre
<1>5. r = CASE hit # None -> [values |-> <<hit>>, code |-> <<>>, error |-> None]
            [] hit = None /\ b.end = "endless" -> [values |-> <<>>, code |-> <<>>, error |-> "endless"]
            [] hit = None /\ b.end = "unbound" ->
                 IF p.optional THEN [values |-> <<Undefined>>, code |-> <<>>, error |-> None]
                 ELSE IF u /\ b.id = Proxy
                 THEN [values |-> <<>>, code |-> Compile(b.id, p.allowTemporary), error |-> None]
                 ELSE [values |-> <<>>, code |-> <<>>, error |-> "notFound"]
            [] hit = None /\ b.end \in {"bound", "temporary"} ->
                 IF again # None THEN [values |-> <<again>>, code |-> <<>>, error |-> None]
                 ELSE IF bindings[b.id].type = "CONSTANT"
                 THEN [values |-> <<Value("constant", b.id, 0)>>, code |-> <<>>, error |-> None]
                 ELSE IF b.id \in compiled
                 THEN [values |-> <<>>, code |-> Compile(b.id, ScopeOf(b.id) # "SINGLETON"), error |-> None]
                 ELSE [values |-> <<>>, code |-> <<>>, error |-> "notCompiled"]
  BY DEF Planned
<1>6. None \notin {"endless", "notFound", "notCompiled"}
  BY ContainerAssumption
<1>7. hit # None => hit \in Values /\ hit.of = p.target /\ ~hit.transformed
  BY <1>2, CachedFits
<1>8. again # None => again \in Values /\ again.of = b.id /\ ~again.transformed
  BY <1>4, CachedFits
<1>9. ASSUME NEW v \in Values, ~v.transformed,
             v.of \in Aliases(p.target) \/ (p.optional /\ v.of = None)
      PROVE  Fits(v, Asked(p))
  <2>1. v.transformed \in BOOLEAN
    BY DEF Values
  <2>2. v.transformed = Asked(p).transform
    BY <1>2, <1>9, <2>1
  <2>. QED
    BY <1>2, <1>9, <2>2 DEF Fits
<1>. DEFINE Pushes(v) == r.code = <<>> /\ r.values = <<v>> /\ v \in Values /\ Fits(v, Asked(p))
            Runs(t, allow) == r.values = <<>> /\ t \in Classes /\ t \in Aliases(p.target)
                                /\ allow \in BOOLEAN /\ r.code = Compile(t, allow)
<1>. SUFFICES \/ \E v : Pushes(v)
              \/ \E t, allow : Runs(t, allow)
  OBVIOUS
<1>. HIDE DEF b, r, hit, again
<1>10. CASE hit # None
  <2>1. r.code = <<>> /\ r.values = <<hit>>
    BY <1>5, <1>10
  <2>2. Fits(hit, Asked(p))
    BY <1>4, <1>7, <1>9, <1>10
  <2>. QED
    BY <1>7, <1>10, <2>1, <2>2
<1>11. CASE hit = None /\ b.end = "endless"
  BY <1>5, <1>6, <1>11 DEF r
<1>12. CASE hit = None /\ b.end = "unbound"
  <2>1. CASE p.optional
    <3>1. r.code = <<>> /\ r.values = <<Undefined>>
      BY <1>5, <1>12, <2>1
    <3>2. Undefined \in Values /\ ~Undefined.transformed /\ Undefined.of = None
      BY DEF Undefined, Value, Values
    <3>3. Fits(Undefined, Asked(p))
      BY <1>9, <2>1, <3>2
    <3>. QED
      BY <3>1, <3>2, <3>3
  <2>2. CASE ~p.optional /\ u /\ b.id = Proxy
    <3>1. r.values = <<>> /\ r.code = Compile(b.id, p.allowTemporary)
      BY <1>5, <1>12, <2>2
    <3>2. b.id \in Classes
      BY <2>2 DEF Classes
    <3>. QED
      BY <1>2, <1>4, <3>1, <3>2
  <2>3. CASE ~p.optional /\ ~(u /\ b.id = Proxy)
    <3>1. r.error = "notFound"
      BY <1>5, <1>12, <2>3
    <3>. QED
      BY <1>6, <3>1 DEF r
  <2>. QED
    BY <2>1, <2>2, <2>3
<1>13. CASE hit = None /\ b.end \in {"bound", "temporary"}
  <2>1. r = IF again # None THEN [values |-> <<again>>, code |-> <<>>, error |-> None]
            ELSE IF bindings[b.id].type = "CONSTANT"
            THEN [values |-> <<Value("constant", b.id, 0)>>, code |-> <<>>, error |-> None]
            ELSE IF b.id \in compiled
            THEN [values |-> <<>>, code |-> Compile(b.id, ScopeOf(b.id) # "SINGLETON"), error |-> None]
            ELSE [values |-> <<>>, code |-> <<>>, error |-> "notCompiled"]
    <3>1. b.end # "endless" /\ b.end # "unbound"
      BY <1>13
    <3>. QED
      BY <1>5, <1>13, <3>1
  <2>2. CASE again # None
    <3>1. r.code = <<>> /\ r.values = <<again>>
      BY <2>1, <2>2
    <3>2. Fits(again, Asked(p))
      BY <1>4, <1>8, <1>9, <2>2
    <3>. QED
      BY <1>8, <2>2, <3>1, <3>2
  <2>3. CASE again = None /\ bindings[b.id].type = "CONSTANT"
    <3>. DEFINE v == Value("constant", b.id, 0)
    <3>1. r.code = <<>> /\ r.values = <<v>>
      BY <2>1, <2>3
    <3>2. v \in Values /\ ~v.transformed /\ v.of = b.id
      BY <1>4 DEF Value, Values
    <3>. HIDE DEF v
    <3>3. Fits(v, Asked(p))
      BY <1>4, <1>9, <3>2
    <3>. QED
      BY <3>1, <3>2, <3>3
  <2>4. CASE again = None /\ bindings[b.id].type # "CONSTANT" /\ b.id \in compiled
    <3>. DEFINE allow == ScopeOf(b.id) # "SINGLETON"
    <3>1. r.values = <<>> /\ r.code = Compile(b.id, allow)
      BY <2>1, <2>4
    <3>2. b.id \in Classes /\ allow \in BOOLEAN
      BY <2>4 DEF MachineTypeOK, Classes
    <3>. HIDE DEF allow
    <3>. QED
      BY <1>4, <3>1, <3>2
  <2>5. CASE again = None /\ bindings[b.id].type # "CONSTANT" /\ b.id \notin compiled
    <3>1. r.error = "notCompiled"
      BY <2>1, <2>5
    <3>. QED
      BY <1>6, <3>1 DEF r
  <2>. QED
    BY <2>2, <2>3, <2>4, <2>5
<1>. QED
  BY <1>1, <1>10, <1>11, <1>12, <1>13

-----------------------------------------------------------------------------
(* The invariant of the next state, in terms of the bindings at hand.      *)

TraceOf(values, is, call, s) ==
  IF call # None /\ call.by = s
  THEN \E demands \in Seq(Demand) :
         /\ Meets(values, demands)
         /\ Traced(is, demands, <<[id |-> call.target, optional |-> FALSE, transform |-> FALSE]>>)
  ELSE values = <<>> /\ is = <<>>

BuiltOf(builds, id) ==
  \A i \in DOMAIN builds : builds[i].clean =>
    \A k \in DOMAIN ParamsOf(id) : Fits(builds[i].args[k], ParamsOf(id)[k])

ResolvedOf(result) ==
  result # None /\ result.clean =>
    result.target \in Id \cup {Proxy} /\ result.value.of \in Aliases(result.target)

(* The trace of a session in the next state.                               *)
LEMMA TraceNext ==
  ASSUME UNCHANGED bindings, NEW s,
         TraceOf(stack'[s], instructions'[s], running', s)
  PROVE  TraceInv(s)'
<1>1. \A id : Aliases(id)' = Aliases(id) /\ ParamsOf(id)' = ParamsOf(id)
  BY AliasesStay DEF ParamsOf
<1>2. PICK vs, is, call : vs = stack'[s] /\ is = instructions'[s] /\ call = running'
  OBVIOUS
<1>3. \A A : Meets(stack[s], A)' <=> Meets(vs, A)
  BY <1>1, <1>2 DEF Meets, Fits
<1>4. \A A, C : Traced(instructions[s], A, C)' <=> Traced(is, A, C)
  <2>1. \A i, A, C : Effect(i, A, C)' <=> Effect(i, A, C)
    BY <1>1 DEF Effect
  <2>. QED
    BY <1>2, <2>1 DEF Traced
<1>5. TraceOf(vs, is, call, s)
  BY <1>2
<1>6. CASE call # None /\ call.by = s
  <2>. DEFINE C == <<[id |-> call.target, optional |-> FALSE, transform |-> FALSE]>>
  <2>1. PICK A \in Seq(Demand) : Meets(vs, A) /\ Traced(is, A, C)
    BY <1>5, <1>6 DEF TraceOf
  <2>2. Meets(stack[s], A)' /\ Traced(instructions[s], A, C)'
    BY <1>3, <1>4, <2>1
  <2>. QED
    BY <1>2, <1>6, <2>2 DEF TraceInv
<1>7. CASE ~(call # None /\ call.by = s)
  BY <1>2, <1>5, <1>7 DEF TraceOf, TraceInv
<1>. QED
  BY <1>6, <1>7

(* What was built is built right when nothing is bound.                    *)
LEMMA BuiltNext ==
  ASSUME UNCHANGED bindings, NEW id, BuiltOf(made'[id], id)
  PROVE  BuiltRight(id)'
<1>1. \A i : Aliases(i)' = Aliases(i) /\ ParamsOf(i)' = ParamsOf(i)
  BY AliasesStay DEF ParamsOf
<1>2. PICK builds : builds = made'[id]
  OBVIOUS
<1>3. \A v, p : Fits(v, p)' <=> Fits(v, p)
  BY <1>1 DEF Fits
<1>. QED
  BY <1>1, <1>2 DEF BuiltRight, BuiltOf, Fits

(* What was answered is right when nothing is bound.                       *)
LEMMA ResolvedNext ==
  ASSUME UNCHANGED bindings, ResolvedOf(resolved')
  PROVE  (resolved # None /\ resolved.clean =>
            resolved.target \in Id \cup {Proxy} /\ resolved.value.of \in Aliases(resolved.target))'
<1>1. PICK result, target : result = resolved' /\ target = result.target
  OBVIOUS
<1>2. Aliases(resolved.target)' = Aliases(target)
  <2>1. Widened' = Widened
    BY DEF Widened, Bound
  <2>. QED
    BY <1>1, <2>1 DEF Aliases, Iterate
<1>. QED
  BY <1>1, <1>2 DEF ResolvedOf

(* What is to be shown of a step that binds nothing.                       *)
LEMMA ArgumentsNext ==
  ASSUME UNCHANGED bindings, stack' = [s \in ResolveSession |-> stack'[s]], CachesKeep',
         \A s \in ResolveSession \ threw' : TraceOf(stack'[s], instructions'[s], running', s),
         \A id \in Id : BuiltOf(made'[id], id),
         ResolvedOf(resolved')
  PROVE  ArgumentsInv'
<1>1. \A s \in ResolveSession \ threw' : TraceInv(s)'
  BY TraceNext
<1>2. \A id \in Id : BuiltRight(id)'
  BY BuiltNext
<1>. QED
  BY <1>1, <1>2, ResolvedNext DEF ArgumentsInv

(* The invariant in the same terms.                                        *)
LEMMA ArgumentsNow ==
  ASSUME ArgumentsInv
  PROVE  /\ stack = [s \in ResolveSession |-> stack[s]] /\ CachesKeep
         /\ \A s \in ResolveSession \ threw : TraceOf(stack[s], instructions[s], running, s)
         /\ \A id \in Id : BuiltOf(made[id], id)
         /\ ResolvedOf(resolved)
<1>1. \A s \in ResolveSession \ threw : TraceInv(s)
  BY DEF ArgumentsInv
<1>2. \A s \in ResolveSession \ threw : TraceOf(stack[s], instructions[s], running, s)
  BY <1>1 DEF TraceInv, TraceOf
<1>3. \A id \in Id : BuiltOf(made[id], id)
  BY DEF ArgumentsInv, BuiltRight, BuiltOf
<1>. QED
  BY <1>2, <1>3 DEF ArgumentsInv, ResolvedOf

-----------------------------------------------------------------------------
(* The steps, once more.                                                   *)

(* Nothing is on the stacks at first.                                      *)
LEMMA ArgumentsInitially == ContainerInit => ArgumentsInv
<1>. SUFFICES ASSUME ContainerInit PROVE ArgumentsInv
  OBVIOUS
<1>1. stack = [s \in ResolveSession |-> stack[s]]
  BY DEF ContainerInit
<1>2. CachesKeep
  BY DEF ContainerInit, CachesKeep, Keeps
<1>3. \A s \in ResolveSession : TraceInv(s)
  BY DEF ContainerInit, TraceInv
<1>4. \A id \in Id : BuiltRight(id)
  <2>1. \A id \in Id : DOMAIN made[id] = {}
    BY DEF ContainerInit
  <2>. QED
    BY <2>1 DEF BuiltRight
<1>5. resolved = None
  BY DEF ContainerInit
<1>. QED
  BY <1>1, <1>2, <1>3, <1>4, <1>5 DEF ArgumentsInv

(* A step that leaves stacks, caches, builds and answers alone.            *)
LEMMA RestsRight ==
  ASSUME ArgumentsInv,
         UNCHANGED <<bindings, globalCache, instructions, stack, sessionCache, running, threw, made, resolved>>
  PROVE  ArgumentsInv'
<1>1. CachesKeep'
  BY ArgumentsNow DEF CachesKeep
<1>. QED
  BY <1>1, ArgumentsNow, ArgumentsNext

(* A temporary binding is cached for its id.                               *)
LEMMA AddTemporaryRight ==
  ASSUME MachineInv, ArgumentsInv, NEW s \in ResolveSession, NEW id \in Id, AddTemporary(s, id)
  PROVE  ArgumentsInv'
<1>. DEFINE v == Value("temporary", id, 0)
<1>1. /\ sessionCache' = [sessionCache EXCEPT ![s][id] = v]
      /\ UNCHANGED <<bindings, globalCache, instructions, stack, running, threw, made, resolved>>
  BY DEF AddTemporary, bindVars, ghostVars
<1>2. v \in Values /\ v.of = id /\ ~v.transformed
  BY DEF Value, Values
<1>. HIDE DEF v
<1>3. sessionCache = [x \in ResolveSession |-> [i \in Id |-> sessionCache[x][i]]]
  BY DEF MachineInv, MachineTypeOK
<1>4. CachesKeep'
  <2>1. CachesKeep
    BY ArgumentsNow
  <2>2. \A x \in ResolveSession, i \in Id :
          sessionCache'[x][i] = IF x = s /\ i = id THEN v ELSE sessionCache[x][i]
    BY <1>1, <1>3
  <2>3. \A x \in ResolveSession, i \in Id : Keeps(sessionCache'[x][i], i)
    BY <1>2, <2>1, <2>2 DEF CachesKeep, Keeps
  <2>. QED
    BY <1>1, <2>1, <2>3 DEF CachesKeep
<1>. QED
  BY <1>1, <1>4, ArgumentsNow, ArgumentsNext

(* More is bound: what an alias was for, it still is.                      *)
LEMMA BindRight ==
  ASSUME MachineInv, ArgumentsInv, NEW id \in Id, Bind(id)
  PROVE  ArgumentsInv'
<1>1. /\ running = None
      /\ UNCHANGED <<globalCache, instructions, stack, sessionCache, running, threw, made, resolved>>
  BY DEF Bind, ghostVars
<1>2. /\ bindings \in [Id -> Binding \cup {None}] /\ bindings' \in [Id -> Binding \cup {None}]
      /\ \A i \in Id : Bound(i) => bindings'[i] = bindings[i]
  BY BindAdds DEF MachineInv, MachineTypeOK
<1>3. \A i \in Id \cup {Proxy} : Aliases(i) \subseteq Aliases(i)'
  BY <1>2, AliasesGrow
<1>4. stack' = [s \in ResolveSession |-> stack'[s]] /\ CachesKeep'
  BY <1>1, ArgumentsNow DEF CachesKeep
<1>5. ASSUME NEW s \in ResolveSession \ threw' PROVE TraceInv(s)'
  <2>1. stack[s] = <<>> /\ instructions[s] = <<>>
    BY <1>1 DEF ArgumentsInv, TraceInv
  <2>. QED
    BY <1>1, <2>1 DEF TraceInv
<1>6. ASSUME NEW i \in Id PROVE BuiltRight(i)'
  <2>1. ASSUME NEW j \in DOMAIN made[i], made[i][j].clean, NEW k \in DOMAIN ParamsOf(i)'
        PROVE  Fits(made[i][j].args[k], ParamsOf(i)[k])'
    <3>1. IsClass(bindings[i]) /\ i \in Classes /\ Bound(i) /\ i # Proxy
      BY <2>1, ContainerAssumption DEF MachineInv, CachedInv, Classes, IsClass, Bound
    <3>2. ParamsOf(i)' = ParamsOf(i)
      BY <1>2, <3>1 DEF ParamsOf
    <3>3. ParamsOf(i)[k].id \in Id
      <4>1. ParamsOf(i) \in Seq(Param)
        BY <1>2, <3>1, ParamsAre
      <4>2. ParamsOf(i)[k] \in Param
        BY <2>1, <3>2, <4>1
      <4>. QED
        BY <4>2 DEF Param
    <3>4. Fits(made[i][j].args[k], ParamsOf(i)[k])
      BY <2>1, <3>2 DEF ArgumentsInv, BuiltRight
    <3>5. PICK v, p : v = made[i][j].args[k] /\ p = ParamsOf(i)[k]
      OBVIOUS
    <3>6. Fits(v, p)'
      BY <1>3, <3>3, <3>4, <3>5 DEF Fits
    <3>. QED
      BY <1>1, <3>2, <3>5, <3>6 DEF Fits
  <2>. QED
    BY <1>1, <2>1 DEF BuiltRight
<1>7. ASSUME resolved' # None, resolved'.clean
      PROVE  resolved'.target \in Id \cup {Proxy} /\ resolved'.value.of \in Aliases(resolved.target)'
  <2>1. resolved.target \in Id \cup {Proxy} /\ resolved.value.of \in Aliases(resolved.target)
    BY <1>1, <1>7 DEF ArgumentsInv
  <2>2. PICK target \in Id \cup {Proxy} : target = resolved.target
    BY <2>1
  <2>3. Aliases(resolved.target)' = Aliases(target)'
    <3>1. target = resolved.target'
      BY <1>1, <2>2
    <3>. QED
      BY <3>1 DEF Aliases, Iterate
  <2>. QED
    BY <1>1, <1>3, <2>1, <2>2, <2>3
<1>. QED
  BY <1>4, <1>5, <1>6, <1>7 DEF ArgumentsInv

(* What answers a call of resolve().                                       *)
Answer(target) == [id |-> target, optional |-> FALSE, transform |-> FALSE]

(* The stacks of the sessions that do not run.                             *)
LEMMA IdleValues ==
  ASSUME ArgumentsInv, NEW s, running = None \/ running.by = s
  PROVE  \A x \in ResolveSession \ threw : x # s => stack[x] = <<>> /\ instructions[x] = <<>>
BY DEF ArgumentsInv, TraceInv

(* Plans.                                                                  *)
LEMMA PerformRight ==
  ASSUME MachineInv, ArgumentsInv, NEW s \in ResolveSession, NEW p \in PlanCode,
         NEW rest \in Seq(Instr), NEW u,
         NEW target \in Id \cup {Proxy}, PerformPlan(s, p, rest, u, target),
         UNCHANGED <<bindings, globalCache, sessionCache, made, resolved>>,
         \A x \in ResolveSession \ threw : x # s => stack[x] = <<>> /\ instructions[x] = <<>>,
         s \notin threw => \E A \in Seq(Demand) :
           Meets(stack[s], A) /\ Traced(rest, Append(A, Asked(p)), <<Answer(target)>>)
  PROVE  ArgumentsInv'
<1>. DEFINE r == Planned(s, p, u)
            grown == rest \o r.code
            e == IF r.error = None /\ Len(grown) > MaxDepth THEN "endless" ELSE r.error
            call == [by |-> s, target |-> target]
<1>1. /\ instructions' = [instructions EXCEPT ![s] = grown]
      /\ stack' = [stack EXCEPT ![s] = @ \o r.values]
      /\ IF e = None THEN running' = call /\ threw' = threw
         ELSE running' = (IF e = "endless" THEN call ELSE None) /\ threw' = threw \cup {s}
  BY DEF PerformPlan
<1>2. MachineTypeOK /\ instructions \in [ResolveSession -> Seq(Instr)]
  BY DEF MachineInv, MachineTypeOK
<1>3. stack = [x \in ResolveSession |-> stack[x]] /\ CachesKeep
  BY ArgumentsNow
<1>4. e = None => r.error = None
  BY ContainerAssumption
<1>5. call.by = s /\ call.target = target /\ call # None
  <2>1. call \in Calls
    BY DEF Calls
  <2>. QED
    BY <2>1, ContainerAssumption
<1>6. r.code \in Seq(Instr)
  BY <1>2, PlannedCode
<1>7. r.error = None =>
        \/ /\ r.code = <<>>
           /\ \E v \in Values : r.values = <<v>> /\ Fits(v, Asked(p))
        \/ /\ r.values = <<>>
           /\ \E t \in Classes : /\ t \in Aliases(p.target)
                                 /\ \E allow \in BOOLEAN : r.code = Compile(t, allow)
  BY <1>2, <1>3, PlannedFits
<1>8. bindings \in [Id -> Binding \cup {None}]
  BY <1>2 DEF MachineTypeOK
<1>. HIDE DEF r, e, call
<1>9. ASSUME s \notin threw, r.error = None PROVE TraceOf(stack[s] \o r.values, grown, call, s)
  <2>1. PICK A \in Seq(Demand) : Meets(stack[s], A) /\ Traced(rest, Append(A, Asked(p)), <<Answer(target)>>)
    BY <1>9
  <2>2. stack[s] \in Seq(Values)
    BY <2>1 DEF Meets
  <2>3. Asked(p) \in Demand /\ Asked(p).id = p.target /\ ~Asked(p).transform
    BY AskedIs
  <2>4. \E B \in Seq(Demand) : Meets(stack[s] \o r.values, B) /\ Traced(grown, B, <<Answer(target)>>)
    <3>1. ASSUME r.code = <<>>, NEW v \in Values, r.values = <<v>>, Fits(v, Asked(p))
          PROVE  Meets(stack[s] \o r.values, Append(A, Asked(p))) /\ Traced(grown, Append(A, Asked(p)), <<Answer(target)>>)
      <4>1. stack[s] \o r.values = Append(stack[s], v)
        BY <2>2, <3>1
      <4>2. Meets(Append(stack[s], v), Append(A, Asked(p)))
        BY <2>1, <2>3, <3>1, MeetsPush
      <4>3. grown = rest
        BY <3>1
      <4>. QED
        BY <2>1, <4>1, <4>2, <4>3
    <3>2. ASSUME r.values = <<>>, NEW t \in Classes, t \in Aliases(p.target), NEW allow \in BOOLEAN,
                 r.code = Compile(t, allow)
          PROVE  Meets(stack[s] \o r.values, A) /\ Traced(grown, A, <<Answer(target)>>)
      <4>1. stack[s] \o r.values = stack[s]
        BY <2>2, <3>2
      <4>2. Traced(r.code, A, Append(A, Asked(p)))
        BY <1>8, <2>3, <3>2, CodeTraced
      <4>3. Traced(grown, A, <<Answer(target)>>)
        BY <1>6, <2>1, <4>2, TraceJoin
      <4>. QED
        BY <2>1, <4>1, <4>3
    <3>3. Append(A, Asked(p)) \in Seq(Demand)
      BY <2>3
    <3>. HIDE DEF grown
    <3>. QED
      BY <1>7, <1>9, <3>1, <3>2, <3>3
  <2>. HIDE DEF grown
  <2>. QED
    BY <1>5, <2>4 DEF TraceOf, Answer
<1>. HIDE DEF grown
<1>10. ASSUME NEW x \in ResolveSession \ threw'
       PROVE  TraceOf(stack'[x], instructions'[x], running', x)
  <2>1. x \notin threw
    BY <1>1
  <2>2. CASE x = s
    <3>1. e = None /\ running' = call
      BY <1>1, <2>2
    <3>2. stack'[x] = stack[s] \o r.values /\ instructions'[x] = grown
      BY <1>1, <1>2, <1>3, <2>2
    <3>3. TraceOf(stack[s] \o r.values, grown, call, s)
      BY <1>4, <1>9, <2>1, <2>2, <3>1
    <3>. QED
      BY <2>2, <3>1, <3>2, <3>3
  <2>3. CASE x # s
    <3>1. stack'[x] = <<>> /\ instructions'[x] = <<>>
      BY <1>1, <1>2, <1>3, <2>1, <2>3
    <3>2. ~(running' # None /\ running'.by = x)
      BY <1>1, <1>5, <2>3
    <3>. QED
      BY <3>1, <3>2 DEF TraceOf
  <2>. QED
    BY <2>2, <2>3
<1>11. stack' = [x \in ResolveSession |-> stack'[x]]
  BY <1>1, <1>3
<1>12. CachesKeep'
  BY <1>3 DEF CachesKeep
<1>. QED
  BY <1>10, <1>11, <1>12, ArgumentsNow, ArgumentsNext

(* A call begins with empty stacks and asks for its target.                *)
LEMMA ResolveRight ==
  ASSUME MachineInv, ArgumentsInv, NEW s \in ResolveSession, NEW target \in Id \cup {Proxy},
         Resolve(s, target)
  PROVE  ArgumentsInv'
<1>. DEFINE p == PlanOf(target, FALSE, TRUE)
            u == target = Proxy
<1>1. /\ running = None /\ PerformPlan(s, p, instructions[s], u, target)
      /\ UNCHANGED <<bindings, globalCache, sessionCache, made, resolved>>
  BY DEF Resolve, bindVars
<1>2. instructions[s] \in Seq(Instr)
  BY DEF MachineInv, MachineTypeOK
<1>3. p \in PlanCode /\ Asked(p) = Answer(target)
  BY DEF PlanOf, PlanCode, Asked, Answer
<1>4. \A x \in ResolveSession \ threw : stack[x] = <<>> /\ instructions[x] = <<>>
  BY <1>1 DEF ArgumentsInv, TraceInv
<1>. HIDE DEF p, u
<1>5. ASSUME s \notin threw
      PROVE  \E A \in Seq(Demand) :
               Meets(stack[s], A) /\ Traced(instructions[s], Append(A, Asked(p)), <<Answer(target)>>)
  <2>. DEFINE d == Answer(target)
  <2>1. stack[s] = <<>> /\ instructions[s] = <<>>
    BY <1>4, <1>5
  <2>2. Meets(<<>>, <<>>) /\ <<>> \in Seq(Demand)
    BY DEF Meets
  <2>3. d \in Demand
    BY DEF Answer, Demand
  <2>. HIDE DEF d
  <2>4. Append(<<>>, d) = <<d>> /\ <<d>> \in Seq(Demand)
    BY <2>3
  <2>5. Traced(<<>>, <<d>>, <<d>>)
    BY <2>4, TraceNil
  <2>. QED
    BY <1>3, <2>1, <2>2, <2>4, <2>5 DEF d
<1>. QED
  BY <1>1, <1>2, <1>3, <1>4, <1>5, PerformRight

(* The session that runs has values for the demands of its top instruction.*)
LEMMA TopTraced ==
  ASSUME MachineInv, ArgumentsInv, NEW s \in ResolveSession \ threw, Running(s), instructions[s] # <<>>
  PROVE  \E A \in Seq(Demand), B \in Seq(Demand) :
           /\ Meets(stack[s], A) /\ Effect(Top(s), A, B)
           /\ Traced(Rest(s), B, <<Answer(running.target)>>)
<1>1. TraceOf(stack[s], instructions[s], running, s) /\ running # None /\ running.by = s
  BY ArgumentsNow DEF Running
<1>2. PICK A \in Seq(Demand) : Meets(stack[s], A) /\ Traced(instructions[s], A, <<Answer(running.target)>>)
  BY <1>1 DEF TraceOf, Answer
<1>3. instructions[s] \in Seq(Instr)
  BY RunningFacts
<1>4. \E B \in Seq(Demand) : Effect(Last(instructions[s]), A, B)
                              /\ Traced(Front(instructions[s]), B, <<Answer(running.target)>>)
  BY <1>2, <1>3, TracePop
<1>. QED
  BY <1>2, <1>4 DEF Top, Rest

(* The plan on top of the stack is performed.                              *)
LEMMA PlanRightly ==
  ASSUME MachineInv, ArgumentsInv, NEW s \in ResolveSession, Plan(s)
  PROVE  ArgumentsInv'
<1>1. /\ Running(s) /\ instructions[s] # <<>> /\ Top(s).code = "PLAN"
      /\ PerformPlan(s, Top(s), Rest(s), FALSE, running.target)
      /\ UNCHANGED <<bindings, globalCache, sessionCache, made, resolved>>
  BY DEF Plan, bindVars
<1>2. /\ running.target \in Id \cup {Proxy} /\ running.by = s
      /\ Top(s) \in Instr /\ Rest(s) \in Seq(Instr)
  BY <1>1, RunningFacts
<1>3. Top(s) \in PlanCode
  <2>1. \A i \in Instr : i.code = "PLAN" => i \in PlanCode
    BY DEF Instr, PlanCode
  <2>. QED
    BY <1>1, <1>2, <2>1
<1>4. PICK p \in PlanCode : p = Top(s)
  BY <1>3
<1>5. PICK rest \in Seq(Instr) : rest = Rest(s)
  BY <1>2
<1>6. PICK target \in Id \cup {Proxy} : target = running.target
  BY <1>2
<1>7. \A x \in ResolveSession \ threw : x # s => stack[x] = <<>> /\ instructions[x] = <<>>
  BY <1>2, IdleValues
<1>8. ASSUME s \notin threw
      PROVE  \E A \in Seq(Demand) :
               Meets(stack[s], A) /\ Traced(rest, Append(A, Asked(p)), <<Answer(target)>>)
  <2>1. PICK A \in Seq(Demand), B \in Seq(Demand) :
          Meets(stack[s], A) /\ Effect(p, A, B) /\ Traced(rest, B, <<Answer(target)>>)
    BY <1>1, <1>4, <1>5, <1>6, <1>8, TopTraced
  <2>2. B = Append(A, Asked(p))
    BY <2>1, AskedIs
  <2>. QED
    BY <2>1, <2>2
<1>9. PerformPlan(s, p, rest, FALSE, target)
  BY <1>1, <1>4, <1>5, <1>6
<1>. QED
  BY <1>1, <1>7, <1>8, <1>9, PerformRight

(* The topmost value is transformed, as its parameter asks.                *)
LEMMA TransformRight ==
  ASSUME MachineInv, ArgumentsInv, NEW s \in ResolveSession, Transform(s)
  PROVE  ArgumentsInv'
<1>. DEFINE top == [Last(stack[s]) EXCEPT !.transformed = TRUE]
<1>1. /\ Running(s) /\ instructions[s] # <<>> /\ Top(s).code = "TRANSFORM"
      /\ instructions' = [instructions EXCEPT ![s] = Rest(s)]
      /\ stack' = [stack EXCEPT ![s] = Front(@) \o <<top>>]
      /\ UNCHANGED <<bindings, globalCache, sessionCache, made, resolved, running, threw>>
  BY DEF Transform, bindVars, ghostVars
<1>2. running # None /\ running.by = s
  BY <1>1 DEF Running
<1>3. /\ stack = [x \in ResolveSession |-> stack[x]] /\ CachesKeep
      /\ instructions \in [ResolveSession -> Seq(Instr)]
  BY ArgumentsNow DEF MachineInv, MachineTypeOK
<1>4. stack' = [x \in ResolveSession |-> stack'[x]]
  BY <1>1, <1>3
<1>5. CachesKeep'
  BY <1>1, <1>3 DEF CachesKeep
<1>6. ASSUME NEW x \in ResolveSession \ threw'
      PROVE  TraceOf(stack'[x], instructions'[x], running', x)
  <2>1. CASE x = s
    <3>1. PICK A \in Seq(Demand), B \in Seq(Demand) :
            /\ Meets(stack[s], A) /\ Effect(Top(s), A, B)
            /\ Traced(Rest(s), B, <<Answer(running.target)>>)
      BY <1>1, <2>1, TopTraced
    <3>2. PICK below \in Seq(Demand), d \in Demand :
            A = Append(below, d) /\ B = Append(below, [d EXCEPT !.transform = TRUE])
      BY <1>1, <3>1 DEF Effect
    <3>3. Meets(Front(stack[s]), below) /\ Last(stack[s]) \in Values /\ Fits(Last(stack[s]), d)
      BY <3>1, <3>2, MeetsPop
    <3>. DEFINE c == [d EXCEPT !.transform = TRUE]
    <3>4. c \in Demand /\ c.transform = TRUE /\ c.id = d.id /\ c.optional = d.optional
      BY DEF Demand
    <3>5. top \in Values /\ top.transformed = TRUE /\ top.of = Last(stack[s]).of
      <4>1. \A v \in Values : LET w == [v EXCEPT !.transformed = TRUE]
                              IN  w \in Values /\ w.transformed = TRUE /\ w.of = v.of
        BY DEF Values
      <4>. QED
        BY <3>3, <4>1
    <3>. HIDE DEF top, c
    <3>6. Fits(top, c)
      BY <3>3, <3>4, <3>5 DEF Fits
    <3>7. Meets(Append(Front(stack[s]), top), Append(below, c))
      BY <3>3, <3>4, <3>5, <3>6, MeetsPush
    <3>8. Front(stack[s]) \o <<top>> = Append(Front(stack[s]), top)
      <4>1. Front(stack[s]) \in Seq(Values)
        BY <3>3 DEF Meets
      <4>. QED
        BY <3>5, <4>1
    <3>9. stack'[x] = Append(Front(stack[s]), top) /\ instructions'[x] = Rest(s)
      BY <1>1, <1>3, <2>1, <3>8
    <3>10. B = Append(below, c)
      BY <3>2 DEF c
    <3>. QED
      BY <1>1, <1>2, <2>1, <3>1, <3>7, <3>9, <3>10 DEF TraceOf, Answer
  <2>2. CASE x # s
    <3>1. stack'[x] = <<>> /\ instructions'[x] = <<>>
      BY <1>1, <1>2, <1>3, <2>2, IdleValues
    <3>2. ~(running' # None /\ running'.by = x)
      BY <1>1, <1>2, <2>2
    <3>. QED
      BY <3>1, <3>2 DEF TraceOf
  <2>. QED
    BY <2>1, <2>2
<1>. QED
  BY <1>1, <1>4, <1>5, <1>6, ArgumentsNow, ArgumentsNext

(* A call ends with one value on the stack, which is its answer.           *)
LEMMA ReturnRight ==
  ASSUME MachineInv, ArgumentsInv, NEW s \in ResolveSession, Return(s)
  PROVE  ArgumentsInv'
<1>. DEFINE result == [target |-> running.target, value |-> Last(stack[s]), clean |-> s \notin threw]
<1>1. /\ Running(s) /\ instructions[s] = <<>> /\ running' = None
      /\ resolved' = result /\ stack' = [stack EXCEPT ![s] = Front(@)]
      /\ UNCHANGED <<bindings, globalCache, instructions, sessionCache, made, threw>>
  BY DEF Return, bindVars
<1>2. running # None /\ running.by = s /\ running.target \in Id \cup {Proxy}
  BY <1>1, RunningFacts DEF Running
<1>3. stack = [x \in ResolveSession |-> stack[x]] /\ CachesKeep
  BY ArgumentsNow
<1>4. stack' = [x \in ResolveSession |-> stack'[x]]
  BY <1>1, <1>3
<1>5. CachesKeep'
  BY <1>1, <1>3 DEF CachesKeep
<1>6. ASSUME s \notin threw
      PROVE  Front(stack[s]) = <<>> /\ Last(stack[s]).of \in Aliases(running.target)
  <2>. DEFINE d == Answer(running.target)
  <2>1. TraceOf(stack[s], <<>>, running, s)
    BY <1>1, <1>6, ArgumentsNow
  <2>2. PICK A \in Seq(Demand) : Meets(stack[s], A) /\ Traced(<<>>, A, <<d>>)
    BY <1>2, <2>1 DEF TraceOf, Answer
  <2>3. d \in Demand /\ d.id = running.target /\ d.optional = FALSE
    BY <1>2 DEF Answer, Demand
  <2>. HIDE DEF d
  <2>4. A = <<d>>
    BY <2>2, TraceNil
  <2>5. <<d>> = Append(<<>>, d) /\ <<>> \in Seq(Demand)
    BY <2>3
  <2>6. Meets(Front(stack[s]), <<>>) /\ Fits(Last(stack[s]), d)
    BY <2>2, <2>3, <2>4, <2>5, MeetsPop
  <2>7. Front(stack[s]) = <<>>
    <3>1. Front(stack[s]) \in Seq(Values) /\ Len(Front(stack[s])) = 0
      BY <2>6 DEF Meets
    <3>. QED
      BY <3>1, SequenceFacts
  <2>. QED
    BY <2>3, <2>6, <2>7 DEF Fits
<1>7. ASSUME NEW x \in ResolveSession \ threw'
      PROVE  TraceOf(stack'[x], instructions'[x], running', x)
  <2>1. CASE x = s
    <3>1. stack'[x] = <<>> /\ instructions'[x] = <<>>
      BY <1>1, <1>3, <1>6, <2>1
    <3>. QED
      BY <1>1, <3>1 DEF TraceOf
  <2>2. CASE x # s
    <3>1. stack'[x] = <<>> /\ instructions'[x] = <<>>
      BY <1>1, <1>2, <1>3, <2>2, IdleValues
    <3>. QED
      BY <1>1, <3>1 DEF TraceOf
  <2>. QED
    BY <2>1, <2>2
<1>8. ResolvedOf(resolved')
  BY <1>1, <1>2, <1>6 DEF ResolvedOf
<1>. QED
  BY <1>1, <1>4, <1>5, <1>7, <1>8, ArgumentsNow, ArgumentsNext

(* The class that is built next is in no cache of the session.             *)
LEMMA TopIsClass ==
  ASSUME MachineInv, NEW s \in ResolveSession \ threw, Running(s), instructions[s] # <<>>,
         Top(s).code = "BUILD"
  PROVE  Top(s).target \in Classes
<1>. DEFINE is == instructions[s]
<1>1. is \in Seq(Instr) /\ is # <<>> /\ Last(is).code = "BUILD"
  BY RunningFacts DEF Top
<1>2. Frames(is, Codes, Elaborated(s), Uncached(s))
  BY DEF MachineInv, FramesInv
<1>. HIDE DEF is
<1>3. Len(is) \in DOMAIN is
  BY <1>1, SequenceFacts
<1>4. Last(is).target \in Uncached(s)
  BY <1>1, <1>2, <1>3 DEF Frames, Pending, IsBuild, Last
<1>. QED
  BY <1>4 DEF is, Top, Uncached

(* A constructor takes its arguments from the stack, and its instance is   *)
(* pushed in their place.                                                  *)
LEMMA BuildRight ==
  ASSUME MachineInv, ArgumentsInv, NEW s \in ResolveSession, Build(s)
  PROVE  ArgumentsInv'
<1>. DEFINE top == Top(s).target
            n == Len(ParamsOf(top))
            under == SubSeq(stack[s], 1, Len(stack[s]) - n)
            taken == SubSeq(stack[s], Len(stack[s]) - n + 1, Len(stack[s]))
            instance == Value("instance", top, IF top = Proxy THEN 0 ELSE Len(made[top]) + 1)
            build == [by |-> s, args |-> taken, clean |-> s \notin threw]
<1>1. /\ Running(s) /\ instructions[s] # <<>> /\ Top(s).code = "BUILD"
      /\ instructions' = [instructions EXCEPT ![s] = Rest(s)]
      /\ UNCHANGED <<bindings, resolved>>
      /\ \/ /\ stack' = [stack EXCEPT ![s] = Append(under, instance)]
            /\ CacheIfNecessary(s, top, instance)
            /\ made' = IF top = Proxy THEN made ELSE [made EXCEPT ![top] = Append(@, build)]
            /\ UNCHANGED <<running, threw>>
         \/ /\ threw' = threw \cup {s} /\ running' = None
            /\ stack' = [stack EXCEPT ![s] = under]
            /\ UNCHANGED <<globalCache, sessionCache, made>>
  BY DEF Build, bindVars
<1>2. PICK t \in Id \cup {Proxy} : t = top
  <2>1. Top(s) \in Instr
    BY <1>1, RunningFacts
  <2>2. \A i \in Instr : i.code = "BUILD" => i.target \in Id \cup {Proxy}
    BY DEF Instr, PlanCode
  <2>. QED
    BY <1>1, <2>1, <2>2
<1>3. PICK v : v = instance
  OBVIOUS
<1>4. PICK new : new = build
  OBVIOUS
<1>5. PICK below, args : below = under /\ args = taken
  OBVIOUS
<1>6. MachineTypeOK /\ instructions \in [ResolveSession -> Seq(Instr)]
  BY DEF MachineInv, MachineTypeOK
<1>7. v \in Values /\ v.of = t /\ ~v.transformed
  <2>1. instance \in Values
    <3>1. top = Proxy \/ Len(made[top]) + 1 \in Nat
      BY <1>2, <1>6 DEF MachineTypeOK
    <3>2. (IF top = Proxy THEN 0 ELSE Len(made[top]) + 1) \in Nat
      BY <3>1
    <3>3. top \in Id \cup {Proxy, None}
      BY <1>2
    <3>. HIDE DEF top
    <3>. QED
      BY <3>2, <3>3 DEF Value, Values
  <2>2. instance.of = top /\ ~instance.transformed
    BY DEF Value
  <2>. HIDE DEF instance, top
  <2>. QED
    BY <1>2, <1>3, <2>1, <2>2
<1>8. new.args = args /\ (new.clean <=> s \notin threw)
  BY <1>4, <1>5
<1>9. running # None /\ running.by = s
  BY <1>1 DEF Running
<1>10. \/ /\ stack' = [stack EXCEPT ![s] = Append(below, v)]
          /\ CacheIfNecessary(s, t, v)
          /\ made' = IF t = Proxy THEN made ELSE [made EXCEPT ![t] = Append(@, new)]
          /\ UNCHANGED <<running, threw>>
       \/ /\ threw' = threw \cup {s} /\ running' = None
          /\ stack' = [stack EXCEPT ![s] = below]
          /\ UNCHANGED <<globalCache, sessionCache, made>>
  BY <1>1, <1>2, <1>3, <1>4, <1>5
<1>11. stack = [x \in ResolveSession |-> stack[x]] /\ CachesKeep
  BY ArgumentsNow
<1>12. stack' = [x \in ResolveSession |-> stack'[x]]
  BY <1>10, <1>11
<1>13. \A x \in ResolveSession : x # s => stack'[x] = stack[x] /\ instructions'[x] = instructions[x]
  BY <1>1, <1>6, <1>10, <1>11
<1>14. ASSUME s \notin threw
       PROVE  /\ \E B \in Seq(Demand) : Meets(Append(below, v), B) /\ Traced(Rest(s), B, <<Answer(running.target)>>)
              /\ \A k \in DOMAIN ParamsOf(t) : Fits(args[k], ParamsOf(t)[k])
  <2>1. t \in Classes /\ bindings \in [Id -> Binding \cup {None}]
    BY <1>1, <1>2, <1>6, <1>14, TopIsClass DEF MachineTypeOK
  <2>2. PICK A \in Seq(Demand), B \in Seq(Demand) :
          /\ Meets(stack[s], A) /\ Effect(Top(s), A, B)
          /\ Traced(Rest(s), B, <<Answer(running.target)>>)
    BY <1>1, <1>14, TopTraced
  <2>3. PICK rest \in Seq(Demand), d \in Demand :
          A = rest \o ParamsOf(top) /\ B = Append(rest, d) /\ top \in Aliases(d.id) /\ ~d.transform
    BY <1>1, <2>2 DEF Effect
  <2>4. PICK P : P = ParamsOf(t)
    OBVIOUS
  <2>5. P \in Seq(Demand) /\ DOMAIN P = 1 .. Len(P) /\ Len(P) = n
    <3>1. P \in Seq(Param)
      BY <2>1, <2>4, ParamsAre
    <3>2. Param \subseteq Demand
      BY DEF Param, Demand
    <3>. QED
      BY <1>2, <2>4, <3>1, <3>2
  <2>6. Meets(stack[s], rest \o P)
    BY <1>2, <2>2, <2>3, <2>4
  <2>7. /\ Meets(SubSeq(stack[s], 1, Len(stack[s]) - Len(P)), rest)
        /\ \A k \in 1 .. Len(P) : Fits(SubSeq(stack[s], Len(stack[s]) - Len(P) + 1, Len(stack[s]))[k], P[k])
    BY <2>5, <2>6, MeetsSplit
  <2>8. Meets(below, rest) /\ \A k \in 1 .. Len(P) : Fits(args[k], P[k])
    BY <1>5, <2>5, <2>7
  <2>. HIDE DEF under, taken, n
  <2>9. Fits(v, d)
    <3>1. d.transform \in BOOLEAN /\ v.transformed \in BOOLEAN
      BY <1>7 DEF Demand, Values
    <3>2. t \in Aliases(d.id)
      BY <1>2, <2>3
    <3>. QED
      BY <1>7, <2>3, <3>1, <3>2 DEF Fits
  <2>10. Meets(Append(below, v), B)
    BY <1>7, <2>3, <2>8, <2>9, MeetsPush
  <2>. QED
    BY <2>2, <2>4, <2>5, <2>8, <2>10
<1>. HIDE DEF instance, build, n, under, taken
<1>15. ASSUME NEW x \in ResolveSession \ threw'
       PROVE  TraceOf(stack'[x], instructions'[x], running', x)
  <2>1. x \notin threw
    BY <1>10
  <2>2. CASE x = s
    <3>1. stack'[x] = Append(below, v) /\ instructions'[x] = Rest(s) /\ running' = running
      BY <1>1, <1>6, <1>10, <1>11, <2>2
    <3>. QED
      BY <1>9, <1>14, <2>1, <2>2, <3>1 DEF TraceOf, Answer
  <2>3. CASE x # s
    <3>1. stack'[x] = <<>> /\ instructions'[x] = <<>>
      BY <1>9, <1>13, <2>1, <2>3, IdleValues
    <3>2. ~(running' # None /\ running'.by = x)
      BY <1>9, <1>10, <2>3
    <3>. QED
      BY <3>1, <3>2 DEF TraceOf
  <2>. QED
    BY <2>2, <2>3
<1>16. CASE /\ threw' = threw \cup {s} /\ running' = None
            /\ UNCHANGED <<globalCache, sessionCache, made>>
  <2>1. CachesKeep'
    BY <1>11, <1>16 DEF CachesKeep
  <2>. QED
    BY <1>1, <1>12, <1>15, <1>16, <2>1, ArgumentsNow, ArgumentsNext
<1>17. CASE /\ CacheIfNecessary(s, t, v)
            /\ made' = IF t = Proxy THEN made ELSE [made EXCEPT ![t] = Append(@, new)]
  <2>1. CachesKeep'
    <3>1. globalCache' = IF ScopeOf(t) = "SINGLETON" THEN [globalCache EXCEPT ![t] = v] ELSE globalCache
      BY <1>17 DEF CacheIfNecessary
    <3>2. sessionCache' = IF ScopeOf(t) = "SESSION" THEN [sessionCache EXCEPT ![s][t] = v] ELSE sessionCache
      BY <1>17 DEF CacheIfNecessary
    <3>3. /\ globalCache = [i \in Id |-> globalCache[i]]
          /\ sessionCache = [x \in ResolveSession |-> [i \in Id |-> sessionCache[x][i]]]
      BY <1>6 DEF MachineTypeOK
    <3>4. \A i \in Id : globalCache'[i] = globalCache[i] \/ (i = t /\ globalCache'[i] = v)
      BY <3>1, <3>3
    <3>5. \A x \in ResolveSession, i \in Id :
            sessionCache'[x][i] = sessionCache[x][i] \/ (i = t /\ sessionCache'[x][i] = v)
      BY <3>2, <3>3
    <3>6. Keeps(v, t)
      BY <1>7 DEF Keeps
    <3>7. \A i \in Id : Keeps(globalCache'[i], i) /\ \A x \in ResolveSession : Keeps(sessionCache'[x][i], i)
      BY <1>11, <3>4, <3>5, <3>6 DEF CachesKeep
    <3>. QED
      BY <3>7 DEF CachesKeep
  <2>2. ASSUME NEW id \in Id PROVE BuiltOf(made'[id], id)
    <3>1. BuiltOf(made[id], id)
      BY ArgumentsNow
    <3>2. made = [i \in Id |-> made[i]]
      BY <1>6 DEF MachineTypeOK
    <3>3. CASE id # t
      <4>1. made'[id] = made[id]
        BY <1>17, <3>2, <3>3
      <4>. QED
        BY <3>1, <4>1
    <3>4. CASE id = t
      <4>. DEFINE q == made[id]
      <4>1. made'[id] = Append(q, new)
        BY <1>17, <3>2, <3>4, ContainerAssumption
      <4>2. Len(q) \in Nat /\ q = [i \in 1 .. Len(q) |-> q[i]]
        BY <1>6 DEF MachineTypeOK
      <4>3. BuiltOf(q, id)
        BY <3>1
      <4>. HIDE DEF q
      <4>4. /\ DOMAIN q = 1 .. Len(q) /\ DOMAIN Append(q, new) = 1 .. Len(q) + 1
            /\ \A i \in 1 .. Len(q) : Append(q, new)[i] = q[i]
            /\ Append(q, new)[Len(q) + 1] = new
        BY <4>2, OneMore
      <4>5. PICK r : r = Append(q, new)
        OBVIOUS
      <4>6. \A i \in DOMAIN r : (i \in DOMAIN q /\ r[i] = q[i]) \/ r[i] = new
        BY <4>2, <4>4, <4>5
      <4>7. new.clean => \A k \in DOMAIN ParamsOf(id) : Fits(new.args[k], ParamsOf(id)[k])
        BY <1>8, <1>14, <3>4
      <4>8. BuiltOf(r, id)
        BY <4>3, <4>6, <4>7 DEF BuiltOf
      <4>. QED
        BY <4>1, <4>5, <4>8
    <3>. QED
      BY <3>3, <3>4
  <2>. QED
    BY <1>1, <1>12, <1>15, <2>1, <2>2, ArgumentsNow, ArgumentsNext
<1>. QED
  BY <1>10, <1>16, <1>17

(* The invariant of the values: what is left of the instructions makes an  *)
(* answer of the values on the stack (resolve-session.ts:76, :197).        *)
THEOREM ArgumentsInvariance == ContainerSpec => []ArgumentsInv
<1>1. ContainerInit => ArgumentsInv
  BY ArgumentsInitially
<1>2. ASSUME MachineInv, ArgumentsInv, [ContainerNext]_containerVars PROVE ArgumentsInv'
  <2>1. ASSUME NEW id \in Id, Bind(id) PROVE ArgumentsInv'
    BY <1>2, <2>1, BindRight
  <2>2. CASE Validate
    <3>1. UNCHANGED <<bindings, globalCache, instructions, stack, sessionCache, running, threw, made, resolved>>
      BY <2>2 DEF Validate, ghostVars
    <3>. QED
      BY <1>2, <3>1, RestsRight
  <2>3. ASSUME NEW s \in ResolveSession, NEW id \in Id \cup {Proxy}, Resolve(s, id) PROVE ArgumentsInv'
    BY <1>2, <2>3, ResolveRight
  <2>4. ASSUME NEW s \in ResolveSession, NEW id \in Id, AddTemporary(s, id) PROVE ArgumentsInv'
    BY <1>2, <2>4, AddTemporaryRight
  <2>5. ASSUME NEW s \in ResolveSession, Step(s) PROVE ArgumentsInv'
    BY <1>2, <2>5, PlanRightly, TransformRight, BuildRight, ReturnRight DEF Step
  <2>6. CASE UNCHANGED containerVars
    <3>1. UNCHANGED <<bindings, globalCache, instructions, stack, sessionCache, running, threw, made, resolved>>
      BY <2>6 DEF containerVars
    <3>. QED
      BY <1>2, <3>1, RestsRight
  <2>. QED
    BY <1>2, <2>1, <2>2, <2>3, <2>4, <2>5, <2>6 DEF ContainerNext
<1>. QED
  BY <1>1, <1>2, MachineInvariance, PTL DEF ContainerSpec

(* An instance is built from exactly what its parameters ask for, and a    *)
(* call of resolve() answers with an instance of its target and leaves     *)
(* nothing behind, unless an earlier call in the session has thrown        *)
(* (resolve-session.ts:76, :197).                                          *)
THEOREM ArgumentsAreRight == ContainerSpec => []RightArguments
<1>1. ArgumentsInv => RightArguments
  <2>. SUFFICES ASSUME ArgumentsInv PROVE RightArguments
    OBVIOUS
  <2>1. \A s \in ResolveSession \ threw :
          (running # None /\ running.by = s) \/ (stack[s] = <<>> /\ instructions[s] = <<>>)
    BY DEF ArgumentsInv, TraceInv
  <2>. QED
    BY <2>1 DEF ArgumentsInv, BuiltRight, RightArguments
<1>. QED
  BY <1>1, ArgumentsInvariance, PTL

-----------------------------------------------------------------------------
(* Loops.                                                                  *)

(* A loop of n rounds over the values of D, and what each round comes to.  *)
IsLoop(step, n, D) == n \in Nat /\ step \in [1 .. n -> [D -> D]]

RoundsFrom(f, step, n, x, D) ==
  f \in [0 .. n -> D] /\ f[0] = x /\ \A k \in 1 .. n : f[k] = step[k][f[k - 1]]

(* The recursion that counts the rounds has a solution.                    *)
LEMMA RoundsExist ==
  ASSUME NEW step, NEW n, NEW D, IsLoop(step, n, D), NEW x \in D
  PROVE  \E f : RoundsFrom(f, step, n, x, D)
<1>. n \in Nat /\ step \in [1 .. n -> [D -> D]]
  BY DEF IsLoop
<1>. DEFINE Upto(m) == {f \in [0 .. m -> D] :
                          \A k \in 0 .. m : f[k] = IF k = 0 THEN x ELSE step[k][f[k - 1]]}
            T == {m \in 0 .. n : Upto(m) = {}}
<1>1. T = {}
  <2>. SUFFICES ASSUME T # {} PROVE FALSE
    OBVIOUS
  <2>1. PICK m \in T : \A k \in T : m <= k
    <3>1. T \in SUBSET Nat
      OBVIOUS
    <3>. HIDE DEF T
    <3>. QED
      BY <3>1, Smallest
  <2>2. m \in 0 .. n /\ Upto(m) = {}
    BY <2>1
  <2>3. CASE m = 0
    <3>. DEFINE f == [k \in 0 .. 0 |-> x]
    <3>1. f \in [0 .. 0 -> D] /\ \A k \in 0 .. 0 : f[k] = IF k = 0 THEN x ELSE step[k][f[k - 1]]
      OBVIOUS
    <3>2. f \in Upto(0)
      BY <3>1
    <3>. QED
      BY <2>2, <2>3, <3>2
  <2>4. CASE m # 0
    <3>1. m - 1 \in 0 .. n /\ m \in 1 .. n /\ m - 1 \in 0 .. m - 1 /\ ~(m <= m - 1)
      BY <2>2, <2>4
    <3>2. m - 1 \notin T
      <4>. HIDE DEF T
      <4>. QED
        BY <2>1, <3>1
    <3>3. PICK g \in Upto(m - 1) : TRUE
      <4>. HIDE DEF Upto
      <4>. QED
        BY <3>1, <3>2
    <3>4. g \in [0 .. m - 1 -> D] /\ \A k \in 0 .. m - 1 : g[k] = IF k = 0 THEN x ELSE step[k][g[k - 1]]
      BY <3>3
    <3>. HIDE DEF T
    <3>. DEFINE f == [k \in 0 .. m |-> IF k = m THEN step[m][g[m - 1]] ELSE g[k]]
    <3>5. step[m][g[m - 1]] \in D
      BY <3>1, <3>4
    <3>6. f \in [0 .. m -> D]
      BY <3>1, <3>4, <3>5
    <3>7. ASSUME NEW k \in 0 .. m PROVE f[k] = IF k = 0 THEN x ELSE step[k][f[k - 1]]
      <4>1. CASE k = m
        <5>1. m - 1 \in 0 .. m /\ m - 1 # m
          BY <3>1
        <5>. QED
          BY <2>4, <4>1, <5>1
      <4>2. CASE k # m
        <5>1. k \in 0 .. m - 1
          BY <3>1, <4>2
        <5>2. k # 0 => k - 1 \in 0 .. m /\ k - 1 # m
          BY <3>1, <5>1
        <5>. QED
          BY <3>4, <4>2, <5>1, <5>2
      <4>. QED
        BY <4>1, <4>2
    <3>8. f \in Upto(m)
      BY <3>6, <3>7
    <3>. QED
      BY <2>2, <3>8
  <2>. QED
    BY <2>3, <2>4
<1>2. PICK f \in Upto(n) : TRUE
  <2>1. n \in 0 .. n
    OBVIOUS
  <2>. HIDE DEF Upto
  <2>. QED
    BY <1>1, <2>1
<1>3. f \in [0 .. n -> D] /\ \A k \in 0 .. n : f[k] = IF k = 0 THEN x ELSE step[k][f[k - 1]]
  BY <1>2
<1>4. f[0] = x /\ \A k \in 1 .. n : f[k] = step[k][f[k - 1]]
  BY <1>3
<1>. QED
  BY <1>3, <1>4 DEF RoundsFrom

(* Rounds() is where the last round comes to.                              *)
LEMMA RoundsAre ==
  ASSUME NEW step, NEW n, NEW D, IsLoop(step, n, D), NEW x \in D
  PROVE  \E f : RoundsFrom(f, step, n, x, D) /\ Rounds(step, n, x) = f[n]
<1>. DEFINE after == CHOOSE g : g = [k \in 0 .. n |-> IF k = 0 THEN x ELSE step[k][g[k - 1]]]
<1>1. Rounds(step, n, x) = after[n]
  BY DEF Rounds
<1>2. \E g : g = [k \in 0 .. n |-> IF k = 0 THEN x ELSE step[k][g[k - 1]]]
  <2>1. PICK g : RoundsFrom(g, step, n, x, D)
    BY RoundsExist
  <2>2. n \in Nat
    BY DEF IsLoop
  <2>3. \A k \in 0 .. n : g[k] = IF k = 0 THEN x ELSE step[k][g[k - 1]]
    BY <2>1, <2>2 DEF RoundsFrom
  <2>4. g = [k \in 0 .. n |-> IF k = 0 THEN x ELSE step[k][g[k - 1]]]
    BY <2>1, <2>3 DEF RoundsFrom
  <2>. QED
    BY <2>4
<1>3. after = [k \in 0 .. n |-> IF k = 0 THEN x ELSE step[k][after[k - 1]]]
  BY <1>2
<1>. HIDE DEF after
<1>4. after[0] = x /\ \A k \in 1 .. n : after[k] = step[k][after[k - 1]]
  <2>1. n \in Nat
    BY DEF IsLoop
  <2>. QED
    BY <1>3, <2>1
<1>5. PICK g : RoundsFrom(g, step, n, x, D)
  BY RoundsExist
<1>6. \A k \in 0 .. n : after[k] = g[k]
  <2>. DEFINE T == {k \in 0 .. n : after[k] # g[k]}
  <2>. SUFFICES ASSUME T # {} PROVE FALSE
    OBVIOUS
  <2>0. n \in Nat
    BY DEF IsLoop
  <2>1. PICK k \in T : \A m \in T : k <= m
    <3>1. T \in SUBSET Nat
      BY <2>0
    <3>. HIDE DEF T
    <3>. QED
      BY <3>1, Smallest
  <2>2. k # 0
    BY <1>4, <1>5, <2>1 DEF RoundsFrom
  <2>3. k \in 1 .. n /\ k - 1 \in 0 .. n /\ ~(k <= k - 1)
    BY <2>0, <2>1, <2>2
  <2>4. after[k - 1] = g[k - 1]
    BY <2>1, <2>3
  <2>5. after[k] = g[k]
    BY <1>4, <1>5, <2>3, <2>4 DEF RoundsFrom
  <2>. QED
    BY <2>1, <2>5
<1>7. after[n] = g[n]
  <2>1. n \in 0 .. n
    BY DEF IsLoop
  <2>. QED
    BY <1>6, <2>1
<1>. QED
  BY <1>1, <1>5, <1>7

(* What every round keeps is so at the end.                                *)
LEMMA RoundsKeep ==
  ASSUME NEW step, NEW n, NEW D, IsLoop(step, n, D), NEW x \in D,
         NEW Good, <<0, x>> \in Good,
         \A k \in 1 .. n, y \in D : <<k - 1, y>> \in Good => <<k, step[k][y]>> \in Good
  PROVE  Rounds(step, n, x) \in D /\ <<n, Rounds(step, n, x)>> \in Good
<1>. n \in Nat /\ step \in [1 .. n -> [D -> D]]
  BY DEF IsLoop
<1>1. PICK f : RoundsFrom(f, step, n, x, D) /\ Rounds(step, n, x) = f[n]
  BY RoundsAre
<1>. DEFINE T == {k \in 0 .. n : ~(f[k] \in D /\ <<k, f[k]>> \in Good)}
<1>2. T = {}
  <2>. SUFFICES ASSUME T # {} PROVE FALSE
    OBVIOUS
  <2>1. PICK k \in T : \A m \in T : k <= m
    <3>1. T \in SUBSET Nat
      OBVIOUS
    <3>. HIDE DEF T
    <3>. QED
      BY <3>1, Smallest
  <2>2. k \in 0 .. n /\ ~(f[k] \in D /\ <<k, f[k]>> \in Good)
    BY <2>1
  <2>3. k # 0
    <3>1. f[0] = x
      BY <1>1 DEF RoundsFrom
    <3>. QED
      BY <2>2, <3>1
  <2>4. k \in 1 .. n /\ k - 1 \in 0 .. n /\ ~(k <= k - 1)
    BY <2>2, <2>3
  <2>5. f[k] = step[k][f[k - 1]]
    BY <1>1, <2>4 DEF RoundsFrom
  <2>6. f[k - 1] \in D /\ <<k - 1, f[k - 1]>> \in Good
    BY <2>1, <2>4
  <2>. QED
    BY <2>2, <2>4, <2>5, <2>6
<1>3. f[n] \in D /\ <<n, f[n]>> \in Good
  <2>1. n \in 0 .. n /\ n \notin T
    BY <1>2
  <2>. QED
    BY <2>1
<1>. QED
  BY <1>1, <1>3

-----------------------------------------------------------------------------
(* A validation visits the bindings to an end.                             *)

VisitCalls == Id \X (SUBSET Id) \X Verdict

(* The definition of Visit, for a function f that answers the calls within.*)
Rejected(a) == [a EXCEPT !.ok = FALSE]
Finished(t, a) == IF a.ok THEN [a EXCEPT !.done = @ \cup {t}] ELSE a
Forgotten(t, a) == [a EXCEPT !.passed = {x \in @ : x[1] # t}]

Considered(f, t, path, a, p) ==
  IF ~a.ok \/ \E i \in Id : <<t, i>> \in a.passed THEN a
  ELSE IF p.id \in path THEN Rejected(a)
  ELSE IF Bound(p.id) THEN f[<<p.id, path \cup {p.id}, a>>]
  ELSE IF p.optional THEN [a EXCEPT !.passed = @ \cup {<<t, p.id>>}]
  ELSE Rejected(a)

ParamLoop(f, t, path) ==
  [k \in DOMAIN bindings[t].params |-> [a \in Verdict |-> Considered(f, t, path, a, bindings[t].params[k])]]

Visited(f, call) ==
  IF call[1] \in call[3].done THEN call[3]
  ELSE IF ~Bound(call[1]) THEN Rejected(call[3])
  ELSE CASE bindings[call[1]].type = "CONSTANT" -> call[3]
         [] bindings[call[1]].type = "INSTANCE" ->
              Finished(call[1], Rounds(ParamLoop(f, call[1], call[2]), Len(bindings[call[1]].params),
                                       Forgotten(call[1], call[3])))
         [] bindings[call[1]].type = "ALIAS" ->
              IF bindings[call[1]].to \in call[2] THEN Rejected(call[3])
              ELSE Finished(call[1], f[<<bindings[call[1]].to, call[2] \cup {bindings[call[1]].to}, call[3]>>])

(* Visit is the function that is defined by it (utils.ts:16).              *)
LEMMA VisitDef == Visit = CHOOSE f : f = [call \in VisitCalls |-> Visited(f, call)]
BY Zenon DEF Visit, Visited, VisitCalls, ParamLoop, Considered, Rejected, Finished, Forgotten

(* What a call may still put on its path.                                  *)
Room(path) == Cardinality(Id \ path)

(* There is less of it in a call within.                                   *)
LEMMA LessRoom ==
  ASSUME NEW path \in SUBSET Id, NEW i \in Id \ path
  PROVE  Room(path \cup {i}) \in Nat /\ Room(path) \in Nat /\ Room(path \cup {i}) + 1 = Room(path)
<1>1. IsFiniteSet(Id \ path) /\ Id \ (path \cup {i}) = (Id \ path) \ {i}
  <2>1. IsFiniteSet(Id)
    BY ContainerAssumption
  <2>2. IsFiniteSet(Id \ path)
    BY <2>1, FS_Difference
  <2>. QED
    BY <2>2
<1>2. Cardinality((Id \ path) \ {i}) = Cardinality(Id \ path) - 1
  BY <1>1, FS_RemoveElement
<1>3. Cardinality(Id \ path) \in Nat /\ Cardinality((Id \ path) \ {i}) \in Nat
  <2>1. IsFiniteSet((Id \ path) \ {i})
    BY <1>1, FS_RemoveElement
  <2>. QED
    BY <1>1, <2>1, FS_CardinalityType
<1>. QED
  BY <1>1, <1>2, <1>3 DEF Room

(* What is considered are verdicts.                                        *)
LEMMA VerdictParts ==
  /\ \A ok \in BOOLEAN, done \in SUBSET Id, pairs \in SUBSET (Id \X Id) :
       [ok |-> ok, done |-> done, passed |-> pairs] \in Verdict
  /\ \A a \in Verdict : a.ok \in BOOLEAN /\ a.done \in SUBSET Id /\ a.passed \in SUBSET (Id \X Id)
  /\ \A a \in Verdict : /\ Rejected(a) \in Verdict /\ ~Rejected(a).ok
                        /\ Rejected(a).done = a.done /\ Rejected(a).passed = a.passed
  /\ \A a \in Verdict, t \in Id :
       /\ Finished(t, a) \in Verdict /\ Finished(t, a).ok = a.ok
       /\ Finished(t, a).done = (IF a.ok THEN a.done \cup {t} ELSE a.done)
       /\ Finished(t, a).passed = a.passed
  /\ \A a \in Verdict, t \in Id :
       /\ Forgotten(t, a) \in Verdict /\ Forgotten(t, a).ok = a.ok
       /\ Forgotten(t, a).done = a.done
       /\ Forgotten(t, a).passed = {x \in a.passed : x[1] # t}
  /\ \A a \in Verdict, x \in Id \X Id :
       LET b == [a EXCEPT !.passed = @ \cup {x}]
       IN  /\ b \in Verdict /\ b.ok = a.ok /\ b.done = a.done /\ b.passed = a.passed \cup {x}
<1>1. \A ok \in BOOLEAN, done \in SUBSET Id, pairs \in SUBSET (Id \X Id) :
        [ok |-> ok, done |-> done, passed |-> pairs] \in Verdict
  BY DEF Verdict
<1>2. \A a \in Verdict :
        /\ a.ok \in BOOLEAN /\ a.done \in SUBSET Id /\ a.passed \in SUBSET (Id \X Id)
        /\ a = [ok |-> a.ok, done |-> a.done, passed |-> a.passed]
  BY DEF Verdict
<1>3. ASSUME NEW a \in Verdict
      PROVE  /\ Rejected(a) \in Verdict /\ ~Rejected(a).ok
             /\ Rejected(a).done = a.done /\ Rejected(a).passed = a.passed
  BY DEF Verdict, Rejected
<1>4. ASSUME NEW a \in Verdict, NEW t \in Id
      PROVE  /\ Finished(t, a) \in Verdict /\ Finished(t, a).ok = a.ok
             /\ Finished(t, a).done = (IF a.ok THEN a.done \cup {t} ELSE a.done)
             /\ Finished(t, a).passed = a.passed
  BY DEF Verdict, Finished
<1>5. ASSUME NEW a \in Verdict, NEW t \in Id
      PROVE  /\ Forgotten(t, a) \in Verdict /\ Forgotten(t, a).ok = a.ok
             /\ Forgotten(t, a).done = a.done
             /\ Forgotten(t, a).passed = {x \in a.passed : x[1] # t}
  BY DEF Verdict, Forgotten
<1>6. ASSUME NEW a \in Verdict, NEW x \in Id \X Id
      PROVE  LET b == [a EXCEPT !.passed = @ \cup {x}]
             IN  /\ b \in Verdict /\ b.ok = a.ok /\ b.done = a.done /\ b.passed = a.passed \cup {x}
  BY DEF Verdict
<1>. QED
  BY <1>1, <1>2, <1>3, <1>4, <1>5, <1>6

(* Two functions that answer the calls within alike answer a call alike.   *)
LEMMA VisitedAlike ==
  ASSUME bindings \in [Id -> Binding \cup {None}], NEW f, NEW g, NEW call \in VisitCalls,
         \A c \in VisitCalls : Room(c[2]) < Room(call[2]) => f[c] = g[c]
  PROVE  Visited(f, call) = Visited(g, call)
<1>. DEFINE t == call[1]
            path == call[2]
<1>1. t \in Id /\ path \in SUBSET Id /\ call[3] \in Verdict
  BY DEF VisitCalls
<1>2. ASSUME NEW i \in Id \ path, NEW a \in Verdict
      PROVE  f[<<i, path \cup {i}, a>>] = g[<<i, path \cup {i}, a>>]
  <2>. DEFINE c == <<i, path \cup {i}, a>>
  <2>1. c \in VisitCalls /\ c[2] = path \cup {i}
    BY <1>1, <1>2 DEF VisitCalls
  <2>2. Room(c[2]) < Room(path)
    BY <1>1, <2>1, LessRoom
  <2>. HIDE DEF c
  <2>3. f[c] = g[c]
    BY <2>1, <2>2
  <2>. QED
    BY <2>3 DEF c
<1>. HIDE DEF t, path
<1>3. ASSUME Bound(t), bindings[t].type = "ALIAS", bindings[t].to \notin path
      PROVE  f[<<bindings[t].to, path \cup {bindings[t].to}, call[3]>>]
               = g[<<bindings[t].to, path \cup {bindings[t].to}, call[3]>>]
  <2>1. bindings[t].to \in Id
    BY <1>1, <1>3, BindingParts
  <2>. QED
    BY <1>1, <1>2, <1>3, <2>1
<1>4. ASSUME Bound(t), bindings[t].type = "INSTANCE"
      PROVE  ParamLoop(f, t, path) = ParamLoop(g, t, path)
  <2>. DEFINE params == bindings[t].params
  <2>1. params \in Seq(Param)
    BY <1>1, <1>4, BindingParts
  <2>. HIDE DEF params
  <2>2. ASSUME NEW k \in DOMAIN params, NEW a \in Verdict
        PROVE  Considered(f, t, path, a, params[k]) = Considered(g, t, path, a, params[k])
    <3>1. params[k] \in Param
      BY <2>1
    <3>2. params[k].id \in Id
      BY <3>1 DEF Param
    <3>. QED
      BY <1>2, <3>2 DEF Considered
  <2>. QED
    BY <2>2 DEF ParamLoop, params
<1>. QED
  BY <1>3, <1>4 DEF Visited, t, path

(* The parameters are a loop over verdicts.                                *)
LEMMA ParamLoopIs ==
  ASSUME bindings \in [Id -> Binding \cup {None}], NEW f \in [VisitCalls -> Verdict],
         NEW t \in Id, NEW path \in SUBSET Id, Bound(t), bindings[t].type = "INSTANCE"
  PROVE  /\ bindings[t].params \in Seq(Param) /\ Len(bindings[t].params) \in Nat
         /\ IsLoop(ParamLoop(f, t, path), Len(bindings[t].params), Verdict)
         /\ \A k \in 1 .. Len(bindings[t].params), a \in Verdict :
              /\ bindings[t].params[k] \in Param
              /\ ParamLoop(f, t, path)[k][a] = Considered(f, t, path, a, bindings[t].params[k])
<1>. DEFINE params == bindings[t].params
<1>1. params \in Seq(Param)
  BY BindingParts
<1>2. Len(params) \in Nat /\ DOMAIN params = 1 .. Len(params) /\ \A k \in 1 .. Len(params) : params[k] \in Param
  BY <1>1
<1>3. ParamLoop(f, t, path)
        = [k \in 1 .. Len(params) |-> [a \in Verdict |-> Considered(f, t, path, a, params[k])]]
  BY <1>2 DEF ParamLoop
<1>. HIDE DEF params
<1>4. ASSUME NEW k \in 1 .. Len(params), NEW a \in Verdict
      PROVE  Considered(f, t, path, a, params[k]) \in Verdict
  <2>1. params[k].id \in Id
    BY <1>2 DEF Param
  <2>2. f[<<params[k].id, path \cup {params[k].id}, a>>] \in Verdict
    <3>1. <<params[k].id, path \cup {params[k].id}, a>> \in VisitCalls
      BY <2>1 DEF VisitCalls
    <3>. QED
      BY <3>1
  <2>3. <<t, params[k].id>> \in Id \X Id
    BY <2>1
  <2>4. Rejected(a) \in Verdict /\ [a EXCEPT !.passed = @ \cup {<<t, params[k].id>>}] \in Verdict
    BY <2>3, VerdictParts
  <2>. QED
    BY <2>2, <2>4 DEF Considered
<1>5. ParamLoop(f, t, path) \in [1 .. Len(params) -> [Verdict -> Verdict]]
  BY <1>3, <1>4
<1>. QED
  BY <1>1, <1>2, <1>3, <1>5 DEF IsLoop, params

(* A verdict comes of it.                                                  *)
LEMMA VisitedIs ==
  ASSUME bindings \in [Id -> Binding \cup {None}], NEW f \in [VisitCalls -> Verdict], NEW call \in VisitCalls
  PROVE  Visited(f, call) \in Verdict
<1>. DEFINE t == call[1]
            path == call[2]
            acc == call[3]
            loop == ParamLoop(f, t, path)
            n == Len(bindings[t].params)
<1>1. t \in Id /\ path \in SUBSET Id /\ acc \in Verdict
  BY DEF VisitCalls
<1>. HIDE DEF t, path, acc
<1>2. Rejected(acc) \in Verdict /\ Forgotten(t, acc) \in Verdict
  BY <1>1, VerdictParts
<1>3. ASSUME Bound(t), bindings[t].type = "INSTANCE"
      PROVE  Finished(t, Rounds(loop, n, Forgotten(t, acc))) \in Verdict
  <2>1. IsLoop(loop, n, Verdict)
    BY <1>1, <1>3, ParamLoopIs
  <2>. HIDE DEF loop, n
  <2>. DEFINE All == {<<k, a>> : k \in Nat, a \in Verdict}
  <2>2. <<0, Forgotten(t, acc)>> \in All
    BY <1>2
  <2>3. \A k \in 1 .. n, y \in Verdict : <<k - 1, y>> \in All => <<k, loop[k][y]>> \in All
    BY <2>1 DEF IsLoop
  <2>. HIDE DEF All
  <2>4. Rounds(loop, n, Forgotten(t, acc)) \in Verdict
    BY <1>2, <2>1, <2>2, <2>3, RoundsKeep
  <2>. QED
    BY <1>1, <2>4, VerdictParts
<1>4. ASSUME Bound(t), bindings[t].type = "ALIAS"
      PROVE  Finished(t, f[<<bindings[t].to, path \cup {bindings[t].to}, acc>>]) \in Verdict
  <2>1. bindings[t].to \in Id
    BY <1>1, <1>4, BindingParts
  <2>2. <<bindings[t].to, path \cup {bindings[t].to}, acc>> \in VisitCalls
    BY <1>1, <2>1 DEF VisitCalls
  <2>3. f[<<bindings[t].to, path \cup {bindings[t].to}, acc>>] \in Verdict
    BY <2>2
  <2>. QED
    BY <1>1, <2>3, VerdictParts
<1>5. Bound(t) => bindings[t].type \in {"INSTANCE", "CONSTANT", "ALIAS"}
  BY <1>1, BindingParts
<1>. QED
  BY <1>1, <1>2, <1>3, <1>4, <1>5 DEF Visited, t, path, acc

(* There is a function that answers every call as it should.               *)
LEMMA VisitsExist ==
  ASSUME bindings \in [Id -> Binding \cup {None}]
  PROVE  \E f \in [VisitCalls -> Verdict] : \A c \in VisitCalls : f[c] = Visited(f, c)
<1>. DEFINE Near(n) == {f \in [VisitCalls -> Verdict] :
                          \A c \in VisitCalls : Room(c[2]) < n => f[c] = Visited(f, c)}
            T == {n \in Nat : Near(n) = {}}
<1>1. T = {}
  <2>. SUFFICES ASSUME T # {} PROVE FALSE
    OBVIOUS
  <2>1. PICK n \in T : \A k \in T : n <= k
    <3>1. T \in SUBSET Nat
      OBVIOUS
    <3>. HIDE DEF T
    <3>. QED
      BY <3>1, Smallest
  <2>2. n \in Nat /\ Near(n) = {}
    BY <2>1
  <2>3. \A c \in VisitCalls : Room(c[2]) \in Nat /\ c[3] \in Verdict
    <3>1. ASSUME NEW c \in VisitCalls PROVE Room(c[2]) \in Nat /\ c[3] \in Verdict
      <4>1. IsFiniteSet(Id \ c[2])
        BY ContainerAssumption, FS_Difference
      <4>. QED
        BY <4>1, FS_CardinalityType DEF Room, VisitCalls
    <3>. QED
      BY <3>1
  <2>4. CASE n = 0
    <3>. DEFINE f == [c \in VisitCalls |-> c[3]]
    <3>1. f \in [VisitCalls -> Verdict]
      BY <2>3
    <3>2. \A c \in VisitCalls : ~(Room(c[2]) < 0)
      BY <2>3
    <3>. HIDE DEF f
    <3>3. f \in Near(0)
      BY <3>1, <3>2
    <3>. QED
      BY <2>2, <2>4, <3>3
  <2>5. CASE n # 0
    <3>1. n - 1 \in Nat /\ ~(n <= n - 1)
      BY <2>2, <2>5
    <3>2. n - 1 \notin T
      <4>. HIDE DEF T
      <4>. QED
        BY <2>1, <3>1
    <3>3. PICK f \in Near(n - 1) : TRUE
      <4>. HIDE DEF Near
      <4>. QED
        BY <3>1, <3>2
    <3>4. /\ f \in [VisitCalls -> Verdict]
          /\ \A c \in VisitCalls : Room(c[2]) < n - 1 => f[c] = Visited(f, c)
      BY <3>3
    <3>. DEFINE g == [c \in VisitCalls |-> Visited(f, c)]
    <3>5. g \in [VisitCalls -> Verdict]
      BY <3>4, VisitedIs
    <3>6. \A c \in VisitCalls : g[c] = Visited(f, c)
      OBVIOUS
    <3>. HIDE DEF g
    <3>7. ASSUME NEW c \in VisitCalls, Room(c[2]) < n PROVE g[c] = Visited(g, c)
      <4>1. ASSUME NEW d \in VisitCalls, Room(d[2]) < Room(c[2]) PROVE f[d] = g[d]
        <5>1. Room(d[2]) < n - 1
          BY <2>2, <2>3, <3>7, <4>1
        <5>. QED
          BY <3>4, <3>6, <5>1
      <4>2. Visited(f, c) = Visited(g, c)
        BY <4>1, VisitedAlike
      <4>. QED
        BY <3>6, <4>2
    <3>8. g \in Near(n)
      BY <3>5, <3>7
    <3>. QED
      BY <2>2, <3>8
  <2>. QED
    BY <2>4, <2>5
<1>. DEFINE N == Cardinality(Id)
<1>2. N \in Nat
  BY ContainerAssumption, FS_CardinalityType
<1>3. PICK f \in Near(N + 1) : TRUE
  <2>1. N + 1 \in Nat /\ N + 1 \notin T
    BY <1>1, <1>2
  <2>. HIDE DEF Near, N
  <2>. QED
    BY <2>1
<1>4. ASSUME NEW c \in VisitCalls PROVE Room(c[2]) < N + 1
  <2>1. Id \ c[2] \in SUBSET Id /\ IsFiniteSet(Id)
    BY ContainerAssumption
  <2>2. Cardinality(Id \ c[2]) <= Cardinality(Id) /\ Cardinality(Id \ c[2]) \in Nat
    <3>1. IsFiniteSet(Id \ c[2])
      BY <2>1, FS_Subset
    <3>. QED
      BY <2>1, <3>1, FS_Subset, FS_CardinalityType
  <2>. QED
    BY <1>2, <2>2 DEF Room
<1>. QED
  BY <1>3, <1>4

(* The equation of Visit.                                                  *)
LEMMA VisitIs ==
  ASSUME bindings \in [Id -> Binding \cup {None}]
  PROVE  Visit \in [VisitCalls -> Verdict] /\ \A c \in VisitCalls : Visit[c] = Visited(Visit, c)
<1>1. PICK f \in [VisitCalls -> Verdict] : \A c \in VisitCalls : f[c] = Visited(f, c)
  BY VisitsExist
<1>2. f = [c \in VisitCalls |-> Visited(f, c)]
  BY <1>1
<1>3. Visit = [c \in VisitCalls |-> Visited(Visit, c)]
  BY <1>2, VisitDef
<1>4. \A c \in VisitCalls : Visit[c] = Visited(Visit, c)
  BY <1>3
<1>. DEFINE T == {c \in VisitCalls : f[c] # Visit[c]}
            Rooms == {Room(c[2]) : c \in T}
<1>5. T = {}
  <2>. SUFFICES ASSUME T # {} PROVE FALSE
    OBVIOUS
  <2>1. Rooms \in SUBSET Nat /\ Rooms # {}
    <3>1. ASSUME NEW c \in VisitCalls PROVE Room(c[2]) \in Nat
      <4>1. IsFiniteSet(Id \ c[2])
        BY ContainerAssumption, FS_Difference
      <4>. QED
        BY <4>1, FS_CardinalityType DEF Room
    <3>. QED
      BY <3>1
  <2>2. PICK m \in Rooms : \A k \in Rooms : m <= k
    <3>. HIDE DEF Rooms
    <3>. QED
      BY <2>1, Smallest
  <2>3. PICK c \in T : m = Room(c[2])
    OBVIOUS
  <2>4. ASSUME NEW d \in VisitCalls, Room(d[2]) < Room(c[2]) PROVE f[d] = Visit[d]
    <3>1. SUFFICES ASSUME d \in T PROVE FALSE
      BY <2>4
    <3>2. Room(d[2]) \in Rooms
      BY <3>1
    <3>3. m <= Room(d[2]) /\ m \in Nat /\ Room(d[2]) \in Nat
      <4>. HIDE DEF Rooms
      <4>. QED
        BY <2>1, <2>2, <3>2
    <3>. QED
      BY <2>3, <2>4, <3>3
  <2>5. c \in VisitCalls
    OBVIOUS
  <2>6. Visited(f, c) = Visited(Visit, c)
    BY <2>4, <2>5, VisitedAlike
  <2>. QED
    BY <1>1, <1>4, <2>5, <2>6
<1>6. \A c \in VisitCalls : Visit[c] = f[c]
  BY <1>5
<1>7. Visit = f
  BY <1>3, <1>6
<1>. QED
  BY <1>4, <1>7

-----------------------------------------------------------------------------
(* What a validation has looked at needs nothing that goes round in        *)
(* circles: the ids it is done with can be ranked, each above what it needs*)
(* itself.  A constant is known without being looked at.                   *)

Known(b, id, done) == id \in done \/ (b[id] # None /\ b[id].type = "CONSTANT")

Under(b, id, r, done, rank) == Known(b, id, done) /\ (id \in done => rank[id] < r)

(* An id of rank r: all it needs is of a lower one, up to a parameter at   *)
(* which the search stopped.                                               *)
LookedAt(b, id, r, done, pairs, rank) ==
  /\ b[id] # None /\ b[id].type # "CONSTANT"
  /\ b[id].type = "ALIAS" => Under(b, b[id].to, r, done, rank)
  /\ b[id].type = "INSTANCE" =>
       \E n \in 0 .. Len(b[id].params) :
         /\ \A k \in 1 .. n : Under(b, b[id].params[k].id, r, done, rank)
         /\ n < Len(b[id].params) =>
              /\ b[id].params[n + 1].optional
              /\ <<id, b[id].params[n + 1].id>> \in pairs

Ranks(b, rank, done, pairs) ==
  /\ rank \in [Id -> Nat]
  /\ \A id \in done : rank[id] \in 1 .. Cardinality(done) /\ LookedAt(b, id, rank[id], done, pairs, rank)

Sound(b, done, pairs) ==
  (\A x \in pairs : IsClass(b[x[1]])) /\ \E rank : Ranks(b, rank, done, pairs)

(* What has been looked at stays so.                                       *)
LEMMA LookedStays ==
  ASSUME NEW id, NEW r, NEW done, NEW pairs, NEW rank, LookedAt(bindings, id, r, done, pairs, rank),
         NEW done2, NEW pairs2, NEW rank2, done \subseteq done2,
         \A d \in done2 \ done : ~(Bound(d) /\ bindings[d].type = "CONSTANT"),
         \A d \in done : rank2[d] = rank[d],
         \A i : <<id, i>> \in pairs => <<id, i>> \in pairs2
  PROVE  LookedAt(bindings, id, r, done2, pairs2, rank2)
<1>1. \A d : Under(bindings, d, r, done, rank) => Under(bindings, d, r, done2, rank2)
  BY DEF Under, Known, Bound
<1>2. bindings[id].type = "INSTANCE" =>
       \E n \in 0 .. Len(bindings[id].params) :
         /\ \A k \in 1 .. n : Under(bindings, bindings[id].params[k].id, r, done2, rank2)
         /\ n < Len(bindings[id].params) =>
              /\ bindings[id].params[n + 1].optional
              /\ <<id, bindings[id].params[n + 1].id>> \in pairs2
  <2>. SUFFICES ASSUME bindings[id].type = "INSTANCE"
       PROVE \E n \in 0 .. Len(bindings[id].params) :
         /\ \A k \in 1 .. n : Under(bindings, bindings[id].params[k].id, r, done2, rank2)
         /\ n < Len(bindings[id].params) =>
              /\ bindings[id].params[n + 1].optional
              /\ <<id, bindings[id].params[n + 1].id>> \in pairs2
    OBVIOUS
  <2>1. PICK n \in 0 .. Len(bindings[id].params) :
         /\ \A k \in 1 .. n : Under(bindings, bindings[id].params[k].id, r, done, rank)
         /\ n < Len(bindings[id].params) =>
              /\ bindings[id].params[n + 1].optional
              /\ <<id, bindings[id].params[n + 1].id>> \in pairs
    BY DEF LookedAt
  <2>. QED
    BY <1>1, <2>1
<1>. QED
  BY <1>1, <1>2 DEF LookedAt

(* Other pairs do for the ids that are done with.                          *)
LEMMA SoundPairs ==
  ASSUME NEW done, NEW pairs, Sound(bindings, done, pairs), NEW pairs2,
         \A x \in pairs2 : IsClass(bindings[x[1]]),
         \A id \in done : \A i : <<id, i>> \in pairs => <<id, i>> \in pairs2
  PROVE  Sound(bindings, done, pairs2)
<1>1. PICK rank : Ranks(bindings, rank, done, pairs)
  BY DEF Sound
<1>2. ASSUME NEW id \in done PROVE LookedAt(bindings, id, rank[id], done, pairs2, rank)
  <2>1. LookedAt(bindings, id, rank[id], done, pairs, rank)
    BY <1>1 DEF Ranks
  <2>. QED
    BY <2>1, LookedStays
<1>3. Ranks(bindings, rank, done, pairs2)
  BY <1>1, <1>2 DEF Ranks
<1>. QED
  BY <1>3 DEF Sound

(* One more id is done with when what it needs is known: it gets the       *)
(* highest rank.                                                           *)
LEMMA SoundFinish ==
  ASSUME NEW done \in SUBSET Id, NEW pairs, Sound(bindings, done, pairs), NEW t \in Id,
         Bound(t), bindings[t].type # "CONSTANT",
         bindings[t].type = "ALIAS" => Known(bindings, bindings[t].to, done),
         bindings[t].type = "INSTANCE" =>
           \E n \in 0 .. Len(bindings[t].params) :
             /\ \A k \in 1 .. n : Known(bindings, bindings[t].params[k].id, done)
             /\ n < Len(bindings[t].params) =>
                  /\ bindings[t].params[n + 1].optional
                  /\ <<t, bindings[t].params[n + 1].id>> \in pairs
  PROVE  Sound(bindings, done \cup {t}, pairs)
<1>1. CASE t \in done
  <2>1. done \cup {t} = done
    BY <1>1
  <2>. QED
    BY <2>1
<1>2. CASE t \notin done
  <2>1. PICK rank : Ranks(bindings, rank, done, pairs)
    BY DEF Sound
  <2>. DEFINE done2 == done \cup {t}
              c == Cardinality(done)
              rank2 == [rank EXCEPT ![t] = c + 1]
  <2>2. c \in Nat /\ Cardinality(done2) = c + 1
    <3>1. IsFiniteSet(done)
      BY ContainerAssumption, FS_Subset
    <3>. QED
      BY <1>2, <3>1, FS_AddElement, FS_CardinalityType
  <2>3. /\ rank \in [Id -> Nat]
        /\ \A id \in done : rank[id] \in 1 .. c /\ LookedAt(bindings, id, rank[id], done, pairs, rank)
    BY <2>1 DEF Ranks
  <2>4. rank2 \in [Id -> Nat] /\ rank2[t] = c + 1 /\ \A id \in done : rank2[id] = rank[id]
    BY <1>2, <2>2, <2>3
  <2>. HIDE DEF rank2, c
  <2>5. \A d \in done2 \ done : ~(Bound(d) /\ bindings[d].type = "CONSTANT")
    OBVIOUS
  <2>6. ASSUME NEW id \in done PROVE LookedAt(bindings, id, rank2[id], done2, pairs, rank2)
    <3>1. LookedAt(bindings, id, rank[id], done, pairs, rank) /\ done \subseteq done2
      BY <2>3
    <3>. HIDE DEF done2
    <3>2. LookedAt(bindings, id, rank[id], done2, pairs, rank2)
      BY <2>4, <2>5, <3>1, LookedStays
    <3>. QED
      BY <2>4, <3>2
  <2>7. LookedAt(bindings, t, rank2[t], done2, pairs, rank2)
    <3>1. ASSUME NEW d, Known(bindings, d, done) PROVE Under(bindings, d, c + 1, done2, rank2)
      <4>1. d # t
        BY <1>2, <3>1 DEF Known
      <4>2. d \in done => rank2[d] < c + 1
        BY <2>2, <2>3, <2>4
      <4>. QED
        BY <3>1, <4>1, <4>2 DEF Under, Known
    <3>2. bindings[t].type = "ALIAS" => Under(bindings, bindings[t].to, c + 1, done2, rank2)
      BY <3>1
    <3>3. ASSUME bindings[t].type = "INSTANCE"
          PROVE \E n \in 0 .. Len(bindings[t].params) :
             /\ \A k \in 1 .. n : Under(bindings, bindings[t].params[k].id, c + 1, done2, rank2)
             /\ n < Len(bindings[t].params) =>
                  /\ bindings[t].params[n + 1].optional
                  /\ <<t, bindings[t].params[n + 1].id>> \in pairs
      <4>1. PICK n \in 0 .. Len(bindings[t].params) :
             /\ \A k \in 1 .. n : Known(bindings, bindings[t].params[k].id, done)
             /\ n < Len(bindings[t].params) =>
                  /\ bindings[t].params[n + 1].optional
                  /\ <<t, bindings[t].params[n + 1].id>> \in pairs
        BY <3>3
      <4>. QED
        BY <3>1, <4>1
    <3>. HIDE DEF done2
    <3>. QED
      BY <2>4, <3>2, <3>3 DEF LookedAt, Bound
  <2>8. \A id \in done2 :
          rank2[id] \in 1 .. Cardinality(done2) /\ LookedAt(bindings, id, rank2[id], done2, pairs, rank2)
    <3>1. \A id \in done : rank2[id] \in 1 .. c + 1
      BY <2>2, <2>3, <2>4
    <3>2. rank2[t] \in 1 .. c + 1
      BY <2>2, <2>4
    <3>. QED
      BY <2>2, <2>6, <2>7, <3>1, <3>2
  <2>9. Ranks(bindings, rank2, done2, pairs)
    BY <2>4, <2>8 DEF Ranks
  <2>. QED
    BY <2>9 DEF Sound
<1>. QED
  BY <1>1, <1>2

(* What a verdict keeps of an earlier one, but for the parameters at which *)
(* the search has stopped looking at the ids of open.                      *)
Carries(a, b, open) ==
  /\ b.ok => a.ok
  /\ a.done \subseteq b.done
  /\ \A x \in a.passed : x[1] \in a.done => x \in b.passed
  /\ b.ok => \A x \in b.passed : x \in a.passed \/ x[1] \in b.done \cup open
  /\ Sound(bindings, a.done, a.passed) => Sound(bindings, b.done, b.passed)

(* One call of the search after another.                                   *)
LEMMA CarriesOn ==
  ASSUME NEW a \in Verdict, NEW b \in Verdict, NEW c \in Verdict, NEW open,
         Carries(a, b, open), Carries(b, c, open)
  PROVE  Carries(a, c, open)
<1>1. /\ c.ok => a.ok
      /\ a.done \subseteq c.done
      /\ Sound(bindings, a.done, a.passed) => Sound(bindings, c.done, c.passed)
  BY Zenon DEF Carries
<1>2. \A x \in a.passed : x[1] \in a.done => x \in c.passed
  BY DEF Carries
<1>3. ASSUME c.ok, NEW x \in c.passed PROVE x \in a.passed \/ x[1] \in c.done \cup open
  BY <1>3 DEF Carries
<1>. QED
  BY <1>1, <1>2, <1>3 DEF Carries

(* What a call of the search promises.                                     *)
Promise(call, b) == Carries(call[3], b, {}) /\ (b.ok => Known(bindings, call[1], b.done))

(* A call that rejects promises little.                                    *)
LEMMA RejectPromises ==
  ASSUME NEW call \in VisitCalls
  PROVE  Promise(call, Rejected(call[3]))
<1>1. call[3] \in Verdict
  BY DEF VisitCalls
<1>. DEFINE a == call[3]
            b == Rejected(a)
<1>2. ~b.ok /\ b.done = a.done /\ b.passed = a.passed
  BY <1>1, VerdictParts
<1>. HIDE DEF b
<1>. QED
  BY <1>2 DEF Promise, Carries, b

(* How far the search has come with the parameters of t in k rounds: those *)
(* before n are known, and at the next one it has stopped unless n is k.   *)
Progress(t, k, a) ==
  \E n \in 0 .. k :
    /\ \A j \in 1 .. n : Known(bindings, bindings[t].params[j].id, a.done)
    /\ IF n < k THEN /\ bindings[t].params[n + 1].optional
                     /\ <<t, bindings[t].params[n + 1].id>> \in a.passed
       ELSE \A i \in Id : <<t, i>> \notin a.passed

Underway(t, acc, k, a) ==
  Carries(acc, a, {t}) /\ (a.ok => t \in a.done \/ Progress(t, k, a))

(* One round.                                                              *)
LEMMA RoundPromises ==
  ASSUME bindings \in [Id -> Binding \cup {None}], NEW f, NEW t \in Id, NEW path \in SUBSET Id,
         NEW acc \in Verdict, Bound(t), bindings[t].type = "INSTANCE",
         NEW k \in 1 .. Len(bindings[t].params), bindings[t].params[k] \in Param,
         \A i \in Id \ path, a \in Verdict :
           LET b == f[<<i, path \cup {i}, a>>]
           IN  b \in Verdict /\ Promise(<<i, path \cup {i}, a>>, b),
         NEW a \in Verdict, Underway(t, acc, k - 1, a)
  PROVE  Underway(t, acc, k, Considered(f, t, path, a, bindings[t].params[k]))
<1>. DEFINE p == bindings[t].params[k]
            b == Considered(f, t, path, a, p)
<1>0. /\ p.id \in Id /\ k \in Nat /\ k - 1 \in Nat /\ k >= 1 /\ k <= Len(bindings[t].params)
      /\ Len(bindings[t].params) \in Nat /\ (k - 1) + 1 = k
  <2>1. bindings[t].params \in Seq(Param)
    BY BindingParts
  <2>. QED
    BY <2>1 DEF Param
<1>1. a.ok \in BOOLEAN /\ a.done \in SUBSET Id /\ a.passed \in SUBSET (Id \X Id)
  BY VerdictParts
<1>2. Carries(acc, a, {t}) /\ (a.ok => t \in a.done \/ Progress(t, k - 1, a))
  BY DEF Underway
<1>3. b = IF ~a.ok \/ \E i \in Id : <<t, i>> \in a.passed THEN a
          ELSE IF p.id \in path THEN Rejected(a)
          ELSE IF Bound(p.id) THEN f[<<p.id, path \cup {p.id}, a>>]
          ELSE IF p.optional THEN [a EXCEPT !.passed = @ \cup {<<t, p.id>>}]
          ELSE Rejected(a)
  BY DEF Considered
<1>. HIDE DEF b
<1>4. CASE b = Rejected(a)
  <2>1. ~b.ok /\ b.done = a.done /\ b.passed = a.passed
    BY <1>4, VerdictParts
  <2>. QED
    BY <1>2, <2>1 DEF Underway, Carries, b
<1>5. CASE ~a.ok
  BY <1>2, <1>3, <1>5 DEF Underway, b
<1>6. CASE a.ok /\ \E i \in Id : <<t, i>> \in a.passed
  <2>1. b = a
    BY <1>3, <1>6
  <2>2. ASSUME Progress(t, k - 1, a) PROVE Progress(t, k, a)
    <3>1. PICK n \in 0 .. k - 1 :
            /\ \A j \in 1 .. n : Known(bindings, bindings[t].params[j].id, a.done)
            /\ IF n < k - 1 THEN /\ bindings[t].params[n + 1].optional
                                 /\ <<t, bindings[t].params[n + 1].id>> \in a.passed
               ELSE \A i \in Id : <<t, i>> \notin a.passed
      BY <2>2 DEF Progress
    <3>2. n < k - 1 /\ n \in 0 .. k /\ n < k
      BY <1>0, <1>6, <3>1
    <3>. QED
      BY <3>1, <3>2 DEF Progress
  <2>. QED
    BY <1>2, <2>1, <2>2 DEF Underway, b
<1>7. ASSUME a.ok, \A i \in Id : <<t, i>> \notin a.passed, t \notin a.done
      PROVE  \A j \in 1 .. k - 1 : Known(bindings, bindings[t].params[j].id, a.done)
  <2>1. PICK n \in 0 .. k - 1 :
          /\ \A j \in 1 .. n : Known(bindings, bindings[t].params[j].id, a.done)
          /\ IF n < k - 1 THEN /\ bindings[t].params[n + 1].optional
                               /\ <<t, bindings[t].params[n + 1].id>> \in a.passed
             ELSE \A i \in Id : <<t, i>> \notin a.passed
    BY <1>2, <1>7 DEF Progress
  <2>2. CASE n < k - 1
    <3>1. <<t, bindings[t].params[n + 1].id>> \in a.passed
      BY <2>1, <2>2
    <3>2. bindings[t].params[n + 1].id \in Id
      BY <1>1, <3>1
    <3>. QED
      BY <1>7, <3>1, <3>2
  <2>3. CASE ~(n < k - 1)
    <3>1. n = k - 1
      BY <1>0, <2>3
    <3>. QED
      BY <2>1, <3>1
  <2>. QED
    BY <2>2, <2>3
<1>8. CASE a.ok /\ (\A i \in Id : <<t, i>> \notin a.passed) /\ p.id \notin path /\ Bound(p.id)
  <2>. DEFINE call == <<p.id, path \cup {p.id}, a>>
  <2>1. b = f[call]
    BY <1>3, <1>8
  <2>2. b \in Verdict /\ Promise(call, b) /\ call[3] = a /\ call[1] = p.id
    BY <1>0, <1>8, <2>1
  <2>3. Carries(a, b, {}) /\ (b.ok => Known(bindings, p.id, b.done))
    BY <2>2 DEF Promise
  <2>4. Carries(a, b, {t})
    BY <2>3 DEF Carries
  <2>5. Carries(acc, b, {t})
    BY <1>2, <2>2, <2>4, CarriesOn
  <2>6. ASSUME b.ok, t \notin b.done PROVE Progress(t, k, b)
    <3>1. a.done \subseteq b.done /\ \A x \in b.passed : x \in a.passed \/ x[1] \in b.done
      BY <2>3, <2>6 DEF Carries
    <3>2. \A i \in Id : <<t, i>> \notin b.passed
      BY <1>8, <2>6, <3>1
    <3>3. \A j \in 1 .. k - 1 : Known(bindings, bindings[t].params[j].id, b.done)
      BY <1>7, <1>8, <2>6, <3>1 DEF Known
    <3>4. Known(bindings, bindings[t].params[k].id, b.done)
      BY <2>3, <2>6
    <3>5. \A j \in 1 .. k : j = k \/ j \in 1 .. k - 1
      BY <1>0
    <3>6. \A j \in 1 .. k : Known(bindings, bindings[t].params[j].id, b.done)
      BY <3>3, <3>4, <3>5
    <3>7. k \in 0 .. k /\ ~(k < k)
      BY <1>0
    <3>. QED
      BY <3>2, <3>6, <3>7 DEF Progress
  <2>. QED
    BY <2>5, <2>6 DEF Underway, b
<1>9. CASE /\ a.ok /\ (\A i \in Id : <<t, i>> \notin a.passed) /\ p.id \notin path /\ ~Bound(p.id)
           /\ p.optional
  <2>. DEFINE x == <<t, p.id>>
  <2>1. b = [a EXCEPT !.passed = @ \cup {x}]
    BY <1>3, <1>9
  <2>2. x \in Id \X Id /\ x[1] = t
    BY <1>0
  <2>. HIDE DEF x
  <2>3. b.ok = a.ok /\ b.done = a.done /\ b.passed = a.passed \cup {x} /\ b \in Verdict
    BY <2>1, <2>2, VerdictParts
  <2>4. ASSUME Sound(bindings, a.done, a.passed) PROVE Sound(bindings, b.done, b.passed)
    <3>1. IsClass(bindings[x[1]])
      BY <2>2 DEF IsClass, Bound
    <3>2. \A y \in b.passed : IsClass(bindings[y[1]])
      BY <2>3, <2>4, <3>1 DEF Sound
    <3>3. Sound(bindings, a.done, b.passed)
      BY <2>3, <2>4, <3>2, SoundPairs
    <3>. QED
      BY <2>3, <3>3
  <2>5. Carries(a, b, {t})
    BY <2>2, <2>3, <2>4 DEF Carries
  <2>6. Carries(acc, b, {t})
    BY <1>2, <2>3, <2>5, CarriesOn
  <2>7. ASSUME t \notin b.done PROVE Progress(t, k, b)
    <3>1. \A j \in 1 .. k - 1 : Known(bindings, bindings[t].params[j].id, b.done)
      BY <1>7, <1>9, <2>3, <2>7
    <3>2. <<t, bindings[t].params[(k - 1) + 1].id>> \in b.passed
      BY <1>0, <2>3 DEF x
    <3>3. k - 1 \in 0 .. k /\ k - 1 < k
      BY <1>0
    <3>4. bindings[t].params[(k - 1) + 1].optional
      BY <1>0, <1>9
    <3>. QED
      BY <3>1, <3>2, <3>3, <3>4 DEF Progress
  <2>. QED
    BY <2>6, <2>7 DEF Underway, b
<1>. QED
  BY <1>3, <1>4, <1>5, <1>6, <1>8, <1>9

(* All rounds.                                                             *)
LEMMA ParamsPromise ==
  ASSUME bindings \in [Id -> Binding \cup {None}], NEW f \in [VisitCalls -> Verdict],
         NEW t \in Id, NEW path \in SUBSET Id, NEW acc \in Verdict, t \notin acc.done,
         Bound(t), bindings[t].type = "INSTANCE",
         \A i \in Id \ path, a \in Verdict : Promise(<<i, path \cup {i}, a>>, f[<<i, path \cup {i}, a>>])
  PROVE  Promise(<<t, path, acc>>, Finished(t, Rounds(ParamLoop(f, t, path), Len(bindings[t].params),
                                                      Forgotten(t, acc))))
<1>. DEFINE n == Len(bindings[t].params)
            loop == ParamLoop(f, t, path)
            start == Forgotten(t, acc)
            end == Rounds(loop, n, start)
            Good == {x \in Nat \X Verdict : Underway(t, acc, x[1], x[2])}
<1>1. n \in Nat /\ IsLoop(loop, n, Verdict)
  BY ParamLoopIs
<1>2. \A k \in 1 .. n, a \in Verdict :
        /\ bindings[t].params[k] \in Param
        /\ loop[k][a] = Considered(f, t, path, a, bindings[t].params[k])
  BY ParamLoopIs
<1>. HIDE DEF loop
<1>3. start \in Verdict /\ Underway(t, acc, 0, start)
  <2>1. /\ start \in Verdict /\ start.ok = acc.ok /\ start.done = acc.done
        /\ start.passed = {x \in acc.passed : x[1] # t}
    BY VerdictParts
  <2>. HIDE DEF start
  <2>2. ASSUME Sound(bindings, acc.done, acc.passed) PROVE Sound(bindings, start.done, start.passed)
    <3>1. \A x \in start.passed : IsClass(bindings[x[1]])
      BY <2>1, <2>2 DEF Sound
    <3>2. \A id \in acc.done : \A i : <<id, i>> \in acc.passed => <<id, i>> \in start.passed
      BY <2>1
    <3>3. Sound(bindings, acc.done, start.passed)
      BY <2>2, <3>1, <3>2, SoundPairs
    <3>. QED
      BY <2>1, <3>3
  <2>3. Carries(acc, start, {t})
    BY <2>1, <2>2 DEF Carries
  <2>4. Progress(t, 0, start)
    <3>1. \A i \in Id : <<t, i>> \notin start.passed
      BY <2>1
    <3>2. 0 \in 0 .. 0 /\ ~(0 < 0) /\ 1 .. 0 = {}
      OBVIOUS
    <3>. QED
      BY <3>1, <3>2 DEF Progress
  <2>. QED
    BY <2>1, <2>3, <2>4 DEF Underway
<1>. HIDE DEF start
<1>4. <<0, start>> \in Good
  BY <1>3
<1>5. ASSUME NEW k \in 1 .. n, NEW a \in Verdict, <<k - 1, a>> \in Good
      PROVE  <<k, loop[k][a]>> \in Good
  <2>1. Underway(t, acc, k - 1, a)
    BY <1>5
  <2>2. ASSUME NEW i \in Id \ path, NEW b \in Verdict
        PROVE  f[<<i, path \cup {i}, b>>] \in Verdict
    <3>1. <<i, path \cup {i}, b>> \in VisitCalls
      BY DEF VisitCalls
    <3>. QED
      BY <3>1
  <2>3. Underway(t, acc, k, Considered(f, t, path, a, bindings[t].params[k]))
    BY <1>2, <2>1, <2>2, RoundPromises
  <2>4. loop[k][a] \in Verdict /\ k \in Nat
    BY <1>1 DEF IsLoop
  <2>. QED
    BY <1>2, <2>3, <2>4
<1>6. end \in Verdict /\ <<n, end>> \in Good
  <2>. HIDE DEF n, Good
  <2>. QED
    BY <1>1, <1>3, <1>4, <1>5, RoundsKeep
<1>7. Carries(acc, end, {t}) /\ (end.ok => t \in end.done \/ Progress(t, n, end))
  BY <1>6 DEF Underway
<1>. HIDE DEF end
<1>. DEFINE b == Finished(t, end)
<1>8. /\ b.ok = end.ok /\ b.passed = end.passed
      /\ b.done = IF end.ok THEN end.done \cup {t} ELSE end.done
  BY <1>6, VerdictParts
<1>. HIDE DEF b
<1>9. ASSUME end.ok, Sound(bindings, end.done, end.passed) PROVE Sound(bindings, end.done \cup {t}, end.passed)
  <2>1. CASE t \in end.done
    <3>1. end.done \cup {t} = end.done
      BY <2>1
    <3>. QED
      BY <1>9, <3>1
  <2>2. CASE t \notin end.done
    <3>1. PICK m \in 0 .. n :
            /\ \A j \in 1 .. m : Known(bindings, bindings[t].params[j].id, end.done)
            /\ IF m < n THEN /\ bindings[t].params[m + 1].optional
                             /\ <<t, bindings[t].params[m + 1].id>> \in end.passed
               ELSE \A i \in Id : <<t, i>> \notin end.passed
      BY <1>7, <1>9, <2>2 DEF Progress
    <3>2. end.done \in SUBSET Id
      BY <1>6, VerdictParts
    <3>3. bindings[t].type # "CONSTANT" /\ bindings[t].type # "ALIAS"
      OBVIOUS
    <3>4. \E m2 \in 0 .. Len(bindings[t].params) :
             /\ \A k \in 1 .. m2 : Known(bindings, bindings[t].params[k].id, end.done)
             /\ m2 < Len(bindings[t].params) =>
                  /\ bindings[t].params[m2 + 1].optional
                  /\ <<t, bindings[t].params[m2 + 1].id>> \in end.passed
      BY <3>1
    <3>. QED
      BY <1>9, <3>2, <3>3, <3>4, SoundFinish
  <2>. QED
    BY <2>1, <2>2
<1>10. Carries(acc, b, {})
  <2>1. /\ b.ok => acc.ok
        /\ acc.done \subseteq b.done /\ \A x \in acc.passed : x[1] \in acc.done => x \in b.passed
    BY <1>7, <1>8 DEF Carries
  <2>2. b.ok => \A x \in b.passed : x \in acc.passed \/ x[1] \in b.done
    BY <1>7, <1>8 DEF Carries
  <2>3. Sound(bindings, acc.done, acc.passed) => Sound(bindings, end.done, end.passed)
    BY <1>7 DEF Carries
  <2>4. Sound(bindings, acc.done, acc.passed) => Sound(bindings, b.done, b.passed)
    <3>1. CASE end.ok
      BY <1>8, <1>9, <2>3, <3>1
    <3>2. CASE ~end.ok
      BY <1>8, <2>3, <3>2
    <3>. QED
      BY <3>1, <3>2
  <2>. QED
    BY <2>1, <2>2, <2>4 DEF Carries
<1>11. b.ok => Known(bindings, t, b.done)
  BY <1>8 DEF Known
<1>. QED
  BY <1>10, <1>11 DEF Promise, b, end, start, loop

(* The search as a whole.                                                  *)
LEMMA VisitPromises ==
  ASSUME bindings \in [Id -> Binding \cup {None}], NEW call \in VisitCalls
  PROVE  Visit[call] \in Verdict /\ Promise(call, Visit[call])
<1>. DEFINE Broken == {c \in VisitCalls : ~Promise(c, Visit[c])}
            Rooms == {Room(c[2]) : c \in Broken}
<1>1. Visit \in [VisitCalls -> Verdict] /\ \A c \in VisitCalls : Visit[c] = Visited(Visit, c)
  BY VisitIs
<1>2. Broken = {}
  <2>. SUFFICES ASSUME Broken # {} PROVE FALSE
    OBVIOUS
  <2>1. Rooms \in SUBSET Nat /\ Rooms # {}
    <3>1. ASSUME NEW c \in VisitCalls PROVE Room(c[2]) \in Nat
      <4>1. IsFiniteSet(Id \ c[2])
        BY ContainerAssumption, FS_Difference
      <4>. QED
        BY <4>1, FS_CardinalityType DEF Room
    <3>. QED
      BY <3>1
  <2>2. PICK m \in Rooms : \A k \in Rooms : m <= k
    <3>. HIDE DEF Rooms
    <3>. QED
      BY <2>1, Smallest
  <2>3. PICK c \in Broken : m = Room(c[2])
    OBVIOUS
  <2>4. c \in VisitCalls /\ ~Promise(c, Visit[c])
    OBVIOUS
  <2>. DEFINE t == c[1]
              path == c[2]
              acc == c[3]
  <2>5. t \in Id /\ path \in SUBSET Id /\ acc \in Verdict /\ c = <<t, path, acc>>
    BY <2>4 DEF VisitCalls
  <2>. HIDE DEF t, path, acc
  <2>6. ASSUME NEW i \in Id \ path, NEW a \in Verdict
        PROVE  /\ Visit[<<i, path \cup {i}, a>>] \in Verdict
               /\ Promise(<<i, path \cup {i}, a>>, Visit[<<i, path \cup {i}, a>>])
    <3>. DEFINE d == <<i, path \cup {i}, a>>
    <3>1. d \in VisitCalls /\ d[2] = path \cup {i}
      BY <2>5 DEF VisitCalls
    <3>2. Room(d[2]) \in Nat /\ Room(path) \in Nat /\ Room(d[2]) + 1 = Room(path)
      BY <2>5, <3>1, LessRoom
    <3>3. ~(m <= Room(d[2]))
      BY <2>3, <3>2 DEF path
    <3>. HIDE DEF d
    <3>4. Room(d[2]) \notin Rooms
      <4>. HIDE DEF Rooms
      <4>. QED
        BY <2>2, <3>3
    <3>5. d \notin Broken
      BY <3>4
    <3>. QED
      BY <1>1, <3>1, <3>5 DEF d
  <2>7. Visit[c] = Visited(Visit, c)
    BY <1>1, <2>4
  <2>8. Promise(c, Rejected(acc))
    BY <2>4, RejectPromises DEF acc
  <2>9. CASE t \in acc.done
    <3>1. Visit[c] = acc
      BY <2>7, <2>9 DEF Visited, t, acc
    <3>2. Promise(c, acc)
      BY <2>9 DEF Promise, Carries, Known, t, acc
    <3>. QED
      BY <2>4, <3>1, <3>2
  <2>10. CASE t \notin acc.done /\ ~Bound(t)
    <3>1. Visit[c] = Rejected(acc)
      BY <2>7, <2>10 DEF Visited, t, acc
    <3>. QED
      BY <2>4, <2>8, <3>1
  <2>11. CASE t \notin acc.done /\ Bound(t) /\ bindings[t].type = "CONSTANT"
    <3>1. Visit[c] = acc
      BY <2>7, <2>11 DEF Visited, t, acc
    <3>2. Promise(c, acc)
      BY <2>11 DEF Promise, Carries, Known, t, acc, Bound
    <3>. QED
      BY <2>4, <3>1, <3>2
  <2>12. CASE t \notin acc.done /\ Bound(t) /\ bindings[t].type = "INSTANCE"
    <3>1. Visit[c] = Finished(t, Rounds(ParamLoop(Visit, t, path), Len(bindings[t].params),
                                        Forgotten(t, acc)))
      BY <2>7, <2>12 DEF Visited, t, path, acc
    <3>2. Promise(<<t, path, acc>>, Finished(t, Rounds(ParamLoop(Visit, t, path), Len(bindings[t].params),
                                                       Forgotten(t, acc))))
      BY <1>1, <2>5, <2>6, <2>12, ParamsPromise
    <3>. QED
      BY <2>4, <2>5, <3>1, <3>2
  <2>13. CASE t \notin acc.done /\ Bound(t) /\ bindings[t].type = "ALIAS"
    <3>. DEFINE to == bindings[t].to
                end == Visit[<<to, path \cup {to}, acc>>]
    <3>1. to \in Id
      BY <2>5, <2>13, BindingParts
    <3>2. Visit[c] = IF to \in path THEN Rejected(acc) ELSE Finished(t, end)
      BY <2>7, <2>13 DEF Visited, t, path, acc
    <3>3. CASE to \in path
      BY <2>4, <2>8, <3>2, <3>3
    <3>4. CASE to \notin path
      <4>1. end \in Verdict /\ Promise(<<to, path \cup {to}, acc>>, end)
        BY <2>5, <2>6, <3>1, <3>4
      <4>2. Carries(acc, end, {}) /\ (end.ok => Known(bindings, to, end.done))
        BY <4>1 DEF Promise
      <4>. HIDE DEF end, to
      <4>. DEFINE b == Finished(t, end)
      <4>3. /\ b.ok = end.ok /\ b.passed = end.passed
            /\ b.done = IF end.ok THEN end.done \cup {t} ELSE end.done
        BY <2>5, <4>1, VerdictParts
      <4>. HIDE DEF b
      <4>4. ASSUME end.ok, Sound(bindings, end.done, end.passed)
            PROVE  Sound(bindings, end.done \cup {t}, end.passed)
        <5>1. end.done \in SUBSET Id
          BY <4>1, VerdictParts
        <5>2. bindings[t].type # "CONSTANT" /\ bindings[t].type # "INSTANCE" /\ Bound(t)
          BY <2>13
        <5>3. Known(bindings, bindings[t].to, end.done)
          BY <4>2, <4>4 DEF to
        <5>. QED
          BY <2>5, <4>4, <5>1, <5>2, <5>3, SoundFinish
      <4>5. Sound(bindings, acc.done, acc.passed) => Sound(bindings, b.done, b.passed)
        <5>1. Sound(bindings, acc.done, acc.passed) => Sound(bindings, end.done, end.passed)
          BY <4>2 DEF Carries
        <5>2. CASE end.ok
          BY <4>3, <4>4, <5>1, <5>2
        <5>3. CASE ~end.ok
          BY <4>3, <5>1, <5>3
        <5>. QED
          BY <5>2, <5>3
      <4>6. Carries(acc, b, {})
        <5>1. /\ b.ok => acc.ok
              /\ acc.done \subseteq b.done /\ \A x \in acc.passed : x[1] \in acc.done => x \in b.passed
          BY <4>2, <4>3 DEF Carries
        <5>2. b.ok => \A x \in b.passed : x \in acc.passed \/ x[1] \in b.done
          BY <4>2, <4>3 DEF Carries
        <5>. QED
          BY <4>5, <5>1, <5>2 DEF Carries
      <4>7. b.ok => Known(bindings, t, b.done)
        BY <4>3 DEF Known
      <4>8. Promise(c, b)
        BY <4>6, <4>7 DEF Promise, t, acc
      <4>. QED
        BY <2>4, <3>2, <3>4, <4>8 DEF b
    <3>. QED
      BY <3>3, <3>4
  <2>. QED
    BY <2>5, <2>9, <2>10, <2>11, <2>12, <2>13, BindingParts
<1>. QED
  BY <1>1, <1>2

(* What validate() comes to: see AcceptedInv.                              *)
LEMMA ValidateFinds ==
  ASSUME bindings \in [Id -> Binding \cup {None}], order \in Seq(Id),
         \A id \in Id : Bound(id) => id \in ToSet(order),
         validated \in SUBSET Id, passed \in SUBSET (Id \X Id), Validate
  PROVE  /\ validated' \in SUBSET Id /\ passed' \in SUBSET (Id \X Id) /\ valid' \in BOOLEAN
         /\ validated \subseteq validated'
         /\ \A x \in passed : x[1] \in validated => x \in passed'
         /\ Sound(bindings, validated, passed) => Sound(bindings, validated', passed')
         /\ valid' => \A id \in Id : Bound(id) => Known(bindings, id, validated')
<1>. DEFINE start == [ok |-> TRUE, done |-> validated, passed |-> passed]
            n == Len(order)
            visit(k, a) == IF a.ok THEN VisitFromRoot(order[k], a) ELSE a
            loop == [k \in DOMAIN order |-> [a \in Verdict |-> visit(k, a)]]
            end == Rounds(loop, n, start)
            Good == {x \in Nat \X Verdict :
                       /\ Carries(start, x[2], {})
                       /\ x[2].ok => \A j \in 1 .. x[1] : Known(bindings, order[j], x[2].done)}
<1>1. validated' = end.done /\ passed' = end.passed /\ valid' = end.ok
  BY DEF Validate
<1>2. n \in Nat /\ DOMAIN order = 1 .. n /\ \A k \in 1 .. n : order[k] \in Id
  OBVIOUS
<1>3. start \in Verdict /\ start.done = validated /\ start.passed = passed
  BY DEF Verdict
<1>4. ASSUME NEW k \in 1 .. n, NEW a \in Verdict
      PROVE  /\ visit(k, a) \in Verdict /\ Carries(a, visit(k, a), {})
             /\ visit(k, a).ok => Known(bindings, order[k], visit(k, a).done)
  <2>1. CASE a.ok
    <3>. DEFINE call == <<order[k], {}, a>>
    <3>1. call \in VisitCalls /\ call[1] = order[k] /\ call[3] = a
      BY <1>2 DEF VisitCalls
    <3>2. visit(k, a) = Visit[call]
      BY <2>1 DEF VisitFromRoot
    <3>. HIDE DEF call
    <3>3. Visit[call] \in Verdict /\ Promise(call, Visit[call])
      BY <3>1, VisitPromises
    <3>. HIDE DEF visit
    <3>. QED
      BY <3>1, <3>2, <3>3 DEF Promise
  <2>2. CASE ~a.ok
    <3>1. visit(k, a) = a
      BY <2>2
    <3>. HIDE DEF visit
    <3>. QED
      BY <2>2, <3>1 DEF Carries
  <2>. QED
    BY <2>1, <2>2
<1>. HIDE DEF visit
<1>5. IsLoop(loop, n, Verdict) /\ \A k \in 1 .. n, a \in Verdict : loop[k][a] = visit(k, a)
  BY <1>2, <1>4 DEF IsLoop
<1>. HIDE DEF loop, start
<1>6. <<0, start>> \in Good
  BY <1>3 DEF Carries
<1>7. ASSUME NEW k \in 1 .. n, NEW a \in Verdict, <<k - 1, a>> \in Good
      PROVE  <<k, loop[k][a]>> \in Good
  <2>. DEFINE b == visit(k, a)
  <2>1. b \in Verdict /\ Carries(a, b, {}) /\ (b.ok => Known(bindings, order[k], b.done)) /\ loop[k][a] = b
    BY <1>4, <1>5
  <2>2. Carries(start, a, {}) /\ (a.ok => \A j \in 1 .. k - 1 : Known(bindings, order[j], a.done))
    BY <1>7
  <2>. HIDE DEF b
  <2>3. Carries(start, b, {})
    BY <1>3, <2>1, <2>2, CarriesOn
  <2>4. ASSUME b.ok, NEW j \in 1 .. k PROVE Known(bindings, order[j], b.done)
    <3>1. a.ok /\ a.done \subseteq b.done
      BY <2>1, <2>4 DEF Carries
    <3>2. CASE j = k
      BY <2>1, <2>4, <3>2
    <3>3. CASE j # k
      <4>1. j \in 1 .. k - 1
        BY <1>2, <3>3
      <4>. QED
        BY <2>2, <3>1, <4>1 DEF Known
    <3>. QED
      BY <3>2, <3>3
  <2>5. k \in Nat
    BY <1>2
  <2>. QED
    BY <2>1, <2>3, <2>4, <2>5
<1>8. end \in Verdict /\ <<n, end>> \in Good
  <2>. HIDE DEF n, Good
  <2>. QED
    BY <1>3, <1>5, <1>6, <1>7, RoundsKeep
<1>9. Carries(start, end, {}) /\ (end.ok => \A j \in 1 .. n : Known(bindings, order[j], end.done))
  BY <1>8
<1>10. end.ok \in BOOLEAN /\ end.done \in SUBSET Id /\ end.passed \in SUBSET (Id \X Id)
  BY <1>8, VerdictParts
<1>. HIDE DEF end
<1>11. ASSUME end.ok, NEW id \in Id, Bound(id) PROVE Known(bindings, id, end.done)
  <2>1. PICK j \in 1 .. n : order[j] = id
    BY <1>2, <1>11 DEF ToSet
  <2>. QED
    BY <1>9, <1>11, <2>1
<1>. QED
  BY <1>1, <1>3, <1>9, <1>10, <1>11 DEF Carries

-----------------------------------------------------------------------------
(* What is known leads somewhere.                                          *)

(* Multiples of a number.                                                  *)
LEMMA Multiples ==
  ASSUME NEW w \in Nat, NEW i \in Nat, NEW j \in Nat
  PROVE  /\ w * i \in Nat
         /\ i <= j => w * i <= w * j
         /\ i < j => w * i + w <= w * j
<1>1. \A k \in Nat : w * k \in Nat
  OBVIOUS
<1>2. ASSUME i <= j PROVE w * i <= w * j
  <2>1. j - i \in Nat /\ w * (j - i) \in Nat /\ w * j = w * i + w * (j - i)
    BY <1>2
  <2>. QED
    BY <1>1, <2>1
<1>3. ASSUME i < j PROVE w * i + w <= w * j
  <2>1. j - i - 1 \in Nat /\ w * (j - i - 1) \in Nat /\ w * j = w * i + w + w * (j - i - 1)
    BY <1>3
  <2>. QED
    BY <1>1, <2>1
<1>. QED
  BY <1>1, <1>2, <1>3

(* The chain of aliases from an id that is known ends at a binding.        *)
LEMMA ChaseSettles ==
  ASSUME bindings \in [Id -> Binding \cup {None}], validated \in SUBSET Id,
         NEW rank, Ranks(bindings, rank, validated, passed),
         NEW s, NEW allow, NEW id \in Id, Known(bindings, id, validated)
  PROVE  LET b == Chase(s, id, allow)
         IN  /\ b.id \in Id /\ Known(bindings, b.id, validated) /\ b.end \in {"bound", "temporary"}
             /\ b.end = "temporary" => b.id \in temporary[s]
             /\ b.end = "bound" => bindings[b.id].type # "ALIAS"
             /\ b.id \in validated => id \in validated /\ rank[b.id] <= rank[id]
<1>. DEFINE link == Link(s, allow)
            N == Cardinality(Id)
            at == Iterate(link, id)
            Fine(n) == /\ at[n] \in Id /\ Known(bindings, at[n], validated)
                       /\ at[n] \in validated => id \in validated /\ rank[at[n]] <= rank[id]
                       /\ IsLink(s, at[n], allow) => at[n] \in validated /\ rank[at[n]] + n <= rank[id]
            T == {n \in Nat : ~Fine(n)}
<1>1. N \in Nat
  BY ContainerAssumption, FS_CardinalityType
<1>2. link \in [Id \cup {Proxy} -> Id \cup {Proxy}]
  BY LinkIs
<1>3. \A i \in Id : link[i] = IF IsLink(s, i, allow) THEN bindings[i].to ELSE i
  BY DEF Link
<1>4. ASSUME NEW i \in Id, IsLink(s, i, allow)
      PROVE  Bound(i) /\ bindings[i].type = "ALIAS" /\ bindings[i].to \in Id
  <2>1. Bound(i) /\ bindings[i].type = "ALIAS"
    BY <1>4 DEF IsLink
  <2>. QED
    BY <2>1, BindingParts
<1>. HIDE DEF link
<1>5. at[0] = id /\ \A n \in Nat : at[n + 1] = link[at[n]]
  <2>1. id \in Id \cup {Proxy}
    OBVIOUS
  <2>2. Iterates(at, Id \cup {Proxy}, link, id)
    BY <1>2, <2>1, IterateIs
  <2>. HIDE DEF at
  <2>. QED
    BY <2>2 DEF Iterates
<1>6. Chase(s, id, allow) = [id |-> at[N],
        end |-> CASE IsLink(s, at[N], allow) -> "endless"
                  [] at[N] # Proxy /\ allow /\ at[N] \in temporary[s] -> "temporary"
                  [] at[N] # Proxy /\ Bound(at[N]) /\ bindings[at[N]].type # "ALIAS" -> "bound"
                  [] OTHER -> "unbound"]
  BY DEF Chase, link
<1>. HIDE DEF at
<1>7. /\ rank \in [Id -> Nat]
      /\ \A i \in validated :
           rank[i] \in 1 .. Cardinality(validated) /\ LookedAt(bindings, i, rank[i], validated, passed, rank)
  BY DEF Ranks
<1>8. \A i \in Id : IsLink(s, i, allow) /\ Known(bindings, i, validated) => i \in validated
  BY <1>4 DEF Known
<1>9. T = {}
  <2>. SUFFICES ASSUME T # {} PROVE FALSE
    OBVIOUS
  <2>1. PICK n \in T : \A k \in T : n <= k
    <3>1. T \in SUBSET Nat
      OBVIOUS
    <3>. HIDE DEF T
    <3>. QED
      BY <3>1, Smallest
  <2>2. n \in Nat /\ ~Fine(n)
    BY <2>1
  <2>3. n # 0
    <3>1. Fine(0)
      BY <1>5, <1>7, <1>8
    <3>. HIDE DEF Fine
    <3>. QED
      BY <2>2, <3>1
  <2>4. n - 1 \in Nat /\ (n - 1) + 1 = n /\ ~(n <= n - 1)
    BY <2>2, <2>3
  <2>5. Fine(n - 1)
    <3>1. n - 1 \notin T
      <4>. HIDE DEF T
      <4>. QED
        BY <2>1, <2>4
    <3>. HIDE DEF Fine
    <3>. QED
      BY <2>4, <3>1
  <2>6. at[n] = IF IsLink(s, at[n - 1], allow) THEN bindings[at[n - 1]].to ELSE at[n - 1]
    BY <1>3, <1>5, <2>4, <2>5
  <2>7. CASE ~IsLink(s, at[n - 1], allow)
    BY <2>2, <2>5, <2>6, <2>7
  <2>8. CASE IsLink(s, at[n - 1], allow)
    <3>. DEFINE i == at[n - 1]
                to == bindings[i].to
    <3>1. /\ i \in Id /\ i \in validated /\ id \in validated
          /\ rank[i] <= rank[id] /\ rank[i] + (n - 1) <= rank[id]
      BY <2>5, <2>8
    <3>2. to \in Id /\ Bound(i) /\ bindings[i].type = "ALIAS" /\ at[n] = to
      BY <1>4, <2>6, <2>8, <3>1
    <3>3. Under(bindings, to, rank[i], validated, rank)
      BY <1>7, <3>1, <3>2 DEF LookedAt
    <3>4. Known(bindings, to, validated) /\ (to \in validated => rank[to] < rank[i])
      BY <3>3 DEF Under
    <3>. HIDE DEF i, to
    <3>5. rank[i] \in Nat /\ rank[to] \in Nat /\ rank[id] \in Nat
      BY <1>7, <3>1, <3>2
    <3>6. to \in validated => rank[to] <= rank[id] /\ rank[to] + n <= rank[id]
      BY <2>2, <3>1, <3>4, <3>5
    <3>7. IsLink(s, to, allow) => to \in validated
      BY <1>8, <3>2, <3>4
    <3>8. Fine(n)
      BY <3>1, <3>2, <3>4, <3>6, <3>7
    <3>. QED
      BY <2>2, <3>8
  <2>. QED
    BY <2>7, <2>8
<1>10. Fine(N)
  <2>1. N \notin T
    BY <1>9
  <2>. HIDE DEF Fine, N
  <2>. QED
    BY <1>1, <2>1
<1>11. ~IsLink(s, at[N], allow)
  <2>. SUFFICES ASSUME IsLink(s, at[N], allow) PROVE FALSE
    OBVIOUS
  <2>1. at[N] \in validated /\ rank[at[N]] + N <= rank[id] /\ id \in validated
    BY <1>10
  <2>2. Cardinality(validated) \in Nat /\ Cardinality(validated) <= N
    BY ContainerAssumption, FS_Subset, FS_CardinalityType
  <2>3. rank[at[N]] \in 1 .. Cardinality(validated) /\ rank[id] \in 1 .. Cardinality(validated)
    BY <1>7, <2>1
  <2>. HIDE DEF N
  <2>. QED
    BY <1>1, <2>1, <2>2, <2>3
<1>12. at[N] # Proxy /\ Bound(at[N])
  <2>1. at[N] # Proxy
    BY <1>10, ContainerAssumption
  <2>2. Bound(at[N])
    BY <1>7, <1>10 DEF Known, LookedAt, Bound
  <2>. QED
    BY <2>1, <2>2
<1>13. (allow /\ at[N] \in temporary[s]) \/ bindings[at[N]].type # "ALIAS"
  BY <1>11, <1>12 DEF IsLink
<1>. HIDE DEF N
<1>. DEFINE x == at[N]
            e == CASE IsLink(s, x, allow) -> "endless"
                   [] x # Proxy /\ allow /\ x \in temporary[s] -> "temporary"
                   [] x # Proxy /\ Bound(x) /\ bindings[x].type # "ALIAS" -> "bound"
                   [] OTHER -> "unbound"
<1>14. Chase(s, id, allow).id = x /\ Chase(s, id, allow).end = e
  BY <1>6
<1>. HIDE DEF x
<1>15. /\ e \in {"bound", "temporary"}
       /\ e = "temporary" => x \in temporary[s]
       /\ e = "bound" => bindings[x].type # "ALIAS"
  <2>1. /\ ~IsLink(s, x, allow) /\ x # Proxy /\ Bound(x)
        /\ (allow /\ x \in temporary[s]) \/ bindings[x].type # "ALIAS"
    BY <1>11, <1>12, <1>13 DEF x
  <2>2. e \in {"bound", "temporary"}
    BY <2>1
  <2>3. e = "temporary" => x \in temporary[s]
    BY <2>1
  <2>4. e = "bound" => bindings[x].type # "ALIAS"
    BY <2>1
  <2>. QED
    BY <2>2, <2>3, <2>4
<1>. HIDE DEF e
<1>. QED
  BY <1>10, <1>14, <1>15 DEF x

-----------------------------------------------------------------------------
(* How high a stack gets.                                                  *)

(* The longest code of a class, and as many of it as there are ids.        *)
Width ==
  CHOOSE n \in 1 .. MaxDepth :
    /\ Cardinality(Id) * n <= MaxDepth
    /\ \A p \in Program, id \in Id :
         p[id] # None /\ p[id].type = "INSTANCE" => 1 + 2 * Len(p[id].params) <= n

Height == Width * Cardinality(Id)

(* The code of a class is no longer than that.                             *)
Narrow(b) == IsClass(b) => 1 + 2 * Len(b.params) <= Width

(* There is such a width, and the stack has room for as much.              *)
LEMMA WidthIs ==
  /\ Width \in Nat /\ Width >= 1 /\ Height \in Nat /\ Height <= MaxDepth /\ MaxDepth \in Nat
  /\ \A p \in Program, id \in Id : Narrow(p[id])
<1>1. /\ Width \in 1 .. MaxDepth /\ Cardinality(Id) * Width <= MaxDepth
      /\ \A p \in Program, id \in Id :
           p[id] # None /\ p[id].type = "INSTANCE" => 1 + 2 * Len(p[id].params) <= Width
  BY DepthAssumption DEF Width
<1>2. MaxDepth \in Nat /\ Cardinality(Id) \in Nat
  BY DepthAssumption, ContainerAssumption, FS_CardinalityType
<1>3. Width \in Nat /\ Width >= 1
  BY <1>1, <1>2
<1>4. Height \in Nat /\ Height = Cardinality(Id) * Width
  <2>1. \A i, j \in Nat : i * j \in Nat /\ i * j = j * i
    OBVIOUS
  <2>. QED
    BY <1>2, <1>3, <2>1 DEF Height
<1>. QED
  BY <1>1, <1>2, <1>3, <1>4 DEF Narrow, IsClass

(* Sequences of at most two elements each are at most twice as long        *)
(* together as there are of them.                                          *)
LEMMA JoinedShort ==
  ASSUME NEW S, NEW seqs \in Seq(Seq(S)), \A i \in 1 .. Len(seqs) : Len(seqs[i]) <= 2
  PROVE  Len(FlattenSeq(seqs)) <= 2 * Len(seqs)
<1>. DEFINE n == Len(seqs)
<1>1. n \in Nat /\ \A i \in 1 .. n : seqs[i] \in Seq(S) /\ Len(seqs[i]) <= 2
  OBVIOUS
<1>2. PICK f : /\ f[0] = <<>> /\ f[n] = FlattenSeq(seqs)
               /\ \A i \in 1 .. n : f[i] = f[i - 1] \o seqs[i]
               /\ \A i \in 0 .. n : f[i] \in Seq(S)
  BY Joined
<1>. HIDE DEF n
<1>. DEFINE T == {i \in 0 .. n : ~(Len(f[i]) <= 2 * i)}
<1>3. T = {}
  <2>. SUFFICES ASSUME T # {} PROVE FALSE
    OBVIOUS
  <2>1. PICK i \in T : \A k \in T : i <= k
    <3>1. T \in SUBSET Nat
      BY <1>1
    <3>. HIDE DEF T
    <3>. QED
      BY <3>1, Smallest
  <2>2. i \in 0 .. n /\ ~(Len(f[i]) <= 2 * i)
    BY <2>1
  <2>3. i # 0
    <3>1. Len(f[0]) = 0
      BY <1>2
    <3>. QED
      BY <2>2, <3>1
  <2>4. i \in 1 .. n /\ i - 1 \in 0 .. n /\ ~(i <= i - 1)
    BY <1>1, <2>2, <2>3
  <2>5. Len(f[i - 1]) <= 2 * (i - 1)
    BY <2>1, <2>4
  <2>6. f[i] = f[i - 1] \o seqs[i] /\ f[i - 1] \in Seq(S) /\ seqs[i] \in Seq(S) /\ Len(seqs[i]) <= 2
    BY <1>1, <1>2, <2>4
  <2>7. Len(f[i]) = Len(f[i - 1]) + Len(seqs[i]) /\ Len(f[i - 1]) \in Nat /\ Len(seqs[i]) \in Nat
    BY <2>6
  <2>8. Len(seqs[i]) <= 2 /\ i \in Nat
    BY <1>1, <2>4
  <2>9. Len(f[i]) <= 2 * (i - 1) + 2
    <3>1. PICK a \in Nat, b \in Nat : a = Len(f[i - 1]) /\ b = Len(seqs[i])
      BY <2>7
    <3>2. a <= 2 * (i - 1) /\ b <= 2 /\ Len(f[i]) = a + b
      BY <2>5, <2>7, <2>8, <3>1
    <3>3. a + b <= 2 * (i - 1) + 2
      BY <2>8, <3>2
    <3>. QED
      BY <3>2, <3>3
  <2>10. 2 * (i - 1) + 2 = 2 * i
    BY <2>8
  <2>. QED
    BY <2>2, <2>9, <2>10
<1>4. Len(f[n]) <= 2 * n
  <2>1. n \in 0 .. n /\ n \notin T
    BY <1>1, <1>3
  <2>. QED
    BY <2>1
<1>. QED
  BY <1>2, <1>4 DEF n

(* The code of a class: a BUILD, and for each parameter its plan and no    *)
(* more than one instruction besides.                                      *)
LEMMA CompilePlans ==
  ASSUME bindings \in [Id -> Binding \cup {None}], NEW id \in Id, IsClass(bindings[id]), NEW allow
  PROVE  LET c == Compile(id, allow)
             params == bindings[id].params
         IN  /\ Len(c) <= 1 + 2 * Len(params)
             /\ \A k \in 1 .. Len(c) : c[k].code = "PLAN" =>
                  \E m \in 1 .. Len(params) :
                    c[k].target = params[m].id /\ c[k].optional = params[m].optional
<1>. DEFINE params == bindings[id].params
            plan(p) == PlanOf(p.id, p.optional, allow)
            transform == [code |-> "TRANSFORM"]
            build == [code |-> "BUILD", target |-> id]
            param(p) == (IF p.transform THEN <<transform>> ELSE <<>>) \o <<plan(p)>>
            n == Len(params)
            Body == {transform} \cup {plan(params[m]) : m \in 1 .. n}
            pieces == [k \in DOMAIN params |-> param(Reverse(params)[k])]
            rest == FlattenSeq(pieces)
<1>1. params \in Seq(Param) /\ ParamsOf(id) = params
  <2>1. id # Proxy
    BY ContainerAssumption
  <2>. QED
    BY <2>1, BindingParts DEF IsClass, Bound, ParamsOf
<1>2. n \in Nat /\ DOMAIN params = 1 .. n /\ \A k \in 1 .. n : params[k] \in Param
  BY <1>1
<1>3. Compile(id, allow) = <<build>> \o rest
  BY <1>1 DEF Compile
<1>. HIDE DEF params
<1>4. ASSUME NEW k \in 1 .. n
      PROVE  param(Reverse(params)[k]) \in Seq(Body) /\ Len(param(Reverse(params)[k])) <= 2
  <2>1. (n - k) + 1 \in 1 .. n /\ Reverse(params)[k] = params[(n - k) + 1]
    BY <1>2 DEF Reverse
  <2>2. PICK p : p = params[(n - k) + 1]
    OBVIOUS
  <2>3. plan(p) \in Body /\ transform \in Body
    BY <2>1, <2>2
  <2>. HIDE DEF Body, plan, transform
  <2>4. param(p) \in Seq(Body) /\ Len(param(p)) <= 2
    <3>1. CASE p.transform
      BY <2>3, <3>1
    <3>2. CASE ~p.transform
      BY <2>3, <3>2
    <3>. QED
      BY <3>1, <3>2
  <2>. QED
    BY <2>1, <2>2, <2>4
<1>. HIDE DEF param
<1>5. pieces \in Seq(Seq(Body)) /\ Len(pieces) = n /\ \A k \in 1 .. n : Len(pieces[k]) <= 2
  <2>. HIDE DEF Body, n
  <2>. QED
    BY <1>2, <1>4
<1>. HIDE DEF pieces
<1>6. rest \in Seq(Body) /\ Len(rest) <= 2 * n
  <2>. HIDE DEF Body, n
  <2>. QED
    BY <1>5, Flattened, JoinedShort
<1>7. \A b \in Body : b.code = "PLAN" =>
        \E m \in 1 .. n : b.target = params[m].id /\ b.optional = params[m].optional
  BY DEF PlanOf
<1>. HIDE DEF rest, Body
<1>. DEFINE c == <<build>> \o rest
<1>8. Len(rest) \in Nat /\ \A k \in 1 .. Len(rest) : rest[k] \in Body
  BY <1>6
<1>9. /\ Len(c) = Len(rest) + 1 /\ c[1] = build
      /\ \A k \in 2 .. Len(c) : c[k] = rest[k - 1] /\ k - 1 \in 1 .. Len(rest)
  <2>. DEFINE All == {build} \cup Body
  <2>1. <<build>> \in Seq(All) /\ rest \in Seq(All)
    <3>1. build \in All /\ Body \subseteq All
      OBVIOUS
    <3>. HIDE DEF All, build
    <3>. QED
      BY <1>6, <3>1
  <2>. HIDE DEF All, build
  <2>. QED
    BY <1>8, <2>1
<1>10. build.code # "PLAN"
  OBVIOUS
<1>. HIDE DEF c, build
<1>11. ASSUME NEW k \in 1 .. Len(c), c[k].code = "PLAN"
       PROVE  \E m \in 1 .. n : c[k].target = params[m].id /\ c[k].optional = params[m].optional
  <2>1. k \in 2 .. Len(c)
    BY <1>8, <1>9, <1>10, <1>11
  <2>. QED
    BY <1>7, <1>8, <1>9, <1>11, <2>1
<1>12. Len(c) <= 1 + 2 * n
  BY <1>2, <1>6, <1>8, <1>9
<1>13. Compile(id, allow) = c
  BY <1>3 DEF c
<1>. QED
  BY <1>11, <1>12, <1>13 DEF params

(* A plan for what is known, or for an optional parameter that is not bound*)
Resolvable(id, optional) == id \in Id /\ (Known(bindings, id, validated) \/ (optional /\ ~Bound(id)))

(* Nothing hides from the validation: see AcceptedResolves.                *)
Trusted == valid /\ ~Overlooked /\ \A id \in Id : IsClass(bindings[id]) => id \in compiled

(* The stack leaves as many codes of a class to come as there are ranks    *)
(* below the target of its topmost plan.                                   *)
Shallow(is, rank) ==
  /\ Len(is) <= Height
  /\ \A j \in 1 .. Len(is) : is[j].code = "PLAN" =>
       /\ Resolvable(is[j].target, is[j].optional)
       /\ is[j].target \in validated => j + Width * rank[is[j].target] <= Height + 1

(* Nothing is known of an id that is not bound.                            *)
LEMMA ChaseUnbound ==
  ASSUME bindings \in [Id -> Binding \cup {None}], NEW s, NEW allow, NEW id \in Id, ~Bound(id)
  PROVE  LET b == Chase(s, id, allow)
         IN  /\ b.id = id /\ b.end \in {"unbound", "temporary"}
             /\ b.end = "temporary" => id \in temporary[s]
<1>. DEFINE x == Iterate(Link(s, allow), id)[Cardinality(Id)]
            e == CASE IsLink(s, x, allow) -> "endless"
                   [] x # Proxy /\ allow /\ x \in temporary[s] -> "temporary"
                   [] x # Proxy /\ Bound(x) /\ bindings[x].type # "ALIAS" -> "bound"
                   [] OTHER -> "unbound"
<1>1. Chase(s, id, allow).id = x /\ Chase(s, id, allow).end = e
  BY DEF Chase
<1>2. ~IsLink(s, id, allow)
  BY DEF IsLink
<1>3. x = id
  BY <1>1, <1>2, ChaseEnds
<1>. HIDE DEF x
<1>4. e \in {"unbound", "temporary"} /\ (e = "temporary" => id \in temporary[s])
  <2>1. e \in {"unbound", "temporary"}
    BY <1>2, <1>3
  <2>2. e = "temporary" => id \in temporary[s]
    BY <1>2, <1>3
  <2>. QED
    BY <2>1, <2>2
<1>. HIDE DEF e
<1>. QED
  BY <1>1, <1>3, <1>4

(* What a class that was validated asks for.                               *)
LEMMA SureParams ==
  ASSUME bindings \in [Id -> Binding \cup {None}], validated \in SUBSET Id,
         passed \in SUBSET (Id \X Id), Trusted,
         NEW rank, Ranks(bindings, rank, validated, passed),
         NEW c \in validated, IsClass(bindings[c]), NEW m \in 1 .. Len(bindings[c].params)
  PROVE  LET p == bindings[c].params[m]
         IN  Resolvable(p.id, p.optional) /\ (p.id \in validated => rank[p.id] < rank[c])
<1>. DEFINE params == bindings[c].params
<1>1. c \in Id /\ c # Proxy /\ ParamsOf(c) = params
  BY ContainerAssumption DEF ParamsOf
<1>2. params \in Seq(Param)
  BY <1>1, BindingParts DEF IsClass, Bound
<1>3. Len(params) \in Nat /\ \A k \in 1 .. Len(params) : params[k].id \in Id
  <2>. HIDE DEF params
  <2>1. Len(params) \in Nat /\ \A k \in 1 .. Len(params) : params[k] \in Param
    BY <1>2
  <2>. QED
    BY <2>1 DEF Param
<1>4. LookedAt(bindings, c, rank[c], validated, passed, rank)
  BY DEF Ranks
<1>5. PICK n \in 0 .. Len(params) :
        /\ \A k \in 1 .. n : Under(bindings, params[k].id, rank[c], validated, rank)
        /\ n < Len(params) =>
             params[n + 1].optional /\ <<c, params[n + 1].id>> \in passed
  BY <1>4 DEF LookedAt, IsClass
<1>. HIDE DEF params
<1>6. ASSUME n < Len(params)
      PROVE  n + 1 = Len(params) /\ ~Bound(params[n + 1].id)
  <2>. DEFINE x == <<c, params[n + 1].id>>
  <2>1. x \in passed /\ x[1] = c /\ x[2] = params[n + 1].id
    BY <1>5, <1>6
  <2>. HIDE DEF x
  <2>2. ~Bound(x[2]) /\ \A k \in 1 .. Len(ParamsOf(x[1])) - 1 : ParamsOf(x[1])[k].id # x[2]
    BY <2>1 DEF Trusted, Overlooked
  <2>3. n + 1 \notin 1 .. Len(params) - 1
    BY <1>1, <2>1, <2>2
  <2>. QED
    BY <1>3, <1>6, <2>1, <2>2, <2>3
<1>7. params[m].id \in Id /\ m \in 1 .. Len(params)
  BY <1>3 DEF params
<1>8. CASE m \in 1 .. n
  BY <1>5, <1>7, <1>8 DEF Under, Resolvable, params
<1>9. CASE m \notin 1 .. n
  <2>1. n < Len(params) /\ m = n + 1
    BY <1>3, <1>6, <1>7, <1>9
  <2>2. params[m].optional /\ ~Bound(params[m].id)
    BY <1>5, <1>6, <2>1
  <2>3. params[m].id \notin validated
    BY <2>2 DEF Ranks, LookedAt, Bound
  <2>. QED
    BY <1>7, <2>2, <2>3 DEF Resolvable, params
<1>. QED
  BY <1>8, <1>9

(* An expected plan does not fail: it pushes no code, or that of a class   *)
(* that was validated before what is asked for.                            *)
LEMMA PlanAnswers ==
  ASSUME MachineTypeOK, validated \in SUBSET Id, passed \in SUBSET (Id \X Id), Trusted,
         NEW rank, Ranks(bindings, rank, validated, passed),
         NEW s \in ResolveSession, \A id \in temporary[s] : id \in Id /\ sessionCache[s][id] # None,
         NEW p \in PlanCode, Resolvable(p.target, p.optional), NEW allowUnbound
  PROVE  LET r == Planned(s, p, allowUnbound)
         IN  /\ r.error = None
             /\ \/ r.code = <<>>
                \/ \E c \in validated : \E allow \in BOOLEAN :
                     /\ r.code = Compile(c, allow) /\ IsClass(bindings[c])
                     /\ p.target \in validated /\ rank[c] <= rank[p.target]
<1>. DEFINE b == Chase(s, p.target, p.allowTemporary)
            r == Planned(s, p, allowUnbound)
            hit == Cached(s, p.target)
            again == Cached(s, b.id)
<1>1. bindings \in [Id -> Binding \cup {None}] /\ p.target \in Id
  BY DEF MachineTypeOK, Resolvable
<1>2. \/ /\ b.id \in Id /\ Known(bindings, b.id, validated) /\ b.end \in {"bound", "temporary"}
         /\ b.end = "bound" => bindings[b.id].type # "ALIAS"
         /\ b.id \in validated => p.target \in validated /\ rank[b.id] <= rank[p.target]
      \/ p.optional /\ b.id = p.target /\ b.end \in {"unbound", "temporary"}
  BY <1>1, ChaseSettles, ChaseUnbound DEF Resolvable
<1>3. b.end = "temporary" => b.id \in temporary[s]
  BY <1>1, ChaseSettles, ChaseUnbound DEF Resolvable
<1>4. b.end = "temporary" => again # None
  <2>1. ASSUME NEW i \in temporary[s] PROVE Cached(s, i) # None
    <3>1. i \in Id /\ i # Proxy /\ sessionCache[s][i] # None
      BY ContainerAssumption
    <3>. QED
      BY <3>1 DEF Cached
  <2>. QED
    BY <1>3, <2>1
<1>5. r = CASE hit # None -> [values |-> <<hit>>, code |-> <<>>, error |-> None]
            [] hit = None /\ b.end = "endless" -> [values |-> <<>>, code |-> <<>>, error |-> "endless"]
            [] hit = None /\ b.end = "unbound" ->
                 IF p.optional THEN [values |-> <<Undefined>>, code |-> <<>>, error |-> None]
                 ELSE IF allowUnbound /\ b.id = Proxy
                 THEN [values |-> <<>>, code |-> Compile(b.id, p.allowTemporary), error |-> None]
                 ELSE [values |-> <<>>, code |-> <<>>, error |-> "notFound"]
            [] hit = None /\ b.end \in {"bound", "temporary"} ->
                 IF again # None THEN [values |-> <<again>>, code |-> <<>>, error |-> None]
                 ELSE IF bindings[b.id].type = "CONSTANT"
                 THEN [values |-> <<Value("constant", b.id, 0)>>, code |-> <<>>, error |-> None]
                 ELSE IF b.id \in compiled
                 THEN [values |-> <<>>, code |-> Compile(b.id, ScopeOf(b.id) # "SINGLETON"), error |-> None]
                 ELSE [values |-> <<>>, code |-> <<>>, error |-> "notCompiled"]
  BY DEF Planned
<1>6. ASSUME hit = None, again = None, b.end = "bound", b.id \in Id, Known(bindings, b.id, validated),
             bindings[b.id].type # "ALIAS", bindings[b.id].type # "CONSTANT"
      PROVE  b.id \in validated /\ IsClass(bindings[b.id]) /\ b.id \in compiled
  <2>. HIDE DEF b
  <2>1. b.id \in validated
    BY <1>6 DEF Known
  <2>2. Bound(b.id)
    BY <2>1 DEF Ranks, LookedAt, Bound
  <2>3. IsClass(bindings[b.id])
    BY <1>1, <1>6, <2>2, BindingParts DEF IsClass, Bound
  <2>. QED
    BY <1>6, <2>1, <2>3 DEF Trusted
<1>. DEFINE Answers == r.error = None /\ r.code = <<>>
<1>. HIDE DEF b, r, hit, again
<1>7. CASE hit # None
  <2>1. Answers
    BY <1>5, <1>7
  <2>. QED
    BY <2>1 DEF r
<1>8. CASE hit = None /\ b.end = "unbound" /\ p.optional
  <2>1. Answers
    BY <1>5, <1>8
  <2>. QED
    BY <2>1 DEF r
<1>9. CASE hit = None /\ b.end \in {"bound", "temporary"} /\ again # None
  <2>1. Answers
    BY <1>5, <1>9
  <2>. QED
    BY <2>1 DEF r
<1>10. CASE /\ hit = None /\ again = None /\ b.end = "bound" /\ b.id \in Id /\ Known(bindings, b.id, validated)
            /\ bindings[b.id].type # "ALIAS"
            /\ b.id \in validated => p.target \in validated /\ rank[b.id] <= rank[p.target]
  <2>1. CASE bindings[b.id].type = "CONSTANT"
    <3>1. Answers
      BY <1>5, <1>10, <2>1
    <3>. QED
      BY <3>1 DEF r
  <2>2. CASE bindings[b.id].type # "CONSTANT"
    <3>1. b.id \in validated /\ IsClass(bindings[b.id]) /\ b.id \in compiled
      BY <1>6, <1>10, <2>2
    <3>2. r.error = None /\ r.code = Compile(b.id, ScopeOf(b.id) # "SINGLETON")
      BY <1>5, <1>10, <2>2, <3>1
    <3>3. (ScopeOf(b.id) # "SINGLETON") \in BOOLEAN
      OBVIOUS
    <3>. QED
      BY <1>10, <3>1, <3>2, <3>3 DEF r
  <2>. QED
    BY <2>1, <2>2
<1>. QED
  BY <1>2, <1>4, <1>7, <1>8, <1>9, <1>10

(* The code of a class of a low rank does not make a stack too high.       *)
LEMMA PushShallow ==
  ASSUME bindings \in [Id -> Binding \cup {None}], validated \in SUBSET Id,
         passed \in SUBSET (Id \X Id), Trusted,
         NEW rank, Ranks(bindings, rank, validated, passed),
         NEW rest \in Seq(Instr), Shallow(rest, rank),
         NEW c \in validated, IsClass(bindings[c]), Narrow(bindings[c]), NEW allow \in BOOLEAN,
         Len(rest) + Width * rank[c] <= Height
  PROVE  Shallow(rest \o Compile(c, allow), rank)
<1>. DEFINE code == Compile(c, allow)
            grown == rest \o code
            params == bindings[c].params
            h == Len(rest)
            l == Len(code)
<1>1. /\ code \in Seq(Instr) /\ l \in Nat /\ c \in Id
      /\ l <= 1 + 2 * Len(params)
      /\ \A k \in 1 .. l : code[k].code = "PLAN" =>
           \E m \in 1 .. Len(params) : code[k].target = params[m].id /\ code[k].optional = params[m].optional
  <2>1. c \in Classes /\ c \in Id
    BY DEF Classes
  <2>. QED
    BY <2>1, CompileIs, CompilePlans
<1>2. Width \in Nat /\ Height \in Nat /\ l <= Width
  <2>1. 1 + 2 * Len(params) <= Width /\ Len(params) \in Nat
    <3>1. params \in Seq(Param)
      BY <1>1, BindingParts DEF IsClass, Bound
    <3>. QED
      BY <3>1 DEF Narrow
  <2>. QED
    BY <1>1, <2>1, WidthIs
<1>3. rank \in [Id -> Nat] /\ rank[c] \in Nat /\ rank[c] >= 1
  <2>1. rank[c] \in 1 .. Cardinality(validated) /\ rank \in [Id -> Nat]
    BY DEF Ranks
  <2>. QED
    BY <1>1, <2>1
<1>4. ASSUME NEW k \in 1 .. l, code[k].code = "PLAN"
      PROVE  /\ Resolvable(code[k].target, code[k].optional)
             /\ code[k].target \in validated => rank[code[k].target] < rank[c]
  BY <1>1, <1>4, SureParams
<1>. HIDE DEF code, params
<1>5. /\ h \in Nat /\ Len(grown) = h + l
      /\ \A j \in 1 .. h : grown[j] = rest[j]
      /\ \A k \in 1 .. l : grown[h + k] = code[k]
  BY <1>1
<1>. HIDE DEF grown, h, l
<1>6. h + l <= Height
  <2>1. Width * 0 + Width <= Width * rank[c] /\ Width * 0 = 0 /\ Width * rank[c] \in Nat
    BY <1>2, <1>3, Multiples
  <2>2. h + Width * rank[c] <= Height
    BY DEF h
  <2>. QED
    BY <1>1, <1>2, <1>5, <2>1, <2>2
<1>7. ASSUME NEW j \in 1 .. Len(grown), grown[j].code = "PLAN"
      PROVE  /\ Resolvable(grown[j].target, grown[j].optional)
             /\ grown[j].target \in validated => j + Width * rank[grown[j].target] <= Height + 1
  <2>1. CASE j \in 1 .. h
    BY <1>5, <1>7, <2>1 DEF Shallow, h
  <2>2. CASE j \notin 1 .. h
    <3>1. PICK k \in 1 .. l : j = h + k
      <4>1. j - h \in 1 .. l /\ j = h + (j - h)
        BY <1>1, <1>5, <2>2
      <4>. QED
        BY <4>1
    <3>2. grown[j] = code[k]
      BY <1>5, <3>1
    <3>3. PICK i : i = grown[j].target
      OBVIOUS
    <3>4. ASSUME i \in validated PROVE j + Width * rank[i] <= Height + 1
      <4>1. rank[i] \in Nat /\ rank[i] < rank[c]
        BY <1>3, <1>4, <1>7, <3>2, <3>3, <3>4
      <4>2. Width * rank[i] + Width <= Width * rank[c] /\ Width * rank[i] \in Nat /\ Width * rank[c] \in Nat
        BY <1>2, <1>3, <4>1, Multiples
      <4>3. h + Width * rank[c] <= Height
        BY DEF h
      <4>4. PICK u \in Nat, v \in Nat : u = Width * rank[i] /\ v = Width * rank[c]
        BY <4>2
      <4>5. u + Width <= v /\ h + v <= Height
        BY <4>2, <4>3, <4>4
      <4>6. h \in Nat /\ k \in Nat /\ k <= Width /\ j = h + k
        BY <1>1, <1>2, <1>5, <3>1
      <4>7. j + u <= Height + 1
        BY <1>2, <4>5, <4>6
      <4>. QED
        BY <4>4, <4>7
    <3>. QED
      BY <1>4, <1>7, <3>2, <3>3, <3>4
  <2>. QED
    BY <2>1, <2>2
<1>8. Len(grown) <= Height
  BY <1>5, <1>6
<1>9. Shallow(grown, rank)
  BY <1>7, <1>8 DEF Shallow
<1>. QED
  BY <1>9 DEF grown, code

-----------------------------------------------------------------------------
(* The inductive invariant behind AcceptedResolves.                        *)

BoundInv ==
  /\ order \in Seq(Id) /\ ToSet(order) = {id \in Id : Bound(id)}
  /\ \A id \in Id : Narrow(bindings[id])

(* What validations have found, this one or an earlier one.                *)
FoundInv ==
  /\ validated \in SUBSET Id /\ passed \in SUBSET (Id \X Id) /\ valid \in BOOLEAN
  /\ Sound(bindings, validated, passed)
  /\ valid => \A id \in Id : Bound(id) => Known(bindings, id, validated)

TemporaryInv ==
  /\ temporary = [s \in ResolveSession |-> temporary[s]]
  /\ \A s \in ResolveSession : \A id \in temporary[s] : id \in Id /\ sessionCache[s][id] # None

(* Of a call that should succeed: what it has left to do.                  *)
Succeeding(call, is, failed) ==
  /\ call # None /\ call.by \notin failed /\ call.target # Proxy /\ Bound(call.target)
  /\ Trusted
  => \A rank : Ranks(bindings, rank, validated, passed) => Shallow(is[call.by], rank)

(* Of a call that should have succeeded and did not: why.                  *)
Misses ==
  \E x \in passed :
    /\ x[1] \in validated
    /\ Bound(x[2]) \/ \E k \in 1 .. Len(ParamsOf(x[1])) - 1 : ParamsOf(x[1])[k].id = x[2]

Excused(f) ==
  f # None /\ f.due /\ f.clean => Misses \/ \E id \in Id \ compiled : IsClass(bindings[id])

AcceptedInv ==
  /\ BoundInv /\ FoundInv /\ TemporaryInv
  /\ Succeeding(running, instructions, threw) /\ Excused(fault)

(* A step that binds and validates nothing.                                *)
LEMMA AcceptedNext ==
  ASSUME AcceptedInv, UNCHANGED <<bindings, order, compiled, validated, passed, valid>>,
         TemporaryInv', Succeeding(running', instructions', threw'), Excused(fault')
  PROVE  AcceptedInv'
<1>1. BoundInv' /\ FoundInv'
  <2>1. BoundInv'
    BY DEF AcceptedInv, BoundInv, Bound, Narrow, IsClass
  <2>2. Sound(bindings', validated', passed')
    BY DEF AcceptedInv, FoundInv
  <2>3. FoundInv'
    BY <2>2 DEF AcceptedInv, FoundInv, Bound
  <2>. QED
    BY <2>1, <2>3
<1>2. Trusted' => Trusted
  BY DEF Trusted, Overlooked, Bound, IsClass, ParamsOf
<1>3. \A rank : Ranks(bindings', rank, validated', passed') => Ranks(bindings, rank, validated, passed)
  OBVIOUS
<1>4. \A is, rank : Shallow(is, rank) => Shallow(is, rank)'
  BY DEF Shallow, Resolvable, Bound
<1>5. (Bound(running.target))' => Bound(running'.target)
  BY DEF Bound
<1>6. Succeeding(running, instructions, threw)'
  BY <1>2, <1>3, <1>4, <1>5 DEF Succeeding
<1>7. Excused(fault)'
  BY DEF Excused, Misses, Bound, IsClass, ParamsOf
<1>. QED
  BY <1>1, <1>6, <1>7 DEF AcceptedInv

(* Initially.                                                              *)
LEMMA AcceptedInitially == ContainerInit => AcceptedInv
<1>. SUFFICES ASSUME ContainerInit PROVE AcceptedInv
  OBVIOUS
<1>1. BoundInv
  <2>1. order = <<>> /\ ToSet(<<>>) = {} /\ \A id \in Id : ~Bound(id)
    BY DEF ContainerInit, ToSet, Bound
  <2>. QED
    BY <2>1 DEF BoundInv, Bound, Narrow, IsClass
<1>2. Sound(bindings, validated, passed)
  <2>. DEFINE rank == [id \in Id |-> 0]
  <2>1. Ranks(bindings, rank, validated, passed)
    BY DEF ContainerInit, Ranks
  <2>. HIDE DEF rank
  <2>. QED
    BY <2>1 DEF ContainerInit, Sound
<1>3. FoundInv
  BY <1>2 DEF ContainerInit, FoundInv
<1>4. TemporaryInv
  BY DEF ContainerInit, TemporaryInv
<1>. QED
  BY <1>1, <1>3, <1>4 DEF ContainerInit, AcceptedInv, Succeeding, Excused

(* What is bound stays bound to the same.                                  *)
LEMMA BindAccepted ==
  ASSUME MachineInv, AcceptedInv, NEW id \in Id, Bind(id)
  PROVE  AcceptedInv'
<1>1. /\ running = None /\ ~Bound(id) /\ valid' = FALSE
      /\ compiled' \subseteq compiled \cup {id}
      /\ UNCHANGED <<validated, passed, instructions, sessionCache, temporary, running, threw, fault>>
  BY DEF Bind, ghostVars
<1>2. MachineTypeOK
  BY DEF MachineInv
<1>3. /\ \A i \in Id : Bound(i) => bindings'[i] = bindings[i] /\ Bound(i)'
      /\ \A i \in Id : bindings'[i] \in {bindings[i], program[id], [type |-> "ALIAS", to |-> id]}
      /\ order' \in Seq(Id) /\ ToSet(order') = {i \in Id : Bound(i)'}
  BY <1>2, BindAdds DEF AcceptedInv, BoundInv, Bound
<1>4. BoundInv'
  <2>1. ASSUME NEW i \in Id PROVE Narrow(bindings[i])'
    <3>1. Narrow(program[id]) /\ Narrow(bindings[i])
      BY <1>2, WidthIs DEF MachineTypeOK, AcceptedInv, BoundInv
    <3>2. Narrow([type |-> "ALIAS", to |-> id])
      BY DEF Narrow, IsClass
    <3>3. Narrow(bindings'[i])
      BY <1>3, <3>1, <3>2
    <3>. QED
      BY <3>3 DEF Narrow, IsClass
  <2>. QED
    BY <1>3, <2>1 DEF BoundInv
<1>5. FoundInv /\ Sound(bindings, validated, passed)
  BY DEF AcceptedInv, FoundInv
<1>6. PICK rank : Ranks(bindings, rank, validated, passed)
  BY <1>5 DEF Sound
<1>7. ASSUME NEW i \in validated PROVE LookedAt(bindings', i, rank[i], validated, passed, rank)
  <2>1. LookedAt(bindings, i, rank[i], validated, passed, rank) /\ i \in Id
    BY <1>5, <1>6 DEF Ranks, FoundInv
  <2>2. Bound(i) /\ bindings'[i] # None /\ bindings'[i] = bindings[i]
    BY <1>3, <2>1 DEF LookedAt, Bound
  <2>3. ASSUME NEW d \in Id, Under(bindings, d, rank[i], validated, rank)
        PROVE  Under(bindings', d, rank[i], validated, rank)
    BY <1>3, <2>3 DEF Under, Known, Bound
  <2>4. ASSUME bindings[i].type = "INSTANCE"
        PROVE  \E n \in 0 .. Len(bindings[i].params) :
                 /\ \A k \in 1 .. n : Under(bindings', bindings[i].params[k].id, rank[i], validated, rank)
                 /\ n < Len(bindings[i].params) =>
                      /\ bindings[i].params[n + 1].optional
                      /\ <<i, bindings[i].params[n + 1].id>> \in passed
    <3>. DEFINE params == bindings[i].params
    <3>1. params \in Seq(Param)
      BY <1>2, <2>1, <2>2, <2>4, BindingParts DEF MachineTypeOK
    <3>2. PICK n \in 0 .. Len(params) :
            /\ \A k \in 1 .. n : Under(bindings, params[k].id, rank[i], validated, rank)
            /\ n < Len(params) => params[n + 1].optional /\ <<i, params[n + 1].id>> \in passed
      BY <2>1, <2>4 DEF LookedAt
    <3>. HIDE DEF params
    <3>3. ASSUME NEW k \in 1 .. n PROVE Under(bindings', params[k].id, rank[i], validated, rank)
      <4>1. params[k] \in Param
        BY <3>1
      <4>2. params[k].id \in Id
        BY <4>1 DEF Param
      <4>. QED
        BY <2>3, <3>2, <4>2
    <3>. QED
      BY <3>2, <3>3 DEF params
  <2>5. ASSUME bindings[i].type = "ALIAS" PROVE Under(bindings', bindings[i].to, rank[i], validated, rank)
    <3>1. bindings[i].to \in Id
      BY <1>2, <2>1, <2>2, <2>5, BindingParts DEF MachineTypeOK
    <3>. QED
      BY <2>1, <2>3, <2>5, <3>1 DEF LookedAt
  <2>. QED
    BY <2>1, <2>2, <2>4, <2>5 DEF LookedAt
<1>8. Ranks(bindings', rank, validated, passed)
  BY <1>6, <1>7 DEF Ranks
<1>9. \A x \in passed : x[1] \in Id /\ IsClass(bindings[x[1]]) /\ IsClass(bindings'[x[1]])
  BY <1>3, <1>5 DEF Sound, FoundInv, IsClass, Bound
<1>10. FoundInv'
  <2>1. Sound(bindings', validated', passed')
    BY <1>1, <1>8, <1>9 DEF Sound
  <2>. QED
    BY <1>1, <1>5, <2>1 DEF FoundInv
<1>11. TemporaryInv'
  BY <1>1 DEF AcceptedInv, TemporaryInv
<1>12. Succeeding(running, instructions, threw)'
  BY <1>1 DEF Succeeding
<1>13. Excused(fault)'
  <2>. SUFFICES ASSUME fault # None, fault.due, fault.clean
       PROVE Misses' \/ \E i \in Id \ compiled' : IsClass(bindings[i])'
    BY <1>1 DEF Excused
  <2>1. CASE Misses
    <3>1. PICK x \in passed :
            /\ x[1] \in validated
            /\ Bound(x[2]) \/ \E k \in 1 .. Len(ParamsOf(x[1])) - 1 : ParamsOf(x[1])[k].id = x[2]
      BY <2>1 DEF Misses
    <3>2. x[1] \in Id /\ x[2] \in Id
      BY <1>5 DEF FoundInv
    <3>3. bindings'[x[1]] = bindings[x[1]]
      BY <1>3, <1>9, <3>2 DEF IsClass, Bound
    <3>4. Bound(x[2]) => bindings'[x[2]] # None
      BY <1>3, <3>2 DEF Bound
    <3>5. Misses'
      BY <1>1, <3>1, <3>3, <3>4 DEF Misses, ParamsOf, Bound
    <3>. QED
      BY <3>5
  <2>2. CASE \E i \in Id \ compiled : IsClass(bindings[i])
    <3>1. PICK i \in Id \ compiled : IsClass(bindings[i])
      BY <2>2
    <3>2. Bound(i) /\ bindings'[i] = bindings[i] /\ i # id
      BY <1>1, <1>3, <3>1 DEF IsClass, Bound
    <3>3. i \in Id \ compiled' /\ IsClass(bindings[i])'
      BY <1>1, <3>1, <3>2 DEF IsClass
    <3>. QED
      BY <3>3
  <2>. QED
    BY <2>1, <2>2 DEF AcceptedInv, Excused
<1>. QED
  BY <1>4, <1>10, <1>11, <1>12, <1>13 DEF AcceptedInv

(* A validation is made between calls.                                     *)
LEMMA ValidateAccepted ==
  ASSUME MachineInv, AcceptedInv, Validate
  PROVE  AcceptedInv'
<1>1. /\ running = None
      /\ UNCHANGED <<bindings, order, compiled, instructions, sessionCache, temporary, running, threw, fault>>
  BY DEF Validate, ghostVars
<1>2. FoundInv /\ BoundInv
  BY DEF AcceptedInv
<1>3. /\ validated' \in SUBSET Id /\ passed' \in SUBSET (Id \X Id) /\ valid' \in BOOLEAN
      /\ validated \subseteq validated'
      /\ \A x \in passed : x[1] \in validated => x \in passed'
      /\ Sound(bindings, validated', passed')
      /\ valid' => \A id \in Id : Bound(id) => Known(bindings, id, validated')
  <2>1. bindings \in [Id -> Binding \cup {None}]
    BY DEF MachineInv, MachineTypeOK
  <2>. QED
    BY <1>2, <2>1, ValidateFinds DEF FoundInv, BoundInv
<1>4. BoundInv'
  BY <1>1, <1>2 DEF BoundInv, Bound, Narrow, IsClass
<1>5. FoundInv'
  <2>1. Sound(bindings', validated', passed')
    BY <1>1, <1>3
  <2>2. valid' => \A id \in Id : Bound(id)' => Known(bindings', id, validated')
    BY <1>1, <1>3 DEF Bound
  <2>. QED
    BY <1>3, <2>1, <2>2 DEF FoundInv
<1>6. TemporaryInv'
  BY <1>1 DEF AcceptedInv, TemporaryInv
<1>7. Succeeding(running, instructions, threw)'
  BY <1>1 DEF Succeeding
<1>8. Excused(fault)'
  <2>1. Misses => Misses'
    BY <1>1, <1>3 DEF Misses, ParamsOf, Bound
  <2>. QED
    BY <1>1, <2>1 DEF AcceptedInv, Excused, IsClass
<1>. QED
  BY <1>4, <1>5, <1>6, <1>7, <1>8 DEF AcceptedInv

(* A temporary binding is made between calls, and its value is in a cache. *)
LEMMA AddTemporaryAccepted ==
  ASSUME MachineInv, AcceptedInv, NEW s \in ResolveSession, NEW id \in Id, AddTemporary(s, id)
  PROVE  AcceptedInv'
<1>. DEFINE v == Value("temporary", id, 0)
<1>1. /\ running = None /\ UNCHANGED <<running, fault>>
      /\ temporary' = [temporary EXCEPT ![s] = @ \cup {id}]
      /\ sessionCache' = [sessionCache EXCEPT ![s][id] = v]
      /\ UNCHANGED <<bindings, order, compiled, validated, passed, valid>>
  BY DEF AddTemporary, bindVars, ghostVars
<1>2. v # None
  <2>1. v \in Values
    BY DEF Value, Values
  <2>. QED
    BY <2>1, ContainerAssumption
<1>. HIDE DEF v
<1>3. /\ temporary = [x \in ResolveSession |-> temporary[x]]
      /\ \A x \in ResolveSession : \A i \in temporary[x] : i \in Id /\ sessionCache[x][i] # None
      /\ sessionCache = [x \in ResolveSession |-> [i \in Id |-> sessionCache[x][i]]]
  BY DEF AcceptedInv, TemporaryInv, MachineInv, MachineTypeOK
<1>4. \A x \in ResolveSession : temporary'[x] = IF x = s THEN temporary[s] \cup {id} ELSE temporary[x]
  BY <1>1, <1>3
<1>5. \A x \in ResolveSession, i \in Id :
        sessionCache'[x][i] = IF x = s /\ i = id THEN v ELSE sessionCache[x][i]
  BY <1>1, <1>3
<1>6. temporary' = [x \in ResolveSession |-> temporary'[x]]
  BY <1>1, <1>3
<1>7. ASSUME NEW x \in ResolveSession, NEW i \in temporary'[x] PROVE i \in Id /\ sessionCache'[x][i] # None
  <2>1. CASE x = s /\ i = id
    BY <1>2, <1>5, <2>1
  <2>2. CASE ~(x = s /\ i = id)
    <3>1. i \in temporary[x]
      BY <1>4, <2>2
    <3>. QED
      BY <1>3, <1>5, <2>2, <3>1
  <2>. QED
    BY <2>1, <2>2
<1>8. TemporaryInv'
  BY <1>6, <1>7 DEF TemporaryInv
<1>9. Succeeding(running', instructions', threw')
  BY <1>1 DEF Succeeding
<1>10. Excused(fault')
  BY <1>1 DEF AcceptedInv
<1>. QED
  BY <1>1, <1>8, <1>9, <1>10, AcceptedNext

(* A plan succeeds if the call should, or there is an excuse.              *)
LEMMA PerformAccepted ==
  ASSUME MachineInv, AcceptedInv, NEW s \in ResolveSession, NEW p \in PlanCode, NEW rest \in Seq(Instr),
         NEW u, NEW target \in Id \cup {Proxy}, PerformPlan(s, p, rest, u, target),
         UNCHANGED <<bindings, order, compiled, validated, passed, valid, temporary, sessionCache>>,
         \A rank :
           /\ Ranks(bindings, rank, validated, passed)
           /\ s \notin threw /\ target # Proxy /\ Bound(target) /\ Trusted
           => /\ Shallow(rest, rank) /\ Resolvable(p.target, p.optional)
              /\ p.target \in validated => Len(rest) + Width * rank[p.target] <= Height
  PROVE  AcceptedInv'
<1>. DEFINE r == Planned(s, p, u)
            grown == rest \o r.code
            e == IF r.error = None /\ Len(grown) > MaxDepth THEN "endless" ELSE r.error
            call == [by |-> s, target |-> target]
            failure == [error |-> e, target |-> target, clean |-> s \notin threw,
                        due |-> valid /\ target # Proxy /\ Bound(target)]
            Due == s \notin threw /\ target # Proxy /\ Bound(target) /\ Trusted
<1>1. /\ instructions' = [instructions EXCEPT ![s] = grown]
      /\ IF e = None THEN running' = call /\ UNCHANGED <<threw, fault>>
         ELSE /\ running' = IF e = "endless" THEN call ELSE None
              /\ threw' = threw \cup {s} /\ fault' = failure
  BY DEF PerformPlan
<1>2. MachineTypeOK /\ FoundInv
  BY DEF MachineInv, AcceptedInv
<1>3. TemporaryInv /\ TemporaryInv'
  BY DEF AcceptedInv, TemporaryInv
<1>4. PICK rank : Ranks(bindings, rank, validated, passed)
  BY <1>2 DEF FoundInv, Sound
<1>5. ASSUME Due, NEW any, Ranks(bindings, any, validated, passed)
      PROVE  r.error = None /\ Shallow(grown, any)
  <2>1. Shallow(rest, any) /\ Resolvable(p.target, p.optional)
        /\ (p.target \in validated => Len(rest) + Width * any[p.target] <= Height)
    BY <1>5
  <2>2. /\ r.error = None
        /\ \/ r.code = <<>>
           \/ \E c \in validated : \E allow \in BOOLEAN :
                /\ r.code = Compile(c, allow) /\ IsClass(bindings[c])
                /\ p.target \in validated /\ any[c] <= any[p.target]
    BY <1>2, <1>3, <1>5, <2>1, PlanAnswers DEF FoundInv, TemporaryInv
  <2>. HIDE DEF r
  <2>3. CASE r.code = <<>>
    <3>1. grown = rest
      BY <2>3
    <3>. QED
      BY <2>1, <2>2, <3>1
  <2>4. ASSUME NEW c \in validated, NEW allow \in BOOLEAN, r.code = Compile(c, allow), IsClass(bindings[c]),
               p.target \in validated, any[c] <= any[p.target]
        PROVE  Shallow(grown, any)
    <3>1. c \in Id /\ p.target \in Id /\ any[c] \in Nat /\ any[p.target] \in Nat
      BY <1>2, <1>5, <2>4 DEF FoundInv, Ranks
    <3>2. Len(rest) + Width * any[c] <= Height
      <4>1. Width * any[c] <= Width * any[p.target] /\ Width * any[c] \in Nat /\ Width * any[p.target] \in Nat
        BY <2>4, <3>1, Multiples, WidthIs
      <4>2. PICK i \in Nat, j \in Nat : i = Width * any[c] /\ j = Width * any[p.target]
        BY <4>1
      <4>3. i <= j /\ Len(rest) + j <= Height /\ Len(rest) \in Nat /\ Height \in Nat
        BY <2>1, <2>4, <4>1, <4>2, WidthIs
      <4>4. Len(rest) + i <= Height
        BY <4>3
      <4>. QED
        BY <4>2, <4>4
    <3>3. Narrow(bindings[c]) /\ bindings \in [Id -> Binding \cup {None}]
      BY <1>2, <3>1 DEF AcceptedInv, BoundInv, MachineTypeOK
    <3>4. Shallow(rest \o Compile(c, allow), any)
      BY <1>2, <1>5, <2>1, <2>4, <3>2, <3>3, PushShallow DEF FoundInv
    <3>. QED
      BY <2>4, <3>4
  <2>. QED
    BY <2>2, <2>3, <2>4
<1>6. grown \in Seq(Instr)
  <2>1. r.code \in Seq(Instr)
    BY <1>2, PlannedCode
  <2>. QED
    BY <2>1
<1>7. call \in Calls /\ call # None /\ call.by = s /\ call.target = target
  BY ContainerAssumption DEF Calls
<1>8. instructions'[s] = grown
  BY <1>1, <1>2 DEF MachineTypeOK
<1>9. failure.due = (valid /\ target # Proxy /\ Bound(target)) /\ failure.clean = (s \notin threw)
  OBVIOUS
<1>. HIDE DEF r, grown, call, failure, Due
<1>10. ASSUME Due PROVE e = None
  <2>1. r.error = None /\ Shallow(grown, rank)
    BY <1>4, <1>5, <1>10
  <2>2. Len(grown) <= Height /\ Len(grown) \in Nat
    BY <1>6, <2>1 DEF Shallow
  <2>3. ~(Len(grown) > MaxDepth)
    BY <2>2, WidthIs
  <2>. QED
    BY <2>1, <2>3
<1>. HIDE DEF e
<1>11. Succeeding(running', instructions', threw')
  <2>1. CASE Due
    <3>1. running' = call /\ threw' = threw
      BY <1>1, <1>10, <2>1
    <3>. QED
      BY <1>5, <1>7, <1>8, <2>1, <3>1 DEF Succeeding
  <2>2. CASE ~Due
    <3>1. running' \in {call, None} /\ threw \subseteq threw'
      BY <1>1
    <3>2. ~(/\ running' # None /\ running'.by \notin threw' /\ running'.target # Proxy
            /\ Bound(running'.target) /\ Trusted)
      BY <1>7, <2>2, <3>1 DEF Due
    <3>. QED
      BY <3>2 DEF Succeeding
  <2>. QED
    BY <2>1, <2>2
<1>12. Excused(fault')
  <2>1. CASE e = None
    BY <1>1, <2>1 DEF AcceptedInv
  <2>2. CASE e # None
    <3>1. ~Due /\ fault' = failure
      BY <1>1, <1>10, <2>2
    <3>2. SUFFICES ASSUME valid, s \notin threw, target # Proxy, Bound(target)
                   PROVE  Misses \/ \E id \in Id \ compiled : IsClass(bindings[id])
      BY <1>9, <3>1 DEF Excused
    <3>3. Overlooked \/ \E id \in Id \ compiled : IsClass(bindings[id])
      BY <3>1, <3>2 DEF Due, Trusted
    <3>4. ASSUME Overlooked PROVE Misses
      <4>1. PICK x \in passed :
              Bound(x[2]) \/ \E k \in 1 .. Len(ParamsOf(x[1])) - 1 : ParamsOf(x[1])[k].id = x[2]
        BY <3>4 DEF Overlooked
      <4>2. IsClass(bindings[x[1]]) /\ x[1] \in Id
        BY <1>2 DEF FoundInv, Sound
      <4>3. Known(bindings, x[1], validated)
        BY <1>2, <3>2, <4>2 DEF FoundInv, IsClass, Bound
      <4>4. x[1] \in validated
        BY <4>2, <4>3 DEF Known, IsClass
      <4>. QED
        BY <4>1, <4>4 DEF Misses
    <3>. QED
      BY <3>3, <3>4
  <2>. QED
    BY <2>1, <2>2
<1>. QED
  BY <1>3, <1>11, <1>12, AcceptedNext

(* A call begins with an empty stack and a target that is known.           *)
LEMMA ResolveAccepted ==
  ASSUME MachineInv, AcceptedInv, NEW s \in ResolveSession, NEW target \in Id \cup {Proxy},
         Resolve(s, target)
  PROVE  AcceptedInv'
<1>. DEFINE p == PlanOf(target, FALSE, TRUE)
            u == target = Proxy
            rest == instructions[s]
<1>1. /\ running = None /\ PerformPlan(s, p, rest, u, target)
      /\ UNCHANGED <<bindings, order, compiled, validated, passed, valid, temporary, sessionCache>>
  BY DEF Resolve, bindVars
<1>2. rest \in Seq(Instr) /\ FoundInv
  BY DEF MachineInv, MachineTypeOK, AcceptedInv
<1>3. p \in PlanCode /\ p.target = target
  BY DEF PlanOf, PlanCode
<1>4. s \notin threw => rest = <<>>
  BY <1>1 DEF MachineInv, FramesInv
<1>. HIDE DEF p, u, rest
<1>5. ASSUME NEW rank, Ranks(bindings, rank, validated, passed),
             s \notin threw, target # Proxy, Bound(target), Trusted
      PROVE  /\ Shallow(rest, rank) /\ Resolvable(p.target, p.optional)
             /\ p.target \in validated => Len(rest) + Width * rank[p.target] <= Height
  <2>1. Len(rest) = 0
    BY <1>4, <1>5
  <2>2. Shallow(rest, rank)
    BY <2>1, WidthIs DEF Shallow
  <2>3. Resolvable(p.target, p.optional)
    BY <1>2, <1>3, <1>5 DEF Resolvable, Trusted, FoundInv
  <2>4. ASSUME target \in validated PROVE Width * rank[target] <= Height /\ Width * rank[target] \in Nat
    <3>1. /\ Cardinality(validated) \in Nat /\ Cardinality(Id) \in Nat
          /\ Cardinality(validated) <= Cardinality(Id)
      BY <1>2, ContainerAssumption, FS_Subset, FS_CardinalityType DEF FoundInv
    <3>2. rank[target] \in 1 .. Cardinality(validated)
      BY <1>5, <2>4 DEF Ranks
    <3>3. rank[target] \in Nat /\ rank[target] <= Cardinality(Id)
      BY <3>1, <3>2
    <3>. QED
      BY <3>1, <3>3, Multiples, WidthIs DEF Height
  <2>. QED
    BY <1>3, <2>1, <2>2, <2>3, <2>4
<1>. QED
  BY <1>1, <1>2, <1>3, <1>5, PerformAccepted

(* The plan on top of the stack.                                           *)
LEMMA PlanAccepted ==
  ASSUME MachineInv, AcceptedInv, NEW s \in ResolveSession, Plan(s)
  PROVE  AcceptedInv'
<1>1. /\ Running(s) /\ instructions[s] # <<>> /\ Top(s).code = "PLAN"
      /\ PerformPlan(s, Top(s), Rest(s), FALSE, running.target)
      /\ UNCHANGED <<bindings, order, compiled, validated, passed, valid, temporary, sessionCache>>
  BY DEF Plan, bindVars
<1>2. /\ running # None /\ running.by = s /\ running.target \in Id \cup {Proxy}
      /\ instructions[s] \in Seq(Instr) /\ Top(s) \in Instr /\ Rest(s) \in Seq(Instr)
  BY <1>1, RunningFacts DEF Running
<1>3. Top(s) \in PlanCode
  <2>1. \A i \in Instr : i.code = "PLAN" => i \in PlanCode
    BY DEF Instr, PlanCode
  <2>. QED
    BY <1>1, <1>2, <2>1
<1>4. PICK p \in PlanCode : p = Top(s)
  BY <1>3
<1>5. PICK rest \in Seq(Instr) : rest = Rest(s)
  BY <1>2
<1>6. PICK target \in Id \cup {Proxy} : target = running.target
  BY <1>2
<1>7. PICK is \in Seq(Instr) : is = instructions[s]
  BY <1>2
<1>8. /\ is # <<>> /\ rest = Front(is) /\ p = is[Len(is)] /\ p.code = "PLAN"
  BY <1>1, <1>4, <1>5, <1>7 DEF Top, Rest, Last
<1>9. /\ Len(rest) \in Nat /\ Len(is) = Len(rest) + 1
      /\ \A i \in 1 .. Len(rest) : rest[i] = is[i]
  <2>1. DOMAIN rest = 1 .. Len(rest)
    OBVIOUS
  <2>. QED
    BY <1>8, <2>1, FrontFacts
<1>10. ASSUME NEW rank, Ranks(bindings, rank, validated, passed),
              s \notin threw, target # Proxy, Bound(target), Trusted
       PROVE  /\ Shallow(rest, rank) /\ Resolvable(p.target, p.optional)
              /\ p.target \in validated => Len(rest) + Width * rank[p.target] <= Height
  <2>1. Shallow(is, rank)
    BY <1>2, <1>6, <1>7, <1>10 DEF AcceptedInv, Succeeding
  <2>2. Len(is) \in 1 .. Len(is) /\ \A i \in 1 .. Len(rest) : i \in 1 .. Len(is)
    BY <1>9
  <2>3. /\ Resolvable(p.target, p.optional)
        /\ p.target \in validated => Len(is) + Width * rank[p.target] <= Height + 1
    BY <1>8, <2>1, <2>2 DEF Shallow
  <2>4. ASSUME p.target \in validated PROVE Len(rest) + Width * rank[p.target] <= Height
    <3>1. rank[p.target] \in Nat /\ Width * rank[p.target] \in Nat
      <4>1. p.target \in Id
        BY <2>3 DEF Resolvable
      <4>2. rank[p.target] \in Nat
        BY <1>10, <4>1 DEF Ranks
      <4>. QED
        BY <4>2, Multiples, WidthIs
    <3>2. PICK i \in Nat : i = Width * rank[p.target]
      BY <3>1
    <3>3. (Len(rest) + 1) + i <= Height + 1 /\ Height \in Nat
      BY <1>9, <2>3, <2>4, <3>2, WidthIs
    <3>4. Len(rest) + i <= Height
      BY <1>9, <3>3
    <3>. QED
      BY <3>2, <3>4
  <2>5. Shallow(rest, rank)
    <3>1. Len(rest) <= Height
      BY <1>9, <2>1, WidthIs DEF Shallow
    <3>. QED
      BY <1>9, <2>1, <2>2, <3>1 DEF Shallow
  <2>. QED
    BY <2>3, <2>4, <2>5
<1>11. PerformPlan(s, p, rest, FALSE, target)
  BY <1>1, <1>4, <1>5, <1>6
<1>. QED
  BY <1>1, <1>10, <1>11, PerformAccepted

(* An instruction that is done with leaves a lower stack.                  *)
LEMMA PopSucceeds ==
  ASSUME MachineInv, AcceptedInv, NEW s \in ResolveSession, Running(s), instructions[s] # <<>>,
         instructions' = [instructions EXCEPT ![s] = Rest(s)], UNCHANGED <<running, threw>>
  PROVE  Succeeding(running', instructions', threw')
<1>1. running # None /\ running.by = s /\ instructions[s] \in Seq(Instr)
  BY RunningFacts DEF Running
<1>2. instructions'[s] = Front(instructions[s])
  BY DEF MachineInv, MachineTypeOK, Rest
<1>3. PICK is, rest : is \in Seq(Instr) /\ is = instructions[s] /\ rest = Front(is)
  BY <1>1
<1>4. /\ rest \in Seq(Instr) /\ Len(rest) \in Nat /\ Len(is) = Len(rest) + 1
      /\ \A i \in 1 .. Len(rest) : rest[i] = is[i]
  <2>1. is # <<>>
    BY <1>3
  <2>2. DOMAIN rest = 1 .. Len(rest)
    BY <1>3, <2>1, FrontFacts
  <2>. QED
    BY <1>3, <2>1, <2>2, FrontFacts
<1>5. ASSUME NEW rank, Shallow(is, rank) PROVE Shallow(rest, rank)
  <2>1. Len(rest) <= Height /\ \A i \in 1 .. Len(rest) : i \in 1 .. Len(is)
    BY <1>4, <1>5, WidthIs DEF Shallow
  <2>. QED
    BY <1>4, <1>5, <2>1 DEF Shallow
<1>. QED
  BY <1>1, <1>2, <1>3, <1>5 DEF AcceptedInv, Succeeding

(* A transformation.                                                       *)
LEMMA TransformAccepted ==
  ASSUME MachineInv, AcceptedInv, NEW s \in ResolveSession, Transform(s)
  PROVE  AcceptedInv'
<1>1. /\ Running(s) /\ instructions[s] # <<>>
      /\ instructions' = [instructions EXCEPT ![s] = Rest(s)]
      /\ UNCHANGED <<running, threw, fault, temporary, sessionCache>>
      /\ UNCHANGED <<bindings, order, compiled, validated, passed, valid>>
  BY DEF Transform, bindVars, ghostVars
<1>2. Succeeding(running', instructions', threw')
  BY <1>1, PopSucceeds
<1>3. TemporaryInv' /\ Excused(fault')
  BY <1>1 DEF AcceptedInv, TemporaryInv
<1>. QED
  BY <1>1, <1>2, <1>3, AcceptedNext

(* A call that returns was no failure.                                     *)
LEMMA ReturnAccepted ==
  ASSUME MachineInv, AcceptedInv, NEW s \in ResolveSession, Return(s)
  PROVE  AcceptedInv'
<1>1. /\ running' = None /\ UNCHANGED <<fault, temporary, sessionCache>>
      /\ UNCHANGED <<bindings, order, compiled, validated, passed, valid>>
  BY DEF Return, bindVars
<1>2. Succeeding(running', instructions', threw')
  BY <1>1 DEF Succeeding
<1>3. TemporaryInv' /\ Excused(fault')
  BY <1>1 DEF AcceptedInv, TemporaryInv
<1>. QED
  BY <1>1, <1>2, <1>3, AcceptedNext

(* A build keeps what is in the caches, and a factory that throws is none  *)
(* of the failures in question.                                            *)
LEMMA BuildAccepted ==
  ASSUME MachineInv, AcceptedInv, NEW s \in ResolveSession, Build(s)
  PROVE  AcceptedInv'
<1>. DEFINE top == Top(s).target
            instance == Value("instance", top, IF top = Proxy THEN 0 ELSE Len(made[top]) + 1)
<1>1. /\ Running(s) /\ instructions[s] # <<>> /\ Top(s).code = "BUILD"
      /\ instructions' = [instructions EXCEPT ![s] = Rest(s)]
      /\ UNCHANGED <<bindings, order, compiled, validated, passed, valid, temporary, fault>>
      /\ \/ CacheIfNecessary(s, top, instance) /\ UNCHANGED <<running, threw>>
         \/ running' = None /\ UNCHANGED sessionCache
  BY DEF Build, bindVars
<1>2. PICK t \in Id \cup {Proxy} : t = top
  <2>1. Top(s) \in Instr
    BY <1>1, RunningFacts
  <2>2. \A i \in Instr : i.code = "BUILD" => i.target \in Id \cup {Proxy}
    BY DEF Instr, PlanCode
  <2>. QED
    BY <1>1, <2>1, <2>2
<1>3. PICK v : v = instance
  OBVIOUS
<1>4. MachineTypeOK /\ TemporaryInv
  BY DEF MachineInv, AcceptedInv
<1>5. v # None
  <2>1. instance \in Values
    <3>1. top = Proxy \/ Len(made[top]) + 1 \in Nat
      BY <1>2, <1>4 DEF MachineTypeOK
    <3>2. (IF top = Proxy THEN 0 ELSE Len(made[top]) + 1) \in Nat
      BY <3>1
    <3>3. top \in Id \cup {Proxy, None}
      BY <1>2
    <3>. HIDE DEF top
    <3>. QED
      BY <3>2, <3>3 DEF Value, Values
  <2>. QED
    BY <1>3, <2>1, ContainerAssumption
<1>6. \/ CacheIfNecessary(s, t, v) /\ UNCHANGED <<running, threw>>
      \/ running' = None /\ UNCHANGED sessionCache
  BY <1>1, <1>2, <1>3
<1>. HIDE DEF instance, top
<1>7. \A x \in ResolveSession, i \in Id : sessionCache[x][i] # None => sessionCache'[x][i] # None
  <2>1. CASE CacheIfNecessary(s, t, v)
    <3>1. sessionCache' = IF ScopeOf(t) = "SESSION" THEN [sessionCache EXCEPT ![s][t] = v] ELSE sessionCache
      BY <2>1 DEF CacheIfNecessary
    <3>2. sessionCache = [x \in ResolveSession |-> [i \in Id |-> sessionCache[x][i]]]
      BY <1>4 DEF MachineTypeOK
    <3>. QED
      BY <1>5, <3>1, <3>2
  <2>. QED
    BY <1>6, <2>1
<1>8. TemporaryInv'
  BY <1>1, <1>4, <1>7 DEF TemporaryInv
<1>9. Succeeding(running', instructions', threw')
  <2>1. CASE running' = None
    BY <2>1 DEF Succeeding
  <2>2. CASE UNCHANGED <<running, threw>>
    BY <1>1, <2>2, PopSucceeds
  <2>. QED
    BY <1>6, <2>1, <2>2
<1>10. Excused(fault')
  BY <1>1 DEF AcceptedInv
<1>. QED
  BY <1>1, <1>8, <1>9, <1>10, AcceptedNext

(* The invariant of what is validated: the ids that validations are done   *)
(* with can be ranked, each above what it needs, and a call that should    *)
(* succeed has a stack that is as low as the ranks allow                   *)
(* (utils.ts:16, resolve-session.ts:98).                                   *)
THEOREM AcceptedInvariance == ContainerSpec => []AcceptedInv
<1>1. ContainerInit => AcceptedInv
  BY AcceptedInitially
<1>2. ASSUME MachineInv, AcceptedInv, [ContainerNext]_containerVars PROVE AcceptedInv'
  <2>1. ASSUME NEW id \in Id, Bind(id) PROVE AcceptedInv'
    BY <1>2, <2>1, BindAccepted
  <2>2. CASE Validate
    BY <1>2, <2>2, ValidateAccepted
  <2>3. ASSUME NEW s \in ResolveSession, NEW id \in Id \cup {Proxy}, Resolve(s, id) PROVE AcceptedInv'
    BY <1>2, <2>3, ResolveAccepted
  <2>4. ASSUME NEW s \in ResolveSession, NEW id \in Id, AddTemporary(s, id) PROVE AcceptedInv'
    BY <1>2, <2>4, AddTemporaryAccepted
  <2>5. ASSUME NEW s \in ResolveSession, Step(s) PROVE AcceptedInv'
    BY <1>2, <2>5, PlanAccepted, TransformAccepted, BuildAccepted, ReturnAccepted DEF Step
  <2>6. CASE UNCHANGED containerVars
    <3>1. /\ UNCHANGED <<bindings, order, compiled, validated, passed, valid>>
          /\ UNCHANGED <<running, instructions, threw, fault, temporary, sessionCache>>
      BY <2>6 DEF containerVars
    <3>2. TemporaryInv' /\ Succeeding(running', instructions', threw') /\ Excused(fault')
      BY <1>2, <3>1 DEF AcceptedInv, TemporaryInv
    <3>. QED
      BY <1>2, <3>1, <3>2, AcceptedNext
  <2>. QED
    BY <1>2, <2>1, <2>2, <2>3, <2>4, <2>5, <2>6 DEF ContainerNext
<1>. QED
  BY <1>1, <1>2, MachineInvariance, PTL DEF ContainerSpec

(* After a validate() that returned, a call for something bound does not   *)
(* fail or go on for ever, unless an optional parameter hid something from *)
(* the validation or a class was left without instructions                 *)
(* (container.ts:90).                                                      *)
THEOREM AcceptedHolds == ContainerSpec => []AcceptedResolves
<1>1. AcceptedInv => AcceptedResolves
  <2>1. Misses => Overlooked
    BY DEF Misses, Overlooked
  <2>. QED
    BY <2>1 DEF AcceptedInv, Excused, AcceptedResolves
<1>. QED
  BY <1>1, AcceptedInvariance, PTL

(* The type invariant: what is bound is what the map lists, and nothing    *)
(* else was compiled or validated (container.ts:73).                       *)
THEOREM ContainerTypes == ContainerSpec => []ContainerTypeOK
<1>1. MachineInv /\ AcceptedInv => ContainerTypeOK
  <2>. SUFFICES ASSUME MachineInv, AcceptedInv PROVE ContainerTypeOK
    OBVIOUS
  <2>1. /\ program \in Program /\ threw \subseteq ResolveSession /\ valid \in BOOLEAN
        /\ ToSet(order) = {id \in Id : Bound(id)}
    BY DEF MachineInv, MachineTypeOK, AcceptedInv, FoundInv, BoundInv
  <2>2. ASSUME NEW id \in validated PROVE id \in Id /\ Bound(id)
    BY DEF AcceptedInv, FoundInv, Sound, Ranks, LookedAt, Bound
  <2>3. \A id \in compiled : id \in Id /\ Bound(id)
    BY DEF MachineInv, MachineTypeOK, IsClass, Bound
  <2>4. \A s \in ResolveSession : temporary[s] \subseteq {id \in Id : sessionCache[s][id] # None}
    BY DEF AcceptedInv, TemporaryInv
  <2>. QED
    BY <2>1, <2>2, <2>3, <2>4 DEF ContainerTypeOK
<1>. QED
  BY <1>1, MachineInvariance, AcceptedInvariance, PTL
=============================================================================
