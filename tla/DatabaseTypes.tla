--------------------------- MODULE DatabaseTypes ----------------------------
(***************************************************************************)
(* Lemmas about the operators that ActorDatabase is built from (sums,      *)
(* mailboxes, the queue of a card), and types and messages: TypeOK and     *)
(* MailInv are inductive.                                                  *)
(***************************************************************************)
EXTENDS DatabaseInvariant, FiniteSetTheorems, SequenceTheorems, WellFoundedInduction, TLAPS

-----------------------------------------------------------------------------
(* Induction and sums *)

\* Induction over the natural numbers, for a set.
LEMMA NatSet ==
  ASSUME NEW A, A \subseteq Nat, 0 \in A, \A n \in A : n + 1 \in A
  PROVE  A = Nat
<1> SUFFICES ASSUME Nat \ A # {} PROVE FALSE
  OBVIOUS
<1>1. \E x \in Nat \ A : \A y \in Nat \ A : ~(<<y, x>> \in OpToRel(<, Nat))
  BY NatLessThanWellFounded, WFMin
<1>2. PICK x \in Nat \ A : \A y \in Nat \ A : ~(y < x)
  BY <1>1 DEF OpToRel
<1>3. x # 0 /\ x - 1 \in Nat
  BY <1>2
<1>4. x - 1 \in A
  BY <1>2, <1>3
<1> QED
  BY <1>2, <1>3, <1>4

\* Induction over the subsets of a finite set: P holds of a subset when it holds of
\* the subset without the element that CHOOSE takes.
First(s) == CHOOSE x \in s : TRUE

\* Induction over the subsets of a finite set, from one element removed to the whole.
LEMMA SubsetInduction ==
  ASSUME NEW D, IsFiniteSet(D), NEW P, P \subseteq SUBSET D, {} \in P,
         \A s \in SUBSET D : s # {} /\ s \ {First(s)} \in P => s \in P
  PROVE  P = SUBSET D
<1> DEFINE A == {n \in Nat : \A s \in SUBSET D : Cardinality(s) <= n => s \in P}
<1>1. \A s \in SUBSET D : IsFiniteSet(s) /\ Cardinality(s) \in Nat
                          /\ (Cardinality(s) = 0 <=> s = {})
  BY FS_Subset, FS_CardinalityType, FS_EmptySet
<1>2. 0 \in A
  <2> SUFFICES ASSUME NEW s \in SUBSET D, Cardinality(s) <= 0 PROVE s \in P
    OBVIOUS
  <2>1. Cardinality(s) = 0
    BY <1>1
  <2> QED
    BY <1>1, <2>1
<1>3. ASSUME NEW n \in A PROVE n + 1 \in A
  <2> SUFFICES ASSUME NEW s \in SUBSET D, Cardinality(s) <= n + 1, s # {} PROVE s \in P
    OBVIOUS
  <2>1. First(s) \in s
    BY DEF First
  <2>2. Cardinality(s \ {First(s)}) = Cardinality(s) - 1
    BY <1>1, <2>1, FS_RemoveElement
  <2>3. s \ {First(s)} \in P
    BY <1>1, <2>2
  <2> QED
    BY <2>3
<1>4. A = Nat
  BY <1>2, <1>3, NatSet
<1> HIDE DEF A
<1>5. ASSUME NEW s \in SUBSET D PROVE s \in P
  <2>1. Cardinality(s) \in A /\ Cardinality(s) <= Cardinality(s)
    BY <1>1, <1>4
  <2> QED
    BY <2>1 DEF A
<1> QED
  BY <1>5

\* The recursion of a sum is well defined.
SumStep(f, g, s) == IF s = {} THEN 0 ELSE f[First(s)] + g[s \ {First(s)}]

\* The recursive function by which SumFunction is defined exists.
LEMMA SumExists ==
  ASSUME NEW f, IsFiniteSet(DOMAIN f)
  PROVE  \E g : g = [s \in SUBSET DOMAIN f |-> SumStep(f, g, s)]
<1> DEFINE D == DOMAIN f
           Eq(g, n) == /\ DOMAIN g = SUBSET D /\ g = [s \in SUBSET D |-> g[s]]
                       /\ \A s \in SUBSET D : Cardinality(s) <= n => g[s] = SumStep(f, g, s)
           A == {n \in Nat : \E g : Eq(g, n)}
<1>1. \A s \in SUBSET D : IsFiniteSet(s) /\ Cardinality(s) \in Nat
                          /\ (Cardinality(s) = 0 <=> s = {})
  BY FS_Subset, FS_CardinalityType, FS_EmptySet
<1>2. 0 \in A
  <2>1. Eq([s \in SUBSET D |-> 0], 0)
    BY <1>1 DEF SumStep
  <2> QED
    BY <2>1
<1>3. ASSUME NEW n \in A PROVE n + 1 \in A
  <2>1. PICK g : Eq(g, n)
    OBVIOUS
  <2> DEFINE h == [s \in SUBSET D |-> IF Cardinality(s) <= n THEN g[s] ELSE SumStep(f, g, s)]
  <2>2. ASSUME NEW s \in SUBSET D, Cardinality(s) <= n + 1 PROVE h[s] = SumStep(f, h, s)
    <3>1. h[s] = SumStep(f, g, s)
      BY <2>1
    <3>2. s # {} => h[s \ {First(s)}] = g[s \ {First(s)}]
      <4> SUFFICES ASSUME s # {} PROVE h[s \ {First(s)}] = g[s \ {First(s)}]
        OBVIOUS
      <4>1. First(s) \in s
        BY DEF First
      <4>2. Cardinality(s \ {First(s)}) = Cardinality(s) - 1
        BY <1>1, <4>1, FS_RemoveElement
      <4>3. Cardinality(s \ {First(s)}) <= n
        BY <1>1, <2>2, <4>2
      <4> QED
        BY <4>3
    <3> HIDE DEF h
    <3> QED
      BY <3>1, <3>2 DEF SumStep
  <2>3. DOMAIN h = SUBSET D /\ h = [s \in SUBSET D |-> h[s]]
    OBVIOUS
  <2> HIDE DEF h
  <2>4. Eq(h, n + 1)
    BY <2>2, <2>3
  <2> HIDE DEF Eq
  <2>5. \E k : Eq(k, n + 1)
    BY <2>4
  <2> QED
    BY <2>5
<1>4. A = Nat
  BY <1>2, <1>3, NatSet
<1>5. Cardinality(D) \in A
  BY <1>1, <1>4
<1>6. PICK g : Eq(g, Cardinality(D))
  BY <1>5
<1>7. \A s \in SUBSET D : Cardinality(s) <= Cardinality(D)
  BY FS_Subset
<1>8. \A s \in SUBSET D : g[s] = SumStep(f, g, s)
  BY <1>6, <1>7
<1>9. g = [s \in SUBSET D |-> SumStep(f, g, s)]
  BY <1>6, <1>8
<1> QED
  BY <1>9

\* SumFunction is the value of that function at the whole domain.
LEMMA SumDef ==
  ASSUME NEW f, IsFiniteSet(DOMAIN f)
  PROVE  \E g : /\ g = [s \in SUBSET DOMAIN f |-> SumStep(f, g, s)]
                /\ SumFunction(f) = g[DOMAIN f]
<1> DEFINE g == CHOOSE g : g = [s \in SUBSET DOMAIN f |-> SumStep(f, g, s)]
<1>1. g = [s \in SUBSET DOMAIN f |-> SumStep(f, g, s)]
  BY SumExists
<1>2. SumFunction(f) = g[DOMAIN f]
  BY DEF SumFunction, SumFunctionOnSet, FoldFunctionOnSet, MapThenFoldSet, SumStep, First
<1> HIDE DEF g
<1> QED
  BY <1>1, <1>2

\* A sum of natural numbers is one; a sum of zeros is zero.
LEMMA SumType ==
  ASSUME NEW D, IsFiniteSet(D), NEW f \in [D -> Nat]
  PROVE  /\ SumFunction(f) \in Nat
         /\ (\A x \in D : f[x] = 0) => SumFunction(f) = 0
<1>0. DOMAIN f = D
  OBVIOUS
<1>1. PICK g : g = [s \in SUBSET D |-> SumStep(f, g, s)] /\ SumFunction(f) = g[D]
  BY <1>0, SumDef
<1> DEFINE P == {s \in SUBSET D : g[s] \in Nat /\ ((\A x \in D : f[x] = 0) => g[s] = 0)}
<1>2. \A s \in SUBSET D : g[s] = SumStep(f, g, s)
  BY <1>1
<1>3. {} \in P
  <2>1. {} \in SUBSET D /\ g[{}] = 0
    BY <1>2 DEF SumStep
  <2> QED
    BY <2>1
<1>4. ASSUME NEW s \in SUBSET D, s # {}, s \ {First(s)} \in P PROVE s \in P
  <2>1. First(s) \in s
    BY <1>4 DEF First
  <2>2. g[s] = f[First(s)] + g[s \ {First(s)}]
    BY <1>2, <1>4 DEF SumStep
  <2>3. First(s) \in D /\ f[First(s)] \in Nat
    BY <2>1
  <2> QED
    BY <1>4, <2>2, <2>3
<1>5. P \subseteq SUBSET D
  OBVIOUS
<1> HIDE DEF P
<1>6. P = SUBSET D
  BY <1>3, <1>4, <1>5, SubsetInduction
<1>7. D \in P
  BY <1>6
<1> QED
  BY <1>1, <1>7 DEF P

\* A sum changes by as much as the one term that changes.
LEMMA SumChange ==
  ASSUME NEW D, IsFiniteSet(D), NEW f \in [D -> Nat], NEW h \in [D -> Nat], NEW x \in D,
         \A y \in D : y # x => h[y] = f[y]
  PROVE  SumFunction(h) = SumFunction(f) + h[x] - f[x]
<1>0. DOMAIN f = D /\ DOMAIN h = D
  OBVIOUS
<1>1. PICK g : g = [s \in SUBSET D |-> SumStep(f, g, s)] /\ SumFunction(f) = g[D]
  BY <1>0, SumDef
<1>2. PICK k : k = [s \in SUBSET D |-> SumStep(h, k, s)] /\ SumFunction(h) = k[D]
  BY <1>0, SumDef
<1> DEFINE P == {s \in SUBSET D : /\ g[s] \in Int
                                  /\ k[s] = IF x \in s THEN g[s] + h[x] - f[x] ELSE g[s]}
<1>3. \A s \in SUBSET D : g[s] = SumStep(f, g, s) /\ k[s] = SumStep(h, k, s)
  BY <1>1, <1>2
<1>4. {} \in P
  <2>1. {} \in SUBSET D /\ g[{}] = 0 /\ k[{}] = 0
    BY <1>3 DEF SumStep
  <2> QED
    BY <2>1
<1>5. ASSUME NEW s \in SUBSET D, s # {}, s \ {First(s)} \in P PROVE s \in P
  <2> DEFINE z == First(s)
             r == s \ {z}
  <2>1. z \in s
    BY <1>5 DEF First
  <2>2. g[s] = f[z] + g[r] /\ k[s] = h[z] + k[r]
    BY <1>3, <1>5 DEF SumStep
  <2>3. z \in D /\ f[z] \in Nat /\ h[z] \in Nat /\ f[x] \in Nat /\ h[x] \in Nat
    BY <2>1
  <2>4. g[r] \in Int /\ k[r] = IF x \in r THEN g[r] + h[x] - f[x] ELSE g[r]
    BY <1>5
  <2> HIDE DEF z
  <2>5. CASE z = x
    <3>1. x \in s /\ x \notin r
      BY <2>1, <2>5
    <3> QED
      BY <2>2, <2>3, <2>4, <2>5, <3>1
  <2>6. CASE z # x
    <3>1. x \in s <=> x \in r
      BY <2>6
    <3>2. h[z] = f[z]
      BY <2>3, <2>6
    <3> QED
      BY <2>2, <2>3, <2>4, <3>1, <3>2
  <2> QED
    BY <2>5, <2>6
<1>6. P \subseteq SUBSET D
  OBVIOUS
<1> HIDE DEF P
<1>7. P = SUBSET D
  BY <1>4, <1>5, <1>6, SubsetInduction
<1>8. D \in P
  BY <1>7
<1> QED
  BY <1>1, <1>2, <1>8 DEF P

\* Sums of no term and of one term.
LEMMA SumSmall ==
  ASSUME NEW f
  PROVE  /\ DOMAIN f = {} => SumFunction(f) = 0
         /\ \A x : DOMAIN f = {x} /\ f[x] \in Nat => SumFunction(f) = f[x]
<1>1. ASSUME DOMAIN f = {} PROVE SumFunction(f) = 0
  <2>1. PICK g : g = [s \in SUBSET {} |-> SumStep(f, g, s)] /\ SumFunction(f) = g[{}]
    BY <1>1, SumDef, FS_EmptySet
  <2>2. g[{}] = SumStep(f, g, {})
    BY <2>1
  <2> QED
    BY <2>1, <2>2 DEF SumStep
<1>2. ASSUME NEW x, DOMAIN f = {x}, f[x] \in Nat PROVE SumFunction(f) = f[x]
  <2>1. PICK g : g = [s \in SUBSET {x} |-> SumStep(f, g, s)] /\ SumFunction(f) = g[{x}]
    <3>1. IsFiniteSet(DOMAIN f)
      BY <1>2, FS_Singleton
    <3>2. PICK g : g = [s \in SUBSET DOMAIN f |-> SumStep(f, g, s)] /\ SumFunction(f) = g[DOMAIN f]
      BY <3>1, SumDef
    <3> QED
      BY <1>2, <3>2
  <2>2. g[{}] = SumStep(f, g, {}) /\ g[{x}] = SumStep(f, g, {x})
    BY <2>1
  <2>3. First({x}) = x
    BY DEF First
  <2>4. {x} \ {x} = {} /\ {x} # {}
    OBVIOUS
  <2>5. g[{}] = 0 /\ g[{x}] = f[x] + g[{}]
    BY <2>2, <2>3, <2>4 DEF SumStep
  <2> QED
    BY <1>2, <2>1, <2>5
<1> QED
  BY <1>1, <1>2

-----------------------------------------------------------------------------
(* Mailboxes *)

\* What is left when the first message is taken.
LEMMA TailLemma ==
  ASSUME NEW T, NEW s \in Seq(T), s # <<>>
  PROVE  /\ Tail(s) \in Seq(T) /\ Head(s) \in T /\ Range(s) = {Head(s)} \cup Range(Tail(s))
         /\ \A M : AtMostOne(s, M) =>
              AtMostOne(Tail(s), M) /\ (Head(s) \in M => Range(Tail(s)) \cap M = {})
         /\ \A M : Ordered(s, M) =>
              /\ Ordered(Tail(s), M)
              /\ Head(s) \in M => \A m \in Range(Tail(s)) \cap M : Head(s).op < m.op
<1> DEFINE t == Tail(s)
<1>1. /\ t \in Seq(T) /\ Len(t) = Len(s) - 1 /\ DOMAIN t = 1..(Len(s) - 1)
      /\ DOMAIN s = 1..Len(s) /\ Len(s) \in Nat \ {0}
      /\ Head(s) = s[1] /\ Head(s) \in T /\ \A i \in 1..(Len(s) - 1) : t[i] = s[i + 1]
  OBVIOUS
<1> HIDE DEF t
<1>2. /\ \A i \in DOMAIN t : i \in Nat /\ i >= 1 /\ i + 1 \in DOMAIN s /\ t[i] = s[i + 1]
      /\ 1 \in DOMAIN s
      /\ \A i \in DOMAIN s : i = 1 \/ (i - 1 \in DOMAIN t /\ t[i - 1] = s[i])
  BY <1>1
<1>3. Range(s) = {Head(s)} \cup Range(t)
  BY <1>1, <1>2 DEF Range
<1>4. ASSUME NEW M, AtMostOne(s, M) PROVE AtMostOne(t, M)
  <2> SUFFICES ASSUME NEW i \in DOMAIN t, NEW j \in DOMAIN t, t[i] \in M, t[j] \in M
               PROVE  i = j
    BY DEF AtMostOne
  <2>1. i + 1 = j + 1
    BY <1>2, <1>4 DEF AtMostOne
  <2> QED
    BY <1>2, <2>1
<1>5. ASSUME NEW M, AtMostOne(s, M), Head(s) \in M, NEW i \in DOMAIN t, t[i] \in M PROVE FALSE
  <2>1. i + 1 = 1
    BY <1>1, <1>2, <1>5 DEF AtMostOne
  <2> QED
    BY <1>2, <2>1
<1>6. ASSUME NEW M, Ordered(s, M) PROVE Ordered(t, M)
  <2> SUFFICES ASSUME NEW i \in DOMAIN t, NEW j \in DOMAIN t, i < j, t[i] \in M, t[j] \in M
               PROVE  t[i].op < t[j].op
    BY DEF Ordered
  <2>1. i + 1 < j + 1
    BY <1>2
  <2> QED
    BY <1>2, <1>6, <2>1 DEF Ordered
<1>7. ASSUME NEW M, Ordered(s, M), Head(s) \in M, NEW i \in DOMAIN t, t[i] \in M
      PROVE  Head(s).op < t[i].op
  <2>1. 1 < i + 1
    BY <1>2
  <2> QED
    BY <1>1, <1>2, <1>7, <2>1 DEF Ordered
<1> QED
  BY <1>1, <1>3, <1>4, <1>5, <1>6, <1>7 DEF t, Range

\* What is in a mailbox to which messages are added.
LEMMA ConcatLemma ==
  ASSUME NEW T, NEW s \in Seq(T), NEW t \in Seq(T)
  PROVE  /\ s \o t \in Seq(T) /\ Range(s \o t) = Range(s) \cup Range(t)
         /\ \A M : /\ AtMostOne(s, M) /\ AtMostOne(t, M)
                   /\ Range(s) \cap M = {} \/ Range(t) \cap M = {}
                   => AtMostOne(s \o t, M)
         /\ \A M : /\ Ordered(s, M) /\ Ordered(t, M)
                   /\ \A m \in Range(s) \cap M, n \in Range(t) \cap M : m.op < n.op
                   => Ordered(s \o t, M)
<1> DEFINE u == s \o t
<1>1. /\ u \in Seq(T) /\ DOMAIN u = 1..(Len(s) + Len(t))
      /\ \A i \in 1..(Len(s) + Len(t)) : u[i] = IF i <= Len(s) THEN s[i] ELSE t[i - Len(s)]
      /\ DOMAIN s = 1..Len(s) /\ DOMAIN t = 1..Len(t) /\ Len(s) \in Nat /\ Len(t) \in Nat
  OBVIOUS
<1> HIDE DEF u
<1>2. /\ \A i \in DOMAIN s : i \in DOMAIN u /\ u[i] = s[i] /\ i \in Nat /\ i <= Len(s)
      /\ \A i \in DOMAIN t : i + Len(s) \in DOMAIN u /\ u[i + Len(s)] = t[i] /\ i \in Nat
      /\ \A i \in DOMAIN u : /\ i \in Nat
                             /\ \/ i \in DOMAIN s /\ u[i] = s[i] /\ i <= Len(s)
                                \/ i - Len(s) \in DOMAIN t /\ u[i] = t[i - Len(s)] /\ i > Len(s)
  BY <1>1
<1>3. Range(u) = Range(s) \cup Range(t)
  <2>1. Range(u) \subseteq Range(s) \cup Range(t)
    BY <1>2 DEF Range
  <2>2. Range(s) \subseteq Range(u)
    BY <1>2 DEF Range
  <2>3. ASSUME NEW i \in DOMAIN t PROVE t[i] \in Range(u)
    BY <1>2 DEF Range
  <2> QED
    BY <2>1, <2>2, <2>3 DEF Range
<1>4. ASSUME NEW M, AtMostOne(s, M), AtMostOne(t, M),
             Range(s) \cap M = {} \/ Range(t) \cap M = {}
      PROVE  AtMostOne(u, M)
  <2> SUFFICES ASSUME NEW i \in DOMAIN u, NEW j \in DOMAIN u, u[i] \in M, u[j] \in M
               PROVE  i = j
    BY DEF AtMostOne
  <2>1. CASE i <= Len(s) /\ j <= Len(s)
    BY <1>1, <1>2, <1>4, <2>1 DEF AtMostOne
  <2>2. CASE i > Len(s) /\ j > Len(s)
    <3>1. /\ i - Len(s) \in DOMAIN t /\ u[i] = t[i - Len(s)]
          /\ j - Len(s) \in DOMAIN t /\ u[j] = t[j - Len(s)]
      BY <1>1, <1>2, <2>2
    <3>2. i - Len(s) = j - Len(s)
      BY <1>4, <3>1 DEF AtMostOne
    <3> QED
      BY <1>1, <1>2, <3>2
  <2>3. CASE (i <= Len(s)) # (j <= Len(s))
    <3>1. (u[i] \in Range(s) /\ u[j] \in Range(t)) \/ (u[j] \in Range(s) /\ u[i] \in Range(t))
      BY <1>1, <1>2, <2>3 DEF Range
    <3> QED
      BY <1>4, <3>1
  <2> QED
    BY <1>1, <1>2, <2>1, <2>2, <2>3
<1>5. ASSUME NEW M, Ordered(s, M), Ordered(t, M),
             \A m \in Range(s) \cap M, n \in Range(t) \cap M : m.op < n.op
      PROVE  Ordered(u, M)
  <2> SUFFICES ASSUME NEW i \in DOMAIN u, NEW j \in DOMAIN u, i < j, u[i] \in M, u[j] \in M
               PROVE  u[i].op < u[j].op
    BY DEF Ordered
  <2>1. CASE j <= Len(s)
    <3>1. i \in DOMAIN s /\ j \in DOMAIN s /\ u[i] = s[i] /\ u[j] = s[j]
      BY <1>1, <1>2, <2>1
    <3> QED
      BY <1>5, <3>1 DEF Ordered
  <2>2. CASE i > Len(s)
    <3>1. /\ i - Len(s) \in DOMAIN t /\ u[i] = t[i - Len(s)]
          /\ j - Len(s) \in DOMAIN t /\ u[j] = t[j - Len(s)] /\ i - Len(s) < j - Len(s)
      BY <1>1, <1>2, <2>2
    <3> QED
      BY <1>5, <3>1 DEF Ordered
  <2>3. CASE i <= Len(s) /\ j > Len(s)
    <3>1. u[i] \in Range(s) /\ u[j] \in Range(t)
      BY <1>1, <1>2, <2>3 DEF Range
    <3> QED
      BY <1>5, <3>1
  <2> QED
    BY <1>1, <1>2, <2>1, <2>2, <2>3
<1> QED
  BY <1>1, <1>3, <1>4, <1>5 DEF u

\* Elements, length and head of a sequence.
LEMMA SeqLemma ==
  ASSUME NEW T, NEW s \in Seq(T)
  PROVE  /\ Len(s) \in Nat /\ DOMAIN s = 1..Len(s) /\ \A i \in 1..Len(s) : s[i] \in T
         /\ s = <<>> <=> Len(s) = 0
         /\ s # <<>> => Head(s) = s[1] /\ 1 \in 1..Len(s) /\ Head(s) \in T /\ Head(s) \in Range(s)
         /\ \A e \in Range(s) : e \in T /\ \E i \in 1..Len(s) : s[i] = e
<1>1. /\ Len(s) \in Nat /\ DOMAIN s = 1..Len(s) /\ \A i \in 1..Len(s) : s[i] \in T
      /\ s = <<>> <=> Len(s) = 0
      /\ s # <<>> => Head(s) = s[1] /\ 1 \in 1..Len(s) /\ Head(s) \in T
  OBVIOUS
<1> QED
  BY <1>1 DEF Range

\* A sequence with one more element.
LEMMA AppendLemma ==
  ASSUME NEW T, NEW s \in Seq(T), NEW e \in T
  PROVE  /\ Append(s, e) \in Seq(T) /\ Len(s) \in Nat /\ Len(Append(s, e)) = Len(s) + 1
         /\ Append(s, e)[Len(s) + 1] = e
         /\ \A i \in 1..Len(s) : Append(s, e)[i] = s[i]
         /\ Range(Append(s, e)) = Range(s) \cup {e}
<1> DEFINE t == Append(s, e)
<1>1. /\ t \in Seq(T) /\ Len(t) = Len(s) + 1 /\ DOMAIN t = 1..(Len(s) + 1)
      /\ DOMAIN s = 1..Len(s) /\ Len(s) \in Nat
      /\ t[Len(s) + 1] = e /\ \A i \in 1..Len(s) : t[i] = s[i]
  OBVIOUS
<1> HIDE DEF t
<1>2. \A i \in DOMAIN t : i \in DOMAIN s \/ i = Len(s) + 1
  BY <1>1
<1>3. DOMAIN s \subseteq DOMAIN t /\ Len(s) + 1 \in DOMAIN t
  BY <1>1
<1>4. Range(t) = Range(s) \cup {e}
  BY <1>1, <1>2, <1>3 DEF Range
<1> QED
  BY <1>1, <1>4 DEF t

\* No message and one message.
LEMMA FewLemma ==
  /\ Range(<<>>) = {}
  /\ \A M : AtMostOne(<<>>, M) /\ Ordered(<<>>, M)
  /\ \A m : Range(<<m>>) = {m}
  /\ \A m, M : AtMostOne(<<m>>, M) /\ Ordered(<<m>>, M)
<1>1. DOMAIN <<>> = {}
  OBVIOUS
<1>2. \A m : DOMAIN <<m>> = {1} /\ <<m>>[1] = m
  OBVIOUS
<1>3. Range(<<>>) = {} /\ \A M : AtMostOne(<<>>, M) /\ Ordered(<<>>, M)
  BY <1>1 DEF Range, AtMostOne, Ordered
<1>4. ASSUME NEW m PROVE Range(<<m>>) = {m}
  BY <1>2 DEF Range
<1>5. ASSUME NEW m, NEW M PROVE AtMostOne(<<m>>, M)
  BY <1>2 DEF AtMostOne
<1>6. ASSUME NEW m, NEW M PROVE Ordered(<<m>>, M)
  BY <1>2 DEF Ordered
<1> QED
  BY <1>3, <1>4, <1>5, <1>6

\* The messages of actor y, and the ones that new has for it.
Letter(y) == IF y = Router THEN RouterMsg ELSE IF y \in Accounts THEN AccountMsg ELSE CardMsg
Added(new, y) == IF y \in DOMAIN new THEN new[y] ELSE <<>>

\* The router, the accounts and the cards are different actors.
LEMMA ActorsApart ==
  /\ Router \in Actors /\ Router \notin Accounts /\ Router \notin Cards
  /\ \A a \in Accounts : a \in Actors /\ a # Router /\ a \notin Cards /\ Letter(a) = AccountMsg
  /\ \A c \in Cards : /\ c \in Actors /\ c # Router /\ c \notin Accounts /\ Letter(c) = CardMsg
                      /\ Owner[c] \in Accounts
  /\ Letter(Router) = RouterMsg
  /\ \A y \in Actors : y = Router \/ y \in Accounts \/ y \in Cards
BY ActorsAssumption, OwnerAssumption DEF Actors, Letter

\* Types of the mailboxes.
LEMMA MailboxType ==
  ASSUME TypeOK
  PROVE  DOMAIN mailbox = Actors /\ \A y \in Actors : mailbox[y] \in Seq(Letter(y))
BY ActorsApart DEF TypeOK

\* x handles its first message and sends the messages new.
Sends(x, new) == /\ x \in Actors /\ mailbox[x] # <<>> /\ Deliver(x, new)
                 /\ \A y \in DOMAIN new : new[y] \in Seq(Range(new[y]))

\* The mailboxes after a step of x that sends the messages new.
LEMMA DeliverLemma ==
  ASSUME TypeOK, NEW x, NEW new, Sends(x, new)
  PROVE  /\ DOMAIN mailbox' = Actors
         /\ \A y \in Actors : Added(new, y) \in Seq(Letter(y)) => mailbox'[y] \in Seq(Letter(y))
         /\ Head(mailbox[x]) \in InMail(x) /\ Head(mailbox[x]) \in Letter(x)
         /\ \A y \in Actors : InMail(y)' \subseteq InMail(y) \cup Range(Added(new, y))
         /\ \A y \in Actors : Range(Added(new, y)) \subseteq InMail(y)'
         /\ \A y \in Actors : InMail(y) \subseteq InMail(y)' \cup (IF y = x THEN {Head(mailbox[x])} ELSE {})
         /\ \A y \in Actors : \A M :
              /\ AtMostOne(mailbox[y], M) /\ AtMostOne(Added(new, y), M)
              /\ \/ InMail(y) \cap M = {} \/ Range(Added(new, y)) \cap M = {}
              => AtMostOne(mailbox'[y], M)
         /\ \A y \in Actors : \A M :
              /\ Ordered(mailbox[y], M) /\ Ordered(Added(new, y), M)
              /\ \A m \in InMail(y) \cap M, n \in Range(Added(new, y)) \cap M : m.op < n.op
              => Ordered(mailbox'[y], M)
         /\ \A M : Head(mailbox[x]) \in M /\ Range(Added(new, x)) \cap M = {} =>
              /\ AtMostOne(mailbox[x], M) => InMail(x)' \cap M = {}
              /\ Ordered(mailbox[x], M) =>
                   \A m \in InMail(x)' \cap M : Head(mailbox[x]).op < m.op
<1> DEFINE kept(y) == IF y = x THEN Tail(mailbox[y]) ELSE mailbox[y]
           add(y)  == Added(new, y)
           T(y)    == Letter(y) \cup Range(add(y))
<1>0. x \in Actors /\ mailbox[x] # <<>> /\ Deliver(x, new)
  BY DEF Sends
<1>1. DOMAIN mailbox = Actors /\ \A y \in Actors : mailbox[y] \in Seq(Letter(y))
  BY MailboxType
<1>2. ASSUME NEW y \in Actors PROVE add(y) \in Seq(T(y))
  <2>1. CASE y \in DOMAIN new
    <3>1. add(y) = new[y] /\ new[y] \in Seq(Range(new[y]))
      BY <2>1 DEF Added, Sends
    <3>2. add(y) \in Seq(Range(add(y))) /\ Range(add(y)) \subseteq T(y)
      BY <3>1
    <3> HIDE DEF add, T
    <3> QED
      BY <3>2, SeqMonotonic
  <2>2. CASE y \notin DOMAIN new
    BY <2>2 DEF Added
  <2> QED
    BY <2>1, <2>2
<1>3. ASSUME NEW y \in Actors
      PROVE  /\ kept(y) \in Seq(Letter(y))
             /\ Range(kept(y)) \subseteq InMail(y)
             /\ InMail(y) \subseteq Range(kept(y)) \cup (IF y = x THEN {Head(mailbox[x])} ELSE {})
             /\ \A M : AtMostOne(mailbox[y], M) => AtMostOne(kept(y), M)
             /\ \A M : Ordered(mailbox[y], M) => Ordered(kept(y), M)
  <2>1. CASE y = x
    BY <1>0, <1>1, <2>1, TailLemma DEF InMail
  <2>2. CASE y # x
    BY <1>1, <2>2 DEF InMail
  <2> QED
    BY <2>1, <2>2
<1>4. /\ Head(mailbox[x]) \in InMail(x) /\ Head(mailbox[x]) \in Letter(x)
      /\ \A M : AtMostOne(mailbox[x], M) => (Head(mailbox[x]) \in M => Range(kept(x)) \cap M = {})
      /\ \A M : Ordered(mailbox[x], M) =>
           (Head(mailbox[x]) \in M => \A m \in Range(kept(x)) \cap M : Head(mailbox[x]).op < m.op)
  BY <1>0, <1>1, TailLemma DEF InMail
<1>5. mailbox' = [y \in Actors |-> kept(y) \o add(y)]
  <2>1. ASSUME NEW y \in Actors
        PROVE  kept(y) \o add(y) = IF y \in DOMAIN new THEN kept(y) \o new[y] ELSE kept(y)
    <3>1. kept(y) \o <<>> = kept(y)
      BY <1>3, ConcatEmptySeq
    <3> QED
      BY <3>1 DEF Added
  <2> QED
    BY <1>0, <2>1 DEF Deliver
<1> HIDE DEF kept, add, T
<1>6. ASSUME NEW y \in Actors
      PROVE  /\ mailbox'[y] = kept(y) \o add(y)
             /\ add(y) \in Seq(Letter(y)) => mailbox'[y] \in Seq(Letter(y))
             /\ InMail(y)' = Range(kept(y)) \cup Range(add(y))
             /\ \A M : /\ AtMostOne(kept(y), M) /\ AtMostOne(add(y), M)
                       /\ Range(kept(y)) \cap M = {} \/ Range(add(y)) \cap M = {}
                       => AtMostOne(mailbox'[y], M)
             /\ \A M : /\ Ordered(kept(y), M) /\ Ordered(add(y), M)
                       /\ \A m \in Range(kept(y)) \cap M, n \in Range(add(y)) \cap M : m.op < n.op
                       => Ordered(mailbox'[y], M)
  <2>1. mailbox'[y] = kept(y) \o add(y)
    BY <1>5
  <2>4. Letter(y) \subseteq T(y)
    BY DEF T
  <2>2. kept(y) \in Seq(T(y)) /\ add(y) \in Seq(T(y))
    BY <1>2, <1>3, <2>4, SeqMonotonic
  <2>3. add(y) \in Seq(Letter(y)) => kept(y) \o add(y) \in Seq(Letter(y))
    BY <1>3, ConcatLemma
  <2> QED
    BY <2>1, <2>2, <2>3, ConcatLemma DEF InMail
<1>7. DOMAIN mailbox' = Actors
  BY <1>5
<1>8. ASSUME NEW y \in Actors, NEW M, AtMostOne(mailbox[y], M), AtMostOne(add(y), M),
             InMail(y) \cap M = {} \/ Range(add(y)) \cap M = {}
      PROVE  AtMostOne(mailbox'[y], M)
  BY <1>3, <1>6, <1>8
<1>9. ASSUME NEW y \in Actors, NEW M, Ordered(mailbox[y], M), Ordered(add(y), M),
             \A m \in InMail(y) \cap M, n \in Range(add(y)) \cap M : m.op < n.op
      PROVE  Ordered(mailbox'[y], M)
  BY <1>3, <1>6, <1>9
<1>10. ASSUME NEW M, Head(mailbox[x]) \in M, Range(add(x)) \cap M = {}
       PROVE  /\ AtMostOne(mailbox[x], M) => InMail(x)' \cap M = {}
              /\ Ordered(mailbox[x], M) =>
                   \A m \in InMail(x)' \cap M : Head(mailbox[x]).op < m.op
  BY <1>0, <1>4, <1>6, <1>10
<1>11. \A y \in Actors : /\ InMail(y)' \subseteq InMail(y) \cup Range(add(y))
                         /\ Range(add(y)) \subseteq InMail(y)'
                         /\ InMail(y) \subseteq InMail(y)' \cup (IF y = x THEN {Head(mailbox[x])} ELSE {})
  BY <1>3, <1>6
<1> QED
  BY <1>4, <1>6, <1>7, <1>8, <1>9, <1>10, <1>11 DEF add

-----------------------------------------------------------------------------
(* The queue of a card *)

\* What an operation of each kind has.
LEMMA OperationType ==
  ASSUME sent \in Seq(Operation), NEW o \in Ops
  PROVE  /\ o \in Nat /\ o # 0 /\ Op[o] \in Operation
         /\ Op[o].kind = "Charge" =>
              Op[o].card \in Cards /\ Op[o].amount \in Nat /\ Op[o].offline \in BOOLEAN
         /\ Op[o].kind = "LimitCard" => Op[o].card \in Cards /\ Op[o].limit \in Limits
         /\ Op[o].kind = "LimitAccount" => Op[o].account \in Accounts /\ Op[o].limit \in Limits
         /\ Op[o].kind \in {"AccountQuery", "Bill"} => Op[o].account \in Accounts
         /\ Op[o].kind = "ReplaceDatabase" =>
              Op[o].accounts \subseteq AccountSnapshots /\ Op[o].cards \subseteq CardSnapshots
         /\ Op[o].kind \in {"Charge", "LimitCard", "LimitAccount", "AccountQuery", "Bill",
                            "GetDatabase", "ReplaceDatabase"}
<1>1. o \in Nat /\ o # 0 /\ Op[o] \in Operation
  BY DEF Ops, Op
<1> DEFINE p == Op[o]
<1>2. p \in Operation
  BY <1>1
<1> HIDE DEF p
<1>3. /\ p.kind = "Charge" => p.card \in Cards /\ p.amount \in Nat /\ p.offline \in BOOLEAN
      /\ p.kind = "LimitCard" => p.card \in Cards /\ p.limit \in Limits
      /\ p.kind = "LimitAccount" => p.account \in Accounts /\ p.limit \in Limits
      /\ p.kind \in {"AccountQuery", "Bill"} => p.account \in Accounts
      /\ p.kind = "ReplaceDatabase" =>
           p.accounts \subseteq AccountSnapshots /\ p.cards \subseteq CardSnapshots
      /\ p.kind \in {"Charge", "LimitCard", "LimitAccount", "AccountQuery", "Bill",
                     "GetDatabase", "ReplaceDatabase"}
  BY <1>2 DEF Operation
<1> QED
  BY <1>1, <1>3 DEF p

\* A card while it runs tasks.
CardRun == [limit : Limits, consumed : Nat, tasks : Seq(Nat), asks : Seq(Nat),
            done : Seq([op : Nat, ok : BOOLEAN])]

\* r is what becomes of the idle card s when it has run the first i tasks of w: the
\* first k of them are done, the next one waits for the account and the others for it.
RanDone(s, w, k, r) ==
  /\ Len(r.done) = Len(s.done) + k
  /\ \A j \in 1..Len(s.done) : r.done[j] = s.done[j]
  /\ \A j \in 1..k : r.done[Len(s.done) + j].op = w[j]
RanTasks(w, i, k, r) ==
  Len(r.tasks) = i - k /\ \A j \in 1..(i - k) : r.tasks[j] = w[k + j]
Ran(s, w, i, k, r) ==
  /\ RanDone(s, w, k, r) /\ RanTasks(w, i, k, r)
  /\ k = i => r.asks = <<>>
  /\ k < i => r.asks = <<w[k + 1]>> /\ Admitted(r, w[k + 1])
Runs(s, w, i, r) ==
  /\ r \in CardRun /\ r.consumed = s.consumed
  /\ Within(s.consumed, s.limit) => Within(r.consumed, r.limit)
  /\ \E k \in 0..i : Ran(s, w, i, k, r)

\* Positions in a concatenation.
LEMMA SumOfNaturals ==
  \A n, i \in Nat : /\ \A j \in 1..n : j \in 1..(n + i)
                    /\ \A j \in 1..i : n + j \in 1..(n + i)
OBVIOUS

\* One task offered to a card: what is queued, asked and done (start_current_task).
LEMMA OfferLemma ==
  ASSUME sent \in Seq(Operation), NEW s \in CardRun, NEW w \in Seq(Nat), NEW i \in Nat,
         i < Len(w), NEW r, Runs(s, w, i, r),
         w[i + 1] \in Ops, Op[w[i + 1]].kind \in {"Charge", "LimitCard"}
  PROVE  Runs(s, w, i + 1, Offer(r, w[i + 1]))
<1> DEFINE o == w[i + 1]
           q == Offer(r, o)
<1>1. PICK k \in 0..i : Ran(s, w, i, k, r)
  BY DEF Runs
<1>2. /\ o \in Nat /\ (Op[o].kind = "LimitCard" => Op[o].limit \in Limits)
      /\ Op[o].kind \in {"Charge", "LimitCard"}
      /\ Op[o].kind = "Charge" => Op[o].amount \in Nat /\ Op[o].offline \in BOOLEAN
  BY OperationType
<1>3. /\ r \in CardRun /\ r.consumed = s.consumed /\ r.limit \in Limits /\ r.consumed \in Nat
      /\ r.tasks \in Seq(Nat) /\ r.asks \in Seq(Nat) /\ r.done \in Seq([op : Nat, ok : BOOLEAN])
      /\ r = [limit |-> r.limit, consumed |-> r.consumed, tasks |-> r.tasks,
               asks |-> r.asks, done |-> r.done]
      /\ s.done \in Seq([op : Nat, ok : BOOLEAN])
  BY DEF Runs, CardRun
<1>n. PICK n \in Nat : n = Len(s.done)
  <2>1. Len(s.done) \in Nat
    BY <1>3, SeqLemma
  <2> QED
    BY <2>1
<1>k. k \in Nat /\ k <= i
  OBVIOUS
<1> HIDE DEF o
<1>4. CASE r.tasks # <<>>
  <2>1. q = [limit |-> r.limit, consumed |-> r.consumed, tasks |-> Append(r.tasks, o),
             asks |-> r.asks, done |-> r.done]
    BY <1>3, <1>4 DEF Offer
  <2>2. k < i /\ k \in Nat
    <3>1. Len(r.tasks) # 0
      BY <1>3, <1>4
    <3> QED
      BY <1>1, <3>1 DEF Ran, RanDone, RanTasks
  <2>3. \A j \in 1..(i + 1 - k) : Append(r.tasks, o)[j] = w[k + j]
    <3>1. Len(r.tasks) = i - k /\ \A j \in 1..(i - k) : r.tasks[j] = w[k + j]
      BY <1>1 DEF Ran, RanDone, RanTasks
    <3> SUFFICES ASSUME NEW j \in 1..(i + 1 - k) PROVE Append(r.tasks, o)[j] = w[k + j]
      OBVIOUS
    <3>2. CASE j \in 1..(i - k)
      <4>1. Append(r.tasks, o)[j] = r.tasks[j]
        BY <1>2, <1>3, <3>1, <3>2, AppendLemma
      <4> QED
        BY <3>1, <3>2, <4>1
    <3>3. CASE j = i + 1 - k
      <4>1. j = Len(r.tasks) + 1 /\ k + j = i + 1
        BY <1>k, <3>1, <3>3
      <4>2. Append(r.tasks, o)[j] = o
        BY <1>2, <1>3, <4>1, AppendLemma
      <4> QED
        BY <4>1, <4>2 DEF o
    <3>4. j \in 1..(i - k) \/ j = i + 1 - k
      BY <1>k
    <3> QED
      BY <3>2, <3>3, <3>4
  <2>4. Admitted(q, w[k + 1])
    BY <1>1, <2>1, <2>2 DEF Ran, RanDone, RanTasks, Admitted
  <2>5. Len(q.tasks) = i + 1 - k /\ q.tasks = Append(r.tasks, o) /\ q.done = r.done
        /\ q.asks = r.asks
    <3>1. Len(Append(r.tasks, o)) = Len(r.tasks) + 1
      BY <1>2, <1>3, AppendLemma
    <3>2. Len(r.tasks) = i - k
      BY <1>1 DEF Ran, RanDone, RanTasks
    <3>3. Len(Append(r.tasks, o)) = i + 1 - k
      BY <1>k, <3>1, <3>2
    <3> QED
      BY <2>1, <3>3
  <2>6. q \in CardRun /\ q.consumed = s.consumed /\ q.limit = r.limit
    BY <1>2, <1>3, <2>1 DEF CardRun
  <2> HIDE DEF q
  <2>7. Ran(s, w, i + 1, k, q)
    <3>1. k # i + 1
      BY <2>2
    <3>2. q.asks = <<w[k + 1]>>
      BY <1>1, <2>2, <2>5 DEF Ran, RanDone, RanTasks
    <3>3. RanDone(s, w, k, q)
      <4>1. RanDone(s, w, k, r) /\ q.done = r.done
        BY <1>1, <2>5 DEF Ran
      <4>2. Len(q.done) = Len(s.done) + k
        BY <4>1 DEF RanDone
      <4>3. \A j \in 1..Len(s.done) : q.done[j] = s.done[j]
        BY <4>1 DEF RanDone
      <4>4. \A j \in 1..k : q.done[Len(s.done) + j].op = w[j]
        BY <4>1 DEF RanDone
      <4> QED
        BY <4>2, <4>3, <4>4 DEF RanDone
    <3>4. RanTasks(w, i + 1, k, q)
      <4>1. Len(q.tasks) = i + 1 - k
        BY <2>5
      <4>2. \A j \in 1..(i + 1 - k) : q.tasks[j] = w[k + j]
        BY <2>3, <2>5
      <4> QED
        BY <4>1, <4>2 DEF RanTasks
    <3>5. /\ k = i + 1 => q.asks = <<>>
          /\ k < i + 1 => q.asks = <<w[k + 1]>> /\ Admitted(q, w[k + 1])
      BY <2>4, <3>1, <3>2
    <3> QED
      BY <3>3, <3>4, <3>5 DEF Ran
  <2>8. Runs(s, w, i + 1, q)
    BY <1>3, <2>2, <2>6, <2>7 DEF Runs
  <2> QED
    BY <2>8 DEF q, o
<1>5. ASSUME r.tasks = <<>> PROVE k = i /\ r.asks = <<>>
  BY <1>1, <1>5 DEF Ran, RanDone, RanTasks
<1>6. CASE r.tasks = <<>> /\ Admitted(r, o)
  <2>1. q = [limit |-> r.limit, consumed |-> r.consumed, tasks |-> <<o>>,
             asks |-> Append(r.asks, o), done |-> r.done]
    BY <1>3, <1>6 DEF Offer, Admitted
  <2>2. q.asks = <<o>> /\ q.tasks = <<o>> /\ q.done = r.done /\ q.limit = r.limit
    <3>1. Append(<<>>, o) = <<o>>
      OBVIOUS
    <3>2. r.asks = <<>>
      BY <1>5, <1>6
    <3> QED
      BY <2>1, <3>1, <3>2
  <2>3. q \in CardRun /\ q.consumed = s.consumed
    BY <1>2, <1>3, <2>1 DEF CardRun
  <2>4. Admitted(q, o)
    BY <1>6, <2>1 DEF Admitted
  <2> HIDE DEF q
  <2>5. Ran(s, w, i + 1, i, q)
    <3>1. k = i
      BY <1>5, <1>6
    <3>2. Len(q.tasks) = i + 1 - i /\ \A j \in 1..(i + 1 - i) : q.tasks[j] = w[i + j]
      BY <2>2 DEF o
    <3>3. q.asks = <<w[i + 1]>> /\ Admitted(q, w[i + 1]) /\ i # i + 1
      BY <2>2, <2>4 DEF o
    <3> QED
      BY <1>1, <2>2, <3>1, <3>2, <3>3 DEF Ran, RanDone, RanTasks
  <2>6. Runs(s, w, i + 1, q)
    BY <1>3, <2>2, <2>3, <2>5 DEF Runs
  <2> QED
    BY <2>6 DEF q, o
<1>7. CASE r.tasks = <<>> /\ ~Admitted(r, o)
  <2> DEFINE newLimit == Op[o].kind # "Charge" /\ Within(r.consumed, Op[o].limit)
             e == [op |-> o, ok |-> newLimit]
  <2>1. q = [limit |-> IF newLimit THEN Op[o].limit ELSE r.limit, consumed |-> r.consumed,
             tasks |-> <<>>, asks |-> r.asks, done |-> Append(r.done, e)]
    BY <1>3, <1>7 DEF Offer, Admitted
  <2>2. e \in [op : Nat, ok : BOOLEAN] /\ e.op = o
    BY <1>2
  <2>3. q.limit \in Limits /\ (Within(s.consumed, s.limit) => Within(q.consumed, q.limit))
    <3>1. CASE newLimit
      BY <1>2, <2>1, <3>1
    <3>2. CASE ~newLimit
      BY <1>3, <2>1, <3>2 DEF Runs
    <3> QED
      BY <3>1, <3>2
  <2> HIDE DEF e, newLimit
  <2>4. /\ q.tasks = <<>> /\ q.asks = <<>> /\ q.done = Append(r.done, e)
        /\ q.consumed = s.consumed /\ q \in CardRun
    <3>1. q \in CardRun
      BY <1>3, <2>1, <2>2, <2>3 DEF CardRun
    <3> QED
      BY <1>3, <1>5, <1>7, <2>1, <3>1
  <2> HIDE DEF q
  <2>5. Ran(s, w, i + 1, i + 1, q)
    <3>1. /\ Len(r.done) = n + i /\ \A j \in 1..n : r.done[j] = s.done[j]
          /\ \A j \in 1..i : r.done[n + j].op = w[j]
      BY <1>1, <1>5, <1>7, <1>n DEF Ran, RanDone, RanTasks
    <3>2. /\ Len(q.done) = n + i + 1 /\ q.done[n + i + 1] = e
          /\ \A j \in 1..(n + i) : q.done[j] = r.done[j]
      <4>1. PICK T, d : T = [op : Nat, ok : BOOLEAN] /\ d = r.done /\ d \in Seq(T) /\ e \in T
        BY <1>3, <2>2
      <4>2. /\ Len(Append(d, e)) = Len(d) + 1 /\ Append(d, e)[Len(d) + 1] = e
            /\ \A j \in 1..Len(d) : Append(d, e)[j] = d[j]
        BY <4>1, AppendLemma
      <4>3. Len(d) = n + i /\ q.done = Append(d, e)
        BY <2>4, <3>1, <4>1
      <4> QED
        BY <4>1, <4>2, <4>3
    <3>3. ASSUME NEW j \in 1..n PROVE q.done[j] = s.done[j]
      <4>1. j \in 1..(n + i)
        BY SumOfNaturals
      <4> QED
        BY <3>1, <3>2, <4>1
    <3>4. ASSUME NEW j \in 1..i PROVE q.done[n + j] = r.done[n + j]
      <4>1. n + j \in 1..(n + i)
        BY SumOfNaturals
      <4> QED
        BY <3>2, <4>1
    <3>5. ASSUME NEW j \in 1..(i + 1) PROVE q.done[n + j].op = w[j]
      <4>1. CASE j \in 1..i
        BY <3>1, <3>4, <4>1
      <4>2. CASE j = i + 1
        <5>1. n + j = n + i + 1
          BY <4>2
        <5> QED
          BY <2>2, <3>2, <4>2, <5>1 DEF o
      <4> QED
        BY <4>1, <4>2
    <3>6. Len(q.tasks) = i + 1 - (i + 1) /\ 1..(i + 1 - (i + 1)) = {} /\ ~(i + 1 < i + 1)
      <4>1. i + 1 - (i + 1) = 0 /\ 1..0 = {} /\ Len(<<>>) = 0
        OBVIOUS
      <4> QED
        BY <2>4, <4>1
    <3>7. Len(q.done) = n + (i + 1)
      BY <3>2
    <3>8. RanDone(s, w, i + 1, q)
      BY <1>n, <3>3, <3>5, <3>7 DEF RanDone
    <3>9. RanTasks(w, i + 1, i + 1, q)
      BY <3>6 DEF RanTasks
    <3>10. /\ i + 1 = i + 1 => q.asks = <<>>
           /\ i + 1 < i + 1 => q.asks = <<w[i + 1 + 1]>> /\ Admitted(q, w[i + 1 + 1])
      BY <2>4, <3>6
    <3> QED
      BY <3>8, <3>9, <3>10 DEF Ran
  <2>6. Runs(s, w, i + 1, q)
    BY <2>3, <2>4, <2>5 DEF Runs
  <2> QED
    BY <2>6 DEF q, o
<1> QED
  BY <1>4, <1>6, <1>7

\* The recursion of OfferAll is well defined.
LEMMA OfferAllDef ==
  ASSUME NEW s, NEW w \in Seq(Nat)
  PROVE  \E run : /\ \A i \in 0..Len(w) : run[i] = IF i = 0 THEN s ELSE Offer(run[i - 1], w[i])
                  /\ OfferAll(s, w) = run[Len(w)]
<1> DEFINE n == Len(w)
           Eq(g, k) == \A i \in 0..k : g[i] = IF i = 0 THEN s ELSE Offer(g[i - 1], w[i])
           A == {k \in Nat : \E g : Eq(g, k)}
<1>1. n \in Nat
  OBVIOUS
<1>2. A = Nat
  <2>1. 0 \in A
    <3>1. Eq([i \in {0} |-> s], 0)
      OBVIOUS
    <3> QED
      BY <3>1
  <2>2. ASSUME NEW k \in A PROVE k + 1 \in A
    <3>1. PICK g : Eq(g, k)
      OBVIOUS
    <3> DEFINE h == [i \in 0..(k + 1) |-> IF i = k + 1 THEN Offer(g[k], w[k + 1]) ELSE g[i]]
    <3>2. Eq(h, k + 1)
      <4> SUFFICES ASSUME NEW i \in 0..(k + 1)
                   PROVE  h[i] = IF i = 0 THEN s ELSE Offer(h[i - 1], w[i])
        OBVIOUS
      <4>1. CASE i = k + 1
        <5>1. h[i] = Offer(g[k], w[k + 1]) /\ h[i - 1] = g[k] /\ i # 0
          BY <4>1
        <5> QED
          BY <4>1, <5>1
      <4>2. CASE i # k + 1
        <5>1. i \in 0..k /\ h[i] = g[i] /\ (i # 0 => h[i - 1] = g[i - 1])
          BY <4>2
        <5> QED
          BY <3>1, <5>1
      <4> QED
        BY <4>1, <4>2
    <3> HIDE DEF h, Eq
    <3>3. \E f : Eq(f, k + 1)
      BY <3>2
    <3> QED
      BY <3>3
  <2> QED
    BY <2>1, <2>2, NatSet
<1>3. PICK g : Eq(g, n)
  BY <1>1, <1>2
<1> DEFINE h == [i \in 0..n |-> g[i]]
<1>4. h = [i \in 0..n |-> IF i = 0 THEN s ELSE Offer(h[i - 1], w[i])]
  <2>1. ASSUME NEW i \in 0..n PROVE g[i] = IF i = 0 THEN s ELSE Offer(h[i - 1], w[i])
    <3>1. g[i] = IF i = 0 THEN s ELSE Offer(g[i - 1], w[i])
      BY <1>3
    <3>2. i # 0 => h[i - 1] = g[i - 1]
      BY <1>1
    <3> QED
      BY <3>1, <3>2
  <2> QED
    BY <2>1
<1> DEFINE run[i \in 0..n] == IF i = 0 THEN s ELSE Offer(run[i - 1], w[i])
<1> HIDE DEF h
<1>5. run = [i \in 0..n |-> IF i = 0 THEN s ELSE Offer(run[i - 1], w[i])]
  BY <1>4 DEF run
<1>6. OfferAll(s, w) = run[n]
  BY DEF OfferAll
<1> HIDE DEF run
<1>7. \A i \in 0..n : run[i] = IF i = 0 THEN s ELSE Offer(run[i - 1], w[i])
  BY <1>5
<1> QED
  BY <1>6, <1>7

\* What becomes of an idle card that runs the tasks of w.
LEMMA OfferAllLemma ==
  ASSUME sent \in Seq(Operation), NEW s \in CardRun, s.tasks = <<>>, s.asks = <<>>,
         NEW w \in Seq(Nat),
         \A i \in 1..Len(w) : w[i] \in Ops /\ Op[w[i]].kind \in {"Charge", "LimitCard"}
  PROVE  Runs(s, w, Len(w), OfferAll(s, w))
<1>1. PICK run : /\ \A i \in 0..Len(w) : run[i] = IF i = 0 THEN s ELSE Offer(run[i - 1], w[i])
                 /\ OfferAll(s, w) = run[Len(w)]
  BY OfferAllDef
<1>2. Len(w) \in Nat
  BY SeqLemma
<1> DEFINE A == {i \in Nat : i <= Len(w) => Runs(s, w, i, run[i])}
<1>3. 0 \in A
  <2>1. run[0] = s
    BY <1>1, <1>2
  <2>2. 0 \in 0..0 /\ 1..0 = {} /\ 0 - 0 = 0 /\ ~(0 < 0) /\ Len(<<>>) = 0
    OBVIOUS
  <2>3. Len(s.done) \in Nat
    BY SeqLemma DEF CardRun
  <2>4. Len(s.done) + 0 = Len(s.done)
    BY <2>3
  <2>5. Ran(s, w, 0, 0, s)
    BY <2>2, <2>4 DEF Ran, RanDone, RanTasks
  <2>6. Runs(s, w, 0, s)
    BY <2>2, <2>5 DEF Runs
  <2> QED
    BY <2>1, <2>6
<1>4. ASSUME NEW i \in A PROVE i + 1 \in A
  <2> SUFFICES ASSUME i + 1 <= Len(w) PROVE Runs(s, w, i + 1, run[i + 1])
    OBVIOUS
  <2>1. /\ i \in Nat /\ i < Len(w) /\ i + 1 \in 1..Len(w) /\ i + 1 \in 0..Len(w)
        /\ i + 1 # 0 /\ (i + 1) - 1 = i
    BY <1>2
  <2>2. Runs(s, w, i, run[i])
    BY <1>2, <2>1
  <2>3. run[i + 1] = Offer(run[i], w[i + 1])
    BY <1>1, <2>1
  <2> HIDE DEF A
  <2>4. Runs(s, w, i + 1, Offer(run[i], w[i + 1]))
    BY <2>1, <2>2, OfferLemma
  <2> QED
    BY <2>3, <2>4
<1>5. A = Nat
  BY <1>3, <1>4, NatSet
<1> QED
  BY <1>1, <1>2, <1>5
-----------------------------------------------------------------------------
(* Types and messages *)

\* TypeOK and MailInv, by the variables they are about.
Good(y, m) == IF y = Router THEN RouterMail(m)
              ELSE IF y \in Accounts THEN AccountMail(y, m) ELSE CardMail(y, m)
RouterOK ==
  /\ accounts \subseteq Accounts /\ cards \subseteq Cards
  /\ DOMAIN operations \subseteq Ops \cup {0} /\ \A k \in DOMAIN operations : operations[k] \in Ops
  /\ DOMAIN snapshots \subseteq {0}
  /\ \A k \in DOMAIN snapshots :
       snapshots[k] \in [expected_accounts : Nat, accounts : Seq(AccountSnapshots),
                         expected_cards : Nat, cards : Seq(CardSnapshots)]
  /\ RouterInv
EventsOK ==
  /\ events \in Seq(ActorEvent) /\ Len(events) <= EventCapacity
  /\ results \in Seq(ActorEvent) /\ ResultsKnown
AccountsOK ==
  /\ account \in [Accounts -> [limit : Limits, consumed : Nat,
                               pending : [op : Nat, remaining : Nat, spent : Spendings,
                                          billing : BOOLEAN]]]
  /\ BillsKnown
CardsOK ==
  card \in [Cards -> [limit : Limits, consumed : Nat, tasks : Seq(Nat)]] /\ TasksKnown
HistoryOK ==
  outcome \in [Ops -> {"none", "ok", "failed"}] /\ known \in [Ops -> SUBSET Ops]
MailboxOK ==
  /\ DOMAIN mailbox = Actors
  /\ \A y \in Actors : mailbox[y] \in Seq(Letter(y)) /\ \A m \in InMail(y) : Good(y, m)
AllOK ==
  /\ sent \in Seq(Operation)
  /\ RouterOK /\ EventsOK /\ AccountsOK /\ CardsOK /\ HistoryOK /\ MailboxOK

\* The parts are TypeOK and MailInv.
LEMMA AllParts == TypeOK /\ MailInv <=> AllOK
<1>1. TypeOK /\ MailInv => AllOK
  <2> SUFFICES ASSUME TypeOK, MailInv PROVE AllOK
    OBVIOUS
  <2>1. MailboxOK
    BY ActorsApart, MailboxType DEF MailboxOK, Good, MailInv
  <2> QED
    BY <2>1 DEF TypeOK, MailInv, AllOK, RouterOK, EventsOK, AccountsOK, CardsOK, HistoryOK
<1>2. AllOK => TypeOK /\ MailInv
  <2> SUFFICES ASSUME AllOK PROVE TypeOK /\ MailInv
    OBVIOUS
  <2>1. /\ DOMAIN mailbox = Actors /\ mailbox[Router] \in Seq(RouterMsg)
        /\ \A a \in Accounts : mailbox[a] \in Seq(AccountMsg)
        /\ \A c \in Cards : mailbox[c] \in Seq(CardMsg)
    BY ActorsApart DEF AllOK, MailboxOK
  <2>2. /\ \A m \in InMail(Router) : RouterMail(m)
        /\ \A a \in Accounts : \A m \in InMail(a) : AccountMail(a, m)
        /\ \A c \in Cards : \A m \in InMail(c) : CardMail(c, m)
    BY ActorsApart DEF AllOK, MailboxOK, Good
  <2> QED
    BY <2>1, <2>2 DEF TypeOK, MailInv, AllOK, RouterOK, EventsOK, AccountsOK, CardsOK, HistoryOK
<1> QED
  BY <1>1, <1>2

\* The operations and the executed ones only grow.
Grows == /\ Ops \subseteq Ops' /\ \A o \in Ops : Op[o]' = Op[o]
         /\ Executed \subseteq Executed'

\* What is true of an operation remains true of it.
LEMMA GrowsLemma ==
  ASSUME AllOK, Grows
  PROVE  /\ Executed \subseteq Ops
         /\ \A kind : HasKind(kind) => HasKind(kind)'
         /\ \A o, c : (OfCard(o, c) => OfCard(o, c)') /\ (ChargeOf(o, c) => ChargeOf(o, c)')
         /\ \A y \in Actors : \A m : Good(y, m) => Good(y, m)'
<1>1. Executed \subseteq Ops
  BY DEF AllOK, RouterOK, Executed
<1>2. \A kind : HasKind(kind) => HasKind(kind)'
  BY DEF HasKind, Grows
<1>3. \A o, c : (OfCard(o, c) => OfCard(o, c)') /\ (ChargeOf(o, c) => ChargeOf(o, c)')
  BY DEF OfCard, ChargeOf, Grows
<1>4. ASSUME NEW m, RouterMail(m) PROVE RouterMail(m)'
  BY <1>1, <1>4 DEF RouterMail, Grows, IsQuery
<1>5. ASSUME NEW a, NEW m, AccountMail(a, m) PROVE AccountMail(a, m)'
  <2>1. \A o \in Executed : o \in Executed' /\ Op[o]' = Op[o]
    BY <1>1 DEF Grows
  <2>2. HasKind("ReplaceDatabase") => HasKind("ReplaceDatabase")'
    BY <1>2
  <2>3. m.type = "ApplyCharge" => ChargeOf(m.op, Op[m.op].card)'
    <3> SUFFICES ASSUME m.type = "ApplyCharge" PROVE ChargeOf(m.op, Op[m.op].card)'
      OBVIOUS
    <3>1. ChargeOf(m.op, Op[m.op].card) /\ m.op \in Executed
      BY <1>5 DEF AccountMail
    <3> QED
      BY <2>1, <3>1 DEF ChargeOf, OfCard, Grows
  <2> QED
    BY <1>5, <2>1, <2>2, <2>3 DEF AccountMail, IsQuery
<1>6. ASSUME NEW c, NEW m, CardMail(c, m) PROVE CardMail(c, m)'
  <2>1. HasKind("ReplaceDatabase") => HasKind("ReplaceDatabase")'
    BY <1>2
  <2> QED
    BY <1>1, <1>3, <1>6, <2>1 DEF CardMail, Grows, IsQuery
<1> QED
  BY <1>1, <1>2, <1>3, <1>4, <1>5, <1>6 DEF Good

\* What the first message of a mailbox says.
LEMMA HeadLemma ==
  ASSUME AllOK, NEW x \in Actors, mailbox[x] # <<>>
  PROVE  /\ Head(mailbox[x]) \in InMail(x) /\ Head(mailbox[x]) \in Letter(x)
         /\ Good(x, Head(mailbox[x]))
<1>1. mailbox[x] \in Seq(Letter(x)) /\ \A m \in InMail(x) : Good(x, m)
  BY DEF AllOK, MailboxOK
<1>2. Head(mailbox[x]) \in InMail(x) /\ Head(mailbox[x]) \in Letter(x)
  BY <1>1, SeqLemma DEF InMail
<1> QED
  BY <1>1, <1>2

\* Mailboxes of the right messages, when the messages sent are right.
LEMMA MailStep ==
  ASSUME AllOK, Grows, NEW x \in Actors, mailbox[x] # <<>>, NEW new, Deliver(x, new),
         \A y \in DOMAIN new : /\ y \in Actors /\ new[y] \in Seq(Letter(y))
                               /\ \A m \in Range(new[y]) : Good(y, m)'
  PROVE  MailboxOK'
<1>1. TypeOK
  BY AllParts
<1>s. Sends(x, new)
  BY SeqOfRange DEF Sends
<1>a. \A y \in Actors : Added(new, y) \in Seq(Letter(y))
  BY DEF Added
<1>2. /\ DOMAIN mailbox' = Actors /\ \A y \in Actors : mailbox'[y] \in Seq(Letter(y))
      /\ \A y \in Actors : InMail(y)' \subseteq InMail(y) \cup Range(Added(new, y))
  BY <1>1, <1>a, <1>s, DeliverLemma
<1>3. ASSUME NEW y \in Actors, NEW m \in InMail(y)' PROVE Good(y, m)'
  <2>1. CASE m \in InMail(y)
    BY <2>1, GrowsLemma DEF AllOK, MailboxOK
  <2>2. CASE m \in Range(Added(new, y))
    BY <2>2, FewLemma DEF Added
  <2> QED
    BY <1>2, <2>1, <2>2
<1>4. \A y \in Actors : Letter(y)' = Letter(y)
  BY DEF Letter
<1>5. Actors' = Actors
  BY DEF Actors
<1> QED
  BY <1>2, <1>3, <1>4, <1>5 DEF MailboxOK

\* One message to y, and none.
LEMMA ToLemma ==
  /\ \A y, m : DOMAIN To(y, m) = {y} /\ To(y, m)[y] = <<m>>
  /\ DOMAIN Nothing = {}
  /\ \A T : \A m \in T : <<m>> \in Seq(T)
BY DEF To, Nothing

\* The same for a step that sends one message.
LEMMA MailStepOne ==
  ASSUME AllOK, Grows, NEW x \in Actors, mailbox[x] # <<>>, NEW y \in Actors,
         NEW m \in Letter(y), Good(y, m)', Deliver(x, To(y, m))
  PROVE  MailboxOK'
<1>1. DOMAIN To(y, m) = {y} /\ To(y, m)[y] = <<m>> /\ <<m>> \in Seq(Letter(y)) /\ Range(<<m>>) = {m}
  BY ToLemma, FewLemma
<1>2. \A z \in DOMAIN To(y, m) : /\ z \in Actors /\ To(y, m)[z] \in Seq(Letter(z))
                                /\ \A k \in Range(To(y, m)[z]) : Good(z, k)'
  BY <1>1
<1> QED
  BY <1>2, MailStep

\* The same for a step that sends nothing.
LEMMA MailStepNone ==
  ASSUME AllOK, Grows, NEW x \in Actors, mailbox[x] # <<>>, Deliver(x, Nothing)
  PROVE  MailboxOK'
BY ToLemma, MailStep

\* What a step leaves alone stays well formed.
LEMMA FrameLemma ==
  ASSUME AllOK, Grows, sent' = sent
  PROVE  /\ UNCHANGED routerVars => RouterOK'
         /\ UNCHANGED <<events, results>> => EventsOK'
         /\ UNCHANGED account => AccountsOK'
         /\ UNCHANGED card => CardsOK'
         /\ UNCHANGED <<outcome, known>> => HistoryOK'
<1>0. Op' = Op /\ Ops' = Ops
  BY DEF Op, Ops
<1>1. UNCHANGED routerVars => RouterOK'
  <2>1. UNCHANGED operations => Executed' = Executed
    BY DEF Executed
  <2> QED
    BY <1>0, <2>1 DEF AllOK, RouterOK, RouterInv, routerVars
<1>2. UNCHANGED <<events, results>> => EventsOK'
  BY <1>0 DEF AllOK, EventsOK, ResultsKnown, Grows
<1>3. UNCHANGED account => AccountsOK'
  BY <1>0 DEF AllOK, AccountsOK, BillsKnown, HasKind
<1>4. UNCHANGED card => CardsOK'
  BY <1>0 DEF AllOK, CardsOK, TasksKnown, Grows, OfCard
<1>5. UNCHANGED <<outcome, known>> => HistoryOK'
  BY <1>0 DEF AllOK, HistoryOK
<1> QED
  BY <1>1, <1>2, <1>3, <1>4, <1>5

\* A step that sends no operation and executes none.
LEMMA SameGrows ==
  ASSUME sent' = sent, operations' = operations
  PROVE  Grows
BY DEF Grows, Ops, Op, Executed

\* An event is put into the channel, or dropped.
LEMMA EmitLemma ==
  ASSUME AllOK, NEW ev \in ActorEvent, Emit(ev)
  PROVE  events' \in Seq(ActorEvent) /\ Len(events') <= EventCapacity
<1>1. events \in Seq(ActorEvent) /\ Len(events) <= EventCapacity /\ EventCapacity \in Nat
  BY CapacityAssumption DEF AllOK, EventsOK
<1>2. CASE HasRoom
  <2>1. events' = Append(events, ev) /\ Len(events) < EventCapacity
    BY <1>2 DEF Emit, HasRoom
  <2>2. Append(events, ev) \in Seq(ActorEvent) /\ Len(Append(events, ev)) = Len(events) + 1
        /\ Len(events) \in Nat
    BY <1>1, AppendLemma
  <2> QED
    BY <1>1, <2>1, <2>2
<1>3. CASE ~HasRoom
  BY <1>1, <1>3 DEF Emit
<1> QED
  BY <1>2, <1>3

\* The node gets, or misses, the result of the operation that the router knows by id.
LEMMA EmitResultLemma ==
  ASSUME AllOK, Grows, sent' = sent, NEW id, NEW ok \in BOOLEAN, NEW value \in Values,
         EmitResult(id, ok, value), operations'[id] \in Ops,
         Op[operations'[id]].kind \in {"Charge", "LimitCard"} => operations'[id] \in Executed'
  PROVE  EventsOK'
<1> DEFINE ev == [type |-> "OperationResult", op |-> operations'[id], ok |-> ok, value |-> value]
<1>1. ev \in ActorEvent /\ ev.type = "OperationResult" /\ ev.op = operations'[id]
  BY DEF ActorEvent, Ops
<1>2. Emit(ev) /\ results' = IF HasRoom THEN Append(results, ev) ELSE results
  BY DEF EmitResult
<1> HIDE DEF ev
<1>3. events' \in Seq(ActorEvent) /\ Len(events') <= EventCapacity
  BY <1>1, <1>2, EmitLemma
<1>4. results \in Seq(ActorEvent) /\ ResultsKnown
  BY DEF AllOK, EventsOK
<1>5. results' \in Seq(ActorEvent) /\ Range(results') \subseteq Range(results) \cup {ev}
  BY <1>1, <1>2, <1>4, AppendLemma
<1>6. Op' = Op /\ Ops' = Ops
  BY DEF Op, Ops
<1>7. ASSUME NEW r \in Range(results')
      PROVE  /\ r.type = "OperationResult" /\ r.op \in Ops
             /\ Op[r.op].kind \in {"Charge", "LimitCard"} => r.op \in Executed'
  <2>1. CASE r \in Range(results)
    BY <1>4, <2>1 DEF ResultsKnown, Grows
  <2>2. CASE r = ev
    BY <1>1, <2>2
  <2> QED
    BY <1>5, <2>1, <2>2
<1>8. ResultsKnown'
  BY <1>6, <1>7 DEF ResultsKnown
<1> QED
  BY <1>3, <1>5, <1>8 DEF EventsOK

\* emit of a debug event keeps the types of the channel.
LEMMA EmitDebugLemma ==
  ASSUME AllOK, Grows, sent' = sent, EmitDebug
  PROVE  EventsOK'
<1>1. Debug \in ActorEvent /\ Emit(Debug) /\ results' = results
  BY DEF EmitDebug, ActorEvent
<1>2. events' \in Seq(ActorEvent) /\ Len(events') <= EventCapacity
  BY <1>1, EmitLemma
<1>3. Op' = Op /\ Ops' = Ops
  BY DEF Op, Ops
<1> QED
  BY <1>1, <1>2, <1>3 DEF AllOK, EventsOK, ResultsKnown, Grows

\* What a message of each type has.
LEMMA RouterFields ==
  ASSUME NEW m \in RouterMsg
  PROVE  /\ m.type = "Execute" => m.op \in Nat
         /\ m.type \in {"OperationCompleted", "AccountQueryCompleted"} =>
              m.op \in Nat /\ m.ok \in BOOLEAN /\ m.value \in Values
         /\ m.type = "AccountSnapshotCollected" => m.fragment \in AccountSnapshots
         /\ m.type = "CardSnapshotCollected" => m.fragment \in CardSnapshots
BY DEF RouterMsg, Debug

\* The fields of the messages to an account.
LEMMA AccountFields ==
  ASSUME NEW m \in AccountMsg
  PROVE  /\ m.type \in {"ApplyCharge", "ApplyAccountLimit", "GetSnapshot"} => m.op \in Nat
         /\ m.type = "Start" => m.op \in Nat /\ m.num_cards \in Nat
         /\ m.type = "CardQueryReply" => m.op \in Nat /\ m.card \in Cards /\ m.consumed \in Nat
         /\ m.type = "ReplaceState" => m.limit \in Limits /\ m.consumed \in Nat
BY DEF AccountMsg, StateMsg

\* The fields of the messages to a card.
LEMMA CardFields ==
  ASSUME NEW m \in CardMsg
  PROVE  /\ m.type \in {"Task", "QueryCardState", "GetSnapshot"} => m.op \in Nat
         /\ m.type = "AccountChargeReply" => m.op \in Nat /\ m.ok \in BOOLEAN
         /\ m.type = "ReplaceState" => m.limit \in Limits /\ m.consumed \in Nat
BY DEF CardMsg, StateMsg

\* Which messages are well formed.
LEMMA MakeMessages ==
  /\ \A o \in Nat : /\ [type |-> "Execute", op |-> o] \in RouterMsg
                    /\ [type |-> "Task", op |-> o] \in CardMsg
                    /\ [type |-> "QueryCardState", op |-> o] \in CardMsg
                    /\ [type |-> "ApplyAccountLimit", op |-> o] \in AccountMsg
                    /\ [type |-> "ApplyCharge", op |-> o] \in AccountMsg
                    /\ [type |-> "GetSnapshot", op |-> o] \in AccountMsg
                    /\ [type |-> "GetSnapshot", op |-> o] \in CardMsg
  /\ \A o, n \in Nat : [type |-> "Start", op |-> o, num_cards |-> n] \in AccountMsg
  /\ \A o \in Nat, ok \in BOOLEAN :
       /\ [type |-> "AccountChargeReply", op |-> o, ok |-> ok] \in CardMsg
       /\ Completed(o, ok) \in RouterMsg
  /\ \A o, n \in Nat, c \in Cards :
       [type |-> "CardQueryReply", op |-> o, card |-> c, consumed |-> n] \in AccountMsg
  /\ \A o, n \in Nat, s \in Spendings : QueryDone(o, s, n) \in RouterMsg
  /\ \A l \in Limits, n \in Nat :
       /\ [type |-> "ReplaceState", limit |-> l, consumed |-> n] \in AccountMsg
       /\ [type |-> "ReplaceState", limit |-> l, consumed |-> n] \in CardMsg
  /\ \A f \in AccountSnapshots : [type |-> "AccountSnapshotCollected", fragment |-> f] \in RouterMsg
  /\ \A f \in CardSnapshots : [type |-> "CardSnapshotCollected", fragment |-> f] \in RouterMsg
  /\ Debug \in RouterMsg
<1>1. /\ \A o \in Nat : [type |-> "Execute", op |-> o] \in RouterMsg
      /\ Debug \in RouterMsg
      /\ \A f \in AccountSnapshots : [type |-> "AccountSnapshotCollected", fragment |-> f] \in RouterMsg
      /\ \A f \in CardSnapshots : [type |-> "CardSnapshotCollected", fragment |-> f] \in RouterMsg
  BY DEF RouterMsg
<1>2. \A o \in Nat, ok \in BOOLEAN : Completed(o, ok) \in RouterMsg
  BY DEF RouterMsg, Completed, Values
<1>3. \A o, n \in Nat, s \in Spendings : QueryDone(o, s, n) \in RouterMsg
  BY DEF RouterMsg, QueryDone, Values
<1>4. /\ \A o \in Nat : /\ [type |-> "ApplyAccountLimit", op |-> o] \in AccountMsg
                        /\ [type |-> "ApplyCharge", op |-> o] \in AccountMsg
                        /\ [type |-> "GetSnapshot", op |-> o] \in AccountMsg
      /\ \A o, n \in Nat : [type |-> "Start", op |-> o, num_cards |-> n] \in AccountMsg
      /\ \A o, n \in Nat, c \in Cards :
           [type |-> "CardQueryReply", op |-> o, card |-> c, consumed |-> n] \in AccountMsg
      /\ \A l \in Limits, n \in Nat :
           [type |-> "ReplaceState", limit |-> l, consumed |-> n] \in AccountMsg
  BY DEF AccountMsg, StateMsg
<1>5. /\ \A o \in Nat : /\ [type |-> "Task", op |-> o] \in CardMsg
                        /\ [type |-> "QueryCardState", op |-> o] \in CardMsg
                        /\ [type |-> "GetSnapshot", op |-> o] \in CardMsg
      /\ \A o \in Nat, ok \in BOOLEAN :
           [type |-> "AccountChargeReply", op |-> o, ok |-> ok] \in CardMsg
      /\ \A l \in Limits, n \in Nat :
           [type |-> "ReplaceState", limit |-> l, consumed |-> n] \in CardMsg
  BY DEF CardMsg, StateMsg
<1> QED
  BY <1>1, <1>2, <1>3, <1>4, <1>5

-----------------------------------------------------------------------------
(* Every action keeps the types and what the messages are about. *)

\* Database::send.
LEMMA SendOK ==
  ASSUME AllOK, Send
  PROVE  AllOK' /\ Grows
<1>0. PICK n : n = Len(sent) + 1
  OBVIOUS
<1>m. PICK m : m = [type |-> "Execute", op |-> n]
  OBVIOUS
<1>1. PICK op \in NextOperations(sent) : sent' = Append(sent, op)
  BY DEF Send
<1>2. sent \in Seq(Operation) /\ Len(sent) \in Nat
  BY SeqLemma DEF AllOK
<1>3. op \in Operation
  BY <1>2, WorkloadsAssumption, SeqLemma DEF NextOperations
<1>4. /\ sent' \in Seq(Operation) /\ Len(sent') = Len(sent) + 1
      /\ \A o \in 1..Len(sent) : sent'[o] = sent[o]
  BY <1>1, <1>2, <1>3, AppendLemma
<1>5. Ops' = Ops \cup {n} /\ Ops \subseteq Ops' /\ n \in Ops' /\ n \in Nat /\ n \notin Ops
  BY <1>0, <1>2, <1>4 DEF Ops
<1>6. UNCHANGED <<events, routerVars, account, card, results>>
  BY DEF Send
<1>7. Executed' = Executed
  BY <1>6 DEF Executed, routerVars
<1>8. Grows
  BY <1>4, <1>5, <1>7 DEF Grows, Op, Ops
<1>9. RouterOK'
  <2>1. \A o \in Ops : Op[o]' = Op[o]
    BY <1>8 DEF Grows
  <2> QED
    BY <1>5, <1>6, <1>7, <2>1 DEF AllOK, RouterOK, RouterInv, routerVars
<1>10. EventsOK'
  BY <1>5, <1>6, <1>7, <1>8 DEF AllOK, EventsOK, ResultsKnown, Grows
<1>11. AccountsOK'
  <2>1. HasKind("Bill") => HasKind("Bill")'
    BY <1>8, GrowsLemma
  <2> QED
    BY <1>6, <2>1 DEF AllOK, AccountsOK, BillsKnown
<1>12. CardsOK'
  <2>1. \A o, c : OfCard(o, c) => OfCard(o, c)'
    BY <1>8, GrowsLemma
  <2> QED
    BY <1>6, <1>7, <2>1 DEF AllOK, CardsOK, TasksKnown
<1>13. HistoryOK'
  <2> DEFINE new == {o \in Ops : \E i \in 1..Len(results) : results[i].op = o /\ results[i].ok}
  <2>1. outcome' = Append(outcome, "none") /\ known' = Append(known, new)
    BY DEF Send
  <2>2. outcome \in [Ops -> {"none", "ok", "failed"}] /\ known \in [Ops -> SUBSET Ops]
    BY DEF AllOK, HistoryOK
  <2>3. outcome \in Seq({"none", "ok", "failed"}) /\ Len(outcome) = Len(sent)
    BY <1>2, <2>2 DEF Ops
  <2>4. known \in Seq(SUBSET Ops) /\ Len(known) = Len(sent)
    BY <1>2, <2>2 DEF Ops
  <2>5. new \in SUBSET Ops
    OBVIOUS
  <2> HIDE DEF new
  <2>6. outcome' \in Seq({"none", "ok", "failed"}) /\ Len(outcome') = n
    BY <1>0, <2>1, <2>3, AppendLemma
  <2>7. known' \in Seq(SUBSET Ops) /\ Len(known') = n
    BY <1>0, <2>1, <2>4, <2>5, AppendLemma
  <2>8. Ops' = 1..n
    BY <1>0, <1>4 DEF Ops
  <2>9. outcome' \in [Ops' -> {"none", "ok", "failed"}]
    BY <1>5, <2>6, <2>8
  <2>10. known' \in [Ops' -> SUBSET Ops]
    BY <1>5, <2>7, <2>8
  <2> QED
    BY <1>5, <2>9, <2>10 DEF HistoryOK
<1>14. MailboxOK'
  <2>1. mailbox' = [mailbox EXCEPT ![Router] = Append(mailbox[Router], m)]
    BY <1>0, <1>m DEF Send
  <2>2. m \in RouterMsg /\ m.type = "Execute" /\ m.op = n
    BY <1>5, <1>m, MakeMessages
  <2>3. /\ DOMAIN mailbox = Actors /\ Router \in Actors /\ Letter(Router) = RouterMsg
        /\ \A y \in Actors : mailbox[y] \in Seq(Letter(y)) /\ \A k \in InMail(y) : Good(y, k)
    BY ActorsApart DEF AllOK, MailboxOK
  <2>4. mailbox'[Router] \in Seq(RouterMsg) /\ Range(mailbox'[Router]) = Range(mailbox[Router]) \cup {m}
    BY <2>1, <2>2, <2>3, AppendLemma
  <2>5. /\ DOMAIN mailbox' = Actors /\ \A y \in Actors : y # Router => mailbox'[y] = mailbox[y]
    BY <2>1, <2>3
  <2>6. Good(Router, m)'
    BY <1>5, <2>2 DEF Good, RouterMail
  <2>7. \A y \in Actors : Letter(y)' = Letter(y)
    BY DEF Letter
  <2>8. Actors' = Actors
    BY DEF Actors
  <2>9. ASSUME NEW y \in Actors PROVE mailbox'[y] \in Seq(Letter(y)) /\ \A k \in InMail(y)' : Good(y, k)'
    <3>1. mailbox'[y] \in Seq(Letter(y))
      BY <2>3, <2>4, <2>5
    <3>2. ASSUME NEW k \in InMail(y)' PROVE Good(y, k)'
      <4>1. k \in InMail(y) \/ (y = Router /\ k = m)
        BY <2>4, <2>5 DEF InMail
      <4> QED
        BY <1>8, <2>3, <2>6, <4>1, GrowsLemma
    <3> QED
      BY <3>1, <3>2
  <2> QED
    BY <2>5, <2>7, <2>8, <2>9 DEF MailboxOK
<1> QED
  BY <1>4, <1>8, <1>9, <1>10, <1>11, <1>12, <1>13, <1>14 DEF AllOK

\* Database::recv.
LEMMA RecvOK ==
  ASSUME AllOK, Recv
  PROVE  AllOK' /\ Grows
<1>1. /\ UNCHANGED <<sent, routerVars, account, card, mailbox, history>>
      /\ events # <<>> /\ events' = Tail(events)
  BY DEF Recv
<1>2. Grows
  BY <1>1, SameGrows DEF routerVars
<1>3. RouterOK' /\ AccountsOK' /\ CardsOK' /\ HistoryOK'
  BY <1>1, <1>2, FrameLemma DEF history
<1>4. EventsOK'
  <2>1. events \in Seq(ActorEvent) /\ Len(events) <= EventCapacity /\ EventCapacity \in Nat
    BY CapacityAssumption DEF AllOK, EventsOK
  <2>2. events' \in Seq(ActorEvent) /\ Len(events') = Len(events) - 1 /\ Len(events) \in Nat
    BY <1>1, <2>1
  <2>3. Len(events') <= EventCapacity
    BY <2>1, <2>2
  <2>4. Executed' = Executed /\ Op' = Op /\ Ops' = Ops
    BY <1>1 DEF Executed, Op, Ops, routerVars
  <2> QED
    BY <1>1, <2>2, <2>3, <2>4 DEF AllOK, EventsOK, ResultsKnown, history
<1>5. MailboxOK'
  <2>1. \A y \in Actors : Letter(y)' = Letter(y) /\ InMail(y)' = InMail(y)
    BY <1>1 DEF Letter, InMail
  <2>2. Actors' = Actors
    BY DEF Actors
  <2> QED
    BY <1>1, <1>2, <2>1, <2>2, GrowsLemma DEF AllOK, MailboxOK
<1> QED
  BY <1>1, <1>2, <1>3, <1>4, <1>5 DEF AllOK

\* The operations that the router knows.
OperationsOK ==
  /\ DOMAIN operations \subseteq Ops \cup {0} /\ \A k \in DOMAIN operations : operations[k] \in Ops
  /\ \A k \in Executed : operations[k] = k
  /\ 0 \in DOMAIN operations => Op[operations[0]].kind \in {"GetDatabase", "ReplaceDatabase"}

\* The router remembers the operation of its next command.
LEMMA ExecuteLemma ==
  ASSUME AllOK, NEW o, NEW kinds, Execute(o, kinds), sent' = sent
  PROVE  /\ o \in Ops /\ Op[o].kind \in kinds /\ mailbox[Router] # <<>> /\ Router \in Actors
         /\ Head(mailbox[Router]).type = "Execute" /\ Head(mailbox[Router]).op = o
         /\ Grows /\ OperationsOK' /\ DOMAIN operations \subseteq DOMAIN operations'
         /\ Op' = Op /\ Ops' = Ops
         /\ Op[o].kind \notin {"GetDatabase", "ReplaceDatabase"} => Executed' = Executed \cup {o}
         /\ Op[o].kind \in {"GetDatabase", "ReplaceDatabase"} =>
              Executed' = Executed /\ 0 \in DOMAIN operations' /\ operations'[0] = o
<1>1. /\ mailbox[Router] # <<>> /\ Head(mailbox[Router]).type = "Execute"
      /\ o = Head(mailbox[Router]).op /\ Op[o].kind \in kinds
      /\ operations' = Insert(operations, OpId(o), o) /\ Router \in Actors
  BY ActorsApart DEF Execute, HasMail
<1>2. o \in Ops
  BY <1>1, HeadLemma DEF Good, RouterMail
<1>3. Op' = Op /\ Ops' = Ops /\ 0 \notin Ops
  BY DEF Op, Ops
<1>4. PICK k : k = OpId(o)
  OBVIOUS
<1>5. /\ DOMAIN operations' = DOMAIN operations \cup {k} /\ operations'[k] = o
      /\ \A j \in DOMAIN operations : j # k => operations'[j] = operations[j]
  BY <1>1, <1>4 DEF Insert
<1>6. /\ Op[o].kind \in {"GetDatabase", "ReplaceDatabase"} => k = 0
      /\ Op[o].kind \notin {"GetDatabase", "ReplaceDatabase"} => k = o
  BY <1>4 DEF OpId
<1>7. OperationsOK
  BY DEF OperationsOK, AllOK, RouterOK, RouterInv
<1>8. Executed' = IF k = 0 THEN Executed ELSE Executed \cup {k}
  BY <1>5 DEF Executed
<1>9. Grows
  BY <1>3, <1>8 DEF Grows
<1>10. OperationsOK'
  <2>1. DOMAIN operations' \subseteq Ops' \cup {0} /\ \A j \in DOMAIN operations' : operations'[j] \in Ops'
    BY <1>2, <1>3, <1>5, <1>6, <1>7 DEF OperationsOK
  <2>2. ASSUME NEW j \in Executed' PROVE operations'[j] = j
    <3>1. CASE j = k
      BY <1>2, <1>3, <1>5, <1>6, <2>2, <3>1 DEF Executed
    <3>2. CASE j # k
      <4>1. j \in Executed /\ j \in DOMAIN operations
        BY <1>8, <2>2, <3>2 DEF Executed
      <4> QED
        BY <1>5, <1>7, <3>2, <4>1 DEF OperationsOK
    <3> QED
      BY <3>1, <3>2
  <2>3. 0 \in DOMAIN operations' => Op'[operations'[0]].kind \in {"GetDatabase", "ReplaceDatabase"}
    <3>1. CASE k = 0
      BY <1>2, <1>3, <1>5, <1>6, <3>1
    <3>2. CASE k # 0
      BY <1>3, <1>5, <1>7, <3>2 DEF OperationsOK
    <3> QED
      BY <3>1, <3>2
  <2> QED
    BY <2>1, <2>2, <2>3 DEF OperationsOK
<1> QED
  BY <1>1, <1>2, <1>3, <1>5, <1>6, <1>8, <1>9, <1>10

\* The operations of the router and RouterInv.
LEMMA RouterParts ==
  ASSUME AllOK, OperationsOK', DOMAIN operations \subseteq DOMAIN operations',
         accounts' \subseteq Accounts, cards' \subseteq Cards, UNCHANGED snapshots
  PROVE  RouterOK'
BY DEF AllOK, RouterOK, RouterInv, OperationsOK

\* Handler<RouterCmd>: Charge and LimitCard.
LEMMA ExecuteOnCardOK ==
  ASSUME AllOK, NEW o, ExecuteOnCard(o)
  PROVE  AllOK' /\ Grows
<1>1. /\ Execute(o, {"Charge", "LimitCard"}) /\ cards' = cards \cup {Op[o].card}
      /\ accounts' = accounts \cup {Owner[Op[o].card]}
      /\ Deliver(Router, To(Op[o].card, [type |-> "Task", op |-> o]))
      /\ UNCHANGED <<sent, events, snapshots, account, card, history>>
  BY DEF ExecuteOnCard
<1>2. /\ o \in Ops /\ Op[o].kind \in {"Charge", "LimitCard"} /\ mailbox[Router] # <<>>
      /\ Grows /\ OperationsOK' /\ DOMAIN operations \subseteq DOMAIN operations'
      /\ Op' = Op /\ Ops' = Ops /\ Executed' = Executed \cup {o} /\ Router \in Actors
  BY <1>1, ExecuteLemma
<1>3. PICK c : c = Op[o].card
  OBVIOUS
<1>4. c \in Cards /\ Owner[c] \in Accounts /\ o \in Nat
  BY <1>2, <1>3, OperationType, ActorsApart DEF AllOK
<1>5. RouterOK'
  <2>1. accounts' \subseteq Accounts /\ cards' \subseteq Cards
    BY <1>1, <1>3, <1>4 DEF AllOK, RouterOK
  <2> QED
    BY <1>1, <1>2, <2>1, RouterParts
<1>6. EventsOK' /\ AccountsOK' /\ CardsOK' /\ HistoryOK'
  BY <1>1, <1>2, FrameLemma DEF history
<1>7. MailboxOK'
  <2>1. PICK m : m = [type |-> "Task", op |-> o]
    OBVIOUS
  <2>2. m \in Letter(c) /\ c \in Actors /\ c # Router /\ c \notin Accounts
    BY <1>4, <2>1, ActorsApart, MakeMessages
  <2>3. Good(c, m)'
    BY <1>2, <1>3, <2>1, <2>2 DEF Good, CardMail, OfCard
  <2> QED
    BY <1>1, <1>2, <1>3, <2>1, <2>2, <2>3, MailStepOne
<1> QED
  BY <1>1, <1>2, <1>5, <1>6, <1>7 DEF AllOK

\* Handler<RouterCmd>: LimitAccount.
LEMMA ExecuteLimitAccountOK ==
  ASSUME AllOK, NEW o, ExecuteLimitAccount(o)
  PROVE  AllOK' /\ Grows
<1>1. /\ Execute(o, {"LimitAccount"}) /\ accounts' = accounts \cup {Op[o].account}
      /\ Deliver(Router, To(Op[o].account, [type |-> "ApplyAccountLimit", op |-> o]))
      /\ UNCHANGED <<sent, events, cards, snapshots, account, card, history>>
  BY DEF ExecuteLimitAccount
<1>2. /\ o \in Ops /\ Op[o].kind = "LimitAccount" /\ mailbox[Router] # <<>>
      /\ Grows /\ OperationsOK' /\ DOMAIN operations \subseteq DOMAIN operations'
      /\ Op' = Op /\ Ops' = Ops /\ Executed' = Executed \cup {o} /\ Router \in Actors
  BY <1>1, ExecuteLemma
<1>3. PICK a : a = Op[o].account
  OBVIOUS
<1>4. a \in Accounts /\ o \in Nat
  BY <1>2, <1>3, OperationType DEF AllOK
<1>5. RouterOK'
  <2>1. accounts' \subseteq Accounts /\ cards' \subseteq Cards
    BY <1>1, <1>3, <1>4 DEF AllOK, RouterOK
  <2> QED
    BY <1>1, <1>2, <2>1, RouterParts
<1>6. EventsOK' /\ AccountsOK' /\ CardsOK' /\ HistoryOK'
  BY <1>1, <1>2, FrameLemma DEF history
<1>7. MailboxOK'
  <2>1. PICK m : m = [type |-> "ApplyAccountLimit", op |-> o]
    OBVIOUS
  <2>2. m \in Letter(a) /\ a \in Actors /\ a # Router
    BY <1>4, <2>1, ActorsApart, MakeMessages
  <2>3. Good(a, m)'
    BY <1>2, <1>4, <2>1, <2>2 DEF Good, AccountMail
  <2> QED
    BY <1>1, <1>2, <1>3, <2>1, <2>2, <2>3, MailStepOne
<1> QED
  BY <1>1, <1>2, <1>5, <1>6, <1>7 DEF AllOK

\* Handler<RouterCmd>: AccountQuery and Bill.
LEMMA ExecuteQueryOK ==
  ASSUME AllOK, NEW o, ExecuteQuery(o)
  PROVE  AllOK' /\ Grows
<1>0. PICK a : a = Op[o].account
  OBVIOUS
<1>m. PICK mine : mine = {c \in cards : Owner[c] = a}
  OBVIOUS
<1>s. PICK start : start = [type |-> "Start", op |-> o, num_cards |-> Cardinality(mine)]
  OBVIOUS
<1>q. PICK ask : ask = [type |-> "QueryCardState", op |-> o]
  OBVIOUS
<1> DEFINE new == [y \in {a} \cup mine |-> IF y = a THEN <<start>> ELSE <<ask>>]
<1>1. /\ Execute(o, {"AccountQuery", "Bill"}) /\ accounts' = accounts \cup {a}
      /\ Deliver(Router, new)
      /\ UNCHANGED <<sent, events, cards, snapshots, account, card, history>>
  BY <1>0, <1>m, <1>s, <1>q DEF ExecuteQuery
<1>2. /\ o \in Ops /\ Op[o].kind \in {"AccountQuery", "Bill"} /\ mailbox[Router] # <<>>
      /\ Grows /\ OperationsOK' /\ DOMAIN operations \subseteq DOMAIN operations'
      /\ Op' = Op /\ Ops' = Ops /\ Executed' = Executed \cup {o} /\ Router \in Actors
  BY <1>1, ExecuteLemma
<1>3. a \in Accounts /\ o \in Nat /\ cards \subseteq Cards
  BY <1>0, <1>2, OperationType DEF AllOK, RouterOK
<1>4. Cardinality(mine) \in Nat
  <2>1. mine \in SUBSET Cards
    BY <1>m, <1>3
  <2> QED
    BY <2>1, ActorsAssumption, FS_Subset, FS_CardinalityType
<1>5. RouterOK'
  <2>1. accounts' \subseteq Accounts /\ cards' \subseteq Cards
    BY <1>1, <1>3 DEF AllOK, RouterOK
  <2> QED
    BY <1>1, <1>2, <2>1, RouterParts
<1>6. EventsOK' /\ AccountsOK' /\ CardsOK' /\ HistoryOK'
  BY <1>1, <1>2, FrameLemma DEF history
<1>7. MailboxOK'
  <2>1. start \in AccountMsg /\ ask \in CardMsg /\ start.op = o /\ ask.op = o
        /\ start.type = "Start" /\ ask.type = "QueryCardState"
    BY <1>s, <1>q, <1>3, <1>4, MakeMessages
  <2>2. ASSUME NEW y \in DOMAIN new
        PROVE  /\ y \in Actors /\ new[y] \in Seq(Letter(y))
               /\ \A m \in Range(new[y]) : Good(y, m)'
    <3>1. CASE y = a
      <4>1. y \in Actors /\ y # Router /\ y \in Accounts /\ Letter(y) = AccountMsg
        BY <1>3, <3>1, ActorsApart
      <4>2. new[y] = <<start>> /\ Range(new[y]) = {start} /\ new[y] \in Seq(Letter(y))
        BY <2>1, <3>1, <4>1, FewLemma, ToLemma
      <4>3. Good(y, start)'
        BY <1>2, <2>1, <4>1 DEF Good, AccountMail, IsQuery
      <4> QED
        BY <4>1, <4>2, <4>3
    <3>2. CASE y # a
      <4>1. y \in Actors /\ y # Router /\ y \notin Accounts /\ Letter(y) = CardMsg
        BY <1>3, <1>m, <3>2, ActorsApart
      <4>2. new[y] = <<ask>> /\ Range(new[y]) = {ask} /\ new[y] \in Seq(Letter(y))
        BY <2>1, <3>2, <4>1, FewLemma, ToLemma
      <4>3. Good(y, ask)'
        BY <1>2, <2>1, <4>1 DEF Good, CardMail, IsQuery
      <4> QED
        BY <4>1, <4>2, <4>3
    <3> QED
      BY <3>1, <3>2
  <2> HIDE DEF new
  <2> QED
    BY <1>1, <1>2, <2>2, MailStep
<1> QED
  BY <1>1, <1>2, <1>5, <1>6, <1>7 DEF AllOK

\* Handler<RouterCmd>: GetDatabase.
LEMMA ExecuteGetDatabaseOK ==
  ASSUME AllOK, NEW o, ExecuteGetDatabase(o)
  PROVE  AllOK' /\ Grows
<1>1. /\ Execute(o, {"GetDatabase"})
      /\ UNCHANGED <<sent, accounts, cards, account, card, outcome, known>>
  BY DEF ExecuteGetDatabase
<1>2. /\ o \in Ops /\ Op[o].kind = "GetDatabase" /\ mailbox[Router] # <<>>
      /\ Grows /\ OperationsOK' /\ DOMAIN operations \subseteq DOMAIN operations'
      /\ Op' = Op /\ Ops' = Ops /\ 0 \in DOMAIN operations' /\ operations'[0] = o
      /\ Router \in Actors
  BY <1>1, ExecuteLemma
<1>3. o \in Nat /\ accounts \subseteq Accounts /\ cards \subseteq Cards
  BY <1>2, OperationType DEF AllOK, RouterOK
<1>4. AccountsOK' /\ CardsOK' /\ HistoryOK'
  BY <1>1, <1>2, FrameLemma
<1>5. CASE /\ EmitResult(0, TRUE, [accounts |-> <<>>, cards |-> <<>>])
           /\ Deliver(Router, Nothing) /\ UNCHANGED snapshots
  <2>1. RouterOK'
    BY <1>1, <1>2, <1>3, <1>5, RouterParts
  <2>2. [accounts |-> <<>>, cards |-> <<>>] \in Values
    BY DEF Values
  <2>3. EventsOK'
    BY <1>1, <1>2, <1>5, <2>2, EmitResultLemma
  <2>4. MailboxOK'
    BY <1>2, <1>5, MailStepNone
  <2> QED
    BY <1>1, <1>2, <1>4, <2>1, <2>3, <2>4 DEF AllOK
<1>6. CASE /\ snapshots' = Insert(snapshots, 0,
                [expected_accounts |-> Cardinality(accounts), accounts |-> <<>>,
                 expected_cards |-> Cardinality(cards), cards |-> <<>>])
           /\ Deliver(Router, OneEach(accounts \cup cards, [type |-> "GetSnapshot", op |-> o]))
           /\ UNCHANGED <<events, results>>
  <2>1. PICK p : p = [expected_accounts |-> Cardinality(accounts), accounts |-> <<>>,
                      expected_cards |-> Cardinality(cards), cards |-> <<>>]
    OBVIOUS
  <2>2. Cardinality(accounts) \in Nat /\ Cardinality(cards) \in Nat
    BY <1>3, ActorsAssumption, FS_Subset, FS_CardinalityType
  <2>3. p \in [expected_accounts : Nat, accounts : Seq(AccountSnapshots),
               expected_cards : Nat, cards : Seq(CardSnapshots)]
    BY <2>1, <2>2
  <2>4. DOMAIN snapshots' = DOMAIN snapshots \cup {0} /\ snapshots'[0] = p
    BY <1>6, <2>1 DEF Insert
  <2>5. DOMAIN snapshots' = {0}
    BY <2>4 DEF AllOK, RouterOK
  <2>6. RouterOK'
    BY <1>1, <1>2, <1>3, <2>3, <2>4, <2>5 DEF RouterOK, RouterInv, OperationsOK
  <2>7. EventsOK'
    BY <1>1, <1>2, <1>6, FrameLemma
  <2>8. MailboxOK'
    <3>1. PICK m : m = [type |-> "GetSnapshot", op |-> o]
      OBVIOUS
    <3> DEFINE new == OneEach(accounts \cup cards, m)
    <3>2. m \in AccountMsg /\ m \in CardMsg /\ m.type = "GetSnapshot"
      BY <1>3, <3>1, MakeMessages
    <3>3. ASSUME NEW y \in DOMAIN new
          PROVE  /\ y \in Actors /\ new[y] \in Seq(Letter(y))
                 /\ \A k \in Range(new[y]) : Good(y, k)'
      <4>1. y \in Actors /\ y # Router /\ m \in Letter(y)
        BY <1>3, <3>2, ActorsApart DEF OneEach
      <4>2. new[y] = <<m>> /\ Range(new[y]) = {m} /\ new[y] \in Seq(Letter(y))
        BY <4>1, FewLemma, ToLemma DEF OneEach
      <4>3. Good(y, m)'
        BY <3>2, <4>1 DEF Good, AccountMail, CardMail
      <4> QED
        BY <4>1, <4>2, <4>3
    <3>4. Deliver(Router, new)
      BY <1>6, <3>1
    <3> HIDE DEF new
    <3> QED
      BY <1>2, <3>3, <3>4, MailStep
  <2> QED
    BY <1>1, <1>2, <1>4, <2>6, <2>7, <2>8 DEF AllOK
<1> QED
  BY <1>5, <1>6 DEF ExecuteGetDatabase

\* Handler<RouterCmd>: ReplaceDatabase.
LEMMA ExecuteReplaceDatabaseOK ==
  ASSUME AllOK, NEW o, ExecuteReplaceDatabase(o)
  PROVE  AllOK' /\ Grows
<1> DEFINE A == Op[o].accounts
           C == Op[o].cards
           part(y) == IF y \in Accounts THEN CHOOSE s \in A : s.account = y
                                      ELSE CHOOSE s \in C : s.card = y
           state(y) == [type |-> "ReplaceState", limit |-> part(y).limit, consumed |-> part(y).consumed]
           new == [y \in {s.account : s \in A} \cup {s.card : s \in C} |-> <<state(y)>>]
<1>1. /\ Execute(o, {"ReplaceDatabase"})
      /\ accounts' = accounts \cup {s.account : s \in A} \cup {Owner[s.card] : s \in C}
      /\ cards' = cards \cup {s.card : s \in C}
      /\ Deliver(Router, new) /\ EmitResult(0, TRUE, <<>>)
      /\ UNCHANGED <<sent, snapshots, account, card, outcome, known>>
  BY DEF ExecuteReplaceDatabase
<1>2. /\ o \in Ops /\ Op[o].kind = "ReplaceDatabase" /\ mailbox[Router] # <<>>
      /\ Grows /\ OperationsOK' /\ DOMAIN operations \subseteq DOMAIN operations'
      /\ Op' = Op /\ Ops' = Ops /\ 0 \in DOMAIN operations' /\ operations'[0] = o
      /\ Router \in Actors
  BY <1>1, ExecuteLemma
<1>3. A \subseteq AccountSnapshots /\ C \subseteq CardSnapshots
  BY <1>2, OperationType DEF AllOK
<1> HIDE DEF A, C
<1>4. /\ \A s \in A : s.account \in Accounts /\ s.limit \in Limits /\ s.consumed \in Nat
      /\ \A s \in C : s.card \in Cards /\ s.limit \in Limits /\ s.consumed \in Nat
                      /\ Owner[s.card] \in Accounts
  BY <1>3, ActorsApart DEF AccountSnapshots, CardSnapshots
<1>5. RouterOK'
  <2>1. accounts' \subseteq Accounts /\ cards' \subseteq Cards
    BY <1>1, <1>4 DEF AllOK, RouterOK
  <2> QED
    BY <1>1, <1>2, <2>1, RouterParts
<1>6. AccountsOK' /\ CardsOK' /\ HistoryOK'
  BY <1>1, <1>2, FrameLemma
<1>7. EventsOK'
  <2>1. <<>> \in Values
    BY DEF Values
  <2> QED
    BY <1>1, <1>2, <2>1, EmitResultLemma
<1>8. HasKind("ReplaceDatabase")'
  BY <1>2 DEF HasKind
<1>9. ASSUME NEW y \in DOMAIN new
      PROVE  /\ y \in Actors /\ new[y] \in Seq(Letter(y))
             /\ \A k \in Range(new[y]) : Good(y, k)'
  <2>1. y \in {s.account : s \in A} \/ y \in {s.card : s \in C}
    OBVIOUS
  <2>2. /\ y \in Actors /\ y # Router /\ part(y).limit \in Limits /\ part(y).consumed \in Nat
        /\ Letter(y) = IF y \in Accounts THEN AccountMsg ELSE CardMsg
    <3>1. CASE y \in {s.account : s \in A}
      <4>1. y \in Accounts
        BY <1>4, <3>1
      <4>2. part(y) \in A
        BY <3>1, <4>1
      <4> QED
        BY <1>4, <4>1, <4>2, ActorsApart
    <3>2. CASE y \in {s.card : s \in C}
      <4>1. y \in Cards /\ y \notin Accounts
        BY <1>4, <3>2, ActorsApart
      <4>2. part(y) \in C
        BY <3>2, <4>1
      <4> QED
        BY <1>4, <4>1, <4>2, ActorsApart
    <3> QED
      BY <2>1, <3>1, <3>2
  <2> HIDE DEF part
  <2>3. PICK m : m = state(y)
    OBVIOUS
  <2>4. m \in Letter(y) /\ m.type = "ReplaceState"
    BY <2>2, <2>3, MakeMessages
  <2>5. new[y] = <<m>> /\ Range(new[y]) = {m} /\ new[y] \in Seq(Letter(y))
    BY <2>3, <2>4, FewLemma, ToLemma
  <2>6. Good(y, m)'
    BY <1>8, <2>2, <2>4 DEF Good, AccountMail, CardMail
  <2> QED
    BY <2>2, <2>5, <2>6
<1> HIDE DEF new
<1>10. MailboxOK'
  BY <1>1, <1>2, <1>9, MailStep
<1> QED
  BY <1>1, <1>2, <1>5, <1>6, <1>7, <1>10 DEF AllOK

\* Handler<RouterInternalMsg>: OperationCompleted and AccountQueryCompleted.
LEMMA RouterCompletedOK ==
  ASSUME AllOK, RouterCompleted
  PROVE  AllOK' /\ Grows
<1>0. PICK m : m = Head(mailbox[Router])
  OBVIOUS
<1>1. /\ mailbox[Router] # <<>> /\ m.type \in {"OperationCompleted", "AccountQueryCompleted"}
      /\ UNCHANGED operations /\ EmitResult(m.op, m.ok, m.value) /\ Deliver(Router, Nothing)
      /\ UNCHANGED <<sent, accounts, cards, snapshots, account, card, outcome, known>>
  BY <1>0 DEF RouterCompleted, HasMail
<1>2. Grows /\ Router \in Actors /\ Letter(Router) = RouterMsg
  BY <1>1, SameGrows, ActorsApart
<1>3. m \in RouterMsg /\ m.op \in Executed
  BY <1>0, <1>1, <1>2, HeadLemma DEF Good, RouterMail
<1>4. m.ok \in BOOLEAN /\ m.value \in Values
  BY <1>1, <1>3, RouterFields
<1>5. operations[m.op] = m.op /\ m.op \in Ops /\ Executed' = Executed
  BY <1>1, <1>3 DEF AllOK, RouterOK, RouterInv, Executed
<1>6. EventsOK'
  BY <1>1, <1>2, <1>3, <1>4, <1>5, EmitResultLemma
<1>7. RouterOK' /\ AccountsOK' /\ CardsOK' /\ HistoryOK'
  BY <1>1, <1>2, FrameLemma DEF routerVars
<1>8. MailboxOK'
  BY <1>1, <1>2, MailStepNone
<1> QED
  BY <1>1, <1>2, <1>6, <1>7, <1>8 DEF AllOK

\* Handler<RouterInternalMsg>: Debug.
LEMMA RouterDebugOK ==
  ASSUME AllOK, RouterDebug
  PROVE  AllOK' /\ Grows
<1>1. /\ mailbox[Router] # <<>> /\ EmitDebug /\ Deliver(Router, Nothing)
      /\ UNCHANGED <<sent, routerVars, account, card, outcome, known>>
  BY DEF RouterDebug, HasMail
<1>2. Grows /\ Router \in Actors
  BY <1>1, SameGrows, ActorsApart DEF routerVars
<1>3. RouterOK' /\ AccountsOK' /\ CardsOK' /\ HistoryOK' /\ EventsOK'
  BY <1>1, <1>2, FrameLemma, EmitDebugLemma
<1>4. MailboxOK'
  BY <1>1, <1>2, MailStepNone
<1> QED
  BY <1>1, <1>2, <1>3, <1>4 DEF AllOK

\* Handler<RouterInternalMsg>: the fragments of a snapshot.
LEMMA RouterSnapshotOK ==
  ASSUME AllOK, RouterSnapshot
  PROVE  AllOK' /\ Grows
<1>0. PICK m : m = Head(mailbox[Router])
  OBVIOUS
<1>1. /\ mailbox[Router] # <<>> /\ Deliver(Router, Nothing)
      /\ m.type \in {"AccountSnapshotCollected", "CardSnapshotCollected"}
      /\ UNCHANGED <<sent, accounts, cards, account, card, outcome, known, operations>>
  BY <1>0 DEF RouterSnapshot, HasMail
<1>2. Grows /\ Router \in Actors /\ Letter(Router) = RouterMsg
  BY <1>1, SameGrows, ActorsApart
<1>3. AccountsOK' /\ CardsOK' /\ HistoryOK' /\ MailboxOK'
  BY <1>1, <1>2, FrameLemma, MailStepNone
<1>4. m \in RouterMsg
  BY <1>0, <1>1, <1>2, HeadLemma
<1> DEFINE Partial == [expected_accounts : Nat, accounts : Seq(AccountSnapshots),
                       expected_cards : Nat, cards : Seq(CardSnapshots)]
<1>5. ASSUME NEW q \in Partial PROVE AddFragment(q, m) \in Partial
  <2>0. /\ q.accounts \in Seq(AccountSnapshots) /\ q.cards \in Seq(CardSnapshots)
        /\ q = [expected_accounts |-> q.expected_accounts, accounts |-> q.accounts,
                expected_cards |-> q.expected_cards, cards |-> q.cards]
        /\ q.expected_accounts \in Nat /\ q.expected_cards \in Nat
    OBVIOUS
  <2>1. CASE m.type = "AccountSnapshotCollected"
    <3>1. Append(q.accounts, m.fragment) \in Seq(AccountSnapshots)
      BY <1>4, <2>0, <2>1, RouterFields, AppendLemma
    <3>2. AddFragment(q, m) = [expected_accounts |-> q.expected_accounts,
             accounts |-> Append(q.accounts, m.fragment),
             expected_cards |-> q.expected_cards, cards |-> q.cards]
      BY <2>0, <2>1 DEF AddFragment
    <3> QED
      BY <2>0, <3>1, <3>2
  <2>2. CASE m.type # "AccountSnapshotCollected"
    <3>1. m.fragment \in CardSnapshots
      BY <1>1, <1>4, <2>2, RouterFields
    <3>2. Append(q.cards, m.fragment) \in Seq(CardSnapshots)
      BY <2>0, <3>1, AppendLemma
    <3>3. AddFragment(q, m) = [expected_accounts |-> q.expected_accounts, accounts |-> q.accounts,
             expected_cards |-> q.expected_cards, cards |-> Append(q.cards, m.fragment)]
      BY <2>0, <2>2 DEF AddFragment
    <3> QED
      BY <2>0, <3>2, <3>3
  <2> QED
    BY <2>1, <2>2
<1>6. CASE 0 \notin DOMAIN snapshots /\ EmitDebug /\ UNCHANGED snapshots
  BY <1>1, <1>2, <1>3, <1>6, FrameLemma, EmitDebugLemma DEF AllOK, routerVars
<1>7. ASSUME 0 \in DOMAIN snapshots
      PROVE  /\ AddFragment(snapshots[0], m) \in Partial /\ 0 \in DOMAIN operations
             /\ DOMAIN snapshots = {0} /\ OperationsOK'
             /\ Op[operations[0]].kind \in {"GetDatabase", "ReplaceDatabase"} /\ operations[0] \in Ops
  <2>1. /\ snapshots[0] \in Partial /\ 0 \in DOMAIN operations /\ DOMAIN snapshots = {0}
        /\ OperationsOK
    BY <1>7 DEF AllOK, RouterOK, RouterInv, OperationsOK
  <2>2. OperationsOK'
    BY <1>1, <2>1 DEF OperationsOK, Op, Ops, Executed
  <2> QED
    BY <1>5, <2>1, <2>2 DEF OperationsOK
<1>8. CASE /\ 0 \in DOMAIN snapshots /\ UNCHANGED <<events, results>>
           /\ snapshots' = [snapshots EXCEPT ![0] = AddFragment(snapshots[0], m)]
  <2>1. DOMAIN snapshots' = {0} /\ snapshots'[0] \in Partial
    BY <1>7, <1>8
  <2>2. RouterOK'
    BY <1>1, <1>7, <1>8, <2>1 DEF AllOK, RouterOK, RouterInv, OperationsOK
  <2> QED
    BY <1>1, <1>2, <1>3, <1>8, <2>2, FrameLemma DEF AllOK
<1>9. CASE /\ 0 \in DOMAIN snapshots
           /\ snapshots' = Restrict(snapshots, DOMAIN snapshots \ {0})
           /\ LET p == AddFragment(snapshots[0], m)
              IN  EmitResult(0, TRUE, [accounts |-> p.accounts, cards |-> p.cards])
  <2>1. DOMAIN snapshots' = {}
    BY <1>7, <1>9 DEF Restrict
  <2>2. RouterOK'
    BY <1>1, <1>7, <1>9, <2>1 DEF AllOK, RouterOK, RouterInv, OperationsOK
  <2>3. PICK p : p = AddFragment(snapshots[0], m)
    OBVIOUS
  <2>4. [accounts |-> p.accounts, cards |-> p.cards] \in Values
    BY <1>7, <1>9, <2>3 DEF Values
  <2>5. EmitResult(0, TRUE, [accounts |-> p.accounts, cards |-> p.cards])
    BY <1>9, <2>3
  <2>6. EventsOK'
    BY <1>1, <1>2, <1>7, <1>9, <2>4, <2>5, EmitResultLemma
  <2> QED
    BY <1>1, <1>2, <1>3, <2>2, <2>6 DEF AllOK
<1> QED
  BY <1>0, <1>6, <1>8, <1>9 DEF RouterSnapshot

\* The state of account a.
LEMMA AccountType ==
  ASSUME AllOK, NEW a \in Accounts
  PROVE  /\ account[a].limit \in Limits /\ account[a].consumed \in Nat
         /\ account[a].pending \in [op : Nat, remaining : Nat, spent : Spendings, billing : BOOLEAN]
         /\ account[a].pending.billing => HasKind("Bill")
         /\ a \in Actors /\ a # Router /\ a \notin Cards /\ Letter(a) = AccountMsg
BY ActorsApart DEF AllOK, AccountsOK, BillsKnown

\* An account with one field changed, as a record.
LEMMA AccountExcept ==
  ASSUME AllOK, NEW a \in Accounts
  PROVE  /\ \A n : [account EXCEPT ![a].consumed = n] = [account EXCEPT ![a] =
              [limit |-> account[a].limit, consumed |-> n, pending |-> account[a].pending]]
         /\ \A l : [account EXCEPT ![a].limit = l] = [account EXCEPT ![a] =
              [limit |-> l, consumed |-> account[a].consumed, pending |-> account[a].pending]]
         /\ \A p : [account EXCEPT ![a].pending = p] = [account EXCEPT ![a] =
              [limit |-> account[a].limit, consumed |-> account[a].consumed, pending |-> p]]
<1>1. PICK r : r = account[a]
  OBVIOUS
<1>2. r = [limit |-> r.limit, consumed |-> r.consumed, pending |-> r.pending]
  BY <1>1 DEF AllOK, AccountsOK
<1>4. PICK l0, n0, p0 : r = [limit |-> l0, consumed |-> n0, pending |-> p0]
  BY <1>2
<1>3. /\ \A n : [r EXCEPT !.consumed = n] = [limit |-> r.limit, consumed |-> n, pending |-> r.pending]
      /\ \A l : [r EXCEPT !.limit = l] = [limit |-> l, consumed |-> r.consumed, pending |-> r.pending]
      /\ \A p : [r EXCEPT !.pending = p] = [limit |-> r.limit, consumed |-> r.consumed, pending |-> p]
  <2>1. ASSUME NEW n
        PROVE  [r EXCEPT !.consumed = n] = [limit |-> r.limit, consumed |-> n, pending |-> r.pending]
    BY <1>4
  <2>2. ASSUME NEW l
        PROVE  [r EXCEPT !.limit = l] = [limit |-> l, consumed |-> r.consumed, pending |-> r.pending]
    BY <1>4
  <2>3. ASSUME NEW p
        PROVE  [r EXCEPT !.pending = p] = [limit |-> r.limit, consumed |-> r.consumed, pending |-> p]
    BY <1>4
  <2> QED
    BY <2>1, <2>2, <2>3
<1> QED
  BY <1>1, <1>3

\* The type of an account without a pending query.
LEMMA NoQueryType == NoQuery \in [op : Nat, remaining : Nat, spent : Spendings, billing : BOOLEAN]
BY DEF NoQuery, Spendings

\* A step that changes account a, and not what is known.
LEMMA AccountsStep ==
  ASSUME AllOK, sent' = sent, NEW a \in Accounts, NEW l \in Limits, NEW n \in Nat,
         NEW p \in [op : Nat, remaining : Nat, spent : Spendings, billing : BOOLEAN],
         p.billing => HasKind("Bill"),
         account' = [account EXCEPT ![a] = [limit |-> l, consumed |-> n, pending |-> p]]
  PROVE  AccountsOK'
<1>1. HasKind("Bill")' <=> HasKind("Bill")
  BY DEF HasKind, Op, Ops
<1>2. /\ account \in [Accounts -> [limit : Limits, consumed : Nat,
                        pending : [op : Nat, remaining : Nat, spent : Spendings, billing : BOOLEAN]]]
      /\ BillsKnown
  BY DEF AllOK, AccountsOK
<1>3. account' \in [Accounts -> [limit : Limits, consumed : Nat,
                      pending : [op : Nat, remaining : Nat, spent : Spendings, billing : BOOLEAN]]]
  BY <1>2
<1>4. \A b \in Accounts : account'[b].pending = IF b = a THEN p ELSE account[b].pending
  BY <1>2
<1> QED
  BY <1>1, <1>2, <1>3, <1>4 DEF AccountsOK, BillsKnown

\* An outcome that is decided.
LEMMA OutcomeStep ==
  ASSUME AllOK, sent' = sent, NEW o, NEW ok, outcome' = [outcome EXCEPT ![o] = Verdict(ok)],
         UNCHANGED known
  PROVE  HistoryOK'
BY DEF AllOK, HistoryOK, Verdict, Ops

\* ApplyChargeFromCard.
LEMMA AccountChargeOK ==
  ASSUME AllOK, NEW a \in Accounts, AccountCharge(a)
  PROVE  AllOK' /\ Grows
<1>0. PICK o : o = Head(mailbox[a]).op
  OBVIOUS
<1>k. PICK ok \in BOOLEAN : ok = ChargeAllowed(a, o)
  BY DEF ChargeAllowed
<1>c. PICK c : c = Op[o].card
  OBVIOUS
<1>m. PICK m : m = [type |-> "AccountChargeReply", op |-> o, ok |-> ok]
  OBVIOUS
<1>1. /\ mailbox[a] # <<>> /\ Head(mailbox[a]).type = "ApplyCharge"
      /\ account' = IF ok THEN [account EXCEPT ![a].consumed = account[a].consumed + Op[o].amount]
                          ELSE account
      /\ outcome' = [outcome EXCEPT ![o] = Verdict(ok)] /\ Deliver(a, To(c, m))
      /\ UNCHANGED <<sent, events, routerVars, card, results, known>>
  BY <1>0, <1>k, <1>c, <1>m DEF AccountCharge, HasMail
<1>2. Grows
  BY <1>1, SameGrows DEF routerVars
<1>3. /\ a \in Actors /\ a # Router /\ account[a].limit \in Limits /\ account[a].consumed \in Nat
      /\ account[a].pending \in [op : Nat, remaining : Nat, spent : Spendings, billing : BOOLEAN]
      /\ account[a].pending.billing => HasKind("Bill")
  BY AccountType
<1>4. o \in Executed /\ ChargeOf(o, c) /\ Owner[c] = a
  BY <1>0, <1>1, <1>3, <1>c, HeadLemma DEF Good, AccountMail
<1>5. o \in Ops /\ c \in Cards /\ Op[o].amount \in Nat /\ o \in Nat
  BY <1>4, <1>c, OperationType DEF ChargeOf, OfCard, AllOK
<1>6. AccountsOK'
  <2>1. CASE ok
    <3>1. account' = [account EXCEPT ![a] = [limit |-> account[a].limit,
             consumed |-> account[a].consumed + Op[o].amount, pending |-> account[a].pending]]
      BY <1>1, <2>1, AccountExcept
    <3>2. PICK n \in Nat : n = account[a].consumed + Op[o].amount
      BY <1>3, <1>5
    <3>3. account' = [account EXCEPT ![a] = [limit |-> account[a].limit, consumed |-> n,
                                             pending |-> account[a].pending]]
      BY <3>1, <3>2
    <3> QED
      BY <1>1, <1>3, <3>3, AccountsStep
  <2>2. CASE ~ok
    BY <1>1, <1>2, <2>2, FrameLemma
  <2> QED
    BY <2>1, <2>2
<1>7. RouterOK' /\ EventsOK' /\ CardsOK'
  BY <1>1, <1>2, FrameLemma
<1>8. HistoryOK'
  BY <1>1, OutcomeStep
<1>9. MailboxOK'
  <2>1. c \in Actors /\ c # Router /\ c \notin Accounts /\ m \in Letter(c)
    BY <1>5, <1>m, ActorsApart, MakeMessages
  <2>2. Good(c, m)
    BY <1>4, <1>m, <2>1 DEF Good, CardMail
  <2>3. Good(c, m)'
    BY <1>2, <2>1, <2>2, GrowsLemma
  <2> QED
    BY <1>1, <1>2, <1>3, <2>1, <2>3, MailStepOne
<1> QED
  BY <1>1, <1>2, <1>6, <1>7, <1>8, <1>9 DEF AllOK

\* ApplyAccountLimit.
LEMMA AccountLimitOK ==
  ASSUME AllOK, NEW a \in Accounts, AccountLimit(a)
  PROVE  AllOK' /\ Grows
<1>0. PICK o : o = Head(mailbox[a]).op
  OBVIOUS
<1>k. PICK ok \in BOOLEAN : ok = Within(account[a].consumed, Op[o].limit)
  BY DEF Within
<1>m. PICK m : m = Completed(o, ok)
  OBVIOUS
<1>1. /\ mailbox[a] # <<>> /\ Head(mailbox[a]).type = "ApplyAccountLimit"
      /\ account' = IF ok THEN [account EXCEPT ![a].limit = Op[o].limit] ELSE account
      /\ outcome' = [outcome EXCEPT ![o] = Verdict(ok)] /\ Deliver(a, To(Router, m))
      /\ UNCHANGED <<sent, events, routerVars, card, results, known>>
  BY <1>0, <1>k, <1>m DEF AccountLimit, HasMail
<1>2. Grows
  BY <1>1, SameGrows DEF routerVars
<1>3. /\ a \in Actors /\ a # Router /\ account[a].limit \in Limits /\ account[a].consumed \in Nat
      /\ account[a].pending \in [op : Nat, remaining : Nat, spent : Spendings, billing : BOOLEAN]
      /\ account[a].pending.billing => HasKind("Bill")
  BY AccountType
<1>4. o \in Executed /\ Op[o].kind = "LimitAccount"
  BY <1>0, <1>1, <1>3, HeadLemma DEF Good, AccountMail
<1>5. o \in Ops /\ Op[o].limit \in Limits /\ o \in Nat
  <2>1. o \in Ops
    BY <1>2, <1>4, GrowsLemma
  <2> QED
    BY <1>4, <2>1, OperationType DEF AllOK
<1>6. AccountsOK'
  <2>1. CASE ok
    <3>1. account' = [account EXCEPT ![a] = [limit |-> Op[o].limit,
             consumed |-> account[a].consumed, pending |-> account[a].pending]]
      <4>1. account' = [account EXCEPT ![a].limit = Op[o].limit]
        BY <1>1, <2>1
      <4> QED
        BY <4>1, AccountExcept
    <3> QED
      BY <1>1, <1>3, <1>5, <3>1, AccountsStep
  <2>2. CASE ~ok
    BY <1>1, <1>2, <2>2, FrameLemma
  <2> QED
    BY <2>1, <2>2
<1>7. RouterOK' /\ EventsOK' /\ CardsOK'
  BY <1>1, <1>2, FrameLemma
<1>8. HistoryOK'
  BY <1>1, OutcomeStep
<1>9. MailboxOK'
  <2>1. Router \in Actors /\ m \in Letter(Router) /\ m.type = "OperationCompleted" /\ m.op = o
    BY <1>5, <1>m, ActorsApart, MakeMessages DEF Completed
  <2>2. Good(Router, m)
    BY <1>4, <2>1 DEF Good, RouterMail
  <2>3. Good(Router, m)'
    BY <1>2, <2>1, <2>2, GrowsLemma
  <2> QED
    BY <1>1, <1>2, <1>3, <2>1, <2>3, MailStepOne
<1> QED
  BY <1>1, <1>2, <1>6, <1>7, <1>8, <1>9 DEF AllOK

\* The answer to a query.
LEMMA QueryDoneGood ==
  ASSUME AllOK, Grows, NEW o \in Executed, IsQuery(o), NEW s \in Spendings, NEW n \in Nat
  PROVE  QueryDone(o, s, n) \in Letter(Router) /\ Good(Router, QueryDone(o, s, n))'
<1>1. o \in Nat
  BY GrowsLemma DEF Ops
<1>2. PICK m : m = QueryDone(o, s, n)
  OBVIOUS
<1>3. m \in Letter(Router) /\ m.op = o /\ m.type = "AccountQueryCompleted" /\ Router \in Actors
  BY <1>1, <1>2, ActorsApart, MakeMessages DEF QueryDone
<1>4. Good(Router, m)
  BY <1>3 DEF Good, RouterMail
<1>5. Good(Router, m)'
  BY <1>3, <1>4, GrowsLemma
<1> QED
  BY <1>2, <1>3, <1>5

\* StartAccountQuery and StartAccountBill.
LEMMA AccountStartOK ==
  ASSUME AllOK, NEW a \in Accounts, AccountStart(a)
  PROVE  AllOK' /\ Grows
<1>0. PICK m : m = Head(mailbox[a])
  OBVIOUS
<1>b. PICK billing \in BOOLEAN : billing = (Op[m.op].kind = "Bill")
  OBVIOUS
<1>1. /\ mailbox[a] # <<>> /\ m.type = "Start"
      /\ UNCHANGED <<sent, events, routerVars, card, history>>
  BY <1>0 DEF AccountStart, HasMail
<1>2. Grows
  BY <1>1, SameGrows DEF routerVars
<1>3. /\ a \in Actors /\ a # Router /\ account[a].limit \in Limits /\ account[a].consumed \in Nat
      /\ account[a].pending \in [op : Nat, remaining : Nat, spent : Spendings, billing : BOOLEAN]
      /\ (account[a].pending.billing => HasKind("Bill")) /\ Letter(a) = AccountMsg
  BY AccountType
<1>4. m \in AccountMsg /\ m.op \in Executed /\ IsQuery(m.op) /\ Router \in Actors
  BY <1>0, <1>1, <1>3, HeadLemma, ActorsApart DEF Good, AccountMail
<1>5. m.op \in Ops /\ m.op \in Nat /\ m.num_cards \in Nat /\ (billing => HasKind("Bill"))
  BY <1>1, <1>2, <1>4, <1>b, GrowsLemma, AccountFields DEF HasKind
<1>6. RouterOK' /\ EventsOK' /\ CardsOK' /\ HistoryOK'
  BY <1>1, <1>2, FrameLemma DEF history
<1>7. CASE /\ account' = IF billing THEN [account EXCEPT ![a].consumed = 0] ELSE account
           /\ Deliver(a, To(Router, QueryDone(m.op, <<>>, account[a].consumed)))
  <2>1. AccountsOK'
    <3>1. CASE billing
      <4>1. account' = [account EXCEPT ![a] = [limit |-> account[a].limit,
               consumed |-> 0, pending |-> account[a].pending]]
        BY <1>7, <3>1, AccountExcept
      <4> QED
        BY <1>1, <1>3, <4>1, AccountsStep
    <3>2. CASE ~billing
      BY <1>1, <1>2, <1>7, <3>2, FrameLemma
    <3> QED
      BY <3>1, <3>2
  <2>2. PICK n \in Nat : n = account[a].consumed
    BY <1>3
  <2>3. PICK q : q = QueryDone(m.op, <<>>, n)
    OBVIOUS
  <2>4. <<>> \in Spendings
    BY DEF Spendings
  <2>5. q \in Letter(Router) /\ Good(Router, q)'
    BY <1>2, <1>4, <2>3, <2>4, QueryDoneGood
  <2>6. MailboxOK'
    BY <1>1, <1>2, <1>3, <1>4, <1>7, <2>2, <2>3, <2>5, MailStepOne
  <2> QED
    BY <1>1, <1>2, <1>6, <2>1, <2>6 DEF AllOK
<1>8. CASE /\ account' = [account EXCEPT ![a].pending =
                [op |-> m.op, remaining |-> m.num_cards, spent |-> <<>>, billing |-> billing]]
           /\ Deliver(a, Nothing)
  <2>1. PICK p : p = [op |-> m.op, remaining |-> m.num_cards, spent |-> <<>>, billing |-> billing]
    OBVIOUS
  <2>2. p \in [op : Nat, remaining : Nat, spent : Spendings, billing : BOOLEAN] /\ p.billing = billing
    BY <1>5, <2>1 DEF Spendings
  <2>3. account' = [account EXCEPT ![a] = [limit |-> account[a].limit,
           consumed |-> account[a].consumed, pending |-> p]]
    BY <1>8, <2>1, AccountExcept
  <2>4. AccountsOK'
    BY <1>1, <1>3, <1>5, <2>2, <2>3, AccountsStep
  <2>5. MailboxOK'
    BY <1>1, <1>2, <1>3, <1>8, MailStepNone
  <2> QED
    BY <1>1, <1>2, <1>6, <2>4, <2>5 DEF AllOK
<1> QED
  BY <1>0, <1>7, <1>8, <1>b DEF AccountStart

\* The total of a sequence of fragments is a number.
LEMMA TotalType ==
  ASSUME NEW s \in Spendings
  PROVE  Total(s) \in Nat
<1>0. PICK T : T = [card : Cards, consumed : Nat]
  OBVIOUS
<1>1. s \in Seq(T)
  BY <1>0 DEF Spendings
<1>2. DOMAIN s = 1..Len(s) /\ Len(s) \in Nat /\ \A i \in DOMAIN s : s[i].consumed \in Nat
  <2>1. DOMAIN s = 1..Len(s) /\ Len(s) \in Nat /\ \A i \in 1..Len(s) : s[i] \in T
    BY <1>1, SeqLemma
  <2>2. \A e \in T : e.consumed \in Nat
    BY <1>0
  <2> QED
    BY <2>1, <2>2
<1>3. IsFiniteSet(DOMAIN s)
  BY <1>2, FS_Interval
<1>4. [i \in DOMAIN s |-> s[i].consumed] \in [DOMAIN s -> Nat]
  BY <1>2
<1> QED
  BY <1>3, <1>4, SumType DEF Total

\* CardQueryReply.
LEMMA AccountQueryReplyOK ==
  ASSUME AllOK, NEW a \in Accounts, AccountQueryReply(a)
  PROVE  AllOK' /\ Grows
<1>0. PICK m, p : m = Head(mailbox[a]) /\ p = account[a].pending
  OBVIOUS
<1>s. PICK spent : spent = Append(p.spent, [card |-> m.card, consumed |-> m.consumed])
  OBVIOUS
<1>1. /\ mailbox[a] # <<>> /\ m.type = "CardQueryReply"
      /\ UNCHANGED <<sent, events, routerVars, card, history>>
  BY <1>0 DEF AccountQueryReply, HasMail
<1>2. Grows /\ Router \in Actors /\ Letter(Router) = RouterMsg
  BY <1>1, SameGrows, ActorsApart DEF routerVars
<1>3. /\ a \in Actors /\ a # Router /\ account[a].limit \in Limits /\ account[a].consumed \in Nat
      /\ p \in [op : Nat, remaining : Nat, spent : Spendings, billing : BOOLEAN]
      /\ (p.billing => HasKind("Bill")) /\ Letter(a) = AccountMsg
  BY <1>0, AccountType
<1>4. m \in AccountMsg /\ m.op \in Executed /\ IsQuery(m.op)
  <2>1. m \in Letter(a) /\ Good(a, m)
    BY <1>0, <1>1, <1>3, HeadLemma
  <2>2. AccountMail(a, m)
    BY <1>3, <2>1 DEF Good
  <2>3. m.op \in Executed /\ IsQuery(m.op)
    BY <1>1, <2>2 DEF AccountMail
  <2>4. m \in AccountMsg
    BY <1>3, <2>1
  <2> QED
    BY <2>3, <2>4
<1>5. spent \in Spendings
  <2>1. [card |-> m.card, consumed |-> m.consumed] \in [card : Cards, consumed : Nat]
    BY <1>1, <1>4, AccountFields
  <2>2. p.spent \in Seq([card : Cards, consumed : Nat])
    BY <1>3 DEF Spendings
  <2> QED
    BY <1>s, <2>1, <2>2, AppendLemma DEF Spendings
<1>6. RouterOK' /\ EventsOK' /\ CardsOK' /\ HistoryOK'
  BY <1>1, <1>2, FrameLemma DEF history
<1>7. CASE Deliver(a, To(Router, Debug)) /\ UNCHANGED account
  <2>1. Debug \in Letter(Router) /\ Good(Router, Debug)'
    BY <1>2, MakeMessages DEF Good, RouterMail, Debug
  <2>2. AccountsOK' /\ MailboxOK'
    BY <1>1, <1>2, <1>3, <1>7, <2>1, FrameLemma, MailStepOne
  <2> QED
    BY <1>1, <1>2, <1>6, <2>2 DEF AllOK
<1>8. CASE /\ p.remaining > 1 /\ Deliver(a, Nothing)
           /\ account' = [account EXCEPT ![a].pending =
                [op |-> p.op, remaining |-> p.remaining - 1, spent |-> spent, billing |-> p.billing]]
  <2>1. PICK q : q = [op |-> p.op, remaining |-> p.remaining - 1, spent |-> spent, billing |-> p.billing]
    OBVIOUS
  <2>2. q \in [op : Nat, remaining : Nat, spent : Spendings, billing : BOOLEAN] /\ q.billing = p.billing
    <3>1. p.remaining - 1 \in Nat /\ p.op \in Nat /\ p.billing \in BOOLEAN
      BY <1>3, <1>8
    <3> QED
      BY <1>5, <2>1, <3>1
  <2>3. account' = [account EXCEPT ![a] = [limit |-> account[a].limit,
           consumed |-> account[a].consumed, pending |-> q]]
    BY <1>8, <2>1, AccountExcept
  <2>4. AccountsOK'
    BY <1>1, <1>3, <2>2, <2>3, AccountsStep
  <2>5. MailboxOK'
    BY <1>1, <1>2, <1>3, <1>8, MailStepNone
  <2> QED
    BY <1>1, <1>2, <1>6, <2>4, <2>5 DEF AllOK
<1>9. CASE /\ account' = [account EXCEPT ![a] = [limit |-> account[a].limit,
                consumed |-> IF p.billing THEN 0 ELSE account[a].consumed, pending |-> NoQuery]]
           /\ Deliver(a, To(Router, QueryDone(m.op, spent, Total(spent))))
  <2>1. PICK n \in Nat : n = IF p.billing THEN 0 ELSE account[a].consumed
    BY <1>3
  <2>2. ~NoQuery.billing
    BY DEF NoQuery
  <2>3. account' = [account EXCEPT ![a] = [limit |-> account[a].limit, consumed |-> n,
                                           pending |-> NoQuery]]
    BY <1>9, <2>1
  <2>4. AccountsOK'
    BY <1>1, <1>3, <2>2, <2>3, AccountsStep, NoQueryType
  <2>5. PICK q : q = QueryDone(m.op, spent, Total(spent))
    OBVIOUS
  <2>6. q \in Letter(Router) /\ Good(Router, q)'
    BY <1>2, <1>4, <1>5, <2>5, QueryDoneGood, TotalType
  <2>7. MailboxOK'
    BY <1>1, <1>2, <1>3, <1>9, <2>5, <2>6, MailStepOne
  <2> QED
    BY <1>1, <1>2, <1>6, <2>4, <2>7 DEF AllOK
<1> QED
  BY <1>0, <1>s, <1>7, <1>8, <1>9 DEF AccountQueryReply

\* GetSnapshot of an account.
LEMMA AccountSnapshotOK ==
  ASSUME AllOK, NEW a \in Accounts, AccountSnapshot(a)
  PROVE  AllOK' /\ Grows
<1>0. PICK f : f = [account |-> a, limit |-> account[a].limit, consumed |-> account[a].consumed]
  OBVIOUS
<1>m. PICK m : m = [type |-> "AccountSnapshotCollected", fragment |-> f]
  OBVIOUS
<1>1. /\ mailbox[a] # <<>> /\ Deliver(a, To(Router, m))
      /\ UNCHANGED <<sent, events, routerVars, account, card, history>>
  BY <1>0, <1>m DEF AccountSnapshot, HasMail
<1>2. Grows /\ Router \in Actors /\ Letter(Router) = RouterMsg
  BY <1>1, SameGrows, ActorsApart DEF routerVars
<1>3. a \in Actors /\ f \in AccountSnapshots
  BY <1>0, AccountType DEF AccountSnapshots
<1>4. m \in Letter(Router) /\ Good(Router, m)'
  BY <1>2, <1>3, <1>m, MakeMessages DEF Good, RouterMail
<1>5. RouterOK' /\ EventsOK' /\ AccountsOK' /\ CardsOK' /\ HistoryOK'
  BY <1>1, <1>2, FrameLemma DEF history
<1>6. MailboxOK'
  BY <1>1, <1>2, <1>3, <1>4, MailStepOne
<1> QED
  BY <1>1, <1>2, <1>5, <1>6 DEF AllOK

\* ReplaceState of an account.
LEMMA AccountReplaceOK ==
  ASSUME AllOK, NEW a \in Accounts, AccountReplace(a)
  PROVE  AllOK' /\ Grows
<1>0. PICK m : m = Head(mailbox[a])
  OBVIOUS
<1>1. /\ mailbox[a] # <<>> /\ m.type = "ReplaceState" /\ Deliver(a, Nothing)
      /\ account' = [account EXCEPT ![a] = [limit |-> m.limit, consumed |-> m.consumed,
                                            pending |-> account[a].pending]]
      /\ UNCHANGED <<sent, events, routerVars, card, history>>
  BY <1>0 DEF AccountReplace, HasMail
<1>2. Grows
  BY <1>1, SameGrows DEF routerVars
<1>3. /\ a \in Actors /\ Letter(a) = AccountMsg
      /\ account[a].pending \in [op : Nat, remaining : Nat, spent : Spendings, billing : BOOLEAN]
      /\ account[a].pending.billing => HasKind("Bill")
  BY AccountType
<1>4. m \in AccountMsg
  BY <1>0, <1>1, <1>3, HeadLemma
<1>5. m.limit \in Limits /\ m.consumed \in Nat
  BY <1>1, <1>4, AccountFields
<1>6. RouterOK' /\ EventsOK' /\ CardsOK' /\ HistoryOK'
  BY <1>1, <1>2, FrameLemma DEF history
<1>7. AccountsOK' /\ MailboxOK'
  BY <1>1, <1>2, <1>3, <1>5, AccountsStep, MailStepNone
<1> QED
  BY <1>1, <1>2, <1>6, <1>7 DEF AllOK

\* The state of card c.
LEMMA CardType ==
  ASSUME AllOK, NEW c \in Cards
  PROVE  /\ card[c].limit \in Limits /\ card[c].consumed \in Nat /\ card[c].tasks \in Seq(Nat)
         /\ \A o \in Range(card[c].tasks) : o \in Executed /\ OfCard(o, c)
         /\ c \in Actors /\ c # Router /\ c \notin Accounts /\ Letter(c) = CardMsg
         /\ Owner[c] \in Accounts /\ Owner[c] \in Actors /\ Letter(Owner[c]) = AccountMsg
         /\ Owner[c] # Router /\ Router \in Actors /\ Letter(Router) = RouterMsg
BY ActorsApart DEF AllOK, CardsOK, TasksKnown

\* A card with another consumption, as a record.
LEMMA CardExcept ==
  ASSUME AllOK, NEW c \in Cards, NEW n
  PROVE  [card EXCEPT ![c].consumed = n] =
           [card EXCEPT ![c] = [limit |-> card[c].limit, consumed |-> n, tasks |-> card[c].tasks]]
<1>1. PICK r : r = card[c]
  OBVIOUS
<1>2. r = [limit |-> r.limit, consumed |-> r.consumed, tasks |-> r.tasks]
  BY <1>1 DEF AllOK, CardsOK
<1>3. PICK l0, n0, t0 : r = [limit |-> l0, consumed |-> n0, tasks |-> t0]
  BY <1>2
<1>4. [r EXCEPT !.consumed = n] = [limit |-> r.limit, consumed |-> n, tasks |-> r.tasks]
  BY <1>3
<1> QED
  BY <1>1, <1>4

\* A step that changes card c.
LEMMA CardsStep ==
  ASSUME AllOK, sent' = sent, operations' = operations, NEW c \in Cards,
         NEW l \in Limits, NEW n \in Nat, NEW t \in Seq(Nat),
         \A o \in Range(t) : o \in Executed /\ OfCard(o, c),
         card' = [card EXCEPT ![c] = [limit |-> l, consumed |-> n, tasks |-> t]]
  PROVE  CardsOK'
<1>1. /\ card \in [Cards -> [limit : Limits, consumed : Nat, tasks : Seq(Nat)]]
      /\ \A d \in Cards : \A o \in Range(card[d].tasks) : o \in Executed /\ OfCard(o, d)
  BY DEF AllOK, CardsOK, TasksKnown
<1>2. card' \in [Cards -> [limit : Limits, consumed : Nat, tasks : Seq(Nat)]]
  BY <1>1
<1>3. \A d \in Cards : card'[d].tasks = IF d = c THEN t ELSE card[d].tasks
  BY <1>1
<1>4. Executed' = Executed /\ \A o, d : OfCard(o, d)' <=> OfCard(o, d)
  BY DEF Executed, OfCard, Op, Ops
<1>5. ASSUME NEW d \in Cards, NEW o \in Range(card'[d].tasks) PROVE o \in Executed' /\ OfCard(o, d)'
  <2>1. CASE d = c
    BY <1>3, <1>4, <2>1
  <2>2. CASE d # c
    BY <1>1, <1>3, <1>4, <2>2
  <2> QED
    BY <2>1, <2>2
<1>6. TasksKnown'
  BY <1>5 DEF TasksKnown
<1> QED
  BY <1>2, <1>6 DEF CardsOK

\* QueryCardState.
LEMMA CardQueryOK ==
  ASSUME AllOK, NEW c \in Cards, CardQuery(c)
  PROVE  AllOK' /\ Grows
<1>0. PICK o : o = Head(mailbox[c]).op
  OBVIOUS
<1>m. PICK m : m = [type |-> "CardQueryReply", op |-> o, card |-> c, consumed |-> card[c].consumed]
  OBVIOUS
<1>1. /\ mailbox[c] # <<>> /\ Head(mailbox[c]).type = "QueryCardState"
      /\ Deliver(c, To(Owner[c], m))
      /\ card' = IF Op[o].kind = "Bill" THEN [card EXCEPT ![c].consumed = 0] ELSE card
      /\ UNCHANGED <<sent, events, routerVars, account, history>>
  BY <1>0, <1>m DEF CardQuery, HasMail
<1>2. Grows /\ operations' = operations
  BY <1>1, SameGrows DEF routerVars
<1>3. /\ card[c].limit \in Limits /\ card[c].consumed \in Nat /\ card[c].tasks \in Seq(Nat)
      /\ \A k \in Range(card[c].tasks) : k \in Executed /\ OfCard(k, c)
      /\ c \in Actors /\ c # Router /\ c \notin Accounts
      /\ Owner[c] \in Accounts /\ Owner[c] \in Actors /\ Letter(Owner[c]) = AccountMsg
      /\ Owner[c] # Router
  BY CardType
<1>4. o \in Executed /\ IsQuery(o)
  <2>1. Good(c, Head(mailbox[c]))
    BY <1>1, <1>3, HeadLemma
  <2>2. CardMail(c, Head(mailbox[c]))
    BY <1>3, <2>1 DEF Good
  <2> QED
    BY <1>0, <1>1, <2>2 DEF CardMail
<1>5. o \in Nat
  BY <1>2, <1>4, GrowsLemma DEF Ops
<1>6. m \in Letter(Owner[c])
  BY <1>3, <1>5, <1>m, MakeMessages
<1>7. Good(Owner[c], m)'
  <2>1. m.type = "CardQueryReply" /\ m.op = o
    BY <1>m
  <2>2. Good(Owner[c], m)
    BY <1>3, <1>4, <2>1 DEF Good, AccountMail
  <2> QED
    BY <1>2, <1>3, <2>2, GrowsLemma
<1>8. MailboxOK'
  BY <1>1, <1>2, <1>3, <1>6, <1>7, MailStepOne
<1>9. CardsOK'
  <2>1. CASE Op[o].kind = "Bill"
    <3>1. card' = [card EXCEPT ![c] = [limit |-> card[c].limit, consumed |-> 0, tasks |-> card[c].tasks]]
      BY <1>1, <2>1, CardExcept
    <3> QED
      BY <1>1, <1>2, <1>3, <3>1, CardsStep
  <2>2. CASE Op[o].kind # "Bill"
    BY <1>1, <1>2, <2>2, FrameLemma
  <2> QED
    BY <2>1, <2>2
<1>10. RouterOK' /\ EventsOK' /\ AccountsOK' /\ HistoryOK'
  BY <1>1, <1>2, FrameLemma DEF history
<1> QED
  BY <1>1, <1>2, <1>8, <1>9, <1>10 DEF AllOK

\* GetSnapshot of a card.
LEMMA CardSnapshotOK ==
  ASSUME AllOK, NEW c \in Cards, CardSnapshot(c)
  PROVE  AllOK' /\ Grows
<1>0. PICK f : f = [card |-> c, limit |-> card[c].limit, consumed |-> card[c].consumed]
  OBVIOUS
<1>m. PICK m : m = [type |-> "CardSnapshotCollected", fragment |-> f]
  OBVIOUS
<1>1. /\ mailbox[c] # <<>> /\ Deliver(c, To(Router, m))
      /\ UNCHANGED <<sent, events, routerVars, account, card, history>>
  BY <1>0, <1>m DEF CardSnapshot, HasMail
<1>2. Grows
  BY <1>1, SameGrows DEF routerVars
<1>3. c \in Actors /\ Router \in Actors /\ Letter(Router) = RouterMsg /\ f \in CardSnapshots
  BY <1>0, CardType DEF CardSnapshots
<1>4. m \in Letter(Router) /\ Good(Router, m)'
  BY <1>3, <1>m, MakeMessages DEF Good, RouterMail
<1>5. RouterOK' /\ EventsOK' /\ AccountsOK' /\ CardsOK' /\ HistoryOK'
  BY <1>1, <1>2, FrameLemma DEF history
<1>6. MailboxOK'
  BY <1>1, <1>2, <1>3, <1>4, MailStepOne
<1> QED
  BY <1>1, <1>2, <1>5, <1>6 DEF AllOK

\* ReplaceState of a card.
LEMMA CardReplaceOK ==
  ASSUME AllOK, NEW c \in Cards, CardReplace(c)
  PROVE  AllOK' /\ Grows
<1>0. PICK m : m = Head(mailbox[c])
  OBVIOUS
<1>1. /\ mailbox[c] # <<>> /\ m.type = "ReplaceState" /\ Deliver(c, Nothing)
      /\ card' = [card EXCEPT ![c] = [limit |-> m.limit, consumed |-> m.consumed, tasks |-> <<>>]]
      /\ UNCHANGED <<sent, events, routerVars, account, history>>
  BY <1>0 DEF CardReplace, HasMail
<1>2. Grows /\ operations' = operations
  BY <1>1, SameGrows DEF routerVars
<1>3. c \in Actors /\ Letter(c) = CardMsg
  BY CardType
<1>4. m \in CardMsg
  BY <1>0, <1>1, <1>3, HeadLemma
<1>5. m.limit \in Limits /\ m.consumed \in Nat
  BY <1>1, <1>4, CardFields
<1>6. RouterOK' /\ EventsOK' /\ AccountsOK' /\ HistoryOK'
  BY <1>1, <1>2, FrameLemma DEF history
<1>7. <<>> \in Seq(Nat) /\ \A o \in Range(<<>>) : o \in Executed /\ OfCard(o, c)
  BY FewLemma
<1>8. CardsOK'
  BY <1>1, <1>2, <1>5, <1>7, CardsStep
<1>9. MailboxOK'
  BY <1>1, <1>2, <1>3, MailStepNone
<1> QED
  BY <1>1, <1>2, <1>6, <1>8, <1>9 DEF AllOK

\* Card c becomes s: the first n of its tasks pre are done, the others remain; the
\* first of these is put to the account unless it is there already.
Shape(c, s, pre, n) ==
  /\ s \in CardRun /\ pre \in Seq(Nat) /\ n \in 0..Len(pre)
  /\ \A o \in Range(pre) : o \in Executed /\ OfCard(o, c)
  /\ Len(s.done) = n /\ \A j \in 1..n : s.done[j].op = pre[j]
  /\ Len(s.tasks) = Len(pre) - n /\ \A j \in 1..(Len(pre) - n) : s.tasks[j] = pre[n + j]
  /\ \/ /\ s.asks = <<>>
        /\ \/ s.tasks = <<>>
           \/ n = 0 /\ card[c].tasks # <<>> /\ Head(s.tasks) = Head(card[c].tasks)
     \/ /\ s.tasks # <<>> /\ s.asks = <<Head(s.tasks)>> /\ Admitted(s, Head(s.tasks))
        /\ card[c].tasks = <<>> \/ n > 0

\* What Offer and OfferAll leave of a card, as a Shape.
LEMMA TaskShape ==
  ASSUME AllOK, NEW c \in Cards, NEW o, o \in Executed, OfCard(o, c),
         NEW s, s = Offer(Run(c, card[c].tasks), o)
  PROVE  /\ \E n \in Nat : Shape(c, s, Append(card[c].tasks, o), n)
         /\ s.consumed = card[c].consumed
         /\ Within(card[c].consumed, card[c].limit) => Within(s.consumed, s.limit)
         /\ card[c].tasks # <<>> => s.limit = card[c].limit
<1> DEFINE r == Run(c, card[c].tasks)
<1>1. /\ card[c].limit \in Limits /\ card[c].consumed \in Nat /\ card[c].tasks \in Seq(Nat)
      /\ \A k \in Range(card[c].tasks) : k \in Executed /\ OfCard(k, c)
  BY CardType
<1>2. o \in Ops /\ o \in Nat /\ Op[o].kind \in {"Charge", "LimitCard"} /\ sent \in Seq(Operation)
  BY DEF OfCard, Ops, AllOK
<1>p. PICK pre : pre = Append(card[c].tasks, o)
  OBVIOUS
<1>3. /\ pre \in Seq(Nat) /\ Len(card[c].tasks) \in Nat /\ Len(pre) = Len(card[c].tasks) + 1
      /\ pre[Len(card[c].tasks) + 1] = o
      /\ \A j \in 1..Len(card[c].tasks) : pre[j] = card[c].tasks[j]
      /\ Range(pre) = Range(card[c].tasks) \cup {o}
  BY <1>1, <1>2, <1>p, AppendLemma
<1>4. \A k \in Range(pre) : k \in Executed /\ OfCard(k, c)
  BY <1>1, <1>3
<1>5. r = [limit |-> card[c].limit, consumed |-> card[c].consumed, tasks |-> card[c].tasks,
           asks |-> <<>>, done |-> <<>>]
  BY DEF Run
<1>6. CASE card[c].tasks # <<>>
  <2>1. s = [limit |-> card[c].limit, consumed |-> card[c].consumed, tasks |-> pre,
             asks |-> <<>>, done |-> <<>>]
    <3>1. r.tasks = card[c].tasks
      BY <1>5
    <3>2. s = [r EXCEPT !.tasks = Append(r.tasks, o)]
      BY <1>6, <3>1 DEF Offer
    <3> HIDE DEF r
    <3> QED
      BY <1>5, <1>p, <3>1, <3>2
  <2>2. s \in CardRun
    BY <1>1, <1>3, <2>1 DEF CardRun
  <2>3. Head(pre) = Head(card[c].tasks)
    BY <1>1, <1>3, <1>6
  <2>4. Len(pre) \in Nat /\ Len(pre) - 0 = Len(pre) /\ \A j \in 1..Len(pre) : 0 + j = j
    BY <1>3
  <2>5. /\ 0 \in 0..Len(pre) /\ 1..0 = {} /\ Len(<<>>) = 0
        /\ \A j \in 1..(Len(pre) - 0) : pre[j] = pre[0 + j]
    BY <2>4
  <2>6. Shape(c, s, pre, 0)
    BY <1>3, <1>4, <1>6, <2>1, <2>2, <2>3, <2>4, <2>5 DEF Shape
  <2> QED
    BY <1>6, <1>p, <2>1, <2>6
<1>7. CASE card[c].tasks = <<>>
  <2>1. r \in CardRun /\ r.done = <<>>
    BY <1>1, <1>5 DEF CardRun
  <2>2. Len(pre) = 1 /\ pre[1] = o
    BY <1>3, <1>7
  <2>3. r.tasks = <<>> /\ r.asks = <<>> /\ r.consumed = card[c].consumed /\ r.limit = card[c].limit
    BY <1>5, <1>7
  <2> HIDE DEF r
  <2>4. Ran(r, pre, 0, 0, r)
    <3>1. 1..0 = {} /\ 0 - 0 = 0 /\ ~(0 < 0) /\ Len(<<>>) = 0 /\ 0 + 0 = 0
      OBVIOUS
    <3> QED
      BY <2>1, <2>3, <3>1 DEF Ran, RanDone, RanTasks
  <2>5. Runs(r, pre, 0, r)
    <3>1. 0 \in 0..0
      OBVIOUS
    <3> QED
      BY <2>1, <2>4, <3>1 DEF Runs
  <2>6. Runs(r, pre, 1, s)
    <3>1. 0 + 1 = 1 /\ 0 < 1 /\ 0 \in Nat
      OBVIOUS
    <3>2. s = Offer(r, pre[0 + 1])
      BY <2>2, <3>1 DEF r
    <3>3. Runs(r, pre, 0 + 1, Offer(r, pre[0 + 1]))
      BY <1>2, <1>3, <2>1, <2>2, <2>5, <3>1, OfferLemma
    <3> QED
      BY <3>1, <3>2, <3>3
  <2>7. PICK k \in 0..1 : Ran(r, pre, 1, k, s)
    BY <2>6 DEF Runs
  <2>8. s \in CardRun /\ s.tasks \in Seq(Nat)
    BY <2>6 DEF Runs, CardRun
  <2>9. Len(s.done) = k /\ (\A j \in 1..k : s.done[j].op = pre[j]) /\ k \in Nat
    <3>1. Len(<<>>) = 0 /\ 0 + k = k /\ \A j \in 1..k : 0 + j = j
      OBVIOUS
    <3>2. Len(s.done) = 0 + k /\ \A j \in 1..k : s.done[0 + j].op = pre[j]
      BY <2>1, <2>7, <3>1 DEF Ran, RanDone, RanTasks
    <3> QED
      BY <3>1, <3>2
  <2>10. /\ Len(s.tasks) = 1 - k /\ \A j \in 1..(1 - k) : s.tasks[j] = pre[k + j]
         /\ k = 1 => s.asks = <<>>
         /\ k < 1 => s.asks = <<pre[k + 1]>> /\ Admitted(s, pre[k + 1])
    BY <2>7 DEF Ran, RanDone, RanTasks
  <2>11. /\ k = 1 => s.tasks = <<>> /\ s.asks = <<>>
         /\ k < 1 => /\ s.tasks # <<>> /\ s.asks = <<Head(s.tasks)>> /\ Admitted(s, Head(s.tasks))
    <3>1. CASE k = 1
      <4>1. Len(s.tasks) = 0
        BY <2>10, <3>1
      <4> QED
        BY <2>8, <2>10, <3>1, <4>1, SeqLemma
    <3>2. CASE k = 0
      <4>1. Len(s.tasks) = 1 /\ s.tasks[1] = pre[0 + 1] /\ 0 < 1
        BY <2>10, <3>2
      <4>2. s.tasks # <<>> /\ Head(s.tasks) = s.tasks[1]
        BY <2>8, <4>1, SeqLemma
      <4> QED
        BY <2>10, <3>2, <4>1, <4>2
    <3> QED
      BY <3>1, <3>2
  <2>12. k \in 0..Len(pre)
    BY <2>2
  <2>13. k = 1 \/ k < 1
    OBVIOUS
  <2>14. Shape(c, s, pre, k)
    BY <1>3, <1>4, <1>7, <2>2, <2>8, <2>9, <2>10, <2>11, <2>12, <2>13 DEF Shape
  <2>15. s.consumed = r.consumed /\ (Within(r.consumed, r.limit) => Within(s.consumed, s.limit))
    BY <2>6 DEF Runs
  <2> QED
    BY <1>7, <1>p, <2>3, <2>9, <2>14, <2>15
<1> QED
  BY <1>6, <1>7

\* What card c becomes at the reply m to its current charge.
AfterReply(c, m) == OfferAll([Run(c, <<>>) EXCEPT !.consumed = ConsumedAfter(c, m),
                                !.done = <<[op |-> m.op, ok |-> m.ok]>>], Waiting(c))

\* The same for the reply to the current charge, which is done.
LEMMA ReplyShape ==
  ASSUME AllOK, NEW c \in Cards, card[c].tasks # <<>>, NEW m, m.ok \in BOOLEAN,
         m.op = Head(card[c].tasks), ConsumedAfter(c, m) \in Nat,
         NEW s, s = AfterReply(c, m)
  PROVE  /\ \E n \in Nat \ {0} : Shape(c, s, card[c].tasks, n)
         /\ s.consumed = ConsumedAfter(c, m)
         /\ Within(ConsumedAfter(c, m), card[c].limit) => Within(s.consumed, s.limit)
<1>1. /\ card[c].limit \in Limits /\ card[c].consumed \in Nat /\ card[c].tasks \in Seq(Nat)
      /\ \A k \in Range(card[c].tasks) : k \in Executed /\ OfCard(k, c)
  BY CardType
<1>p. PICK pre, w, e : pre = card[c].tasks /\ w = Tail(pre) /\ e = [op |-> m.op, ok |-> m.ok]
  OBVIOUS
<1>r. PICK r : r = [limit |-> card[c].limit, consumed |-> ConsumedAfter(c, m), tasks |-> <<>>,
                    asks |-> <<>>, done |-> <<e>>]
  OBVIOUS
<1>2. /\ pre \in Seq(Nat) /\ Len(pre) \in Nat \ {0} /\ w \in Seq(Nat) /\ Len(w) = Len(pre) - 1
      /\ Len(w) \in Nat /\ \A i \in 1..Len(w) : w[i] = pre[i + 1]
      /\ Head(pre) = pre[1] /\ DOMAIN pre = 1..Len(pre)
  BY <1>1, <1>p
<1>3. e \in [op : Nat, ok : BOOLEAN]
  <2>1. m.op \in Nat
    BY <1>1, SeqLemma
  <2> QED
    BY <1>p, <2>1
<1>4. r \in CardRun
  BY <1>1, <1>3, <1>r DEF CardRun
<1>5. s = OfferAll(r, w)
  <2>1. Waiting(c) = w
    BY <1>p DEF Waiting
  <2>2. PICK q : q = Run(c, <<>>)
    OBVIOUS
  <2>3. q = [limit |-> card[c].limit, consumed |-> card[c].consumed, tasks |-> <<>>,
             asks |-> <<>>, done |-> <<>>]
    BY <2>2 DEF Run
  <2>4. [q EXCEPT !.consumed = ConsumedAfter(c, m), !.done = <<e>>] = r
    <3>1. PICK l, x, f : l = card[c].limit /\ x = ConsumedAfter(c, m) /\ f = <<e>>
      OBVIOUS
    <3>2. [q EXCEPT !.consumed = x] =
            [limit |-> l, consumed |-> x, tasks |-> <<>>, asks |-> <<>>, done |-> <<>>]
      BY <2>3, <3>1
    <3>3. [[limit |-> l, consumed |-> x, tasks |-> <<>>, asks |-> <<>>, done |-> <<>>] EXCEPT
             !.done = f] =
            [limit |-> l, consumed |-> x, tasks |-> <<>>, asks |-> <<>>, done |-> f]
      OBVIOUS
    <3> QED
      BY <1>r, <3>1, <3>2, <3>3
  <2> QED
    BY <1>p, <2>1, <2>2, <2>4 DEF AfterReply
<1>6. \A i \in 1..Len(w) : w[i] \in Ops /\ Op[w[i]].kind \in {"Charge", "LimitCard"}
  <2> SUFFICES ASSUME NEW i \in 1..Len(w)
               PROVE  w[i] \in Ops /\ Op[w[i]].kind \in {"Charge", "LimitCard"}
    OBVIOUS
  <2>1. i + 1 \in DOMAIN pre
    BY <1>2
  <2>2. w[i] \in Range(pre)
    BY <1>2, <2>1 DEF Range
  <2> QED
    BY <1>1, <1>p, <2>2 DEF OfCard
<1>7. Runs(r, w, Len(w), s)
  <2>1. sent \in Seq(Operation) /\ r.tasks = <<>> /\ r.asks = <<>>
    BY <1>r DEF AllOK
  <2> QED
    BY <1>2, <1>4, <1>5, <1>6, <2>1, OfferAllLemma
<1>8. PICK k \in 0..Len(w) : Ran(r, w, Len(w), k, s)
  BY <1>7 DEF Runs
<1>l. PICK lw \in Nat : lw = Len(w) /\ k \in Nat /\ k <= lw /\ Len(pre) = lw + 1
  <2>1. Len(w) \in Nat /\ Len(pre) = Len(w) + 1
    BY <1>2
  <2> QED
    BY <2>1
<1>9. s \in CardRun /\ s.tasks \in Seq(Nat)
  BY <1>7 DEF Runs, CardRun
<1>10. Len(r.done) = 1 /\ r.done[1] = e /\ e.op = pre[1]
  BY <1>p, <1>r, <1>2
<1>11. /\ Len(s.done) = 1 + k /\ s.done[1] = e /\ \A j \in 1..k : s.done[1 + j].op = w[j]
  BY <1>8, <1>10 DEF Ran, RanDone, RanTasks
<1> DEFINE n == k + 1
<1>12. n \in Nat \ {0} /\ n \in 0..Len(pre) /\ Len(s.done) = n
  BY <1>2, <1>11
<1>13. ASSUME NEW j \in 1..n PROVE s.done[j].op = pre[j]
  <2>1. CASE j = 1
    BY <1>10, <1>11, <2>1
  <2>2. CASE j # 1
    <3>1. j - 1 \in 1..k /\ 1 + (j - 1) = j /\ j - 1 \in 1..Len(w) /\ (j - 1) + 1 = j
      BY <1>l, <2>2
    <3>2. s.done[1 + (j - 1)].op = w[j - 1] /\ w[j - 1] = pre[(j - 1) + 1]
      BY <1>2, <1>11, <3>1
    <3> QED
      BY <3>1, <3>2
  <2> QED
    BY <2>1, <2>2
<1>14. /\ Len(s.tasks) = Len(w) - k /\ \A j \in 1..(Len(w) - k) : s.tasks[j] = w[k + j]
       /\ k = Len(w) => s.asks = <<>>
       /\ k < Len(w) => s.asks = <<w[k + 1]>> /\ Admitted(s, w[k + 1])
  BY <1>8 DEF Ran, RanDone, RanTasks
<1>15. Len(s.tasks) = Len(pre) - n
  BY <1>2, <1>14
<1>16. ASSUME NEW j \in 1..(Len(pre) - n) PROVE s.tasks[j] = pre[n + j]
  <2>1. j \in 1..(Len(w) - k) /\ k + j \in 1..Len(w) /\ (k + j) + 1 = n + j
    BY <1>l
  <2>2. s.tasks[j] = w[k + j] /\ w[k + j] = pre[(k + j) + 1]
    BY <1>2, <1>14, <2>1
  <2> QED
    BY <2>1, <2>2
<1>17. ASSUME k = Len(w) PROVE s.tasks = <<>> /\ s.asks = <<>>
  <2>1. s.tasks = <<>> /\ s.asks = <<>>
    <3>1. Len(s.tasks) = 0
      BY <1>2, <1>14, <1>17
    <3> QED
      BY <1>9, <1>14, <1>17, <3>1, SeqLemma
  <2> QED
    BY <2>1
<1>18. ASSUME k < Len(w)
       PROVE  s.tasks # <<>> /\ s.asks = <<Head(s.tasks)>> /\ Admitted(s, Head(s.tasks))
  <2>1. Len(s.tasks) # 0 /\ 1 \in 1..(Len(w) - k)
    BY <1>l, <1>14, <1>18
  <2>2. s.tasks # <<>> /\ Head(s.tasks) = s.tasks[1] /\ s.tasks[1] = w[k + 1]
    BY <1>9, <1>14, <2>1, SeqLemma
  <2> QED
    BY <1>14, <1>18, <2>2
<1>19. k = Len(w) \/ k < Len(w)
  BY <1>2
<1>20. n > 0
  BY <1>2
<1> HIDE DEF n
<1>21. Shape(c, s, pre, n)
  BY <1>1, <1>2, <1>9, <1>12, <1>13, <1>15, <1>16, <1>17, <1>18, <1>19, <1>20, <1>p DEF Shape
<1>22. r.consumed = ConsumedAfter(c, m) /\ r.limit = card[c].limit
  BY <1>r
<1>23. s.consumed = r.consumed /\ (Within(r.consumed, r.limit) => Within(s.consumed, s.limit))
  BY <1>7 DEF Runs
<1> QED
  BY <1>12, <1>21, <1>22, <1>23, <1>p

\* What a card sends when it becomes s.
DoneMail(s) == [i \in 1..Len(s.done) |-> Completed(s.done[i].op, s.done[i].ok)]
AskMail(s)  == [i \in 1..Len(s.asks) |-> [type |-> "ApplyCharge", op |-> s.asks[i]]]
CardSends(c, s) == [y \in {Router, Owner[c]} |-> IF y = Router THEN DoneMail(s) ELSE AskMail(s)]
DoneAre(c, s, pre, n) ==
  /\ DoneMail(s) \in Seq(RouterMsg) /\ Len(DoneMail(s)) = n /\ n \in Nat
  /\ \A i \in 1..n : /\ DoneMail(s)[i].type = "OperationCompleted"
                     /\ DoneMail(s)[i].op = pre[i] /\ pre[i] \in Executed /\ OfCard(pre[i], c)

\* What a card sends: the tasks that are done to the router, in order, and at most
\* one charge, its current task, to the account.
LEMMA ShapeMail ==
  ASSUME AllOK, NEW c \in Cards, NEW s, NEW pre, NEW n, Shape(c, s, pre, n)
  PROVE  /\ DOMAIN CardSends(c, s) = {Router, Owner[c]}
         /\ CardSends(c, s)[Router] = DoneMail(s) /\ CardSends(c, s)[Owner[c]] = AskMail(s)
         /\ DoneAre(c, s, pre, n)
         /\ s.asks = <<>> => AskMail(s) = <<>>
         /\ s.asks # <<>> =>
              /\ s.tasks # <<>> /\ AskMail(s) = <<[type |-> "ApplyCharge", op |-> Head(s.tasks)]>>
              /\ Head(s.tasks) \in Executed /\ ChargeOf(Head(s.tasks), c)
         /\ AskMail(s) \in Seq(AccountMsg)
         /\ \A o \in Range(s.tasks) : o \in Range(pre)
<1>1. /\ s \in CardRun /\ pre \in Seq(Nat) /\ n \in 0..Len(pre)
      /\ \A o \in Range(pre) : o \in Executed /\ OfCard(o, c)
      /\ Len(s.done) = n /\ \A j \in 1..n : s.done[j].op = pre[j]
      /\ Len(s.tasks) = Len(pre) - n /\ \A j \in 1..(Len(pre) - n) : s.tasks[j] = pre[n + j]
      /\ s.asks = <<>> \/ (/\ s.tasks # <<>> /\ s.asks = <<Head(s.tasks)>>
                           /\ Admitted(s, Head(s.tasks)))
  BY SMTT(30) DEF Shape
<1>2. /\ s.done \in Seq([op : Nat, ok : BOOLEAN]) /\ s.tasks \in Seq(Nat)
  BY <1>1 DEF CardRun
<1>l. PICK lp \in Nat : lp = Len(pre) /\ DOMAIN pre = 1..lp /\ n \in Nat /\ n <= lp
  <2>1. Len(pre) \in Nat /\ DOMAIN pre = 1..Len(pre)
    BY <1>1, SeqLemma
  <2>3. n \in 0..Len(pre)
    BY <1>1
  <2>2. n \in Nat /\ n <= Len(pre)
    BY <2>1, <2>3
  <2> QED
    BY <2>1, <2>2
<1>3. \A j \in 1..lp : pre[j] \in Executed /\ OfCard(pre[j], c) /\ pre[j] \in Range(pre)
  <2>1. \A j \in DOMAIN pre : pre[j] \in Range(pre)
    BY DEF Range
  <2> QED
    BY <1>1, <1>l, <2>1
<1>4. \A i \in 1..n : Completed(s.done[i].op, s.done[i].ok) \in RouterMsg
  <2> SUFFICES ASSUME NEW i \in 1..n PROVE Completed(s.done[i].op, s.done[i].ok) \in RouterMsg
    OBVIOUS
  <2>0. PICK T, done : T = [op : Nat, ok : BOOLEAN] /\ done = s.done /\ done \in Seq(T)
    BY <1>2
  <2>3. \A j \in 1..Len(done) : done[j] \in T
    <3>1. done \in Seq(T)
      BY <2>0
    <3> QED
      BY <3>1, SeqLemma
  <2>1. s.done[i] \in [op : Nat, ok : BOOLEAN]
    BY <1>1, <2>0, <2>3
  <2>2. s.done[i].op \in Nat /\ s.done[i].ok \in BOOLEAN
    BY <2>1
  <2> QED
    BY <2>2, MakeMessages
<1>5. DoneMail(s) \in Seq(RouterMsg) /\ Len(DoneMail(s)) = n
  <2>1. DoneMail(s) = [i \in 1..n |-> Completed(s.done[i].op, s.done[i].ok)]
    BY <1>1 DEF DoneMail
  <2>2. PICK f : f = DoneMail(s)
    OBVIOUS
  <2>3. f \in [1..n -> RouterMsg] /\ n \in Nat
    BY <1>4, <1>l, <2>1, <2>2
  <2>4. f \in Seq(RouterMsg) /\ Len(f) = n
    BY <2>3
  <2> QED
    BY <2>2, <2>4
<1>6. ASSUME NEW i \in 1..n
      PROVE  /\ DoneMail(s)[i].type = "OperationCompleted"
             /\ DoneMail(s)[i].op = pre[i] /\ pre[i] \in Executed /\ OfCard(pre[i], c)
  <2>1. DoneMail(s)[i] = Completed(s.done[i].op, s.done[i].ok)
    BY <1>1 DEF DoneMail
  <2>2. i \in 1..lp
    BY <1>l
  <2> QED
    BY <1>1, <1>3, <2>1, <2>2 DEF Completed
<1>7. s.asks = <<>> => AskMail(s) = <<>>
  BY DEF AskMail
<1>8. \A o \in Range(s.tasks) : o \in Range(pre)
  <2> SUFFICES ASSUME NEW o \in Range(s.tasks) PROVE o \in Range(pre)
    OBVIOUS
  <2>1. PICK j \in 1..Len(s.tasks) : s.tasks[j] = o
    BY <1>2, SeqLemma
  <2>2. j \in 1..(lp - n) /\ n + j \in 1..lp
    BY <1>1, <1>l
  <2> QED
    BY <1>1, <1>3, <1>l, <2>1, <2>2
<1>9. ASSUME s.asks # <<>>
      PROVE  /\ s.tasks # <<>> /\ AskMail(s) = <<[type |-> "ApplyCharge", op |-> Head(s.tasks)]>>
             /\ Head(s.tasks) \in Executed /\ ChargeOf(Head(s.tasks), c)
  <2>1. s.tasks # <<>> /\ s.asks = <<Head(s.tasks)>> /\ Admitted(s, Head(s.tasks))
    BY <1>1, <1>9
  <2>2. Head(s.tasks) \in Range(s.tasks)
    BY <1>2, <2>1, SeqLemma
  <2>3. Head(s.tasks) \in Executed /\ OfCard(Head(s.tasks), c)
    BY <1>1, <1>8, <2>2
  <2>4. PICK o : o = Head(s.tasks)
    OBVIOUS
  <2>5. AskMail(s) = <<[type |-> "ApplyCharge", op |-> o]>>
    BY <2>1, <2>4 DEF AskMail
  <2> QED
    BY <2>1, <2>3, <2>4, <2>5 DEF ChargeOf, Admitted
<1>10. AskMail(s) \in Seq(AccountMsg)
  <2>1. CASE s.asks = <<>>
    BY <1>7, <2>1
  <2>2. CASE s.asks # <<>>
    <3>1. Head(s.tasks) \in Nat
      BY <1>2, <1>9, <2>2, SeqLemma
    <3>2. [type |-> "ApplyCharge", op |-> Head(s.tasks)] \in AccountMsg
      BY <3>1, MakeMessages
    <3> QED
      BY <1>9, <2>2, <3>2, ToLemma
  <2> QED
    BY <2>1, <2>2
<1>11. Router # Owner[c]
  BY CardType
<1>12. /\ DOMAIN CardSends(c, s) = {Router, Owner[c]}
       /\ CardSends(c, s)[Router] = DoneMail(s) /\ CardSends(c, s)[Owner[c]] = AskMail(s)
  BY <1>11 DEF CardSends
<1>13. DoneAre(c, s, pre, n)
  BY <1>5, <1>6, <1>l DEF DoneAre
<1> QED
  BY <1>7, <1>8, <1>9, <1>10, <1>12, <1>13

\* Becomes, with the messages named.
LEMMA BecomesSends ==
  ASSUME NEW c, NEW s, Becomes(c, s)
  PROVE  /\ card' = [card EXCEPT ![c] = [limit |-> s.limit, consumed |-> s.consumed, tasks |-> s.tasks]]
         /\ Deliver(c, CardSends(c, s))
BY DEF Becomes, CardSends, DoneMail, AskMail

\* A card that becomes a Shape keeps the types and the mailboxes.
LEMMA BecomesOK ==
  ASSUME AllOK, NEW c \in Cards, NEW s, NEW pre, NEW n, Shape(c, s, pre, n), Becomes(c, s),
         sent' = sent, operations' = operations, mailbox[c] # <<>>
  PROVE  CardsOK' /\ MailboxOK'
<1>1. /\ s.limit \in Limits /\ s.consumed \in Nat /\ s.tasks \in Seq(Nat)
      /\ \A o \in Range(pre) : o \in Executed /\ OfCard(o, c)
  BY DEF Shape, CardRun
<1>2. Grows
  BY SameGrows
<1>3. \A o \in Range(s.tasks) : o \in Executed /\ OfCard(o, c)
  BY <1>1, ShapeMail
<1>4. CardsOK'
  BY <1>1, <1>3, BecomesSends, CardsStep
<1>5. /\ c \in Actors /\ Owner[c] \in Accounts /\ Owner[c] \in Actors
      /\ Letter(Owner[c]) = AccountMsg /\ Owner[c] # Router
      /\ Router \in Actors /\ Letter(Router) = RouterMsg
  BY CardType
<1>6. ASSUME NEW m \in Range(DoneMail(s)) PROVE Good(Router, m)'
  <2>0. DoneAre(c, s, pre, n)
    BY ShapeMail
  <2>1. PICK i \in 1..n : m = DoneMail(s)[i]
    BY <2>0, SeqLemma DEF DoneAre
  <2>2. m.type = "OperationCompleted" /\ m.op \in Executed
    BY <2>0, <2>1 DEF DoneAre
  <2>3. Good(Router, m)
    BY <2>2 DEF Good, RouterMail
  <2> QED
    BY <1>2, <1>5, <2>3, GrowsLemma
<1>7. ASSUME NEW m \in Range(AskMail(s)) PROVE Good(Owner[c], m)'
  <2>1. s.asks # <<>>
    BY ShapeMail, FewLemma
  <2>2. PICK o : o = Head(s.tasks)
    OBVIOUS
  <2>a. /\ AskMail(s) = <<[type |-> "ApplyCharge", op |-> o]>>
        /\ o \in Executed /\ ChargeOf(o, c)
    BY <2>1, <2>2, ShapeMail
  <2>3. m = [type |-> "ApplyCharge", op |-> o] /\ o \in Executed /\ ChargeOf(o, c)
    BY <2>a, FewLemma
  <2>4. m.type = "ApplyCharge" /\ m.op = o /\ Op[o].card = c
    BY <2>3 DEF ChargeOf, OfCard
  <2>5. Good(Owner[c], m)
    BY <1>5, <2>3, <2>4 DEF Good, AccountMail
  <2> QED
    BY <1>2, <1>5, <2>5, GrowsLemma
<1>8. PICK new : new = CardSends(c, s)
  OBVIOUS
<1>9. \A y \in DOMAIN new : /\ y \in Actors /\ new[y] \in Seq(Letter(y))
                            /\ \A m \in Range(new[y]) : Good(y, m)'
  <2>1. /\ DOMAIN new = {Router, Owner[c]} /\ new[Router] = DoneMail(s) /\ new[Owner[c]] = AskMail(s)
        /\ DoneMail(s) \in Seq(RouterMsg) /\ AskMail(s) \in Seq(AccountMsg)
    BY <1>8, ShapeMail DEF DoneAre
  <2> QED
    BY <1>5, <1>6, <1>7, <2>1
<1>10. MailboxOK'
  BY <1>2, <1>5, <1>8, <1>9, BecomesSends, MailStep
<1> QED
  BY <1>4, <1>10

\* Decides keeps the types of the outcomes.
LEMMA DecidesOK ==
  ASSUME AllOK, NEW c, NEW s, Decides(c, s), sent' = sent, known' = known
  PROVE  HistoryOK'
<1>1. Ops' = Ops
  BY DEF Ops
<1>2. \A o \in Ops : outcome'[o] \in {"none", "ok", "failed"}
  BY DEF Decides, Verdict, AllOK, HistoryOK
<1>3. outcome' = [o \in Ops |-> outcome'[o]]
  BY DEF Decides
<1>4. outcome' \in [Ops -> {"none", "ok", "failed"}]
  BY <1>2, <1>3
<1> QED
  BY <1>1, <1>4 DEF AllOK, HistoryOK

\* The message that card c handles.
LEMMA TaskHead ==
  ASSUME AllOK, NEW c \in Cards, mailbox[c] # <<>>, Head(mailbox[c]).type = "Task"
  PROVE  Head(mailbox[c]).op \in Executed /\ OfCard(Head(mailbox[c]).op, c)
<1>1. Good(c, Head(mailbox[c])) /\ c # Router /\ c \notin Accounts
  BY CardType, HeadLemma
<1>2. CardMail(c, Head(mailbox[c]))
  BY <1>1 DEF Good
<1> QED
  BY <1>2 DEF CardMail

\* A reply is about a charge of the card.
LEMMA ReplyHead ==
  ASSUME AllOK, NEW c \in Cards, mailbox[c] # <<>>, Head(mailbox[c]).type = "AccountChargeReply"
  PROVE  /\ Head(mailbox[c]).ok \in BOOLEAN /\ ChargeOf(Head(mailbox[c]).op, c)
         /\ Head(mailbox[c]).op \in Ops /\ Op[Head(mailbox[c]).op].amount \in Nat
         /\ ConsumedAfter(c, Head(mailbox[c])) \in Nat
<1>0. PICK m : m = Head(mailbox[c])
  OBVIOUS
<1>1. Good(c, m) /\ c # Router /\ c \notin Accounts /\ m \in CardMsg /\ card[c].consumed \in Nat
  BY <1>0, CardType, HeadLemma
<1>2. CardMail(c, m)
  BY <1>1 DEF Good
<1>3. ChargeOf(m.op, c)
  BY <1>0, <1>2 DEF CardMail
<1>4. m.op \in Ops /\ Op[m.op].amount \in Nat
  <2>1. m.op \in Ops /\ Op[m.op].kind = "Charge"
    BY <1>3 DEF ChargeOf, OfCard
  <2> QED
    BY <2>1, OperationType DEF AllOK
<1>5. m.ok \in BOOLEAN
  BY <1>0, <1>1, CardFields
<1>6. ConsumedAfter(c, m) \in Nat
  BY <1>1, <1>4 DEF ConsumedAfter
<1> QED
  BY <1>0, <1>3, <1>4, <1>5, <1>6

\* ExecuteCharge and ExecuteLimitChange.
LEMMA CardTaskOK ==
  ASSUME AllOK, NEW c \in Cards, CardTask(c)
  PROVE  AllOK' /\ Grows
<1>0. PICK o, s : o = Head(mailbox[c]).op /\ s = Offer(Run(c, card[c].tasks), o)
  OBVIOUS
<1>1. /\ mailbox[c] # <<>> /\ Head(mailbox[c]).type = "Task" /\ Becomes(c, s) /\ Decides(c, s)
      /\ UNCHANGED <<sent, events, routerVars, account, results, known>>
  BY <1>0 DEF CardTask, HasMail
<1>2. Grows /\ operations' = operations
  BY <1>1, SameGrows DEF routerVars
<1>3. o \in Executed /\ OfCard(o, c)
  BY <1>0, <1>1, TaskHead
<1>4. PICK pre, n : Shape(c, s, pre, n)
  BY <1>0, <1>3, TaskShape
<1>5. CardsOK' /\ MailboxOK'
  BY <1>1, <1>2, <1>4, BecomesOK
<1>6. RouterOK' /\ EventsOK' /\ AccountsOK'
  BY <1>1, <1>2, FrameLemma
<1>7. HistoryOK'
  BY <1>1, DecidesOK
<1> QED
  BY <1>1, <1>2, <1>5, <1>6, <1>7 DEF AllOK

\* AccountChargeReply.
LEMMA CardReplyOK ==
  ASSUME AllOK, NEW c \in Cards, CardReply(c)
  PROVE  AllOK' /\ Grows
<1>0. PICK m : m = Head(mailbox[c])
  OBVIOUS
<1>1. /\ mailbox[c] # <<>> /\ m.type = "AccountChargeReply"
      /\ UNCHANGED <<sent, events, routerVars, account, results, known>>
  BY <1>0 DEF CardReply, HasMail
<1>2. Grows /\ operations' = operations
  BY <1>1, SameGrows DEF routerVars
<1>3. m.ok \in BOOLEAN /\ ConsumedAfter(c, m) \in Nat
  BY <1>0, <1>1, ReplyHead
<1>4. RouterOK' /\ EventsOK' /\ AccountsOK'
  BY <1>1, <1>2, FrameLemma
<1>5. CASE Deliver(c, To(Router, Debug)) /\ UNCHANGED <<card, outcome>>
  <2>1. Debug \in Letter(Router) /\ Good(Router, Debug)' /\ Router \in Actors /\ c \in Actors
    BY <1>2, CardType, MakeMessages DEF Good, RouterMail, Debug
  <2>2. CardsOK' /\ HistoryOK'
    BY <1>1, <1>2, <1>5, FrameLemma
  <2>3. MailboxOK'
    BY <1>1, <1>2, <1>5, <2>1, MailStepOne
  <2> QED
    BY <1>1, <1>2, <1>4, <2>2, <2>3 DEF AllOK
<1>6. PICK s : s = AfterReply(c, m)
  OBVIOUS
<1>7. CASE card[c].tasks # <<>> /\ Head(card[c].tasks) = m.op /\ Becomes(c, s) /\ Decides(c, s)
  <2>0. PICK n : Shape(c, s, card[c].tasks, n)
    <3>0. m.op = Head(card[c].tasks) /\ card[c].tasks # <<>>
      BY <1>7
    <3>1. \E n \in Nat \ {0} : Shape(c, s, card[c].tasks, n)
      BY <1>3, <1>6, <3>0, ReplyShape
    <3> QED
      BY <3>1
  <2>1. PICK pre : Shape(c, s, pre, n)
    BY <2>0
  <2>2. CardsOK' /\ MailboxOK'
    BY <1>1, <1>2, <1>7, <2>1, BecomesOK
  <2>3. HistoryOK'
    BY <1>1, <1>7, DecidesOK
  <2> QED
    BY <1>1, <1>2, <1>4, <2>2, <2>3 DEF AllOK
<1> QED
  BY <1>0, <1>5, <1>6, <1>7 DEF CardReply, AfterReply

\* Initially there is nothing.
LEMMA InitOK == Init => AllOK
<1> SUFFICES ASSUME Init PROVE AllOK
  OBVIOUS
<1>1. Ops = {} /\ sent \in Seq(Operation)
  BY DEF Init, Ops
<1>2. DOMAIN operations = {} /\ DOMAIN snapshots = {}
  BY DEF Init, EmptyMap
<1>3. RouterOK
  BY <1>2 DEF Init, RouterOK, RouterInv, Executed
<1>4. EventsOK
  <2>1. Range(results) = {} /\ results \in Seq(ActorEvent) /\ events \in Seq(ActorEvent)
    BY FewLemma DEF Init
  <2>2. Len(events) <= EventCapacity
    BY CapacityAssumption DEF Init
  <2> QED
    BY <2>1, <2>2 DEF EventsOK, ResultsKnown
<1>5. AccountsOK
  <2>1. \A a \in Accounts : account[a] = [limit |-> NoLimit, consumed |-> 0, pending |-> NoQuery]
    BY DEF Init
  <2>2. NoLimit \in Limits
    BY DEF Limits, NoLimit
  <2>3. ~NoQuery.billing
    BY DEF NoQuery
  <2>4. account \in [Accounts -> [limit : Limits, consumed : Nat,
          pending : [op : Nat, remaining : Nat, spent : Spendings, billing : BOOLEAN]]]
    BY <2>2, NoQueryType DEF Init
  <2> QED
    BY <2>1, <2>3, <2>4 DEF AccountsOK, BillsKnown
<1>6. CardsOK
  <2>1. NoLimit \in Limits
    BY DEF Limits, NoLimit
  <2>2. \A c \in Cards : card[c].tasks = <<>>
    BY DEF Init
  <2>3. card \in [Cards -> [limit : Limits, consumed : Nat, tasks : Seq(Nat)]]
    BY <2>1 DEF Init
  <2> QED
    BY <2>2, <2>3, FewLemma DEF CardsOK, TasksKnown
<1>7. HistoryOK
  <2>1. outcome = <<>> /\ known = <<>> /\ <<>> = [i \in {} |-> i]
    BY DEF Init
  <2> QED
    BY <1>1, <2>1 DEF HistoryOK
<1>8. MailboxOK
  <2>1. DOMAIN mailbox = Actors /\ \A y \in Actors : mailbox[y] = <<>>
    BY DEF Init
  <2>2. Range(<<>>) = {} /\ \A y : <<>> \in Seq(Letter(y))
    BY FewLemma
  <2>3. \A y \in Actors : InMail(y) = {} /\ mailbox[y] \in Seq(Letter(y))
    BY <2>1, <2>2 DEF InMail
  <2> QED
    BY <2>1, <2>3 DEF MailboxOK
<1> QED
  BY <1>1, <1>3, <1>4, <1>5, <1>6, <1>7, <1>8 DEF AllOK

\* A step that changes nothing.
LEMMA StutterOK ==
  ASSUME AllOK, UNCHANGED vars
  PROVE  AllOK' /\ Grows
<1>1. /\ sent' = sent /\ operations' = operations /\ mailbox' = mailbox
      /\ UNCHANGED <<events, routerVars, account, card, results, outcome, known>>
  BY DEF vars, routerVars, history
<1>2. Grows
  BY <1>1, SameGrows
<1>3. RouterOK' /\ EventsOK' /\ AccountsOK' /\ CardsOK' /\ HistoryOK'
  BY <1>1, <1>2, FrameLemma
<1>4. MailboxOK'
  <2>1. \A y \in Actors : \A m \in InMail(y) : Good(y, m)'
    BY <1>2, GrowsLemma DEF AllOK, MailboxOK
  <2>2. Actors' = Actors /\ \A y : Letter(y)' = Letter(y) /\ InMail(y)' = InMail(y)
    BY <1>1 DEF Actors, Letter, InMail
  <2> QED
    BY <1>1, <2>1, <2>2 DEF AllOK, MailboxOK
<1> QED
  BY <1>1, <1>2, <1>3, <1>4 DEF AllOK

\* Every step keeps the types and the meaning of the messages, and the router
\* forgets no operation.
LEMMA NextOK ==
  ASSUME AllOK, [Next]_vars
  PROVE  AllOK' /\ Grows
<1>1. CASE Send
  BY <1>1, SendOK
<1>2. CASE Recv
  BY <1>2, RecvOK
<1>3. ASSUME NEW o \in Ops, \/ ExecuteOnCard(o) \/ ExecuteLimitAccount(o) \/ ExecuteQuery(o)
                            \/ ExecuteGetDatabase(o) \/ ExecuteReplaceDatabase(o)
      PROVE  AllOK' /\ Grows
  BY <1>3, ExecuteOnCardOK, ExecuteLimitAccountOK, ExecuteQueryOK, ExecuteGetDatabaseOK,
     ExecuteReplaceDatabaseOK
<1>4. CASE RouterCompleted \/ RouterDebug \/ RouterSnapshot
  BY <1>4, RouterCompletedOK, RouterDebugOK, RouterSnapshotOK
<1>5. ASSUME NEW a \in Accounts, AccountStep(a) PROVE AllOK' /\ Grows
  BY <1>5, AccountChargeOK, AccountLimitOK, AccountStartOK, AccountQueryReplyOK,
     AccountSnapshotOK, AccountReplaceOK DEF AccountStep
<1>6. ASSUME NEW c \in Cards, CardStep(c) PROVE AllOK' /\ Grows
  BY <1>6, CardTaskOK, CardReplyOK, CardQueryOK, CardSnapshotOK, CardReplaceOK DEF CardStep
<1>7. CASE UNCHANGED vars
  BY <1>7, StutterOK
<1> QED
  BY <1>1, <1>2, <1>3, <1>4, <1>5, <1>6, <1>7 DEF Next, RouterStep
=============================================================================
