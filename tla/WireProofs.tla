----------------------------- MODULE WireProofs -----------------------------
(***************************************************************************)
(* What a deserializer makes of what a serializer has written: for every   *)
(* message, the message itself, or an error when the code has no way to    *)
(* read it.                                                                *)
(***************************************************************************)
EXTENDS Wire, SequenceTheorems, WellFoundedInduction, TLAPS

-----------------------------------------------------------------------------
(* Sums of widths *)

\* Induction over the natural numbers, for a set.
LEMMA NatSet ==
  ASSUME NEW A, A \subseteq Nat, 0 \in A, \A n \in A : n + 1 \in A
  PROVE  A = Nat
<1> SUFFICES ASSUME Nat \ A # {} PROVE FALSE
  OBVIOUS
<1>1. \E x \in Nat \ A : \A y \in Nat \ A : ~(<<y, x>> \in OpToRel(<, Nat))
  BY NatLessThanWellFounded, WFMin
<1>2. PICK x \in Nat \ A : \A y \in Nat \ A : ~(y < x)
  BY <1>1 DEF OpToRel
<1>3. x # 0 /\ x - 1 \in Nat
  BY <1>2
<1>4. x - 1 \in A
  BY <1>2, <1>3
<1> QED
  BY <1>2, <1>3, <1>4

Sums(g, ws) == \A i \in 0..Len(ws) : g[i] = IF i = 0 THEN 0 ELSE g[i - 1] + ws[i]

\* The sum of widths is the last of their partial sums.
LEMMA WidthIs ==
  ASSUME NEW ws \in Seq(Nat), NEW g, Sums(g, ws)
  PROVE  Width(ws) = g[Len(ws)]
<1> DEFINE n == Len(ws)
           h == [i \in 0..n |-> g[i]]
<1>1. n \in Nat
  OBVIOUS
<1>2. h = [i \in 0..n |-> IF i = 0 THEN 0 ELSE h[i - 1] + ws[i]]
  <2>1. ASSUME NEW i \in 0..n PROVE g[i] = IF i = 0 THEN 0 ELSE h[i - 1] + ws[i]
    <3>1. g[i] = IF i = 0 THEN 0 ELSE g[i - 1] + ws[i]
      BY DEF Sums
    <3>2. i # 0 => h[i - 1] = g[i - 1]
      BY <1>1
    <3> QED
      BY <3>1, <3>2
  <2> QED
    BY <2>1
<1> DEFINE sum[i \in 0..n] == IF i = 0 THEN 0 ELSE sum[i - 1] + ws[i]
<1>3. n \in 0..n /\ h[n] = g[n]
  BY <1>1
<1> HIDE DEF h
<1>4. sum = [i \in 0..n |-> IF i = 0 THEN 0 ELSE sum[i - 1] + ws[i]]
  BY <1>2 DEF sum
<1>5. Width(ws) = sum[n]
  BY DEF Width
<1> HIDE DEF sum
<1> DEFINE A == {i \in Nat : i <= n => sum[i] = h[i]}
<1>6. 0 \in A
  BY <1>1, <1>2, <1>4
<1>7. ASSUME NEW i \in A PROVE i + 1 \in A
  <2> SUFFICES ASSUME i + 1 <= n PROVE sum[i + 1] = h[i + 1]
    OBVIOUS
  <2>1. i + 1 \in 0..n /\ i + 1 # 0 /\ (i + 1) - 1 = i /\ sum[i] = h[i]
    BY <1>1
  <2> QED
    BY <1>2, <1>4, <2>1
<1>8. A = Nat
  BY <1>6, <1>7, NatSet
<1> QED
  BY <1>1, <1>3, <1>5, <1>8

\* There are partial sums, and they are numbers.
LEMMA SumsExist ==
  ASSUME NEW ws \in Seq(Nat)
  PROVE  \E g : Sums(g, ws) /\ \A i \in 0..Len(ws) : g[i] \in Nat
<1> DEFINE Eq(g, k) == \A i \in 0..k : g[i] \in Nat /\ g[i] = IF i = 0 THEN 0 ELSE g[i - 1] + ws[i]
           A == {k \in Nat : k <= Len(ws) => \E g : Eq(g, k)}
<1>1. Len(ws) \in Nat /\ \A i \in 1..Len(ws) : ws[i] \in Nat
  OBVIOUS
<1>2. 0 \in A
  <2>1. Eq([i \in {0} |-> 0], 0)
    OBVIOUS
  <2> QED
    BY <2>1
<1>3. ASSUME NEW k \in A PROVE k + 1 \in A
  <2> SUFFICES ASSUME k + 1 <= Len(ws) PROVE \E f : Eq(f, k + 1)
    OBVIOUS
  <2>1. PICK g : Eq(g, k)
    BY <1>1
  <2> DEFINE h == [i \in 0..(k + 1) |-> IF i = k + 1 THEN g[k] + ws[k + 1] ELSE g[i]]
  <2>2. Eq(h, k + 1)
    <3> SUFFICES ASSUME NEW i \in 0..(k + 1)
                 PROVE  h[i] \in Nat /\ h[i] = IF i = 0 THEN 0 ELSE h[i - 1] + ws[i]
      OBVIOUS
    <3>1. CASE i = k + 1
      <4>1. h[i] = g[k] + ws[k + 1] /\ h[i - 1] = g[k] /\ i # 0 /\ g[k] \in Nat /\ ws[k + 1] \in Nat
        BY <1>1, <2>1, <3>1
      <4> QED
        BY <3>1, <4>1
    <3>2. CASE i # k + 1
      <4>1. i \in 0..k /\ h[i] = g[i] /\ (i # 0 => h[i - 1] = g[i - 1])
        BY <3>2
      <4> QED
        BY <2>1, <4>1
    <3> QED
      BY <3>1, <3>2
  <2> HIDE DEF h, Eq
  <2> QED
    BY <2>2
<1>4. A = Nat
  BY <1>2, <1>3, NatSet
<1>5. PICK g : Eq(g, Len(ws))
  BY <1>1, <1>4
<1> QED
  BY <1>1, <1>5 DEF Sums

\* The widths of a sequence with one more in front.
LEMMA WidthCons ==
  ASSUME NEW w \in Nat, NEW ws \in Seq(Nat), NEW vs \in Seq(Nat), Len(vs) = Len(ws) + 1,
         vs[1] = w, \A i \in 1..Len(ws) : vs[i + 1] = ws[i]
  PROVE  Width(vs) = w + Width(ws) /\ Width(ws) \in Nat
<1>1. PICK g : Sums(g, ws) /\ \A i \in 0..Len(ws) : g[i] \in Nat
  BY SumsExist
<1>2. Len(ws) \in Nat /\ Len(vs) \in Nat
  OBVIOUS
<1> DEFINE h == [i \in 0..Len(vs) |-> IF i = 0 THEN 0 ELSE w + g[i - 1]]
<1>3. Sums(h, vs)
  <2> SUFFICES ASSUME NEW i \in 0..Len(vs) PROVE h[i] = IF i = 0 THEN 0 ELSE h[i - 1] + vs[i]
    BY DEF Sums
  <2>1. CASE i = 0
    BY <2>1
  <2>2. CASE i = 1
    <3>1. g[0] = 0 /\ h[1] = w + g[0] /\ h[0] = 0
      BY <1>1, <1>2 DEF Sums
    <3> QED
      BY <2>2, <3>1
  <2>3. CASE i > 1
    <3>1. PICK k \in 1..Len(ws) : i = k + 1
      BY <1>2, <2>3
    <3>2. k \in 0..Len(ws) /\ k - 1 \in 0..Len(ws) /\ k \in 0..Len(vs) /\ k # 0 /\ (k + 1) - 1 = k
      BY <1>2
    <3>3. g[k] \in Nat /\ g[k - 1] \in Nat /\ ws[k] \in Nat
      BY <1>1, <3>2, ElementOfSeq
    <3>6. g[k] = g[k - 1] + ws[k]
      BY <1>1, <3>2 DEF Sums
    <3>4. h[k + 1] = w + g[k] /\ h[k] = w + g[k - 1] /\ vs[k + 1] = ws[k]
      BY <3>1, <3>2
    <3> HIDE DEF h
    <3>5. h[k + 1] = h[k] + vs[k + 1]
      <4>1. \A a, b \in Nat : w + (a + b) = (w + a) + b
        OBVIOUS
      <4>2. w + (g[k - 1] + ws[k]) = (w + g[k - 1]) + ws[k]
        BY <3>3, <4>1
      <4> QED
        BY <3>4, <3>6, <4>2
    <3> QED
      BY <3>1, <3>2, <3>5
  <2> QED
    BY <2>1, <2>2, <2>3
<1>4. h[Len(vs)] = w + g[Len(ws)] /\ g[Len(ws)] \in Nat
  BY <1>1, <1>2
<1> HIDE DEF h
<1> QED
  BY <1>1, <1>3, <1>4, WidthIs

-----------------------------------------------------------------------------
(* Payloads *)

Fields  == [w : Nat, v : Int]
Payload == Seq(Fields)

\* The bytes of a payload are a number.
LEMMA BytesType == ASSUME NEW s \in Payload PROVE Bytes(s) \in Nat /\ Len(s) \in Nat
<1>1. Len(s) \in Nat /\ \A i \in 1..Len(s) : s[i] \in Fields
  BY DEF Payload
<1>2. [i \in DOMAIN s |-> s[i].w] \in Seq(Nat)
  <2>1. DOMAIN s = 1..Len(s)
    BY DEF Payload
  <2>2. \A i \in 1..Len(s) : s[i].w \in Nat
    BY <1>1 DEF Fields
  <2>3. [i \in 1..Len(s) |-> s[i].w] \in [1..Len(s) -> Nat]
    BY <2>2
  <2> QED
    BY <1>1, <2>1, <2>3
<1>3. PICK ws \in Seq(Nat) : ws = [i \in DOMAIN s |-> s[i].w]
  BY <1>2
<1>4. PICK g : Sums(g, ws) /\ \A i \in 0..Len(ws) : g[i] \in Nat
  BY SumsExist
<1>5. Len(ws) \in Nat
  OBVIOUS
<1>6. Width(ws) \in Nat
  BY <1>4, <1>5, WidthIs
<1> QED
  BY <1>1, <1>3, <1>6 DEF Bytes

\* The width and the value of a field; a field, and a payload after it.
IsField(w, v) == w \in Nat /\ v \in Int
Put(w, v, s) == Field(w, v) \o s

Puts1(p, w, v, s) ==
  /\ p \in Payload /\ s \in Payload /\ Len(p) = Len(s) + 1 /\ Len(s) \in Nat
  /\ p[1] = [w |-> w, v |-> v] /\ \A i \in 1..Len(s) : p[i + 1] = s[i]
  /\ Rest(p, 1) = s /\ Bytes(p) = w + Bytes(s) /\ Bytes(s) \in Nat

\* A field put before a payload.
LEMMA FieldThen ==
  \A w \in Nat, v \in Int, s \in Payload :
    Puts1(Put(w, v, s), w, v, s)
<1> TAKE w \in Nat, v \in Int, s \in Payload
<1> DEFINE p == Field(w, v) \o s
<1>0. p = Put(w, v, s)
  BY DEF Put
<1>1. PICK e \in Fields : e = [w |-> w, v |-> v]
  BY DEF Fields
<1>2. Field(w, v) = <<e>>
  BY <1>1 DEF Field
<1>3. /\ p \in Payload /\ Len(p) = Len(s) + 1 /\ Len(s) \in Nat /\ p[1] = e
      /\ \A i \in 1..Len(s) : p[i + 1] = s[i]
  BY <1>2 DEF Payload
<1> HIDE DEF p
<1>4. Rest(p, 1) = s
  <2>1. SubSeq(p, 2, Len(p)) \in Payload /\ Len(SubSeq(p, 2, Len(p))) = Len(s)
    BY <1>3 DEF Payload
  <2>2. \A i \in 1..Len(s) : SubSeq(p, 2, Len(p))[i] = s[i]
    <3> SUFFICES ASSUME NEW i \in 1..Len(s) PROVE SubSeq(p, 2, Len(p))[i] = p[i + 1]
      BY <1>3
    <3> QED
      BY <1>3 DEF Payload
  <2>3. SubSeq(p, 2, Len(p)) = s
    BY <2>1, <2>2, SeqEqual DEF Payload
  <2> QED
    BY <2>3 DEF Rest
<1>5. Bytes(p) = w + Bytes(s)
  <2>1. ASSUME NEW q \in Payload PROVE [i \in DOMAIN q |-> q[i].w] \in Seq(Nat)
    <3>1. DOMAIN q = 1..Len(q) /\ Len(q) \in Nat /\ \A i \in 1..Len(q) : q[i] \in Fields
      BY DEF Payload
    <3>2. \A i \in 1..Len(q) : q[i].w \in Nat
      BY <3>1 DEF Fields
    <3>3. [i \in 1..Len(q) |-> q[i].w] \in [1..Len(q) -> Nat]
      BY <3>2
    <3> QED
      BY <3>1, <3>3
  <2>2. PICK ws \in Seq(Nat) : ws = [i \in DOMAIN s |-> s[i].w]
    BY <2>1
  <2>3. PICK vs \in Seq(Nat) : vs = [i \in DOMAIN p |-> p[i].w]
    BY <1>3, <2>1
  <2>4. DOMAIN s = 1..Len(s) /\ DOMAIN p = 1..(Len(s) + 1)
    BY <1>3 DEF Payload
  <2>5. Len(ws) = Len(s) /\ Len(vs) = Len(s) + 1
    BY <1>3, <2>2, <2>3, <2>4
  <2>6. vs[1] = w
    BY <1>1, <1>3, <2>3, <2>4
  <2>7. ASSUME NEW i \in 1..Len(ws) PROVE vs[i + 1] = ws[i]
    <3>1. i \in DOMAIN s /\ i + 1 \in DOMAIN p
      BY <1>3, <2>4, <2>5
    <3> QED
      BY <1>3, <2>2, <2>3, <2>4, <3>1
  <2>8. Width(vs) = w + Width(ws)
    BY <2>5, <2>6, <2>7, WidthCons
  <2> QED
    BY <2>2, <2>3, <2>8 DEF Bytes
<1>6. p[1] = [w |-> w, v |-> v]
  BY <1>1, <1>3
<1>7. Bytes(s) \in Nat
  BY BytesType
<1> QED
  BY <1>0, <1>3, <1>4, <1>5, <1>6, <1>7 DEF Puts1

\* The last field, and payloads one after the other.
LEMMA OneField ==
  \A w \in Nat, v \in Int :
    Field(w, v) \in Payload /\ Field(w, v) = Put(w, v, <<>>) /\ <<>> \in Payload
<1> TAKE w \in Nat, v \in Int
<1>1. PICK e \in Fields : e = [w |-> w, v |-> v]
  BY DEF Fields
<1>2. Field(w, v) = <<e>>
  BY <1>1 DEF Field
<1>3. <<e>> \in Payload /\ <<e>> \o <<>> = <<e>> /\ <<>> \in Payload
  BY DEF Payload
<1> QED
  BY <1>2, <1>3 DEF Put

\* A payload without fields has no bytes.
LEMMA NoField == <<>> \in Payload /\ Bytes(<<>>) = 0 /\ Len(<<>>) = 0
<1>1. [i \in DOMAIN <<>> |-> <<>>[i].w] = <<>>
  OBVIOUS
<1>2. Sums([i \in {0} |-> 0], <<>>) /\ <<>> \in Seq(Nat) /\ Len(<<>>) = 0
  BY DEF Sums
<1>3. Width(<<>>) = 0
  BY <1>2, WidthIs
<1> QED
  BY <1>1, <1>2, <1>3 DEF Bytes, Payload

\* Two payloads one after the other are a payload, and their bytes add up.
LEMMA Concat ==
  \A s \in Payload, t \in Payload :
    s \o t \in Payload /\ \A u \in Payload : (s \o t) \o u = s \o (t \o u)
BY ConcatAssociative DEF Payload

-----------------------------------------------------------------------------
(* Reading the first fields *)

\* Widths, one by one.
LEMMA Widths ==
  /\ \A a \in Nat : Width(<<a>>) = a
  /\ \A a, b \in Nat : Width(<<a, b>>) = a + b
  /\ \A a, b, c \in Nat : Width(<<a, b, c>>) = a + b + c
  /\ \A a, b, c, d \in Nat : Width(<<a, b, c, d>>) = a + b + c + d
<1>0. Width(<<>>) = 0
  <2>1. Sums([i \in {0} |-> 0], <<>>) /\ <<>> \in Seq(Nat) /\ Len(<<>>) = 0
    BY DEF Sums
  <2> QED
    BY <2>1, WidthIs
<1>1. \A x \in Nat : Width(<<x>>) = x
  <2> TAKE x \in Nat
  <2>1. <<>> \in Seq(Nat) /\ <<x>> \in Seq(Nat) /\ Len(<<x>>) = Len(<<>>) + 1 /\ <<x>>[1] = x
        /\ \A i \in 1..Len(<<>>) : <<x>>[i + 1] = <<>>[i]
    OBVIOUS
  <2>2. Width(<<x>>) = x + Width(<<>>)
    BY <2>1, WidthCons
  <2> QED
    BY <1>0, <2>2
<1>2. \A x, y \in Nat : Width(<<x, y>>) = x + y
  <2> TAKE x, y \in Nat
  <2>1. /\ <<y>> \in Seq(Nat) /\ <<x, y>> \in Seq(Nat) /\ Len(<<x, y>>) = Len(<<y>>) + 1
        /\ <<x, y>>[1] = x /\ \A i \in 1..Len(<<y>>) : <<x, y>>[i + 1] = <<y>>[i]
    OBVIOUS
  <2>2. Width(<<x, y>>) = x + Width(<<y>>)
    BY <2>1, WidthCons
  <2> QED
    BY <1>1, <2>2
<1>3. \A x, y, z \in Nat : Width(<<x, y, z>>) = x + (y + z)
  <2> TAKE x, y, z \in Nat
  <2>1. /\ <<y, z>> \in Seq(Nat) /\ <<x, y, z>> \in Seq(Nat) /\ Len(<<x, y, z>>) = Len(<<y, z>>) + 1
        /\ <<x, y, z>>[1] = x
    OBVIOUS
  <2>2. ASSUME NEW i \in 1..Len(<<y, z>>) PROVE <<x, y, z>>[i + 1] = <<y, z>>[i]
    <3>1. i = 1 \/ i = 2
      OBVIOUS
    <3> QED
      BY <3>1
  <2>3. Width(<<x, y, z>>) = x + Width(<<y, z>>)
    BY <2>1, <2>2, WidthCons
  <2> QED
    BY <1>2, <2>3
<1>4. \A a, b, c, d \in Nat : Width(<<a, b, c, d>>) = a + (b + (c + d))
  <2> TAKE a, b, c, d \in Nat
  <2>1. /\ <<b, c, d>> \in Seq(Nat) /\ <<a, b, c, d>> \in Seq(Nat)
        /\ Len(<<a, b, c, d>>) = Len(<<b, c, d>>) + 1 /\ <<a, b, c, d>>[1] = a
    OBVIOUS
  <2>2. ASSUME NEW i \in 1..Len(<<b, c, d>>) PROVE <<a, b, c, d>>[i + 1] = <<b, c, d>>[i]
    <3>1. i = 1 \/ i = 2 \/ i = 3
      OBVIOUS
    <3> QED
      BY <3>1
  <2>3. Width(<<a, b, c, d>>) = a + Width(<<b, c, d>>)
    BY <2>1, <2>2, WidthCons
  <2> QED
    BY <1>3, <2>3
<1> QED
  BY <1>1, <1>2, <1>3, <1>4

\* What follows the second field follows the first field of what follows the first.
LEMMA RestRest ==
  ASSUME NEW p \in Payload, NEW q \in Payload, Rest(p, 1) = q, Len(p) = Len(q) + 1
  PROVE  Rest(p, 2) = Rest(q, 1)
<1>1. q = SubSeq(p, 2, Len(p)) /\ Len(p) \in Nat /\ Len(q) \in Nat
  BY BytesType DEF Rest
<1>2. SubSeq(p, 3, Len(p)) \in Payload /\ SubSeq(q, 2, Len(q)) \in Payload
  BY <1>1 DEF Payload
<1>3. Len(SubSeq(p, 3, Len(p))) = Len(SubSeq(q, 2, Len(q)))
  BY <1>1 DEF Payload
<1>4. ASSUME NEW i \in 1..Len(SubSeq(p, 3, Len(p)))
      PROVE  SubSeq(p, 3, Len(p))[i] = SubSeq(q, 2, Len(q))[i]
  BY <1>1, <1>3 DEF Payload
<1>5. SubSeq(p, 3, Len(p)) = SubSeq(q, 2, Len(q))
  BY <1>2, <1>3, <1>4, SeqEqual DEF Payload
<1> QED
  BY <1>5 DEF Rest

\* A payload that starts with one to four fields: what is read of it, and what follows.
LEMMA First1 ==
  \A a \in Nat, va \in Int, s \in Payload :
    \A val : /\ Read(Put(a, va, s), <<a>>, val) = Parsed(val)
               /\ ReadChecked(Put(a, va, s), a, val) = Parsed(val)
<1> TAKE a \in Nat, va \in Int, s \in Payload
<1> DEFINE p == Put(a, va, s)
<1>1. p[1] = [w |-> a, v |-> va] /\ Bytes(p) = a + Bytes(s) /\ Bytes(s) \in Nat
  BY FieldThen DEF Puts1
<1> HIDE DEF p
<1>2. Width(<<a>>) = a /\ DOMAIN <<a>> = {1} /\ <<a>>[1] = a
  BY Widths
<1>3. ~(Bytes(p) < a)
  BY <1>1
<1>4. \A val : Read(p, <<a>>, val) = Parsed(val)
  BY <1>1, <1>2, <1>3 DEF Read
<1>5. \A val : ReadChecked(p, a, val) = Parsed(val)
  BY <1>3, <1>4 DEF ReadChecked
<1> QED
  BY <1>4, <1>5 DEF p

Puts2(p, a, va, b, vb, s) ==
  /\ p \in Payload /\ s \in Payload /\ Len(p) = Len(s) + 2
  /\ p[1] = [w |-> a, v |-> va] /\ p[2] = [w |-> b, v |-> vb]
  /\ Rest(p, 2) = s /\ Bytes(p) = a + b + Bytes(s) /\ Bytes(s) \in Nat /\ Len(s) \in Nat
  /\ \A val : Read(p, <<a, b>>, val) = Parsed(val)

\* A payload that starts with two fields.
LEMMA First2 ==
  \A a \in Nat, va \in Int, b \in Nat, vb \in Int, s \in Payload :
    Puts2(Put(a, va, Put(b, vb, s)), a, va, b, vb, s)
<1> TAKE a \in Nat, va \in Int, b \in Nat, vb \in Int, s \in Payload
<1> DEFINE q == Put(b, vb, s)
           p == Put(a, va, q)
<1>1. Puts1(q, b, vb, s)
  BY FieldThen
<1> HIDE DEF q
<1>2. Puts1(p, a, va, q)
  BY <1>1, FieldThen DEF Puts1
<1> HIDE DEF p
<1>3. p[2] = q[1] /\ Len(p) = Len(s) + 2
  <2>1. 1 \in 1..Len(q) /\ 1 + 1 = 2
    BY <1>1 DEF Puts1
  <2> QED
    BY <1>1, <1>2, <2>1 DEF Puts1
<1>4. Rest(p, 2) = s
  BY <1>1, <1>2, RestRest DEF Puts1
<1>5. Width(<<a, b>>) = a + b /\ DOMAIN <<a, b>> = {1, 2} /\ <<a, b>>[1] = a /\ <<a, b>>[2] = b
  BY Widths
<1>6. Bytes(p) = a + b + Bytes(s) /\ ~(Bytes(p) < a + b)
  BY <1>1, <1>2 DEF Puts1
<1>7. \A val : Read(p, <<a, b>>, val) = Parsed(val)
  <2>1. p[1].w = a /\ p[2].w = b
    BY <1>1, <1>2, <1>3 DEF Puts1
  <2>2. ~\E i \in DOMAIN <<a, b>> : p[i].w # <<a, b>>[i]
    BY <1>5, <2>1
  <2> QED
    BY <1>5, <1>6, <2>2 DEF Read
<1> QED
  BY <1>1, <1>2, <1>3, <1>4, <1>6, <1>7 DEF p, q, Puts1, Puts2

Puts3(p, a, va, b, vb, c, vc, s) ==
  /\ p \in Payload /\ s \in Payload /\ Len(p) = Len(s) + 3 /\ p[1] = [w |-> a, v |-> va]
  /\ p[2] = [w |-> b, v |-> vb] /\ p[3] = [w |-> c, v |-> vc]
  /\ Bytes(p) = a + b + c + Bytes(s) /\ Bytes(s) \in Nat /\ Len(s) \in Nat
  /\ \A val : Read(p, <<a, b, c>>, val) = Parsed(val)

\* A payload that starts with three fields.
LEMMA First3 ==
  \A a, va, b, vb, c, vc, s :
    IsField(a, va) /\ IsField(b, vb) /\ IsField(c, vc) /\ s \in Payload =>
      Puts3(Put(a, va, Put(b, vb, Put(c, vc, s))), a, va, b, vb, c, vc, s)
<1> SUFFICES ASSUME NEW a \in Nat, NEW va \in Int, NEW b \in Nat, NEW vb \in Int,
                    NEW c \in Nat, NEW vc \in Int, NEW s \in Payload
             PROVE  Puts3(Put(a, va, Put(b, vb, Put(c, vc, s))), a, va, b, vb, c, vc, s)
  BY DEF IsField
<1> DEFINE q == Put(b, vb, Put(c, vc, s))
           p == Put(a, va, q)
<1>1. Puts2(q, b, vb, c, vc, s)
  BY First2
<1> HIDE DEF q
<1>2. Puts1(p, a, va, q)
  BY <1>1, FieldThen DEF Puts2
<1> HIDE DEF p
<1>3. p[2] = q[1] /\ p[3] = q[2] /\ Len(p) = Len(s) + 3
  <2>1. Len(q) = Len(s) + 2 /\ Len(s) \in Nat
    BY <1>1 DEF Puts2
  <2>2. Len(p) = Len(q) + 1 /\ \A i \in 1..Len(q) : p[i + 1] = q[i]
    BY <1>2 DEF Puts1
  <2>3. 1 \in 1..Len(q) /\ 1 + 1 = 2 /\ 2 \in 1..Len(q) /\ 2 + 1 = 3
    BY <2>1
  <2>4. p[2] = q[1] /\ p[3] = q[2]
    BY <2>2, <2>3
  <2> QED
    BY <2>1, <2>2, <2>4
<1>4. Width(<<a, b, c>>) = a + b + c
  BY Widths
<1>5. DOMAIN <<a, b, c>> = {1, 2, 3} /\ <<a, b, c>>[1] = a /\ <<a, b, c>>[2] = b /\ <<a, b, c>>[3] = c
  OBVIOUS
<1>6. Bytes(p) = a + b + c + Bytes(s) /\ ~(Bytes(p) < a + b + c)
  <2>1. Bytes(q) = b + c + Bytes(s) /\ Bytes(s) \in Nat
    BY <1>1 DEF Puts2
  <2>2. Bytes(p) = a + Bytes(q)
    BY <1>2 DEF Puts1
  <2> QED
    BY <2>1, <2>2
<1>7. \A val : Read(p, <<a, b, c>>, val) = Parsed(val)
  <2>1. p[1].w = a /\ p[2].w = b /\ p[3].w = c
    BY <1>1, <1>2, <1>3 DEF Puts1, Puts2
  <2>2. ~\E i \in DOMAIN <<a, b, c>> : p[i].w # <<a, b, c>>[i]
    BY <1>5, <2>1
  <2> QED
    BY <1>4, <1>6, <2>2 DEF Read
<1> QED
  BY <1>1, <1>2, <1>3, <1>6, <1>7 DEF p, q, Puts1, Puts2, Puts3

Puts4(p, a, va, b, vb, c, vc, d, vd, s) ==
  /\ p \in Payload /\ s \in Payload /\ Len(p) = Len(s) + 4 /\ p[1] = [w |-> a, v |-> va]
  /\ p[2] = [w |-> b, v |-> vb] /\ p[3] = [w |-> c, v |-> vc] /\ p[4] = [w |-> d, v |-> vd]
  /\ Bytes(p) = a + b + c + d + Bytes(s) /\ Bytes(s) \in Nat /\ Len(s) \in Nat
  /\ \A val : Read(p, <<a, b, c, d>>, val) = Parsed(val)

\* A payload that starts with four fields.
LEMMA First4 ==
  \A a, va, b, vb, c, vc, d, vd, s :
    IsField(a, va) /\ IsField(b, vb) /\ IsField(c, vc) /\ IsField(d, vd) /\ s \in Payload =>
      Puts4(Put(a, va, Put(b, vb, Put(c, vc, Put(d, vd, s)))), a, va, b, vb, c, vc, d, vd, s)
<1> TAKE a, va, b, vb, c, vc, d, vd, s
<1> HAVE IsField(a, va) /\ IsField(b, vb) /\ IsField(c, vc) /\ IsField(d, vd) /\ s \in Payload
<1>0. /\ a \in Nat /\ va \in Int /\ b \in Nat /\ vb \in Int
      /\ c \in Nat /\ vc \in Int /\ d \in Nat /\ vd \in Int
  BY DEF IsField
<1> USE <1>0
<1> DEFINE q == Put(b, vb, Put(c, vc, Put(d, vd, s)))
           p == Put(a, va, q)
<1>1. Puts3(q, b, vb, c, vc, d, vd, s)
  <2>1. IsField(b, vb) /\ IsField(c, vc) /\ IsField(d, vd)
    BY DEF IsField
  <2> QED
    BY <2>1, First3
<1> HIDE DEF q
<1>2. Puts1(p, a, va, q)
  BY <1>1, FieldThen DEF Puts3
<1> HIDE DEF p
<1>3. p[2] = q[1] /\ p[3] = q[2] /\ p[4] = q[3] /\ Len(p) = Len(s) + 4
  <2>1. Len(q) = Len(s) + 3 /\ Len(s) \in Nat
    BY <1>1 DEF Puts3
  <2>2. Len(p) = Len(q) + 1 /\ \A i \in 1..Len(q) : p[i + 1] = q[i]
    BY <1>2 DEF Puts1
  <2>3. 1 \in 1..Len(q) /\ 1 + 1 = 2 /\ 2 \in 1..Len(q) /\ 2 + 1 = 3 /\ 3 \in 1..Len(q) /\ 3 + 1 = 4
    BY <2>1
  <2>4. p[2] = q[1] /\ p[3] = q[2] /\ p[4] = q[3]
    BY <2>2, <2>3
  <2> QED
    BY <2>1, <2>2, <2>4
<1>4. Width(<<a, b, c, d>>) = a + b + c + d
  BY Widths
<1>5. /\ DOMAIN <<a, b, c, d>> = {1, 2, 3, 4} /\ <<a, b, c, d>>[1] = a /\ <<a, b, c, d>>[2] = b
      /\ <<a, b, c, d>>[3] = c /\ <<a, b, c, d>>[4] = d
  OBVIOUS
<1>6. Bytes(p) = a + b + c + d + Bytes(s) /\ ~(Bytes(p) < a + b + c + d)
  <2>1. Bytes(p) = a + Bytes(q) /\ Bytes(q) = b + c + d + Bytes(s) /\ Bytes(s) \in Nat
    BY <1>1, <1>2 DEF Puts1, Puts3
  <2> QED
    BY <2>1
<1>7. \A val : Read(p, <<a, b, c, d>>, val) = Parsed(val)
  <2>1. p[1].w = a /\ p[2].w = b /\ p[3].w = c /\ p[4].w = d
    BY <1>1, <1>2, <1>3 DEF Puts1, Puts3
  <2>2. ~\E i \in DOMAIN <<a, b, c, d>> : p[i].w # <<a, b, c, d>>[i]
    BY <1>5, <2>1
  <2> QED
    BY <1>4, <1>6, <2>2 DEF Read
<1> QED
  BY <1>1, <1>2, <1>3, <1>6, <1>7 DEF p, q, Puts1, Puts3, Puts4

-----------------------------------------------------------------------------
(* Payloads one after the other *)

\* The bytes of two payloads add up.
LEMMA BytesConcat ==
  \A s \in Payload, t \in Payload :
    s \o t \in Payload /\ Bytes(s \o t) = Bytes(s) + Bytes(t)
<1> TAKE s \in Payload, t \in Payload
<1> DEFINE A == {n \in Nat : \A x \in Payload : Len(x) = n => Bytes(x \o t) = Bytes(x) + Bytes(t)}
<1>1. 0 \in A
  <2> SUFFICES ASSUME NEW x \in Payload, Len(x) = 0 PROVE Bytes(x \o t) = Bytes(x) + Bytes(t)
    OBVIOUS
  <2>1. x = <<>> /\ x \o t = t
    BY DEF Payload
  <2>2. Bytes(t) \in Nat /\ Bytes(x) = 0
    BY <2>1, BytesType, NoField
  <2> QED
    BY <2>1, <2>2
<1>2. ASSUME NEW n \in A PROVE n + 1 \in A
  <2> SUFFICES ASSUME NEW x \in Payload, Len(x) = n + 1 PROVE Bytes(x \o t) = Bytes(x) + Bytes(t)
    OBVIOUS
  <2>1. PICK w \in Nat, v \in Int, r \in Payload : x = Put(w, v, r)
    <3>1. x[1] \in Fields /\ Tail(x) \in Payload
      BY DEF Payload
    <3>2. x = <<x[1]>> \o Tail(x)
      BY <3>1 DEF Payload
    <3>3. PICK w \in Nat, v \in Int : x[1] = [w |-> w, v |-> v]
      BY <3>1 DEF Fields
    <3>4. x = Put(w, v, Tail(x))
      BY <3>2, <3>3 DEF Put, Field
    <3> QED
      BY <3>1, <3>4
  <2>2. Puts1(x, w, v, r)
    BY <2>1, FieldThen
  <2>3. Len(r) = n /\ Bytes(x) = w + Bytes(r) /\ Bytes(r) \in Nat
    BY <2>2 DEF Puts1
  <2>4. x \o t = Put(w, v, r \o t) /\ r \o t \in Payload
    <3>1. r \o t \in Payload
      BY Concat
    <3>2. PICK f \in Payload : f = Field(w, v)
      BY OneField
    <3>3. (f \o r) \o t = f \o (r \o t)
      BY Concat
    <3> QED
      BY <2>1, <3>1, <3>2, <3>3 DEF Put
  <2>5. Puts1(x \o t, w, v, r \o t)
    BY <2>4, FieldThen
  <2>6. Bytes(x \o t) = w + Bytes(r \o t)
    BY <2>5 DEF Puts1
  <2>7. Bytes(r \o t) = Bytes(r) + Bytes(t) /\ Bytes(t) \in Nat
    BY <2>3, BytesType
  <2> QED
    BY <2>3, <2>6, <2>7
<1>3. A = Nat
  BY <1>1, <1>2, NatSet
<1>4. Len(s) \in A
  BY <1>3, BytesType
<1> QED
  BY <1>4, Concat

\* Multiples of the number of fields of an element.
LEMMA Times ==
  ASSUME NEW k \in {2, 3, 4}
  PROVE  /\ 0 * k = 0 /\ \A i \in Nat : i * k \in Nat /\ (i + 1) * k = i * k + k
         /\ \A i, n \in Nat : i < n => i * k + k <= n * k
<1>1. CASE k = 2
  BY <1>1
<1>2. CASE k = 3
  BY <1>2
<1>3. CASE k = 4
  BY <1>3
<1> QED
  BY <1>1, <1>2, <1>3

Flattens(g, seqs, m) == \A i \in 1..m : g[i] = IF i = 1 THEN seqs[i] ELSE g[i - 1] \o seqs[i]

\* What FlattenSeq computes for a sequence that is not empty.
LEMMA FlattenIs ==
  ASSUME NEW seqs, NEW n \in Nat \ {0}, Len(seqs) = n
  PROVE  \E g : Flattens(g, seqs, n) /\ FlattenSeq(seqs) = g[n]
<1> DEFINE A == {m \in Nat : \E g : Flattens(g, seqs, m)}
<1>1. 0 \in A
  BY DEF Flattens
<1>2. ASSUME NEW m \in A PROVE m + 1 \in A
  <2>1. PICK g : Flattens(g, seqs, m)
    OBVIOUS
  <2> DEFINE h == [i \in 1..(m + 1) |-> IF i = m + 1
                                        THEN IF m = 0 THEN seqs[1] ELSE g[m] \o seqs[m + 1]
                                        ELSE g[i]]
  <2>2. Flattens(h, seqs, m + 1)
    <3> SUFFICES ASSUME NEW i \in 1..(m + 1)
                 PROVE  h[i] = IF i = 1 THEN seqs[i] ELSE h[i - 1] \o seqs[i]
      BY DEF Flattens
    <3>1. CASE i = m + 1
      BY <3>1
    <3>2. CASE i # m + 1
      <4>1. i \in 1..m /\ h[i] = g[i] /\ (i # 1 => h[i - 1] = g[i - 1])
        BY <3>2
      <4> QED
        BY <2>1, <4>1 DEF Flattens
    <3> QED
      BY <3>1, <3>2
  <2> HIDE DEF h
  <2> QED
    BY <2>2
<1>3. PICK g : Flattens(g, seqs, n)
  BY <1>1, <1>2, NatSet
<1> DEFINE h == [i \in 1..n |-> g[i]]
<1>4. h = [i \in 1..n |-> IF i = 1 THEN seqs[i] ELSE h[i - 1] \o seqs[i]]
  <2>1. ASSUME NEW i \in 1..n PROVE g[i] = IF i = 1 THEN seqs[i] ELSE h[i - 1] \o seqs[i]
    <3>1. g[i] = IF i = 1 THEN seqs[i] ELSE g[i - 1] \o seqs[i]
      BY <1>3 DEF Flattens
    <3>2. i # 1 => h[i - 1] = g[i - 1]
      OBVIOUS
    <3> QED
      BY <3>1, <3>2
  <2> QED
    BY <2>1
<1> DEFINE flatten[i \in 1..n] == IF i = 1 THEN seqs[i] ELSE flatten[i - 1] \o seqs[i]
<1> HIDE DEF h
<1>5. flatten = [i \in 1..n |-> IF i = 1 THEN seqs[i] ELSE flatten[i - 1] \o seqs[i]]
  BY <1>4 DEF flatten
<1>6. FlattenSeq(seqs) = flatten[n]
  BY DEF FlattenSeq
<1> HIDE DEF flatten
<1>7. Flattens(flatten, seqs, n)
  BY <1>5 DEF Flattens
<1> QED
  BY <1>6, <1>7

\* Elements of k fields and b bytes: the element i lies at i * k.
LEMMA Flatten ==
  ASSUME NEW k \in {2, 3, 4}, NEW b \in Nat, NEW seqs \in Seq(Payload),
         \A i \in 1..Len(seqs) : Len(seqs[i]) = k /\ Bytes(seqs[i]) = b
  PROVE  LET F == FlattenSeq(seqs) n == Len(seqs)
         IN  /\ F \in Payload /\ Len(F) = n * k /\ Bytes(F) = n * b
             /\ \A i \in Nat, l \in 1..k : i < n => F[i * k + l] = seqs[i + 1][l]
<1> DEFINE n == Len(seqs)
           Ok(F, m) == /\ F \in Payload /\ Len(F) = m * k /\ Bytes(F) = m * b
                       /\ \A i \in Nat, l \in 1..k : i < m => F[i * k + l] = seqs[i + 1][l]
<1> SUFFICES Ok(FlattenSeq(seqs), n)
  OBVIOUS
<1>0. n \in Nat /\ k \in Nat /\ \A i \in 1..n : seqs[i] \in Payload
  OBVIOUS
<1>1. CASE n = 0
  <2>1. seqs = <<>> /\ FlattenSeq(seqs) = <<>>
    BY <1>1 DEF FlattenSeq
  <2>2. <<>> \in Payload /\ Len(<<>>) = 0 * k /\ Bytes(<<>>) = 0 * b
    BY NoField, Times
  <2> QED
    BY <1>1, <2>1, <2>2
<1>2. CASE n # 0
  <2>1. PICK g : Flattens(g, seqs, n) /\ FlattenSeq(seqs) = g[n]
    BY <1>0, <1>2, FlattenIs
  <2> DEFINE A == {m \in Nat : m < n => Ok(g[m + 1], m + 1)}
  <2>2. 0 \in A
    <3>1. g[1] = seqs[1] /\ 1 \in 1..n
      BY <1>0, <1>2, <2>1 DEF Flattens
    <3>2. g[1] \in Payload /\ Len(g[1]) = 1 * k /\ Bytes(g[1]) = 1 * b
      BY <1>0, <3>1
    <3>3. ASSUME NEW i \in Nat, NEW l \in 1..k, i < 1 PROVE g[1][i * k + l] = seqs[i + 1][l]
      <4>1. i = 0 /\ i * k = 0 /\ i * k + l = l /\ i + 1 = 1
        BY <3>3, Times
      <4> QED
        BY <3>1, <4>1
    <3>4. Ok(g[1], 1)
      BY <3>2, <3>3
    <3> QED
      BY <3>4
  <2>3. ASSUME NEW m \in A PROVE m + 1 \in A
    <3> HIDE DEF Ok
    <3>00. m + 1 \in Nat
      OBVIOUS
    <3> SUFFICES ASSUME m + 1 < n PROVE Ok(g[(m + 1) + 1], (m + 1) + 1)
      BY <3>00
    <3> USE DEF Ok
    <3> DEFINE j == m + 1
               F == g[j]
               s == seqs[j + 1]
               G == F \o s
    <3>0. Ok(F, j)
      OBVIOUS
    <3>1. j \in Nat /\ j + 1 \in 1..n /\ j + 1 # 1 /\ (j + 1) - 1 = j
      BY <1>0
    <3>2. g[j + 1] = G
      BY <2>1, <3>1 DEF Flattens
    <3>3. s \in Payload /\ Len(s) = k /\ Bytes(s) = b
      BY <1>0, <3>1
    <3> HIDE DEF j
    <3>4. /\ F \in Payload /\ Len(F) = j * k /\ Bytes(F) = j * b
          /\ \A i \in Nat, l \in 1..k : i < j => F[i * k + l] = seqs[i + 1][l]
      BY <3>0
    <3> HIDE DEF F, s
    <3>5. G \in Payload /\ Len(G) = Len(F) + Len(s) /\ Bytes(G) = j * b + b
      <4>1. F \in Seq(Fields) /\ s \in Seq(Fields)
        BY <3>3, <3>4 DEF Payload
      <4>2. Len(F \o s) = Len(F) + Len(s)
        BY <4>1
      <4>3. F \o s \in Payload /\ Bytes(F \o s) = Bytes(F) + Bytes(s)
        BY <3>3, <3>4, BytesConcat
      <4> QED
        BY <3>3, <3>4, <4>2, <4>3
    <3>6. (j + 1) * b = j * b + b /\ (j + 1) * k = j * k + k /\ j * k \in Nat
      BY <3>1, Times
    <3>7. ASSUME NEW i \in Nat, NEW l \in 1..k, i < j + 1 PROVE G[i * k + l] = seqs[i + 1][l]
      <4>1. CASE i < j
        <5>1. i * k + k <= j * k /\ i * k \in Nat
          BY <3>1, <4>1, Times
        <5>2. i * k + l \in 1..Len(F)
          BY <1>0, <3>4, <3>6, <5>1
        <5>3. G[i * k + l] = F[i * k + l]
          BY <3>3, <3>4, <5>2 DEF Payload
        <5> QED
          BY <3>4, <4>1, <5>3
      <4>2. CASE i = j
        <5>1. j * k + l \in (Len(F) + 1)..(Len(F) + Len(s)) /\ (j * k + l) - Len(F) = l
          BY <1>0, <3>3, <3>4, <3>6
        <5>2. G[j * k + l] = s[l]
          <6>1. F \in Seq(Fields) /\ s \in Seq(Fields) /\ j * k + l \in Int
            BY <1>0, <3>3, <3>4, <3>6 DEF Payload
          <6> DEFINE x == j * k + l
          <6>2. x \in (Len(F) + 1)..(Len(F) + Len(s)) /\ x - Len(F) = l
            BY <5>1
          <6> HIDE DEF x
          <6>3. (F \o s)[x] = s[x - Len(F)]
            BY <6>1, <6>2, ConcatProperties
          <6> QED
            BY <6>2, <6>3 DEF x
        <5> QED
          BY <4>2, <5>2 DEF s
      <4>3. i < j \/ i = j
        BY <3>1, <3>7
      <4> QED
        BY <4>1, <4>2, <4>3
    <3>8. Ok(G, j + 1)
      BY <3>3, <3>4, <3>5, <3>6, <3>7
    <3> HIDE DEF G
    <3> QED
      BY <3>2, <3>8 DEF j
  <2> HIDE DEF Ok
  <2>4. A = Nat
    <3>1. A \subseteq Nat
      OBVIOUS
    <3> HIDE DEF A
    <3> QED
      BY <2>2, <2>3, <3>1, NatSet
  <2>5. n - 1 \in A /\ (n - 1) + 1 = n
    BY <1>0, <1>2, <2>4
  <2>6. Ok(g[n], n)
    BY <1>0, <1>2, <2>5
  <2> QED
    BY <2>1, <2>6
<1> QED
  BY <1>1, <1>2

\* The operator \o, kept folded.
Join(s, t) == s \o t

\* What follows a field may be joined first.
LEMMA JoinPut ==
  \A w \in Nat, v \in Int, s \in Payload :
    /\ Join(Field(w, v), s) = Put(w, v, s) /\ Put(w, v, s) \in Payload
    /\ Field(w, v) = Put(w, v, <<>>) /\ Field(w, v) \in Payload /\ <<>> \in Payload
<1> TAKE w \in Nat, v \in Int, s \in Payload
<1>1. Put(w, v, s) \in Payload
  BY FieldThen DEF Puts1
<1> QED
  BY <1>1, OneField DEF Join, Put

\* Payloads are joined in any grouping.
LEMMA JoinJoin ==
  \A s \in Payload, t \in Payload, u \in Payload :
    Join(s, t) \in Payload /\ Join(Join(s, t), u) = Join(s, Join(t, u))
<1> TAKE s \in Payload, t \in Payload, u \in Payload
<1>1. s \o t \in Payload /\ (s \o t) \o u = s \o (t \o u)
  BY Concat
<1> QED
  BY <1>1 DEF Join

\* A field and a payload joined are the field put before the payload.
LEMMA PutJoin ==
  \A w \in Nat, v \in Int, s \in Payload, t \in Payload :
    Join(Put(w, v, s), t) = Put(w, v, Join(s, t)) /\ Join(s, t) \in Payload
<1> TAKE w \in Nat, v \in Int, s \in Payload, t \in Payload
<1>1. PICK f \in Payload : f = Field(w, v)
  BY OneField
<1>2. (f \o s) \o t = f \o (s \o t) /\ s \o t \in Payload
  BY Concat
<1> QED
  BY <1>1, <1>2 DEF Put, Join

\* Fields one after the other, and a payload after them.
LEMMA Chain2 ==
  \A a \in Nat, va \in Int, b \in Nat, vb \in Int, s \in Payload :
    Join(Join(Field(a, va), Field(b, vb)), s) = Put(a, va, Put(b, vb, s))
<1> TAKE a \in Nat, va \in Int, b \in Nat, vb \in Int, s \in Payload
<1>1. Join(Join(Field(a, va), Field(b, vb)), s) = Join(Field(a, va), Join(Field(b, vb), s))
  BY JoinPut, JoinJoin
<1>2. Join(Field(b, vb), s) = Put(b, vb, s) /\ Put(b, vb, s) \in Payload
  BY JoinPut
<1> QED
  BY <1>1, <1>2, JoinPut

\* Three fields, and a payload after them.
LEMMA Chain3 ==
  \A a, va, b, vb, c, vc, s :
    IsField(a, va) /\ IsField(b, vb) /\ IsField(c, vc) /\ s \in Payload =>
      Join(Join(Join(Field(a, va), Field(b, vb)), Field(c, vc)), s)
        = Put(a, va, Put(b, vb, Put(c, vc, s)))
<1> SUFFICES ASSUME NEW a \in Nat, NEW va \in Int, NEW b \in Nat, NEW vb \in Int,
                    NEW c \in Nat, NEW vc \in Int, NEW s \in Payload
             PROVE  Join(Join(Join(Field(a, va), Field(b, vb)), Field(c, vc)), s) = Put(a, va, Put(b, vb, Put(c, vc, s)))
  BY DEF IsField
<1> DEFINE x == Join(Field(a, va), Field(b, vb))
<1>1. x \in Payload /\ Field(c, vc) \in Payload
  BY JoinPut, JoinJoin
<1> HIDE DEF x
<1>2. Join(Join(x, Field(c, vc)), s) = Join(x, Join(Field(c, vc), s))
  BY <1>1, JoinJoin
<1>3. Join(Field(c, vc), s) = Put(c, vc, s) /\ Put(c, vc, s) \in Payload
  BY JoinPut
<1>4. Join(x, Put(c, vc, s)) = Put(a, va, Put(b, vb, Put(c, vc, s)))
  BY <1>3, Chain2 DEF x
<1> QED
  BY <1>2, <1>3, <1>4 DEF x

\* Without anything after them.
LEMMA Ends2 ==
  \A a \in Nat, va \in Int, b \in Nat, vb \in Int :
    Join(Field(a, va), Field(b, vb)) = Put(a, va, Put(b, vb, <<>>))
<1> TAKE a \in Nat, va \in Int, b \in Nat, vb \in Int
<1>1. Field(b, vb) = Put(b, vb, <<>>) /\ Field(b, vb) \in Payload
  BY OneField
<1> QED
  BY <1>1, JoinPut

\* Three fields and nothing after them.
LEMMA Ends3 ==
  \A a, va, b, vb, c, vc :
    IsField(a, va) /\ IsField(b, vb) /\ IsField(c, vc) =>
      Join(Join(Field(a, va), Field(b, vb)), Field(c, vc)) = Put(a, va, Put(b, vb, Put(c, vc, <<>>)))
<1> SUFFICES ASSUME NEW a \in Nat, NEW va \in Int, NEW b \in Nat, NEW vb \in Int,
                    NEW c \in Nat, NEW vc \in Int
             PROVE  Join(Join(Field(a, va), Field(b, vb)), Field(c, vc)) = Put(a, va, Put(b, vb, Put(c, vc, <<>>)))
  BY DEF IsField
<1>1. Field(c, vc) = Put(c, vc, <<>>) /\ Field(c, vc) \in Payload
  BY OneField
<1> QED
  BY <1>1, Chain2

\* Four fields and nothing after them.
LEMMA Ends4 ==
  \A a, va, b, vb, c, vc, d, vd :
    IsField(a, va) /\ IsField(b, vb) /\ IsField(c, vc) /\ IsField(d, vd) =>
      Join(Join(Join(Field(a, va), Field(b, vb)), Field(c, vc)), Field(d, vd))
        = Put(a, va, Put(b, vb, Put(c, vc, Put(d, vd, <<>>))))
<1> TAKE a, va, b, vb, c, vc, d, vd
<1> HAVE IsField(a, va) /\ IsField(b, vb) /\ IsField(c, vc) /\ IsField(d, vd)
<1>0. /\ a \in Nat /\ va \in Int /\ b \in Nat /\ vb \in Int
      /\ c \in Nat /\ vc \in Int /\ d \in Nat /\ vd \in Int
  BY DEF IsField
<1> USE <1>0
<1>1. Field(d, vd) = Put(d, vd, <<>>) /\ Field(d, vd) \in Payload
  BY OneField
<1>2. IsField(a, va) /\ IsField(b, vb) /\ IsField(c, vc)
  BY DEF IsField
<1> QED
  BY <1>1, <1>2, Chain3

-----------------------------------------------------------------------------
(* Vectors *)

\* An Option is empty or has one element.
LEMMA OptionIs ==
  ASSUME NEW S, NEW l \in Option(S), l # <<>>
  PROVE  \E x \in S : l = <<x>>
<1>1. l \in Seq(S) /\ Len(l) <= 1 /\ Len(l) \in Nat /\ Len(l) # 0
  BY DEF Option
<1>2. Len(l) = 1
  <2>1. \A n \in Nat : n # 0 /\ n <= 1 => n = 1
    OBVIOUS
  <2> QED
    BY <1>1, <2>1
<1>3. l[1] \in S
  BY <1>1, <1>2
<1>4. <<l[1]>> \in Seq(S) /\ Len(<<l[1]>>) = 1 /\ \A i \in 1..1 : l[i] = <<l[1]>>[i]
  BY <1>3
<1> QED
  BY <1>1, <1>2, <1>3, <1>4, SeqEqual

\* A limit, written and read.
LEMMA LimitRead ==
  ASSUME NEW l \in Option(Nat)
  PROVE  \E v \in Int : LimitSrl(l) = Field(4, v) /\ ToLimit(v) = l
<1>1. CASE l = <<>>
  BY <1>1 DEF LimitSrl, AmountSrl, ToLimit, NO_LIMIT
<1>2. CASE l # <<>>
  <2>1. PICK n \in Nat : l = <<n>>
    BY <1>2, OptionIs
  <2>2. n # NO_LIMIT /\ n \in Int
    BY DEF NO_LIMIT
  <2> QED
    BY <1>2, <2>1, <2>2 DEF LimitSrl, AmountSrl, ToLimit
<1> QED
  BY <1>1, <1>2

\* The elements of the vectors.
LEMMA AccountFields ==
  ASSUME NEW a \in AccountSnapshot
  PROVE  /\ AccountSrl(a) \in Payload /\ Len(AccountSrl(a)) = 3 /\ Bytes(AccountSrl(a)) = 16
         /\ Read(AccountSrl(a), <<8, 4, 4>>, ToAccount(AccountSrl(a))) = Parsed(a)
<1>1. PICK id \in Nat, limit \in Option(Nat), used \in Nat :
        a = [account_id |-> id, limit |-> limit, consumed |-> used]
  BY DEF AccountSnapshot
<1>2. PICK v \in Int : LimitSrl(limit) = Field(4, v) /\ ToLimit(v) = limit
  BY LimitRead
<1> DEFINE p == Put(8, id, Put(4, v, Put(4, used, <<>>)))
<1>3. AccountSrl(a) = p
  <2>1. Join(Join(Field(8, id), Field(4, v)), Field(4, used)) = p
    <3>1. IsField(8, id) /\ IsField(4, v) /\ IsField(4, used)
      BY DEF IsField
    <3> QED
      BY <3>1, Ends3
  <2> QED
    BY <1>1, <1>2, <2>1 DEF AccountSrl, IdSrl, AmountSrl, Join
<1>4. Puts3(p, 8, id, 4, v, 4, used, <<>>)
  <2>1. IsField(8, id) /\ IsField(4, v) /\ IsField(4, used)
    BY DEF IsField
  <2> QED
    BY <2>1, NoField, First3
<1> HIDE DEF p
<1>5. p[1].v = id /\ p[2].v = v /\ p[3].v = used
  BY <1>4 DEF Puts3
<1>6. ToAccount(p) = a
  BY <1>1, <1>2, <1>5 DEF ToAccount
<1>7. Read(p, <<8, 4, 4>>, a) = Parsed(a) /\ p \in Payload /\ Len(p) = 3 /\ Bytes(p) = 16
  BY <1>4, NoField DEF Puts3
<1> QED
  BY <1>3, <1>6, <1>7

\* The fields of a card in a snapshot, and what is read of them.
LEMMA CardFields ==
  ASSUME NEW c \in CardSnapshot
  PROVE  /\ CardSrl(c) \in Payload /\ Len(CardSrl(c)) = 4 /\ Bytes(CardSrl(c)) = 24
         /\ Read(CardSrl(c), <<8, 8, 4, 4>>, ToCard(CardSrl(c))) = Parsed(c)
<1>1. PICK id \in Nat, card \in Nat, limit \in Option(Nat), used \in Nat :
        c = [account_id |-> id, card_id |-> card, limit |-> limit, consumed |-> used]
  BY DEF CardSnapshot
<1>2. PICK v \in Int : LimitSrl(limit) = Field(4, v) /\ ToLimit(v) = limit
  BY LimitRead
<1> DEFINE p == Put(8, id, Put(8, card, Put(4, v, Put(4, used, <<>>))))
<1>3. CardSrl(c) = p
  <2>1. Join(Join(Join(Field(8, id), Field(8, card)), Field(4, v)), Field(4, used)) = p
    <3>1. IsField(8, id) /\ IsField(8, card) /\ IsField(4, v) /\ IsField(4, used)
      BY DEF IsField
    <3> QED
      BY <3>1, Ends4
  <2> QED
    BY <1>1, <1>2, <2>1 DEF CardSrl, IdSrl, AmountSrl, Join
<1>4. Puts4(p, 8, id, 8, card, 4, v, 4, used, <<>>)
  <2>1. IsField(8, id) /\ IsField(8, card) /\ IsField(4, v) /\ IsField(4, used)
    BY DEF IsField
  <2> QED
    BY <2>1, NoField, First4
<1> HIDE DEF p
<1>5. p[1].v = id /\ p[2].v = card /\ p[3].v = v /\ p[4].v = used
  BY <1>4 DEF Puts4
<1>6. ToCard(p) = c
  BY <1>1, <1>2, <1>5 DEF ToCard
<1>7. Read(p, <<8, 8, 4, 4>>, c) = Parsed(c) /\ p \in Payload /\ Len(p) = 4 /\ Bytes(p) = 24
  BY <1>4, NoField DEF Puts4
<1> QED
  BY <1>3, <1>6, <1>7

Spent == [card_id : Nat, spent : Nat]

\* The fields of what a card has spent, and what is read of them.
LEMMA CardSpentFields ==
  ASSUME NEW c \in Spent
  PROVE  /\ CardSpentSrl(c) \in Payload /\ Len(CardSpentSrl(c)) = 2 /\ Bytes(CardSpentSrl(c)) = 12
         /\ Read(CardSpentSrl(c), <<8, 4>>, ToCardSpent(CardSpentSrl(c))) = Parsed(c)
<1>1. c.card_id \in Int /\ c.spent \in Int /\ c = [card_id |-> c.card_id, spent |-> c.spent]
  BY DEF Spent
<1> DEFINE p == Put(8, c.card_id, Put(4, c.spent, <<>>))
<1>2. CardSpentSrl(c) = p
  <2>1. Join(Field(8, c.card_id), Field(4, c.spent)) = p
    BY <1>1, Ends2
  <2> QED
    BY <2>1 DEF CardSpentSrl, IdSrl, AmountSrl, Join
<1>3. Puts2(p, 8, c.card_id, 4, c.spent, <<>>)
  BY <1>1, NoField, First2
<1> HIDE DEF p
<1>4. p[1].v = c.card_id /\ p[2].v = c.spent
  BY <1>3 DEF Puts2
<1>5. ToCardSpent(p) = c
  BY <1>1, <1>4 DEF ToCardSpent
<1>6. Read(p, <<8, 4>>, c) = Parsed(c) /\ p \in Payload /\ Len(p) = 2 /\ Bytes(p) = 12
  BY <1>3, NoField DEF Puts2
<1> QED
  BY <1>2, <1>5, <1>6

\* The fields of a member, and what is read of them.
LEMMA MemberFields ==
  ASSUME NEW m \in MemberOf
  PROVE  /\ MemberSrl(m) \in Payload /\ Len(MemberSrl(m)) = 2 /\ Bytes(MemberSrl(m)) = 14
         /\ Read(MemberSrl(m), <<8, 6>>, ToMember(MemberSrl(m))) = Parsed(m)
         /\ MemberSrl(m) = Put(8, m.id, Put(6, m.addr, <<>>)) /\ ToMember(MemberSrl(m)) = m
<1>1. m.id \in Int /\ m.addr \in Int /\ m = [id |-> m.id, addr |-> m.addr]
  BY DEF MemberOf
<1> DEFINE p == Put(8, m.id, Put(6, m.addr, <<>>))
<1>2. MemberSrl(m) = p
  <2>1. Join(Field(8, m.id), Field(6, m.addr)) = p
    BY <1>1, Ends2
  <2> QED
    BY <2>1 DEF MemberSrl, IdSrl, AddrSrl, Join
<1>3. Puts2(p, 8, m.id, 6, m.addr, <<>>)
  BY <1>1, NoField, First2
<1> HIDE DEF p
<1>4. p[1].v = m.id /\ p[2].v = m.addr
  BY <1>3 DEF Puts2
<1>5. ToMember(p) = m
  BY <1>1, <1>4 DEF ToMember
<1>6. Read(p, <<8, 6>>, m) = Parsed(m) /\ p \in Payload /\ Len(p) = 2 /\ Bytes(p) = 14
  BY <1>3, NoField DEF Puts2
<1> QED
  BY <1>2, <1>5, <1>6 DEF p

\* A vector of such elements, and a payload after it.
IsVec(p, seqs, k, b, t) ==
  LET n == Len(seqs)
  IN  /\ p \in Payload /\ p[1].v = n /\ Read(p, <<8>>, p[1].v) = Parsed(n)
      /\ \A i \in 1..n : SubSeq(p, 2 + (i - 1) * k, 1 + i * k) = seqs[i]
      /\ Rest(p, 1 + n * k) = t /\ Bytes(p) = 8 + n * b + Bytes(t)

\* A vector is its length and then its elements.
LEMMA VecPut ==
  \A n \in Nat, F \in Payload, t \in Payload :
    LenSrl(n) \o F \in Payload /\ (LenSrl(n) \o F) \o t = Put(8, n, F \o t)
<1> TAKE n \in Nat, F \in Payload, t \in Payload
<1>1. LenSrl(n) = Field(8, n) /\ Field(8, n) \in Payload /\ Put(8, n, F) \in Payload
      /\ Field(8, n) \o F = Put(8, n, F)
  BY JoinPut DEF LenSrl, Join
<1>2. Put(8, n, F) \o t = Put(8, n, F \o t)
  <2>1. Join(Put(8, n, F), t) = Put(8, n, Join(F, t))
    BY PutJoin
  <2> QED
    BY <2>1 DEF Join
<1> QED
  BY <1>1, <1>2

\* The parts of a vector are where its elements were put.
LEMMA VecParts ==
  ASSUME NEW k \in {2, 3, 4}, NEW b \in Nat, NEW seqs \in Seq(Payload), NEW t \in Payload,
         \A i \in 1..Len(seqs) : Len(seqs[i]) = k /\ Bytes(seqs[i]) = b
  PROVE  IsVec(Put(8, Len(seqs), FlattenSeq(seqs) \o t), seqs, k, b, t)
<1> DEFINE n == Len(seqs)
           F == FlattenSeq(seqs)
           s == F \o t
           p == Put(8, n, s)
<1>1. n \in Nat /\ k \in Nat /\ \A i \in 1..n : seqs[i] \in Payload
  OBVIOUS
<1>2. /\ F \in Payload /\ Len(F) = n * k /\ Bytes(F) = n * b
      /\ \A i \in Nat, l \in 1..k : i < n => F[i * k + l] = seqs[i + 1][l]
  BY Flatten
<1> HIDE DEF F
<1>3. s \in Payload /\ Bytes(s) = n * b + Bytes(t) /\ n * b \in Nat /\ Bytes(t) \in Nat
  BY <1>1, <1>2, BytesConcat, BytesType
<1>4. F \in Seq(Fields) /\ t \in Seq(Fields) /\ Len(F) \in Nat /\ Len(t) \in Nat
  BY <1>2 DEF Payload
<1>5. /\ Len(s) = Len(F) + Len(t)
      /\ \A x \in 1..(Len(F) + Len(t)) : s[x] = IF x <= Len(F) THEN F[x] ELSE t[x - Len(F)]
  BY <1>4, ConcatProperties
<1> HIDE DEF s
<1>6. Puts1(p, 8, n, s)
  BY <1>1, <1>3, FieldThen
<1>7. \A val : Read(p, <<8>>, val) = Parsed(val)
  BY <1>1, <1>3, First1
<1> HIDE DEF p
<1>8. p[1].v = n /\ Bytes(p) = 8 + n * b + Bytes(t) /\ p \in Payload
  <2>1. p[1].v = n /\ Bytes(p) = 8 + Bytes(s) /\ p \in Payload
    BY <1>6 DEF Puts1
  <2> QED
    BY <1>3, <2>1
<1>9. p \in Seq(Fields) /\ Len(p) = Len(s) + 1 /\ \A x \in 1..Len(s) : p[x + 1] = s[x]
  BY <1>6 DEF Puts1, Payload
<1>10. ASSUME NEW i \in 1..n PROVE SubSeq(p, 2 + (i - 1) * k, 1 + i * k) = seqs[i]
  <2>1. PICK j \in Nat : i = j + 1 /\ j < n
    <3>1. i - 1 \in Nat /\ i = (i - 1) + 1 /\ i - 1 < n
      BY <1>1
    <3> QED
      BY <3>1
  <2>2. j * k \in Nat /\ (j + 1) * k = j * k + k /\ j * k + k <= n * k /\ (i - 1) * k = j * k
    BY <1>1, <2>1, Times
  <2> DEFINE u == j * k
             q == SubSeq(p, 2 + u, 1 + u + k)
  <2>3. SubSeq(p, 2 + (i - 1) * k, 1 + i * k) = q
    BY <1>1, <2>1, <2>2
  <2>4. u \in Nat /\ u + k <= Len(F) /\ \A l \in 1..k : F[u + l] = seqs[i][l]
    BY <1>2, <2>1, <2>2
  <2> HIDE DEF u
  <2>5. 2 + u \in 1..Len(p) /\ 1 + u + k \in 1..Len(p) /\ (1 + u + k) - (2 + u) + 1 = k
    BY <1>1, <1>4, <1>5, <1>9, <2>4
  <2>6. q \in Seq(Fields) /\ Len(q) = k /\ \A l \in 1..k : q[l] = p[(2 + u) + l - 1]
    <3> DEFINE x == 2 + u
               y == 1 + u + k
    <3>1. x \in 1..Len(p) /\ y \in 1..Len(p) /\ y - x + 1 = k /\ Len(p) \in Nat /\ x <= y
      BY <1>1, <1>9, <2>4, <2>5
    <3> HIDE DEF x, y
    <3>2. x \in Int /\ y \in Int /\ \A i_1 \in x..y : p[i_1] \in Fields
      BY <1>9, <3>1
    <3>3. /\ SubSeq(p, x, y) \in Seq(Fields) /\ Len(SubSeq(p, x, y)) = IF x <= y THEN y - x + 1 ELSE 0
          /\ \A l \in 1..(y - x + 1) : SubSeq(p, x, y)[l] = p[x + l - 1]
      BY <3>2, SubSeqProperties
    <3>4. q = SubSeq(p, x, y)
      BY DEF x, y
    <3> QED
      BY <3>1, <3>3, <3>4 DEF x
  <2>7. ASSUME NEW l \in 1..k PROVE q[l] = seqs[i][l]
    <3>0. \A a, e, c, d \in Nat : e \in 1..c /\ a + c <= d =>
             a + e \in 1..d /\ a + e <= d /\ (2 + a) + e - 1 = (a + e) + 1
      OBVIOUS
    <3>1. u + l \in 1..Len(F) /\ u + l \in 1..Len(s) /\ u + l <= Len(F) /\ (2 + u) + l - 1 = (u + l) + 1
      <4>1. l \in Nat /\ k \in Nat /\ Len(F) \in Nat /\ Len(s) \in Nat /\ Len(F) <= Len(s)
        BY <1>1, <1>4, <1>5
      <4>2. u + k <= Len(s)
        BY <2>4, <4>1
      <4> QED
        BY <2>4, <3>0, <4>1, <4>2
    <3>2. p[(u + l) + 1] = s[u + l] /\ s[u + l] = F[u + l]
      BY <1>4, <1>5, <1>9, <3>1
    <3> QED
      BY <2>4, <2>6, <3>1, <3>2
  <2>8. seqs[i] \in Seq(Fields) /\ Len(seqs[i]) = k
    BY <1>1 DEF Payload
  <2> HIDE DEF q
  <2>9. q = seqs[i]
    BY <2>6, <2>7, <2>8, SeqEqual
  <2> QED
    BY <2>3, <2>9
<1>11. Rest(p, 1 + n * k) = t
  <2> DEFINE u == n * k
             q == SubSeq(p, 2 + u, Len(p))
  <2>1. u \in Nat /\ u = Len(F) /\ Len(p) = 1 + u + Len(t)
    BY <1>1, <1>2, <1>4, <1>5, <1>9
  <2>2. Rest(p, 1 + n * k) = q
    BY <1>1, <2>1 DEF Rest
  <2> HIDE DEF u
  <2>3. q \in Seq(Fields) /\ Len(q) = Len(t) /\ \A l \in 1..Len(t) : q[l] = p[(2 + u) + l - 1]
    BY <1>4, <1>9, <2>1
  <2>4. ASSUME NEW l \in 1..Len(t) PROVE q[l] = t[l]
    <3>1. u + l \in 1..Len(s) /\ ~(u + l <= Len(F)) /\ (2 + u) + l - 1 = (u + l) + 1 /\ (u + l) - Len(F) = l
      BY <1>4, <1>5, <2>1
    <3>2. p[(u + l) + 1] = s[u + l] /\ s[u + l] = t[l]
      BY <1>4, <1>5, <1>9, <3>1
    <3> QED
      BY <2>3, <3>1, <3>2
  <2> HIDE DEF q
  <2>5. q = t
    BY <1>4, <2>3, <2>4, SeqEqual
  <2> QED
    BY <2>2, <2>5
<1> QED
  BY <1>7, <1>8, <1>10, <1>11 DEF IsVec, p, s, F

\* What is read of the vectors.
LEMMA AccountsRead ==
  ASSUME NEW vec \in Seq(AccountSnapshot), NEW t \in Payload
  PROVE  /\ AccountsSrl(vec) \in Payload /\ AccountsSrl(vec) \o t \in Payload
         /\ ReadAccounts(AccountsSrl(vec) \o t) = Parsed([vec |-> vec, rest |-> t])
         /\ Bytes(AccountsSrl(vec) \o t) = 8 + Len(vec) * 16 + Bytes(t)
         /\ (AccountsSrl(vec) \o t)[1].v = Len(vec)
<1> DEFINE n == Len(vec)
           seqs == [i \in 1..n |-> AccountSrl(vec[i])]
           p == AccountsSrl(vec) \o t
<1>1. n \in Nat /\ DOMAIN vec = 1..n /\ \A i \in 1..n : vec[i] \in AccountSnapshot
  OBVIOUS
<1>2. \A i \in 1..n : AccountSrl(vec[i]) \in Payload /\ Len(AccountSrl(vec[i])) = 3 /\ Bytes(AccountSrl(vec[i])) = 16
  BY <1>1, AccountFields
<1>3. seqs \in Seq(Payload) /\ Len(seqs) = n /\ \A i \in 1..n : seqs[i] = AccountSrl(vec[i])
  BY <1>1, <1>2
<1>4. AccountsSrl(vec) = LenSrl(n) \o FlattenSeq(seqs)
  BY <1>1 DEF AccountsSrl, VecSrl
<1> HIDE DEF seqs
<1>5. \A i \in 1..Len(seqs) : Len(seqs[i]) = 3 /\ Bytes(seqs[i]) = 16
  BY <1>2, <1>3
<1>6. 3 \in {2, 3, 4} /\ 16 \in Nat
  OBVIOUS
<1>7. FlattenSeq(seqs) \in Payload
  BY <1>3, <1>5, <1>6, Flatten
<1>8. AccountsSrl(vec) \in Payload /\ p = Put(8, n, FlattenSeq(seqs) \o t)
  <2>1. LenSrl(n) \o FlattenSeq(seqs) \in Payload
        /\ (LenSrl(n) \o FlattenSeq(seqs)) \o t = Put(8, n, FlattenSeq(seqs) \o t)
    BY <1>1, <1>7, VecPut, Zenon
  <2> QED
    BY <1>4, <2>1
<1> HIDE DEF p
<1>9. IsVec(p, seqs, 3, 16, t)
  BY <1>3, <1>5, <1>6, <1>8, VecParts
<1>10. Read(p, <<8>>, p[1].v) = Parsed(n)
  BY <1>3, <1>9 DEF IsVec
<1> DEFINE N == Read(p, <<8>>, p[1].v).value
           widths == SnapshotLayout.accounts
           part(i) == SubSeq(p, 2 + (i - 1) * Len(widths), 1 + i * Len(widths))
           reads == [i \in 1..N |-> Read(part(i), widths, ToAccount(part(i)))]
           bad == CHOOSE i \in 1..N : reads[i].kind # "ok" /\ \A j \in 1..i-1 : reads[j].kind = "ok"
<1>11. ReadAccounts(p) = IF Read(p, <<8>>, p[1].v).kind = "ok"
         THEN IF \E i \in 1..N : reads[i].kind # "ok" THEN reads[bad]
              ELSE Parsed([vec |-> [i \in 1..N |-> reads[i].value], rest |-> Rest(p, 1 + N * Len(widths))])
         ELSE Read(p, <<8>>, p[1].v)
  BY DEF ReadAccounts, ReadVec, Then
<1>12. N = n /\ widths = <<8, 4, 4>> /\ Len(widths) = 3
  BY <1>10 DEF Parsed, SnapshotLayout
<1>13. \A i \in 1..N : reads[i] = [kind |-> "ok", value |-> vec[i]]
  <2> TAKE i \in 1..N
  <2>1. part(i) = AccountSrl(vec[i])
    BY <1>3, <1>9, <1>12 DEF IsVec
  <2>2. Read(AccountSrl(vec[i]), <<8, 4, 4>>, ToAccount(AccountSrl(vec[i]))) = Parsed(vec[i])
    BY <1>1, <1>12, AccountFields
  <2>3. reads[i] = Read(part(i), widths, ToAccount(part(i)))
    OBVIOUS
  <2> HIDE DEF reads, part, widths
  <2> QED
    BY <1>12, <2>1, <2>2, <2>3 DEF Parsed
<1> HIDE DEF reads, N, widths, bad
<1>14. ~\E i \in 1..N : reads[i].kind # "ok"
  <2> SUFFICES ASSUME NEW i \in 1..N PROVE reads[i].kind = "ok"
    OBVIOUS
  <2>1. reads[i] = [kind |-> "ok", value |-> vec[i]]
    BY <1>13
  <2> QED
    BY <2>1
<1>15. [i \in 1..N |-> reads[i].value] = vec
  <2>1. ASSUME NEW i \in 1..N PROVE reads[i].value = vec[i]
    <3>1. reads[i] = [kind |-> "ok", value |-> vec[i]]
      BY <1>13
    <3> QED
      BY <3>1
  <2> QED
    BY <1>1, <1>12, <2>1
<1>16. Rest(p, 1 + N * Len(widths)) = t
  BY <1>3, <1>9, <1>12 DEF IsVec
<1>17. Read(p, <<8>>, p[1].v).kind = "ok"
  BY <1>10 DEF Parsed
<1>18. ReadAccounts(p) = Parsed([vec |-> vec, rest |-> t])
  BY <1>11, <1>14, <1>15, <1>16, <1>17
<1>19. Bytes(p) = 8 + n * 16 + Bytes(t) /\ p[1].v = n /\ p \in Payload
  BY <1>3, <1>9 DEF IsVec
<1> QED
  BY <1>8, <1>18, <1>19 DEF p

\* The cards of a snapshot.
LEMMA CardsRead ==
  ASSUME NEW vec \in Seq(CardSnapshot), NEW t \in Payload
  PROVE  /\ CardsSrl(vec) \in Payload /\ CardsSrl(vec) \o t \in Payload
         /\ ReadCards(CardsSrl(vec) \o t) = Parsed([vec |-> vec, rest |-> t])
         /\ Bytes(CardsSrl(vec) \o t) = 8 + Len(vec) * 24 + Bytes(t)
         /\ (CardsSrl(vec) \o t)[1].v = Len(vec)
<1> DEFINE n == Len(vec)
           seqs == [i \in 1..n |-> CardSrl(vec[i])]
           p == CardsSrl(vec) \o t
<1>1. n \in Nat /\ DOMAIN vec = 1..n /\ \A i \in 1..n : vec[i] \in CardSnapshot
  OBVIOUS
<1>2. \A i \in 1..n : CardSrl(vec[i]) \in Payload /\ Len(CardSrl(vec[i])) = 4 /\ Bytes(CardSrl(vec[i])) = 24
  BY <1>1, CardFields
<1>3. seqs \in Seq(Payload) /\ Len(seqs) = n /\ \A i \in 1..n : seqs[i] = CardSrl(vec[i])
  BY <1>1, <1>2
<1>4. CardsSrl(vec) = LenSrl(n) \o FlattenSeq(seqs)
  BY <1>1 DEF CardsSrl, VecSrl
<1> HIDE DEF seqs
<1>5. \A i \in 1..Len(seqs) : Len(seqs[i]) = 4 /\ Bytes(seqs[i]) = 24
  BY <1>2, <1>3
<1>6. 4 \in {2, 3, 4} /\ 24 \in Nat
  OBVIOUS
<1>7. FlattenSeq(seqs) \in Payload
  BY <1>3, <1>5, <1>6, Flatten
<1>8. CardsSrl(vec) \in Payload /\ p = Put(8, n, FlattenSeq(seqs) \o t)
  <2>1. LenSrl(n) \o FlattenSeq(seqs) \in Payload
        /\ (LenSrl(n) \o FlattenSeq(seqs)) \o t = Put(8, n, FlattenSeq(seqs) \o t)
    BY <1>1, <1>7, VecPut, Zenon
  <2> QED
    BY <1>4, <2>1
<1> HIDE DEF p
<1>9. IsVec(p, seqs, 4, 24, t)
  BY <1>3, <1>5, <1>6, <1>8, VecParts
<1>10. Read(p, <<8>>, p[1].v) = Parsed(n)
  BY <1>3, <1>9 DEF IsVec
<1> DEFINE N == Read(p, <<8>>, p[1].v).value
           widths == SnapshotLayout.cards
           part(i) == SubSeq(p, 2 + (i - 1) * Len(widths), 1 + i * Len(widths))
           reads == [i \in 1..N |-> Read(part(i), widths, ToCard(part(i)))]
           bad == CHOOSE i \in 1..N : reads[i].kind # "ok" /\ \A j \in 1..i-1 : reads[j].kind = "ok"
<1>11. ReadCards(p) = IF Read(p, <<8>>, p[1].v).kind = "ok"
         THEN IF \E i \in 1..N : reads[i].kind # "ok" THEN reads[bad]
              ELSE Parsed([vec |-> [i \in 1..N |-> reads[i].value], rest |-> Rest(p, 1 + N * Len(widths))])
         ELSE Read(p, <<8>>, p[1].v)
  BY DEF ReadCards, ReadVec, Then
<1>12. N = n /\ widths = <<8, 8, 4, 4>> /\ Len(widths) = 4
  BY <1>10 DEF Parsed, SnapshotLayout
<1>13. \A i \in 1..N : reads[i] = [kind |-> "ok", value |-> vec[i]]
  <2> TAKE i \in 1..N
  <2>1. part(i) = CardSrl(vec[i])
    BY <1>3, <1>9, <1>12 DEF IsVec
  <2>2. Read(CardSrl(vec[i]), <<8, 8, 4, 4>>, ToCard(CardSrl(vec[i]))) = Parsed(vec[i])
    BY <1>1, <1>12, CardFields
  <2>3. reads[i] = Read(part(i), widths, ToCard(part(i)))
    OBVIOUS
  <2> HIDE DEF reads, part, widths
  <2> QED
    BY <1>12, <2>1, <2>2, <2>3 DEF Parsed
<1> HIDE DEF reads, N, widths, bad
<1>14. ~\E i \in 1..N : reads[i].kind # "ok"
  <2> SUFFICES ASSUME NEW i \in 1..N PROVE reads[i].kind = "ok"
    OBVIOUS
  <2>1. reads[i] = [kind |-> "ok", value |-> vec[i]]
    BY <1>13
  <2> QED
    BY <2>1
<1>15. [i \in 1..N |-> reads[i].value] = vec
  <2>1. ASSUME NEW i \in 1..N PROVE reads[i].value = vec[i]
    <3>1. reads[i] = [kind |-> "ok", value |-> vec[i]]
      BY <1>13
    <3> QED
      BY <3>1
  <2> QED
    BY <1>1, <1>12, <2>1
<1>16. Rest(p, 1 + N * Len(widths)) = t
  BY <1>3, <1>9, <1>12 DEF IsVec
<1>17. Read(p, <<8>>, p[1].v).kind = "ok"
  BY <1>10 DEF Parsed
<1>18. ReadCards(p) = Parsed([vec |-> vec, rest |-> t])
  BY <1>11, <1>14, <1>15, <1>16, <1>17
<1>19. Bytes(p) = 8 + n * 24 + Bytes(t) /\ p[1].v = n /\ p \in Payload
  BY <1>3, <1>9 DEF IsVec
<1> QED
  BY <1>8, <1>18, <1>19 DEF p

\* What the cards of an account have spent.
LEMMA SpentRead ==
  ASSUME NEW vec \in Seq(Spent), NEW t \in Payload
  PROVE  /\ SpentSrl(vec) \in Payload /\ SpentSrl(vec) \o t \in Payload
         /\ ReadSpent(SpentSrl(vec) \o t) = Parsed([vec |-> vec, rest |-> t])
         /\ Bytes(SpentSrl(vec) \o t) = 8 + Len(vec) * 12 + Bytes(t)
         /\ (SpentSrl(vec) \o t)[1].v = Len(vec)
<1> DEFINE n == Len(vec)
           seqs == [i \in 1..n |-> CardSpentSrl(vec[i])]
           p == SpentSrl(vec) \o t
<1>1. n \in Nat /\ DOMAIN vec = 1..n /\ \A i \in 1..n : vec[i] \in Spent
  OBVIOUS
<1>2. \A i \in 1..n : CardSpentSrl(vec[i]) \in Payload /\ Len(CardSpentSrl(vec[i])) = 2 /\ Bytes(CardSpentSrl(vec[i])) = 12
  BY <1>1, CardSpentFields
<1>3. seqs \in Seq(Payload) /\ Len(seqs) = n /\ \A i \in 1..n : seqs[i] = CardSpentSrl(vec[i])
  BY <1>1, <1>2
<1>4. SpentSrl(vec) = LenSrl(n) \o FlattenSeq(seqs)
  BY <1>1 DEF SpentSrl, VecSrl
<1> HIDE DEF seqs
<1>5. \A i \in 1..Len(seqs) : Len(seqs[i]) = 2 /\ Bytes(seqs[i]) = 12
  BY <1>2, <1>3
<1>6. 2 \in {2, 3, 4} /\ 12 \in Nat
  OBVIOUS
<1>7. FlattenSeq(seqs) \in Payload
  BY <1>3, <1>5, <1>6, Flatten
<1>8. SpentSrl(vec) \in Payload /\ p = Put(8, n, FlattenSeq(seqs) \o t)
  <2>1. LenSrl(n) \o FlattenSeq(seqs) \in Payload
        /\ (LenSrl(n) \o FlattenSeq(seqs)) \o t = Put(8, n, FlattenSeq(seqs) \o t)
    BY <1>1, <1>7, VecPut, Zenon
  <2> QED
    BY <1>4, <2>1
<1> HIDE DEF p
<1>9. IsVec(p, seqs, 2, 12, t)
  BY <1>3, <1>5, <1>6, <1>8, VecParts
<1>10. Read(p, <<8>>, p[1].v) = Parsed(n)
  BY <1>3, <1>9 DEF IsVec
<1> DEFINE N == Read(p, <<8>>, p[1].v).value
           widths == <<8, 4>>
           part(i) == SubSeq(p, 2 + (i - 1) * Len(widths), 1 + i * Len(widths))
           reads == [i \in 1..N |-> Read(part(i), widths, ToCardSpent(part(i)))]
           bad == CHOOSE i \in 1..N : reads[i].kind # "ok" /\ \A j \in 1..i-1 : reads[j].kind = "ok"
<1>11. ReadSpent(p) = IF Read(p, <<8>>, p[1].v).kind = "ok"
         THEN IF \E i \in 1..N : reads[i].kind # "ok" THEN reads[bad]
              ELSE Parsed([vec |-> [i \in 1..N |-> reads[i].value], rest |-> Rest(p, 1 + N * Len(widths))])
         ELSE Read(p, <<8>>, p[1].v)
  BY DEF ReadSpent, ReadVec, Then
<1>12. N = n /\ widths = <<8, 4>> /\ Len(widths) = 2
  BY <1>10 DEF Parsed
<1>13. \A i \in 1..N : reads[i] = [kind |-> "ok", value |-> vec[i]]
  <2> TAKE i \in 1..N
  <2>1. part(i) = CardSpentSrl(vec[i])
    BY <1>3, <1>9, <1>12 DEF IsVec
  <2>2. Read(CardSpentSrl(vec[i]), <<8, 4>>, ToCardSpent(CardSpentSrl(vec[i]))) = Parsed(vec[i])
    BY <1>1, <1>12, CardSpentFields
  <2>3. reads[i] = Read(part(i), widths, ToCardSpent(part(i)))
    OBVIOUS
  <2> HIDE DEF reads, part, widths
  <2> QED
    BY <1>12, <2>1, <2>2, <2>3 DEF Parsed
<1> HIDE DEF reads, N, widths, bad
<1>14. ~\E i \in 1..N : reads[i].kind # "ok"
  <2> SUFFICES ASSUME NEW i \in 1..N PROVE reads[i].kind = "ok"
    OBVIOUS
  <2>1. reads[i] = [kind |-> "ok", value |-> vec[i]]
    BY <1>13
  <2> QED
    BY <2>1
<1>15. [i \in 1..N |-> reads[i].value] = vec
  <2>1. ASSUME NEW i \in 1..N PROVE reads[i].value = vec[i]
    <3>1. reads[i] = [kind |-> "ok", value |-> vec[i]]
      BY <1>13
    <3> QED
      BY <3>1
  <2> QED
    BY <1>1, <1>12, <2>1
<1>16. Rest(p, 1 + N * Len(widths)) = t
  BY <1>3, <1>9, <1>12 DEF IsVec
<1>17. Read(p, <<8>>, p[1].v).kind = "ok"
  BY <1>10 DEF Parsed
<1>18. ReadSpent(p) = Parsed([vec |-> vec, rest |-> t])
  BY <1>11, <1>14, <1>15, <1>16, <1>17
<1>19. Bytes(p) = 8 + n * 12 + Bytes(t) /\ p[1].v = n /\ p \in Payload
  BY <1>3, <1>9 DEF IsVec
<1> QED
  BY <1>8, <1>18, <1>19 DEF p

\* The members of a ClusterView.
LEMMA MembersRead ==
  ASSUME NEW vec \in Seq(MemberOf), NEW t \in Payload
  PROVE  /\ MembersSrl(vec) \in Payload /\ MembersSrl(vec) \o t \in Payload
         /\ ReadMembers(MembersSrl(vec) \o t) = Parsed([vec |-> vec, rest |-> t])
         /\ Bytes(MembersSrl(vec) \o t) = 8 + Len(vec) * 14 + Bytes(t)
         /\ (MembersSrl(vec) \o t)[1].v = Len(vec)
<1> DEFINE n == Len(vec)
           seqs == [i \in 1..n |-> MemberSrl(vec[i])]
           p == MembersSrl(vec) \o t
<1>1. n \in Nat /\ DOMAIN vec = 1..n /\ \A i \in 1..n : vec[i] \in MemberOf
  OBVIOUS
<1>2. \A i \in 1..n : MemberSrl(vec[i]) \in Payload /\ Len(MemberSrl(vec[i])) = 2 /\ Bytes(MemberSrl(vec[i])) = 14
  BY <1>1, MemberFields
<1>3. seqs \in Seq(Payload) /\ Len(seqs) = n /\ \A i \in 1..n : seqs[i] = MemberSrl(vec[i])
  BY <1>1, <1>2
<1>4. MembersSrl(vec) = LenSrl(n) \o FlattenSeq(seqs)
  BY <1>1 DEF MembersSrl, VecSrl
<1> HIDE DEF seqs
<1>5. \A i \in 1..Len(seqs) : Len(seqs[i]) = 2 /\ Bytes(seqs[i]) = 14
  BY <1>2, <1>3
<1>6. 2 \in {2, 3, 4} /\ 14 \in Nat
  OBVIOUS
<1>7. FlattenSeq(seqs) \in Payload
  BY <1>3, <1>5, <1>6, Flatten
<1>8. MembersSrl(vec) \in Payload /\ p = Put(8, n, FlattenSeq(seqs) \o t)
  <2>1. LenSrl(n) \o FlattenSeq(seqs) \in Payload
        /\ (LenSrl(n) \o FlattenSeq(seqs)) \o t = Put(8, n, FlattenSeq(seqs) \o t)
    BY <1>1, <1>7, VecPut, Zenon
  <2> QED
    BY <1>4, <2>1
<1> HIDE DEF p
<1>9. IsVec(p, seqs, 2, 14, t)
  BY <1>3, <1>5, <1>6, <1>8, VecParts
<1>10. Read(p, <<8>>, p[1].v) = Parsed(n)
  BY <1>3, <1>9 DEF IsVec
<1> DEFINE N == Read(p, <<8>>, p[1].v).value
           widths == <<8, 6>>
           part(i) == SubSeq(p, 2 + (i - 1) * Len(widths), 1 + i * Len(widths))
           reads == [i \in 1..N |-> Read(part(i), widths, ToMember(part(i)))]
           bad == CHOOSE i \in 1..N : reads[i].kind # "ok" /\ \A j \in 1..i-1 : reads[j].kind = "ok"
<1>11. ReadMembers(p) = IF Read(p, <<8>>, p[1].v).kind = "ok"
         THEN IF \E i \in 1..N : reads[i].kind # "ok" THEN reads[bad]
              ELSE Parsed([vec |-> [i \in 1..N |-> reads[i].value], rest |-> Rest(p, 1 + N * Len(widths))])
         ELSE Read(p, <<8>>, p[1].v)
  BY DEF ReadMembers, ReadVec, Then
<1>12. N = n /\ widths = <<8, 6>> /\ Len(widths) = 2
  BY <1>10 DEF Parsed
<1>13. \A i \in 1..N : reads[i] = [kind |-> "ok", value |-> vec[i]]
  <2> TAKE i \in 1..N
  <2>1. part(i) = MemberSrl(vec[i])
    BY <1>3, <1>9, <1>12 DEF IsVec
  <2>2. Read(MemberSrl(vec[i]), <<8, 6>>, ToMember(MemberSrl(vec[i]))) = Parsed(vec[i])
    BY <1>1, <1>12, MemberFields
  <2>3. reads[i] = Read(part(i), widths, ToMember(part(i)))
    OBVIOUS
  <2> HIDE DEF reads, part, widths
  <2> QED
    BY <1>12, <2>1, <2>2, <2>3 DEF Parsed
<1> HIDE DEF reads, N, widths, bad
<1>14. ~\E i \in 1..N : reads[i].kind # "ok"
  <2> SUFFICES ASSUME NEW i \in 1..N PROVE reads[i].kind = "ok"
    OBVIOUS
  <2>1. reads[i] = [kind |-> "ok", value |-> vec[i]]
    BY <1>13
  <2> QED
    BY <2>1
<1>15. [i \in 1..N |-> reads[i].value] = vec
  <2>1. ASSUME NEW i \in 1..N PROVE reads[i].value = vec[i]
    <3>1. reads[i] = [kind |-> "ok", value |-> vec[i]]
      BY <1>13
    <3> QED
      BY <3>1
  <2> QED
    BY <1>1, <1>12, <2>1
<1>16. Rest(p, 1 + N * Len(widths)) = t
  BY <1>3, <1>9, <1>12 DEF IsVec
<1>17. Read(p, <<8>>, p[1].v).kind = "ok"
  BY <1>10 DEF Parsed
<1>18. ReadMembers(p) = Parsed([vec |-> vec, rest |-> t])
  BY <1>11, <1>14, <1>15, <1>16, <1>17
<1>19. Bytes(p) = 8 + n * 14 + Bytes(t) /\ p[1].v = n /\ p \in Payload
  BY <1>3, <1>9 DEF IsVec
<1> QED
  BY <1>8, <1>18, <1>19 DEF p

\* The same read, behind a check of its own.
LEMMA Checked1 ==
  \A a \in Nat, va \in Int, s \in Payload :
    \A val : ReadChecked(Put(a, va, s), a, val) = Parsed(val)
BY First1

\* A snapshot of the database, and what a deserializer that goes on makes of a read.
LEMMA ParsedIs == \A v : Parsed(v).kind = "ok" /\ Parsed(v).value = v
BY DEF Parsed

\* A snapshot of the database is read as it was written.
LEMMA SnapshotRead ==
  ASSUME NEW s \in DatabaseSnapshot
  PROVE  SnapshotSrl(s) \in Payload /\ ToSnapshot(SnapshotSrl(s)) = Parsed(s)
<1>1. PICK addr \in Nat, accounts \in Seq(AccountSnapshot), cards \in Seq(CardSnapshot) :
        s = [addr |-> addr, accounts |-> accounts, cards |-> cards]
  BY DEF DatabaseSnapshot
<1> DEFINE A == AccountsSrl(accounts)
           C == CardsSrl(cards)
           p == Put(6, addr, Join(A, C))
<1>2. C \in Payload /\ ReadCards(C \o <<>>) = Parsed([vec |-> cards, rest |-> <<>>])
  BY CardsRead, NoField
<1>3. C \o <<>> = C
  BY <1>2 DEF Payload
<1>4. A \in Payload /\ ReadAccounts(A \o C) = Parsed([vec |-> accounts, rest |-> C])
  BY <1>2, AccountsRead
<1>5. ReadAccounts(Join(A, C)) = Parsed([vec |-> accounts, rest |-> C])
  BY <1>4 DEF Join
<1>6. ReadCards(C) = Parsed([vec |-> cards, rest |-> <<>>])
  BY <1>2, <1>3
<1>7. SnapshotSrl(s) = Join(Join(Field(6, addr), A), C)
  BY <1>1 DEF SnapshotSrl, AddrSrl, Join
<1> HIDE DEF A, C
<1>8. Join(A, C) \in Payload /\ Field(6, addr) \in Payload
  BY <1>2, <1>4, JoinJoin, OneField
<1>9. Join(Join(Field(6, addr), A), C) = p
  <2>1. Join(Join(Field(6, addr), A), C) = Join(Field(6, addr), Join(A, C))
    BY <1>2, <1>4, <1>8, JoinJoin
  <2> QED
    BY <1>8, <2>1, JoinPut
<1>10. Puts1(p, 6, addr, Join(A, C)) /\ \A val : ReadChecked(p, 6, val) = Parsed(val)
  <2>1. PICK t \in Payload : t = Join(A, C)
    BY <1>8
  <2>2. Puts1(Put(6, addr, t), 6, addr, t)
    BY FieldThen
  <2>3. \A val : ReadChecked(Put(6, addr, t), 6, val) = Parsed(val)
    BY Checked1
  <2> QED
    BY <2>1, <2>2, <2>3
<1> HIDE DEF p
<1>11. p \in Payload /\ ReadChecked(p, 6, p[1].v) = Parsed(addr) /\ Rest(p, 1) = Join(A, C)
  BY <1>10 DEF Puts1
<1>12. ToSnapshot(p) = Parsed(s)
  <2> DEFINE Ra == ReadChecked(p, 6, p[1].v)
             Rb == ReadAccounts(Rest(p, 1))
  <2>1. Ra.kind = "ok" /\ Ra.value = addr /\ Rb.kind = "ok" /\ Rb.value = [vec |-> accounts, rest |-> C]
    BY <1>5, <1>11, ParsedIs
  <2>2. ToSnapshot(p) = Then(Ra, LAMBDA x : Then(Rb, LAMBDA a : Then(ReadCards(a.rest), LAMBDA c :
           Parsed([addr |-> x, accounts |-> a.vec, cards |-> c.vec]))))
    BY DEF ToSnapshot
  <2> HIDE DEF Ra, Rb
  <2>3. Rb.value.rest = C /\ Rb.value.vec = accounts
    BY <2>1
  <2>4. ReadCards(Rb.value.rest).kind = "ok" /\ ReadCards(Rb.value.rest).value.vec = cards
    BY <1>6, <2>3, ParsedIs
  <2> QED
    BY <1>1, <2>1, <2>2, <2>3, <2>4 DEF Then
<1> QED
  BY <1>7, <1>9, <1>11, <1>12

-----------------------------------------------------------------------------
(* Operations *)

\* The byte of the type, before what it announces.
LEMMA Typed ==
  \A k \in Nat, f \in Payload :
    /\ Put(1, k, f) \in Payload /\ Put(1, k, f)[1].v = k /\ Rest(Put(1, k, f), 1) = f
    /\ Bytes(Put(1, k, f)) = 1 + Bytes(f) /\ Bytes(f) \in Nat
<1> TAKE k \in Nat, f \in Payload
<1>1. Puts1(Put(1, k, f), 1, k, f)
  BY FieldThen
<1> DEFINE p == Put(1, k, f)
<1> HIDE DEF p
<1>2. p \in Payload /\ p[1].v = k /\ Rest(p, 1) = f /\ Bytes(p) = 1 + Bytes(f) /\ Bytes(f) \in Nat
  BY <1>1 DEF p, Puts1
<1> QED
  BY <1>2 DEF p

\* The check of the length of an operation passes when nothing follows.
LEMMA Exact ==
  /\ \A a \in Nat, va \in Int :
       \A val : Exactly(Put(a, va, <<>>), <<a>>, val) = Parsed(val)
  /\ \A a \in Nat, va \in Int, b \in Nat, vb \in Int :
       \A val : Exactly(Put(a, va, Put(b, vb, <<>>)), <<a, b>>, val) = Parsed(val)
<1>0. <<>> \in Payload /\ Bytes(<<>>) = 0
  BY NoField
<1>1. ASSUME NEW a \in Nat, NEW va \in Int, NEW val
      PROVE  Exactly(Put(a, va, <<>>), <<a>>, val) = Parsed(val)
  <2> DEFINE p == Put(a, va, <<>>)
  <2>1. Puts1(p, a, va, <<>>) /\ Read(p, <<a>>, val) = Parsed(val)
    BY <1>0, FieldThen, First1
  <2> HIDE DEF p
  <2>2. Bytes(p) = a
    BY <1>0, <2>1 DEF Puts1
  <2>3. Width(<<a>>) = a
    BY Widths
  <2>4. Exactly(p, <<a>>, val) = Parsed(val)
    BY <2>1, <2>2, <2>3 DEF Exactly
  <2> QED
    BY <2>4 DEF p
<1>2. ASSUME NEW a \in Nat, NEW va \in Int, NEW b \in Nat, NEW vb \in Int, NEW val
      PROVE  Exactly(Put(a, va, Put(b, vb, <<>>)), <<a, b>>, val) = Parsed(val)
  <2> DEFINE p == Put(a, va, Put(b, vb, <<>>))
  <2>1. Puts2(p, a, va, b, vb, <<>>)
    BY <1>0, First2
  <2> HIDE DEF p
  <2>2. Bytes(p) = a + b /\ Read(p, <<a, b>>, val) = Parsed(val)
    BY <1>0, <2>1 DEF Puts2
  <2>3. Width(<<a, b>>) = a + b
    BY Widths
  <2>4. Exactly(p, <<a, b>>, val) = Parsed(val)
    BY <2>2, <2>3 DEF Exactly
  <2> QED
    BY <2>4 DEF p
<1> QED
  BY <1>1, <1>2

\* The same check for three fields.
LEMMA Exact3 ==
  \A a, va, b, vb, c, vc :
    IsField(a, va) /\ IsField(b, vb) /\ IsField(c, vc) =>
      \A val : Exactly(Put(a, va, Put(b, vb, Put(c, vc, <<>>))), <<a, b, c>>, val) = Parsed(val)
<1> SUFFICES ASSUME NEW a \in Nat, NEW va \in Int, NEW b \in Nat, NEW vb \in Int,
                    NEW c \in Nat, NEW vc \in Int
             PROVE  \A val : Exactly(Put(a, va, Put(b, vb, Put(c, vc, <<>>))), <<a, b, c>>, val) = Parsed(val)
  BY DEF IsField
<1>0. <<>> \in Payload /\ Bytes(<<>>) = 0
  BY NoField
<1>1. ASSUME NEW val
      PROVE  Exactly(Put(a, va, Put(b, vb, Put(c, vc, <<>>))), <<a, b, c>>, val) = Parsed(val)
  <2> DEFINE p == Put(a, va, Put(b, vb, Put(c, vc, <<>>)))
  <2>1. Puts3(p, a, va, b, vb, c, vc, <<>>)
    <3>1. IsField(a, va) /\ IsField(b, vb) /\ IsField(c, vc)
      BY DEF IsField
    <3> QED
      BY <3>1, <1>0, First3
  <2> HIDE DEF p
  <2>2. Bytes(p) = a + b + c /\ Read(p, <<a, b, c>>, val) = Parsed(val)
    BY <1>0, <2>1 DEF Puts3
  <2>3. Width(<<a, b, c>>) = a + b + c
    BY Widths
  <2>4. Exactly(p, <<a, b, c>>, val) = Parsed(val)
    BY <2>2, <2>3 DEF Exactly
  <2> QED
    BY <2>4 DEF p
<1> QED
  BY <1>1

\* The text of a period is read unless the byte of its length is no text.
Unprintable(period) == \E i \in DOMAIN period : period[i] % 256 >= 128

\* What is read of a period.
LEMMA PeriodRead ==
  ASSUME NEW period \in Option(Nat \ {0})
  PROVE  /\ PeriodSrl(period) \in Payload
         /\ ToPeriod(PeriodSrl(period)) = IF Unprintable(period) THEN Invalid ELSE Parsed(period)
<1>1. CASE period = <<>>
  <2>1. PeriodSrl(period) = Put(1, 0, <<>>)
    BY <1>1, OneField DEF PeriodSrl, Byte
  <2>2. Puts1(Put(1, 0, <<>>), 1, 0, <<>>)
    BY NoField, FieldThen
  <2> DEFINE p == Put(1, 0, <<>>)
  <2> HIDE DEF p
  <2>3. p \in Payload /\ Len(p) = 1 /\ p[1].v = 0
    BY <2>2, NoField DEF Puts1, p
  <2>4. ToPeriod(p) = Parsed(<<>>)
    BY <2>3 DEF ToPeriod
  <2> QED
    BY <1>1, <2>1, <2>3, <2>4 DEF Unprintable, p
<1>2. CASE period # <<>>
  <2>1. PICK n \in Nat \ {0} : period = <<n>>
    BY <1>2, OptionIs
  <2>2. n % 256 \in Int /\ 0 <= n % 256
    OBVIOUS
  <2>3. PeriodSrl(period) = Join(Field(1, n % 256), Field(n, n))
    BY <2>1 DEF PeriodSrl, Byte, Join
  <2>4. Join(Field(1, n % 256), Field(n, n)) = Put(1, n % 256, Put(n, n, <<>>))
    BY <2>2, Ends2
  <2> DEFINE p == Put(1, n % 256, Put(n, n, <<>>))
  <2>5. Puts2(p, 1, n % 256, n, n, <<>>)
    BY <2>2, NoField, First2
  <2> HIDE DEF p
  <2>6. p \in Payload /\ Len(p) = 2 /\ p[1].v = n % 256 /\ p[2].v = n
    BY <2>5, NoField DEF Puts2
  <2>7. p # <<>>
    <3>1. Len(<<>>) = 0
      BY NoField
    <3>2. 2 # 0
      OBVIOUS
    <3> QED
      BY <2>6, <3>1, <3>2, Zenon
  <2>8. ToPeriod(p) = IF n % 256 >= 128 THEN Invalid ELSE Parsed(<<n>>)
    BY <2>6, <2>7 DEF ToPeriod
  <2>9. Unprintable(period) <=> n % 256 >= 128
    BY <2>1 DEF Unprintable
  <2> QED
    BY <2>1, <2>3, <2>4, <2>6, <2>8, <2>9 DEF p
<1> QED
  BY <1>1, <1>2

\* The fields of a Charge
LEMMA ChargeFields ==
  \A id \in Int, card \in Int, amount \in Int, b \in Int :
    Puts4(Put(8, id, Put(8, card, Put(4, amount, Put(1, b, <<>>)))), 8, id, 8, card, 4, amount, 1, b, <<>>)
<1> TAKE id \in Int, card \in Int, amount \in Int, b \in Int
<1>1. \A s \in Payload :
        Puts4(Put(8, id, Put(8, card, Put(4, amount, Put(1, b, s)))), 8, id, 8, card, 4, amount, 1, b, s)
  <2>1. IsField(8, id) /\ IsField(8, card) /\ IsField(4, amount) /\ IsField(1, b)
    BY DEF IsField
  <2> QED
    BY <2>1, First4
<1> QED
  BY <1>1, NoField

\* A Charge; the byte of the flag is 0 or 1.
LEMMA ChargeRead ==
  ASSUME NEW op \in [type : {"Charge"}, account_id : Nat, card_id : Nat, amount : Nat,
                     from_offline_station : BOOLEAN]
  PROVE  OperationSrl(op) \in Payload /\ ToOperation(OperationSrl(op)) = Parsed(op)
<1>1. PICK id \in Nat, card \in Nat, amount \in Nat, off \in BOOLEAN :
        op = [type |-> "Charge", account_id |-> id, card_id |-> card, amount |-> amount,
              from_offline_station |-> off]
  OBVIOUS
<1>2. PICK b \in Nat : b = (IF off THEN 1 ELSE 0) /\ (off <=> b = 1) /\ b \in {0, 1}
  OBVIOUS
<1> DEFINE f == Put(8, id, Put(8, card, Put(4, amount, Put(1, b, <<>>))))
<1>3. Puts4(f, 8, id, 8, card, 4, amount, 1, b, <<>>)
  BY ChargeFields
<1>4. Put(1, b, <<>>) \in Payload /\ Field(1, b) = Put(1, b, <<>>)
  BY OneField
<1>5. OperationSrl(op) = Join(Join(Join(Join(Field(1, 0), Field(8, id)), Field(8, card)), Field(4, amount)), Field(1, b))
  BY <1>1, <1>2 DEF OperationSrl, Byte, IdSrl, AmountSrl, Join
<1>6. Join(Join(Join(Join(Field(1, 0), Field(8, id)), Field(8, card)), Field(4, amount)), Field(1, b)) = Put(1, 0, f)
  <2>1. PICK s \in Payload : s = Put(1, b, <<>>)
    BY <1>4
  <2>2. PICK t \in Payload : t = Put(4, amount, s)
    BY JoinPut
  <2>3. PICK x \in Payload : x = Join(Join(Field(1, 0), Field(8, id)), Field(8, card))
    <3>1. Field(1, 0) \in Payload /\ Field(8, id) \in Payload /\ Field(8, card) \in Payload
      BY OneField
    <3> QED
      BY <3>1, JoinJoin
  <2>4. Join(Join(x, Field(4, amount)), s) = Join(x, t)
    BY <2>2, JoinPut, JoinJoin
  <2>5. Join(x, t) = Put(1, 0, Put(8, id, Put(8, card, t)))
    <3>1. IsField(1, 0) /\ IsField(8, id) /\ IsField(8, card)
      BY DEF IsField
    <3> QED
      BY <3>1, <2>3, Chain3
  <2> QED
    BY <1>4, <2>1, <2>2, <2>3, <2>4, <2>5
<1> HIDE DEF f
<1>7. f \in Payload /\ Bytes(f) = 21 /\ f[1].v = id /\ f[2].v = card /\ f[3].v = amount /\ f[4].v = b
  BY <1>3, NoField DEF Puts4
<1>8. Read(f, <<8, 8, 4, 1>>, f) = Parsed(f) /\ Width(<<8, 8, 4, 1>>) = 21
  <2>1. Width(<<8, 8, 4, 1>>) = 8 + 8 + 4 + 1
    BY Widths
  <2>2. Read(f, <<8, 8, 4, 1>>, f) = Parsed(f)
    BY <1>3 DEF Puts4
  <2> QED
    BY <2>1, <2>2
<1>9. Exactly(f, <<8, 8, 4, 1>>, f).kind = "ok" /\ Exactly(f, <<8, 8, 4, 1>>, f).value = f
  BY <1>7, <1>8, ParsedIs DEF Exactly
<1> DEFINE p == Put(1, 0, f)
<1>10. p \in Payload /\ p[1].v = 0 /\ Rest(p, 1) = f
  BY <1>7, Typed
<1> HIDE DEF p
<1>11. ToOperation(p) = Then(Exactly(f, <<8, 8, 4, 1>>, f), LAMBDA g :
               IF g[4].v \notin {0, 1} THEN Invalid
               ELSE Parsed([type |-> "Charge", account_id |-> g[1].v, card_id |-> g[2].v,
                            amount |-> g[3].v, from_offline_station |-> g[4].v = 1]))
  BY <1>10 DEF ToOperation
<1>12. ToOperation(p) = Parsed([type |-> "Charge", account_id |-> id, card_id |-> card,
                                amount |-> amount, from_offline_station |-> b = 1])
  <2> DEFINE E == Exactly(f, <<8, 8, 4, 1>>, f)
  <2>1. E.kind = "ok" /\ E.value = f
    BY <1>9
  <2>2. ToOperation(p) = Then(E, LAMBDA g :
               IF g[4].v \notin {0, 1} THEN Invalid
               ELSE Parsed([type |-> "Charge", account_id |-> g[1].v, card_id |-> g[2].v,
                            amount |-> g[3].v, from_offline_station |-> g[4].v = 1]))
    BY <1>11
  <2> HIDE DEF E
  <2>3. E.value[4].v \in {0, 1} /\ E.value[1].v = id /\ E.value[2].v = card /\ E.value[3].v = amount /\ E.value[4].v = b
    BY <1>2, <1>7, <2>1
  <2> QED
    BY <2>1, <2>2, <2>3 DEF Then
<1>13. off = (b = 1)
  BY <1>2
<1> QED
  BY <1>1, <1>5, <1>6, <1>10, <1>12, <1>13 DEF p

\* The two limits, a query and the request for a snapshot.
LEMMA LimitCardRead ==
  ASSUME NEW op \in [type : {"LimitCard"}, account_id : Nat, card_id : Nat, new_limit : Option(Nat)]
  PROVE  OperationSrl(op) \in Payload /\ ToOperation(OperationSrl(op)) = Parsed(op)
<1>1. PICK id \in Nat, card \in Nat, limit \in Option(Nat) :
        op = [type |-> "LimitCard", account_id |-> id, card_id |-> card, new_limit |-> limit]
  OBVIOUS
<1>2. PICK v \in Int : LimitSrl(limit) = Field(4, v) /\ ToLimit(v) = limit
  BY LimitRead
<1> DEFINE f == Put(8, id, Put(8, card, Put(4, v, <<>>)))
<1>3. Puts3(f, 8, id, 8, card, 4, v, <<>>) /\ \A val : Exactly(f, <<8, 8, 4>>, val) = Parsed(val)
  <2>1. Puts3(f, 8, id, 8, card, 4, v, <<>>)
    <3>1. IsField(8, id) /\ IsField(8, card) /\ IsField(4, v)
      BY DEF IsField
    <3> QED
      BY <3>1, NoField, First3
  <2>2. \A val : Exactly(f, <<8, 8, 4>>, val) = Parsed(val)
    <3>1. IsField(8, id) /\ IsField(8, card) /\ IsField(4, v)
      BY DEF IsField
    <3> QED
      BY <3>1, Exact3
  <2> QED
    BY <2>1, <2>2
<1>4. OperationSrl(op) = Join(Join(Join(Field(1, 1), Field(8, id)), Field(8, card)), Field(4, v))
  BY <1>1, <1>2 DEF OperationSrl, Byte, IdSrl, Join
<1>5. Join(Join(Join(Field(1, 1), Field(8, id)), Field(8, card)), Field(4, v)) = Put(1, 1, f)
  <2>1. PICK t \in Payload : t = Put(4, v, <<>>) /\ t = Field(4, v)
    BY JoinPut, OneField
  <2>2. Join(Join(Join(Field(1, 1), Field(8, id)), Field(8, card)), t)
          = Put(1, 1, Put(8, id, Put(8, card, t)))
    <3>1. IsField(1, 1) /\ IsField(8, id) /\ IsField(8, card)
      BY DEF IsField
    <3> QED
      BY <3>1, Chain3
  <2> QED
    BY <2>1, <2>2
<1> HIDE DEF f
<1>6. f \in Payload /\ f[1].v = id /\ f[2].v = card /\ f[3].v = v
  BY <1>3 DEF Puts3
<1> DEFINE p == Put(1, 1, f)
<1>7. p \in Payload /\ p[1].v = 1 /\ Rest(p, 1) = f
  BY <1>6, Typed
<1> HIDE DEF p
<1>8. ToOperation(p) = Exactly(f, <<8, 8, 4>>, [type |-> "LimitCard", account_id |-> f[1].v,
                                      card_id |-> f[2].v, new_limit |-> ToLimit(f[3].v)])
  BY <1>7 DEF ToOperation
<1>9. ToOperation(p) = Parsed(op)
  BY <1>1, <1>2, <1>3, <1>6, <1>8
<1> QED
  BY <1>4, <1>5, <1>7, <1>9 DEF p

\* A LimitAccount, whose limit is there or not.
LEMMA LimitAccountRead ==
  ASSUME NEW op \in [type : {"LimitAccount"}, account_id : Nat, new_limit : Option(Nat)]
  PROVE  OperationSrl(op) \in Payload /\ ToOperation(OperationSrl(op)) = Parsed(op)
<1>1. PICK id \in Nat, limit \in Option(Nat) :
        op = [type |-> "LimitAccount", account_id |-> id, new_limit |-> limit]
  OBVIOUS
<1>2. PICK v \in Int : LimitSrl(limit) = Field(4, v) /\ ToLimit(v) = limit
  BY LimitRead
<1> DEFINE f == Put(8, id, Put(4, v, <<>>))
<1>3. Puts2(f, 8, id, 4, v, <<>>) /\ \A val : Exactly(f, <<8, 4>>, val) = Parsed(val)
  BY NoField, First2, Exact
<1>4. OperationSrl(op) = Join(Join(Field(1, 2), Field(8, id)), Field(4, v))
  BY <1>1, <1>2 DEF OperationSrl, Byte, IdSrl, Join
<1>5. Join(Join(Field(1, 2), Field(8, id)), Field(4, v)) = Put(1, 2, f)
  <2>1. IsField(1, 2) /\ IsField(8, id) /\ IsField(4, v)
    BY DEF IsField
  <2> QED
    BY <2>1, Ends3
<1> HIDE DEF f
<1>6. f \in Payload /\ f[1].v = id /\ f[2].v = v
  BY <1>3 DEF Puts2
<1> DEFINE p == Put(1, 2, f)
<1>7. p \in Payload /\ p[1].v = 2 /\ Rest(p, 1) = f
  BY <1>6, Typed
<1> HIDE DEF p
<1>8. ToOperation(p) = Exactly(f, <<8, 4>>, [type |-> "LimitAccount", account_id |-> f[1].v,
                                   new_limit |-> ToLimit(f[2].v)])
  BY <1>7 DEF ToOperation
<1>9. ToOperation(p) = Parsed(op)
  BY <1>1, <1>2, <1>3, <1>6, <1>8
<1> QED
  BY <1>4, <1>5, <1>7, <1>9 DEF p

\* An AccountQuery.
LEMMA QueryRead ==
  ASSUME NEW op \in [type : {"AccountQuery"}, account_id : Nat]
  PROVE  OperationSrl(op) \in Payload /\ ToOperation(OperationSrl(op)) = Parsed(op)
<1>1. PICK id \in Nat : op = [type |-> "AccountQuery", account_id |-> id]
  OBVIOUS
<1> DEFINE f == Put(8, id, <<>>)
<1>3. Puts1(f, 8, id, <<>>) /\ \A val : Exactly(f, <<8>>, val) = Parsed(val)
  BY NoField, FieldThen, Exact
<1>4. OperationSrl(op) = Join(Field(1, 3), Field(8, id))
  BY <1>1 DEF OperationSrl, Byte, IdSrl, Join
<1>5. Join(Field(1, 3), Field(8, id)) = Put(1, 3, f)
  BY Ends2
<1> HIDE DEF f
<1>6. f \in Payload /\ f[1].v = id
  BY <1>3 DEF Puts1
<1> DEFINE p == Put(1, 3, f)
<1>7. p \in Payload /\ p[1].v = 3 /\ Rest(p, 1) = f
  BY <1>6, Typed
<1> HIDE DEF p
<1>8. ToOperation(p) = Exactly(f, <<8>>, [type |-> "AccountQuery", account_id |-> f[1].v])
  BY <1>7 DEF ToOperation
<1>9. ToOperation(p) = Parsed(op)
  BY <1>1, <1>3, <1>6, <1>8
<1> QED
  BY <1>4, <1>5, <1>7, <1>9 DEF p

\* A GetDatabase, with the address of the node that asks.
LEMMA GetDatabaseRead ==
  ASSUME NEW op \in [type : {"GetDatabase"}, addr : Nat]
  PROVE  OperationSrl(op) \in Payload /\ ToOperation(OperationSrl(op)) = Parsed(op)
<1>1. PICK addr \in Nat : op = [type |-> "GetDatabase", addr |-> addr]
  OBVIOUS
<1> DEFINE f == Put(6, addr, <<>>)
<1>2. Puts1(f, 6, addr, <<>>)
  BY NoField, FieldThen
<1>3. \A val : ReadChecked(f, 6, val) = Parsed(val)
  BY NoField, Checked1
<1>4. OperationSrl(op) = Join(Field(1, 7), Field(6, addr))
  BY <1>1 DEF OperationSrl, Byte, AddrSrl, Join
<1>5. Join(Field(1, 7), Field(6, addr)) = Put(1, 7, f)
  BY Ends2
<1> HIDE DEF f
<1>6. f \in Payload /\ f[1].v = addr
  BY <1>2 DEF Puts1
<1> DEFINE p == Put(1, 7, f)
<1>7. p \in Payload /\ p[1].v = 7 /\ Rest(p, 1) = f
  BY <1>6, Typed
<1> HIDE DEF p
<1>8. ToOperation(p) = ReadChecked(f, 6, [type |-> "GetDatabase", addr |-> f[1].v])
  BY <1>7 DEF ToOperation
<1>9. ToOperation(p) = Parsed(op)
  BY <1>1, <1>3, <1>6, <1>8
<1> QED
  BY <1>4, <1>5, <1>7, <1>9 DEF p

\* A Bill with its period, and a snapshot that replaces the database.
LEMMA BillRead ==
  ASSUME NEW op \in [type : {"Bill"}, account_id : Nat, period : Option(Nat \ {0})]
  PROVE  /\ OperationSrl(op) \in Payload
         /\ ToOperation(OperationSrl(op)) = IF Unprintable(op.period) THEN Invalid ELSE Parsed(op)
<1>1. PICK id \in Nat, period \in Option(Nat \ {0}) :
        op = [type |-> "Bill", account_id |-> id, period |-> period]
  OBVIOUS
<1>2. PICK s \in Payload : s = PeriodSrl(period)
  BY PeriodRead
<1>3. ToPeriod(s) = IF Unprintable(period) THEN Invalid ELSE Parsed(period)
  BY <1>2, PeriodRead
<1> DEFINE f == Put(8, id, s)
<1>4. Puts1(f, 8, id, s)
  BY FieldThen
<1>5. \A val : ReadChecked(f, 8, val) = Parsed(val)
  BY Checked1
<1>6. OperationSrl(op) = Join(Join(Field(1, 6), Field(8, id)), s)
  BY <1>1, <1>2 DEF OperationSrl, Byte, IdSrl, Join
<1>7. Join(Join(Field(1, 6), Field(8, id)), s) = Put(1, 6, f)
  BY Chain2
<1> HIDE DEF f
<1>8. f \in Payload /\ f[1].v = id /\ Rest(f, 1) = s
  BY <1>4 DEF Puts1
<1> DEFINE p == Put(1, 6, f)
<1>9. p \in Payload /\ p[1].v = 6 /\ Rest(p, 1) = f
  BY <1>8, Typed
<1> HIDE DEF p
<1> DEFINE Ra == ReadChecked(f, 8, f[1].v)
           Rb == ToPeriod(s)
<1>10. ToOperation(p) = Then(Ra, LAMBDA account : Then(Rb, LAMBDA text :
                 Parsed([type |-> "Bill", account_id |-> account, period |-> text])))
  <2>1. Rb = ToPeriod(Rest(Rest(p, 1), 1)) /\ Ra = ReadChecked(Rest(p, 1), 8, Rest(p, 1)[1].v)
    BY <1>8, <1>9
  <2> HIDE DEF Ra, Rb
  <2> QED
    BY <1>9, <2>1 DEF ToOperation
<1>11. Ra.kind = "ok" /\ Ra.value = id
  BY <1>5, <1>8, ParsedIs
<1> HIDE DEF Ra
<1>12. ToOperation(p) = IF Unprintable(period) THEN Invalid ELSE Parsed(op)
  <2>1. CASE Unprintable(period)
    <3>1. Rb = Invalid /\ Invalid.kind # "ok"
      BY <1>3, <2>1 DEF Invalid
    <3> HIDE DEF Rb
    <3> QED
      BY <1>10, <1>11, <2>1, <3>1 DEF Then
  <2>2. CASE ~Unprintable(period)
    <3>1. Rb.kind = "ok" /\ Rb.value = period
      BY <1>3, <2>2, ParsedIs
    <3> HIDE DEF Rb
    <3> QED
      BY <1>1, <1>10, <1>11, <2>2, <3>1 DEF Then
  <2> QED
    BY <2>1, <2>2
<1>13. op.period = period
  BY <1>1
<1> QED
  BY <1>6, <1>7, <1>9, <1>12, <1>13 DEF p

\* A ReplaceDatabase, with its snapshot.
LEMMA ReplaceRead ==
  ASSUME NEW op \in [type : {"ReplaceDatabase"}, snapshot : DatabaseSnapshot]
  PROVE  OperationSrl(op) \in Payload /\ ToOperation(OperationSrl(op)) = Parsed(op)
<1>1. PICK snapshot \in DatabaseSnapshot : op = [type |-> "ReplaceDatabase", snapshot |-> snapshot]
  OBVIOUS
<1>2. PICK f \in Payload : f = SnapshotSrl(snapshot)
  BY SnapshotRead
<1>3. ToSnapshot(f) = Parsed(snapshot)
  BY <1>2, SnapshotRead
<1>4. OperationSrl(op) = Join(Field(1, 8), f)
  BY <1>1, <1>2 DEF OperationSrl, Byte, Join
<1>5. Join(Field(1, 8), f) = Put(1, 8, f)
  BY JoinPut
<1> DEFINE p == Put(1, 8, f)
<1>6. p \in Payload /\ p[1].v = 8 /\ Rest(p, 1) = f
  BY Typed
<1> HIDE DEF p
<1>7. ToSnapshot(f).kind = "ok" /\ ToSnapshot(f).value = snapshot
  BY <1>3, ParsedIs
<1>8. ToOperation(p) = Then(ToSnapshot(f), LAMBDA s : Parsed([type |-> "ReplaceDatabase", snapshot |-> s]))
  BY <1>6 DEF ToOperation
<1>9. ToOperation(p) = Parsed(op)
  BY <1>1, <1>7, <1>8 DEF Then
<1> QED
  BY <1>4, <1>5, <1>6, <1>9 DEF p

\* An operation that is read is the one that was written; a Bill whose period is no
\* text is not read.
LEMMA OperationRead ==
  ASSUME NEW op \in Operation
  PROVE  /\ OperationSrl(op) \in Payload
         /\ ToOperation(OperationSrl(op)) =
              IF op.type = "Bill" /\ Unprintable(op.period) THEN Invalid ELSE Parsed(op)
<1>1. CASE op.type = "Bill"
  <2>1. op \in [type : {"Bill"}, account_id : Nat, period : Option(Nat \ {0})]
    BY <1>1 DEF Operation
  <2> QED
    BY <1>1, <2>1, BillRead
<1>2. CASE op.type # "Bill"
  <2>1. OperationSrl(op) \in Payload /\ ToOperation(OperationSrl(op)) = Parsed(op)
    BY <1>2, ChargeRead, LimitCardRead, LimitAccountRead, QueryRead, GetDatabaseRead, ReplaceRead
    DEF Operation
  <2> QED
    BY <1>2, <2>1
<1> QED
  BY <1>1, <1>2

-----------------------------------------------------------------------------
(* Results *)

\* What follows the type of a result: OK, or ERR and an error.
LEMMA OkRead ==
  /\ OutcomeSrl(<<>>) \in Payload
  /\ \A type : ToOutcome(type, OutcomeSrl(<<>>)) = Parsed([type |-> type, error |-> <<>>])
<1> DEFINE f == Put(1, 2, <<>>)
<1>1. OutcomeSrl(<<>>) = f
  BY OneField DEF OutcomeSrl, Byte
<1>2. f \in Payload /\ f[1].v = 2
  BY NoField, Typed
<1> HIDE DEF f
<1>3. \A type : ToOutcome(type, f) = Parsed([type |-> type, error |-> <<>>])
  BY <1>2 DEF ToOutcome
<1> QED
  BY <1>1, <1>2, <1>3

\* An error is two bytes.
LEMMA ErrorFields ==
  \A x \in Int, y \in Int :
    /\ Join(Field(1, x), Field(1, y)) \in Payload
    /\ Join(Field(1, x), Field(1, y))[1].v = x /\ Join(Field(1, x), Field(1, y))[2].v = y
<1> TAKE x \in Int, y \in Int
<1> DEFINE p == Put(1, x, Put(1, y, <<>>))
<1>1. Join(Field(1, x), Field(1, y)) = p
  BY Ends2
<1>2. Puts2(p, 1, x, 1, y, <<>>)
  BY NoField, First2
<1> HIDE DEF p
<1>3. p \in Payload /\ p[1].v = x /\ p[2].v = y
  BY <1>2 DEF Puts2
<1> QED
  BY <1>1, <1>3

\* An error is read as it was written.
LEMMA ErrorRead ==
  ASSUME NEW e \in Errors
  PROVE  ErrorSrl(e) \in Payload /\ ToError(ErrorSrl(e)) = Parsed(e)
<1>1. PICK x \in Int, y \in Int :
        /\ ErrorSrl(e) = Join(Field(1, x), Field(1, y))
        /\ \/ e = "BelowCurrentUsage" /\ x = 0 /\ y = 0
           \/ e = "CardLimitExceeded" /\ x = 1 /\ y = 1
           \/ e = "AccountLimitExceeded" /\ x = 1 /\ y = 2
  <2>1. CASE e = "BelowCurrentUsage"
    <3>1. ErrorSrl(e) = Join(Field(1, 0), Field(1, 0))
      BY <2>1 DEF ErrorSrl, Byte, Join
    <3> QED
      BY <2>1, <3>1
  <2>2. CASE e = "CardLimitExceeded"
    <3>1. ErrorSrl(e) = Join(Field(1, 1), Field(1, 1))
      BY <2>2 DEF ErrorSrl, Byte, Join
    <3> QED
      BY <2>2, <3>1
  <2>3. CASE e = "AccountLimitExceeded"
    <3>1. ErrorSrl(e) = Join(Field(1, 1), Field(1, 2))
      BY <2>3 DEF ErrorSrl, Byte, Join
    <3> QED
      BY <2>3, <3>1
  <2> QED
    BY <2>1, <2>2, <2>3 DEF Errors
<1>2. PICK p \in Payload : p = Join(Field(1, x), Field(1, y))
  BY ErrorFields
<1>3. p[1].v = x /\ p[2].v = y
  BY <1>2, ErrorFields
<1>4. ToError(p) = Parsed(e)
  BY <1>1, <1>3 DEF ToError
<1> QED
  BY <1>1, <1>2, <1>4

\* ERR and its error; for a LimitCard the deserializer panics.
LEMMA ErrRead ==
  ASSUME NEW e \in Errors, NEW type \in {"Charge", "LimitAccount", "LimitCard"}
  PROVE  /\ OutcomeSrl(<<e>>) \in Payload
         /\ ToOutcome(type, OutcomeSrl(<<e>>)) =
              IF type = "LimitCard" THEN Panics ELSE Parsed([type |-> type, error |-> <<e>>])
<1>1. PICK t \in Payload : t = ErrorSrl(e)
  BY ErrorRead
<1>2. ToError(t).kind = "ok" /\ ToError(t).value = e
  BY <1>1, ErrorRead, ParsedIs
<1> DEFINE p == Put(1, 3, t)
<1>3. OutcomeSrl(<<e>>) = Join(Field(1, 3), t)
  <2>1. <<e>> # <<>> /\ <<e>>[1] = e
    OBVIOUS
  <2> QED
    BY <1>1, <2>1 DEF OutcomeSrl, Byte, Join
<1>4. Join(Field(1, 3), t) = p
  BY JoinPut
<1>5. p \in Payload /\ p[1].v = 3 /\ Rest(p, 1) = t
  BY Typed
<1> HIDE DEF p
<1>6. ToOutcome(type, p) = IF type = "LimitCard" THEN Panics ELSE Parsed([type |-> type, error |-> <<e>>])
  BY <1>2, <1>5 DEF ToOutcome, Then
<1> QED
  BY <1>3, <1>4, <1>5, <1>6

\* A result is read as it was written, or not at all.
NoReader(r) == r.type \in {"DatabaseSnapshot", "ReplaceDatabase"} \/ (r.type = "LimitCard" /\ r.error # <<>>)

Reads(p, r) ==
  /\ p \in Payload
  /\ NoReader(r) => ToResult(p).kind # "ok"
  /\ ~NoReader(r) => ToResult(p) = Parsed(r)

\* OK or ERR, for each of the three operations that may fail.
LEMMA OutcomeRead ==
  ASSUME NEW r \in [type : {"Charge", "LimitAccount", "LimitCard"}, error : Option(Errors)]
  PROVE  Reads(ResultSrl(r), r)
<1>1. PICK type \in {"Charge", "LimitAccount", "LimitCard"}, error \in Option(Errors) :
        r = [type |-> type, error |-> error]
  OBVIOUS
<1>2. /\ OutcomeSrl(error) \in Payload
      /\ ToOutcome(type, OutcomeSrl(error)) =
           IF type = "LimitCard" /\ error # <<>> THEN Panics ELSE Parsed(r)
  <2>1. CASE error = <<>>
    BY <1>1, <2>1, OkRead
  <2>2. CASE error # <<>>
    <3>1. PICK e \in Errors : error = <<e>>
      BY <2>2, OptionIs
    <3> QED
      BY <1>1, <2>2, <3>1, ErrRead
  <2> QED
    BY <2>1, <2>2
<1>3. PICK f \in Payload : f = OutcomeSrl(error)
  BY <1>2
<1>4. PICK k \in {0, 2, 3} :
        \/ type = "Charge" /\ k = 0
        \/ type = "LimitAccount" /\ k = 2
        \/ type = "LimitCard" /\ k = 3
  OBVIOUS
<1>5. k \in Nat
  BY <1>4
<1> DEFINE p == Put(1, k, f)
<1>6. ResultSrl(r) = Join(Field(1, k), f)
  BY <1>1, <1>3, <1>4 DEF ResultSrl, Byte, Join
<1>7. Join(Field(1, k), f) = p
  BY <1>5, JoinPut
<1>8. p \in Payload /\ p[1].v = k /\ Rest(p, 1) = f
  BY <1>5, Typed
<1> HIDE DEF p
<1>9. ToResult(p) = ToOutcome(type, f)
  BY <1>4, <1>8 DEF ToResult
<1>10. NoReader(r) <=> type = "LimitCard" /\ error # <<>>
  BY <1>1 DEF NoReader
<1>11. Panics.kind # "ok"
  BY DEF Panics
<1>12. NoReader(r) => ToResult(p).kind # "ok"
  BY <1>2, <1>3, <1>9, <1>10, <1>11
<1>13. ~NoReader(r) => ToResult(p) = Parsed(r)
  BY <1>2, <1>3, <1>9, <1>10
<1>14. Reads(p, r)
  BY <1>8, <1>12, <1>13 DEF Reads
<1> QED
  BY <1>6, <1>7, <1>14

\* The answer to an AccountQuery.
LEMMA AnswerRead ==
  ASSUME NEW r \in [type : {"AccountQuery"}, account_id : Nat, total_spent : Nat,
                    per_card_spent : Seq([card_id : Nat, spent : Nat])]
  PROVE  Reads(ResultSrl(r), r)
<1>1. PICK id \in Nat, total \in Nat, cards \in Seq(Spent) :
        r = [type |-> "AccountQuery", account_id |-> id, total_spent |-> total, per_card_spent |-> cards]
  BY DEF Spent
<1> DEFINE S == SpentSrl(cards)
<1>2. S \in Payload /\ ReadSpent(S \o <<>>) = Parsed([vec |-> cards, rest |-> <<>>])
  BY SpentRead, NoField
<1>3. S \o <<>> = S
  BY <1>2 DEF Payload
<1>4. PICK t \in Payload : t = S
  BY <1>2
<1>5. ReadSpent(t) = Parsed([vec |-> cards, rest |-> <<>>])
  BY <1>2, <1>3, <1>4
<1> HIDE DEF S
<1> DEFINE f == Put(8, id, Put(4, total, t))
<1>6. Puts2(f, 8, id, 4, total, t)
  BY First2
<1>7. ResultSrl(r) = Join(Join(Join(Field(1, 4), Field(8, id)), Field(4, total)), t)
  BY <1>1, <1>4 DEF ResultSrl, Byte, IdSrl, AmountSrl, Join, S
<1>8. Join(Join(Join(Field(1, 4), Field(8, id)), Field(4, total)), t) = Put(1, 4, f)
  <2>1. IsField(1, 4) /\ IsField(8, id) /\ IsField(4, total)
    BY DEF IsField
  <2> QED
    BY <2>1, Chain3
<1> HIDE DEF f
<1>9. f \in Payload /\ f[1].v = id /\ f[2].v = total /\ Rest(f, 2) = t /\ Read(f, <<8, 4>>, f) = Parsed(f)
  BY <1>6 DEF Puts2
<1> DEFINE p == Put(1, 4, f)
<1>10. p \in Payload /\ p[1].v = 4 /\ Rest(p, 1) = f
  BY <1>9, Typed
<1> HIDE DEF p
<1> DEFINE Ra == Read(f, <<8, 4>>, f)
           Rb == ReadSpent(t)
<1>11. Ra.kind = "ok" /\ Ra.value = f /\ Rb.kind = "ok" /\ Rb.value = [vec |-> cards, rest |-> <<>>]
  BY <1>5, <1>9, ParsedIs
<1>12. ToResult(p) = Then(Ra, LAMBDA g :
               Then(ReadSpent(Rest(g, 2)), LAMBDA c :
                 Parsed([type |-> "AccountQuery", account_id |-> g[1].v,
                         total_spent |-> g[2].v, per_card_spent |-> c.vec])))
  BY <1>10 DEF ToResult
<1> HIDE DEF Ra
<1>13. ReadSpent(Rest(Ra.value, 2)) = Rb /\ Ra.value[1].v = id /\ Ra.value[2].v = total
  BY <1>9, <1>11
<1> HIDE DEF Rb
<1>14. Rb.value.vec = cards
  BY <1>11
<1>15. ToResult(p) = Parsed(r)
  BY <1>1, <1>11, <1>12, <1>13, <1>14 DEF Then
<1>16. ~NoReader(r)
  BY <1>1 DEF NoReader
<1>17. Reads(p, r)
  BY <1>10, <1>15, <1>16 DEF Reads
<1> QED
  BY <1>7, <1>8, <1>17 DEF p

\* For these results there is no deserializer.
LEMMA NoReaderRead ==
  ASSUME NEW r \in [type : {"DatabaseSnapshot"}, snapshot : DatabaseSnapshot] \cup [type : {"ReplaceDatabase"}]
  PROVE  Reads(ResultSrl(r), r)
<1>1. NoReader(r)
  BY DEF NoReader
<1>2. PICK k \in {5, 6}, f \in Payload : ResultSrl(r) = Join(Field(1, k), f)
  <2>1. CASE r \in [type : {"DatabaseSnapshot"}, snapshot : DatabaseSnapshot]
    <3>1. r.snapshot \in DatabaseSnapshot /\ r.type = "DatabaseSnapshot"
      BY <2>1
    <3>2. SnapshotSrl(r.snapshot) \in Payload
      BY <3>1, SnapshotRead
    <3>3. ResultSrl(r) = Join(Field(1, 5), SnapshotSrl(r.snapshot))
      BY <3>1 DEF ResultSrl, Byte, Join
    <3> QED
      BY <3>2, <3>3
  <2>2. CASE r \in [type : {"ReplaceDatabase"}]
    <3>1. r.type = "ReplaceDatabase"
      BY <2>2
    <3>2. ResultSrl(r) = Field(1, 6)
      BY <3>1 DEF ResultSrl, Byte
    <3>3. Field(1, 6) = Join(Field(1, 6), <<>>) /\ <<>> \in Payload
      BY JoinPut, NoField
    <3> QED
      BY <3>2, <3>3
  <2> QED
    BY <2>1, <2>2
<1>3. k \in Nat
  BY <1>2
<1> DEFINE p == Put(1, k, f)
<1>4. Join(Field(1, k), f) = p
  BY <1>3, JoinPut
<1>5. p \in Payload /\ p[1].v = k
  BY <1>3, Typed
<1> HIDE DEF p
<1>6. ToResult(p).kind # "ok"
  BY <1>2, <1>5 DEF ToResult, Invalid
<1>7. Reads(p, r)
  BY <1>1, <1>5, <1>6 DEF Reads
<1> QED
  BY <1>2, <1>4, <1>7

\* Every result is read as it was written, or the code has no way to read it.
LEMMA ResultRead ==
  ASSUME NEW r \in OperationResult
  PROVE  Reads(ResultSrl(r), r)
BY OutcomeRead, AnswerRead, NoReaderRead DEF OperationResult

-----------------------------------------------------------------------------
(* Messages *)

\* The messages for which there is no deserializer, whatever their size.
NoWayBack(m) ==
  \/ m.type = "RoleResponse"
  \/ m.type = "Response" /\ NoReader(m.op_result)
  \/ m.type \in {"Request", "Log"} /\ m.op.type = "Bill" /\ Unprintable(m.op.period)

MessageReads(p, m) ==
  /\ p \in Payload
  /\ NoWayBack(m) => ToMessage(p).kind # "ok"
  /\ ~NoWayBack(m) => ToMessage(p) = Parsed(m)

\* The messages of one field.
LEMMA AckRead ==
  ASSUME NEW m \in [type : {"Ack"}, op_id : Nat]
  PROVE  MessageReads(MessageSrl(m), m)
<1>1. PICK x \in Nat : m = [type |-> "Ack", op_id |-> x]
  OBVIOUS
<1> DEFINE f == Put(4, x, <<>>)
<1>2. Puts1(f, 4, x, <<>>)
  BY NoField, FieldThen
<1>3. \A val : ReadChecked(f, 4, val) = Parsed(val)
  BY NoField, Checked1
<1>4. MessageSrl(m) = Join(Field(1, 2), Field(4, x))
  BY <1>1 DEF MessageSrl, Byte, OpIdSrl, Join
<1>5. Join(Field(1, 2), Field(4, x)) = Put(1, 2, f)
  BY Ends2
<1> HIDE DEF f
<1>6. f \in Payload /\ f[1].v = x
  BY <1>2 DEF Puts1
<1> DEFINE p == Put(1, 2, f)
<1>7. p \in Payload /\ p[1].v = 2 /\ Rest(p, 1) = f
  BY <1>6, Typed
<1> HIDE DEF p
<1>8. ToMessage(p) = ReadChecked(f, 4, [type |-> "Ack", op_id |-> f[1].v])
  BY <1>7 DEF ToMessage
<1>9. ToMessage(p) = Parsed(m) /\ ~NoWayBack(m)
  BY <1>1, <1>3, <1>6, <1>8 DEF NoWayBack
<1>10. MessageReads(p, m)
  BY <1>7, <1>9 DEF MessageReads
<1> QED
  BY <1>4, <1>5, <1>10 DEF p

\* A Join.
LEMMA JoinRead ==
  ASSUME NEW m \in [type : {"Join"}, addr : Nat]
  PROVE  MessageReads(MessageSrl(m), m)
<1>1. PICK x \in Nat : m = [type |-> "Join", addr |-> x]
  OBVIOUS
<1> DEFINE f == Put(6, x, <<>>)
<1>2. Puts1(f, 6, x, <<>>)
  BY NoField, FieldThen
<1>3. \A val : ReadChecked(f, 6, val) = Parsed(val)
  BY NoField, Checked1
<1>4. MessageSrl(m) = Join(Field(1, 3), Field(6, x))
  BY <1>1 DEF MessageSrl, Byte, AddrSrl, Join
<1>5. Join(Field(1, 3), Field(6, x)) = Put(1, 3, f)
  BY Ends2
<1> HIDE DEF f
<1>6. f \in Payload /\ f[1].v = x
  BY <1>2 DEF Puts1
<1> DEFINE p == Put(1, 3, f)
<1>7. p \in Payload /\ p[1].v = 3 /\ Rest(p, 1) = f
  BY <1>6, Typed
<1> HIDE DEF p
<1>8. ToMessage(p) = ReadChecked(f, 6, [type |-> "Join", addr |-> f[1].v])
  BY <1>7 DEF ToMessage
<1>9. ToMessage(p) = Parsed(m) /\ ~NoWayBack(m)
  BY <1>1, <1>3, <1>6, <1>8 DEF NoWayBack
<1>10. MessageReads(p, m)
  BY <1>7, <1>9 DEF MessageReads
<1> QED
  BY <1>4, <1>5, <1>10 DEF p

\* A RoleQuery.
LEMMA RoleQueryRead ==
  ASSUME NEW m \in [type : {"RoleQuery"}, addr : Nat]
  PROVE  MessageReads(MessageSrl(m), m)
<1>1. PICK x \in Nat : m = [type |-> "RoleQuery", addr |-> x]
  OBVIOUS
<1> DEFINE f == Put(6, x, <<>>)
<1>2. Puts1(f, 6, x, <<>>)
  BY NoField, FieldThen
<1>3. \A val : ReadChecked(f, 6, val) = Parsed(val)
  BY NoField, Checked1
<1>4. MessageSrl(m) = Join(Field(1, 7), Field(6, x))
  BY <1>1 DEF MessageSrl, Byte, AddrSrl, Join
<1>5. Join(Field(1, 7), Field(6, x)) = Put(1, 7, f)
  BY Ends2
<1> HIDE DEF f
<1>6. f \in Payload /\ f[1].v = x
  BY <1>2 DEF Puts1
<1> DEFINE p == Put(1, 7, f)
<1>7. p \in Payload /\ p[1].v = 7 /\ Rest(p, 1) = f
  BY <1>6, Typed
<1> HIDE DEF p
<1>8. ToMessage(p) = ReadChecked(f, 6, [type |-> "RoleQuery", addr |-> f[1].v])
  BY <1>7 DEF ToMessage
<1>9. ToMessage(p) = Parsed(m) /\ ~NoWayBack(m)
  BY <1>1, <1>3, <1>6, <1>8 DEF NoWayBack
<1>10. MessageReads(p, m)
  BY <1>7, <1>9 DEF MessageReads
<1> QED
  BY <1>4, <1>5, <1>10 DEF p

\* An ElectionOk.
LEMMA ElectionOkRead ==
  ASSUME NEW m \in [type : {"ElectionOk"}, responder_id : Nat]
  PROVE  MessageReads(MessageSrl(m), m)
<1>1. PICK x \in Nat : m = [type |-> "ElectionOk", responder_id |-> x]
  OBVIOUS
<1> DEFINE f == Put(8, x, <<>>)
<1>2. Puts1(f, 8, x, <<>>)
  BY NoField, FieldThen
<1>3. \A val : Read(f, <<8>>, val) = Parsed(val)
  BY NoField, First1
<1>4. MessageSrl(m) = Join(Field(1, 10), Field(8, x))
  BY <1>1 DEF MessageSrl, Byte, IdSrl, Join
<1>5. Join(Field(1, 10), Field(8, x)) = Put(1, 10, f)
  BY Ends2
<1> HIDE DEF f
<1>6. f \in Payload /\ f[1].v = x
  BY <1>2 DEF Puts1
<1> DEFINE p == Put(1, 10, f)
<1>7. p \in Payload /\ p[1].v = 10 /\ Rest(p, 1) = f
  BY <1>6, Typed
<1> HIDE DEF p
<1>8. ToMessage(p) = Read(f, <<8>>, [type |-> "ElectionOk", responder_id |-> f[1].v])
  BY <1>7 DEF ToMessage
<1>9. ToMessage(p) = Parsed(m) /\ ~NoWayBack(m)
  BY <1>1, <1>3, <1>6, <1>8 DEF NoWayBack
<1>10. MessageReads(p, m)
  BY <1>7, <1>9 DEF MessageReads
<1> QED
  BY <1>4, <1>5, <1>10 DEF p

\* The messages of two fields.
LEMMA ElectionRead ==
  ASSUME NEW m \in [type : {"Election"}, candidate_id : Nat, candidate_addr : Nat]
  PROVE  MessageReads(MessageSrl(m), m)
<1>1. PICK x \in Nat, y \in Nat : m = [type |-> "Election", candidate_id |-> x, candidate_addr |-> y]
  OBVIOUS
<1> DEFINE f == Put(8, x, Put(6, y, <<>>))
<1>2. Puts2(f, 8, x, 6, y, <<>>)
  BY NoField, First2
<1>3. MessageSrl(m) = Join(Join(Field(1, 9), Field(8, x)), Field(6, y))
  BY <1>1 DEF MessageSrl, Byte, IdSrl, AddrSrl, Join
<1>4. Join(Join(Field(1, 9), Field(8, x)), Field(6, y)) = Put(1, 9, f)
  <2>1. IsField(1, 9) /\ IsField(8, x) /\ IsField(6, y)
    BY DEF IsField
  <2> QED
    BY <2>1, Ends3
<1> HIDE DEF f
<1>5. f \in Payload /\ f[1].v = x /\ f[2].v = y /\ \A val : Read(f, <<8, 6>>, val) = Parsed(val)
  BY <1>2 DEF Puts2
<1> DEFINE p == Put(1, 9, f)
<1>6. p \in Payload /\ p[1].v = 9 /\ Rest(p, 1) = f
  BY <1>5, Typed
<1> HIDE DEF p
<1>7. ToMessage(p) = Read(f, <<8, 6>>, [type |-> "Election", candidate_id |-> f[1].v, candidate_addr |-> f[2].v])
  BY <1>6 DEF ToMessage
<1>8. ToMessage(p) = Parsed(m) /\ ~NoWayBack(m)
  BY <1>1, <1>5, <1>7 DEF NoWayBack
<1>9. MessageReads(p, m)
  BY <1>6, <1>8 DEF MessageReads
<1> QED
  BY <1>3, <1>4, <1>9 DEF p

\* A Coordinator.
LEMMA CoordinatorRead ==
  ASSUME NEW m \in [type : {"Coordinator"}, leader_id : Nat, leader_addr : Nat]
  PROVE  MessageReads(MessageSrl(m), m)
<1>1. PICK x \in Nat, y \in Nat : m = [type |-> "Coordinator", leader_id |-> x, leader_addr |-> y]
  OBVIOUS
<1> DEFINE f == Put(8, x, Put(6, y, <<>>))
<1>2. Puts2(f, 8, x, 6, y, <<>>)
  BY NoField, First2
<1>3. MessageSrl(m) = Join(Join(Field(1, 11), Field(8, x)), Field(6, y))
  BY <1>1 DEF MessageSrl, Byte, IdSrl, AddrSrl, Join
<1>4. Join(Join(Field(1, 11), Field(8, x)), Field(6, y)) = Put(1, 11, f)
  <2>1. IsField(1, 11) /\ IsField(8, x) /\ IsField(6, y)
    BY DEF IsField
  <2> QED
    BY <2>1, Ends3
<1> HIDE DEF f
<1>5. f \in Payload /\ f[1].v = x /\ f[2].v = y /\ \A val : Read(f, <<8, 6>>, val) = Parsed(val)
  BY <1>2 DEF Puts2
<1> DEFINE p == Put(1, 11, f)
<1>6. p \in Payload /\ p[1].v = 11 /\ Rest(p, 1) = f
  BY <1>5, Typed
<1> HIDE DEF p
<1>7. ToMessage(p) = Read(f, <<8, 6>>, [type |-> "Coordinator", leader_id |-> f[1].v, leader_addr |-> f[2].v])
  BY <1>6 DEF ToMessage
<1>8. ToMessage(p) = Parsed(m) /\ ~NoWayBack(m)
  BY <1>1, <1>5, <1>7 DEF NoWayBack
<1>9. MessageReads(p, m)
  BY <1>6, <1>8 DEF MessageReads
<1> QED
  BY <1>3, <1>4, <1>9 DEF p

\* A ClusterUpdate has a check of its length.
LEMMA UpdateRead ==
  ASSUME NEW m \in [type : {"ClusterUpdate"}, new_member : MemberOf]
  PROVE  MessageReads(MessageSrl(m), m)
<1>1. PICK member \in MemberOf : m = [type |-> "ClusterUpdate", new_member |-> member]
  OBVIOUS
<1>2. PICK f \in Payload : f = MemberSrl(member)
  BY MemberFields
<1>3. Bytes(f) = 14 /\ Read(f, <<8, 6>>, ToMember(f)) = Parsed(member) /\ ToMember(f) = member
  BY <1>2, MemberFields
<1>4. MessageSrl(m) = Join(Field(1, 5), f)
  BY <1>1, <1>2 DEF MessageSrl, Byte, Join
<1>5. Join(Field(1, 5), f) = Put(1, 5, f)
  BY JoinPut
<1> DEFINE p == Put(1, 5, f)
<1>6. p \in Payload /\ p[1].v = 5 /\ Rest(p, 1) = f
  BY Typed
<1> HIDE DEF p
<1>7. ToMessage(p) = Read(f, <<8, 6>>, [type |-> "ClusterUpdate", new_member |-> ToMember(f)])
  BY <1>3, <1>6 DEF ToMessage
<1>8. \A val : Read(f, <<8, 6>>, val) = Parsed(val)
  BY <1>3, Z3 DEF Read, Parsed, Misread, Panics
<1>9. ToMessage(p) = Parsed(m) /\ ~NoWayBack(m)
  BY <1>1, <1>3, <1>7, <1>8 DEF NoWayBack
<1>10. MessageReads(p, m)
  BY <1>6, <1>9 DEF MessageReads
<1> QED
  BY <1>4, <1>5, <1>10 DEF p

\* There is no deserializer for a RoleResponse.
LEMMA RoleRead ==
  ASSUME NEW m \in [type : {"RoleResponse"}, node_id : Nat, role : {"Leader", "Replica", "Station"}]
  PROVE  MessageReads(MessageSrl(m), m)
<1>1. PICK x \in Nat, role \in {"Leader", "Replica", "Station"} :
        m = [type |-> "RoleResponse", node_id |-> x, role |-> role]
  OBVIOUS
<1>2. PICK y \in {0, 1, 2} : y = CASE role = "Leader" -> 0 [] role = "Replica" -> 1 [] role = "Station" -> 2
  OBVIOUS
<1>3. y \in Int
  BY <1>2
<1> DEFINE f == Put(8, x, Put(1, y, <<>>))
<1>4. Puts2(f, 8, x, 1, y, <<>>)
  BY <1>3, NoField, First2
<1>5. MessageSrl(m) = Join(Join(Field(1, 8), Field(8, x)), Field(1, y))
  BY <1>1, <1>2 DEF MessageSrl, Byte, IdSrl, Join
<1>6. Join(Join(Field(1, 8), Field(8, x)), Field(1, y)) = Put(1, 8, f)
  <2>1. IsField(1, 8) /\ IsField(8, x) /\ IsField(1, y)
    BY <1>3 DEF IsField
  <2> QED
    BY <2>1, <1>3, Ends3
<1> HIDE DEF f
<1>7. f \in Payload
  BY <1>4 DEF Puts2
<1> DEFINE p == Put(1, 8, f)
<1>8. p \in Payload /\ p[1].v = 8
  BY <1>7, Typed
<1> HIDE DEF p
<1>9. ToMessage(p).kind # "ok" /\ NoWayBack(m)
  BY <1>1, <1>8 DEF ToMessage, Invalid, NoWayBack
<1>10. MessageReads(p, m)
  BY <1>8, <1>9 DEF MessageReads
<1> QED
  BY <1>5, <1>6, <1>10 DEF p

\* A Request, a Log and a Response end with an operation or a result.
LEMMA RequestRead ==
  ASSUME NEW m \in [type : {"Request"}, req_id : Nat, addr : Nat, op : Operation]
  PROVE  MessageReads(MessageSrl(m), m)
<1>1. PICK key \in Nat, from \in Nat, oper \in Operation :
        m = [type |-> "Request", req_id |-> key, addr |-> from, op |-> oper]
  OBVIOUS
<1>2. PICK o \in Payload : o = OperationSrl(oper)
  BY OperationRead
<1>3. ToOperation(o) = IF NoWayBack(m) THEN Invalid ELSE Parsed(oper)
  <2>1. NoWayBack(m) <=> oper.type = "Bill" /\ Unprintable(oper.period)
    BY <1>1 DEF NoWayBack
  <2> QED
    BY <1>2, <2>1, OperationRead
<1> DEFINE q == Put(6, from, o)
           f == Put(4, key, q)
<1>4. Puts1(q, 6, from, o) /\ \A val : ReadChecked(q, 6, val) = Parsed(val)
  <2>1. Puts1(q, 6, from, o)
    BY FieldThen
  <2>2. \A val : ReadChecked(q, 6, val) = Parsed(val)
    BY Checked1
  <2> QED
    BY <2>1, <2>2
<1>5. MessageSrl(m) = Join(Join(Join(Field(1, 0), Field(4, key)), Field(6, from)), o)
  BY <1>1, <1>2 DEF MessageSrl, Byte, OpIdSrl, AddrSrl, Join
<1>6. Join(Join(Join(Field(1, 0), Field(4, key)), Field(6, from)), o) = Put(1, 0, f)
  <2>1. IsField(1, 0) /\ IsField(4, key) /\ IsField(6, from)
    BY DEF IsField
  <2> QED
    BY <2>1, Chain3
<1>7. Puts2(f, 4, key, 6, from, o)
  BY First2
<1> HIDE DEF q
<1>8. q \in Payload
  BY <1>4 DEF Puts1
<1>9. Puts1(f, 4, key, q)
  BY <1>8, FieldThen
<1>10. \A val : ReadChecked(f, 4, val) = Parsed(val)
  BY <1>8, Checked1
<1> HIDE DEF f
<1>11. f \in Payload /\ f[1].v = key /\ f[2].v = from /\ Rest(f, 1) = q /\ Rest(f, 2) = o
  BY <1>7, <1>9 DEF Puts1, Puts2
<1> DEFINE p == Put(1, 0, f)
<1>12. p \in Payload /\ p[1].v = 0 /\ Rest(p, 1) = f
  BY <1>11, Typed
<1> HIDE DEF p
<1> DEFINE Ra == ReadChecked(f, 4, f[1].v)
           Rb == ReadChecked(Rest(f, 1), 6, f[2].v)
           Rc == ToOperation(Rest(f, 2))
<1>13. ToMessage(p) = Then(Ra, LAMBDA i : Then(Rb, LAMBDA a : Then(Rc, LAMBDA x :
                   Parsed([type |-> "Request", req_id |-> i, addr |-> a, op |-> x]))))
  BY <1>12 DEF ToMessage, Then
<1>14. Ra.kind = "ok" /\ Ra.value = key /\ Rb.kind = "ok" /\ Rb.value = from
  BY <1>4, <1>10, <1>11, ParsedIs
<1>15. Rc = IF NoWayBack(m) THEN Invalid ELSE Parsed(oper)
  BY <1>3, <1>11
<1> HIDE DEF Ra, Rb, Rc
<1>16. NoWayBack(m) => ToMessage(p).kind # "ok"
  BY <1>13, <1>14, <1>15 DEF Then, Invalid
<1>17. ~NoWayBack(m) => ToMessage(p) = Parsed(m)
  <2>1. ~NoWayBack(m) => Rc.kind = "ok" /\ Rc.value = oper
    BY <1>15, ParsedIs
  <2> QED
    BY <1>1, <1>13, <1>14, <2>1 DEF Then
<1>18. MessageReads(p, m)
  BY <1>12, <1>16, <1>17 DEF MessageReads
<1> QED
  BY <1>5, <1>6, <1>18 DEF p

\* A Log, which is read if its operation is.
LEMMA LogRead ==
  ASSUME NEW m \in [type : {"Log"}, op_id : Nat, op : Operation]
  PROVE  MessageReads(MessageSrl(m), m)
<1>1. PICK key \in Nat, oper \in Operation : m = [type |-> "Log", op_id |-> key, op |-> oper]
  OBVIOUS
<1>2. PICK o \in Payload : o = OperationSrl(oper)
  BY OperationRead
<1>3. ToOperation(o) = IF NoWayBack(m) THEN Invalid ELSE Parsed(oper)
  <2>1. NoWayBack(m) <=> oper.type = "Bill" /\ Unprintable(oper.period)
    BY <1>1 DEF NoWayBack
  <2> QED
    BY <1>2, <2>1, OperationRead
<1> DEFINE f == Put(4, key, o)
<1>4. Puts1(f, 4, key, o)
  BY FieldThen
<1>5. \A val : ReadChecked(f, 4, val) = Parsed(val)
  BY Checked1
<1>6. MessageSrl(m) = Join(Join(Field(1, 1), Field(4, key)), o)
  BY <1>1, <1>2 DEF MessageSrl, Byte, OpIdSrl, Join
<1>7. Join(Join(Field(1, 1), Field(4, key)), o) = Put(1, 1, f)
  BY Chain2
<1> HIDE DEF f
<1>8. f \in Payload /\ f[1].v = key /\ Rest(f, 1) = o
  BY <1>4 DEF Puts1
<1> DEFINE p == Put(1, 1, f)
<1>9. p \in Payload /\ p[1].v = 1 /\ Rest(p, 1) = f
  BY <1>8, Typed
<1> HIDE DEF p
<1> DEFINE Ra == ReadChecked(f, 4, f[1].v)
           Rb == ToOperation(Rest(f, 1))
<1>10. ToMessage(p) = Then(Ra, LAMBDA i : Then(Rb, LAMBDA x : Parsed([type |-> "Log", op_id |-> i, op |-> x])))
  BY <1>9 DEF ToMessage, Then
<1>11. Ra.kind = "ok" /\ Ra.value = key
  BY <1>5, <1>8, ParsedIs
<1>12. Rb = IF NoWayBack(m) THEN Invalid ELSE Parsed(oper)
  BY <1>3, <1>8
<1> HIDE DEF Ra, Rb
<1>13. NoWayBack(m) => ToMessage(p).kind # "ok"
  BY <1>10, <1>11, <1>12 DEF Then, Invalid
<1>14. ~NoWayBack(m) => ToMessage(p) = Parsed(m)
  <2>1. ~NoWayBack(m) => Rb.kind = "ok" /\ Rb.value = oper
    BY <1>12, ParsedIs
  <2> QED
    BY <1>1, <1>10, <1>11, <2>1 DEF Then
<1>15. MessageReads(p, m)
  BY <1>9, <1>13, <1>14 DEF MessageReads
<1> QED
  BY <1>6, <1>7, <1>15 DEF p

\* A Response, which is read if its result is.
LEMMA ResponseRead ==
  ASSUME NEW m \in [type : {"Response"}, req_id : Nat, op_result : OperationResult]
  PROVE  MessageReads(MessageSrl(m), m)
<1>1. PICK key \in Nat, r \in OperationResult : m = [type |-> "Response", req_id |-> key, op_result |-> r]
  OBVIOUS
<1>2. PICK o \in Payload : o = ResultSrl(r)
  BY ResultRead DEF Reads
<1>3. /\ NoWayBack(m) => ToResult(o).kind # "ok"
      /\ ~NoWayBack(m) => ToResult(o) = Parsed(r)
  <2>1. NoWayBack(m) <=> NoReader(r)
    BY <1>1 DEF NoWayBack
  <2> QED
    BY <1>2, <2>1, ResultRead DEF Reads
<1> DEFINE f == Put(4, key, o)
<1>4. Puts1(f, 4, key, o)
  BY FieldThen
<1>5. \A val : ReadChecked(f, 4, val) = Parsed(val)
  BY Checked1
<1>6. MessageSrl(m) = Join(Join(Field(1, 6), Field(4, key)), o)
  BY <1>1, <1>2 DEF MessageSrl, Byte, OpIdSrl, Join
<1>7. Join(Join(Field(1, 6), Field(4, key)), o) = Put(1, 6, f)
  BY Chain2
<1> HIDE DEF f
<1>8. f \in Payload /\ f[1].v = key /\ Rest(f, 1) = o
  BY <1>4 DEF Puts1
<1> DEFINE p == Put(1, 6, f)
<1>9. p \in Payload /\ p[1].v = 6 /\ Rest(p, 1) = f
  BY <1>8, Typed
<1> HIDE DEF p
<1> DEFINE Ra == ReadChecked(f, 4, f[1].v)
           Rb == ToResult(Rest(f, 1))
<1>10. ToMessage(p) = Then(Ra, LAMBDA i : Then(Rb, LAMBDA x :
                        Parsed([type |-> "Response", req_id |-> i, op_result |-> x])))
  BY <1>9 DEF ToMessage, Then
<1>11. Ra.kind = "ok" /\ Ra.value = key
  BY <1>5, <1>8, ParsedIs
<1>12. /\ NoWayBack(m) => Rb.kind # "ok"
       /\ ~NoWayBack(m) => Rb = Parsed(r)
  BY <1>3, <1>8
<1> HIDE DEF Ra, Rb
<1>13. NoWayBack(m) => ToMessage(p).kind # "ok"
  BY <1>10, <1>11, <1>12 DEF Then
<1>14. ~NoWayBack(m) => ToMessage(p) = Parsed(m)
  <2>1. ~NoWayBack(m) => Rb.kind = "ok" /\ Rb.value = r
    BY <1>12, ParsedIs
  <2> QED
    BY <1>1, <1>10, <1>11, <2>1 DEF Then
<1>15. MessageReads(p, m)
  BY <1>9, <1>13, <1>14 DEF MessageReads
<1> QED
  BY <1>6, <1>7, <1>15 DEF p

\* The ClusterView has a check of the length of its members.
LEMMA ViewRead ==
  ASSUME NEW m \in [type : {"ClusterView"}, members : Seq(MemberOf), leader_addr : Nat,
                    database : DatabaseSnapshot]
  PROVE  MessageReads(MessageSrl(m), m)
<1>1. PICK members \in Seq(MemberOf), leader \in Nat, database \in DatabaseSnapshot :
        m = [type |-> "ClusterView", members |-> members, leader_addr |-> leader, database |-> database]
  OBVIOUS
<1>2. PICK d \in Payload : d = SnapshotSrl(database)
  BY SnapshotRead
<1>3. ToSnapshot(d).kind = "ok" /\ ToSnapshot(d).value = database
  BY <1>2, SnapshotRead, ParsedIs
<1>4. PICK t \in Payload : t = Put(6, leader, d)
  BY JoinPut
<1>5. Puts1(t, 6, leader, d)
  BY <1>4, FieldThen
<1>6. \A val : ReadChecked(t, 6, val) = Parsed(val)
  BY <1>4, Checked1
<1>7. t[1].v = leader /\ Rest(t, 1) = d
  BY <1>5 DEF Puts1
<1>8. PICK v \in Payload : v = MembersSrl(members)
  BY MembersRead, NoField
<1> DEFINE f == Join(v, t)
           n == Len(members)
<1>9. /\ f \in Payload /\ ReadMembers(f) = Parsed([vec |-> members, rest |-> t])
      /\ Bytes(f) = 8 + n * 14 + Bytes(t) /\ f[1].v = n
  BY <1>8, MembersRead DEF Join
<1>10. ~(Bytes(f) < 14 * f[1].v) /\ Bytes(f) >= 14 * f[1].v
  <2>1. n \in Nat /\ Bytes(t) \in Nat
    BY BytesType
  <2>2. \A x, y \in Nat : ~(8 + x * 14 + y < 14 * x) /\ 8 + x * 14 + y >= 14 * x
    OBVIOUS
  <2> HIDE DEF f, n
  <2>3. ~(8 + n * 14 + Bytes(t) < 14 * n) /\ 8 + n * 14 + Bytes(t) >= 14 * n
    BY <2>1, <2>2
  <2> QED
    BY <1>9, <2>3
<1>11. MessageSrl(m) = Join(Join(Join(Field(1, 4), v), Field(6, leader)), d)
  BY <1>1, <1>2, <1>8 DEF MessageSrl, Byte, AddrSrl, Join
<1>12. Join(Join(Join(Field(1, 4), v), Field(6, leader)), d) = Put(1, 4, f)
  <2>1. Field(1, 4) \in Payload /\ Field(6, leader) \in Payload
    BY OneField
  <2>2. PICK a \in Payload, b \in Payload : a = Field(1, 4) /\ b = Field(6, leader)
    BY <2>1
  <2>3. Join(a, v) \in Payload /\ Join(Join(Join(a, v), b), d) = Join(Join(a, v), Join(b, d))
    BY JoinJoin
  <2>4. Join(b, d) = t
    BY <1>4, <2>2, JoinPut
  <2>5. Join(Join(a, v), t) = Join(a, Join(v, t)) /\ Join(v, t) \in Payload
    BY JoinJoin
  <2>6. Join(a, f) = Put(1, 4, f)
    BY <2>2, <2>5, JoinPut
  <2> QED
    BY <2>2, <2>3, <2>4, <2>5, <2>6
<1> HIDE DEF f, n
<1> DEFINE p == Put(1, 4, f)
<1>13. p \in Payload /\ p[1].v = 4 /\ Rest(p, 1) = f
  BY <1>9, Typed
<1> HIDE DEF p
<1> DEFINE Ra == ReadMembers(f)
<1>14. ToMessage(p) = Then(Ra, LAMBDA x :
               Then(ReadChecked(x.rest, 6, x.rest[1].v), LAMBDA l :
                 Then(ToSnapshot(Rest(x.rest, 1)), LAMBDA y :
                   Parsed([type |-> "ClusterView", members |-> x.vec,
                           leader_addr |-> l, database |-> y]))))
  BY <1>10, <1>13 DEF ToMessage
<1>15. Ra.kind = "ok" /\ Ra.value = [vec |-> members, rest |-> t]
  BY <1>9, ParsedIs
<1> HIDE DEF Ra
<1>16. Ra.value.vec = members /\ Ra.value.rest = t
  BY <1>15
<1> DEFINE Rb == ReadChecked(Ra.value.rest, 6, Ra.value.rest[1].v)
           Rc == ToSnapshot(Rest(Ra.value.rest, 1))
<1>17. Rb.kind = "ok" /\ Rb.value = leader /\ Rc.kind = "ok" /\ Rc.value = database
  BY <1>3, <1>6, <1>7, <1>16, ParsedIs
<1>18. ToMessage(p) = Then(Ra, LAMBDA x : Then(Rb, LAMBDA l : Then(Rc, LAMBDA y :
                   Parsed([type |-> "ClusterView", members |-> Ra.value.vec,
                           leader_addr |-> l, database |-> y]))))
  BY <1>14, <1>15 DEF Then
<1> HIDE DEF Rb, Rc
<1>19. ToMessage(p) = Parsed(m)
  BY <1>1, <1>15, <1>16, <1>17, <1>18 DEF Then
<1>20. ~NoWayBack(m)
  BY <1>1 DEF NoWayBack
<1>21. MessageReads(p, m)
  BY <1>13, <1>19, <1>20 DEF MessageReads
<1> QED
  BY <1>11, <1>12, <1>21 DEF p

\* Every message is read as it was written, or the code has no way to read it.
LEMMA MessageRead ==
  ASSUME NEW m \in Message
  PROVE  MessageReads(MessageSrl(m), m)
<1>1. CASE m.type \in {"Join", "RoleQuery"}
  BY <1>1, JoinRead, RoleQueryRead DEF Message
<1>2. CASE m.type \notin {"Join", "RoleQuery"}
  BY <1>2, RequestRead, LogRead, AckRead, ViewRead, UpdateRead, ResponseRead, RoleRead, ElectionRead,
     ElectionOkRead, CoordinatorRead DEF Message
<1> QED
  BY <1>1, <1>2

-----------------------------------------------------------------------------
(* Frames *)

\* A node reads from the frame of a message the message itself, or, where the code has
\* no way to read it (deserialization/message.rs and operation_result.rs) or its payload
\* does not fit the two bytes of its length, nothing that it takes for a message.
THEOREM ReadsWhatIsWritten ==
  ASSUME NEW m \in Message
  PROVE  /\ Unreadable(m) => Unframe(Frame(m)).kind # "ok"
         /\ ~Unreadable(m) => Unframe(Frame(m)) = Parsed(m)
<1>1. PICK p \in Payload : p = MessageSrl(m)
  BY MessageRead DEF MessageReads
<1>2. MessageReads(p, m)
  BY <1>1, MessageRead
<1>3. Bytes(p) \in Nat
  BY BytesType
<1>4. PICK n \in Nat : n = Bytes(p) % 65536 /\ (n = Bytes(p) <=> Bytes(p) < 65536)
  <2>1. \A b \in Nat : b % 65536 \in Nat /\ (b % 65536 = b <=> b < 65536)
    OBVIOUS
  <2> QED
    BY <1>3, <2>1
<1> DEFINE f == Put(2, n, p)
<1>5. Frame(m) = Join(Field(2, n), p)
  BY <1>1, <1>4 DEF Frame, Join
<1>6. Join(Field(2, n), p) = f
  BY JoinPut
<1>7. Puts1(f, 2, n, p)
  BY FieldThen
<1> HIDE DEF f
<1>8. f[1].v = n /\ Rest(f, 1) = p
  BY <1>7 DEF Puts1
<1>9. Unframe(f) = IF n # Bytes(p) THEN Misread ELSE ToMessage(p)
  BY <1>8 DEF Unframe
<1>10. Unreadable(m) <=> NoWayBack(m) \/ n # Bytes(p)
  <2>1. NoWayBack(m) <=>
          \/ m.type = "RoleResponse"
          \/ m.type = "Response" /\ m.op_result.type \in {"DatabaseSnapshot", "ReplaceDatabase"}
          \/ m.type = "Response" /\ m.op_result.type = "LimitCard" /\ m.op_result.error # <<>>
          \/ /\ m.type \in {"Request", "Log"} /\ m.op.type = "Bill"
             /\ \E i \in DOMAIN m.op.period : m.op.period[i] % 256 >= 128
    BY Zenon DEF NoWayBack, NoReader, Unprintable
  <2>2. Bytes(p) >= 65536 <=> n # Bytes(p)
    BY <1>3, <1>4
  <2> QED
    BY <1>1, <2>1, <2>2 DEF Unreadable
<1>11. Misread.kind # "ok"
  BY DEF Misread
<1> QED
  BY <1>2, <1>5, <1>6, <1>9, <1>10, <1>11 DEF MessageReads

\* A frame is a sequence of fields.
LEMMA FrameType == ASSUME NEW m \in Message PROVE Frame(m) \in Payload
<1>1. PICK p \in Payload : p = MessageSrl(m)
  BY MessageRead DEF MessageReads
<1>2. Bytes(p) \in Nat
  BY BytesType
<1>3. PICK n \in Nat : n = Bytes(p) % 65536
  BY <1>2
<1>4. Frame(m) = Join(Field(2, n), p)
  BY <1>1, <1>3 DEF Frame, Join
<1>5. Join(Field(2, n), p) = Put(2, n, p)
  BY JoinPut
<1>6. Puts1(Put(2, n, p), 2, n, p)
  BY FieldThen
<1> QED
  BY <1>4, <1>5, <1>6 DEF Puts1

\* The first message on a stream carries the address of the node that has connected.
LEMMA FirstRead == \A n \in Nat : FirstAddress(FirstMessage(n)) = n
<1> TAKE n \in Nat
<1> DEFINE p == Put(2, 7, Put(1, 105, Put(6, n, <<>>)))
<1>1. FirstMessage(n) = p
  <2>1. FirstMessage(n) = Join(Join(Field(2, 7), Field(1, 105)), Field(6, n))
    BY DEF FirstMessage, Byte, AddrSrl, Join
  <2>2. IsField(2, 7) /\ IsField(1, 105) /\ IsField(6, n)
    BY DEF IsField
  <2> QED
    BY <2>1, <2>2, Ends3
<1>2. Puts3(p, 2, 7, 1, 105, 6, n, <<>>)
  <2>1. IsField(2, 7) /\ IsField(1, 105) /\ IsField(6, n)
    BY DEF IsField
  <2> QED
    BY <2>1, NoField, First3
<1> HIDE DEF p
<1>3. p[3].v = n
  BY <1>2 DEF Puts3
<1> QED
  BY <1>1, <1>3 DEF FirstAddress
=============================================================================
