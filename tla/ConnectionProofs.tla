-------------------------- MODULE ConnectionProofs --------------------------
(***************************************************************************)
(* No task without its handler, no message that is lost without a word,    *)
(* and messages in order: HandlersOwned, Delivery and InOrder for any      *)
(* nodes and any scenarios.                                                *)
(***************************************************************************)
EXTENDS ConnectionInvariant, WireProofs

-----------------------------------------------------------------------------
(* Sequences *)

\* A sequence with one more element
LEMMA AppendIs ==
  ASSUME NEW q, q \in Seq(ToSet(q)), NEW e
  PROVE  /\ Append(q, e) \in Seq(ToSet(Append(q, e)))
         /\ Len(q) \in Nat /\ DOMAIN q = 1..Len(q) /\ Len(q) + 1 \notin DOMAIN q
         /\ DOMAIN Append(q, e) = DOMAIN q \cup {Len(q) + 1}
         /\ Append(q, e)[Len(q) + 1] = e /\ \A i \in DOMAIN q : Append(q, e)[i] = q[i]
         /\ ToSet(Append(q, e)) = ToSet(q) \cup {e}
<1> DEFINE S == ToSet(q) \cup {e}
           t == Append(q, e)
<1>1. q \in Seq(S) /\ e \in S
  OBVIOUS
<1> HIDE DEF S
<1>2. t \in Seq(S) /\ Len(t) = Len(q) + 1
  BY <1>1
<1>3. /\ Len(q) \in Nat /\ DOMAIN q = 1..Len(q) /\ Len(q) + 1 \notin DOMAIN q
      /\ DOMAIN t = DOMAIN q \cup {Len(q) + 1}
      /\ t[Len(q) + 1] = e /\ \A i \in DOMAIN q : t[i] = q[i]
  BY <1>1
<1> HIDE DEF t
<1>4. ToSet(t) = ToSet(q) \cup {e}
  BY <1>3 DEF ToSet
<1> QED
  BY <1>2, <1>3, <1>4 DEF t, S

\* A sequence is one of its own elements.
LEMMA SeqOfItself == ASSUME NEW S, NEW q \in Seq(S) PROVE q \in Seq(ToSet(q))
<1>1. Len(q) \in Nat /\ DOMAIN q = 1..Len(q) /\ q = [i \in 1..Len(q) |-> q[i]]
  OBVIOUS
<1>2. \A i \in 1..Len(q) : q[i] \in ToSet(q)
  BY <1>1 DEF ToSet
<1> QED
  BY <1>1, <1>2

\* What remove and its callers rely on: of the handlers those are left that are not
\* gone, in number and in kind.
Remains(r, q, i, gone) ==
  /\ r \in Seq(Nat) /\ Len(r) <= i /\ ((\E k \in 1..i : q[k] \in gone) => Len(r) < i)
  /\ ToSet(r) = {q[k] : k \in 1..i} \ gone
  /\ \A f : (\A j, k \in DOMAIN q : f[q[j]] = f[q[k]] => j = k)
              => \A j, k \in DOMAIN r : f[r[j]] = f[r[k]] => j = k

Removes(g, q, gone, i) ==
  g[i] = IF i = 0 THEN <<>> ELSE IF q[i] \in gone THEN g[i - 1] ELSE Append(g[i - 1], q[i])

\* One more handler: it is left out when it is gone, and put last otherwise.
LEMMA RemainsNext ==
  ASSUME NEW q \in Seq(Nat), NEW gone, NEW i \in Nat, i + 1 <= Len(q), NEW r, Remains(r, q, i, gone)
  PROVE  Remains(IF q[i + 1] \in gone THEN r ELSE Append(r, q[i + 1]), q, i + 1, gone)
<1>1. /\ i + 1 \in DOMAIN q /\ q[i + 1] \in Nat /\ 1..(i + 1) = 1..i \cup {i + 1}
      /\ r \in Seq(Nat) /\ Len(r) <= i /\ Len(r) \in Nat
  <2>1. i + 1 \in DOMAIN q /\ q[i + 1] \in Nat
    OBVIOUS
  <2>2. 1..(i + 1) = 1..i \cup {i + 1}
    OBVIOUS
  <2>3. r \in Seq(Nat) /\ Len(r) <= i
    BY DEF Remains
  <2>4. Len(r) \in Nat
    BY <2>3
  <2> QED
    BY <2>1, <2>2, <2>3, <2>4
<1>2. {q[k] : k \in 1..(i + 1)} = {q[k] : k \in 1..i} \cup {q[i + 1]}
  BY <1>1
<1>3. CASE q[i + 1] \in gone
  <2>1. Len(r) < i + 1
    BY <1>1
  <2> QED
    BY <1>1, <1>2, <1>3, <2>1 DEF Remains
<1>4. CASE q[i + 1] \notin gone
  <2> DEFINE t == Append(r, q[i + 1])
  <2>1. /\ t \in Seq(Nat) /\ Len(t) = Len(r) + 1 /\ DOMAIN t = DOMAIN r \cup {Len(r) + 1}
        /\ t[Len(r) + 1] = q[i + 1] /\ \A j \in DOMAIN r : t[j] = r[j]
    <3>1. PICK e \in Nat : e = q[i + 1]
      BY <1>1
    <3>2. r \in Seq(ToSet(r))
      BY <1>1, SeqOfItself
    <3>3. Append(r, e) \in Seq(Nat) /\ Len(Append(r, e)) = Len(r) + 1
      BY <1>1
    <3> QED
      BY <3>1, <3>2, <3>3, AppendIs
  <2> HIDE DEF t
  <2>2. ToSet(t) = ToSet(r) \cup {q[i + 1]}
    BY <2>1 DEF ToSet
  <2>3. ToSet(t) = {q[k] : k \in 1..(i + 1)} \ gone
    BY <1>2, <1>4, <2>2 DEF Remains
  <2>4. ASSUME NEW f, \A j, k \in DOMAIN q : f[q[j]] = f[q[k]] => j = k,
               NEW j \in DOMAIN t, NEW k \in DOMAIN t, f[t[j]] = f[t[k]]
        PROVE  j = k
    <3>1. ASSUME NEW l \in DOMAIN r PROVE f[r[l]] # f[q[i + 1]]
      <4>1. r[l] \in ToSet(r)
        BY DEF ToSet
      <4>2. PICK m \in 1..i : r[l] = q[m]
        BY <4>1 DEF Remains
      <4>3. m \in DOMAIN q /\ m # i + 1
        BY <1>1
      <4> QED
        BY <1>1, <2>4, <4>2, <4>3
    <3>2. \A l, m \in DOMAIN r : f[r[l]] = f[r[m]] => l = m
      BY <2>4 DEF Remains
    <3> QED
      BY <2>1, <2>4, <3>1, <3>2
  <2>5. Len(t) <= i + 1 /\ ((\E k \in 1..(i + 1) : q[k] \in gone) => Len(t) < i + 1)
    <3>1. (\E k \in 1..i : q[k] \in gone) => Len(r) < i
      BY DEF Remains
    <3>2. (\E k \in 1..(i + 1) : q[k] \in gone) => \E k \in 1..i : q[k] \in gone
      BY <1>1, <1>4
    <3> QED
      BY <1>1, <2>1, <3>1, <3>2
  <2>6. Remains(t, q, i + 1, gone)
    BY <2>1, <2>3, <2>4, <2>5 DEF Remains
  <2> QED
    BY <1>4, <2>6 DEF t
<1> QED
  BY <1>3, <1>4

\* The function that Without defines, handler by handler.
LEMMA RemoveExists ==
  ASSUME NEW q \in Seq(Nat), NEW gone
  PROVE  \E g : \A i \in 0..Len(q) : Removes(g, q, gone, i) /\ Remains(g[i], q, i, gone)
<1> DEFINE Eq(g, k) == \A i \in 0..k : Removes(g, q, gone, i) /\ Remains(g[i], q, i, gone)
           A == {k \in Nat : k <= Len(q) => \E g : Eq(g, k)}
<1>1. Len(q) \in Nat
  OBVIOUS
<1>2. 0 \in A
  <2>1. Remains(<<>>, q, 0, gone)
    BY DEF Remains, ToSet
  <2>2. Eq([i \in {0} |-> <<>>], 0)
    BY <2>1 DEF Removes
  <2> QED
    BY <2>2
<1>3. ASSUME NEW k \in A PROVE k + 1 \in A
  <2> SUFFICES ASSUME k + 1 <= Len(q) PROVE \E f : Eq(f, k + 1)
    OBVIOUS
  <2>1. PICK g : Eq(g, k)
    BY <1>1
  <2> DEFINE r == IF q[k + 1] \in gone THEN g[k] ELSE Append(g[k], q[k + 1])
             h == [i \in 0..(k + 1) |-> IF i = k + 1 THEN r ELSE g[i]]
  <2>2. Remains(r, q, k + 1, gone)
    BY <2>1, RemainsNext
  <2>3. ASSUME NEW i \in 0..(k + 1) PROVE Removes(h, q, gone, i) /\ Remains(h[i], q, i, gone)
    <3>1. CASE i = k + 1
      <4>1. h[i] = r /\ h[i - 1] = g[k] /\ i # 0
        BY <3>1
      <4> QED
        BY <2>2, <3>1, <4>1 DEF Removes
    <3>2. CASE i # k + 1
      <4>1. i \in 0..k /\ h[i] = g[i] /\ (i # 0 => h[i - 1] = g[i - 1])
        BY <3>2
      <4> QED
        BY <2>1, <4>1 DEF Removes
    <3> QED
      BY <3>1, <3>2
  <2> HIDE DEF h
  <2> QED
    BY <2>3
<1>4. A = Nat
  BY <1>2, <1>3, NatSet
<1>5. PICK g : Eq(g, Len(q))
  BY <1>1, <1>4
<1> QED
  BY <1>5

\* What Without returns.
LEMMA WithoutIs ==
  ASSUME NEW q \in Seq(Nat), NEW gone
  PROVE  /\ Without(q, gone) \in Seq(Nat) /\ Len(Without(q, gone)) <= Len(q)
         /\ ToSet(q) \cap gone # {} => Len(Without(q, gone)) < Len(q)
         /\ ToSet(Without(q, gone)) = ToSet(q) \ gone
         /\ \A f : (\A j, k \in DOMAIN q : f[q[j]] = f[q[k]] => j = k)
                     => \A j, k \in DOMAIN Without(q, gone) :
                          f[Without(q, gone)[j]] = f[Without(q, gone)[k]] => j = k
<1>1. PICK g : \A i \in 0..Len(q) : Removes(g, q, gone, i) /\ Remains(g[i], q, i, gone)
  BY RemoveExists
<1> DEFINE n == Len(q)
           h == [i \in 0..n |-> g[i]]
<1>2. n \in Nat
  OBVIOUS
<1>3. h = [i \in 0..n |-> IF i = 0 THEN <<>>
                          ELSE IF q[i] \in gone THEN h[i - 1] ELSE Append(h[i - 1], q[i])]
  <2>1. ASSUME NEW i \in 0..n
        PROVE  g[i] = IF i = 0 THEN <<>> ELSE IF q[i] \in gone THEN h[i - 1] ELSE Append(h[i - 1], q[i])
    <3>1. i # 0 => h[i - 1] = g[i - 1]
      BY <1>2
    <3> QED
      BY <1>1, <3>1 DEF Removes
  <2> QED
    BY <2>1
<1> DEFINE kept[i \in 0..n] ==
             IF i = 0 THEN <<>>
             ELSE IF q[i] \in gone THEN kept[i - 1] ELSE Append(kept[i - 1], q[i])
<1>4. n \in 0..n /\ h[n] = g[n]
  BY <1>2, SMTT(30)
<1> HIDE DEF h
<1>5. kept = [i \in 0..n |-> IF i = 0 THEN <<>>
                             ELSE IF q[i] \in gone THEN kept[i - 1] ELSE Append(kept[i - 1], q[i])]
  BY <1>3 DEF kept
<1>6. Without(q, gone) = kept[n]
  BY DEF Without
<1> HIDE DEF kept
<1> DEFINE A == {i \in Nat : i <= n => kept[i] = h[i]}
<1>7. 0 \in A
  BY <1>2, <1>3, <1>5
<1>8. ASSUME NEW i \in A PROVE i + 1 \in A
  <2> SUFFICES ASSUME i + 1 <= n PROVE kept[i + 1] = h[i + 1]
    OBVIOUS
  <2>1. i + 1 \in 0..n /\ i + 1 # 0 /\ (i + 1) - 1 = i /\ kept[i] = h[i]
    BY <1>2
  <2>2. kept[i + 1] = IF q[i + 1] \in gone THEN kept[i] ELSE Append(kept[i], q[i + 1])
    BY <1>5, <2>1
  <2>3. h[i + 1] = IF q[i + 1] \in gone THEN h[i] ELSE Append(h[i], q[i + 1])
    BY <1>3, <2>1
  <2> QED
    BY <2>1, <2>2, <2>3
<1>9. A = Nat
  BY <1>7, <1>8, NatSet
<1>10. Remains(Without(q, gone), q, n, gone)
  BY <1>1, <1>2, <1>4, <1>6, <1>9
<1>11. ToSet(q) = {q[k] : k \in 1..n}
  BY DEF ToSet
<1> QED
  BY <1>10, <1>11 DEF Remains

\* A sequence of which an element is another one
LEMMA SetOne ==
  ASSUME NEW q, q \in Seq(ToSet(q)), NEW i \in DOMAIN q, NEW x
  PROVE  /\ [q EXCEPT ![i] = x] \in Seq(ToSet([q EXCEPT ![i] = x]))
         /\ DOMAIN [q EXCEPT ![i] = x] = DOMAIN q /\ [q EXCEPT ![i] = x][i] = x
         /\ \A j \in DOMAIN q : j # i => [q EXCEPT ![i] = x][j] = q[j]
<1> DEFINE t == [q EXCEPT ![i] = x]
<1>1. DOMAIN t = DOMAIN q /\ t[i] = x /\ \A j \in DOMAIN q : j # i => t[j] = q[j]
  OBVIOUS
<1>2. DOMAIN q = 1..Len(q) /\ Len(q) \in Nat
  OBVIOUS
<1>3. t = [j \in 1..Len(q) |-> t[j]]
  BY <1>2
<1> HIDE DEF t
<1>4. \A j \in 1..Len(q) : t[j] \in ToSet(t)
  BY <1>1, <1>2 DEF ToSet
<1>5. t \in Seq(ToSet(t))
  BY <1>2, <1>3, <1>4
<1> QED
  BY <1>1, <1>5 DEF t

\* The head of a sequence and what remains.
LEMMA TailIs ==
  ASSUME NEW S, NEW q \in Seq(S), q # <<>>
  PROVE  /\ Head(q) \in S /\ Head(q) \in ToSet(q) /\ Tail(q) \in Seq(S)
         /\ ToSet(q) = ToSet(Tail(q)) \cup {Head(q)}
<1>1. /\ Len(q) \in Nat /\ Len(q) >= 1 /\ DOMAIN q = 1..Len(q) /\ Head(q) = q[1] /\ Head(q) \in S
      /\ Tail(q) \in Seq(S) /\ Len(Tail(q)) = Len(q) - 1 /\ DOMAIN Tail(q) = 1..(Len(q) - 1)
      /\ \A i \in 1..(Len(q) - 1) : Tail(q)[i] = q[i + 1]
  OBVIOUS
<1>2. ASSUME NEW i \in DOMAIN q PROVE q[i] \in ToSet(Tail(q)) \cup {Head(q)}
  <2>1. CASE i = 1
    BY <1>1, <2>1
  <2>2. CASE i # 1
    <3>1. i - 1 \in DOMAIN Tail(q) /\ Tail(q)[i - 1] = q[i]
      BY <1>1, <2>2
    <3> QED
      BY <3>1 DEF ToSet
  <2> QED
    BY <2>1, <2>2
<1>3. ASSUME NEW i \in DOMAIN Tail(q) PROVE Tail(q)[i] \in ToSet(q)
  <2>1. i + 1 \in DOMAIN q /\ Tail(q)[i] = q[i + 1]
    BY <1>1
  <2> QED
    BY <2>1 DEF ToSet
<1>4. Head(q) \in ToSet(q)
  BY <1>1 DEF ToSet
<1> QED
  BY <1>1, <1>2, <1>3, <1>4 DEF ToSet

-----------------------------------------------------------------------------
(* What becomes of a stream *)

\* y is x with the same ends.
Same(x, y) ==
  StreamOK(y) /\ y.from = x.from /\ y.to = x.to /\ y.first = x.first /\ y.crosses = x.crosses

\* A stream has two ends, each the other one of the other.
LEMMA OtherIs ==
  ASSUME NEW x, StreamOK(x), NEW n \in {x.from, x.to}
  PROVE  /\ n \in Nodes /\ OtherEnd(x, n) \in Nodes /\ OtherEnd(x, n) # n
         /\ {x.from, x.to} = {n, OtherEnd(x, n)} /\ OtherEnd(x, OtherEnd(x, n)) = n
         /\ \A y : Same(x, y) => OtherEnd(y, n) = OtherEnd(x, n)
BY DEF StreamOK, OtherEnd, Same

\* The end of n is closed; what lies on the stream for the other is the first part.
Begins(q, w) == \A i \in DOMAIN q : i \in DOMAIN w /\ q[i] = w[i]

ClosedAt(x, y, n, how) ==
  /\ Same(x, y)
  /\ y.task[n] = how /\ y.task[OtherEnd(x, n)] = x.task[OtherEnd(x, n)]
  /\ y.out[n] = <<>> /\ y.out[OtherEnd(x, n)] = x.out[OtherEnd(x, n)]
  /\ y.wire[n] = <<>> /\ ToSet(y.wire[OtherEnd(x, n)]) \subseteq ToSet(x.wire[OtherEnd(x, n)])
  /\ Begins(y.wire[OtherEnd(x, n)], x.wire[OtherEnd(x, n)])

\* A function of which two values change.
LEMMA TwoAt ==
  ASSUME NEW D, NEW S, NEW f \in [D -> S], NEW a \in D, NEW b \in D, a # b, NEW u \in S, NEW v \in S
  PROVE  /\ [[f EXCEPT ![a] = u] EXCEPT ![b] = v] \in [D -> S]
         /\ [[f EXCEPT ![a] = u] EXCEPT ![b] = v][a] = u
         /\ [[f EXCEPT ![a] = u] EXCEPT ![b] = v][b] = v
OBVIOUS

\* What Closed makes of a stream.
LEMMA ClosedIs ==
  ASSUME NEW x, StreamOK(x), NEW n \in {x.from, x.to}, NEW how \in {"ended", "aborted"},
         NEW kept \in 0..Len(x.wire[OtherEnd(x, n)])
  PROVE  ClosedAt(x, Closed(x, n, how, kept), n, how)
<1> DEFINE p == OtherEnd(x, n)
           y == Closed(x, n, how, kept)
           w == SubSeq(x.wire[p], 1, kept)
<1>1. p \in {x.from, x.to} /\ n \in {x.from, x.to} /\ p # n
  BY OtherIs
<1>2. x \in StreamsOf(x.from, x.to)
  BY DEF StreamOK
<1>3. x.wire[p] \in Seq(Frames) /\ x.out[p] \in Seq(Message)
  BY <1>1, <1>2 DEF StreamsOf
<1>4. w \in Seq(Frames) /\ Len(w) = kept /\ \A i \in 1..kept : w[i] = x.wire[p][i]
  <2> DEFINE q == x.wire[p]
  <2>1. q \in Seq(Frames) /\ kept \in 0..Len(q)
    BY <1>3
  <2> HIDE DEF q
  <2>2. SubSeq(q, 1, kept) \in Seq(Frames) /\ Len(SubSeq(q, 1, kept)) = kept
        /\ \A i \in 1..kept : SubSeq(q, 1, kept)[i] = q[i]
    BY <2>1
  <2> QED
    BY <2>2 DEF q
<1>5. ToSet(w) \subseteq ToSet(x.wire[p]) /\ Begins(w, x.wire[p])
  BY <1>3, <1>4 DEF ToSet, Begins
<1> HIDE DEF w, p
<1>6. y = [x EXCEPT !.task[n] = how, !.out[n] = <<>>, !.wire[n] = <<>>, !.wire[p] = w]
  BY <1>1 DEF Closed, p, w, StreamsOf
<1>7. /\ y.from = x.from /\ y.to = x.to /\ y.first = x.first /\ y.crosses = x.crosses
      /\ y.task = [x.task EXCEPT ![n] = how] /\ y.out = [x.out EXCEPT ![n] = <<>>]
      /\ y.wire = [[x.wire EXCEPT ![n] = <<>>] EXCEPT ![p] = w]
      /\ y \in [from : {x.from}, to : {x.to}, first : {x.first}, crosses : BOOLEAN,
                task : {y.task}, out : {y.out}, wire : {y.wire}]
  BY <1>1, <1>2, <1>6 DEF StreamsOf
<1> HIDE DEF y
<1>8. /\ y.task \in [{x.from, x.to} -> Tasks] /\ y.task[n] = how /\ y.task[p] = x.task[p]
      /\ y.out \in [{x.from, x.to} -> Seq(Message)] /\ y.out[n] = <<>> /\ y.out[p] = x.out[p]
      /\ y.wire \in [{x.from, x.to} -> Seq(Frames)] /\ y.wire[n] = <<>> /\ y.wire[p] = w
  <2>1. /\ x.task \in [{x.from, x.to} -> Tasks] /\ x.out \in [{x.from, x.to} -> Seq(Message)]
        /\ x.wire \in [{x.from, x.to} -> Seq(Frames)]
    BY <1>2 DEF StreamsOf
  <2>2. y.task \in [{x.from, x.to} -> Tasks] /\ y.task[n] = how /\ y.task[p] = x.task[p]
    BY <1>1, <1>7, <2>1 DEF Tasks
  <2>3. y.out \in [{x.from, x.to} -> Seq(Message)] /\ y.out[n] = <<>> /\ y.out[p] = x.out[p]
    BY <1>1, <1>7, <2>1
  <2>4. <<>> \in Seq(Frames) /\ w \in Seq(Frames)
    BY <1>4
  <2>5. y.wire \in [{x.from, x.to} -> Seq(Frames)] /\ y.wire[n] = <<>> /\ y.wire[p] = w
    <3> DEFINE g == [[x.wire EXCEPT ![n] = <<>>] EXCEPT ![p] = w]
    <3>1. g \in [{x.from, x.to} -> Seq(Frames)] /\ g[n] = <<>> /\ g[p] = w
      BY <1>1, <2>1, <2>4, TwoAt
    <3>2. y.wire = g
      BY <1>7
    <3> HIDE DEF g
    <3> QED
      BY <3>1, <3>2
  <2> QED
    BY <2>2, <2>3, <2>5
<1>9. StreamOK(y)
  BY <1>1, <1>2, <1>7, <1>8 DEF StreamOK, StreamsOf
<1> QED
  BY <1>5, <1>7, <1>8, <1>9 DEF ClosedAt, Same, y, p

\* What n makes of all its streams ids when it closes its ends of them.
ClosesAll(all, new, n, ids, how) ==
  /\ new \in Seq(ToSet(new)) /\ DOMAIN new = DOMAIN all
  /\ \A s \in DOMAIN all \ ids : new[s] = all[s]
  /\ \A s \in ids : ClosedAt(all[s], new[s], n, how)

StreamsOK(all) == all \in Seq(ToSet(all)) /\ \A s \in DOMAIN all : StreamOK(all[s])

\* What Closing makes of streams.
LEMMA ClosingIs ==
  ASSUME NEW n, NEW all, StreamsOK(all), NEW ids \in SUBSET DOMAIN all,
         \A s \in ids : n \in {all[s].from, all[s].to}, NEW how \in {"ended", "aborted"},
         NEW new, new \in Closing(n, ids, how, all)
  PROVE  ClosesAll(all, new, n, ids, how)
<1>1. PICK k \in [ids -> UNION {0..Len(all[s].wire[OtherEnd(all[s], n)]) : s \in ids}] :
        /\ \A s \in ids : k[s] \in 0..Len(all[s].wire[OtherEnd(all[s], n)])
        /\ new = [s \in DOMAIN all |-> IF s \in ids THEN Closed(all[s], n, how, k[s]) ELSE all[s]]
  BY DEF Closing
<1>2. \A s \in DOMAIN all \ ids : new[s] = all[s]
  BY <1>1
<1>3. ASSUME NEW s \in ids PROVE ClosedAt(all[s], new[s], n, how)
  <2>1. new[s] = Closed(all[s], n, how, k[s])
    BY <1>1
  <2>2. StreamOK(all[s]) /\ k[s] \in 0..Len(all[s].wire[OtherEnd(all[s], n)])
    BY <1>1 DEF StreamsOK
  <2> QED
    BY <2>1, <2>2, ClosedIs
<1>4. DOMAIN new = DOMAIN all
  BY <1>1
<1>5. new \in Seq(ToSet(new))
  <2>1. Len(all) \in Nat /\ DOMAIN all = 1..Len(all)
    BY DEF StreamsOK
  <2>2. new = [s \in 1..Len(all) |-> new[s]]
    BY <1>1, <2>1
  <2>3. \A s \in 1..Len(all) : new[s] \in ToSet(new)
    BY <1>4, <2>1 DEF ToSet
  <2> QED
    BY <2>1, <2>2, <2>3
<1> QED
  BY <1>2, <1>3, <1>4, <1>5 DEF ClosesAll

\* What waits at an end of a stream, what lies on it, or its task changes.
OutAt(x, y, n, q) ==
  /\ Same(x, y) /\ y.task = x.task /\ y.wire = x.wire
  /\ y.out[n] = q /\ y.out[OtherEnd(x, n)] = x.out[OtherEnd(x, n)]

WireAt(x, y, n, q) ==
  /\ Same(x, y) /\ y.task = x.task /\ y.out = x.out
  /\ y.wire[n] = q /\ y.wire[OtherEnd(x, n)] = x.wire[OtherEnd(x, n)]

WriteAt(x, y, n, q, w) ==
  /\ Same(x, y) /\ y.task = x.task
  /\ y.out[n] = q /\ y.out[OtherEnd(x, n)] = x.out[OtherEnd(x, n)]
  /\ y.wire[n] = x.wire[n] /\ y.wire[OtherEnd(x, n)] = w

RunsAt(x, y, n) ==
  /\ Same(x, y) /\ y.out = x.out /\ y.wire = x.wire
  /\ y.task[n] = "running" /\ y.task[OtherEnd(x, n)] = x.task[OtherEnd(x, n)]

\* What a stream consists of.
LEMMA StreamParts ==
  ASSUME NEW x, StreamOK(x)
  PROVE  /\ x.from \in Nodes /\ x.to \in Nodes /\ x.from # x.to /\ x.first = FirstMessage(x.from)
         /\ x.task \in [{x.from, x.to} -> Tasks] /\ x.task[x.from] # "backlog"
         /\ x.out \in [{x.from, x.to} -> Seq(Message)] /\ x.wire \in [{x.from, x.to} -> Seq(Frames)]
         /\ x \in [from : {x.from}, to : {x.to}, first : {x.first}, crosses : BOOLEAN,
                   task : {x.task}, out : {x.out}, wire : {x.wire}]
BY DEF StreamOK, StreamsOf

\* What consists of these is a stream.
LEMMA StreamFrom ==
  ASSUME NEW x, x.from \in Nodes, x.to \in Nodes, x.from # x.to, x.first = FirstMessage(x.from),
         x.task \in [{x.from, x.to} -> Tasks], x.task[x.from] # "backlog",
         x.out \in [{x.from, x.to} -> Seq(Message)], x.wire \in [{x.from, x.to} -> Seq(Frames)],
         x \in [from : {x.from}, to : {x.to}, first : {x.first}, crosses : BOOLEAN,
                task : {x.task}, out : {x.out}, wire : {x.wire}]
  PROVE  StreamOK(x)
BY DEF StreamOK, StreamsOf

\* What waits at an end changes.
LEMMA OutIs ==
  ASSUME NEW x, StreamOK(x), NEW n \in {x.from, x.to}, NEW q \in Seq(Message)
  PROVE  OutAt(x, [x EXCEPT !.out[n] = q], n, q)
<1> DEFINE p == OtherEnd(x, n)
           f == [x.out EXCEPT ![n] = q]
           y == [x EXCEPT !.out[n] = q]
<1>1. p \in {x.from, x.to} /\ n \in {x.from, x.to} /\ p # n
  BY OtherIs
<1>2. f \in [{x.from, x.to} -> Seq(Message)] /\ f[n] = q /\ f[p] = x.out[p]
  <2>1. /\ x.task \in [{x.from, x.to} -> Tasks] /\ x.out \in [{x.from, x.to} -> Seq(Message)]
        /\ x.wire \in [{x.from, x.to} -> Seq(Frames)]
    BY StreamParts
  <2> QED
    BY <1>1, <2>1
<1>3. /\ y.from = x.from /\ y.to = x.to /\ y.first = x.first /\ y.crosses = x.crosses /\ y.task = x.task
      /\ y.wire = x.wire /\ y.out = f
      /\ y \in [from : {x.from}, to : {x.to}, first : {x.first}, crosses : BOOLEAN,
                task : {x.task}, out : {f}, wire : {x.wire}]
  BY <1>1, StreamParts
<1> HIDE DEF y, f, p
<1>4. StreamOK(y)
  BY <1>2, <1>3, StreamParts, StreamFrom
<1> QED
  BY <1>2, <1>3, <1>4 DEF OutAt, Same, y, p

\* What lies on a stream for an end of it changes.
LEMMA WireIs ==
  ASSUME NEW x, StreamOK(x), NEW n \in {x.from, x.to}, NEW q \in Seq(Frames)
  PROVE  WireAt(x, [x EXCEPT !.wire[n] = q], n, q)
<1> DEFINE p == OtherEnd(x, n)
           f == [x.wire EXCEPT ![n] = q]
           y == [x EXCEPT !.wire[n] = q]
<1>1. p \in {x.from, x.to} /\ n \in {x.from, x.to} /\ p # n
  BY OtherIs
<1>2. f \in [{x.from, x.to} -> Seq(Frames)] /\ f[n] = q /\ f[p] = x.wire[p]
  <2>1. /\ x.task \in [{x.from, x.to} -> Tasks] /\ x.out \in [{x.from, x.to} -> Seq(Message)]
        /\ x.wire \in [{x.from, x.to} -> Seq(Frames)]
    BY StreamParts
  <2> QED
    BY <1>1, <2>1
<1>3. /\ y.from = x.from /\ y.to = x.to /\ y.first = x.first /\ y.crosses = x.crosses /\ y.task = x.task
      /\ y.out = x.out /\ y.wire = f
      /\ y \in [from : {x.from}, to : {x.to}, first : {x.first}, crosses : BOOLEAN,
                task : {x.task}, out : {x.out}, wire : {f}]
  BY <1>1, StreamParts
<1> HIDE DEF y, f, p
<1>4. StreamOK(y)
  BY <1>2, <1>3, StreamParts, StreamFrom
<1> QED
  BY <1>2, <1>3, <1>4 DEF WireAt, Same, y, p

\* Both change when a frame is written.
LEMMA WriteIs ==
  ASSUME NEW x, StreamOK(x), NEW n \in {x.from, x.to}, NEW q \in Seq(Message), NEW w \in Seq(Frames)
  PROVE  WriteAt(x, [x EXCEPT !.out[n] = q, !.wire[OtherEnd(x, n)] = w], n, q, w)
<1> DEFINE p == OtherEnd(x, n)
           f == [x.out EXCEPT ![n] = q]
           g == [x.wire EXCEPT ![p] = w]
           y == [x EXCEPT !.out[n] = q, !.wire[OtherEnd(x, n)] = w]
<1>1. p \in {x.from, x.to} /\ n \in {x.from, x.to} /\ p # n
  BY OtherIs
<1>2. /\ f \in [{x.from, x.to} -> Seq(Message)] /\ f[n] = q /\ f[p] = x.out[p]
      /\ g \in [{x.from, x.to} -> Seq(Frames)] /\ g[p] = w /\ g[n] = x.wire[n]
  <2>1. /\ x.task \in [{x.from, x.to} -> Tasks] /\ x.out \in [{x.from, x.to} -> Seq(Message)]
        /\ x.wire \in [{x.from, x.to} -> Seq(Frames)]
    BY StreamParts
  <2> QED
    BY <1>1, <2>1
<1>3. /\ y.from = x.from /\ y.to = x.to /\ y.first = x.first /\ y.crosses = x.crosses /\ y.task = x.task
      /\ y.out = f /\ y.wire = g
      /\ y \in [from : {x.from}, to : {x.to}, first : {x.first}, crosses : BOOLEAN,
                task : {x.task}, out : {f}, wire : {g}]
  BY <1>1, StreamParts
<1> HIDE DEF y, f, g, p
<1>4. StreamOK(y)
  BY <1>2, <1>3, StreamParts, StreamFrom
<1> QED
  BY <1>2, <1>3, <1>4 DEF WriteAt, Same, y, p

\* A task is started.
LEMMA RunsIs ==
  ASSUME NEW x, StreamOK(x), NEW n \in {x.from, x.to}
  PROVE  RunsAt(x, [x EXCEPT !.task[n] = "running"], n)
<1> DEFINE p == OtherEnd(x, n)
           f == [x.task EXCEPT ![n] = "running"]
           y == [x EXCEPT !.task[n] = "running"]
<1>1. p \in {x.from, x.to} /\ n \in {x.from, x.to} /\ p # n
  BY OtherIs
<1>0. "running" \in Tasks
  BY DEF Tasks
<1>2. f \in [{x.from, x.to} -> Tasks] /\ f[n] = "running" /\ f[p] = x.task[p]
  <2>1. x.task \in [{x.from, x.to} -> Tasks]
    BY StreamParts
  <2> QED
    BY <1>0, <1>1, <2>1
<1>3. /\ y.from = x.from /\ y.to = x.to /\ y.first = x.first /\ y.crosses = x.crosses /\ y.task = f
      /\ y.out = x.out /\ y.wire = x.wire
      /\ y \in [from : {x.from}, to : {x.to}, first : {x.first}, crosses : BOOLEAN,
                task : {f}, out : {x.out}, wire : {x.wire}]
  BY <1>1, StreamParts
<1> HIDE DEF y, f, p
<1>5. f[x.from] # "backlog"
  <2>1. x.task[x.from] # "backlog" /\ (x.from = n \/ x.from = p)
    BY <1>1, StreamParts
  <2> QED
    BY <1>2, <2>1
<1>4. StreamOK(y)
  BY <1>2, <1>3, <1>5, StreamParts, StreamFrom
<1> QED
  BY <1>2, <1>3, <1>4 DEF RunsAt, Same, y, p

\* A new stream of n to p, on which it sends a message.
NewAt(y, n, p, m) ==
  /\ StreamOK(y) /\ y.from = n /\ y.to = p
  /\ y.task[n] = "running" /\ y.task[p] = "backlog"
  /\ y.crosses \/ \A s \in Backlog(n) : streams[s].from # p
  /\ y.out[n] = <<m>> /\ y.out[p] = <<>> /\ y.wire[n] = <<>> /\ y.wire[p] = <<>>

\* The stream that SendFirst opens.
LEMMA OpenedIs ==
  ASSUME NEW n \in Nodes, NEW p \in Nodes, n # p, NEW m \in Message
  PROVE  NewAt([Opened(n, p) EXCEPT !.out[n] = <<m>>], n, p, m)
<1> DEFINE x == Opened(n, p)
           y == [x EXCEPT !.out[n] = <<m>>]
<1>1. /\ x.from = n /\ x.to = p /\ x.first = FirstMessage(n) /\ x.crosses \in BOOLEAN
      /\ x.task = [i \in {n, p} |-> IF i = n THEN "running" ELSE "backlog"]
      /\ x.out = [i \in {n, p} |-> <<>>] /\ x.wire = [i \in {n, p} |-> <<>>]
  BY DEF Opened
<1>2. /\ x.task \in [{n, p} -> Tasks] /\ x.task[n] = "running" /\ x.task[p] = "backlog"
      /\ x.out \in [{n, p} -> Seq(Message)] /\ x.out[p] = <<>>
      /\ x.wire \in [{n, p} -> Seq(Frames)] /\ x.wire[n] = <<>> /\ x.wire[p] = <<>>
  BY <1>1 DEF Tasks
<1>3. x \in [from : {x.from}, to : {x.to}, first : {x.first}, crosses : BOOLEAN,
             task : {x.task}, out : {x.out}, wire : {x.wire}]
  BY DEF Opened
<1>8. x.crosses \/ \A s \in Backlog(n) : streams[s].from # p
  BY DEF Opened
<1> HIDE DEF x
<1>4. StreamOK(x)
  BY <1>1, <1>2, <1>3, StreamFrom
<1>5. <<m>> \in Seq(Message) /\ n \in {x.from, x.to} /\ OtherEnd(x, n) = p
  BY <1>1 DEF OtherEnd
<1>6. OutAt(x, y, n, <<m>>)
  BY <1>4, <1>5, OutIs
<1> HIDE DEF y
<1>7. NewAt(y, n, p, m)
  BY <1>1, <1>2, <1>5, <1>6, <1>8 DEF OutAt, NewAt, Same
<1> QED
  BY <1>7 DEF x, y

-----------------------------------------------------------------------------
(* The handlers of a node *)

Distinct(f, q) == \A j, k \in DOMAIN q : f[q[j]] = f[q[k]] => j = k

\* A handler for a peer that has none yet.
LEMMA AppendDistinct ==
  ASSUME NEW q \in Seq(Nat), NEW e \in Nat, NEW f, Distinct(f, q), \A t \in ToSet(q) : f[t] # f[e]
  PROVE  Distinct(f, Append(q, e))
<1> DEFINE r == Append(q, e)
<1>1. /\ Len(q) \in Nat /\ DOMAIN r = DOMAIN q \cup {Len(q) + 1} /\ r[Len(q) + 1] = e
      /\ \A j \in DOMAIN q : r[j] = q[j]
  OBVIOUS
<1>2. \A j \in DOMAIN q : f[q[j]] # f[e]
  BY DEF ToSet
<1> HIDE DEF r
<1>3. Distinct(f, r)
  BY <1>1, <1>2 DEF Distinct
<1> QED
  BY <1>3 DEF r

FirstOf(e, q, c) == e = IF Len(q) >= c THEN <<Head(q)>> ELSE <<>>

\* When there are as many handlers as there may be, the first of them is left out.
LEMMA EvictIs ==
  ASSUME NEW q \in Seq(Nat), NEW c \in Nat \ {0}, Len(q) <= c,
         NEW e, FirstOf(e, q, c)
  PROVE  /\ Rest(q, Len(e)) \in Seq(Nat) /\ Len(Rest(q, Len(e))) + 1 <= c
         /\ ToSet(q) = ToSet(Rest(q, Len(e))) \cup ToSet(e)
         /\ \A f : Distinct(f, q) => Distinct(f, Rest(q, Len(e)))
<1>1. Len(q) \in Nat /\ DOMAIN q = 1..Len(q)
  OBVIOUS
<1>2. CASE Len(q) < c
  <2>1. Len(e) = 0 /\ ToSet(e) = {}
    <3>1. Len(<<>>) = 0 /\ ToSet(<<>>) = {}
      BY DEF ToSet
    <3>2. e = <<>>
      BY <1>1, <1>2 DEF FirstOf
    <3> QED
      BY <3>1, <3>2
  <2>2. Rest(q, 0) = q
    BY DEF Rest
  <2> QED
    BY <1>1, <1>2, <2>1, <2>2
<1>3. CASE Len(q) >= c
  <2> DEFINE r == Rest(q, 1)
  <2>1. Len(e) = 1 /\ ToSet(e) = {q[1]} /\ Len(q) = c
    <3>1. PICK h \in Nat : h = q[1] /\ Head(q) = h
      BY <1>1, <1>3
    <3>2. Len(<<h>>) = 1 /\ ToSet(<<h>>) = {h}
      BY DEF ToSet
    <3>3. Len(q) = c
      <4>1. \A a, b \in Nat : a <= b /\ a >= b => a = b
        OBVIOUS
      <4>2. Len(q) \in Nat /\ c \in Nat
        BY <1>1
      <4> QED
        BY <1>3, <4>1, <4>2
    <3>4. e = <<h>>
      BY <1>3, <3>1 DEF FirstOf
    <3> QED
      BY <3>2, <3>3, <3>4, <3>1
  <2>2. /\ r \in Seq(Nat) /\ Len(r) = Len(q) - 1 /\ DOMAIN r = 1..(Len(q) - 1)
        /\ \A i \in 1..(Len(q) - 1) : r[i] = q[i + 1]
    BY <1>1, <2>1 DEF Rest
  <2> HIDE DEF r
  <2>3. ToSet(q) = ToSet(r) \cup {q[1]}
    <3>1. ASSUME NEW i \in DOMAIN q PROVE q[i] \in ToSet(r) \cup {q[1]}
      <4>1. CASE i # 1
        <5>1. i - 1 \in DOMAIN r /\ r[i - 1] = q[i]
          BY <1>1, <2>2, <4>1
        <5> QED
          BY <5>1 DEF ToSet
      <4> QED
        BY <4>1
    <3>2. ASSUME NEW i \in DOMAIN r PROVE r[i] \in ToSet(q)
      <4>1. i + 1 \in DOMAIN q /\ r[i] = q[i + 1]
        BY <1>1, <2>2, SMTT(30)
      <4> QED
        BY <4>1 DEF ToSet
    <3>3. 1 \in DOMAIN q
      BY <1>1, <2>1
    <3> QED
      BY <3>1, <3>2, <3>3 DEF ToSet
  <2>4. ASSUME NEW f, Distinct(f, q), NEW j \in DOMAIN r, NEW k \in DOMAIN r, f[r[j]] = f[r[k]]
        PROVE  j = k
    <3>1. /\ j + 1 \in DOMAIN q /\ k + 1 \in DOMAIN q /\ r[j] = q[j + 1] /\ r[k] = q[k + 1]
          /\ j \in Nat /\ k \in Nat
      <4>1. \A m \in Nat : \A l \in 1..(m - 1) : l + 1 \in 1..m /\ l \in Nat
        OBVIOUS
      <4>2. ASSUME NEW l \in DOMAIN r PROVE l + 1 \in DOMAIN q /\ r[l] = q[l + 1] /\ l \in Nat
        <5>1. l \in 1..(Len(q) - 1)
          BY <2>2
        <5>2. r[l] = q[l + 1]
          BY <2>2, <5>1
        <5> QED
          BY <1>1, <4>1, <5>1, <5>2
      <4> QED
        BY <4>2
    <3>2. j + 1 = k + 1
      BY <2>4, <3>1 DEF Distinct
    <3> QED
      BY <3>1, <3>2
  <2>5. \A f : Distinct(f, q) => Distinct(f, r)
    BY <2>4 DEF Distinct
  <2>6. Len(r) + 1 <= c
    BY <1>1, <2>1, <2>2
  <2> QED
    BY <2>1, <2>2, <2>3, <2>5, <2>6 DEF r
<1> QED
  BY <1>1, <1>2, <1>3

\* The least of a set of numbers is one of them.
LEMMA MinIn ==
  ASSUME NEW S \in SUBSET Nat, S # {}
  PROVE  Min(S) \in S /\ \A y \in S : Min(S) <= y
<1>1. \E x \in S : \A y \in S : ~(<<y, x>> \in OpToRel(<, Nat))
  BY NatLessThanWellFounded, WFMin
<1>2. PICK x \in S : \A y \in S : ~(y < x)
  BY <1>1 DEF OpToRel
<1>3. \E z \in S : \A y \in S : z <= y
  BY <1>2
<1> QED
  BY <1>3 DEF Min

\* The handlers of n after a new one, id, has been added, and its streams: those of the
\* handlers that were dropped are closed at n.
Adds(n, id, p, all, dropped) ==
  /\ ClosesAll(all, streams', n, {s \in dropped : streams[s].task[n] = "running"}, "aborted")
  /\ active' \in [Nodes -> Seq(Nat)] /\ \A m \in Nodes \ {n} : active'[m] = active[m]
  /\ Len(active'[n]) <= plan.max_conns
  /\ ToSet(active'[n]) = (ToSet(active[n]) \ dropped) \cup {id}
  /\ \A t \in ToSet(active[n]) \ dropped : Peer(t, n) # p
  /\ \A f : Distinct(f, active[n]) /\ (\A t \in ToSet(active[n]) \ dropped : f[t] # f[id])
              => Distinct(f, active'[n])

\* What add_handler_from makes of the handlers and of the streams.
LEMMA AddHandlerIs ==
  ASSUME OwnInv, NEW n \in Nodes, NEW id \in Nat, NEW p, NEW all, StreamsOK(all),
         DOMAIN streams \subseteq DOMAIN all, \A s \in DOMAIN streams : Same(streams[s], all[s]),
         AddHandler(n, id, p, all)
  PROVE  \E dropped \in SUBSET ToSet(active[n]) : Adds(n, id, p, all, dropped)
<1> DEFINE q == active[n]
           c == plan.max_conns
           e == Evicted(n)
           left == Rest(q, Len(e))
           dropped == ToSet(e) \cup Replaced(n, p, left)
           r == Without(left, dropped)
           ids == {s \in dropped : streams[s].task[n] = "running"}
<1>1. active' = [active EXCEPT ![n] = Append(r, id)] /\ streams' \in Closing(n, ids, "aborted", all)
  BY DEF AddHandler
<1>2. /\ active \in [Nodes -> Seq(Nat)] /\ q \in Seq(Nat) /\ c \in Nat \ {0} /\ Len(q) <= c
  BY ScenariosAssumption DEF OwnInv, TypeOK, HandlersOwned
<1>3. FirstOf(e, q, c)
  BY DEF Evicted, FirstOf
<1> HIDE DEF q, c, e
<1>4. /\ left \in Seq(Nat) /\ Len(left) + 1 <= c /\ ToSet(q) = ToSet(left) \cup ToSet(e)
      /\ \A f : Distinct(f, q) => Distinct(f, left)
  BY <1>2, <1>3, EvictIs
<1> HIDE DEF left
<1>5. dropped \subseteq ToSet(q) /\ ToSet(q) \ dropped = ToSet(left) \ dropped
  BY <1>4 DEF Replaced
<1>6. \A t \in ToSet(q) \ dropped : Peer(t, n) # p
  BY <1>4 DEF Replaced
<1>7. \A s \in dropped : s \in DOMAIN all /\ n \in {all[s].from, all[s].to}
  <2>1. \A s \in ToSet(q) : s \in DOMAIN streams /\ n \in Ends(s)
    BY DEF OwnInv, HandlersOpen, q
  <2> QED
    BY <1>5, <2>1 DEF Same, Ends
<1> HIDE DEF dropped
<1>8. ids \in SUBSET DOMAIN all /\ \A s \in ids : n \in {all[s].from, all[s].to}
  BY <1>7
<1> HIDE DEF ids
<1>9. ClosesAll(all, streams', n, ids, "aborted")
  BY <1>1, <1>8, ClosingIs
<1>10. /\ r \in Seq(Nat) /\ Len(r) <= Len(left) /\ ToSet(r) = ToSet(left) \ dropped
       /\ \A f : Distinct(f, left) => Distinct(f, r)
  BY <1>4, WithoutIs DEF Distinct
<1> HIDE DEF r
<1>11. /\ Append(r, id) \in Seq(Nat) /\ Len(Append(r, id)) = Len(r) + 1
       /\ Len(r) \in Nat /\ Len(left) \in Nat
  BY <1>4, <1>10
<1>12. ToSet(Append(r, id)) = ToSet(r) \cup {id}
  <2>1. r \in Seq(ToSet(r))
    BY <1>10, SeqOfItself
  <2> QED
    BY <2>1, AppendIs
<1>13. \A f : Distinct(f, q) /\ (\A t \in ToSet(q) \ dropped : f[t] # f[id])
                => Distinct(f, Append(r, id))
  BY <1>4, <1>5, <1>10, AppendDistinct
<1>14. active'[n] = Append(r, id) /\ active' \in [Nodes -> Seq(Nat)]
       /\ \A m \in Nodes \ {n} : active'[m] = active[m]
  BY <1>1, <1>2, <1>11
<1>15. Len(active'[n]) <= c
  BY <1>2, <1>4, <1>10, <1>11, <1>14
<1>16. ToSet(active'[n]) = (ToSet(q) \ dropped) \cup {id}
  BY <1>5, <1>10, <1>12, <1>14
<1>17. Adds(n, id, p, all, dropped)
  BY <1>6, <1>9, <1>13, <1>14, <1>15, <1>16 DEF Adds, q, c, ids
<1> QED
  BY <1>5, <1>17 DEF q

-----------------------------------------------------------------------------
(* Steps *)

\* The streams stay, between the same ends; new ones may be opened.
Grows ==
  /\ StreamsOK(streams') /\ DOMAIN streams \subseteq DOMAIN streams'
  /\ \A s \in DOMAIN streams : Same(streams[s], streams'[s])

\* No stream is opened, and no task is started.
Calm ==
  /\ Grows /\ DOMAIN streams' = DOMAIN streams
  /\ \A s \in DOMAIN streams : \A m \in Ends(s) :
       /\ streams'[s].task[m] = "running" => streams[s].task[m] = "running"
       /\ streams'[s].task[m] = "backlog" => streams[s].task[m] = "backlog"

OneStream(s) ==
  /\ streams' \in Seq(ToSet(streams')) /\ DOMAIN streams' = DOMAIN streams
  /\ \A t \in DOMAIN streams \ {s} : streams'[t] = streams[t]

\* A stream has the ends that it has.
LEMMA SameIs == ASSUME NEW x, StreamOK(x) PROVE Same(x, x)
BY DEF Same

\* The streams of a state are streams.
LEMMA StreamsType == TypeOK => StreamsOK(streams)
BY DEF TypeOK, StreamsOK

\* One stream is replaced.
LEMMA OneIs ==
  ASSUME TypeOK, NEW s \in DOMAIN streams, NEW y, streams' = [streams EXCEPT ![s] = y]
  PROVE  OneStream(s) /\ streams'[s] = y
<1>1. streams \in Seq(ToSet(streams))
  BY DEF TypeOK
<1>2. /\ [streams EXCEPT ![s] = y] \in Seq(ToSet([streams EXCEPT ![s] = y]))
      /\ DOMAIN [streams EXCEPT ![s] = y] = DOMAIN streams /\ [streams EXCEPT ![s] = y][s] = y
      /\ \A j \in DOMAIN streams : j # s => [streams EXCEPT ![s] = y][j] = streams[j]
  BY <1>1, SetOne
<1> QED
  BY <1>2 DEF OneStream

\* When one stream changes, all keep their ends.
LEMMA OneGrows ==
  ASSUME TypeOK, NEW s \in DOMAIN streams, OneStream(s), Same(streams[s], streams'[s])
  PROVE  Grows /\ DOMAIN streams' = DOMAIN streams
<1>1. \A t \in DOMAIN streams : Same(streams[t], streams'[t])
  BY SameIs DEF TypeOK, OneStream
<1>2. \A t \in DOMAIN streams' : StreamOK(streams'[t])
  BY <1>1 DEF Same, OneStream
<1> QED
  BY <1>1, <1>2 DEF Grows, OneStream, StreamsOK

\* When one stream changes and its tasks do not, no task is started.
LEMMA OneCalm ==
  ASSUME TypeOK, NEW s \in DOMAIN streams, OneStream(s), Same(streams[s], streams'[s]),
         streams'[s].task = streams[s].task
  PROVE  Calm
BY OneGrows DEF Calm, OneStream

\* Streams that are closed keep their ends.
LEMMA ClosesGrows ==
  ASSUME NEW all, StreamsOK(all), NEW n, NEW ids \in SUBSET DOMAIN all, NEW how,
         ClosesAll(all, streams', n, ids, how)
  PROVE  StreamsOK(streams') /\ \A s \in DOMAIN all : Same(all[s], streams'[s])
<1>1. \A s \in DOMAIN all : Same(all[s], streams'[s])
  BY SameIs DEF ClosesAll, ClosedAt, StreamsOK
<1>2. \A s \in DOMAIN streams' : StreamOK(streams'[s])
  BY <1>1 DEF Same, ClosesAll
<1> QED
  BY <1>1, <1>2 DEF ClosesAll, StreamsOK

\* Closing streams starts no task.
LEMMA ClosesCalm ==
  ASSUME TypeOK, NEW n, NEW ids \in SUBSET DOMAIN streams, \A s \in ids : n \in Ends(s),
         NEW how \in {"ended", "aborted"}, ClosesAll(streams, streams', n, ids, how)
  PROVE  Calm
<1>1. StreamsOK(streams)
  BY StreamsType
<1>2. Grows /\ DOMAIN streams' = DOMAIN streams
  BY <1>1, ClosesGrows DEF Grows, ClosesAll
<1>3. ASSUME NEW s \in DOMAIN streams, NEW m \in Ends(s), streams'[s].task[m] \in {"running", "backlog"}
      PROVE  streams'[s].task[m] = streams[s].task[m]
  <2>1. CASE s \notin ids
    BY <2>1 DEF ClosesAll
  <2>2. CASE s \in ids
    <3>1. ClosedAt(streams[s], streams'[s], n, how) /\ StreamOK(streams[s])
      BY <1>1, <2>2 DEF ClosesAll, StreamsOK
    <3>2. m = n \/ m = OtherEnd(streams[s], n)
      BY <2>2 DEF Ends, OtherEnd
    <3>3. m # n
      BY <1>3, <3>1 DEF ClosedAt
    <3> QED
      BY <3>1, <3>2, <3>3 DEF ClosedAt
  <2> QED
    BY <2>1, <2>2
<1> QED
  BY <1>2, <1>3 DEF Calm

\* A task that ends.
LEMMA TaskEndsIs ==
  ASSUME TypeOK, NEW s \in DOMAIN streams, NEW n \in Ends(s), TaskEnds(s, n)
  PROVE  Calm /\ OneStream(s) /\ ClosedAt(streams[s], streams'[s], n, "ended")
<1>1. {s} \in SUBSET DOMAIN streams /\ \A t \in {s} : n \in Ends(t)
  OBVIOUS
<1>2. ClosesAll(streams, streams', n, {s}, "ended")
  BY <1>1, StreamsType, ClosingIs DEF TaskEnds, Ends
<1>3. Calm
  BY <1>1, <1>2, ClosesCalm
<1> QED
  BY <1>2, <1>3 DEF ClosesAll, OneStream

\* What a node is told.
LEMMA EventIs ==
  ASSUME TypeOK, NEW n \in Nodes, NEW e, Event(n, e)
  PROVE  /\ DOMAIN received' = Nodes /\ \A m \in Nodes : received'[m] \in Seq(ToSet(received'[m]))
         /\ \A m \in Nodes : ToSet(received[m]) \subseteq ToSet(received'[m])
         /\ e \in ToSet(received'[n])
<1>1. DOMAIN received = Nodes /\ received[n] \in Seq(ToSet(received[n]))
  BY DEF TypeOK
<1>2. received' = [received EXCEPT ![n] = Append(received[n], e)]
  BY DEF Event
<1>3. /\ DOMAIN received' = Nodes /\ received'[n] = Append(received[n], e)
      /\ \A m \in Nodes \ {n} : received'[m] = received[m]
  BY <1>1, <1>2
<1>4. /\ Append(received[n], e) \in Seq(ToSet(Append(received[n], e)))
      /\ ToSet(Append(received[n], e)) = ToSet(received[n]) \cup {e}
  BY <1>1, AppendIs
<1>5. received'[n] \in Seq(ToSet(received'[n])) /\ ToSet(received'[n]) = ToSet(received[n]) \cup {e}
  BY <1>3, <1>4
<1> QED
  BY <1>3, <1>5 DEF TypeOK

\* The next message of a script
LEMMA HeadIs ==
  ASSUME TypeOK, NEW n \in Nodes, todo[n] # <<>>
  PROVE  /\ Head(todo[n]) \in Addressed /\ Head(todo[n]).to # n
         /\ Head(todo[n]).to \in Nodes /\ Head(todo[n]).msg \in Message
<1> DEFINE q == todo[n]
<1>1. q \in Seq(Addressed) /\ q # <<>> /\ \A i \in DOMAIN q : q[i].to # n
  BY DEF TypeOK
<1> HIDE DEF q
<1>2. Head(q) \in Addressed /\ Head(q) \in ToSet(q)
  BY <1>1, TailIs
<1>3. Head(q).to # n
  BY <1>1, <1>2 DEF ToSet
<1>4. \A x \in Addressed : x.to \in Nodes /\ x.msg \in Message
  BY DEF Addressed
<1> QED
  BY <1>2, <1>3, <1>4 DEF q

\* The next message of a script is taken from it.
TodoTyped ==
  todo' \in [Nodes -> Seq(Addressed)] /\ \A n \in Nodes : \A i \in DOMAIN todo'[n] : todo'[n][i].to # n

\* The script that is left is one.
LEMMA TodoIs ==
  ASSUME TypeOK, NEW n \in Nodes, todo[n] # <<>>, todo' = [todo EXCEPT ![n] = Tail(@)]
  PROVE  TodoTyped /\ Head(todo[n]) \in Addressed /\ Head(todo[n]).to # n
<1>1. todo \in [Nodes -> Seq(Addressed)] /\ \A m \in Nodes : \A i \in DOMAIN todo[m] : todo[m][i].to # m
  BY DEF TypeOK
<1> DEFINE q == todo[n]
           r == Tail(q)
<1>2. q \in Seq(Addressed) /\ q # <<>>
  BY <1>1
<1>3. \A i \in DOMAIN q : q[i].to # n
  BY <1>1
<1>8. todo' = [todo EXCEPT ![n] = r]
  OBVIOUS
<1> HIDE DEF q
<1>4. r \in Seq(Addressed) /\ Head(q) \in Addressed /\ Head(q) \in ToSet(q) /\ ToSet(r) \subseteq ToSet(q)
  BY <1>2, TailIs
<1>5. \A x \in ToSet(q) : x.to # n
  BY <1>3 DEF ToSet
<1>6. \A i \in DOMAIN r : r[i].to # n
  BY <1>4, <1>5 DEF ToSet
<1> HIDE DEF r
<1>7. todo' \in [Nodes -> Seq(Addressed)] /\ todo'[n] = r /\ \A m \in Nodes \ {n} : todo'[m] = todo[m]
  BY <1>1, <1>4, <1>8
<1> QED
  BY <1>1, <1>4, <1>5, <1>6, <1>7 DEF TodoTyped, q

\* A message is sent: it leaves the script, and is recorded with its stream.
LEMMA TakenIs ==
  ASSUME TypeOK, NEW n \in Nodes, todo[n] # <<>>, NEW id \in Nat, Taken(n, id)
  PROVE  /\ TodoTyped /\ Head(todo[n]) \in Addressed /\ Head(todo[n]).to # n
         /\ sent' \in [Nodes -> Seq([msg : Addressed, stream : Nat])]
         /\ \A m \in Nodes \ {n} : sent'[m] = sent[m]
         /\ sent'[n] = Append(sent[n], [msg |-> Head(todo[n]), stream |-> id])
<1>1. TodoTyped /\ Head(todo[n]) \in Addressed /\ Head(todo[n]).to # n
  BY TodoIs DEF Taken
<1>2. sent \in [Nodes -> Seq([msg : Addressed, stream : Nat])]
  BY DEF TypeOK
<1> DEFINE e == [msg |-> Head(todo[n]), stream |-> id]
<1>3. e \in [msg : Addressed, stream : Nat]
  BY <1>1
<1>4. sent' = [sent EXCEPT ![n] = Append(sent[n], e)]
  BY DEF Taken
<1> HIDE DEF e
<1>5. Append(sent[n], e) \in Seq([msg : Addressed, stream : Nat])
  <2>1. \A S : \A q \in Seq(S), x \in S : Append(q, x) \in Seq(S)
    OBVIOUS
  <2>2. sent[n] \in Seq([msg : Addressed, stream : Nat])
    BY <1>2
  <2> QED
    BY <1>3, <2>1, <2>2
<1>6. /\ sent' \in [Nodes -> Seq([msg : Addressed, stream : Nat])]
      /\ sent'[n] = Append(sent[n], e) /\ \A m \in Nodes \ {n} : sent'[m] = sent[m]
  BY <1>2, <1>4, <1>5
<1> QED
  BY <1>1, <1>6 DEF e

-----------------------------------------------------------------------------
(* Each step of a node or of a task *)

\* The handlers of n change, and those of no other node.
ActiveAt(n) ==
  active' \in [Nodes -> Seq(Nat)] /\ \A m \in Nodes \ {n} : active'[m] = active[m]

\* A message is put into the queue of a handler, which is now the last one.
LEMMA SendOnIs ==
  ASSUME OwnInv, NEW n \in Nodes, todo[n] # <<>>, NEW p, NEW s \in Handler(n, p), SendOn(n, p, s)
  PROVE  /\ s \in DOMAIN streams /\ n \in Ends(s) /\ streams[s].task[n] = "running" /\ s \in Nat
         /\ Calm /\ OneStream(s)
         /\ OutAt(streams[s], streams'[s], n, Append(streams[s].out[n], Head(todo[n]).msg))
         /\ ActiveAt(n) /\ Len(active'[n]) <= plan.max_conns
         /\ ToSet(active'[n]) = ToSet(active[n])
         /\ \A f : Distinct(f, active[n]) => Distinct(f, active'[n])
<1>1. TypeOK /\ s \in ToSet(active[n]) /\ s \in DOMAIN streams /\ n \in Ends(s)
  BY DEF OwnInv, HandlersOpen, Handler
<1>2. StreamOK(streams[s]) /\ n \in {streams[s].from, streams[s].to}
  BY <1>1 DEF TypeOK, Ends
<1> DEFINE m == Head(todo[n]).msg
           q == Append(streams[s].out[n], m)
           x == streams[s]
<1>3. q \in Seq(Message)
  <2>1. m \in Message
    BY <1>1, HeadIs
  <2>2. streams[s].out[n] \in Seq(Message)
    BY <1>2, StreamParts
  <2> HIDE DEF m
  <2> QED
    BY <2>1, <2>2
<1>4. streams' = [streams EXCEPT ![s] = [x EXCEPT !.out[n] = q]]
  BY DEF SendOn
<1> HIDE DEF q
<1>5. OneStream(s) /\ streams'[s] = [x EXCEPT !.out[n] = q]
  BY <1>1, <1>4, OneIs
<1>6. OutAt(streams[s], streams'[s], n, q)
  <2>1. StreamOK(x) /\ n \in {x.from, x.to}
    BY <1>2
  <2> HIDE DEF x
  <2>2. OutAt(x, [x EXCEPT !.out[n] = q], n, q)
    BY <1>3, <2>1, OutIs
  <2> QED
    BY <1>5, <2>2 DEF x
<1>7. Calm
  BY <1>1, <1>5, <1>6, OneCalm DEF OutAt
<1> DEFINE a == active[n]
           r == Without(a, {s})
<1>8. a \in Seq(Nat) /\ active \in [Nodes -> Seq(Nat)] /\ Len(a) <= plan.max_conns /\ s \in Nat
      /\ plan.max_conns \in Nat
  <2>1. a \in Seq(Nat)
    BY <1>1 DEF TypeOK
  <2>2. s \in Nat
    BY <1>1, <2>1 DEF ToSet
  <2> QED
    BY <1>1, <2>1, <2>2, ScenariosAssumption DEF TypeOK, OwnInv, HandlersOwned
<1>9. active' = [active EXCEPT ![n] = Append(r, s)]
  BY DEF SendOn
<1>10. s \in ToSet(a)
  BY <1>1
<1> HIDE DEF a
<1>11. /\ r \in Seq(Nat) /\ Len(r) < Len(a) /\ ToSet(r) = ToSet(a) \ {s}
       /\ \A f : Distinct(f, a) => Distinct(f, r)
  <2>1. ToSet(a) \cap {s} # {}
    BY <1>10
  <2> QED
    BY <1>8, <2>1, WithoutIs DEF Distinct
<1> HIDE DEF r
<1>12. /\ Append(r, s) \in Seq(Nat) /\ Len(Append(r, s)) = Len(r) + 1 /\ Len(r) \in Nat
       /\ Len(a) \in Nat
  BY <1>8, <1>11
<1>13. ToSet(Append(r, s)) = ToSet(a)
  <2>1. r \in Seq(ToSet(r))
    BY <1>11, SeqOfItself
  <2>2. ToSet(Append(r, s)) = ToSet(r) \cup {s}
    BY <2>1, AppendIs
  <2> QED
    BY <1>10, <1>11, <2>2
<1>14. ASSUME NEW f, Distinct(f, a) PROVE Distinct(f, Append(r, s))
  <2>1. ASSUME NEW t \in ToSet(r) PROVE f[t] # f[s]
    <3>1. t \in ToSet(a) /\ t # s
      BY <1>11
    <3>2. PICK j \in DOMAIN a, k \in DOMAIN a : t = a[j] /\ s = a[k]
      BY <1>10, <3>1 DEF ToSet
    <3> QED
      BY <1>14, <3>1, <3>2 DEF Distinct
  <2> QED
    BY <1>8, <1>11, <1>14, <2>1, AppendDistinct
<1>15. active'[n] = Append(r, s) /\ ActiveAt(n)
  BY <1>8, <1>9, <1>12 DEF ActiveAt
<1>16. Len(active'[n]) <= plan.max_conns
  BY <1>8, <1>11, <1>12, <1>15
<1>17. streams[s].task[n] = "running"
  BY DEF SendOn
<1> QED
  BY <1>1, <1>5, <1>6, <1>7, <1>8, <1>13, <1>14, <1>15, <1>16, <1>17 DEF a, q

\* A handler whose task has ended is removed.
LEMMA SendFailsIs ==
  ASSUME OwnInv, NEW n \in Nodes, NEW p, NEW s \in Handler(n, p), SendFails(n, p, s)
  PROVE  /\ ActiveAt(n) /\ Len(active'[n]) <= plan.max_conns
         /\ ToSet(active'[n]) = ToSet(active[n]) \ {s} /\ streams[s].task[n] # "running"
         /\ \A f : Distinct(f, active[n]) => Distinct(f, active'[n])
<1> DEFINE a == active[n]
           r == Without(a, {s})
<1>1. a \in Seq(Nat) /\ active \in [Nodes -> Seq(Nat)] /\ Len(a) <= plan.max_conns
      /\ plan.max_conns \in Nat
  BY ScenariosAssumption DEF TypeOK, OwnInv, HandlersOwned
<1>2. active' = [active EXCEPT ![n] = r] /\ streams[s].task[n] # "running"
  BY DEF SendFails
<1> HIDE DEF a
<1>3. /\ r \in Seq(Nat) /\ Len(r) <= Len(a) /\ ToSet(r) = ToSet(a) \ {s}
      /\ \A f : Distinct(f, a) => Distinct(f, r)
  BY <1>1, WithoutIs DEF Distinct
<1> HIDE DEF r
<1>4. Len(r) \in Nat /\ Len(a) \in Nat
  BY <1>1, <1>3
<1>5. active'[n] = r /\ ActiveAt(n)
  BY <1>1, <1>2, <1>3 DEF ActiveAt
<1>6. Len(active'[n]) <= plan.max_conns
  BY <1>1, <1>3, <1>4, <1>5
<1> QED
  BY <1>2, <1>3, <1>5, <1>6 DEF a

\* A stream is opened: the others go on, or are closed when their handler is dropped.
LEMMA SendFirstIs ==
  ASSUME OwnInv, NEW n \in Nodes, todo[n] # <<>>, NEW p \in Nodes, n # p, NEW m \in Message,
         NEW id, id = Len(streams) + 1,
         AddHandler(n, id, p, Append(streams, [Opened(n, p) EXCEPT !.out[n] = <<m>>]))
  PROVE  /\ id \in Nat /\ id \notin DOMAIN streams
         /\ \E x, dropped :
              /\ NewAt(x, n, p, m) /\ dropped \in SUBSET ToSet(active[n])
              /\ StreamsOK(Append(streams, x)) /\ DOMAIN Append(streams, x) = DOMAIN streams \cup {id}
              /\ Append(streams, x)[id] = x
              /\ \A s \in DOMAIN streams : Append(streams, x)[s] = streams[s]
              /\ Adds(n, id, p, Append(streams, x), dropped)
<1>1. TypeOK /\ streams \in Seq(ToSet(streams)) /\ \A s \in DOMAIN streams : StreamOK(streams[s])
  BY DEF OwnInv, TypeOK
<1> DEFINE x == [Opened(n, p) EXCEPT !.out[n] = <<m>>]
           all == Append(streams, x)
<1>2. NewAt(x, n, p, m)
  BY OpenedIs
<1>3. AddHandler(n, id, p, all)
  OBVIOUS
<1> HIDE DEF x
<1>4. /\ all \in Seq(ToSet(all)) /\ id \in Nat /\ id \notin DOMAIN streams
      /\ DOMAIN all = DOMAIN streams \cup {id} /\ all[id] = x
      /\ \A s \in DOMAIN streams : all[s] = streams[s]
  BY <1>1, AppendIs
<1> HIDE DEF all
<1>5. StreamsOK(all)
  BY <1>1, <1>2, <1>4 DEF StreamsOK, NewAt
<1>6. DOMAIN streams \subseteq DOMAIN all /\ \A s \in DOMAIN streams : Same(streams[s], all[s])
  BY <1>1, <1>4, SameIs
<1>7. PICK dropped \in SUBSET ToSet(active[n]) : Adds(n, id, p, all, dropped)
  BY <1>3, <1>4, <1>5, <1>6, AddHandlerIs
<1> QED
  BY <1>2, <1>4, <1>5, <1>7 DEF all

\* The oldest stream is accepted, and the other node is the one that has opened it.
LEMMA OldestIs ==
  ASSUME TypeOK, NEW n \in Nodes, Backlog(n) # {}
  PROVE  /\ Min(Backlog(n)) \in Backlog(n) /\ Min(Backlog(n)) \in DOMAIN streams
         /\ Min(Backlog(n)) \in Nat /\ \A s \in Backlog(n) : Min(Backlog(n)) <= s
<1>1. DOMAIN streams \in SUBSET Nat
  BY DEF TypeOK
<1>2. Backlog(n) \in SUBSET Nat
  BY <1>1 DEF Backlog
<1>3. Min(Backlog(n)) \in Backlog(n) /\ \A s \in Backlog(n) : Min(Backlog(n)) <= s
  BY <1>2, MinIn
<1> QED
  BY <1>1, <1>3 DEF Backlog

\* The stream that Accept takes from the backlog, and the handler it gets.
LEMMA AcceptIs ==
  ASSUME OwnInv, NEW n \in Nodes, NEW id, id \in Backlog(n), id \in Nat,
         AddHandler(n, id, FirstAddress(streams[id].first), [streams EXCEPT ![id].task[n] = "running"])
  PROVE  /\ id \in DOMAIN streams /\ streams[id].to = n /\ streams[id].task[n] = "backlog"
         /\ \E all, dropped :
              /\ dropped \in SUBSET ToSet(active[n])
              /\ StreamsOK(all) /\ DOMAIN all = DOMAIN streams
              /\ RunsAt(streams[id], all[id], n)
              /\ \A s \in DOMAIN streams \ {id} : all[s] = streams[s]
              /\ Adds(n, id, streams[id].from, all, dropped)
<1>1. /\ TypeOK /\ streams \in Seq(ToSet(streams)) /\ \A s \in DOMAIN streams : StreamOK(streams[s])
      /\ id \in DOMAIN streams /\ streams[id].to = n /\ streams[id].task[n] = "backlog"
  BY DEF OwnInv, TypeOK, Backlog
<1> DEFINE x == streams[id]
           y == [x EXCEPT !.task[n] = "running"]
           all == [streams EXCEPT ![id] = y]
<1>2. StreamOK(x) /\ n \in {x.from, x.to} /\ x.from \in Nat
  BY <1>1, StreamParts, NodesAssumption
<1>3. FirstAddress(x.first) = x.from
  BY <1>2, StreamParts, FirstRead
<1>4. AddHandler(n, id, x.from, all)
  BY <1>3
<1>5. RunsAt(x, y, n)
  <2> HIDE DEF x
  <2> QED
    BY <1>2, RunsIs
<1> HIDE DEF y
<1>6. /\ all \in Seq(ToSet(all)) /\ DOMAIN all = DOMAIN streams /\ all[id] = y
      /\ \A s \in DOMAIN streams : s # id => all[s] = streams[s]
  BY <1>1, SetOne
<1> HIDE DEF all
<1>7. StreamsOK(all) /\ \A s \in DOMAIN streams : Same(streams[s], all[s])
  BY <1>1, <1>5, <1>6, SameIs DEF StreamsOK, RunsAt, Same
<1>8. PICK dropped \in SUBSET ToSet(active[n]) : Adds(n, id, x.from, all, dropped)
  BY <1>1, <1>4, <1>6, <1>7, AddHandlerIs
<1> QED
  BY <1>1, <1>5, <1>6, <1>7, <1>8

\* A message that waits is taken, and a frame put on the stream.
LEMMA AppendedIs ==
  ASSUME TypeOK, NEW s \in DOMAIN streams, NEW n \in Ends(s), streams[s].out[n] # <<>>,
         NEW g \in Frames,
         streams' = [streams EXCEPT ![s].out[n] = Tail(@), ![s].wire[Peer(s, n)] = Append(@, g)]
  PROVE  /\ Calm /\ OneStream(s)
         /\ WriteAt(streams[s], streams'[s], n, Tail(streams[s].out[n]),
                    Append(streams[s].wire[Peer(s, n)], g))
<1> DEFINE x == streams[s]
           q == Tail(x.out[n])
           w == Append(x.wire[Peer(s, n)], g)
           y == [x EXCEPT !.out[n] = q, !.wire[Peer(s, n)] = w]
<1>1. StreamOK(x) /\ n \in {x.from, x.to} /\ Peer(s, n) = OtherEnd(x, n)
  BY DEF TypeOK, Ends, Peer
<1>2. x.out[n] \in Seq(Message) /\ x.wire[Peer(s, n)] \in Seq(Frames)
  <2>1. Peer(s, n) \in {x.from, x.to}
    BY <1>1, OtherIs
  <2> HIDE DEF x
  <2> QED
    BY <1>1, <2>1, StreamParts
<1>3. q \in Seq(Message) /\ w \in Seq(Frames)
  <2> DEFINE o == x.out[n]
             v == x.wire[Peer(s, n)]
  <2>1. o # <<>> /\ o \in Seq(Message) /\ v \in Seq(Frames)
    BY <1>2
  <2> HIDE DEF o, v
  <2>2. Tail(o) \in Seq(Message)
    BY <2>1, TailIs
  <2>3. \A S : \A a \in Seq(S), b \in S : Append(a, b) \in Seq(S)
    OBVIOUS
  <2>4. Append(v, g) \in Seq(Frames)
    BY <2>1, <2>3
  <2> QED
    BY <2>2, <2>4 DEF o, v
<1>4. streams' = [streams EXCEPT ![s] = y]
  BY <1>1
<1>5. Peer(s, n) = OtherEnd(x, n)
  BY <1>1
<1> HIDE DEF q, w
<1>6. WriteAt(x, y, n, q, w)
  <2> HIDE DEF x
  <2>1. WriteAt(x, [x EXCEPT !.out[n] = q, !.wire[OtherEnd(x, n)] = w], n, q, w)
    BY <1>1, <1>3, WriteIs, Zenon
  <2> QED
    BY <1>5, <2>1
<1> HIDE DEF y
<1>7. OneStream(s) /\ streams'[s] = y
  BY <1>4, OneIs
<1>8. Calm
  BY <1>6, <1>7, OneCalm DEF WriteAt
<1> QED
  BY <1>6, <1>7, <1>8 DEF q, w

\* The head of a queue has a frame.
LEMMA HeadFrame ==
  ASSUME NEW q \in Seq(Message), q # <<>>
  PROVE  Frame(Head(q)) \in Frames
<1>1. Head(q) \in Message
  BY TailIs
<1> QED
  BY <1>1, FrameType DEF Payload, Fields, Frames

\* A message is written, as a frame.
LEMMA WrittenIs ==
  ASSUME TypeOK, NEW s \in DOMAIN streams, NEW n \in Ends(s), streams[s].out[n] # <<>>,
         streams' = [streams EXCEPT ![s].out[n] = Tail(@),
                       ![s].wire[Peer(s, n)] = Append(@, Frame(Head(streams[s].out[n])))]
  PROVE  /\ Calm /\ OneStream(s)
         /\ WriteAt(streams[s], streams'[s], n, Tail(streams[s].out[n]),
                    Append(streams[s].wire[Peer(s, n)], Frame(Head(streams[s].out[n]))))
<1>1. streams[s].out[n] \in Seq(Message)
  BY StreamParts DEF TypeOK, Ends
<1>2. PICK g \in Frames : g = Frame(Head(streams[s].out[n]))
  BY <1>1, HeadFrame
<1>3. streams' = [streams EXCEPT ![s].out[n] = Tail(@), ![s].wire[Peer(s, n)] = Append(@, g)]
  BY <1>2
<1> QED
  BY <1>2, <1>3, AppendedIs, Zenon

\* A message that waits is lost.
LEMMA LostIs ==
  ASSUME TypeOK, NEW s \in DOMAIN streams, NEW n \in Ends(s), streams[s].out[n] # <<>>,
         streams' = [streams EXCEPT ![s].out[n] = Tail(@)]
  PROVE  Calm /\ OneStream(s) /\ OutAt(streams[s], streams'[s], n, Tail(streams[s].out[n]))
<1> DEFINE x == streams[s]
           q == Tail(x.out[n])
           y == [x EXCEPT !.out[n] = q]
<1>1. StreamOK(x) /\ n \in {x.from, x.to}
  BY DEF TypeOK, Ends
<1>2. q \in Seq(Message)
  <2> DEFINE o == x.out[n]
  <2>1. o # <<>> /\ o \in Seq(Message)
    BY <1>1, StreamParts
  <2> HIDE DEF o
  <2>2. Tail(o) \in Seq(Message)
    BY <2>1, TailIs
  <2> QED
    BY <2>2 DEF o
<1>3. streams' = [streams EXCEPT ![s] = y]
  OBVIOUS
<1> HIDE DEF q
<1>4. OutAt(x, y, n, q)
  <2> HIDE DEF x
  <2> QED
    BY <1>1, <1>2, OutIs
<1> HIDE DEF y
<1>5. OneStream(s) /\ streams'[s] = y
  BY <1>3, OneIs
<1>6. Calm
  BY <1>4, <1>5, OneCalm DEF OutAt
<1> QED
  BY <1>4, <1>5, <1>6 DEF q

\* What lies on a stream for an end of it becomes w.
LEMMA WiresIs ==
  ASSUME TypeOK, NEW s \in DOMAIN streams, NEW n \in Ends(s), NEW w \in Seq(Frames),
         streams' = [streams EXCEPT ![s].wire[n] = w]
  PROVE  Calm /\ OneStream(s) /\ WireAt(streams[s], streams'[s], n, w)
<1> DEFINE x == streams[s]
           y == [x EXCEPT !.wire[n] = w]
<1>1. StreamOK(x) /\ n \in {x.from, x.to}
  BY DEF TypeOK, Ends
<1>2. streams' = [streams EXCEPT ![s] = y]
  OBVIOUS
<1>3. WireAt(x, y, n, w)
  <2> HIDE DEF x
  <2> QED
    BY <1>1, WireIs
<1> HIDE DEF y
<1>4. OneStream(s) /\ streams'[s] = y
  BY <1>2, OneIs
<1>5. Calm
  BY <1>3, <1>4, OneCalm DEF WireAt
<1> QED
  BY <1>3, <1>4, <1>5

\* A frame is taken from the stream.
LEMMA ReadIs ==
  ASSUME TypeOK, NEW s \in DOMAIN streams, NEW n \in Ends(s), streams[s].wire[n] # <<>>,
         streams' = [streams EXCEPT ![s].wire[n] = Tail(@)]
  PROVE  Calm /\ OneStream(s) /\ WireAt(streams[s], streams'[s], n, Tail(streams[s].wire[n]))
<1>1. streams[s].wire[n] \in Seq(Frames)
  BY StreamParts DEF TypeOK, Ends
<1>2. PICK w \in Seq(Frames) : w = Tail(streams[s].wire[n])
  BY <1>1, TailIs
<1>3. streams' = [streams EXCEPT ![s].wire[n] = w]
  BY <1>2
<1> QED
  BY <1>2, <1>3, WiresIs

-----------------------------------------------------------------------------
(* What a branch that is cancelled leaves *)

\* What is torn is no frame of a message, and cannot be read.
LEMMA TornIs ==
  Torn \in Frames /\ Unframe(Torn).kind # "ok" /\ \A m \in Message : Frame(m) # Torn
<1>1. Torn = <<[w |-> 1, v |-> 1]>>
  BY DEF Torn, Byte, Field
<1>2. Torn \in Frames /\ Torn[1].v = 1 /\ Torn[1].w = 1 /\ Rest(Torn, 1) = <<>>
  BY <1>1 DEF Frames, Rest
<1>3. Unframe(Torn) = Misread
  BY <1>2, NoField DEF Unframe
<1>4. ASSUME NEW m \in Message PROVE Frame(m)[1].w = 2
  <2>1. PICK q \in Payload : q = MessageSrl(m)
    BY MessageRead DEF MessageReads
  <2>2. Bytes(q) \in Nat
    BY BytesType
  <2>3. PICK k \in Nat : k = Bytes(q) % 65536
    BY <2>2
  <2>4. Frame(m) = Put(2, k, q)
    BY <2>1, <2>3 DEF Frame, Put
  <2>5. Puts1(Put(2, k, q), 2, k, q)
    BY FieldThen
  <2> QED
    BY <2>4, <2>5 DEF Puts1
<1>5. Misread.kind # "ok"
  BY DEF Misread
<1>6. \A m \in Message : Frame(m) # Torn
  BY <1>2, <1>4
<1> QED
  BY <1>2, <1>3, <1>5, <1>6

\* Of the frames w the first k are gone, and others may be torn.
Thins(v, w, k) == \A i \in DOMAIN v : v[i] = Torn \/ (i + k \in DOMAIN w /\ v[i] = w[i + k])

\* A part of a frame is read as something else, and leaves its rest in front.
LEMMA ThinsFront ==
  ASSUME NEW w \in Seq(Frames), NEW r \in Seq(Frames), NEW k \in Nat, k > 0, Thins(r, w, k)
  PROVE  k - 1 \in Nat /\ <<Torn>> \o r \in Seq(Frames) /\ Thins(<<Torn>> \o r, w, k - 1)
<1> DEFINE e == <<Torn>>
           b == e \o r
<1>1. e \in Seq(Frames) /\ Len(e) = 1 /\ e[1] = Torn /\ Len(r) \in Nat /\ DOMAIN r = 1..Len(r)
  BY TornIs
<1> HIDE DEF e
<1>2. /\ b \in Seq(Frames) /\ Len(b) = 1 + Len(r)
      /\ \A i \in 1..(1 + Len(r)) : b[i] = IF i <= 1 THEN e[i] ELSE r[i - 1]
  <2>1. /\ b \in Seq(Frames) /\ Len(b) = Len(e) + Len(r)
        /\ \A i \in 1..(Len(e) + Len(r)) : b[i] = IF i <= Len(e) THEN e[i] ELSE r[i - Len(e)]
    BY <1>1, ConcatProperties, Zenon
  <2> HIDE DEF b
  <2> QED
    BY <1>1, <2>1
<1>3. DOMAIN b = 1..(1 + Len(r))
  BY <1>2
<1> HIDE DEF b
<1>4. ASSUME NEW i \in DOMAIN b
      PROVE  b[i] = Torn \/ (i + (k - 1) \in DOMAIN w /\ b[i] = w[i + (k - 1)])
  <2>1. CASE i = 1
    BY <1>1, <1>2, <1>3, <2>1
  <2>2. CASE i # 1
    <3>1. i \in 1..(1 + Len(r)) /\ i \in Nat /\ ~(i <= 1) /\ i - 1 \in 1..Len(r)
      BY <1>1, <1>3, <2>2
    <3>2. b[i] = r[i - 1] /\ i - 1 \in DOMAIN r
      BY <1>1, <1>2, <3>1
    <3>3. i - 1 + k = i + (k - 1)
      BY <3>1
    <3> QED
      BY <3>2, <3>3 DEF Thins
  <2> QED
    BY <2>1, <2>2
<1> QED
  BY <1>2, <1>4 DEF Thins, b, e

\* Nothing is gone; a part of a frame is added; the first frame is gone, or torn.
LEMMA ThinsIs ==
  ASSUME NEW w \in Seq(Frames)
  PROVE  /\ Thins(w, w, 0)
         /\ Append(w, Torn) \in Seq(Frames) /\ Thins(Append(w, Torn), w, 0)
         /\ w # <<>> => /\ Tail(w) \in Seq(Frames) /\ Thins(Tail(w), w, 1)
                        /\ <<Torn>> \o Tail(w) \in Seq(Frames) /\ Thins(<<Torn>> \o Tail(w), w, 0)
<1>1. /\ Len(w) \in Nat /\ DOMAIN w = 1..Len(w) /\ Torn \in Frames
      /\ \A i \in DOMAIN w : i + 0 = i
  BY TornIs
<1>2. Thins(w, w, 0)
  BY <1>1 DEF Thins
<1> DEFINE a == Append(w, Torn)
<1>3. /\ a \in Seq(Frames) /\ DOMAIN a = 1..(Len(w) + 1) /\ a[Len(w) + 1] = Torn
      /\ \A i \in 1..Len(w) : a[i] = w[i]
  BY <1>1
<1> HIDE DEF a
<1>4. Thins(a, w, 0)
  BY <1>1, <1>3 DEF Thins
<1>5. ASSUME w # <<>>
      PROVE  /\ Tail(w) \in Seq(Frames) /\ Thins(Tail(w), w, 1)
             /\ <<Torn>> \o Tail(w) \in Seq(Frames) /\ Thins(<<Torn>> \o Tail(w), w, 0)
  <2> DEFINE r == Tail(w)
  <2>1. /\ r \in Seq(Frames) /\ DOMAIN r = 1..(Len(w) - 1)
        /\ \A i \in 1..(Len(w) - 1) : r[i] = w[i + 1]
    BY <1>1, <1>5
  <2> HIDE DEF r
  <2>2. Thins(r, w, 1)
    BY <1>1, <2>1 DEF Thins
  <2>3. <<Torn>> \o r \in Seq(Frames) /\ Thins(<<Torn>> \o r, w, 1 - 1)
    BY <2>1, <2>2, ThinsFront
  <2>4. 1 - 1 = 0
    OBVIOUS
  <2> QED
    BY <2>1, <2>2, <2>3, <2>4, Zenon DEF r
<1> QED
  BY <1>2, <1>3, <1>4, <1>5 DEF a

\* Some of what has come is taken for something else, with or without what follows.
LEMMA ThinsRest ==
  ASSUME NEW w \in Seq(Frames), NEW k \in DOMAIN w
  PROVE  /\ k \in Nat /\ k - 1 \in Nat
         /\ Rest(w, k) \in Seq(Frames) /\ Thins(Rest(w, k), w, k)
         /\ <<Torn>> \o Rest(w, k) \in Seq(Frames) /\ Thins(<<Torn>> \o Rest(w, k), w, k - 1)
<1>1. PICK l \in Nat : l = Len(w) /\ DOMAIN w = 1..l
  OBVIOUS
<1>2. k \in Nat /\ k > 0 /\ k - 1 \in Nat /\ k <= l /\ k + 1 \in Int /\ l \in Int
  BY <1>1
<1> DEFINE r == Rest(w, k)
           a == k + 1
<1>3. /\ r \in Seq(Frames) /\ Len(r) = l - k
      /\ \A i \in 1..(l - k) : r[i] = w[i + k]
  <2>1. \A i \in a..l : w[i] \in Frames
    BY <1>1, <1>2
  <2>2. a \in Int /\ r = SubSeq(w, a, l)
    BY <1>1, <1>2 DEF Rest
  <2> HIDE DEF r, a
  <2>3. /\ r \in Seq(Frames) /\ Len(r) = IF a <= l THEN l - a + 1 ELSE 0
        /\ \A i \in 1..(l - a + 1) : r[i] = w[a + i - 1]
    <3>1. /\ SubSeq(w, a, l) \in Seq(Frames)
          /\ Len(SubSeq(w, a, l)) = (IF a <= l THEN l - a + 1 ELSE 0)
          /\ \A i \in 1..(l - a + 1) : SubSeq(w, a, l)[i] = w[a + i - 1]
      BY <1>2, <2>1, <2>2, SubSeqProperties
    <3> QED
      BY <2>2, <3>1, Zenon
  <2>4. /\ l - a + 1 = l - k /\ (IF a <= l THEN l - a + 1 ELSE 0) = l - k
        /\ \A i \in 1..(l - k) : a + i - 1 = i + k
    BY <1>2 DEF a
  <2>5. \A i \in 1..(l - k) : r[i] = w[i + k]
    BY <2>3, <2>4
  <2> QED
    BY <2>3, <2>4, <2>5
<1> HIDE DEF r
<1>4. Thins(r, w, k)
  <2>1. DOMAIN r = 1..(l - k)
    BY <1>3
  <2> SUFFICES ASSUME NEW i \in 1..(l - k) PROVE i + k \in DOMAIN w /\ r[i] = w[i + k]
    BY <2>1 DEF Thins
  <2>2. i + k \in 1..l
    BY <1>2
  <2> QED
    BY <1>1, <1>3, <2>2
<1>5. <<Torn>> \o r \in Seq(Frames) /\ Thins(<<Torn>> \o r, w, k - 1)
  BY <1>2, <1>3, <1>4, ThinsFront
<1> QED
  BY <1>2, <1>3, <1>4, <1>5, Zenon DEF r

\* A node closes all its streams.
LEMMA MineIs ==
  ASSUME TypeOK, NEW n \in Nodes, streams' \in Closing(n, Mine(n), "aborted", streams)
  PROVE  Calm /\ ClosesAll(streams, streams', n, Mine(n), "aborted")
<1>1. Mine(n) \in SUBSET DOMAIN streams /\ \A s \in Mine(n) : n \in Ends(s)
  BY DEF Mine, Runs, Backlog, Ends
<1>2. ClosesAll(streams, streams', n, Mine(n), "aborted")
  BY <1>1, StreamsType, ClosingIs DEF Ends
<1> QED
  BY <1>1, <1>2, ClosesCalm

-----------------------------------------------------------------------------
(* The handlers of every node, step by step *)

PeersOf(n) == [s \in Nat |-> OtherEnd(streams'[s], n)]

\* The peers of the handlers stay what they are.
LEMMA PeersStay ==
  ASSUME OwnInv, Grows, NEW n \in Nodes
  PROVE  Distinct(PeersOf(n), active[n])
<1> DEFINE q == active[n]
           f == PeersOf(n)
<1>1. q \in Seq(Nat)
  BY DEF OwnInv, TypeOK
<1>2. \A i, j \in DOMAIN q : Peer(q[i], n) = Peer(q[j], n) => i = j
  BY DEF OwnInv, HandlersOwned
<1>3. \A s \in ToSet(q) : s \in DOMAIN streams
  BY DEF OwnInv, HandlersOpen
<1>4. ASSUME NEW s \in ToSet(q) PROVE f[s] = Peer(s, n)
  <2>1. s \in Nat /\ s \in DOMAIN streams
    BY <1>1, <1>3, <1>4 DEF ToSet
  <2>2. OtherEnd(streams'[s], n) = OtherEnd(streams[s], n)
    BY <2>1 DEF Grows, Same, OtherEnd
  <2> QED
    BY <2>1, <2>2 DEF PeersOf, Peer
<1> HIDE DEF f, q
<1>5. \A i \in DOMAIN q : f[q[i]] = Peer(q[i], n)
  BY <1>4 DEF ToSet
<1> QED
  BY <1>2, <1>5 DEF Distinct, f, q

\* There is one handler for a peer after the step, if the peers are told apart.
LEMMA OwnedAt ==
  ASSUME NEW n \in Nodes, active'[n] \in Seq(Nat), Distinct(PeersOf(n), active'[n])
  PROVE  \A i, j \in DOMAIN active'[n] : Peer(active[n][i], n)' = Peer(active[n][j], n)' => i = j
<1> DEFINE q == active'[n]
<1>1. \A i \in DOMAIN q : PeersOf(n)[q[i]] = OtherEnd(streams'[q[i]], n)
  BY DEF PeersOf
<1> QED
  BY <1>1 DEF Distinct, Peer

\* The handlers of n change, some of them go, and no task of n runs without one.
LEMMA OwnAt ==
  ASSUME OwnInv, TypeOK', plan' = plan, Calm, NEW n \in Nodes, ActiveAt(n),
         Len(active'[n]) <= plan.max_conns, ToSet(active'[n]) \subseteq ToSet(active[n]),
         \A f : Distinct(f, active[n]) => Distinct(f, active'[n]),
         \A s \in DOMAIN streams : n \in Ends(s) /\ streams'[s].task[n] = "running"
                                     => s \in ToSet(active'[n])
  PROVE  OwnInv'
<1>1. Grows /\ DOMAIN streams' = DOMAIN streams /\ \A s \in DOMAIN streams : Ends(s)' = Ends(s)
  BY DEF Calm, Grows, Same, Ends
<1>2. \A m \in Nodes : ToSet(active'[m]) \subseteq ToSet(active[m])
  BY DEF ActiveAt
<1>3. HandlersOpen'
  <2> SUFFICES ASSUME NEW m \in Nodes, NEW s \in ToSet(active'[m])
               PROVE  s \in DOMAIN streams' /\ m \in Ends(s)' /\ streams'[s].task[m] # "backlog"
    BY DEF HandlersOpen
  <2>1. s \in DOMAIN streams /\ m \in Ends(s) /\ streams[s].task[m] # "backlog"
    BY <1>2 DEF OwnInv, HandlersOpen
  <2> QED
    BY <1>1, <2>1 DEF Calm
<1>4. HandlersOwned'
  <2> SUFFICES ASSUME NEW m \in Nodes
               PROVE  /\ Len(active'[m]) <= plan'.max_conns
                      /\ \A i, j \in DOMAIN active'[m] :
                           Peer(active[m][i], m)' = Peer(active[m][j], m)' => i = j
                      /\ \A s \in DOMAIN streams' : Runs(s, m)' => s \in ToSet(active'[m])
    BY DEF HandlersOwned
  <2>1. Len(active'[m]) <= plan'.max_conns
    BY DEF OwnInv, HandlersOwned, ActiveAt
  <2>2. active'[m] \in Seq(Nat) /\ Distinct(PeersOf(m), active'[m])
    BY <1>1, PeersStay DEF ActiveAt
  <2>3. \A i, j \in DOMAIN active'[m] : Peer(active[m][i], m)' = Peer(active[m][j], m)' => i = j
    BY <2>2, OwnedAt
  <2>4. ASSUME NEW s \in DOMAIN streams', Runs(s, m)' PROVE s \in ToSet(active'[m])
    <3>1. s \in DOMAIN streams /\ m \in Ends(s) /\ streams'[s].task[m] = "running"
      BY <1>1, <2>4 DEF Runs
    <3>2. Runs(s, m)
      BY <3>1 DEF Calm, Runs
    <3>3. CASE m # n
      BY <3>1, <3>2, <3>3 DEF OwnInv, HandlersOwned, ActiveAt
    <3> QED
      BY <3>1, <3>3
  <2> QED
    BY <2>1, <2>3, <2>4
<1> QED
  BY <1>3, <1>4 DEF OwnInv

\* The handlers stay.
LEMMA OwnCalm ==
  ASSUME OwnInv, TypeOK', plan' = plan, Calm, active' = active
  PROVE  OwnInv'
<1>1. CASE Nodes = {}
  BY <1>1 DEF OwnInv, HandlersOpen, HandlersOwned
<1>2. CASE Nodes # {}
  <2>1. PICK n \in Nodes : TRUE
    BY <1>2
  <2>2. ActiveAt(n) /\ Len(active'[n]) <= plan.max_conns
    BY DEF OwnInv, TypeOK, HandlersOwned, ActiveAt
  <2>3. \A s \in DOMAIN streams : n \in Ends(s) /\ streams'[s].task[n] = "running" => s \in ToSet(active'[n])
    BY DEF Calm, OwnInv, HandlersOwned, Runs
  <2> QED
    BY <2>2, <2>3, OwnAt
<1> QED
  BY <1>1, <1>2

\* A handler is added for the stream id, whose task at n runs.
LEMMA OwnAdds ==
  ASSUME OwnInv, TypeOK', plan' = plan, NEW n \in Nodes, NEW id, NEW all, StreamsOK(all),
         NEW dropped \in SUBSET ToSet(active[n]), Adds(n, id, OtherEnd(all[id], n), all, dropped),
         DOMAIN all = DOMAIN streams \cup {id}, \A s \in DOMAIN streams \ {id} : all[s] = streams[s],
         id \in Nat, id \notin ToSet(active[n]),
         n \in {all[id].from, all[id].to}, all[id].task[n] = "running",
         \/ id \in DOMAIN streams /\ RunsAt(streams[id], all[id], n)
         \/ id \notin DOMAIN streams /\ all[id].task[OtherEnd(all[id], n)] = "backlog"
  PROVE  OwnInv' /\ Grows
<1> DEFINE p == OtherEnd(all[id], n)
           ids == {s \in dropped : streams[s].task[n] = "running"}
<1>1. /\ TypeOK /\ HandlersOpen /\ \A s \in DOMAIN all : StreamOK(all[s])
      /\ \A s \in DOMAIN streams : StreamOK(streams[s])
  BY DEF OwnInv, TypeOK, StreamsOK
<1>2. /\ \A s \in ids : s \in DOMAIN streams /\ n \in Ends(s) /\ s # id
      /\ ids \in SUBSET DOMAIN all
  BY <1>1 DEF HandlersOpen
<1>3. ClosesAll(all, streams', n, ids, "aborted")
  BY DEF Adds
<1>4. /\ StreamsOK(streams') /\ \A s \in DOMAIN all : Same(all[s], streams'[s])
      /\ DOMAIN streams' = DOMAIN all
  BY <1>2, <1>3, ClosesGrows DEF ClosesAll
<1>5. \A s \in DOMAIN streams : Same(streams[s], all[s])
  BY <1>1, SameIs DEF RunsAt
<1>6. Grows
  BY <1>4, <1>5 DEF Grows, Same
<1>7. streams'[id] = all[id] /\ id \in DOMAIN streams'
  BY <1>2, <1>3, <1>4 DEF ClosesAll
<1>8. ASSUME NEW s \in DOMAIN streams, s # id
      PROVE  /\ s \in ids => streams'[s].task[n] = "aborted"
             /\ s \notin ids => streams'[s] = streams[s]
             /\ \A m \in Ends(s) \ {n} : streams'[s].task[m] = streams[s].task[m]
  <2>1. all[s] = streams[s] /\ s \in DOMAIN all
    BY <1>8
  <2>2. CASE s \in ids
    <3>1. ClosedAt(streams[s], streams'[s], n, "aborted")
      BY <1>3, <2>1, <2>2 DEF ClosesAll
    <3>2. \A m \in Ends(s) \ {n} : m = OtherEnd(streams[s], n)
      BY <1>2, <2>2 DEF Ends, OtherEnd
    <3> QED
      BY <2>2, <3>1, <3>2 DEF ClosedAt
  <2>3. CASE s \notin ids
    BY <1>3, <2>1, <2>3 DEF ClosesAll
  <2> QED
    BY <2>2, <2>3
<1>9. \A s \in DOMAIN streams : Ends(s)' = Ends(s)
  BY <1>6 DEF Grows, Same, Ends
<1>10. Ends(id)' = {n, p} /\ p # n
  BY <1>1, <1>4, <1>7, OtherIs DEF Ends
<1>11. id \in DOMAIN streams => Ends(id) = {n, p} /\ streams'[id].task[p] = streams[id].task[p]
  <2> SUFFICES ASSUME id \in DOMAIN streams
               PROVE  Ends(id) = {n, p} /\ streams'[id].task[p] = streams[id].task[p]
    OBVIOUS
  <2>1. RunsAt(streams[id], all[id], n)
    OBVIOUS
  <2>2. OtherEnd(streams[id], n) = p
    BY <2>1 DEF RunsAt, Same, OtherEnd
  <2> QED
    BY <1>7, <1>9, <1>10, <2>1, <2>2 DEF RunsAt
<1>12. /\ ToSet(active'[n]) = (ToSet(active[n]) \ dropped) \cup {id} /\ ActiveAt(n)
       /\ Len(active'[n]) <= plan.max_conns
  BY DEF Adds, ActiveAt
<1>13. HandlersOpen'
  <2> SUFFICES ASSUME NEW m \in Nodes, NEW s \in ToSet(active'[m])
               PROVE  s \in DOMAIN streams' /\ m \in Ends(s)' /\ streams'[s].task[m] # "backlog"
    BY DEF HandlersOpen
  <2>1. CASE m = n /\ s = id
    BY <1>7, <1>10, <2>1
  <2>2. CASE m = n /\ s # id
    <3>1. s \in ToSet(active[n]) /\ s \notin ids
      BY <1>12, <2>2
    <3>2. s \in DOMAIN streams /\ n \in Ends(s) /\ streams[s].task[n] # "backlog"
      BY <1>1, <3>1 DEF HandlersOpen
    <3> QED
      BY <1>4, <1>8, <1>9, <2>2, <3>1, <3>2
  <2>3. CASE m # n
    <3>1. s \in DOMAIN streams /\ m \in Ends(s) /\ streams[s].task[m] # "backlog"
      BY <1>1, <1>12, <2>3 DEF HandlersOpen, ActiveAt
    <3>2. streams'[s].task[m] = streams[s].task[m]
      <4>1. CASE s = id
        BY <1>11, <2>3, <3>1, <4>1
      <4> QED
        BY <1>8, <2>3, <3>1, <4>1
    <3> QED
      BY <1>4, <1>9, <3>1, <3>2
  <2> QED
    BY <2>1, <2>2, <2>3
<1>14. HandlersOwned'
  <2> SUFFICES ASSUME NEW m \in Nodes
               PROVE  /\ Len(active'[m]) <= plan'.max_conns
                      /\ \A i, j \in DOMAIN active'[m] :
                           Peer(active[m][i], m)' = Peer(active[m][j], m)' => i = j
                      /\ \A s \in DOMAIN streams' : Runs(s, m)' => s \in ToSet(active'[m])
    BY DEF HandlersOwned
  <2>1. Len(active'[m]) <= plan'.max_conns
    BY <1>12 DEF OwnInv, HandlersOwned, ActiveAt
  <2>2. Distinct(PeersOf(m), active'[m])
    <3>1. CASE m # n
      BY <1>6, <1>12, <3>1, PeersStay DEF ActiveAt
    <3>2. CASE m = n
      <4>1. ASSUME NEW t \in ToSet(active[n]) \ dropped PROVE PeersOf(n)[t] # PeersOf(n)[id]
        <5>1. Peer(t, n) # p /\ t \in DOMAIN streams
          BY <1>1 DEF Adds, HandlersOpen
        <5>2. t \in Nat
          <6>1. active[n] \in Seq(Nat)
            BY DEF OwnInv, TypeOK
          <6> QED
            BY <6>1 DEF ToSet
        <5>3. PeersOf(n)[t] = Peer(t, n)
          BY <1>6, <5>1, <5>2 DEF PeersOf, Peer, OtherEnd, Grows, Same
        <5>4. PeersOf(n)[id] = p
          BY <1>7 DEF PeersOf
        <5> QED
          BY <5>1, <5>3, <5>4
      <4>2. Distinct(PeersOf(n), active[n])
        BY <1>6, PeersStay
      <4> QED
        BY <3>2, <4>1, <4>2 DEF Adds
    <3> QED
      BY <3>1, <3>2
  <2>3. \A i, j \in DOMAIN active'[m] : Peer(active[m][i], m)' = Peer(active[m][j], m)' => i = j
    BY <1>12, <2>2, OwnedAt DEF ActiveAt
  <2>4. ASSUME NEW s \in DOMAIN streams', Runs(s, m)' PROVE s \in ToSet(active'[m])
    <3>1. m \in Ends(s)' /\ streams'[s].task[m] = "running" /\ (s = id \/ s \in DOMAIN streams)
      BY <1>4, <2>4 DEF Runs
    <3>2. CASE s = id /\ m = n
      BY <1>12, <3>2
    <3>3. CASE s = id /\ m # n
      <4>1. m = p
        BY <1>10, <3>1, <3>3
      <4>2. id \in DOMAIN streams /\ streams[id].task[p] = "running" /\ p \in Ends(id)
        BY <1>7, <1>11, <3>1, <3>3, <4>1
      <4> QED
        BY <1>12, <3>3, <4>1, <4>2 DEF OwnInv, HandlersOwned, Runs, ActiveAt
    <3>4. CASE s # id /\ m # n
      <4>1. Runs(s, m)
        BY <1>8, <1>9, <3>1, <3>4 DEF Runs
      <4> QED
        BY <1>12, <3>1, <3>4, <4>1 DEF OwnInv, HandlersOwned, ActiveAt
    <3>5. CASE s # id /\ m = n
      <4>1. s \notin ids /\ streams[s].task[n] = "running" /\ Runs(s, n)
        BY <1>8, <1>9, <3>1, <3>5 DEF Runs
      <4>2. s \in ToSet(active[n]) \ dropped
        BY <3>1, <3>5, <4>1 DEF OwnInv, HandlersOwned
      <4> QED
        BY <1>12, <3>5, <4>2
    <3> QED
      BY <3>2, <3>3, <3>4, <3>5
  <2> QED
    BY <2>1, <2>3, <2>4
<1> QED
  BY <1>6, <1>13, <1>14 DEF OwnInv

-----------------------------------------------------------------------------
\* The invariant OwnInv: at first there is no stream.
LEMMA InitOwn == Init => OwnInv
<1> SUFFICES ASSUME Init PROVE OwnInv
  OBVIOUS
<1>1. /\ plan \in Scenarios /\ plan.max_conns \in Nat \ {0}
      /\ plan.script \in [Nodes -> Seq(Addressed)]
      /\ \A n \in Nodes : \A i \in DOMAIN plan.script[n] : plan.script[n][i].to # n
  BY ScenariosAssumption DEF Init, Addressed
<1>2. \A S : <<>> \in Seq(S) /\ DOMAIN <<>> = {} /\ ToSet(<<>>) = {} /\ Len(<<>>) = 0
  BY DEF ToSet
<1>3. TypeOK
  <2>1. todo \in [Nodes -> Seq(Addressed)] /\ \A n \in Nodes : \A i \in DOMAIN todo[n] : todo[n][i].to # n
    BY <1>1 DEF Init
  <2>2. up \in [Nodes -> {"connected", "offline", "crashed"}] /\ active \in [Nodes -> Seq(Nat)]
    BY <1>2 DEF Init
  <2>3. streams \in Seq(ToSet(streams)) /\ \A s \in DOMAIN streams : StreamOK(streams[s])
    BY <1>2 DEF Init
  <2>4. DOMAIN received = Nodes /\ \A n \in Nodes : received[n] \in Seq(ToSet(received[n]))
    BY <1>2 DEF Init
  <2>5. faults \in FaultsType
    BY DEF Init, FaultsType
  <2>6. sent \in [Nodes -> Seq([msg : Addressed, stream : Nat])]
    BY <1>2 DEF Init
  <2> QED
    BY <1>1, <2>1, <2>2, <2>3, <2>4, <2>5, <2>6 DEF TypeOK
<1>4. HandlersOpen /\ HandlersOwned
  <2>1. \A n \in Nodes : active[n] = <<>>
    BY DEF Init
  <2>2. DOMAIN streams = {}
    BY <1>2 DEF Init
  <2> QED
    BY <1>1, <1>2, <2>1, <2>2 DEF HandlersOpen, HandlersOwned
<1> QED
  BY <1>3, <1>4 DEF OwnInv

\* Send through a handler that is there.
LEMMA SendOnOwn ==
  ASSUME OwnInv, NEW n \in Nodes, todo[n] # <<>>, NEW p, NEW s \in Handler(n, p), SendOn(n, p, s),
         UNCHANGED <<plan, up, received, faults>>
  PROVE  OwnInv'
<1>1. /\ s \in Nat /\ Calm /\ OneStream(s) /\ ActiveAt(n) /\ Len(active'[n]) <= plan.max_conns
      /\ ToSet(active'[n]) = ToSet(active[n])
      /\ \A f : Distinct(f, active[n]) => Distinct(f, active'[n])
  BY SendOnIs
<1>2. TypeOK
  BY DEF OwnInv
<1>3. TodoTyped /\ sent' \in [Nodes -> Seq([msg : Addressed, stream : Nat])]
  BY <1>1, <1>2, TakenIs DEF SendOn
<1>4. TypeOK'
  BY <1>1, <1>2, <1>3 DEF TypeOK, TodoTyped, Calm, Grows, StreamsOK, ActiveAt
<1>5. \A t \in DOMAIN streams : n \in Ends(t) /\ streams'[t].task[n] = "running" => t \in ToSet(active'[n])
  BY <1>1 DEF Calm, OwnInv, HandlersOwned, Runs
<1> QED
  BY <1>1, <1>4, <1>5, OwnAt

\* Send through a handler whose task has ended.
LEMMA SendFailsOwn ==
  ASSUME OwnInv, NEW n \in Nodes, todo[n] # <<>>, NEW p, NEW s \in Handler(n, p), SendFails(n, p, s),
         UNCHANGED <<plan, up, received, faults>>
  PROVE  OwnInv'
<1>1. /\ ActiveAt(n) /\ Len(active'[n]) <= plan.max_conns
      /\ ToSet(active'[n]) = ToSet(active[n]) \ {s} /\ streams[s].task[n] # "running"
      /\ \A f : Distinct(f, active[n]) => Distinct(f, active'[n])
  BY SendFailsIs
<1>2. TypeOK /\ streams' = streams
  BY DEF OwnInv, SendFails
<1>3. TodoTyped
  BY <1>2, TodoIs DEF SendFails
<1>4. TypeOK'
  BY <1>1, <1>2, <1>3 DEF TypeOK, TodoTyped, ActiveAt, SendFails
<1>5. Calm
  BY <1>2, SameIs DEF TypeOK, Calm, Grows, StreamsOK
<1>6. \A t \in DOMAIN streams : n \in Ends(t) /\ streams'[t].task[n] = "running" => t \in ToSet(active'[n])
  BY <1>1, <1>2 DEF OwnInv, HandlersOwned, Runs
<1> QED
  BY <1>1, <1>4, <1>5, <1>6, OwnAt

\* Send without a handler: a stream is opened, or the other node does not listen.
LEMMA SendFirstOwn ==
  ASSUME OwnInv, NEW n \in Nodes, todo[n] # <<>>, SendFirst(n, Head(todo[n]).to),
         UNCHANGED <<plan, up, received, faults>>
  PROVE  OwnInv'
<1> DEFINE p == Head(todo[n]).to
           m == Head(todo[n]).msg
           id == Len(streams) + 1
<1>1. TypeOK /\ p \in Nodes /\ p # n /\ m \in Message
  BY HeadIs DEF OwnInv
<1>2. CASE /\ AddHandler(n, id, p, Append(streams, [Opened(n, p) EXCEPT !.out[n] = <<m>>]))
           /\ Taken(n, id)
  <2> HIDE DEF p, m, id
  <2>1. id \in Nat /\ id \notin DOMAIN streams
    BY <1>1, <1>2, SendFirstIs DEF id
  <2>2. PICK x, dropped :
          /\ NewAt(x, n, p, m) /\ dropped \in SUBSET ToSet(active[n])
          /\ StreamsOK(Append(streams, x)) /\ DOMAIN Append(streams, x) = DOMAIN streams \cup {id}
          /\ Append(streams, x)[id] = x
          /\ \A s \in DOMAIN streams : Append(streams, x)[s] = streams[s]
          /\ Adds(n, id, p, Append(streams, x), dropped)
    BY <1>1, <1>2, SendFirstIs DEF id
  <2> DEFINE all == Append(streams, x)
  <2>3. /\ n \in {all[id].from, all[id].to} /\ all[id].task[n] = "running"
        /\ OtherEnd(all[id], n) = p /\ all[id].task[p] = "backlog"
    BY <1>1, <2>2 DEF NewAt, OtherEnd
  <2>4. id \notin ToSet(active[n])
    BY <2>1 DEF OwnInv, HandlersOpen
  <2>5. TodoTyped /\ sent' \in [Nodes -> Seq([msg : Addressed, stream : Nat])]
    BY <1>1, <1>2, <2>1, TakenIs
  <2>6. active' \in [Nodes -> Seq(Nat)] /\ StreamsOK(streams')
    <3>1. {s \in dropped : streams[s].task[n] = "running"} \in SUBSET DOMAIN all
      BY <2>2 DEF OwnInv, HandlersOpen
    <3> QED
      BY <2>2, <3>1, ClosesGrows DEF Adds
  <2>7. TypeOK'
    BY <1>1, <2>5, <2>6 DEF TypeOK, TodoTyped, StreamsOK
  <2> HIDE DEF all
  <2>8. StreamsOK(all) /\ Adds(n, id, OtherEnd(all[id], n), all, dropped)
        /\ DOMAIN all = DOMAIN streams \cup {id} /\ \A s \in DOMAIN streams \ {id} : all[s] = streams[s]
    BY <2>2, <2>3 DEF all
  <2> QED
    BY <2>1, <2>2, <2>3, <2>4, <2>7, <2>8, OwnAdds
<1>3. CASE todo' = [todo EXCEPT ![n] = Tail(@)] /\ UNCHANGED <<streams, active, sent>>
  <2>1. TodoTyped
    BY <1>1, <1>3, TodoIs
  <2>2. TypeOK'
    BY <1>1, <1>3, <2>1 DEF TypeOK, TodoTyped
  <2>3. Calm
    BY <1>1, <1>3, SameIs DEF TypeOK, Calm, Grows, StreamsOK
  <2> QED
    BY <1>3, <2>2, <2>3, OwnCalm
<1> QED
  BY <1>2, <1>3 DEF SendFirst

\* The Acceptor adds a handler, or gives the stream up.
LEMMA AcceptOwn ==
  ASSUME OwnInv, NEW n \in Nodes, Accept(n)
  PROVE  OwnInv'
<1> DEFINE id == Min(Backlog(n))
<1>1. TypeOK
  BY DEF OwnInv
<1>2. id \in Backlog(n) /\ id \in DOMAIN streams /\ id \in Nat
  BY <1>1, OldestIs DEF Accept
<1>3. UNCHANGED <<plan, todo, up, received, faults, sent>>
  BY DEF Accept
<1>4. CASE AddHandler(n, id, FirstAddress(streams[id].first), [streams EXCEPT ![id].task[n] = "running"])
  <2> HIDE DEF id
  <2>1. streams[id].to = n /\ streams[id].task[n] = "backlog"
    BY <1>2, <1>4, AcceptIs
  <2>2. PICK all, dropped :
          /\ dropped \in SUBSET ToSet(active[n])
          /\ StreamsOK(all) /\ DOMAIN all = DOMAIN streams
          /\ RunsAt(streams[id], all[id], n)
          /\ \A s \in DOMAIN streams \ {id} : all[s] = streams[s]
          /\ Adds(n, id, streams[id].from, all, dropped)
    BY <1>2, <1>4, AcceptIs
  <2>3. streams[id].from # n
    BY <1>1, <1>2, <2>1, StreamParts DEF TypeOK
  <2>4. n \in {all[id].from, all[id].to} /\ OtherEnd(all[id], n) = streams[id].from
        /\ all[id].task[n] = "running"
    BY <2>1, <2>2, <2>3 DEF RunsAt, Same, OtherEnd
  <2>5. id \notin ToSet(active[n])
    BY <2>1 DEF OwnInv, HandlersOpen
  <2>6. active' \in [Nodes -> Seq(Nat)] /\ StreamsOK(streams')
    <3>1. {s \in dropped : streams[s].task[n] = "running"} \in SUBSET DOMAIN all
      BY <2>2 DEF OwnInv, HandlersOpen
    <3> QED
      BY <2>2, <3>1, ClosesGrows DEF Adds
  <2>7. TypeOK'
    BY <1>1, <1>3, <2>6 DEF TypeOK, StreamsOK
  <2>8. Adds(n, id, OtherEnd(all[id], n), all, dropped) /\ DOMAIN all = DOMAIN streams \cup {id}
    BY <1>2, <2>2, <2>4
  <2> QED
    BY <1>2, <1>3, <2>2, <2>4, <2>5, <2>7, <2>8, OwnAdds
<1>5. CASE streams' \in Closing(n, {id}, "ended", streams) /\ UNCHANGED active
  <2> HIDE DEF id
  <2>1. n \in Ends(id)
    BY <1>2 DEF Backlog, Ends
  <2>2. Calm
    BY <1>1, <1>2, <1>5, <2>1, TaskEndsIs DEF TaskEnds
  <2>3. TypeOK'
    BY <1>1, <1>3, <1>5, <2>2 DEF TypeOK, Calm, Grows, StreamsOK
  <2> QED
    BY <1>3, <1>5, <2>2, <2>3, OwnCalm
<1> QED
  BY <1>4, <1>5 DEF Accept

\* What a task does changes no handler.
LEMMA TaskOwn ==
  ASSUME OwnInv, Calm, plan' = plan, todo' = todo, up' = up, active' = active, sent' = sent,
         faults' \in FaultsType,
         DOMAIN received' = Nodes, \A m \in Nodes : received'[m] \in Seq(ToSet(received'[m]))
  PROVE  OwnInv'
<1>1. TypeOK'
  BY DEF OwnInv, TypeOK, Calm, Grows, StreamsOK
<1> QED
  BY <1>1, OwnCalm

\* Faults are counted, and never forgotten.
LEMMA FaultsIs ==
  ASSUME TypeOK
  PROVE  /\ faults \in FaultsType
         /\ \A f : (\/ f = [faults EXCEPT !.crashes = @ + 1] \/ f = [faults EXCEPT !.cuts = @ + 1]
                    \/ f = [faults EXCEPT !.timeouts = @ + 1] \/ f = [faults EXCEPT !.broken = @ + 1])
                   => /\ f \in FaultsType /\ f.lost = faults.lost /\ f.torn = faults.torn
                      /\ f.timeouts >= faults.timeouts /\ f.broken >= faults.broken
<1>1. faults \in FaultsType
  BY DEF TypeOK
<1>2. /\ faults.crashes + 1 \in Nat /\ faults.cuts + 1 \in Nat /\ faults.timeouts + 1 \in Nat
      /\ faults.broken + 1 \in Nat /\ faults.timeouts >= faults.timeouts
      /\ faults.timeouts + 1 >= faults.timeouts /\ faults.broken >= faults.broken
      /\ faults.broken + 1 >= faults.broken
  <2>1. \A k \in Nat : k + 1 \in Nat /\ k >= k /\ k + 1 >= k
    OBVIOUS
  <2>2. faults.crashes \in Nat /\ faults.cuts \in Nat /\ faults.timeouts \in Nat /\ faults.broken \in Nat
    BY <1>1 DEF FaultsType
  <2> QED
    BY <2>1, <2>2
<1>3. ASSUME NEW f, f = [faults EXCEPT !.crashes = @ + 1] \/ f = [faults EXCEPT !.cuts = @ + 1]
      PROVE  /\ f \in FaultsType /\ f.lost = faults.lost /\ f.torn = faults.torn
             /\ f.timeouts >= faults.timeouts /\ f.broken >= faults.broken
  BY <1>1, <1>2, <1>3 DEF FaultsType
<1>4. ASSUME NEW f, f = [faults EXCEPT !.timeouts = @ + 1] \/ f = [faults EXCEPT !.broken = @ + 1]
      PROVE  /\ f \in FaultsType /\ f.lost = faults.lost /\ f.torn = faults.torn
             /\ f.timeouts >= faults.timeouts /\ f.broken >= faults.broken
  BY <1>1, <1>2, <1>4 DEF FaultsType
<1> QED
  BY <1>1, <1>3, <1>4

\* What a branch that is cancelled loses or tears is remembered.
LEMMA CancelledIs ==
  ASSUME TypeOK, NEW lost \in SUBSET (Nat \X Nodes \X Frames), NEW torn \in SUBSET Nat,
         Cancelled(lost, torn)
  PROVE  /\ faults' \in FaultsType
         /\ faults'.timeouts = faults.timeouts /\ faults'.broken = faults.broken
         /\ faults'.lost = faults.lost \cup lost /\ faults'.torn = faults.torn \cup torn
<1>1. faults \in FaultsType
  BY DEF TypeOK
<1>2. /\ faults.cancels + 1 \in Nat /\ faults.torn \cup torn \in SUBSET Nat
      /\ faults.lost \cup lost \in SUBSET (Nat \X Nodes \X Frames)
  <2>1. /\ faults.cancels \in Nat /\ faults.torn \in SUBSET Nat
        /\ faults.lost \in SUBSET (Nat \X Nodes \X Frames)
    BY <1>1 DEF FaultsType
  <2>2. /\ \A k \in Nat : k + 1 \in Nat
        /\ \A S : \A a, b \in SUBSET S : a \cup b \in SUBSET S
    OBVIOUS
  <2> QED
    BY <2>1, <2>2, Zenon
<1>3. faults' = [faults EXCEPT !.cancels = faults.cancels + 1, !.lost = faults.lost \cup lost,
                               !.torn = faults.torn \cup torn]
  BY DEF Cancelled
<1> QED
  BY <1>1, <1>2, <1>3 DEF FaultsType

\* The conditions under which a task of s at n does something.
LEMMA RunsEnds == \A s, n : Runs(s, n) => s \in DOMAIN streams /\ n \in Ends(s)
BY DEF Runs

\* A task writes a message, or finds that the other end is gone.
LEMMA WriteOwn ==
  ASSUME OwnInv, NEW n \in Nodes, NEW s, Write(s, n)
  PROVE  OwnInv'
<1>1. /\ TypeOK /\ s \in DOMAIN streams /\ n \in Ends(s) /\ streams[s].out[n] # <<>>
      /\ UNCHANGED <<plan, todo, up, active, faults, sent>>
  BY RunsEnds DEF Write, OwnInv
<1>2. DOMAIN received = Nodes /\ \A m \in Nodes : received[m] \in Seq(ToSet(received[m]))
  BY <1>1 DEF TypeOK
<1>3. CASE streams' = [streams EXCEPT ![s].out[n] = Tail(@),
                         ![s].wire[Peer(s, n)] = Append(@, Frame(Head(streams[s].out[n])))]
           /\ UNCHANGED received
  <2>1. Calm
    BY <1>1, <1>3, WrittenIs
  <2> QED
    BY <1>1, <1>2, <1>3, <2>1, FaultsIs, TaskOwn
<1>4. CASE streams' = [streams EXCEPT ![s].out[n] = Tail(@)] /\ UNCHANGED received
  <2>1. Calm
    BY <1>1, <1>4, LostIs
  <2> QED
    BY <1>1, <1>2, <1>4, <2>1, FaultsIs, TaskOwn
<1>5. CASE TaskEnds(s, n) /\ Event(n, LostWith(s, Peer(s, n)))
  <2>1. Calm
    BY <1>1, <1>5, TaskEndsIs
  <2>2. DOMAIN received' = Nodes /\ \A m \in Nodes : received'[m] \in Seq(ToSet(received'[m]))
    BY <1>1, <1>5, EventIs
  <2> QED
    BY <1>1, <2>1, <2>2, FaultsIs, TaskOwn
<1> QED
  BY <1>3, <1>4, <1>5 DEF Write

\* A task reads a frame.
LEMMA ReceiveOwn ==
  ASSUME OwnInv, NEW n \in Nodes, NEW s, Receive(s, n)
  PROVE  OwnInv'
<1> DEFINE e == [type |-> "message", stream |-> s, from |-> Peer(s, n),
                 msg |-> Unframe(Head(streams[s].wire[n])).value]
<1>1. /\ TypeOK /\ s \in DOMAIN streams /\ n \in Ends(s) /\ streams[s].wire[n] # <<>>
      /\ UNCHANGED <<plan, todo, up, active, faults, sent>>
  BY RunsEnds DEF Receive, OwnInv
<1>2. DOMAIN received = Nodes /\ \A m \in Nodes : received[m] \in Seq(ToSet(received[m]))
  BY <1>1 DEF TypeOK
<1>3. \/ streams' = [streams EXCEPT ![s].wire[n] = Tail(@)] /\ Event(n, e)
      \/ TaskEnds(s, n) /\ UNCHANGED received
  BY DEF Receive
<1> HIDE DEF e
<1>4. CASE streams' = [streams EXCEPT ![s].wire[n] = Tail(@)] /\ Event(n, e)
  <2>1. Calm
    BY <1>1, <1>4, ReadIs
  <2>2. DOMAIN received' = Nodes /\ \A m \in Nodes : received'[m] \in Seq(ToSet(received'[m]))
    BY <1>1, <1>4, EventIs
  <2> QED
    BY <1>1, <2>1, <2>2, FaultsIs, TaskOwn
<1>5. CASE TaskEnds(s, n) /\ UNCHANGED received
  <2>1. Calm
    BY <1>1, <1>5, TaskEndsIs
  <2> QED
    BY <1>1, <1>2, <1>5, <2>1, FaultsIs, TaskOwn
<1> QED
  BY <1>3, <1>4, <1>5

\* A task that ends because of the end of the stream or of a heartbeat.
LEMMA EndOwn ==
  ASSUME OwnInv, NEW n \in Nodes, NEW s, Eof(s, n) \/ HeartbeatTimeout(s, n) \/ HeartbeatFails(s, n)
  PROVE  OwnInv'
<1>1. /\ TypeOK /\ s \in DOMAIN streams /\ n \in Ends(s) /\ TaskEnds(s, n)
      /\ UNCHANGED <<plan, todo, up, active, sent>>
  BY RunsEnds DEF Eof, HeartbeatTimeout, HeartbeatFails, HangUp, OwnInv
<1>2. Calm
  BY <1>1, TaskEndsIs
<1>3. DOMAIN received' = Nodes /\ \A m \in Nodes : received'[m] \in Seq(ToSet(received'[m]))
  <2>1. CASE Event(n, LostWith(s, Peer(s, n)))
    BY <1>1, <2>1, EventIs
  <2>2. CASE received' = received
    BY <1>1, <2>2 DEF TypeOK
  <2> QED
    BY <2>1, <2>2 DEF Eof, HeartbeatTimeout, HeartbeatFails, HangUp
<1>4. faults' \in FaultsType
  BY <1>1, FaultsIs DEF Eof, HeartbeatTimeout, HeartbeatFails
<1> QED
  BY <1>1, <1>2, <1>3, <1>4, TaskOwn

-----------------------------------------------------------------------------
(* Branches that are cancelled, and what is read of a stream that is torn *)

\* The first message that waits at an end is gone; of what lies on the stream for it some is
\* gone, or torn.
ThinAt(x, y, m) ==
  /\ y.out[m] = x.out[m] \/ (x.out[m] # <<>> /\ y.out[m] = Tail(x.out[m]))
  /\ \E k \in Nat : Thins(y.wire[m], x.wire[m], k)

\* What is gone of the stream s is remembered.
SparedAt(x, y, s, m, g) ==
  /\ ToSet(y.wire[m]) \subseteq ToSet(x.wire[m]) \cup TornOf(s, g)
  /\ \A u \in ToSet(x.out[m]) :
       u \in ToSet(y.out[m]) \/ <<s, m, Frame(u)>> \in g.lost \/ s \in g.torn
  /\ \A u \in ToSet(x.wire[m]) :
       u \in ToSet(y.wire[m]) \/ <<s, OtherEnd(x, m), u>> \in g.lost \/ s \in g.torn

Spoilt(x, y, s, g) ==
  /\ Same(x, y) /\ y.task = x.task
  /\ \A m \in {x.from, x.to} : ThinAt(x, y, m) /\ SparedAt(x, y, s, m, g)

\* Frames that are torn are the only new ones.
LEMMA ThinsSet ==
  ASSUME NEW v, NEW w, NEW k \in Nat, Thins(v, w, k)
  PROVE  ToSet(v) \subseteq ToSet(w) \cup {Torn}
<1> SUFFICES ASSUME NEW i \in DOMAIN v PROVE v[i] \in ToSet(w) \cup {Torn}
  BY DEF ToSet
<1>1. v[i] = Torn \/ \E j \in DOMAIN w : v[i] = w[j]
  BY DEF Thins
<1> QED
  BY <1>1 DEF ToSet

\* An end that keeps what it has
LEMMA KeptSpared ==
  ASSUME NEW x, StreamOK(x), NEW m \in {x.from, x.to}, NEW y, y.wire[m] = x.wire[m], NEW s, NEW g
  PROVE  /\ \E k \in Nat : Thins(y.wire[m], x.wire[m], k)
         /\ y.out[m] = x.out[m] => ThinAt(x, y, m) /\ SparedAt(x, y, s, m, g)
<1>1. x.wire[m] \in Seq(Frames)
  BY StreamParts
<1>2. \E k \in Nat : Thins(y.wire[m], x.wire[m], k)
  BY <1>1, ThinsIs
<1> QED
  BY <1>2 DEF ThinAt, SparedAt

\* The message that was about to be written is lost.
LEMMA OutSpoils ==
  ASSUME NEW x, StreamOK(x), NEW n \in {x.from, x.to}, x.out[n] # <<>>,
         NEW y, OutAt(x, y, n, Tail(x.out[n])),
         NEW s, NEW g, <<s, n, Frame(Head(x.out[n]))>> \in g.lost
  PROVE  Spoilt(x, y, s, g)
<1> DEFINE p == OtherEnd(x, n)
<1>1. {x.from, x.to} = {n, p} /\ p \in {x.from, x.to} /\ Same(x, y)
  BY OtherIs DEF OutAt
<1>2. /\ y.task = x.task /\ y.wire = x.wire /\ y.out[p] = x.out[p] /\ y.out[n] = Tail(x.out[n])
  BY DEF OutAt
<1> HIDE DEF p
<1>3. ThinAt(x, y, p) /\ SparedAt(x, y, s, p, g)
  BY <1>1, <1>2, KeptSpared
<1>4. ThinAt(x, y, n)
  BY <1>2, KeptSpared DEF ThinAt
<1>5. SparedAt(x, y, s, n, g)
  <2>1. ToSet(x.out[n]) = ToSet(Tail(x.out[n])) \cup {Head(x.out[n])}
    <3>1. x.out[n] \in Seq(Message)
      BY StreamParts
    <3> QED
      BY <3>1, TailIs
  <2> QED
    BY <1>2, <2>1 DEF SparedAt
<1> QED
  BY <1>1, <1>2, <1>3, <1>4, <1>5 DEF Spoilt

\* A part of its frame is written.
LEMMA WriteSpoils ==
  ASSUME NEW x, StreamOK(x), NEW n \in {x.from, x.to}, x.out[n] # <<>>,
         NEW y, WriteAt(x, y, n, Tail(x.out[n]), Append(x.wire[OtherEnd(x, n)], Torn)),
         NEW s, NEW g, s \in g.torn
  PROVE  Spoilt(x, y, s, g)
<1> DEFINE p == OtherEnd(x, n)
<1>1. {x.from, x.to} = {n, p} /\ p \in {x.from, x.to} /\ Same(x, y)
  BY OtherIs DEF WriteAt
<1>2. /\ y.task = x.task /\ y.out[p] = x.out[p] /\ y.out[n] = Tail(x.out[n])
      /\ y.wire[n] = x.wire[n] /\ y.wire[p] = Append(x.wire[p], Torn)
  BY DEF WriteAt
<1> HIDE DEF p
<1>3. x.wire[p] \in Seq(Frames)
  BY <1>1, StreamParts
<1>4. Thins(y.wire[p], x.wire[p], 0)
  BY <1>2, <1>3, ThinsIs
<1>5. ToSet(y.wire[p]) \subseteq ToSet(x.wire[p]) \cup {Torn}
  BY <1>4, ThinsSet
<1>6. ThinAt(x, y, n) /\ ThinAt(x, y, p)
  BY <1>2, <1>4, KeptSpared DEF ThinAt
<1>7. SparedAt(x, y, s, n, g) /\ SparedAt(x, y, s, p, g)
  BY <1>2, <1>5 DEF SparedAt, TornOf
<1> QED
  BY <1>1, <1>2, <1>6, <1>7 DEF Spoilt

\* Of what has come some is lost: the first frame, which is remembered, or what follows where
\* frames no longer begin.
LEMMA WireSpoils ==
  ASSUME NEW x, StreamOK(x), NEW n \in {x.from, x.to}, NEW w \in Seq(Frames),
         NEW y, WireAt(x, y, n, w), NEW k \in Nat, Thins(w, x.wire[n], k), NEW s, NEW g,
         \/ s \in g.torn
         \/ /\ x.wire[n] # <<>> /\ w = Tail(x.wire[n])
            /\ <<s, OtherEnd(x, n), Head(x.wire[n])>> \in g.lost
  PROVE  Spoilt(x, y, s, g)
<1> DEFINE p == OtherEnd(x, n)
<1>1. {x.from, x.to} = {n, p} /\ p \in {x.from, x.to} /\ Same(x, y)
  BY OtherIs DEF WireAt
<1>2. y.task = x.task /\ y.out = x.out /\ y.wire[p] = x.wire[p] /\ y.wire[n] = w
  BY DEF WireAt
<1>3. ToSet(w) \subseteq ToSet(x.wire[n]) \cup {Torn}
  BY ThinsSet
<1>4. x.wire[n] \in Seq(Frames)
  BY StreamParts
<1> HIDE DEF p
<1>5. ThinAt(x, y, p) /\ SparedAt(x, y, s, p, g)
  BY <1>1, <1>2, KeptSpared
<1>6. ThinAt(x, y, n)
  BY <1>2 DEF ThinAt
<1>7. CASE s \in g.torn
  <2>1. SparedAt(x, y, s, n, g)
    BY <1>2, <1>3, <1>7 DEF SparedAt, TornOf
  <2> QED
    BY <1>1, <1>2, <1>5, <1>6, <2>1 DEF Spoilt
<1>8. CASE /\ x.wire[n] # <<>> /\ w = Tail(x.wire[n])
           /\ <<s, OtherEnd(x, n), Head(x.wire[n])>> \in g.lost
  <2>1. ToSet(x.wire[n]) = ToSet(w) \cup {Head(x.wire[n])}
    BY <1>4, <1>8, TailIs
  <2>2. SparedAt(x, y, s, n, g)
    BY <1>2, <1>8, <2>1 DEF SparedAt
  <2> QED
    BY <1>1, <1>2, <1>5, <1>6, <2>2 DEF Spoilt
<1> QED
  BY <1>7, <1>8

\* What a branch of the task of s at n that is cancelled, or what is read where frames no
\* longer begin, leaves alone
Spoils(s, n) ==
  /\ s \in DOMAIN streams /\ n \in Ends(s) /\ Calm /\ OneStream(s)
  /\ UNCHANGED <<plan, todo, up, active, sent>>
  /\ faults' \in FaultsType
  /\ faults'.timeouts = faults.timeouts /\ faults'.broken = faults.broken
  /\ faults.lost \subseteq faults'.lost /\ faults.torn \subseteq faults'.torn
  /\ \/ received' = received
     \/ Event(n, [type |-> "garbled", stream |-> s, from |-> Peer(s, n)])

\* sender.send is cancelled.
LEMMA WriteCancelledIs ==
  ASSUME TypeOK, NEW n \in Nodes, NEW s, WriteCancelled(s, n)
  PROVE  Spoils(s, n) /\ Spoilt(streams[s], streams'[s], s, faults')
<1> DEFINE x == streams[s]
           frame == <<s, n, Frame(Head(streams[s].out[n]))>>
<1>1. /\ s \in DOMAIN streams /\ n \in Ends(s) /\ streams[s].out[n] # <<>>
      /\ UNCHANGED <<plan, todo, up, active, received, sent>>
  BY RunsEnds DEF WriteCancelled
<1>2. StreamOK(x) /\ n \in {x.from, x.to} /\ Peer(s, n) = OtherEnd(x, n) /\ s \in Nat
  BY <1>1 DEF TypeOK, Ends, Peer
<1>3. {frame} \in SUBSET (Nat \X Nodes \X Frames) /\ {s} \in SUBSET Nat
  <2>1. streams[s].out[n] \in Seq(Message)
    BY <1>2, StreamParts
  <2>2. Frame(Head(streams[s].out[n])) \in Frames
    BY <1>1, <2>1, HeadFrame
  <2> QED
    BY <1>2, <2>2
<1>4. \/ Cancelled({frame}, {}) /\ streams' = [streams EXCEPT ![s].out[n] = Tail(@)]
      \/ /\ Cancelled({frame}, {s})
         /\ streams' = [streams EXCEPT ![s].out[n] = Tail(@), ![s].wire[Peer(s, n)] = Append(@, Torn)]
  BY DEF WriteCancelled
<1>5. CASE Cancelled({frame}, {}) /\ streams' = [streams EXCEPT ![s].out[n] = Tail(@)]
  <2>1. Calm /\ OneStream(s) /\ OutAt(x, streams'[s], n, Tail(x.out[n]))
    BY <1>1, <1>5, LostIs
  <2>2. /\ faults' \in FaultsType
        /\ faults'.timeouts = faults.timeouts /\ faults'.broken = faults.broken
        /\ faults'.lost = faults.lost \cup {frame} /\ faults'.torn = faults.torn \cup {}
    BY <1>3, <1>5, CancelledIs
  <2>3. frame \in faults'.lost
    BY <2>2
  <2>4. Spoilt(x, streams'[s], s, faults')
    BY <1>1, <1>2, <2>1, <2>3, OutSpoils
  <2>5. faults.lost \subseteq faults'.lost /\ faults.torn \subseteq faults'.torn
    BY <2>2
  <2> QED
    BY <1>1, <2>1, <2>2, <2>4, <2>5 DEF Spoils
<1>6. CASE /\ Cancelled({frame}, {s})
           /\ streams' = [streams EXCEPT ![s].out[n] = Tail(@),
                            ![s].wire[Peer(s, n)] = Append(@, Torn)]
  <2>1. /\ Calm /\ OneStream(s)
        /\ WriteAt(x, streams'[s], n, Tail(x.out[n]), Append(x.wire[Peer(s, n)], Torn))
    BY <1>1, <1>6, TornIs, AppendedIs, Zenon
  <2>2. /\ faults' \in FaultsType
        /\ faults'.timeouts = faults.timeouts /\ faults'.broken = faults.broken
        /\ faults'.lost = faults.lost \cup {frame} /\ faults'.torn = faults.torn \cup {s}
    BY <1>3, <1>6, CancelledIs
  <2>3. /\ faults.lost \subseteq faults'.lost /\ faults.torn \subseteq faults'.torn
        /\ s \in faults'.torn
    BY <2>2
  <2>4. Spoilt(x, streams'[s], s, faults')
    BY <1>1, <1>2, <2>1, <2>3, WriteSpoils
  <2> QED
    BY <1>1, <2>1, <2>2, <2>3, <2>4 DEF Spoils
<1> QED
  BY <1>4, <1>5, <1>6

\* receiver.recv is cancelled.
LEMMA ReceiveCancelledIs ==
  ASSUME TypeOK, NEW n \in Nodes, NEW s, ReceiveCancelled(s, n)
  PROVE  Spoils(s, n) /\ Spoilt(streams[s], streams'[s], s, faults')
<1> DEFINE x == streams[s]
           frame == <<s, Peer(s, n), Head(streams[s].wire[n])>>
<1>1. /\ s \in DOMAIN streams /\ n \in Ends(s) /\ streams[s].wire[n] # <<>>
      /\ UNCHANGED <<plan, todo, up, active, received, sent>>
  BY RunsEnds DEF ReceiveCancelled
<1>2. /\ StreamOK(x) /\ n \in {x.from, x.to} /\ Peer(s, n) = OtherEnd(x, n) /\ s \in Nat
  BY <1>1 DEF TypeOK, Ends, Peer
<1>3. x.wire[n] \in Seq(Frames)
  BY <1>2, StreamParts
<1>4. {frame} \in SUBSET (Nat \X Nodes \X Frames) /\ {s} \in SUBSET Nat
  <2>1. Peer(s, n) \in Nodes /\ Head(streams[s].wire[n]) \in Frames
    BY <1>1, <1>2, <1>3, OtherIs, TailIs
  <2> QED
    BY <1>2, <2>1
<1>5. \/ Cancelled({}, {s}) /\ streams' = [streams EXCEPT ![s].wire[n] = <<Torn>> \o Tail(streams[s].wire[n])]
      \/ Cancelled({frame}, {}) /\ streams' = [streams EXCEPT ![s].wire[n] = Tail(streams[s].wire[n])]
  BY DEF ReceiveCancelled
<1>6. ASSUME Cancelled({}, {s}),
             streams' = [streams EXCEPT ![s].wire[n] = <<Torn>> \o Tail(streams[s].wire[n])]
      PROVE  Spoils(s, n) /\ Spoilt(x, streams'[s], s, faults')
  <2>1. PICK w \in Seq(Frames) : w = <<Torn>> \o Tail(streams[s].wire[n]) /\ Thins(w, x.wire[n], 0)
    BY <1>1, <1>3, ThinsIs
  <2>2. streams' = [streams EXCEPT ![s].wire[n] = w]
    BY <1>6, <2>1
  <2>3. Calm /\ OneStream(s) /\ WireAt(x, streams'[s], n, w)
    BY <1>1, <2>2, WiresIs
  <2>4. /\ faults' \in FaultsType
        /\ faults'.timeouts = faults.timeouts /\ faults'.broken = faults.broken
        /\ faults'.lost = faults.lost \cup {} /\ faults'.torn = faults.torn \cup {s}
    BY <1>4, <1>6, CancelledIs
  <2>5. /\ faults.lost \subseteq faults'.lost /\ faults.torn \subseteq faults'.torn
        /\ s \in faults'.torn
    BY <2>4
  <2>6. Spoilt(x, streams'[s], s, faults')
    BY <1>2, <2>1, <2>3, <2>5, WireSpoils
  <2> QED
    BY <1>1, <2>3, <2>4, <2>5, <2>6 DEF Spoils
<1>7. ASSUME Cancelled({frame}, {}),
             streams' = [streams EXCEPT ![s].wire[n] = Tail(streams[s].wire[n])]
      PROVE  Spoils(s, n) /\ Spoilt(x, streams'[s], s, faults')
  <2>1. PICK w \in Seq(Frames) : w = Tail(streams[s].wire[n]) /\ Thins(w, x.wire[n], 1)
    BY <1>1, <1>3, ThinsIs
  <2>2. streams' = [streams EXCEPT ![s].wire[n] = w]
    BY <1>7, <2>1
  <2>3. Calm /\ OneStream(s) /\ WireAt(x, streams'[s], n, w)
    BY <1>1, <2>2, WiresIs
  <2>4. /\ faults' \in FaultsType
        /\ faults'.timeouts = faults.timeouts /\ faults'.broken = faults.broken
        /\ faults'.lost = faults.lost \cup {frame} /\ faults'.torn = faults.torn \cup {}
    BY <1>4, <1>7, CancelledIs
  <2>5. /\ faults.lost \subseteq faults'.lost /\ faults.torn \subseteq faults'.torn
        /\ frame \in faults'.lost
    BY <2>4
  <2>6. Spoilt(x, streams'[s], s, faults')
    BY <1>1, <1>2, <2>1, <2>3, <2>5, WireSpoils
  <2> QED
    BY <1>1, <2>3, <2>4, <2>5, <2>6 DEF Spoils
<1> QED
  BY <1>5, <1>6, <1>7

\* receiver.recv takes some of what has come for something else.
LEMMA GarbleIs ==
  ASSUME TypeOK, NEW n \in Nodes, NEW s, Garble(s, n)
  PROVE  /\ Spoils(s, n) /\ faults' = faults
         /\ streams[s].wire[n] # <<>> /\ Head(streams[s].wire[n]) = Torn
         /\ s \in faults.torn => Spoilt(streams[s], streams'[s], s, faults')
<1> DEFINE x == streams[s]
<1>1. /\ s \in DOMAIN streams /\ n \in Ends(s) /\ streams[s].wire[n] # <<>>
      /\ Head(streams[s].wire[n]) = Torn
      /\ UNCHANGED <<plan, todo, up, active, faults, sent>>
  BY RunsEnds DEF Garble
<1>2. StreamOK(x) /\ n \in {x.from, x.to}
  BY <1>1 DEF TypeOK, Ends
<1>3. x.wire[n] \in Seq(Frames)
  BY <1>2, StreamParts
<1>4. PICK j \in DOMAIN streams[s].wire[n] :
        \/ streams' = [streams EXCEPT ![s].wire[n] = Rest(streams[s].wire[n], j)]
        \/ streams' = [streams EXCEPT ![s].wire[n] = <<Torn>> \o Rest(streams[s].wire[n], j)]
  BY DEF Garble
<1>5. PICK w \in Seq(Frames), k \in Nat :
        streams' = [streams EXCEPT ![s].wire[n] = w] /\ Thins(w, x.wire[n], k)
  BY <1>3, <1>4, ThinsRest
<1>6. Calm /\ OneStream(s) /\ WireAt(x, streams'[s], n, w)
  BY <1>1, <1>5, WiresIs
<1>7. s \in faults.torn => Spoilt(x, streams'[s], s, faults')
  BY <1>1, <1>2, <1>5, <1>6, WireSpoils
<1>8. \/ received' = received
      \/ Event(n, [type |-> "garbled", stream |-> s, from |-> Peer(s, n)])
  BY DEF Garble
<1>9. Spoils(s, n)
  BY <1>1, <1>6, <1>8 DEF Spoils, TypeOK
<1> QED
  BY <1>1, <1>7, <1>9

\* A branch of a task that is cancelled, and the reading of what is torn
LEMMA SpoilsOwn ==
  ASSUME OwnInv, NEW n \in Nodes, NEW s, Spoils(s, n)
  PROVE  OwnInv'
<1>1. DOMAIN received' = Nodes /\ \A m \in Nodes : received'[m] \in Seq(ToSet(received'[m]))
  BY EventIs DEF Spoils, OwnInv, TypeOK
<1> QED
  BY <1>1, TaskOwn DEF Spoils

\* A node goes offline: its tasks are stopped.
LEMMA DisconnectOwn ==
  ASSUME OwnInv, NEW n \in Nodes, Disconnect(n)
  PROVE  OwnInv'
<1>1. TypeOK /\ Calm /\ UNCHANGED <<plan, todo, active, received, sent>>
  BY MineIs DEF Disconnect, OwnInv
<1>2. faults' \in FaultsType
  BY <1>1, FaultsIs DEF Disconnect
<1>3. up' \in [Nodes -> {"connected", "offline", "crashed"}]
  BY <1>1 DEF TypeOK, Disconnect
<1>4. TypeOK'
  BY <1>1, <1>2, <1>3 DEF TypeOK, Calm, Grows, StreamsOK
<1> QED
  BY <1>1, <1>4, OwnCalm

\* A node is back: the handlers it has kept are of tasks that have ended.
LEMMA ReconnectOwn ==
  ASSUME OwnInv, NEW n \in Nodes, Reconnect(n)
  PROVE  OwnInv'
<1>1. TypeOK /\ UNCHANGED <<plan, todo, active, streams, received, faults, sent>>
  BY DEF Reconnect, OwnInv
<1>2. up' \in [Nodes -> {"connected", "offline", "crashed"}]
  BY <1>1 DEF TypeOK, Reconnect
<1>3. TypeOK'
  BY <1>1, <1>2 DEF TypeOK
<1>4. Calm
  BY <1>1, SameIs DEF TypeOK, Calm, Grows, StreamsOK
<1> QED
  BY <1>1, <1>3, <1>4, OwnCalm

\* A node that crashes has no handler left.
LEMMA CrashOwn ==
  ASSUME OwnInv, NEW n \in Nodes, Crash(n)
  PROVE  OwnInv'
<1>1. /\ TypeOK /\ Calm /\ UNCHANGED <<plan, todo, received, sent>>
      /\ ClosesAll(streams, streams', n, Mine(n), "aborted")
  BY MineIs DEF Crash, OwnInv
<1>2. faults' \in FaultsType
  BY <1>1, FaultsIs DEF Crash
<1>3. up' \in [Nodes -> {"connected", "offline", "crashed"}]
  BY <1>1 DEF TypeOK, Crash
<1>4. active' = [active EXCEPT ![n] = <<>>] /\ active \in [Nodes -> Seq(Nat)]
  BY <1>1 DEF TypeOK, Crash
<1>5. <<>> \in Seq(Nat) /\ Len(<<>>) = 0 /\ ToSet(<<>>) = {} /\ DOMAIN <<>> = {}
  BY DEF ToSet
<1>6. ActiveAt(n) /\ active'[n] = <<>>
  BY <1>4, <1>5 DEF ActiveAt
<1>7. TypeOK'
  BY <1>1, <1>2, <1>3, <1>6 DEF TypeOK, Calm, Grows, StreamsOK, ActiveAt
<1>8. Len(active'[n]) <= plan.max_conns /\ ToSet(active'[n]) \subseteq ToSet(active[n])
      /\ \A f : Distinct(f, active[n]) => Distinct(f, active'[n])
  <2>1. plan.max_conns \in Nat
    BY <1>1, ScenariosAssumption DEF TypeOK
  <2> QED
    BY <1>5, <1>6, <2>1 DEF Distinct
<1>9. \A s \in DOMAIN streams : n \in Ends(s) => streams'[s].task[n] # "running"
  <2> SUFFICES ASSUME NEW s \in DOMAIN streams, n \in Ends(s), streams'[s].task[n] = "running"
               PROVE  FALSE
    OBVIOUS
  <2>1. streams[s].task[n] = "running"
    BY <1>1 DEF Calm
  <2>2. s \in Mine(n)
    BY <2>1 DEF Mine, Runs
  <2>3. streams'[s].task[n] = "aborted"
    BY <1>1, <2>2 DEF ClosesAll, ClosedAt
  <2> QED
    BY <2>3
<1> QED
  BY <1>1, <1>6, <1>7, <1>8, <1>9, OwnAt

\* The three ways of a send.
LEMMA SendOwn ==
  ASSUME OwnInv, NEW n \in Nodes, Send(n)
  PROVE  OwnInv'
<1> DEFINE p == Head(todo[n]).to
<1>1. todo[n] # <<>> /\ UNCHANGED <<plan, up, received, faults>>
  BY DEF Send
<1>2. SendFirst(n, p) \/ \E s \in Handler(n, p) : SendOn(n, p, s) \/ SendFails(n, p, s)
  BY DEF Send
<1>3. CASE SendFirst(n, p)
  BY <1>1, <1>3, SendFirstOwn
<1>4. CASE \E s \in Handler(n, p) : SendOn(n, p, s) \/ SendFails(n, p, s)
  <2> HIDE DEF p
  <2> QED
    BY <1>1, <1>4, SendOnOwn, SendFailsOwn
<1> QED
  BY <1>2, <1>3, <1>4

\* A send of a node that is offline fails.
LEMMA SendOfflineOwn ==
  ASSUME OwnInv, NEW n \in Nodes, SendOffline(n)
  PROVE  OwnInv'
<1>1. TypeOK /\ UNCHANGED <<plan, up, active, streams, received, faults, sent>>
  BY DEF SendOffline, OwnInv
<1>2. TodoTyped
  BY <1>1, TodoIs DEF SendOffline
<1>3. TypeOK'
  BY <1>1, <1>2 DEF TypeOK, TodoTyped
<1>4. Calm
  BY <1>1, SameIs DEF TypeOK, Calm, Grows, StreamsOK
<1> QED
  BY <1>1, <1>3, <1>4, OwnCalm

\* Every step keeps OwnInv.
LEMMA NextOwn == OwnInv /\ [Next]_vars => OwnInv'
<1> SUFFICES ASSUME OwnInv, [Next]_vars PROVE OwnInv'
  OBVIOUS
<1>1. CASE \E n \in Nodes : Send(n) \/ SendOffline(n) \/ Accept(n)
                            \/ Disconnect(n) \/ Reconnect(n) \/ Crash(n)
  BY <1>1, SendOwn, SendOfflineOwn, AcceptOwn, DisconnectOwn, ReconnectOwn, CrashOwn
<1>2. CASE \E n \in Nodes, s \in DOMAIN streams :
             Write(s, n) \/ Receive(s, n) \/ Eof(s, n)
             \/ HeartbeatTimeout(s, n) \/ HeartbeatFails(s, n)
  BY <1>2, WriteOwn, ReceiveOwn, EndOwn
<1>3. CASE \E n \in Nodes, s \in DOMAIN streams :
             WriteCancelled(s, n) \/ ReceiveCancelled(s, n) \/ Garble(s, n)
  BY <1>3, WriteCancelledIs, ReceiveCancelledIs, GarbleIs, SpoilsOwn DEF OwnInv
<1>4. CASE UNCHANGED vars
  <2>1. TypeOK'
    BY <1>4 DEF OwnInv, TypeOK, vars
  <2>2. Calm
    BY <1>4, SameIs DEF OwnInv, TypeOK, Calm, Grows, StreamsOK, vars
  <2>3. active' = active /\ plan' = plan
    BY <1>4 DEF vars
  <2> QED
    BY <2>1, <2>2, <2>3, OwnCalm
<1> QED
  BY <1>1, <1>2, <1>3, <1>4 DEF Next

\* The handlers of a node are of its own streams, and the state is well typed: OwnInv is
\* inductive (Connection::send, Acceptor::run, Handler::run, disconnect and reconnect).
THEOREM OwnAlways == Spec => []OwnInv
<1>1. Init => OwnInv
  BY InitOwn
<1>2. OwnInv /\ [Next]_vars => OwnInv'
  BY NextOwn
<1> QED
  BY <1>1, <1>2, PTL DEF Spec

\* Whatever happens to the nodes and to their streams, a node has at most max_conns
\* handlers, one for a peer, and no task runs without the handler that would stop it
\* (add_handler_from, Handler::drop, Connection::send).
THEOREM HandlersOwnedAlways == Spec => []HandlersOwned
<1>1. OwnInv => HandlersOwned
  BY DEF OwnInv
<1> QED
  BY <1>1, OwnAlways, PTL
-----------------------------------------------------------------------------
(* What was sent on one stream *)

\* Nobody forgets what it has heard, nor is a fault undone or forgotten.
Later(h, k, f, g) ==
  /\ \A n \in Nodes : h[n] \subseteq k[n]
  /\ f.timeouts > 0 => g.timeouts > 0
  /\ f.broken > 0 => g.broken > 0
  /\ f.lost \subseteq g.lost /\ f.torn \subseteq g.torn

\* The queues of a stream
LEMMA QueuesOf ==
  ASSUME NEW x, StreamOK(x), NEW n \in {x.from, x.to}
  PROVE  /\ x.out[n] \in Seq(Message) /\ x.wire[n] \in Seq(Frames)
         /\ x.out[n] \in Seq(ToSet(x.out[n])) /\ x.wire[n] \in Seq(ToSet(x.wire[n]))
         /\ ToSet(x.out[n]) \subseteq Message /\ x.task[n] \in Tasks
<1>1. x.out \in [{x.from, x.to} -> Seq(Message)] /\ x.wire \in [{x.from, x.to} -> Seq(Frames)]
      /\ x.task \in [{x.from, x.to} -> Tasks]
  BY StreamParts
<1>2. x.out[n] \in Seq(Message) /\ x.wire[n] \in Seq(Frames) /\ x.task[n] \in Tasks
  BY <1>1
<1>3. \A q \in Seq(Message) : ToSet(q) \subseteq Message
  BY DEF ToSet
<1>. QED
  BY <1>2, <1>3, SeqOfItself

\* An empty sequence has no elements.
LEMMA ToSetEmpty == ToSet(<<>>) = {}
  BY DEF ToSet

\* A reason stays one while what was sent on the stream stays or grows at the other end.
LEMMA ReasonStays ==
  ASSUME NEW x, StreamOK(x), NEW y, Same(x, y), NEW n \in {x.from, x.to}, NEW s,
         NEW c, NEW d, NEW h, NEW k, NEW f, NEW g, Later(h, k, f, g),
         d[n] = c[n], c[OtherEnd(x, n)] \subseteq d[OtherEnd(x, n)],
         x.task[OtherEnd(x, n)] = "aborted" => y.task[OtherEnd(x, n)] = "aborted",
         n = x.to /\ x.task[x.from] # "running" => y.task[x.from] # "running",
         ReasonAt(x, s, n, c, h, f)
  PROVE  ReasonAt(y, s, n, d, k, g)
<1>1. n \in Nodes /\ OtherEnd(y, n) = OtherEnd(x, n) /\ y.to = x.to /\ y.from = x.from
  BY OtherIs DEF Same
<1>2. ToldAt(h[n], s) => ToldAt(k[n], s)
  BY <1>1 DEF ToldAt, Later
<1>. QED
  BY <1>1, <1>2 DEF ReasonAt, Later

\* A stream on which nothing happens
LEMMA AccountedStays ==
  ASSUME NEW x, StreamOK(x), NEW s, NEW c, NEW h, NEW k, NEW f, NEW g, Later(h, k, f, g),
         Accounted(x, s, c, h, f)
  PROVE  Accounted(x, s, c, k, g)
<1>. SUFFICES ASSUME NEW n \in {x.from, x.to} PROVE EndAt(x, s, n, c, k, g)
  BY DEF Accounted
<1>1. EndAt(x, s, n, c, h, f)
  BY DEF Accounted
<1>2. OtherEnd(x, n) \in Nodes
  BY OtherIs
<1>3. \A m : GotAt(h[OtherEnd(x, n)], s, m) => GotAt(k[OtherEnd(x, n)], s, m)
  BY <1>2 DEF GotAt, Later
<1>4. ReasonAt(x, s, n, c, h, f) => ReasonAt(x, s, n, c, k, g)
  BY ReasonStays, SameIs
<1>5. NothingLostAt(x, s, n, c, k, g)
  BY <1>1, <1>3 DEF EndAt, NothingLostAt, UnderwayAt, Later
<1>6. OnlySentAt(x, s, n, c, g)
  BY <1>1 DEF EndAt, OnlySentAt, TornOf, Later
<1>. QED
  BY <1>1, <1>4, <1>5, <1>6 DEF EndAt

\* An end is closed, by the task itself for a reason or because it was aborted.
LEMMA AccountedCloses ==
  ASSUME NEW x, StreamOK(x), NEW n \in {x.from, x.to}, x.task[n] \in {"running", "backlog"},
         NEW y, NEW how \in {"ended", "aborted"}, ClosedAt(x, y, n, how),
         NEW s, NEW c, NEW h, NEW k, NEW f, NEW g, Later(h, k, f, g), Accounted(x, s, c, h, f),
         how = "ended" => ReasonAt(y, s, n, c, k, g)
  PROVE  Accounted(y, s, c, k, g)
<1>. DEFINE p == OtherEnd(x, n)
<1>1. n \in Nodes /\ p \in Nodes /\ p # n /\ {x.from, x.to} = {n, p} /\ OtherEnd(x, p) = n
      /\ OtherEnd(y, n) = p /\ OtherEnd(y, p) = n
  BY OtherIs DEF ClosedAt
<1>2. y.from = x.from /\ y.to = x.to /\ Same(x, y)
  BY DEF ClosedAt, Same
<1>3. y.task[n] = how /\ y.task[p] = x.task[p] /\ y.out[n] = <<>> /\ y.out[p] = x.out[p]
      /\ y.wire[n] = <<>> /\ ToSet(y.wire[p]) \subseteq ToSet(x.wire[p])
  BY DEF ClosedAt
<1>4. EndAt(x, s, n, c, h, f) /\ EndAt(x, s, p, c, h, f)
  BY <1>1 DEF Accounted
<1>. HIDE DEF p
<1>5. EndAt(y, s, n, c, k, g)
  <2>1. BeforeAt(y, n, c) /\ NothingLostAt(y, s, n, c, k, g)
    BY <1>3 DEF BeforeAt, NothingLostAt
  <2>2. OnlySentAt(y, s, n, c, g)
    BY <1>3, ToSetEmpty DEF OnlySentAt
  <2>. QED
    BY <2>1, <2>2, <1>3 DEF EndAt
<1>6. EndAt(y, s, p, c, k, g)
  <2>1. BeforeAt(y, p, c)
    BY <1>3, <1>4 DEF BeforeAt, EndAt
  <2>2. NothingLostAt(y, s, p, c, k, g)
    BY <1>1, <1>3 DEF NothingLostAt
  <2>3. OnlySentAt(y, s, p, c, g)
    BY <1>1, <1>3, <1>4 DEF OnlySentAt, EndAt, TornOf, Later
  <2>4. ASSUME y.task[p] = "ended" PROVE ReasonAt(y, s, p, c, k, g)
    <3>1. ReasonAt(x, s, p, c, h, f)
      BY <2>4, <1>3, <1>4 DEF EndAt
    <3>2. x.task[OtherEnd(x, p)] = "aborted" => y.task[OtherEnd(x, p)] = "aborted"
      BY <1>1
    <3>3. p = x.to => y.task[x.from] # "running"
      BY <1>1, <1>3
    <3>. QED
      BY <1>1, <1>2, <3>1, <3>2, <3>3, ReasonStays
  <2>. QED
    BY <2>1, <2>2, <2>3, <2>4 DEF EndAt
<1>. QED
  BY <1>1, <1>2, <1>5, <1>6 DEF Accounted

\* A reason stays one while the tasks of the stream go on.
LEMMA ReasonSame ==
  ASSUME NEW x, StreamOK(x), NEW y, Same(x, y), y.task = x.task, NEW n \in {x.from, x.to}, NEW s,
         NEW c, NEW d, NEW h, NEW f, d[n] = c[n], c[OtherEnd(x, n)] \subseteq d[OtherEnd(x, n)],
         ReasonAt(x, s, n, c, h, f)
  PROVE  ReasonAt(y, s, n, d, h, f)
<1>1. OtherEnd(y, n) = OtherEnd(x, n)
  BY OtherIs
<1>2. y.to = x.to /\ y.from = x.from
  BY DEF Same
<1>. QED
  BY <1>1, <1>2 DEF ReasonAt

\* A message is sent on a stream whose task runs.
LEMMA AccountedSends ==
  ASSUME NEW x, StreamOK(x), NEW n \in {x.from, x.to}, x.task[n] = "running",
         NEW m \in Message, NEW y, OutAt(x, y, n, Append(x.out[n], m)),
         NEW s, NEW c, NEW d, NEW h, NEW f, Accounted(x, s, c, h, f),
         d[n] = c[n] \cup {m}, d[OtherEnd(x, n)] = c[OtherEnd(x, n)]
  PROVE  Accounted(y, s, d, h, f)
<1>. DEFINE p == OtherEnd(x, n)
<1>0. Same(x, y)
  BY DEF OutAt
<1>1. n \in Nodes /\ p \in Nodes /\ p # n /\ {x.from, x.to} = {n, p} /\ OtherEnd(x, n) = p
      /\ OtherEnd(x, p) = n /\ OtherEnd(y, n) = p /\ OtherEnd(y, p) = n
  BY <1>0, OtherIs
<1>2. y.from = x.from /\ y.to = x.to /\ Same(x, y) /\ y.task = x.task /\ y.wire = x.wire
      /\ y.out[p] = x.out[p] /\ d[p] = c[p] /\ d[n] = c[n] \cup {m}
  BY DEF OutAt, Same
<1>3. ToSet(y.out[n]) = ToSet(x.out[n]) \cup {m}
  <2>1. x.out[n] \in Seq(ToSet(x.out[n]))
    BY QueuesOf
  <2>2. y.out[n] = Append(x.out[n], m)
    BY DEF OutAt
  <2> QED
    BY <2>1, <2>2, AppendIs
<1>4. EndAt(x, s, n, c, h, f) /\ EndAt(x, s, p, c, h, f)
  BY <1>1 DEF Accounted
<1>. HIDE DEF p
<1>5. EndAt(y, s, n, d, h, f)
  <2>1. BeforeAt(y, n, d)
    BY <1>2 DEF BeforeAt
  <2>2. OnlySentAt(y, s, n, d, f)
    BY <1>1, <1>2, <1>3, <1>4 DEF OnlySentAt, EndAt
  <2>3. NothingLostAt(y, s, n, d, h, f)
    BY <1>1, <1>2, <1>3, <1>4 DEF NothingLostAt, UnderwayAt, EndAt
  <2>. QED
    BY <2>1, <2>2, <2>3, <1>2 DEF EndAt
<1>6. EndAt(y, s, p, d, h, f)
  <2>1. BeforeAt(y, p, d)
    BY <1>2, <1>4 DEF BeforeAt, EndAt
  <2>2. NothingLostAt(y, s, p, d, h, f)
    <3>1. NothingLostAt(x, s, p, c, h, f)
      BY <1>4 DEF EndAt
    <3>2. \A u : UnderwayAt(x, s, p, h, u, f) => UnderwayAt(y, s, p, h, u, f)
      BY <1>1, <1>2 DEF UnderwayAt
    <3>. QED
      BY <1>1, <1>2, <3>1, <3>2 DEF NothingLostAt
  <2>3. OnlySentAt(y, s, p, d, f)
    <3>1. OnlySentAt(x, s, p, c, f)
      BY <1>4 DEF EndAt
    <3>. QED
      BY <1>1, <1>2, <3>1 DEF OnlySentAt
  <2>4. ASSUME y.task[p] = "ended" PROVE ReasonAt(y, s, p, d, h, f)
    <3>1. ReasonAt(x, s, p, c, h, f)
      BY <2>4, <1>2, <1>4 DEF EndAt
    <3>. QED
      BY <1>1, <1>2, <3>1, ReasonSame
  <2>. QED
    BY <2>1, <2>2, <2>3, <2>4 DEF EndAt
<1>. QED
  BY <1>1, <1>2, <1>5, <1>6 DEF Accounted

\* The first of the messages that wait is written, as a frame, to the other end.
LEMMA AccountedWrites ==
  ASSUME NEW x, StreamOK(x), NEW n \in {x.from, x.to}, x.task[n] = "running", x.out[n] # <<>>,
         NEW y, WriteAt(x, y, n, Tail(x.out[n]),
                        Append(x.wire[OtherEnd(x, n)], Frame(Head(x.out[n])))),
         NEW s, NEW c, NEW h, NEW f, Accounted(x, s, c, h, f)
  PROVE  Accounted(y, s, c, h, f)
<1>. DEFINE p == OtherEnd(x, n)
<1>0. Same(x, y)
  BY DEF WriteAt
<1>1. n \in Nodes /\ p \in Nodes /\ p # n /\ {x.from, x.to} = {n, p} /\ OtherEnd(x, n) = p
      /\ OtherEnd(x, p) = n /\ OtherEnd(y, n) = p /\ OtherEnd(y, p) = n
  BY <1>0, OtherIs
<1>2. y.from = x.from /\ y.to = x.to /\ Same(x, y) /\ y.task = x.task
      /\ y.wire[n] = x.wire[n] /\ y.out[p] = x.out[p]
  BY DEF WriteAt, Same
<1>3. PICK m \in Message : m = Head(x.out[n])
  BY QueuesOf, TailIs
<1>4. m \in ToSet(x.out[n]) /\ ToSet(x.out[n]) = ToSet(y.out[n]) \cup {m}
  BY <1>3, QueuesOf, TailIs DEF WriteAt
<1>5. ToSet(y.wire[p]) = ToSet(x.wire[p]) \cup {Frame(m)}
  <2>1. x.wire[p] \in Seq(ToSet(x.wire[p]))
    BY <1>1, QueuesOf
  <2>2. y.wire[p] = Append(x.wire[p], Frame(m))
    BY <1>1, <1>3 DEF WriteAt
  <2>. QED
    BY <2>1, <2>2, AppendIs
<1>6. EndAt(x, s, n, c, h, f) /\ EndAt(x, s, p, c, h, f)
  BY <1>1 DEF Accounted
<1>. HIDE DEF p
<1>7. EndAt(y, s, n, c, h, f)
  <2>1. BeforeAt(y, n, c)
    BY <1>2, <1>6 DEF BeforeAt, EndAt
  <2>2. OnlySentAt(y, s, n, c, f)
    <3>1. OnlySentAt(x, s, n, c, f)
      BY <1>6 DEF EndAt
    <3>. QED
      BY <1>1, <1>2, <1>4, <3>1 DEF OnlySentAt
  <2>3. NothingLostAt(y, s, n, c, h, f)
    <3>1. NothingLostAt(x, s, n, c, h, f)
      BY <1>6 DEF EndAt
    <3>2. \A u : UnderwayAt(x, s, n, h, u, f) => UnderwayAt(y, s, n, h, u, f)
      BY <1>1, <1>4, <1>5 DEF UnderwayAt
    <3>. QED
      BY <1>1, <1>2, <3>1, <3>2 DEF NothingLostAt
  <2>. QED
    BY <2>1, <2>2, <2>3, <1>2 DEF EndAt
<1>8. EndAt(y, s, p, c, h, f)
  <2>1. BeforeAt(y, p, c)
    BY <1>2, <1>6 DEF BeforeAt, EndAt
  <2>2. OnlySentAt(y, s, p, c, f)
    <3>1. OnlySentAt(x, s, p, c, f) /\ OnlySentAt(x, s, n, c, f)
      BY <1>6 DEF EndAt
    <3>2. m \in c[n]
      BY <1>4, <3>1 DEF OnlySentAt
    <3>. QED
      BY <1>1, <1>2, <1>5, <3>1, <3>2 DEF OnlySentAt
  <2>3. NothingLostAt(y, s, p, c, h, f)
    <3>1. NothingLostAt(x, s, p, c, h, f)
      BY <1>6 DEF EndAt
    <3>2. \A u : UnderwayAt(x, s, p, h, u, f) => UnderwayAt(y, s, p, h, u, f)
      BY <1>1, <1>2 DEF UnderwayAt
    <3>. QED
      BY <1>1, <1>2, <3>1, <3>2 DEF NothingLostAt
  <2>4. ASSUME y.task[p] = "ended" PROVE ReasonAt(y, s, p, c, h, f)
    <3>1. ReasonAt(x, s, p, c, h, f)
      BY <2>4, <1>2, <1>6 DEF EndAt
    <3>. QED
      BY <1>1, <1>2, <3>1, ReasonSame
  <2>. QED
    BY <2>1, <2>2, <2>3, <2>4 DEF EndAt
<1>. QED
  BY <1>1, <1>2, <1>7, <1>8 DEF Accounted

\* A message is written to an end that is closed, and lost.
LEMMA AccountedLoses ==
  ASSUME NEW x, StreamOK(x), NEW n \in {x.from, x.to}, x.task[n] = "running", x.out[n] # <<>>,
         x.task[OtherEnd(x, n)] \in {"ended", "aborted"},
         NEW y, OutAt(x, y, n, Tail(x.out[n])),
         NEW s, NEW c, NEW h, NEW f, Accounted(x, s, c, h, f)
  PROVE  Accounted(y, s, c, h, f)
<1>. DEFINE p == OtherEnd(x, n)
<1>0. Same(x, y)
  BY DEF OutAt
<1>1. n \in Nodes /\ p \in Nodes /\ p # n /\ {x.from, x.to} = {n, p} /\ OtherEnd(x, n) = p
      /\ OtherEnd(x, p) = n /\ OtherEnd(y, n) = p /\ OtherEnd(y, p) = n
  BY <1>0, OtherIs
<1>2. y.from = x.from /\ y.to = x.to /\ Same(x, y) /\ y.task = x.task /\ y.wire = x.wire
      /\ y.out[p] = x.out[p] /\ x.task[p] \in {"ended", "aborted"}
  BY DEF OutAt, Same
<1>3. ToSet(y.out[n]) \subseteq ToSet(x.out[n])
  BY QueuesOf, TailIs DEF OutAt
<1>4. EndAt(x, s, n, c, h, f) /\ EndAt(x, s, p, c, h, f)
  BY <1>1 DEF Accounted
<1>. HIDE DEF p
<1>5. EndAt(y, s, n, c, h, f)
  <2>1. BeforeAt(y, n, c)
    BY <1>2, <1>4 DEF BeforeAt, EndAt
  <2>2. OnlySentAt(y, s, n, c, f)
    <3>1. OnlySentAt(x, s, n, c, f)
      BY <1>4 DEF EndAt
    <3>. QED
      BY <1>1, <1>2, <1>3, <3>1 DEF OnlySentAt
  <2>3. NothingLostAt(y, s, n, c, h, f)
    BY <1>1, <1>2 DEF NothingLostAt
  <2>. QED
    BY <2>1, <2>2, <2>3, <1>2 DEF EndAt
<1>6. EndAt(y, s, p, c, h, f)
  <2>1. BeforeAt(y, p, c)
    BY <1>2, <1>4 DEF BeforeAt, EndAt
  <2>2. OnlySentAt(y, s, p, c, f)
    <3>1. OnlySentAt(x, s, p, c, f)
      BY <1>4 DEF EndAt
    <3>. QED
      BY <1>1, <1>2, <3>1 DEF OnlySentAt
  <2>3. NothingLostAt(y, s, p, c, h, f)
    BY <1>2 DEF NothingLostAt
  <2>4. ASSUME y.task[p] = "ended" PROVE ReasonAt(y, s, p, c, h, f)
    <3>1. ReasonAt(x, s, p, c, h, f)
      BY <2>4, <1>2, <1>4 DEF EndAt
    <3>. QED
      BY <1>1, <1>2, <3>1, ReasonSame
  <2>. QED
    BY <2>1, <2>2, <2>3, <2>4 DEF EndAt
<1>. QED
  BY <1>1, <1>2, <1>5, <1>6 DEF Accounted

\* The first frame is read, and the node hears of the message of which it is the frame.
LEMMA AccountedReads ==
  ASSUME NEW x, StreamOK(x), NEW n \in {x.from, x.to}, x.task[n] = "running", x.wire[n] # <<>>,
         NEW y, WireAt(x, y, n, Tail(x.wire[n])),
         NEW s, NEW c, NEW h, NEW k, NEW f, Later(h, k, f, f), Accounted(x, s, c, h, f),
         \A u \in c[OtherEnd(x, n)] : Frame(u) = Head(x.wire[n]) => GotAt(k[n], s, u)
  PROVE  Accounted(y, s, c, k, f)
<1>. DEFINE p == OtherEnd(x, n)
<1>0. Same(x, y)
  BY DEF WireAt
<1>1. n \in Nodes /\ p \in Nodes /\ p # n /\ {x.from, x.to} = {n, p} /\ OtherEnd(x, n) = p
      /\ OtherEnd(x, p) = n /\ OtherEnd(y, n) = p /\ OtherEnd(y, p) = n
  BY <1>0, OtherIs
<1>2. y.from = x.from /\ y.to = x.to /\ Same(x, y) /\ y.task = x.task /\ y.out = x.out
      /\ y.wire[p] = x.wire[p]
  BY DEF WireAt, Same
<1>3. ToSet(x.wire[n]) = ToSet(y.wire[n]) \cup {Head(x.wire[n])}
  BY QueuesOf, TailIs DEF WireAt
<1>4. Accounted(x, s, c, k, f)
  BY AccountedStays
<1>5. EndAt(x, s, n, c, k, f) /\ EndAt(x, s, p, c, k, f)
  BY <1>1, <1>4 DEF Accounted
<1>6. \A u \in c[p] : Frame(u) = Head(x.wire[n]) => GotAt(k[n], s, u)
  OBVIOUS
<1>. HIDE DEF p
<1>8. EndAt(y, s, n, c, k, f)
  <2>1. BeforeAt(y, n, c)
    BY <1>2, <1>5 DEF BeforeAt, EndAt
  <2>2. OnlySentAt(y, s, n, c, f)
    <3>1. OnlySentAt(x, s, n, c, f)
      BY <1>5 DEF EndAt
    <3>. QED
      BY <1>1, <1>2, <1>3, <3>1 DEF OnlySentAt
  <2>3. NothingLostAt(y, s, n, c, k, f)
    <3>1. NothingLostAt(x, s, n, c, k, f)
      BY <1>5 DEF EndAt
    <3>2. \A u : UnderwayAt(x, s, n, k, u, f) => UnderwayAt(y, s, n, k, u, f)
      BY <1>1, <1>2 DEF UnderwayAt
    <3>. QED
      BY <1>1, <1>2, <3>1, <3>2 DEF NothingLostAt
  <2>. QED
    BY <2>1, <2>2, <2>3, <1>2 DEF EndAt
<1>9. EndAt(y, s, p, c, k, f)
  <2>1. BeforeAt(y, p, c)
    BY <1>2, <1>5 DEF BeforeAt, EndAt
  <2>2. OnlySentAt(y, s, p, c, f)
    <3>1. OnlySentAt(x, s, p, c, f)
      BY <1>5 DEF EndAt
    <3>. QED
      BY <1>1, <1>2, <3>1 DEF OnlySentAt
  <2>3. NothingLostAt(y, s, p, c, k, f)
    <3>1. NothingLostAt(x, s, p, c, k, f)
      BY <1>5 DEF EndAt
    <3>2. \A u \in c[p] : UnderwayAt(x, s, p, k, u, f) => UnderwayAt(y, s, p, k, u, f)
      BY <1>1, <1>2, <1>3, <1>6 DEF UnderwayAt
    <3>. QED
      BY <1>1, <1>2, <3>1, <3>2 DEF NothingLostAt
  <2>4. ASSUME y.task[p] = "ended" PROVE ReasonAt(y, s, p, c, k, f)
    <3>1. ReasonAt(x, s, p, c, k, f)
      BY <2>4, <1>2, <1>5 DEF EndAt
    <3>. QED
      BY <1>1, <1>2, <3>1, ReasonSame
  <2>. QED
    BY <2>1, <2>2, <2>3, <2>4 DEF EndAt
<1>. QED
  BY <1>1, <1>2, <1>8, <1>9 DEF Accounted

\* A branch is cancelled, or what is torn is read: what is lost is remembered.
LEMMA AccountedSpoils ==
  ASSUME NEW x, StreamOK(x), NEW y, NEW s, NEW c, NEW h, NEW k, NEW f, NEW g, Later(h, k, f, g),
         Spoilt(x, y, s, g), Accounted(x, s, c, h, f)
  PROVE  Accounted(y, s, c, k, g)
<1>1. Accounted(x, s, c, k, g)
  BY AccountedStays
<1>2. Same(x, y) /\ y.task = x.task /\ y.from = x.from /\ y.to = x.to
  BY DEF Spoilt, Same
<1>. SUFFICES ASSUME NEW n \in {x.from, x.to} PROVE EndAt(y, s, n, c, k, g)
  BY <1>2 DEF Accounted
<1>3. EndAt(x, s, n, c, k, g)
  BY <1>1 DEF Accounted
<1>. DEFINE p == OtherEnd(x, n)
<1>4. p \in {x.from, x.to} /\ OtherEnd(y, n) = p /\ OtherEnd(x, p) = n
  BY <1>2, OtherIs
<1>5. ThinAt(x, y, n) /\ SparedAt(x, y, s, n, g) /\ SparedAt(x, y, s, p, g)
  BY <1>4 DEF Spoilt
<1>. HIDE DEF p
<1>6. OnlySentAt(y, s, n, c, g)
  <2>1. ToSet(y.out[n]) \subseteq ToSet(x.out[n])
    BY <1>5, QueuesOf, TailIs DEF ThinAt
  <2>2. ToSet(y.wire[n]) \subseteq ToSet(x.wire[n]) \cup TornOf(s, g)
    BY <1>5 DEF SparedAt
  <2>3. OnlySentAt(x, s, n, c, g)
    BY <1>3 DEF EndAt
  <2>4. ToSet(x.out[n]) \subseteq c[n]
    BY <2>3 DEF OnlySentAt
  <2>5. ToSet(x.wire[n]) \subseteq {Frame(u) : u \in c[p]} \cup TornOf(s, g)
    BY <2>3 DEF OnlySentAt, p
  <2>. QED
    BY <1>4, <2>1, <2>2, <2>4, <2>5 DEF OnlySentAt
<1>7. ASSUME NEW m, UnderwayAt(x, s, n, k, m, g) PROVE UnderwayAt(y, s, n, k, m, g)
  <2>1. m \in ToSet(x.out[n]) =>
          m \in ToSet(y.out[n]) \/ <<s, n, Frame(m)>> \in g.lost \/ s \in g.torn
    BY <1>5 DEF SparedAt
  <2>2. Frame(m) \in ToSet(x.wire[p]) =>
          Frame(m) \in ToSet(y.wire[p]) \/ <<s, n, Frame(m)>> \in g.lost \/ s \in g.torn
    BY <1>4, <1>5 DEF SparedAt
  <2>3. \/ GotAt(k[p], s, m) \/ Frame(m) \in ToSet(x.wire[p]) \/ m \in ToSet(x.out[n])
        \/ <<s, n, Frame(m)>> \in g.lost \/ s \in g.torn
    BY <1>7 DEF UnderwayAt, p
  <2>. QED
    BY <1>4, <2>1, <2>2, <2>3 DEF UnderwayAt
<1>8. NothingLostAt(y, s, n, c, k, g)
  BY <1>2, <1>3, <1>4, <1>7 DEF EndAt, NothingLostAt, p
<1>9. x.task[n] = "ended" => ReasonAt(y, s, n, c, k, g)
  BY <1>2, <1>3, ReasonSame DEF EndAt
<1>. QED
  BY <1>2, <1>3, <1>6, <1>8, <1>9 DEF EndAt, BeforeAt

\* A stream is accepted: its task starts.
LEMMA AccountedAccepts ==
  ASSUME NEW x, StreamOK(x), NEW n \in {x.from, x.to}, x.task[n] = "backlog",
         NEW y, RunsAt(x, y, n),
         NEW s, NEW c, NEW h, NEW f, Accounted(x, s, c, h, f)
  PROVE  Accounted(y, s, c, h, f)
<1>. DEFINE p == OtherEnd(x, n)
<1>0. Same(x, y)
  BY DEF RunsAt
<1>1. n \in Nodes /\ p \in Nodes /\ p # n /\ {x.from, x.to} = {n, p} /\ OtherEnd(x, n) = p
      /\ OtherEnd(x, p) = n /\ OtherEnd(y, n) = p /\ OtherEnd(y, p) = n
  BY <1>0, OtherIs
<1>2. y.from = x.from /\ y.to = x.to /\ y.out = x.out /\ y.wire = x.wire
      /\ y.task[n] = "running" /\ y.task[p] = x.task[p] /\ x.task[n] = "backlog"
  BY DEF RunsAt, Same
<1>3. n = x.to /\ p = x.from /\ x.task[p] # "backlog"
  BY <1>1, StreamParts
<1>4. EndAt(x, s, n, c, h, f) /\ EndAt(x, s, p, c, h, f)
  BY <1>1 DEF Accounted
<1>. HIDE DEF p
<1>5. c[n] = {}
  BY <1>4 DEF EndAt, BeforeAt
<1>6. EndAt(y, s, n, c, h, f)
  <2>1. BeforeAt(y, n, c) /\ NothingLostAt(y, s, n, c, h, f) /\ y.task[n] # "ended"
    BY <1>2, <1>5 DEF BeforeAt, NothingLostAt
  <2>2. OnlySentAt(y, s, n, c, f)
    <3>1. OnlySentAt(x, s, n, c, f)
      BY <1>4 DEF EndAt
    <3>. QED
      BY <1>1, <1>2, <3>1 DEF OnlySentAt
  <2>. QED
    BY <2>1, <2>2 DEF EndAt
<1>7. EndAt(y, s, p, c, h, f)
  <2>1. BeforeAt(y, p, c)
    BY <1>2, <1>4 DEF BeforeAt, EndAt
  <2>2. OnlySentAt(y, s, p, c, f)
    <3>1. OnlySentAt(x, s, p, c, f)
      BY <1>4 DEF EndAt
    <3>. QED
      BY <1>1, <1>2, <3>1 DEF OnlySentAt
  <2>3. NothingLostAt(y, s, p, c, h, f)
    <3>1. NothingLostAt(x, s, p, c, h, f)
      BY <1>4 DEF EndAt
    <3>2. \A u : UnderwayAt(x, s, p, h, u, f) => UnderwayAt(y, s, p, h, u, f)
      BY <1>1, <1>2 DEF UnderwayAt
    <3>3. x.task[OtherEnd(x, p)] \notin {"ended", "aborted"}
      BY <1>1, <1>2
    <3>. QED
      BY <1>1, <1>2, <3>1, <3>2, <3>3 DEF NothingLostAt
  <2>4. ASSUME y.task[p] = "ended" PROVE ReasonAt(y, s, p, c, h, f)
    <3>1. ReasonAt(x, s, p, c, h, f)
      BY <2>4, <1>2, <1>4 DEF EndAt
    <3>2. x.task[OtherEnd(x, p)] # "aborted" /\ p # x.to
      BY <1>1, <1>2, <1>3
    <3>. QED
      BY <1>1, <3>1, <3>2 DEF ReasonAt
  <2>. QED
    BY <2>1, <2>2, <2>3, <2>4 DEF EndAt
<1>. QED
  BY <1>1, <1>2, <1>6, <1>7 DEF Accounted

\* A stream is opened, and a message sent on it.
LEMMA AccountedNew ==
  ASSUME NEW n \in Nodes, NEW p \in Nodes, n # p, NEW m \in Message, NEW x, NewAt(x, n, p, m),
         NEW s, NEW c, NEW h, NEW f, c[n] = {m}, c[p] = {}
  PROVE  Accounted(x, s, c, h, f)
<1>1. StreamOK(x) /\ x.from = n /\ x.to = p /\ OtherEnd(x, n) = p /\ OtherEnd(x, p) = n
  BY DEF NewAt, OtherEnd
<1>2. x.task[n] = "running" /\ x.task[p] = "backlog" /\ x.out[n] = <<m>> /\ x.out[p] = <<>>
      /\ x.wire[n] = <<>> /\ x.wire[p] = <<>>
  BY DEF NewAt
<1>3. ToSet(x.out[n]) = {m}
  <2>1. ToSet(<<m>>) = {m}
    BY DEF ToSet
  <2>. QED
    BY <1>2, <2>1
<1>4. ToSet(x.out[p]) = {} /\ ToSet(x.wire[n]) = {} /\ ToSet(x.wire[p]) = {}
  BY <1>2, ToSetEmpty
<1>5. EndAt(x, s, n, c, h, f)
  BY <1>1, <1>2, <1>3, <1>4 DEF EndAt, BeforeAt, OnlySentAt, NothingLostAt, UnderwayAt
<1>6. EndAt(x, s, p, c, h, f)
  BY <1>1, <1>2, <1>3, <1>4 DEF EndAt, BeforeAt, OnlySentAt, NothingLostAt
<1>. QED
  BY <1>1, <1>5, <1>6 DEF Accounted

\* A task that runs hears of the end of the stream when the other end is closed: that
\* was aborted, or it had a reason, which is one for this end, too.
LEMMA WhyEnded ==
  ASSUME NEW x, StreamOK(x), NEW n \in {x.from, x.to}, x.task[n] = "running",
         x.task[OtherEnd(x, n)] \in {"ended", "aborted"}, NEW y, ClosedAt(x, y, n, "ended"),
         NEW s, NEW c, NEW h, NEW k, NEW f, Accounted(x, s, c, h, f), ToldAt(k[n], s)
  PROVE  ReasonAt(y, s, n, c, k, f)
<1>. DEFINE p == OtherEnd(x, n)
<1>0. Same(x, y)
  BY DEF ClosedAt
<1>1. n \in Nodes /\ p \in Nodes /\ p # n /\ {x.from, x.to} = {n, p} /\ OtherEnd(x, n) = p
      /\ OtherEnd(x, p) = n /\ OtherEnd(y, n) = p
  BY <1>0, OtherIs
<1>2. y.task[p] = x.task[p] /\ x.task[p] \in {"ended", "aborted"} /\ x.task[n] = "running"
  BY DEF ClosedAt
<1>3. EndAt(x, s, p, c, h, f)
  BY <1>1 DEF Accounted
<1>. HIDE DEF p
<1>4. CASE x.task[p] = "aborted"
  BY <1>1, <1>2, <1>4 DEF ReasonAt
<1>5. CASE x.task[p] = "ended"
  <2>1. ReasonAt(x, s, p, c, h, f)
    BY <1>5, <1>3 DEF EndAt
  <2>2. x.task[OtherEnd(x, p)] # "aborted" /\ ~(p = x.to /\ x.task[x.from] # "running")
    BY <1>1, <1>2
  <2>3. f.timeouts > 0 \/ f.broken > 0 \/ s \in f.torn
        \/ (\E u \in c[p] : Unreadable(u)) \/ (\E u \in c[n] : Unreadable(u))
    BY <2>1, <2>2, <1>1 DEF ReasonAt
  <2>. QED
    BY <2>3, <1>1 DEF ReasonAt
<1>. QED
  BY <1>2, <1>4, <1>5
-----------------------------------------------------------------------------
(* What was sent and heard, step by step *)

\* What was sent stays what it was, as long as nothing is sent.
LEMMA CarriedSame == ASSUME sent' = sent PROVE \A s : Carried(s)' = Carried(s)
<1>1. \A s, n : Carries(s, n)' = Carries(s, n)
  BY DEF Carries
<1>. QED
  BY <1>1 DEF Carried

\* What was sent are messages.
LEMMA CarriedTyped ==
  ASSUME TypeOK
  PROVE  \A s : \A n \in Nodes : Carried(s)[n] = Carries(s, n) /\ Carried(s)[n] \subseteq Message
<1>. SUFFICES ASSUME NEW s, NEW n \in Nodes PROVE Carries(s, n) \subseteq Message
  BY DEF Carried
<1>1. sent[n] \in Seq([msg : Addressed, stream : Nat])
  BY DEF TypeOK
<1>2. ASSUME NEW i \in DOMAIN sent[n] PROVE sent[n][i].msg.msg \in Message
  <2>0. \A S : \A q \in Seq(S) : \A j \in DOMAIN q : q[j] \in S
    OBVIOUS
  <2>1. sent[n][i] \in [msg : Addressed, stream : Nat]
    BY <1>1, <2>0
  <2>. QED
    BY <2>1 DEF Addressed
<1>. QED
  BY <1>2 DEF Carries

\* On a stream that is not there nothing has been sent.
LEMMA CarriedNew ==
  ASSUME SentOnStreams, NEW s, s \notin DOMAIN streams
  PROVE  \A n \in Nodes : Carried(s)[n] = {}
  BY DEF SentOnStreams, Carried, Carries

\* A message is sent on the stream id.
LEMMA CarriedTaken ==
  ASSUME TypeOK, NEW n \in Nodes, todo[n] # <<>>, NEW id \in Nat, Taken(n, id)
  PROVE  /\ \A s : \A m \in Nodes : s # id \/ m # n => Carried(s)'[m] = Carried(s)[m]
         /\ Carried(id)'[n] = Carried(id)[n] \cup {Head(todo[n]).msg}
         /\ \A s : s # id => Carried(s)' = Carried(s)
<1>. DEFINE e == [msg |-> Head(todo[n]), stream |-> id]
<1>1. sent'[n] = Append(sent[n], e) /\ \A m \in Nodes \ {n} : sent'[m] = sent[m]
  BY TakenIs
<1>2. e.stream = id /\ e.msg.msg = Head(todo[n]).msg
  OBVIOUS
<1>. HIDE DEF e
<1>3. PICK q : q = sent[n] /\ q \in Seq(ToSet(q))
  <2>1. sent[n] \in Seq([msg : Addressed, stream : Nat])
    BY DEF TypeOK
  <2>. QED
    BY <2>1, SeqOfItself
<1>4. PICK r : r = sent'[n] /\ r = Append(q, e)
  BY <1>1, <1>3
<1>5. /\ DOMAIN r = DOMAIN q \cup {Len(q) + 1} /\ r[Len(q) + 1] = e
      /\ \A i \in DOMAIN q : r[i] = q[i]
  BY <1>3, <1>4, AppendIs
<1>6. \A s : Carries(s, n) = {q[i].msg.msg : i \in {j \in DOMAIN q : q[j].stream = s}}
  BY <1>3 DEF Carries
<1>7. \A s : Carries(s, n)' = {r[i].msg.msg : i \in {j \in DOMAIN r : r[j].stream = s}}
  BY <1>4 DEF Carries
<1>8. Carries(id, n)' = Carries(id, n) \cup {Head(todo[n]).msg}
  BY <1>2, <1>5, <1>6, <1>7
<1>9. ASSUME NEW s, s # id PROVE Carries(s, n)' = Carries(s, n)
  <2>1. \A j \in DOMAIN r : r[j].stream = s <=> j \in DOMAIN q /\ q[j].stream = s
    BY <1>2, <1>5, <1>9
  <2>2. {j \in DOMAIN r : r[j].stream = s} = {j \in DOMAIN q : q[j].stream = s}
    BY <1>5, <2>1
  <2>3. \A j \in DOMAIN q : r[j].msg.msg = q[j].msg.msg
    BY <1>5
  <2>4. PICK D : D = {j \in DOMAIN q : q[j].stream = s} /\ D = {j \in DOMAIN r : r[j].stream = s}
    BY <2>2
  <2>5. Carries(s, n) = {q[i].msg.msg : i \in D} /\ Carries(s, n)' = {r[i].msg.msg : i \in D}
    BY <1>6, <1>7, <2>4
  <2>6. \A j \in D : r[j].msg.msg = q[j].msg.msg
    BY <2>3, <2>4
  <2>. QED
    BY <2>5, <2>6
<1>10. \A s : \A m \in Nodes \ {n} : Carries(s, m)' = Carries(s, m)
  BY <1>1 DEF Carries
<1>11. \A s : \A m \in Nodes : Carried(s)[m] = Carries(s, m) /\ Carried(s)'[m] = Carries(s, m)'
  BY DEF Carried
<1>12. \A s : s # id => \A m \in Nodes : Carries(s, m)' = Carries(s, m)
  BY <1>9, <1>10
<1>13. \A s : s # id => Carried(s)' = Carried(s)
  BY <1>12 DEF Carried
<1>. QED
  BY <1>8, <1>9, <1>10, <1>11, <1>13

\* Nothing is heard, or something more.
LEMMA HeardSame == ASSUME received' = received PROVE Heard' = Heard
  BY DEF Heard

\* A node that is told something has heard it, and nothing is forgotten.
LEMMA HeardMore ==
  ASSUME TypeOK, NEW n \in Nodes, NEW e, Event(n, e)
  PROVE  e \in Heard'[n] /\ \A m \in Nodes : Heard[m] \subseteq Heard'[m]
  BY EventIs DEF Heard

\* Messages stay sent on streams, and nodes with streams to accept listen.
LEMMA SentStays ==
  ASSUME SentOnStreams, Grows, sent' = sent
  PROVE  SentOnStreams'
  BY DEF SentOnStreams, Grows, Ends, Same

\* No stream waits at a node that does not listen.
LEMMA ListensCalm ==
  ASSUME BacklogListens, Calm, TypeOK,
         \A n \in Nodes : up[n] = "connected" /\ Backlog(n)' # {} => up'[n] = "connected"
  PROVE  BacklogListens'
<1>1. ASSUME NEW n \in Nodes, Backlog(n)' # {} PROVE Backlog(n) # {}
  <2>1. PICK s \in DOMAIN streams' : streams'[s].to = n /\ streams'[s].task[n] = "backlog"
    BY <1>1 DEF Backlog
  <2>2. s \in DOMAIN streams /\ streams[s].to = n /\ n \in Ends(s)
    BY <2>1 DEF Calm, Grows, Same, Ends
  <2>3. streams[s].task[n] = "backlog"
    BY <2>1, <2>2 DEF Calm
  <2>. QED
    BY <2>2, <2>3 DEF Backlog
<1>. QED
  BY <1>1 DEF BacklogListens

\* What a task does to its stream leaves the other streams as they are.
LEMMA TaskDelivery ==
  ASSUME OwnInv, DeliveryInv, NEW s \in DOMAIN streams, Calm, OneStream(s), up' = up, sent' = sent,
         Later(Heard, Heard', faults, faults'),
         Accounted(streams'[s], s, Carried(s), Heard', faults')
  PROVE  DeliveryInv'
<1>1. SentOnStreams'
  BY SentStays DEF DeliveryInv, Calm
<1>2. BacklogListens'
  BY ListensCalm DEF DeliveryInv, OwnInv
<1>3. ASSUME NEW t \in DOMAIN streams' PROVE Accounted(streams'[t], t, Carried(t)', Heard', faults')
  <2>1. Carried(t)' = Carried(t)
    BY CarriedSame
  <2>2. CASE t = s
    BY <2>1, <2>2
  <2>3. CASE t # s
    <3>1. t \in DOMAIN streams /\ streams'[t] = streams[t]
      BY <2>3 DEF OneStream
    <3>2. StreamOK(streams[t])
      BY <3>1 DEF OwnInv, TypeOK
    <3>3. Accounted(streams[t], t, Carried(t), Heard, faults)
      BY <3>1 DEF DeliveryInv
    <3>4. Accounted(streams[t], t, Carried(t), Heard', faults')
      BY <3>2, <3>3, AccountedStays
    <3>. QED
      BY <2>1, <3>1, <3>4
  <2>. QED
    BY <2>2, <2>3
<1>. QED
  BY <1>1, <1>2, <1>3 DEF DeliveryInv

\* Nothing is sent, heard or done to a stream.
LEMMA IdleDelivery ==
  ASSUME OwnInv, DeliveryInv, streams' = streams, sent' = sent, received' = received,
         faults' = faults, \A n \in Nodes : up[n] = "connected" => up'[n] = "connected"
  PROVE  DeliveryInv'
<1>1. \A s, n : Carries(s, n)' = Carries(s, n)
  BY DEF Carries
<1>2. \A s : Carried(s)' = Carried(s)
  BY CarriedSame
<1>3. SentOnStreams' /\ BacklogListens'
  BY DEF DeliveryInv, SentOnStreams, BacklogListens, Backlog, Ends
<1>4. \A s \in DOMAIN streams : Accounted(streams[s], s, Carried(s), Heard, faults)
  BY DEF DeliveryInv
<1>5. \A s \in DOMAIN streams' : Accounted(streams'[s], s, Carried(s)', Heard', faults')
  BY <1>2, <1>4, HeardSame
<1>. QED
  BY <1>3, <1>5 DEF DeliveryInv

\* What is read of a frame is the message, or the message was unreadable.
LEMMA ReadBack ==
  ASSUME NEW m \in Message
  PROVE  /\ Unframe(Frame(m)).kind = "ok" => Unframe(Frame(m)).value = m
         /\ Unframe(Frame(m)).kind # "ok" => Unreadable(m)
<1>1. \A got : got = Parsed(m) => got.kind = "ok" /\ got.value = m
  BY DEF Parsed
<1>. QED
  BY <1>1, ReadsWhatIsWritten

\* At an end of a stream: its queues, and what it and the other one have sent
LEMMA EndFacts ==
  ASSUME OwnInv, DeliveryInv, NEW s \in DOMAIN streams, NEW n \in Ends(s)
  PROVE  /\ StreamOK(streams[s]) /\ n \in {streams[s].from, streams[s].to} /\ n \in Nodes
         /\ Accounted(streams[s], s, Carried(s), Heard, faults)
         /\ Peer(s, n) = OtherEnd(streams[s], n) /\ Peer(s, n) \in Nodes
         /\ OnlySentAt(streams[s], s, n, Carried(s), faults) /\ Carried(s)[Peer(s, n)] \subseteq Message
<1>1. StreamOK(streams[s]) /\ n \in {streams[s].from, streams[s].to}
  BY DEF OwnInv, TypeOK, Ends
<1>2. Accounted(streams[s], s, Carried(s), Heard, faults)
  BY DEF DeliveryInv
<1>3. Peer(s, n) = OtherEnd(streams[s], n)
  BY DEF Peer
<1>4. n \in Nodes /\ Peer(s, n) \in Nodes
  BY <1>1, <1>3, OtherIs
<1>5. OnlySentAt(streams[s], s, n, Carried(s), faults)
  BY <1>1, <1>2 DEF Accounted, EndAt
<1>6. Carried(s)[Peer(s, n)] \subseteq Message
  BY <1>4, CarriedTyped DEF OwnInv
<1>. QED
  BY <1>1, <1>2, <1>3, <1>4, <1>5, <1>6

\* Without a fault, what was heard before is what is heard later.
LEMMA LaterNow ==
  ASSUME \A n \in Nodes : Heard[n] \subseteq Heard'[n], faults' = faults
  PROVE  Later(Heard, Heard', faults, faults')
  BY DEF Later

\* A node is told that the connection is lost.
LEMMA IsTold ==
  ASSUME TypeOK, NEW n \in Nodes, NEW s, NEW p, Event(n, LostWith(s, p))
  PROVE  ToldAt(Heard'[n], s) /\ \A m \in Nodes : Heard[m] \subseteq Heard'[m]
<1>. DEFINE e == LostWith(s, p)
<1>1. e.type = "lost" /\ e.stream = s
  BY DEF LostWith
<1>. HIDE DEF e
<1>2. e \in Heard'[n] /\ \A m \in Nodes : Heard[m] \subseteq Heard'[m]
  BY HeardMore DEF e
<1>. QED
  BY <1>1, <1>2 DEF ToldAt

\* A task that ends for a reason.
LEMMA EndsDelivery ==
  ASSUME OwnInv, DeliveryInv, NEW s \in DOMAIN streams, NEW n \in Ends(s),
         streams[s].task[n] \in {"running", "backlog"}, TaskEnds(s, n),
         up' = up, sent' = sent, Later(Heard, Heard', faults, faults'),
         ReasonAt(streams'[s], s, n, Carried(s), Heard', faults')
  PROVE  DeliveryInv'
<1>1. Calm /\ OneStream(s) /\ ClosedAt(streams[s], streams'[s], n, "ended")
  BY TaskEndsIs DEF OwnInv
<1>2. StreamOK(streams[s]) /\ n \in {streams[s].from, streams[s].to}
      /\ Accounted(streams[s], s, Carried(s), Heard, faults)
  BY EndFacts
<1>. DEFINE x == streams[s]
            y == streams'[s]
<1>3. /\ StreamOK(x) /\ n \in {x.from, x.to} /\ x.task[n] \in {"running", "backlog"}
      /\ ClosedAt(x, y, n, "ended") /\ Accounted(x, s, Carried(s), Heard, faults)
      /\ ReasonAt(y, s, n, Carried(s), Heard', faults')
  BY <1>1, <1>2
<1>. HIDE DEF x, y
<1>4. Accounted(y, s, Carried(s), Heard', faults')
  BY <1>3, AccountedCloses
<1>5. Accounted(streams'[s], s, Carried(s), Heard', faults')
  BY <1>4 DEF y
<1>. QED
  BY <1>1, <1>5, TaskDelivery

\* A task that hears of the end of the stream.
LEMMA EofDelivery ==
  ASSUME OwnInv, DeliveryInv, NEW s \in DOMAIN streams, NEW n \in Ends(s),
         streams[s].task[n] = "running", Gone(s, n), HangUp(s, n),
         up' = up, sent' = sent, faults' = faults
  PROVE  DeliveryInv'
<1>1. Calm /\ OneStream(s) /\ ClosedAt(streams[s], streams'[s], n, "ended") /\ TaskEnds(s, n)
  BY TaskEndsIs DEF OwnInv, HangUp
<1>2. StreamOK(streams[s]) /\ n \in {streams[s].from, streams[s].to} /\ n \in Nodes
      /\ Accounted(streams[s], s, Carried(s), Heard, faults)
      /\ Peer(s, n) = OtherEnd(streams[s], n)
  BY EndFacts
<1>3. ToldAt(Heard'[n], s) /\ \A m \in Nodes : Heard[m] \subseteq Heard'[m]
  BY <1>2, IsTold DEF OwnInv, HangUp
<1>. DEFINE x == streams[s]
            y == streams'[s]
<1>4. /\ StreamOK(x) /\ n \in {x.from, x.to} /\ x.task[n] = "running"
      /\ x.task[OtherEnd(x, n)] \in {"ended", "aborted"}
      /\ ClosedAt(x, y, n, "ended") /\ Accounted(x, s, Carried(s), Heard, faults)
  BY <1>1, <1>2 DEF Gone
<1>. HIDE DEF x, y
<1>5. ReasonAt(y, s, n, Carried(s), Heard', faults)
  BY <1>3, <1>4, WhyEnded
<1>6. ReasonAt(streams'[s], s, n, Carried(s), Heard', faults')
  BY <1>5 DEF y
<1>. QED
  BY <1>1, <1>3, <1>6, LaterNow, EndsDelivery

\* A frame is written, or lost because the other end is gone.
LEMMA WriteDelivery ==
  ASSUME OwnInv, DeliveryInv, NEW n \in Nodes, NEW s, Write(s, n)
  PROVE  DeliveryInv'
<1>1. /\ TypeOK /\ s \in DOMAIN streams /\ n \in Ends(s) /\ streams[s].out[n] # <<>>
      /\ streams[s].task[n] = "running"
      /\ UNCHANGED <<plan, todo, up, active, faults, sent>>
  BY RunsEnds DEF Write, Runs, OwnInv
<1>2. StreamOK(streams[s]) /\ n \in {streams[s].from, streams[s].to} /\ n \in Nodes
      /\ Accounted(streams[s], s, Carried(s), Heard, faults)
      /\ Peer(s, n) = OtherEnd(streams[s], n)
  BY <1>1, EndFacts
<1>. DEFINE x == streams[s]
            y == streams'[s]
<1>3. /\ StreamOK(x) /\ n \in {x.from, x.to} /\ x.task[n] = "running" /\ x.out[n] # <<>>
      /\ Accounted(x, s, Carried(s), Heard, faults)
  BY <1>1, <1>2
<1>4. CASE streams' = [streams EXCEPT ![s].out[n] = Tail(@),
                         ![s].wire[Peer(s, n)] = Append(@, Frame(Head(streams[s].out[n])))]
           /\ UNCHANGED received
  <2>1. Calm /\ OneStream(s)
        /\ WriteAt(x, y, n, Tail(x.out[n]), Append(x.wire[OtherEnd(x, n)], Frame(Head(x.out[n]))))
    BY <1>1, <1>2, <1>4, WrittenIs
  <2>. HIDE DEF x, y
  <2>2. Accounted(y, s, Carried(s), Heard, faults)
    BY <1>3, <2>1, AccountedWrites
  <2>3. Accounted(streams'[s], s, Carried(s), Heard', faults')
    BY <1>1, <1>4, <2>2, HeardSame DEF y
  <2>. QED
    BY <1>1, <1>4, <2>1, <2>3, HeardSame, LaterNow, TaskDelivery
<1>5. CASE Gone(s, n) /\ streams' = [streams EXCEPT ![s].out[n] = Tail(@)] /\ UNCHANGED received
  <2>1. Calm /\ OneStream(s) /\ OutAt(x, y, n, Tail(x.out[n]))
    BY <1>1, <1>5, LostIs
  <2>2. x.task[OtherEnd(x, n)] \in {"ended", "aborted"}
    BY <1>2, <1>5 DEF Gone
  <2>. HIDE DEF x, y
  <2>3. Accounted(y, s, Carried(s), Heard, faults)
    BY <1>3, <2>1, <2>2, AccountedLoses
  <2>4. Accounted(streams'[s], s, Carried(s), Heard', faults')
    BY <1>1, <1>5, <2>3, HeardSame DEF y
  <2>. QED
    BY <1>1, <1>5, <2>1, <2>4, HeardSame, LaterNow, TaskDelivery
<1>6. CASE Gone(s, n) /\ TaskEnds(s, n) /\ Event(n, LostWith(s, Peer(s, n)))
  BY <1>1, <1>6, EofDelivery DEF HangUp
<1>. QED
  BY <1>4, <1>5, <1>6 DEF Write

\* A frame is read, and its message is received; or it is none, and the task ends.
LEMMA ReceiveDelivery ==
  ASSUME OwnInv, DeliveryInv, NEW n \in Nodes, NEW s, Receive(s, n)
  PROVE  DeliveryInv'
<1>. DEFINE x == streams[s]
            y == streams'[s]
            got == Unframe(Head(streams[s].wire[n]))
            e == [type |-> "message", stream |-> s, from |-> Peer(s, n), msg |-> got.value]
<1>1. /\ TypeOK /\ s \in DOMAIN streams /\ n \in Ends(s) /\ streams[s].wire[n] # <<>>
      /\ streams[s].task[n] = "running"
      /\ UNCHANGED <<plan, todo, up, active, faults, sent>>
  BY RunsEnds DEF Receive, Runs, OwnInv
<1>2. \/ got.kind = "ok" /\ streams' = [streams EXCEPT ![s].wire[n] = Tail(@)] /\ Event(n, e)
      \/ got.kind # "ok" /\ TaskEnds(s, n) /\ UNCHANGED received
  BY DEF Receive
<1>3. StreamOK(streams[s]) /\ n \in {streams[s].from, streams[s].to} /\ n \in Nodes
      /\ Accounted(streams[s], s, Carried(s), Heard, faults)
      /\ OnlySentAt(streams[s], s, n, Carried(s), faults) /\ Carried(s)[OtherEnd(streams[s], n)] \subseteq Message
  BY <1>1, EndFacts
<1>4. /\ StreamOK(x) /\ n \in {x.from, x.to} /\ x.task[n] = "running" /\ x.wire[n] # <<>>
      /\ Accounted(x, s, Carried(s), Heard, faults) /\ OnlySentAt(x, s, n, Carried(s), faults)
      /\ Carried(s)[OtherEnd(x, n)] \subseteq Message
  BY <1>1, <1>3
<1>5. e.type = "message" /\ e.stream = s /\ e.msg = got.value
  OBVIOUS
<1>. HIDE DEF e
<1>6. ASSUME got.kind = "ok", streams' = [streams EXCEPT ![s].wire[n] = Tail(@)], Event(n, e)
      PROVE  DeliveryInv'
  <2>1. Calm /\ OneStream(s) /\ WireAt(x, y, n, Tail(x.wire[n]))
    BY <1>1, <1>6, ReadIs
  <2>2. e \in Heard'[n] /\ \A m \in Nodes : Heard[m] \subseteq Heard'[m]
    BY <1>1, <1>6, HeardMore
  <2>3. \A u \in Carried(s)[OtherEnd(x, n)] : Frame(u) = Head(x.wire[n]) => GotAt(Heard'[n], s, u)
    <3>. SUFFICES ASSUME NEW u \in Carried(s)[OtherEnd(x, n)], Frame(u) = Head(x.wire[n])
                  PROVE  GotAt(Heard'[n], s, u)
      OBVIOUS
    <3>1. got = Unframe(Frame(u)) /\ u \in Message
      BY <1>4
    <3>2. got.value = u
      BY <1>6, <3>1, ReadBack
    <3>. QED
      BY <1>5, <2>2, <3>2 DEF GotAt
  <2>4. Later(Heard, Heard', faults, faults)
    BY <2>2 DEF Later
  <2>. HIDE DEF x, y
  <2>5. Accounted(y, s, Carried(s), Heard', faults)
    BY <1>4, <2>1, <2>3, <2>4, AccountedReads
  <2>6. Accounted(streams'[s], s, Carried(s), Heard', faults')
    BY <1>1, <2>5 DEF y
  <2>. QED
    BY <1>1, <2>1, <2>2, <2>6, LaterNow, TaskDelivery
<1>7. ASSUME got.kind # "ok", TaskEnds(s, n), UNCHANGED received
      PROVE  DeliveryInv'
  <2>1. Head(x.wire[n]) \in ToSet(x.wire[n])
    <3>1. x.wire[n] \in Seq(Frames)
      BY <1>4, QueuesOf
    <3>. QED
      BY <1>4, <3>1, TailIs
  <2>2. s \in faults.torn \/ \E u \in Carried(s)[OtherEnd(x, n)] : Head(x.wire[n]) = Frame(u)
    BY <1>4, <2>1 DEF OnlySentAt, TornOf
  <2>3. s \in faults.torn \/ \E u \in Carried(s)[OtherEnd(x, n)] : Unreadable(u)
    <3>. SUFFICES ASSUME NEW u \in Carried(s)[OtherEnd(x, n)], Head(x.wire[n]) = Frame(u)
                  PROVE  Unreadable(u)
      BY <2>2
    <3>1. got = Unframe(Frame(u)) /\ u \in Message
      BY <1>4
    <3>. QED
      BY <1>7, <3>1, ReadBack
  <2>4. Same(x, y)
    BY <1>1, <1>7, TaskEndsIs DEF ClosedAt
  <2>. HIDE DEF x, y, got
  <2>5. OtherEnd(y, n) = OtherEnd(x, n)
    BY <1>4, <2>4, OtherIs
  <2>6. ReasonAt(y, s, n, Carried(s), Heard', faults')
    BY <1>1, <2>3, <2>5 DEF ReasonAt
  <2>7. ReasonAt(streams'[s], s, n, Carried(s), Heard', faults')
    BY <2>6 DEF y
  <2>. QED
    BY <1>1, <1>7, <2>7, HeardSame, LaterNow, EndsDelivery
<1>. QED
  BY <1>2, <1>6, <1>7

\* A task that ends because of the end of the stream or of a heartbeat
LEMMA EndDelivery ==
  ASSUME OwnInv, DeliveryInv, NEW n \in Nodes, NEW s,
         Eof(s, n) \/ HeartbeatTimeout(s, n) \/ HeartbeatFails(s, n)
  PROVE  DeliveryInv'
<1>1. /\ TypeOK /\ s \in DOMAIN streams /\ n \in Ends(s) /\ TaskEnds(s, n)
      /\ streams[s].task[n] = "running" /\ up' = up /\ sent' = sent
  BY RunsEnds DEF Eof, HeartbeatTimeout, HeartbeatFails, HangUp, Runs, OwnInv
<1>2. faults \in FaultsType
  BY <1>1 DEF TypeOK
<1>3. CASE Eof(s, n)
  BY <1>1, <1>3, EofDelivery DEF Eof
<1>4. CASE HeartbeatTimeout(s, n)
  <2>1. ToldAt(Heard'[n], s) /\ \A m \in Nodes : Heard[m] \subseteq Heard'[m]
    BY <1>1, <1>4, IsTold DEF HeartbeatTimeout, HangUp
  <2>2. /\ faults'.timeouts > 0 /\ faults'.broken = faults.broken
        /\ faults'.lost = faults.lost /\ faults'.torn = faults.torn
    BY <1>2, <1>4 DEF HeartbeatTimeout, FaultsType
  <2>3. Later(Heard, Heard', faults, faults')
    BY <2>1, <2>2 DEF Later
  <2>4. ReasonAt(streams'[s], s, n, Carried(s), Heard', faults')
    BY <2>1, <2>2 DEF ReasonAt
  <2>. QED
    BY <1>1, <2>3, <2>4, EndsDelivery
<1>5. CASE HeartbeatFails(s, n)
  <2>1. /\ faults'.broken > 0 /\ faults'.timeouts = faults.timeouts
        /\ faults'.lost = faults.lost /\ faults'.torn = faults.torn
    BY <1>2, <1>5 DEF HeartbeatFails, FaultsType
  <2>2. Heard' = Heard
    BY <1>5, HeardSame DEF HeartbeatFails
  <2>3. Later(Heard, Heard', faults, faults')
    BY <2>1, <2>2 DEF Later
  <2>4. ReasonAt(streams'[s], s, n, Carried(s), Heard', faults')
    BY <2>1 DEF ReasonAt
  <2>. QED
    BY <1>1, <2>3, <2>4, EndsDelivery
<1>. QED
  BY <1>3, <1>4, <1>5

\* What is torn lies on a stream that is known to be torn.
LEMMA GarbledTorn ==
  ASSUME OwnInv, DeliveryInv, NEW n \in Nodes, NEW s, Garble(s, n)
  PROVE  s \in faults.torn
<1>. DEFINE x == streams[s]
<1>1. /\ s \in DOMAIN streams /\ n \in Ends(s) /\ x.wire[n] # <<>> /\ Head(x.wire[n]) = Torn
  BY RunsEnds, GarbleIs DEF Garble, OwnInv
<1>2. /\ StreamOK(x) /\ n \in {x.from, x.to} /\ OnlySentAt(x, s, n, Carried(s), faults)
      /\ Carried(s)[OtherEnd(x, n)] \subseteq Message
  BY <1>1, EndFacts
<1>3. x.wire[n] \in Seq(Frames)
  BY <1>2, QueuesOf
<1>4. Torn \in ToSet(x.wire[n])
  BY <1>1, <1>3, TailIs
<1>5. \A u \in Carried(s)[OtherEnd(x, n)] : Frame(u) # Torn
  BY <1>2, TornIs
<1>6. Torn \in {Frame(u) : u \in Carried(s)[OtherEnd(x, n)]} \cup TornOf(s, faults)
  BY <1>2, <1>4 DEF OnlySentAt
<1>. QED
  BY <1>5, <1>6 DEF TornOf

\* A branch is cancelled, or what is read of a stream that is torn is garbled.
LEMMA SpoilsDelivery ==
  ASSUME OwnInv, DeliveryInv, NEW n \in Nodes, NEW s,
         WriteCancelled(s, n) \/ ReceiveCancelled(s, n) \/ Garble(s, n)
  PROVE  DeliveryInv'
<1>1. Spoils(s, n) /\ Spoilt(streams[s], streams'[s], s, faults')
  <2>1. CASE WriteCancelled(s, n) \/ ReceiveCancelled(s, n)
    BY <2>1, WriteCancelledIs, ReceiveCancelledIs DEF OwnInv
  <2>2. CASE Garble(s, n)
    BY <2>2, GarbleIs, GarbledTorn DEF OwnInv
  <2>. QED
    BY <2>1, <2>2
<1>2. s \in DOMAIN streams /\ n \in Ends(s) /\ TypeOK
  BY <1>1 DEF Spoils, OwnInv
<1>3. \A m \in Nodes : Heard[m] \subseteq Heard'[m]
  BY <1>1, <1>2, HeardMore, HeardSame DEF Spoils
<1>4. Later(Heard, Heard', faults, faults')
  BY <1>1, <1>3 DEF Spoils, Later
<1>5. StreamOK(streams[s]) /\ Accounted(streams[s], s, Carried(s), Heard, faults)
  BY <1>2, EndFacts
<1>6. Accounted(streams'[s], s, Carried(s), Heard', faults')
  BY <1>1, <1>4, <1>5, AccountedSpoils
<1>. QED
  BY <1>1, <1>2, <1>4, <1>6, TaskDelivery DEF Spoils

\* Some ends are aborted, the tasks of which ran or were yet to start.
LEMMA ClosesAccounted ==
  ASSUME NEW all, StreamsOK(all), NEW n, NEW ids \in SUBSET DOMAIN all,
         \A s \in ids : n \in {all[s].from, all[s].to} /\ all[s].task[n] \in {"running", "backlog"},
         ClosesAll(all, streams', n, ids, "aborted"), Later(Heard, Heard', faults, faults'),
         \A s \in DOMAIN all : Accounted(all[s], s, Carried(s)', Heard, faults)
  PROVE  \A s \in DOMAIN streams' : Accounted(streams'[s], s, Carried(s)', Heard', faults')
<1>. SUFFICES ASSUME NEW s \in DOMAIN all PROVE Accounted(streams'[s], s, Carried(s)', Heard', faults')
  BY DEF ClosesAll
<1>. DEFINE x == all[s]
            y == streams'[s]
<1>1. StreamOK(x) /\ Accounted(x, s, Carried(s)', Heard, faults)
  BY DEF StreamsOK
<1>2. CASE s \in ids
  <2>1. n \in {x.from, x.to} /\ x.task[n] \in {"running", "backlog"} /\ ClosedAt(x, y, n, "aborted")
    BY <1>2 DEF ClosesAll
  <2>. HIDE DEF x, y
  <2>2. Accounted(y, s, Carried(s)', Heard', faults')
    BY <1>1, <2>1, AccountedCloses
  <2>. QED
    BY <2>2 DEF y
<1>3. CASE s \notin ids
  <2>1. y = x
    BY <1>3 DEF ClosesAll
  <2>2. Accounted(x, s, Carried(s)', Heard', faults')
    <3>. HIDE DEF x, y
    <3>. QED
      BY <1>1, AccountedStays
  <2>. QED
    BY <2>1, <2>2
<1>. QED
  BY <1>2, <1>3

\* When an end is closed none becomes one that is yet to be accepted.
LEMMA ClosesBacklog ==
  ASSUME NEW all, StreamsOK(all), NEW n, NEW ids \in SUBSET DOMAIN all,
         \A s \in ids : n \in {all[s].from, all[s].to}, ClosesAll(all, streams', n, ids, "aborted")
  PROVE  \A s \in DOMAIN all : \A m \in {all[s].from, all[s].to} :
           streams'[s].task[m] = "backlog" => all[s].task[m] = "backlog"
<1>. SUFFICES ASSUME NEW s \in DOMAIN all, NEW m \in {all[s].from, all[s].to},
                     streams'[s].task[m] = "backlog"
              PROVE  all[s].task[m] = "backlog"
  OBVIOUS
<1>1. CASE s \notin ids
  BY <1>1 DEF ClosesAll
<1>2. CASE s \in ids
  <2>1. ClosedAt(all[s], streams'[s], n, "aborted") /\ n \in {all[s].from, all[s].to}
    BY <1>2 DEF ClosesAll
  <2>2. m = n \/ m = OtherEnd(all[s], n)
    BY <2>1 DEF OtherEnd
  <2>. QED
    BY <2>1, <2>2 DEF ClosedAt
<1>. QED
  BY <1>1, <1>2

\* A handler is added for the stream id, which is not among those that are dropped.
LEMMA AddsDelivery ==
  ASSUME OwnInv, DeliveryInv, NEW n \in Nodes, NEW id, NEW p, NEW all, StreamsOK(all),
         NEW dropped \in SUBSET ToSet(active[n]), Adds(n, id, p, all, dropped),
         id \notin ToSet(active[n]), DOMAIN all = DOMAIN streams \cup {id},
         \A s \in DOMAIN streams \ {id} : all[s] = streams[s],
         id \in DOMAIN streams => Same(streams[id], all[id]),
         all[id].task[all[id].to] = "backlog" => up[all[id].to] = "connected",
         up' = up, received' = received, faults' = faults,
         \A s \in DOMAIN all : Accounted(all[s], s, Carried(s)', Heard, faults),
         \A m \in Nodes : \A i \in DOMAIN sent'[m] :
           LET s == sent'[m][i].stream
           IN  \/ s \in DOMAIN streams /\ m \in Ends(s)
               \/ s = id /\ m \in {all[id].from, all[id].to}
  PROVE  DeliveryInv'
<1>. DEFINE ids == {s \in dropped : streams[s].task[n] = "running"}
<1>1. \A s \in DOMAIN all : StreamOK(all[s])
  BY DEF StreamsOK
<1>2. /\ \A s \in ids : /\ s \in DOMAIN streams /\ n \in Ends(s) /\ s # id
                        /\ n \in {all[s].from, all[s].to} /\ all[s].task[n] \in {"running", "backlog"}
      /\ ids \in SUBSET DOMAIN all
  BY DEF OwnInv, HandlersOpen, Ends
<1>3. ClosesAll(all, streams', n, ids, "aborted")
  BY DEF Adds
<1>. HIDE DEF ids
<1>4. \A s \in DOMAIN all : Same(all[s], streams'[s])
  BY <1>2, <1>3, ClosesGrows
<1>5. DOMAIN streams' = DOMAIN all
  BY <1>3 DEF ClosesAll
<1>6. Later(Heard, Heard', faults, faults')
  BY HeardSame DEF Later
<1>7. \A s \in DOMAIN streams' : Accounted(streams'[s], s, Carried(s)', Heard', faults')
  BY <1>2, <1>3, <1>6, ClosesAccounted
<1>8. SentOnStreams'
  <2>. SUFFICES ASSUME NEW m \in Nodes, NEW i \in DOMAIN sent'[m]
                PROVE  sent'[m][i].stream \in DOMAIN streams' /\ m \in Ends(sent[m][i].stream)'
    BY DEF SentOnStreams
  <2>1. PICK s : s = sent'[m][i].stream
    OBVIOUS
  <2>2. \/ s \in DOMAIN streams /\ m \in Ends(s)
        \/ s = id /\ m \in {all[id].from, all[id].to}
    BY <2>1
  <2>3. s \in DOMAIN all /\ m \in {all[s].from, all[s].to}
    BY <2>2 DEF Ends, Same
  <2>4. m \in Ends(s)'
    BY <1>4, <2>3 DEF Ends, Same
  <2>. QED
    BY <1>5, <2>1, <2>3, <2>4
<1>9. BacklogListens'
  <2>. SUFFICES ASSUME NEW m \in Nodes, Backlog(m)' # {} PROVE up'[m] = "connected"
    BY DEF BacklogListens
  <2>1. PICK s \in DOMAIN streams' : streams'[s].to = m /\ streams'[s].task[m] = "backlog"
    BY DEF Backlog
  <2>2. s \in DOMAIN all /\ all[s].to = m
    BY <1>4, <1>5, <2>1 DEF Same
  <2>3. all[s].task[m] = "backlog"
    BY <1>2, <1>3, <2>1, <2>2, ClosesBacklog
  <2>4. CASE s = id
    BY <2>2, <2>3, <2>4
  <2>5. CASE s # id
    <3>1. s \in Backlog(m)
      BY <2>2, <2>3, <2>5 DEF Backlog
    <3>. QED
      BY <3>1 DEF DeliveryInv, BacklogListens
  <2>. QED
    BY <2>4, <2>5
<1>. QED
  BY <1>7, <1>8, <1>9 DEF DeliveryInv

\* A node closes all its streams, and no longer listens.
LEMMA MineDelivery ==
  ASSUME OwnInv, DeliveryInv, NEW n \in Nodes, streams' \in Closing(n, Mine(n), "aborted", streams),
         \A m \in Nodes \ {n} : up'[m] = up[m], sent' = sent, received' = received,
         faults'.timeouts = faults.timeouts, faults'.broken = faults.broken,
         faults'.lost = faults.lost, faults'.torn = faults.torn
  PROVE  DeliveryInv'
<1>1. TypeOK /\ Calm /\ ClosesAll(streams, streams', n, Mine(n), "aborted") /\ StreamsOK(streams)
  BY MineIs, StreamsType DEF OwnInv
<1>2. /\ \A s \in Mine(n) : /\ n \in {streams[s].from, streams[s].to}
                            /\ streams[s].task[n] \in {"running", "backlog"}
      /\ Mine(n) \in SUBSET DOMAIN streams
  BY DEF Mine, Runs, Backlog, Ends
<1>3. Later(Heard, Heard', faults, faults')
  BY HeardSame DEF Later
<1>4. \A s \in DOMAIN streams : Accounted(streams[s], s, Carried(s)', Heard, faults)
  BY CarriedSame DEF DeliveryInv
<1>5. \A s \in DOMAIN streams' : Accounted(streams'[s], s, Carried(s)', Heard', faults')
  BY <1>1, <1>2, <1>3, <1>4, ClosesAccounted
<1>6. SentOnStreams'
  BY <1>1, SentStays DEF DeliveryInv, Calm
<1>7. Backlog(n)' = {}
  <2>. SUFFICES ASSUME NEW s \in Backlog(n)' PROVE FALSE
    OBVIOUS
  <2>1. s \in DOMAIN streams /\ streams[s].to = n /\ streams'[s].task[n] = "backlog"
    BY <1>1 DEF Backlog, Calm, Grows, Same
  <2>2. s \in Mine(n)
    BY <1>1, <2>1 DEF Mine, Backlog, Calm, Ends
  <2>. QED
    BY <1>1, <2>1, <2>2 DEF ClosesAll, ClosedAt
<1>8. BacklogListens'
  BY <1>1, <1>7, ListensCalm DEF DeliveryInv
<1>. QED
  BY <1>5, <1>6, <1>8 DEF DeliveryInv

\* What was sent before, and the message that is sent on the stream id
LEMMA SentTaken ==
  ASSUME TypeOK, NEW n \in Nodes, todo[n] # <<>>, NEW id \in Nat, Taken(n, id)
  PROVE  \A m \in Nodes : \A i \in DOMAIN sent'[m] :
           \/ i \in DOMAIN sent[m] /\ sent'[m][i] = sent[m][i]
           \/ m = n /\ sent'[m][i].stream = id
<1>. DEFINE e == [msg |-> Head(todo[n]), stream |-> id]
<1>1. sent'[n] = Append(sent[n], e) /\ \A m \in Nodes \ {n} : sent'[m] = sent[m]
  BY TakenIs
<1>2. e.stream = id
  OBVIOUS
<1>. HIDE DEF e
<1>3. PICK q : q = sent[n] /\ q \in Seq(ToSet(q))
  <2>1. sent[n] \in Seq([msg : Addressed, stream : Nat])
    BY DEF TypeOK
  <2>. QED
    BY <2>1, SeqOfItself
<1>4. PICK r : r = sent'[n] /\ r = Append(q, e)
  BY <1>1, <1>3
<1>5. /\ DOMAIN r = DOMAIN q \cup {Len(q) + 1} /\ r[Len(q) + 1] = e
      /\ \A i \in DOMAIN q : r[i] = q[i]
  BY <1>3, <1>4, AppendIs
<1>. QED
  BY <1>1, <1>2, <1>3, <1>4, <1>5

\* A message is put into the queue of a handler.
LEMMA SendOnDelivery ==
  ASSUME OwnInv, DeliveryInv, NEW n \in Nodes, todo[n] # <<>>, NEW p, NEW s \in Handler(n, p),
         SendOn(n, p, s), UNCHANGED <<plan, up, received, faults>>
  PROVE  DeliveryInv'
<1>. DEFINE m == Head(todo[n]).msg
            x == streams[s]
            y == streams'[s]
            c == Carried(s)
            d == Carried(s)'
<1>1. /\ s \in DOMAIN streams /\ n \in Ends(s) /\ x.task[n] = "running" /\ s \in Nat
      /\ Calm /\ OneStream(s) /\ OutAt(x, y, n, Append(x.out[n], m))
  BY SendOnIs
<1>2. Taken(n, s) /\ TypeOK /\ m \in Message
  BY HeadIs DEF SendOn, OwnInv
<1>3. StreamOK(x) /\ n \in {x.from, x.to} /\ Accounted(x, s, c, Heard, faults)
      /\ OtherEnd(x, n) \in Nodes /\ OtherEnd(x, n) # n
  BY <1>1, EndFacts, OtherIs
<1>4. d[n] = c[n] \cup {m} /\ d[OtherEnd(x, n)] = c[OtherEnd(x, n)]
  BY <1>1, <1>2, <1>3, CarriedTaken
<1>. HIDE DEF m, x, y, c, d
<1>5. Accounted(y, s, d, Heard, faults)
  BY <1>1, <1>2, <1>3, <1>4, AccountedSends
<1>6. ASSUME NEW t \in DOMAIN streams' PROVE Accounted(streams'[t], t, Carried(t)', Heard', faults')
  <2>1. CASE t = s
    BY <1>5, <2>1, HeardSame DEF y, d
  <2>2. CASE t # s
    <3>1. Carried(t)' = Carried(t)
      BY <1>1, <1>2, <2>2, CarriedTaken
    <3>2. t \in DOMAIN streams /\ streams'[t] = streams[t]
      BY <1>1, <2>2 DEF OneStream
    <3>. QED
      BY <3>1, <3>2, HeardSame DEF DeliveryInv
  <2>. QED
    BY <2>1, <2>2
<1>7. SentOnStreams'
  <2>1. \A t \in DOMAIN streams : t \in DOMAIN streams' /\ Ends(t)' = Ends(t)
    BY <1>1 DEF Calm, Grows, Ends, Same
  <2>. QED
    BY <1>1, <1>2, <2>1, SentTaken DEF SentOnStreams, DeliveryInv
<1>8. BacklogListens'
  BY <1>1, <1>2, ListensCalm DEF DeliveryInv
<1>. QED
  BY <1>6, <1>7, <1>8 DEF DeliveryInv

\* A message is the first on its stream.
LEMMA SendFirstDelivery ==
  ASSUME OwnInv, DeliveryInv, NEW n \in Nodes, todo[n] # <<>>, SendFirst(n, Head(todo[n]).to),
         UNCHANGED <<plan, up, received, faults>>
  PROVE  DeliveryInv'
<1>. DEFINE p == Head(todo[n]).to
            m == Head(todo[n]).msg
<1>1. TypeOK /\ p \in Nodes /\ p # n /\ m \in Message
  BY HeadIs DEF OwnInv
<1>0. PICK id : id = Len(streams) + 1
  OBVIOUS
<1>2. CASE /\ up[p] = "connected" /\ Taken(n, id)
           /\ AddHandler(n, id, p, Append(streams, [Opened(n, p) EXCEPT !.out[n] = <<m>>]))
  <2>. HIDE DEF p
  <2>0. Taken(n, id)
    BY <1>2
  <2>1. id \in Nat /\ id \notin DOMAIN streams
    BY <1>0, <1>1, <1>2, SendFirstIs
  <2>2. /\ \A s : \A k \in Nodes : s # id \/ k # n => Carried(s)'[k] = Carried(s)[k]
        /\ Carried(id)'[n] = Carried(id)[n] \cup {m}
        /\ \A s : s # id => Carried(s)' = Carried(s)
    BY <1>1, <2>0, <2>1, CarriedTaken
  <2>. HIDE DEF m
  <2>3. PICK x, dropped :
          /\ NewAt(x, n, p, m) /\ dropped \in SUBSET ToSet(active[n])
          /\ StreamsOK(Append(streams, x)) /\ DOMAIN Append(streams, x) = DOMAIN streams \cup {id}
          /\ Append(streams, x)[id] = x
          /\ \A s \in DOMAIN streams : Append(streams, x)[s] = streams[s]
          /\ Adds(n, id, p, Append(streams, x), dropped)
    BY <1>0, <1>1, <1>2, SendFirstIs DEF m
  <2>. DEFINE all == Append(streams, x)
  <2>4. /\ StreamsOK(all) /\ Adds(n, id, p, all, dropped) /\ all[id] = x
        /\ DOMAIN all = DOMAIN streams \cup {id} /\ \A s \in DOMAIN streams : all[s] = streams[s]
    BY <2>3
  <2>. HIDE DEF all
  <2>5. id \notin ToSet(active[n])
    BY <2>1 DEF OwnInv, HandlersOpen
  <2>6. Carried(id)'[n] = {m} /\ Carried(id)'[p] = {}
    <3>1. Carried(id)[n] = {} /\ Carried(id)[p] = {}
      BY <1>1, <2>1, CarriedNew DEF DeliveryInv
    <3>2. Carried(id)'[p] = Carried(id)[p]
      BY <1>1, <2>2
    <3>. QED
      BY <2>2, <3>1, <3>2
  <2>7. Accounted(x, id, Carried(id)', Heard, faults)
    BY <1>1, <2>3, <2>6, AccountedNew
  <2>8. ASSUME NEW s \in DOMAIN all PROVE Accounted(all[s], s, Carried(s)', Heard, faults)
    <3>1. CASE s = id
      BY <2>4, <2>7, <3>1
    <3>2. CASE s # id
      BY <2>2, <2>4, <3>2 DEF DeliveryInv
    <3>. QED
      BY <3>1, <3>2
  <2>9. x.from = n /\ x.to = p
    BY <2>3 DEF NewAt
  <2>10. \A k \in Nodes : \A i \in DOMAIN sent'[k] :
           LET s == sent'[k][i].stream
           IN  \/ s \in DOMAIN streams /\ k \in Ends(s)
               \/ s = id /\ k \in {all[id].from, all[id].to}
    <3>1. n \in {all[id].from, all[id].to}
      BY <2>4, <2>9
    <3>. QED
      BY <1>1, <1>2, <2>1, <3>1, SentTaken DEF DeliveryInv, SentOnStreams
  <2>11. up[all[id].to] = "connected"
    BY <1>2, <2>4, <2>9
  <2>. QED
    BY <2>1, <2>3, <2>4, <2>5, <2>8, <2>10, <2>11, AddsDelivery
<1>3. CASE UNCHANGED <<streams, active, sent>>
  BY <1>3, IdleDelivery
<1>. QED
  BY <1>0, <1>2, <1>3 DEF SendFirst

\* A stream is accepted, or was closed before it could be.
LEMMA AcceptDelivery ==
  ASSUME OwnInv, DeliveryInv, NEW n \in Nodes, Accept(n)
  PROVE  DeliveryInv'
<1>. DEFINE id == Min(Backlog(n))
<1>1. TypeOK
  BY DEF OwnInv
<1>2. id \in Backlog(n) /\ id \in DOMAIN streams /\ id \in Nat
  BY <1>1, OldestIs DEF Accept
<1>3. UNCHANGED <<plan, todo, up, received, faults, sent>> /\ up[n] = "connected"
  BY DEF Accept
<1>4. CASE AddHandler(n, id, FirstAddress(streams[id].first), [streams EXCEPT ![id].task[n] = "running"])
  <2>. HIDE DEF id
  <2>1. streams[id].to = n /\ streams[id].task[n] = "backlog"
    BY <1>2, <1>4, AcceptIs
  <2>2. PICK all, dropped :
          /\ dropped \in SUBSET ToSet(active[n])
          /\ StreamsOK(all) /\ DOMAIN all = DOMAIN streams
          /\ RunsAt(streams[id], all[id], n)
          /\ \A s \in DOMAIN streams \ {id} : all[s] = streams[s]
          /\ Adds(n, id, streams[id].from, all, dropped)
    BY <1>2, <1>4, AcceptIs
  <2>3. id \notin ToSet(active[n])
    BY <2>1 DEF OwnInv, HandlersOpen
  <2>4. Same(streams[id], all[id])
    BY <2>2 DEF RunsAt
  <2>. DEFINE x == streams[id]
              y == all[id]
  <2>5. /\ StreamOK(x) /\ n \in {x.from, x.to} /\ x.task[n] = "backlog" /\ RunsAt(x, y, n)
        /\ Accounted(x, id, Carried(id), Heard, faults)
    BY <1>2, <2>1, <2>2 DEF OwnInv, TypeOK, DeliveryInv
  <2>. HIDE DEF x, y
  <2>6. Accounted(y, id, Carried(id), Heard, faults)
    BY <2>5, AccountedAccepts
  <2>7. ASSUME NEW s \in DOMAIN all PROVE Accounted(all[s], s, Carried(s)', Heard, faults)
    <3>1. Carried(s)' = Carried(s)
      BY <1>3, CarriedSame
    <3>2. CASE s = id
      BY <2>6, <3>1, <3>2 DEF y
    <3>3. CASE s # id
      BY <2>2, <3>1, <3>3 DEF DeliveryInv
    <3>. QED
      BY <3>2, <3>3
  <2>8. \A k \in Nodes : \A i \in DOMAIN sent'[k] :
          LET s == sent'[k][i].stream
          IN  \/ s \in DOMAIN streams /\ k \in Ends(s)
              \/ s = id /\ k \in {all[id].from, all[id].to}
    BY <1>3 DEF DeliveryInv, SentOnStreams
  <2>9. DOMAIN all = DOMAIN streams \cup {id} /\ up[all[id].to] = "connected"
    BY <1>2, <1>3, <2>1, <2>2, <2>4 DEF Same
  <2>. QED
    BY <1>3, <2>2, <2>3, <2>4, <2>7, <2>8, <2>9, AddsDelivery
<1>5. CASE /\ streams[id].task[streams[id].from] # "running"
           /\ streams' \in Closing(n, {id}, "ended", streams)
  <2>. HIDE DEF id
  <2>1. n \in Ends(id) /\ streams[id].to = n /\ streams[id].task[n] = "backlog"
    BY <1>2 DEF Backlog, Ends
  <2>2. TaskEnds(id, n)
    BY <1>5 DEF TaskEnds
  <2>. DEFINE x == streams[id]
              y == streams'[id]
  <2>3. ClosedAt(x, y, n, "ended") /\ StreamOK(x) /\ n \in {x.from, x.to} /\ x.to = n
        /\ x.task[n] = "backlog" /\ x.task[x.from] # "running" /\ n \in Nodes
        /\ Accounted(x, id, Carried(id), Heard, faults)
    BY <1>1, <1>2, <1>5, <2>1, <2>2, TaskEndsIs, EndFacts
  <2>. HIDE DEF x, y
  <2>4. Carried(id)[n] = {}
    BY <2>3 DEF Accounted, EndAt, BeforeAt
  <2>5. y.to = n /\ y.task[y.from] # "running"
    <3>1. x.from # n /\ OtherEnd(x, n) = x.from
      BY <2>3, StreamParts DEF OtherEnd
    <3>. QED
      BY <2>3, <3>1 DEF ClosedAt, Same
  <2>6. ReasonAt(y, id, n, Carried(id), Heard', faults')
    BY <2>4, <2>5 DEF ReasonAt
  <2>7. ReasonAt(streams'[id], id, n, Carried(id), Heard', faults')
    BY <2>6 DEF y
  <2>. QED
    BY <1>2, <1>3, <2>1, <2>2, <2>7, HeardSame, LaterNow, EndsDelivery
<1>. QED
  BY <1>4, <1>5 DEF Accept

\* The three ways of a send.
LEMMA SendDelivery ==
  ASSUME OwnInv, DeliveryInv, NEW n \in Nodes, Send(n)
  PROVE  DeliveryInv'
<1>1. todo[n] # <<>> /\ UNCHANGED <<plan, up, received, faults>>
  BY DEF Send
<1>2. CASE SendFirst(n, Head(todo[n]).to)
  BY <1>1, <1>2, SendFirstDelivery
<1>3. ASSUME NEW p, NEW s \in Handler(n, p), SendOn(n, p, s) PROVE DeliveryInv'
  BY <1>1, <1>3, SendOnDelivery
<1>4. ASSUME NEW p, NEW s \in Handler(n, p), SendFails(n, p, s) PROVE DeliveryInv'
  BY <1>1, <1>4, IdleDelivery DEF SendFails
<1>. QED
  BY <1>2, <1>3, <1>4 DEF Send

\* What is done to a node
LEMMA NodeDelivery ==
  ASSUME OwnInv, DeliveryInv, NEW n \in Nodes,
         SendOffline(n) \/ Disconnect(n) \/ Reconnect(n) \/ Crash(n)
  PROVE  DeliveryInv'
<1>1. /\ up \in [Nodes -> {"connected", "offline", "crashed"}]
      /\ faults \in FaultsType
  BY DEF OwnInv, TypeOK
<1>2. CASE SendOffline(n)
  BY <1>2, IdleDelivery DEF SendOffline
<1>3. CASE Reconnect(n)
  <2>1. \A m \in Nodes : up[m] = "connected" => up'[m] = "connected"
    BY <1>1, <1>3 DEF Reconnect
  <2>. QED
    BY <1>3, <2>1, IdleDelivery DEF Reconnect
<1>4. CASE Disconnect(n)
  <2>1. \A m \in Nodes \ {n} : up'[m] = up[m]
    BY <1>1, <1>4 DEF Disconnect
  <2>2. /\ faults'.timeouts = faults.timeouts /\ faults'.broken = faults.broken
        /\ faults'.lost = faults.lost /\ faults'.torn = faults.torn
    BY <1>1, <1>4 DEF Disconnect, FaultsType
  <2>. QED
    BY <1>4, <2>1, <2>2, MineDelivery DEF Disconnect
<1>5. CASE Crash(n)
  <2>1. \A m \in Nodes \ {n} : up'[m] = up[m]
    BY <1>1, <1>5 DEF Crash
  <2>2. /\ faults'.timeouts = faults.timeouts /\ faults'.broken = faults.broken
        /\ faults'.lost = faults.lost /\ faults'.torn = faults.torn
    BY <1>1, <1>5 DEF Crash, FaultsType
  <2>. QED
    BY <1>5, <2>1, <2>2, MineDelivery DEF Crash
<1>. QED
  BY <1>2, <1>3, <1>4, <1>5

\* The invariant DeliveryInv
LEMMA InitDelivery == Init => DeliveryInv
<1>. SUFFICES ASSUME Init PROVE DeliveryInv
  OBVIOUS
<1>1. DOMAIN streams = {} /\ \A n \in Nodes : DOMAIN sent[n] = {}
  BY DEF Init
<1>2. \A n \in Nodes : Backlog(n) = {}
  BY <1>1 DEF Backlog
<1>. QED
  BY <1>1, <1>2 DEF DeliveryInv, SentOnStreams, BacklogListens

\* Every step keeps DeliveryInv.
LEMMA NextDelivery == OwnInv /\ DeliveryInv /\ [Next]_vars => DeliveryInv'
<1>. SUFFICES ASSUME OwnInv, DeliveryInv, [Next]_vars PROVE DeliveryInv'
  OBVIOUS
<1>1. CASE UNCHANGED vars
  BY <1>1, IdleDelivery DEF vars
<1>2. CASE Next
  <2>1. ASSUME NEW n \in Nodes, Send(n) \/ Accept(n) PROVE DeliveryInv'
    BY <2>1, SendDelivery, AcceptDelivery
  <2>2. ASSUME NEW n \in Nodes, SendOffline(n) \/ Disconnect(n) \/ Reconnect(n) \/ Crash(n)
        PROVE  DeliveryInv'
    BY <2>2, NodeDelivery
  <2>3. ASSUME NEW n \in Nodes, NEW s \in DOMAIN streams, Write(s, n) \/ Receive(s, n)
        PROVE  DeliveryInv'
    BY <2>3, WriteDelivery, ReceiveDelivery
  <2>4. ASSUME NEW n \in Nodes, NEW s \in DOMAIN streams,
               Eof(s, n) \/ HeartbeatTimeout(s, n) \/ HeartbeatFails(s, n)
        PROVE  DeliveryInv'
    BY <2>4, EndDelivery
  <2>5. ASSUME NEW n \in Nodes, NEW s \in DOMAIN streams,
               WriteCancelled(s, n) \/ ReceiveCancelled(s, n) \/ Garble(s, n)
        PROVE  DeliveryInv'
    BY <2>5, SpoilsDelivery
  <2>. QED
    BY <1>2, <2>1, <2>2, <2>3, <2>4, <2>5 DEF Next
<1>. QED
  BY <1>1, <1>2

\* When nothing is left to do, every message that was sent has arrived, or what keeps
\* it from its node is one of the reasons of ReasonAt.
LEMMA DeliveryFollows == OwnInv /\ DeliveryInv => Delivery
<1>. SUFFICES ASSUME OwnInv, DeliveryInv, Quiet,
                     NEW n \in Nodes, NEW s \in DOMAIN streams, NEW m \in Carries(s, n)
              PROVE  LET p == Peer(s, n)
                     IN  \/ Got(s, p, m)
                         \/ streams[s].task[n] = "aborted"
                         \/ Told(s, n) /\ (\/ streams[s].task[p] = "aborted"
                                            \/ faults.timeouts > 0
                                            \/ \E u \in Carries(s, n) : Unreadable(u))
                         \/ faults.broken > 0
                         \/ \E u \in Carries(s, p) : Unreadable(u)
                         \/ <<s, n, Frame(m)>> \in faults.lost \/ s \in faults.torn
  BY DEF Delivery
<1>. DEFINE x == streams[s]
            p == Peer(s, n)
<1>1. n \in Ends(s)
  BY DEF Carries, DeliveryInv, SentOnStreams
<1>2. StreamOK(x) /\ n \in {x.from, x.to} /\ p = OtherEnd(x, n) /\ p \in Nodes
      /\ Accounted(x, s, Carried(s), Heard, faults)
  BY <1>1, EndFacts
<1>3. p \in {x.from, x.to} /\ p \in Ends(s) /\ OtherEnd(x, p) = n
  BY <1>2, OtherIs DEF Ends
<1>4. Carried(s)[n] = Carries(s, n) /\ Carried(s)[p] = Carries(s, p) /\ m \in Carried(s)[n]
  BY <1>2 DEF Carried
<1>5. \A e \in Heard[p] : \E i \in DOMAIN received[p] : e = received[p][i]
  BY <1>2 DEF Heard, ToSet
<1>6. \A e \in Heard[n] : \E i \in DOMAIN received[n] : e = received[n][i]
  BY DEF Heard, ToSet
<1>7. GotAt(Heard[p], s, m) => Got(s, p, m)
  BY <1>5 DEF GotAt, Got
<1>8. ToldAt(Heard[n], s) => Told(s, n)
  BY <1>6 DEF ToldAt, Told
<1>9. EndAt(x, s, n, Carried(s), Heard, faults)
  BY <1>2 DEF Accounted
<1>10. x.task[n] \in Tasks /\ x.task[p] \in Tasks
  BY <1>2, <1>3, QueuesOf
<1>11. CASE x.task[n] = "backlog"
  BY <1>4, <1>9, <1>11 DEF EndAt, BeforeAt
<1>12. CASE x.task[n] = "aborted"
  BY <1>12
<1>13. CASE x.task[n] = "ended"
  <2>1. ReasonAt(x, s, n, Carried(s), Heard, faults)
    BY <1>9, <1>13 DEF EndAt
  <2>. QED
    BY <1>2, <1>4, <1>8, <2>1 DEF ReasonAt
<1>14. CASE x.task[n] = "running"
  <2>1. x.out[n] = <<>> /\ x.task[p] \notin {"ended", "aborted"}
    BY <1>1, <1>14 DEF Quiet, Runs, Gone
  <2>2. x.task[p] = "running"
    <3>. SUFFICES ASSUME x.task[p] = "backlog" PROVE FALSE
      BY <1>10, <2>1 DEF Tasks
    <3>1. x.to = p
      BY <1>2, <1>3, StreamParts
    <3>2. s \in Backlog(p)
      BY <3>1 DEF Backlog
    <3>3. up[p] = "connected"
      BY <1>2, <3>2 DEF DeliveryInv, BacklogListens
    <3>. QED
      BY <1>2, <3>2, <3>3 DEF Quiet
  <2>3. x.wire[p] \in {<<>>, <<Torn>>}
    BY <1>2, <1>3, <2>2 DEF Quiet, Runs
  <2>4. UnderwayAt(x, s, n, Heard, m, faults)
    BY <1>2, <1>4, <1>9, <1>14, <2>1 DEF EndAt, NothingLostAt
  <2>5. Frame(m) \notin ToSet(x.wire[p])
    <3>1. Frame(m) # Torn
      BY <1>2, <1>4, CarriedTyped, TornIs DEF OwnInv
    <3>2. ToSet(<<Torn>>) = {Torn}
      BY DEF ToSet
    <3>. QED
      BY <2>3, <3>1, <3>2, ToSetEmpty
  <2>. QED
    BY <1>2, <1>7, <2>1, <2>4, <2>5, ToSetEmpty DEF UnderwayAt
<1>. QED
  BY <1>10, <1>11, <1>12, <1>13, <1>14 DEF Tasks

\* When nothing is left to do but to wait, a message for which send returned Ok has
\* arrived, or its node has dropped the handler or has been told that the connection
\* is lost, and that for a reason (Connection::send, Handler::run).
THEOREM DeliveryAlways == Spec => []Delivery
<1>1. Init => OwnInv /\ DeliveryInv
  BY InitOwn, InitDelivery
<1>2. OwnInv /\ DeliveryInv /\ [Next]_vars => OwnInv' /\ DeliveryInv'
  BY NextOwn, NextDelivery
<1>3. OwnInv /\ DeliveryInv => Delivery
  BY DeliveryFollows
<1>. QED
  BY <1>1, <1>2, <1>3, PTL DEF Spec

-----------------------------------------------------------------------------
(* Messages in order *)

\* The first element of a sequence, and the others one place earlier.
LEMMA TailAt ==
  ASSUME NEW S, NEW q \in Seq(S), q # <<>>
  PROVE  /\ Tail(q) \in Seq(S) /\ 1 \in DOMAIN q /\ Head(q) = q[1]
         /\ \A i \in DOMAIN q : i \in Nat
         /\ \A i \in DOMAIN Tail(q) : i \in Nat /\ i + 1 \in DOMAIN q /\ Tail(q)[i] = q[i + 1] /\ 1 < i + 1
<1>1. /\ Len(q) \in Nat /\ Len(q) >= 1 /\ DOMAIN q = 1..Len(q) /\ Head(q) = q[1]
      /\ Tail(q) \in Seq(S) /\ Len(Tail(q)) = Len(q) - 1 /\ DOMAIN Tail(q) = 1..(Len(q) - 1)
      /\ \A i \in 1..(Len(q) - 1) : Tail(q)[i] = q[i + 1]
  OBVIOUS
<1>. QED
  BY <1>1

\* A frame that can be read shows its message.
LEMMA IsShown ==
  ASSUME NEW w, NEW i \in DOMAIN w, Readable(w[i])
  PROVE  Shown(w[i]) \in ShownIn(w)
BY DEF ShownIn, ToSet

\* What is shown is read from one of the frames.
LEMMA ShownFrom ==
  ASSUME NEW w, NEW u \in ShownIn(w)
  PROVE  \E i \in DOMAIN w : Readable(w[i]) /\ u = Shown(w[i])
BY DEF ShownIn, ToSet

\* When the other end is closed, the first frames are left of what is on the stream.
LEMMA LineBegins ==
  ASSUME NEW script, NEW v, NEW w, NEW q, Begins(v, w), Line(script, w, q)
  PROVE  Line(script, v, <<>>) /\ ShownIn(v) \subseteq ShownIn(w)
<1>1. ShownIn(v) \subseteq ShownIn(w)
  <2>. SUFFICES ASSUME NEW u \in ShownIn(v) PROVE u \in ShownIn(w)
    OBVIOUS
  <2>1. PICK i \in DOMAIN v : Readable(v[i]) /\ u = Shown(v[i])
    BY ShownFrom
  <2>. QED
    BY <2>1, IsShown DEF Begins
<1>2. \A i, j \in DOMAIN v : i < j /\ Readable(v[i]) /\ Readable(v[j])
                               => Before(script, Shown(v[i]), Shown(v[j]))
  BY DEF Begins, Line
<1>. QED
  BY <1>1, <1>2, ToSetEmpty DEF Line, Ahead

\* No frame is on the stream.
LEMMA LineNone ==
  ASSUME NEW script, NEW w, NEW q, Line(script, w, q)
  PROVE  Line(script, <<>>, q) /\ ShownIn(<<>>) = {}
BY DEF Line, ShownIn, ToSet, Ahead

\* A message is put behind those that wait.
LEMMA LineSends ==
  ASSUME NEW script, NEW w, NEW q, q \in Seq(ToSet(q)), NEW m, Line(script, w, q),
         Ahead(script, ShownIn(w) \cup ToSet(q), {m})
  PROVE  Line(script, w, Append(q, m))
<1>. DEFINE t == Append(q, m)
<1>1. /\ Len(q) \in Nat /\ DOMAIN q = 1..Len(q) /\ DOMAIN t = DOMAIN q \cup {Len(q) + 1}
      /\ t[Len(q) + 1] = m /\ \A i \in DOMAIN q : t[i] = q[i]
      /\ ToSet(t) = ToSet(q) \cup {m}
  BY AppendIs
<1>. HIDE DEF t
<1>2. ASSUME NEW i \in DOMAIN t, NEW j \in DOMAIN t, i < j PROVE Before(script, t[i], t[j])
  <2>1. i \in DOMAIN q /\ t[i] = q[i]
    BY <1>1, <1>2
  <2>2. CASE j \in DOMAIN q
    BY <1>1, <1>2, <2>1, <2>2 DEF Line
  <2>3. CASE j = Len(q) + 1
    <3>1. q[i] \in ToSet(q)
      BY <2>1 DEF ToSet
    <3>. QED
      BY <1>1, <2>1, <2>3, <3>1 DEF Ahead
  <2>. QED
    BY <1>1, <2>2, <2>3
<1>3. Ahead(script, ShownIn(w), ToSet(t))
  BY <1>1 DEF Line, Ahead
<1>4. Line(script, w, t)
  BY <1>2, <1>3 DEF Line
<1>. QED
  BY <1>4 DEF t

\* The first of those that wait is lost.
LEMMA LineLoses ==
  ASSUME NEW script, NEW w, NEW S, NEW q \in Seq(S), q # <<>>, Line(script, w, q)
  PROVE  Line(script, w, Tail(q)) /\ Ahead(script, {Head(q)}, ToSet(Tail(q)))
<1>. DEFINE t == Tail(q)
<1>1. /\ 1 \in DOMAIN q /\ Head(q) = q[1] /\ \A i \in DOMAIN q : i \in Nat
      /\ \A i \in DOMAIN t : i \in Nat /\ i + 1 \in DOMAIN q /\ t[i] = q[i + 1] /\ 1 < i + 1
      /\ ToSet(t) \subseteq ToSet(q)
  BY TailAt, TailIs
<1>. HIDE DEF t
<1>2. ASSUME NEW i \in DOMAIN t, NEW j \in DOMAIN t, i < j PROVE Before(script, t[i], t[j])
  <2>1. i + 1 < j + 1
    BY <1>1, <1>2
  <2>. QED
    BY <1>1, <2>1 DEF Line
<1>3. \A j \in DOMAIN t : Before(script, q[1], t[j])
  BY <1>1 DEF Line
<1>4. Ahead(script, {q[1]}, ToSet(t))
  BY <1>3 DEF Ahead, ToSet
<1>5. Line(script, w, t)
  BY <1>1, <1>2 DEF Line, Ahead
<1>. QED
  BY <1>1, <1>4, <1>5 DEF t

\* Some of the frames are gone, or torn.
LEMMA LineThins ==
  ASSUME NEW script, NEW S, NEW v \in Seq(S), NEW T, NEW w \in Seq(T), NEW k \in Nat,
         Thins(v, w, k), NEW q, Line(script, w, q)
  PROVE  Line(script, v, q) /\ ShownIn(v) \subseteq ShownIn(w)
<1>1. \A i \in DOMAIN v : i \in Nat
  OBVIOUS
<1>2. ASSUME NEW i \in DOMAIN v, Readable(v[i]) PROVE i + k \in DOMAIN w /\ v[i] = w[i + k]
  <2>1. v[i] # Torn
    BY <1>2, TornIs DEF Readable
  <2>. QED
    BY <2>1 DEF Thins
<1>3. ShownIn(v) \subseteq ShownIn(w)
  <2>. SUFFICES ASSUME NEW i \in DOMAIN v, Readable(v[i]) PROVE Shown(v[i]) \in ShownIn(w)
    BY DEF ShownIn, ToSet
  <2>1. v[i] \in ToSet(w)
    BY <1>2 DEF ToSet
  <2>. QED
    BY <2>1 DEF ShownIn
<1>4. ASSUME NEW i \in DOMAIN v, NEW j \in DOMAIN v, i < j, Readable(v[i]), Readable(v[j])
      PROVE  Before(script, Shown(v[i]), Shown(v[j]))
  <2>1. i + k < j + k
    BY <1>1, <1>4
  <2>2. i + k \in DOMAIN w /\ v[i] = w[i + k] /\ j + k \in DOMAIN w /\ v[j] = w[j + k]
    BY <1>2, <1>4
  <2>3. Readable(w[i + k]) /\ Readable(w[j + k])
    BY <1>4, <2>2
  <2>4. Before(script, Shown(w[i + k]), Shown(w[j + k]))
    BY <2>1, <2>2, <2>3 DEF Line
  <2>. QED
    BY <2>2, <2>4
<1>5. Ahead(script, ShownIn(v), ToSet(q))
  BY <1>3 DEF Line, Ahead
<1>. QED
  BY <1>3, <1>4, <1>5 DEF Line

\* The first message that waits may be gone too.
LEMMA WayThins ==
  ASSUME NEW script, NEW S, NEW v \in Seq(S), NEW T, NEW w \in Seq(T), NEW k \in Nat,
         Thins(v, w, k), NEW U, NEW q \in Seq(U), NEW r, r = q \/ (q # <<>> /\ r = Tail(q)),
         NEW heard, NEW task, Way(script, w, q, heard, task)
  PROVE  Way(script, v, r, heard, task)
<1>1. Line(script, v, q) /\ ShownIn(v) \subseteq ShownIn(w)
  BY LineThins DEF Way
<1>2. Line(script, v, r) /\ ToSet(r) \subseteq ToSet(q)
  BY <1>1, LineLoses, TailIs
<1>. QED
  BY <1>1, <1>2 DEF Way, Ahead

\* The first of those that wait is written.
LEMMA LineWrites ==
  ASSUME NEW script, NEW w \in Seq(Frames), NEW q \in Seq(Message), q # <<>>, Line(script, w, q)
  PROVE  /\ Line(script, Append(w, Frame(Head(q))), Tail(q))
         /\ ShownIn(Append(w, Frame(Head(q)))) \subseteq ShownIn(w) \cup {Head(q)}
<1>. DEFINE f == Frame(Head(q))
            v == Append(w, f)
            t == Tail(q)
<1>1. Head(q) \in Message /\ Head(q) \in ToSet(q) /\ ToSet(t) \subseteq ToSet(q)
  BY TailIs
<1>2. Readable(f) => Shown(f) = Head(q)
  BY <1>1, ReadBack DEF Readable, Shown
<1>3. Line(script, w, t) /\ Ahead(script, {Head(q)}, ToSet(t))
  BY LineLoses
<1>. HIDE DEF f, t
<1>4. w \in Seq(ToSet(w))
  BY SeqOfItself
<1>5. /\ Len(w) \in Nat /\ DOMAIN w = 1..Len(w) /\ DOMAIN v = DOMAIN w \cup {Len(w) + 1}
      /\ v[Len(w) + 1] = f /\ \A i \in DOMAIN w : v[i] = w[i]
  BY <1>4, AppendIs
<1>. HIDE DEF v
<1>6. ShownIn(v) \subseteq ShownIn(w) \cup {Head(q)}
  <2>. SUFFICES ASSUME NEW u \in ShownIn(v) PROVE u \in ShownIn(w) \cup {Head(q)}
    OBVIOUS
  <2>1. PICK i \in DOMAIN v : Readable(v[i]) /\ u = Shown(v[i])
    BY ShownFrom
  <2>. QED
    BY <1>2, <1>5, <2>1, IsShown
<1>7. ASSUME NEW i \in DOMAIN v, NEW j \in DOMAIN v, i < j, Readable(v[i]), Readable(v[j])
      PROVE  Before(script, Shown(v[i]), Shown(v[j]))
  <2>1. i \in DOMAIN w /\ v[i] = w[i]
    BY <1>5, <1>7
  <2>2. CASE j \in DOMAIN w
    BY <1>5, <1>7, <2>1, <2>2 DEF Line
  <2>3. CASE j = Len(w) + 1
    <3>1. Shown(v[i]) \in ShownIn(w)
      BY <1>7, <2>1, IsShown
    <3>2. Shown(v[j]) = Head(q)
      BY <1>2, <1>5, <1>7, <2>3
    <3>. QED
      BY <1>1, <3>1, <3>2 DEF Line, Ahead
  <2>. QED
    BY <1>5, <2>2, <2>3
<1>8. Ahead(script, ShownIn(v), ToSet(t))
  BY <1>3, <1>6 DEF Line, Ahead
<1>9. Line(script, v, t)
  BY <1>3, <1>7, <1>8 DEF Line
<1>. QED
  BY <1>6, <1>9 DEF v, f, t

\* The first frame is read.
LEMMA LineReads ==
  ASSUME NEW script, NEW S, NEW w \in Seq(S), w # <<>>, NEW q, Line(script, w, q)
  PROVE  /\ Line(script, Tail(w), q) /\ ShownIn(Tail(w)) \subseteq ShownIn(w)
         /\ Readable(Head(w)) => /\ Shown(Head(w)) \in ShownIn(w)
                                 /\ Ahead(script, {Shown(Head(w))}, ShownIn(Tail(w)) \cup ToSet(q))
<1>. DEFINE t == Tail(w)
<1>1. /\ 1 \in DOMAIN w /\ Head(w) = w[1] /\ \A i \in DOMAIN w : i \in Nat
      /\ \A i \in DOMAIN t : i \in Nat /\ i + 1 \in DOMAIN w /\ t[i] = w[i + 1] /\ 1 < i + 1
  BY TailAt
<1>. HIDE DEF t
<1>2. ShownIn(t) \subseteq ShownIn(w)
  <2>. SUFFICES ASSUME NEW u \in ShownIn(t) PROVE u \in ShownIn(w)
    OBVIOUS
  <2>1. PICK i \in DOMAIN t : Readable(t[i]) /\ u = Shown(t[i])
    BY ShownFrom
  <2>. QED
    BY <1>1, <2>1, IsShown
<1>3. ASSUME NEW i \in DOMAIN t, NEW j \in DOMAIN t, i < j, Readable(t[i]), Readable(t[j])
      PROVE  Before(script, Shown(t[i]), Shown(t[j]))
  <2>1. i + 1 < j + 1
    BY <1>1, <1>3
  <2>. QED
    BY <1>1, <1>3, <2>1 DEF Line
<1>4. ASSUME Readable(w[1]) PROVE Shown(w[1]) \in ShownIn(w) /\ Ahead(script, {Shown(w[1])}, ShownIn(t) \cup ToSet(q))
  <2>1. Shown(w[1]) \in ShownIn(w)
    BY <1>1, <1>4, IsShown
  <2>2. ASSUME NEW u \in ShownIn(t) PROVE Before(script, Shown(w[1]), u)
    <3>1. PICK i \in DOMAIN t : Readable(t[i]) /\ u = Shown(t[i])
      BY ShownFrom
    <3>. QED
      BY <1>1, <1>4, <3>1 DEF Line
  <2>. QED
    BY <2>1, <2>2 DEF Line, Ahead
<1>5. Line(script, t, q)
  BY <1>2, <1>3 DEF Line, Ahead
<1>. QED
  BY <1>1, <1>2, <1>4, <1>5 DEF t

-----------------------------------------------------------------------------
(* Messages in order, at the two ends of a stream *)

\* What each end sends
LEMMA LinedIs ==
  ASSUME NEW x, StreamOK(x), NEW n \in {x.from, x.to}, NEW p, p = OtherEnd(x, n),
         NEW y, Same(x, y), NEW h, NEW scripts
  PROVE  Lined(y, h, scripts) <=>
           /\ Way(scripts[n], y.wire[p], y.out[n], MessagesOf(h[p], n), y.task[p])
           /\ Way(scripts[p], y.wire[n], y.out[p], MessagesOf(h[n], p), y.task[n])
<1>1. /\ {x.from, x.to} = {n, p} /\ OtherEnd(x, p) = n
      /\ OtherEnd(y, n) = p /\ OtherEnd(y, p) = n /\ y.from = x.from /\ y.to = x.to
  <2>1. {x.from, x.to} = {n, p} /\ OtherEnd(x, p) = n /\ OtherEnd(y, n) = p
    BY OtherIs
  <2>2. OtherEnd(y, p) = OtherEnd(x, p)
    BY <2>1, OtherIs
  <2>. QED
    BY <2>1, <2>2 DEF Same
<1>. QED
  BY <1>1 DEF Lined, LineAt

\* An end is closed.
LEMMA LinedCloses ==
  ASSUME NEW x, StreamOK(x), NEW n \in {x.from, x.to}, NEW how \in {"ended", "aborted"},
         NEW y, ClosedAt(x, y, n, how), NEW h, NEW scripts, Lined(x, h, scripts)
  PROVE  Lined(y, h, scripts)
<1>. DEFINE p == OtherEnd(x, n)
<1>1. Same(x, x) /\ Same(x, y)
  BY SameIs DEF ClosedAt
<1>2. /\ y.task[n] = how /\ y.task[p] = x.task[p] /\ y.out[n] = <<>> /\ y.out[p] = x.out[p]
      /\ y.wire[n] = <<>> /\ Begins(y.wire[p], x.wire[p])
  BY DEF ClosedAt
<1>3. /\ Way(scripts[n], x.wire[p], x.out[n], MessagesOf(h[p], n), x.task[p])
      /\ Way(scripts[p], x.wire[n], x.out[p], MessagesOf(h[n], p), x.task[n])
  BY <1>1, LinedIs
<1>4. Line(scripts[n], y.wire[p], y.out[n]) /\ ShownIn(y.wire[p]) \subseteq ShownIn(x.wire[p])
  BY <1>2, <1>3, LineBegins DEF Way
<1>5. Line(scripts[p], y.wire[n], y.out[p])
  BY <1>2, <1>3, LineNone DEF Way
<1>6. Way(scripts[n], y.wire[p], y.out[n], MessagesOf(h[p], n), y.task[p])
  BY <1>2, <1>3, <1>4, ToSetEmpty DEF Way, Ahead
<1>7. Way(scripts[p], y.wire[n], y.out[p], MessagesOf(h[n], p), y.task[n])
  BY <1>2, <1>5 DEF Way
<1>. HIDE DEF p
<1>. QED
  BY <1>1, <1>6, <1>7, LinedIs DEF p

\* A stream is accepted.
LEMMA LinedRuns ==
  ASSUME NEW x, StreamOK(x), NEW n \in {x.from, x.to}, x.task[n] = "backlog",
         NEW y, RunsAt(x, y, n), NEW h, NEW scripts, Lined(x, h, scripts)
  PROVE  Lined(y, h, scripts)
<1>. DEFINE p == OtherEnd(x, n)
<1>1. Same(x, x) /\ Same(x, y)
  BY SameIs DEF RunsAt
<1>2. y.out = x.out /\ y.wire = x.wire /\ y.task[p] = x.task[p]
  BY DEF RunsAt
<1>3. /\ Way(scripts[n], x.wire[p], x.out[n], MessagesOf(h[p], n), x.task[p])
      /\ Way(scripts[p], x.wire[n], x.out[p], MessagesOf(h[n], p), x.task[n])
  BY <1>1, LinedIs
<1>4. Way(scripts[p], y.wire[n], y.out[p], MessagesOf(h[n], p), y.task[n])
  BY <1>2, <1>3 DEF Way
<1>5. Way(scripts[n], y.wire[p], y.out[n], MessagesOf(h[p], n), y.task[p])
  BY <1>2, <1>3
<1>. HIDE DEF p
<1>. QED
  BY <1>1, <1>4, <1>5, LinedIs DEF p

\* A message is put into the queue of a handler.
LEMMA LinedSends ==
  ASSUME NEW x, StreamOK(x), NEW n \in {x.from, x.to}, NEW m, NEW y,
         OutAt(x, y, n, Append(x.out[n], m)), NEW h, NEW scripts, Lined(x, h, scripts),
         LET p == OtherEnd(x, n)
         IN  Ahead(scripts[n], MessagesOf(h[p], n) \cup ShownIn(x.wire[p]) \cup ToSet(x.out[n]), {m})
  PROVE  Lined(y, h, scripts)
<1>. DEFINE p == OtherEnd(x, n)
<1>1. Same(x, x) /\ Same(x, y)
  BY SameIs DEF OutAt
<1>2. y.out[p] = x.out[p] /\ y.wire = x.wire /\ y.task = x.task /\ y.out[n] = Append(x.out[n], m)
  BY DEF OutAt
<1>3. /\ Way(scripts[n], x.wire[p], x.out[n], MessagesOf(h[p], n), x.task[p])
      /\ Way(scripts[p], x.wire[n], x.out[p], MessagesOf(h[n], p), x.task[n])
  BY <1>1, LinedIs
<1>4. x.out[n] \in Seq(ToSet(x.out[n]))
  BY QueuesOf
<1>5. ToSet(Append(x.out[n], m)) = ToSet(x.out[n]) \cup {m}
  BY <1>4, AppendIs
<1>6. Ahead(scripts[n], MessagesOf(h[p], n) \cup ShownIn(x.wire[p]) \cup ToSet(x.out[n]), {m})
  OBVIOUS
<1>. HIDE DEF p
<1>7. Line(scripts[n], x.wire[p], Append(x.out[n], m))
  <2>1. Ahead(scripts[n], ShownIn(x.wire[p]) \cup ToSet(x.out[n]), {m})
    BY <1>6 DEF Ahead
  <2>. QED
    BY <1>3, <1>4, <2>1, LineSends DEF Way
<1>8. Way(scripts[n], y.wire[p], y.out[n], MessagesOf(h[p], n), y.task[p])
  BY <1>2, <1>3, <1>5, <1>6, <1>7 DEF Way, Ahead
<1>9. Way(scripts[p], y.wire[n], y.out[p], MessagesOf(h[n], p), y.task[n])
  BY <1>2, <1>3
<1>. QED
  BY <1>1, <1>8, <1>9, LinedIs DEF p

\* A message that waits is lost.
LEMMA LinedLoses ==
  ASSUME NEW x, StreamOK(x), NEW n \in {x.from, x.to}, x.out[n] # <<>>, NEW y,
         OutAt(x, y, n, Tail(x.out[n])), NEW h, NEW scripts, Lined(x, h, scripts)
  PROVE  Lined(y, h, scripts)
<1>. DEFINE p == OtherEnd(x, n)
<1>1. Same(x, x) /\ Same(x, y)
  BY SameIs DEF OutAt
<1>2. y.out[p] = x.out[p] /\ y.wire = x.wire /\ y.task = x.task /\ y.out[n] = Tail(x.out[n])
  BY DEF OutAt
<1>3. /\ Way(scripts[n], x.wire[p], x.out[n], MessagesOf(h[p], n), x.task[p])
      /\ Way(scripts[p], x.wire[n], x.out[p], MessagesOf(h[n], p), x.task[n])
  BY <1>1, LinedIs
<1>. HIDE DEF p
<1>4. x.out[n] \in Seq(Message)
  BY QueuesOf
<1>5. Line(scripts[n], x.wire[p], Tail(x.out[n])) /\ ToSet(Tail(x.out[n])) \subseteq ToSet(x.out[n])
  BY <1>3, <1>4, LineLoses, TailIs DEF Way
<1>6. Way(scripts[n], y.wire[p], y.out[n], MessagesOf(h[p], n), y.task[p])
  BY <1>2, <1>3, <1>5 DEF Way, Ahead
<1>7. Way(scripts[p], y.wire[n], y.out[p], MessagesOf(h[n], p), y.task[n])
  BY <1>2, <1>3
<1>. QED
  BY <1>1, <1>6, <1>7, LinedIs DEF p

\* A branch is cancelled, or what is torn is read.
LEMMA LinedSpoils ==
  ASSUME NEW x, StreamOK(x), NEW y, NEW s, NEW g, Spoilt(x, y, s, g),
         NEW h, NEW scripts, Lined(x, h, scripts)
  PROVE  Lined(y, h, scripts)
<1>1. Same(x, y) /\ y.task = x.task /\ y.from = x.from /\ y.to = x.to /\ StreamOK(y)
  BY DEF Spoilt, Same
<1>. SUFFICES ASSUME NEW n \in {x.from, x.to} PROVE LineAt(y, n, h, scripts)
  BY <1>1 DEF Lined
<1>. DEFINE p == OtherEnd(x, n)
<1>2. p \in {x.from, x.to} /\ OtherEnd(y, n) = p
  BY <1>1, OtherIs
<1>3. ThinAt(x, y, n) /\ ThinAt(x, y, p)
  BY <1>2 DEF Spoilt
<1>4. Way(scripts[n], x.wire[p], x.out[n], MessagesOf(h[p], n), x.task[p])
  BY DEF Lined, LineAt
<1>. HIDE DEF p
<1>5. x.out[n] \in Seq(Message) /\ x.wire[p] \in Seq(Frames) /\ y.wire[p] \in Seq(Frames)
  BY <1>1, <1>2, QueuesOf
<1>6. PICK k \in Nat : Thins(y.wire[p], x.wire[p], k)
  BY <1>3 DEF ThinAt
<1>7. y.out[n] = x.out[n] \/ (x.out[n] # <<>> /\ y.out[n] = Tail(x.out[n]))
  BY <1>3 DEF ThinAt
<1>8. Way(scripts[n], y.wire[p], y.out[n], MessagesOf(h[p], n), x.task[p])
  BY <1>4, <1>5, <1>6, <1>7, WayThins
<1>. QED
  BY <1>1, <1>2, <1>8 DEF LineAt

\* The first of the messages that wait is written, as a frame.
LEMMA LinedWrites ==
  ASSUME NEW x, StreamOK(x), NEW n \in {x.from, x.to}, x.out[n] # <<>>,
         NEW y, WriteAt(x, y, n, Tail(x.out[n]),
                        Append(x.wire[OtherEnd(x, n)], Frame(Head(x.out[n])))),
         NEW h, NEW scripts, Lined(x, h, scripts)
  PROVE  Lined(y, h, scripts)
<1>. DEFINE p == OtherEnd(x, n)
<1>1. Same(x, x) /\ Same(x, y) /\ p \in {x.from, x.to}
  BY SameIs, OtherIs DEF WriteAt
<1>2. /\ y.out[p] = x.out[p] /\ y.wire[n] = x.wire[n] /\ y.task = x.task
      /\ y.out[n] = Tail(x.out[n]) /\ y.wire[p] = Append(x.wire[p], Frame(Head(x.out[n])))
  BY DEF WriteAt
<1>3. /\ Way(scripts[n], x.wire[p], x.out[n], MessagesOf(h[p], n), x.task[p])
      /\ Way(scripts[p], x.wire[n], x.out[p], MessagesOf(h[n], p), x.task[n])
  BY <1>1, LinedIs
<1>. HIDE DEF p
<1>4. x.out[n] \in Seq(Message) /\ x.wire[p] \in Seq(Frames)
  BY <1>1, QueuesOf
<1>5. /\ Line(scripts[n], y.wire[p], y.out[n]) /\ ShownIn(y.wire[p]) \subseteq ShownIn(x.wire[p]) \cup {Head(x.out[n])}
      /\ Head(x.out[n]) \in ToSet(x.out[n]) /\ ToSet(y.out[n]) \subseteq ToSet(x.out[n])
  BY <1>2, <1>3, <1>4, LineWrites, TailIs DEF Way
<1>6. Way(scripts[n], y.wire[p], y.out[n], MessagesOf(h[p], n), y.task[p])
  BY <1>2, <1>3, <1>5 DEF Way, Ahead
<1>7. Way(scripts[p], y.wire[n], y.out[p], MessagesOf(h[n], p), y.task[n])
  BY <1>2, <1>3
<1>. QED
  BY <1>1, <1>6, <1>7, LinedIs DEF p

\* The first frame is read.  The node hears at most its message.
LEMMA LinedReads ==
  ASSUME NEW x, StreamOK(x), NEW n \in {x.from, x.to}, x.task[n] = "running", x.wire[n] # <<>>,
         NEW y, WireAt(x, y, n, Tail(x.wire[n])), NEW h, NEW k, NEW scripts, Lined(x, h, scripts),
         Readable(Head(x.wire[n])),
         LET p == OtherEnd(x, n)
         IN  /\ MessagesOf(k[n], p) \subseteq MessagesOf(h[n], p) \cup {Shown(Head(x.wire[n]))}
             /\ k[p] = h[p]
  PROVE  Lined(y, k, scripts)
<1>. DEFINE p == OtherEnd(x, n)
<1>1. Same(x, x) /\ Same(x, y)
  BY SameIs DEF WireAt
<1>2. /\ y.out = x.out /\ y.wire[p] = x.wire[p] /\ y.task = x.task
      /\ y.wire[n] = Tail(x.wire[n])
  BY DEF WireAt
<1>3. /\ Way(scripts[n], x.wire[p], x.out[n], MessagesOf(h[p], n), x.task[p])
      /\ Way(scripts[p], x.wire[n], x.out[p], MessagesOf(h[n], p), x.task[n])
  BY <1>1, LinedIs
<1>8. MessagesOf(k[n], p) \subseteq MessagesOf(h[n], p) \cup {Shown(Head(x.wire[n]))} /\ k[p] = h[p]
  OBVIOUS
<1>. HIDE DEF p
<1>4. x.wire[n] \in Seq(Frames)
  BY QueuesOf
<1>5. /\ Line(scripts[p], y.wire[n], y.out[p]) /\ ShownIn(y.wire[n]) \subseteq ShownIn(x.wire[n])
      /\ Ahead(scripts[p], {Shown(Head(x.wire[n]))}, ShownIn(y.wire[n]) \cup ToSet(y.out[p]))
  BY <1>2, <1>3, <1>4, LineReads DEF Way
<1>6. Way(scripts[n], y.wire[p], y.out[n], MessagesOf(k[p], n), y.task[p])
  BY <1>2, <1>3, <1>8
<1>7. Way(scripts[p], y.wire[n], y.out[p], MessagesOf(k[n], p), y.task[n])
  BY <1>2, <1>3, <1>5, <1>8 DEF Way, Ahead
<1>. QED
  BY <1>1, <1>6, <1>7, LinedIs DEF p

\* A stream is opened, and a message sent on it.
LEMMA LinedNew ==
  ASSUME NEW n \in Nodes, NEW p \in Nodes, n # p, NEW m \in Message, NEW x, NewAt(x, n, p, m),
         NEW h, NEW scripts, Ahead(scripts[n], MessagesOf(h[p], n), {m})
  PROVE  Lined(x, h, scripts)
<1>1. /\ StreamOK(x) /\ n \in {x.from, x.to} /\ p = OtherEnd(x, n)
      /\ x.out[n] = <<m>> /\ x.out[p] = <<>> /\ x.wire[n] = <<>> /\ x.wire[p] = <<>>
  BY DEF NewAt, OtherEnd
<1>2. DOMAIN <<m>> = {1} /\ <<m>>[1] = m /\ DOMAIN <<>> = {} /\ ToSet(<<m>>) = {m}
  BY DEF ToSet
<1>3. ShownIn(<<>>) = {}
  BY <1>2 DEF ShownIn, ToSet
<1>4. Line(scripts[n], <<>>, <<m>>) /\ Line(scripts[p], <<>>, <<>>)
  BY <1>2, <1>3, ToSetEmpty DEF Line, Ahead
<1>5. Way(scripts[n], x.wire[p], x.out[n], MessagesOf(h[p], n), x.task[p])
  BY <1>1, <1>2, <1>3, <1>4 DEF Way
<1>6. Way(scripts[p], x.wire[n], x.out[p], MessagesOf(h[n], p), x.task[n])
  BY <1>1, <1>3, <1>4, ToSetEmpty DEF Way, Ahead
<1>. QED
  BY <1>1, <1>5, <1>6, LinedIs, SameIs

\* An end hears more, which comes before what is under way to it.
LEMMA LinedHears ==
  ASSUME NEW x, StreamOK(x), NEW h, NEW k, NEW scripts, Lined(x, h, scripts),
         \A n \in {x.from, x.to} :
           LET p == OtherEnd(x, n)
           IN  \A u \in MessagesOf(k[p], n) :
                 \/ u \in MessagesOf(h[p], n)
                 \/ x.task[p] \in {"backlog", "running"}
                      => Ahead(scripts[n], {u}, ShownIn(x.wire[p]) \cup ToSet(x.out[n]))
  PROVE  Lined(x, k, scripts)
BY DEF Lined, LineAt, Way, Ahead

-----------------------------------------------------------------------------
(* The script of a node *)

\* A script that is there, and what is left of it
LEMMA ScriptsAre ==
  ASSUME TypeOK, NEW n \in Nodes
  PROVE  /\ plan.script[n] \in Seq(Addressed) /\ Len(plan.script[n]) \in Nat
         /\ DOMAIN plan.script[n] = 1..Len(plan.script[n])
         /\ todo[n] \in Seq(Addressed) /\ Len(todo[n]) \in Nat /\ DOMAIN todo[n] = 1..Len(todo[n])
<1>1. plan.script[n] \in Seq(Addressed)
  BY ScenariosAssumption DEF TypeOK, Addressed
<1>2. todo[n] \in Seq(Addressed)
  BY DEF TypeOK
<1>. QED
  BY <1>1, <1>2

\* The next message stands in one place of the script, behind those that were taken.
LEMMA NextPlace ==
  ASSUME TypeOK, ScriptLeft, DistinctScripts, NEW n \in Nodes, todo[n] # <<>>
  PROVE  /\ TakenBy(n) \in Nat
         /\ Places(plan.script[n], Head(todo[n]).msg) = {TakenBy(n) + 1}
<1>. DEFINE r == plan.script[n]
            q == todo[n]
            k == TakenBy(n) + 1
<1>1. /\ r \in Seq(Addressed) /\ Len(r) \in Nat /\ DOMAIN r = 1..Len(r)
      /\ q \in Seq(Addressed) /\ Len(q) \in Nat /\ DOMAIN q = 1..Len(q)
  BY ScriptsAre
<1>2. Len(q) <= Len(r) /\ TakenBy(n) = Len(r) - Len(q) /\ \A i \in DOMAIN q : q[i] = r[TakenBy(n) + i]
  BY DEF ScriptLeft, TakenBy
<1>3. \A i, j \in DOMAIN r : r[i].msg = r[j].msg => i = j
  BY DEF DistinctScripts, TypeOK
<1>. HIDE DEF r, q
<1>4. q # <<>>
  BY DEF q
<1>5. Len(q) >= 1 /\ 1 \in DOMAIN q /\ Head(q) = q[1]
  BY <1>1, <1>4
<1>6. TakenBy(n) \in Nat /\ k \in DOMAIN r /\ r[k] = Head(q)
  BY <1>1, <1>2, <1>5
<1>. HIDE DEF k
<1>7. Places(r, Head(q).msg) = {k}
  BY <1>3, <1>6 DEF Places
<1>. QED
  BY <1>6, <1>7 DEF r, q, k

\* What comes before is one of those that were taken.
LEMMA NextAfter ==
  ASSUME TypeOK, ScriptLeft, DistinctScripts, NEW n \in Nodes, todo[n] # <<>>,
         NEW u, Done(plan.script[n], TakenBy(n), u)
  PROVE  Before(plan.script[n], u, Head(todo[n]).msg)
<1>. DEFINE r == plan.script[n]
            m == Head(todo[n]).msg
            k == TakenBy(n)
<1>1. k \in Nat /\ Places(r, m) = {k + 1}
  BY NextPlace
<1>2. \A i \in Places(r, u) : i \in Nat /\ i <= k
  BY ScriptsAre DEF Done, Places
<1>. HIDE DEF r, m, k
<1>3. Before(r, u, m)
  BY <1>1, <1>2 DEF Before
<1>. QED
  BY <1>3 DEF r, m

\* The scripts are followed: what is done stays done.
Proceeds ==
  /\ plan' = plan /\ ScriptLeft'
  /\ \A n \in Nodes : \A u : Done(plan.script[n], TakenBy(n), u) => Done(plan.script[n], TakenBy(n)', u)

\* No message is taken.
LEMMA ProceedsIdle ==
  ASSUME ScriptLeft, plan' = plan, todo' = todo
  PROVE  Proceeds
BY DEF Proceeds, ScriptLeft, TakenBy

\* The next message of n is taken.
LEMMA ProceedsTaken ==
  ASSUME TypeOK, ScriptLeft, DistinctScripts, plan' = plan, NEW n \in Nodes, todo[n] # <<>>,
         todo' = [todo EXCEPT ![n] = Tail(@)]
  PROVE  Proceeds /\ Done(plan.script[n], TakenBy(n)', Head(todo[n]).msg)
<1>. DEFINE r == plan.script[n]
            q == todo[n]
            k == TakenBy(n)
<1>1. /\ r \in Seq(Addressed) /\ Len(r) \in Nat /\ DOMAIN r = 1..Len(r)
      /\ q \in Seq(Addressed) /\ Len(q) \in Nat /\ DOMAIN q = 1..Len(q)
  BY ScriptsAre
<1>2. Len(q) <= Len(r) /\ k = Len(r) - Len(q) /\ \A i \in DOMAIN q : q[i] = r[k + i]
  BY DEF ScriptLeft, TakenBy
<1>3. k \in Nat /\ Places(r, Head(q).msg) = {k + 1}
  BY NextPlace
<1>4. todo'[n] = Tail(q) /\ \A m \in Nodes \ {n} : todo'[m] = todo[m]
  BY DEF TypeOK
<1>5. \A m \in Nodes \ {n} : TakenBy(m)' = TakenBy(m)
  BY <1>4 DEF TakenBy
<1>6. TakenBy(n)' = Len(r) - Len(Tail(q))
  BY <1>4 DEF TakenBy
<1>7. q # <<>>
  OBVIOUS
<1>. HIDE DEF r, q, k
<1>8. /\ Len(Tail(q)) = Len(q) - 1 /\ DOMAIN Tail(q) = 1..(Len(q) - 1)
      /\ \A i \in 1..(Len(q) - 1) : Tail(q)[i] = q[i + 1] /\ i + 1 \in 1..Len(q)
  BY <1>1, <1>7
<1>9. TakenBy(n)' = k + 1 /\ Len(Tail(q)) <= Len(r)
  <2>1. \A a, b \in Nat : b <= a => a - (b - 1) = (a - b) + 1 /\ b - 1 <= a
    OBVIOUS
  <2>2. Len(r) - (Len(q) - 1) = (Len(r) - Len(q)) + 1 /\ Len(q) - 1 <= Len(r)
    BY <1>1, <1>2, <2>1
  <2>3. TakenBy(n)' = Len(r) - (Len(q) - 1)
    BY <1>6, <1>8
  <2>. QED
    BY <1>2, <1>8, <2>2, <2>3
<1>10. ASSUME NEW i \in DOMAIN Tail(q) PROVE Tail(q)[i] = r[(k + 1) + i]
  <2>1. i \in Nat /\ k + (i + 1) = (k + 1) + i
    BY <1>1, <1>3, <1>8
  <2>. QED
    BY <1>1, <1>2, <1>8, <2>1
<1>11. ScriptLeft'
  <2>. SUFFICES ASSUME NEW m \in Nodes
                PROVE  /\ Len(todo'[m]) <= Len(plan.script[m])
                       /\ \A i \in DOMAIN todo'[m] : todo'[m][i] = plan.script[m][TakenBy(m)' + i]
    BY DEF ScriptLeft
  <2>1. CASE m = n
    BY <1>4, <1>9, <1>10, <2>1 DEF r
  <2>2. CASE m # n
    BY <1>4, <1>5, <2>2 DEF ScriptLeft
  <2>. QED
    BY <2>1, <2>2
<1>12. ASSUME NEW m \in Nodes, NEW u, Done(plan.script[m], TakenBy(m), u)
       PROVE  Done(plan.script[m], TakenBy(m)', u)
  <2>1. CASE m = n
    <3>1. \A i \in Places(r, u) : i \in Nat /\ i <= k
      BY <1>1, <1>12, <2>1 DEF Done, Places, r, k
    <3>2. \A i \in Places(r, u) : i <= k + 1
      BY <1>3, <3>1
    <3>. QED
      BY <1>9, <1>12, <2>1, <3>2 DEF Done, r
  <2>2. CASE m # n
    BY <1>5, <1>12, <2>2
  <2>. QED
    BY <2>1, <2>2
<1>13. Done(r, k + 1, Head(q).msg)
  BY <1>3 DEF Done
<1>. QED
  BY <1>9, <1>11, <1>12, <1>13 DEF Proceeds, r, q

\* What was sent is done, and stays so when a message is sent, which then is done, too.
LEMMA SentIdle ==
  ASSUME SentDone, Proceeds, sent' = sent
  PROVE  SentDone'
BY DEF SentDone, Proceeds

\* A message that is taken and sent
LEMMA SentMore ==
  ASSUME TypeOK, SentDone, Proceeds, NEW n \in Nodes, todo[n] # <<>>, NEW id \in Nat, Taken(n, id),
         Done(plan.script[n], TakenBy(n)', Head(todo[n]).msg)
  PROVE  SentDone'
<1>. DEFINE e == [msg |-> Head(todo[n]), stream |-> id]
<1>1. sent'[n] = Append(sent[n], e) /\ \A m \in Nodes \ {n} : sent'[m] = sent[m]
  BY TakenIs
<1>2. sent[n] \in Seq(ToSet(sent[n])) /\ e.msg = Head(todo[n])
  <2>1. sent[n] \in Seq([msg : Addressed, stream : Nat])
    BY DEF TypeOK
  <2>. QED
    BY <2>1, SeqOfItself
<1>. HIDE DEF e
<1>3. PICK r : r = sent'[n]
  OBVIOUS
<1>4. /\ DOMAIN r = DOMAIN sent[n] \cup {Len(sent[n]) + 1} /\ r[Len(sent[n]) + 1] = e
      /\ \A i \in DOMAIN sent[n] : r[i] = sent[n][i]
  BY <1>1, <1>2, <1>3, AppendIs
<1>5. ASSUME NEW i \in DOMAIN r PROVE Done(plan.script[n], TakenBy(n)', r[i].msg.msg)
  <2>1. CASE i \in DOMAIN sent[n]
    BY <1>4, <2>1 DEF SentDone, Proceeds
  <2>2. CASE i = Len(sent[n]) + 1
    BY <1>2, <1>4, <2>2
  <2>. QED
    BY <1>4, <2>1, <2>2
<1>6. \A m \in Nodes \ {n} : \A i \in DOMAIN sent'[m] : Done(plan.script[m], TakenBy(m)', sent'[m][i].msg.msg)
  BY <1>1 DEF SentDone, Proceeds
<1>. QED
  BY <1>3, <1>5, <1>6 DEF SentDone, Proceeds

\* What was sent on a stream is done.
LEMMA CarriedDone ==
  ASSUME SentDone, NEW n \in Nodes, NEW s, NEW u \in Carried(s)[n]
  PROVE  Done(plan.script[n], TakenBy(n), u)
BY DEF SentDone, Carried, Carries

\* What a node has heard is done.
LEMMA HeardDone ==
  ASSUME HeardInOrder, NEW m \in Nodes, NEW n \in Nodes, NEW u \in MessagesOf(Heard[n], m)
  PROVE  Done(plan.script[m], TakenBy(m), u)
BY DEF HeardInOrder, MessagesOf, Heard, ToSet

-----------------------------------------------------------------------------
(* What nodes hear and what streams are *)

\* A stream that crosses another one stays.
LEMMA CrossedStays ==
  ASSUME Grows
  PROVE  /\ \A m, n : Crossed(m, n) => Crossed(m, n)'
         /\ \A s \in DOMAIN streams : Uncrossed(s)' => Uncrossed(s)
<1>1. ASSUME NEW m, NEW n, Crossed(m, n) PROVE Crossed(m, n)'
  <2>1. PICK s \in DOMAIN streams : streams[s].crosses /\ Ends(s) = {m, n}
    BY <1>1 DEF Crossed
  <2>2. s \in DOMAIN streams' /\ streams'[s].crosses /\ Ends(s)' = {m, n}
    BY <2>1 DEF Grows, Same, Ends
  <2>. QED
    BY <2>2 DEF Crossed
<1>2. ASSUME NEW s \in DOMAIN streams, Uncrossed(s)' PROVE Uncrossed(s)
  <2>1. streams'[s].from = streams[s].from /\ streams'[s].to = streams[s].to
    BY DEF Grows, Same
  <2>. QED
    BY <1>1, <1>2, <2>1 DEF Uncrossed
<1>. QED
  BY <1>1, <1>2

\* Streams of the same nodes are crossed or not together.
LEMMA UncrossedEnds ==
  ASSUME NEW s, NEW t, Ends(s) = Ends(t), Uncrossed(s)
  PROVE  Uncrossed(t)
BY DEF Uncrossed, Crossed, Ends

\* Two nodes are crossed in both directions or in none.
LEMMA CrossedBoth ==
  ASSUME NEW m, NEW n, NEW s, Ends(s) = {m, n}
  PROVE  Uncrossed(s) <=> ~Crossed(m, n)
BY DEF Uncrossed, Crossed, Ends

\* One more event: it is the last one.
LEMMA HeardAppends ==
  ASSUME TypeOK, NEW n \in Nodes, NEW e, Event(n, e)
  PROVE  /\ \A m \in Nodes \ {n} : received'[m] = received[m]
         /\ Len(received[n]) \in Nat /\ DOMAIN received[n] = 1..Len(received[n])
         /\ DOMAIN received'[n] = 1..(Len(received[n]) + 1)
         /\ received'[n][Len(received[n]) + 1] = e
         /\ \A i \in DOMAIN received[n] : received'[n][i] = received[n][i]
         /\ ToSet(received'[n]) = ToSet(received[n]) \cup {e}
<1>1. received[n] \in Seq(ToSet(received[n])) /\ DOMAIN received = Nodes
  BY DEF TypeOK
<1>2. PICK q : q = received[n]
  OBVIOUS
<1>3. PICK r : r = received'[n]
  OBVIOUS
<1>4. r = Append(q, e) /\ \A m \in Nodes \ {n} : received'[m] = received[m]
  BY <1>1, <1>2, <1>3 DEF Event
<1>5. q \in Seq(ToSet(q))
  BY <1>1, <1>2
<1>6. /\ Len(q) \in Nat /\ DOMAIN q = 1..Len(q) /\ DOMAIN r = DOMAIN q \cup {Len(q) + 1}
      /\ r[Len(q) + 1] = e /\ \A i \in DOMAIN q : r[i] = q[i] /\ ToSet(r) = ToSet(q) \cup {e}
  BY <1>4, <1>5, AppendIs
<1>7. DOMAIN r = 1..(Len(q) + 1)
  BY <1>6
<1>8. ToSet(r) = ToSet(q) \cup {e}
  BY <1>4, <1>5, AppendIs
<1>. QED
  BY <1>2, <1>3, <1>4, <1>6, <1>7, <1>8

\* What is heard stays in order when the next message comes in order.
LEMMA HeardOne ==
  ASSUME TypeOK, HeardInOrder, Proceeds, Grows, NEW n \in Nodes, NEW e, Event(n, e),
         \A m \in Nodes : From(e, m) =>
           /\ Done(plan.script[m], TakenBy(m), e.msg)
           /\ \/ Crossed(m, n)
              \/ \A i \in DOMAIN received[n] :
                   From(received[n][i], m) => Before(plan.script[m], received[n][i].msg, e.msg)
  PROVE  HeardInOrder'
<1>. SUFFICES ASSUME NEW m \in Nodes, NEW k \in Nodes, NEW j \in DOMAIN received'[k],
                     From(received'[k][j], m)
              PROVE  /\ Done(plan.script[m], TakenBy(m)', received'[k][j].msg)
                     /\ \/ Crossed(m, k)'
                        \/ \A i \in 1..(j - 1) : From(received'[k][i], m) =>
                             Before(plan.script[m], received'[k][i].msg, received'[k][j].msg)
  BY DEF HeardInOrder, Proceeds
<1>1. \A u : Done(plan.script[m], TakenBy(m), u) => Done(plan.script[m], TakenBy(m)', u)
  BY DEF Proceeds
<1>2. Crossed(m, k) => Crossed(m, k)'
  BY CrossedStays
<1>3. CASE k # n
  <2>1. received'[k] = received[k]
    BY <1>3, HeardAppends
  <2>. QED
    BY <1>1, <1>2, <2>1 DEF HeardInOrder
<1>4. CASE k = n
  <2>. DEFINE q == received[n]
              r == received'[n]
  <2>1. /\ Len(q) \in Nat /\ DOMAIN q = 1..Len(q) /\ DOMAIN r = 1..(Len(q) + 1)
        /\ r[Len(q) + 1] = e /\ \A i \in DOMAIN q : r[i] = q[i]
    BY HeardAppends
  <2>2. j \in 1..(Len(q) + 1)
    BY <1>4, <2>1
  <2>3. \A i \in 1..(j - 1) : i \in DOMAIN q
    BY <2>1, <2>2
  <2>4. CASE j = Len(q) + 1
    <3>1. r[j] = e /\ From(e, m)
      BY <1>4, <2>1, <2>4
    <3>2. \A i \in 1..(j - 1) : r[i] = q[i]
      BY <2>1, <2>3
    <3>. QED
      BY <1>1, <1>2, <1>4, <2>3, <3>1, <3>2
  <2>5. CASE j # Len(q) + 1
    <3>1. j \in DOMAIN q /\ r[j] = q[j] /\ From(q[j], m)
      BY <1>4, <2>1, <2>2, <2>5
    <3>2. \A i \in 1..(j - 1) : r[i] = q[i]
      BY <2>1, <2>3
    <3>. QED
      BY <1>1, <1>2, <1>4, <3>1, <3>2 DEF HeardInOrder
  <2>. QED
    BY <2>4, <2>5
<1>. QED
  BY <1>3, <1>4

\* Nothing is heard.
LEMMA HeardNone ==
  ASSUME HeardInOrder, Proceeds, Grows, received' = received
  PROVE  HeardInOrder'
<1>. SUFFICES ASSUME NEW m \in Nodes, NEW k \in Nodes, NEW j \in DOMAIN received[k],
                     From(received[k][j], m)
              PROVE  /\ Done(plan.script[m], TakenBy(m)', received[k][j].msg)
                     /\ \/ Crossed(m, k)'
                        \/ \A i \in 1..(j - 1) : From(received[k][i], m) =>
                             Before(plan.script[m], received[k][i].msg, received[k][j].msg)
  BY DEF HeardInOrder, Proceeds
<1>1. Crossed(m, k) => Crossed(m, k)'
  BY CrossedStays
<1>. QED
  BY <1>1 DEF HeardInOrder, Proceeds

\* The messages of a node do not change when another one tells of something.
LEMMA MessagesMore ==
  ASSUME TypeOK, NEW n \in Nodes, NEW e, Event(n, e)
  PROVE  /\ \A m \in Nodes \ {n} : Heard'[m] = Heard[m]
         /\ \A q : MessagesOf(Heard'[n], q) \subseteq MessagesOf(Heard[n], q) \cup {e.msg}
         /\ \A q : ~From(e, q) => MessagesOf(Heard'[n], q) = MessagesOf(Heard[n], q)
<1>1. Heard'[n] = Heard[n] \cup {e} /\ \A m \in Nodes \ {n} : Heard'[m] = Heard[m]
  BY HeardAppends DEF Heard
<1>. QED
  BY <1>1 DEF MessagesOf

NoMessage == \A m, n \in Nodes : MessagesOf(Heard'[m], n) = MessagesOf(Heard[m], n)

\* No message is heard: what is in order stays in order.
LEMMA LinedDeaf ==
  ASSUME NEW x, StreamOK(x), NEW scripts, Lined(x, Heard, scripts), NoMessage
  PROVE  Lined(x, Heard', scripts)
<1>1. ASSUME NEW n \in {x.from, x.to} PROVE n \in Nodes /\ OtherEnd(x, n) \in Nodes
  BY OtherIs
<1>. QED
  BY <1>1 DEF Lined, LineAt, NoMessage

-----------------------------------------------------------------------------
(* Streams of the same nodes *)

\* A task of y runs, or waits to be started, only if it did in x.
Settles(x, y) ==
  /\ StreamOK(x) /\ Same(x, y)
  /\ \A n \in {x.from, x.to} : /\ y.task[n] = "running" => x.task[n] = "running"
                               /\ y.task[n] = "backlog" => x.task[n] = "backlog"

\* Streams that go on like this follow each other as before.
LEMMA FollowsSettles ==
  ASSUME NEW x, NEW y, NEW v, NEW w, Settles(x, v), Settles(y, w), {x.from, x.to} = {y.from, y.to},
         NEW c, NEW d, NEW scripts, Follows(x, y, c, d, scripts)
  PROVE  Follows(v, w, c, d, scripts)
<1>. SUFFICES ASSUME NEW n \in {v.from, v.to} PROVE FollowsAt(v, w, n, c, d, scripts)
  BY DEF Follows
<1>1. n \in {x.from, x.to} /\ n \in {y.from, y.to} /\ StreamOK(v) /\ n \in {v.from, v.to}
  BY DEF Settles, Same
<1>2. FollowsAt(x, y, n, c, d, scripts)
  BY <1>1 DEF Follows
<1>3. v.task[n] \in Tasks
  BY <1>1, QueuesOf
<1>4. ~(v.task[n] = "running") /\ ~(v.task[n] = "backlog") => v.task[n] \in {"ended", "aborted"}
  BY <1>3 DEF Tasks
<1>5. w.task[n] = "running" => y.task[n] = "running"
  BY <1>1 DEF Settles
<1>6. x.task[n] \in {"ended", "aborted"} => v.task[n] \in {"ended", "aborted"}
  BY <1>1, <1>4 DEF Settles
<1>. QED
  BY <1>2, <1>5, <1>6 DEF FollowsAt

\* Without a new stream and a new task all streams go on like this.
LEMMA CalmSettles ==
  ASSUME TypeOK, Calm, NEW s \in DOMAIN streams
  PROVE  Settles(streams[s], streams'[s])
BY DEF TypeOK, Calm, Grows, Settles, Ends

\* A stream that stays as it is
LEMMA SettlesStays == ASSUME NEW x, StreamOK(x) PROVE Settles(x, x)
  BY SameIs DEF Settles

\* An end that is closed
LEMMA SettlesCloses ==
  ASSUME NEW x, StreamOK(x), NEW n \in {x.from, x.to}, NEW how \in {"ended", "aborted"},
         NEW y, ClosedAt(x, y, n, how)
  PROVE  Settles(x, y)
<1>1. {x.from, x.to} = {n, OtherEnd(x, n)}
  BY OtherIs
<1>. QED
  BY <1>1 DEF Settles, ClosedAt

-----------------------------------------------------------------------------
(* The order of the messages, step by step *)

\* Without a new stream and a new message streams follow each other as before.
LEMMA FollowsCalm ==
  ASSUME TypeOK, Calm, AllFollow, plan' = plan, sent' = sent
  PROVE  AllFollow'
<1>1. Grows /\ DOMAIN streams' = DOMAIN streams
  BY DEF Calm
<1>2. ASSUME NEW s \in DOMAIN streams', NEW t \in DOMAIN streams', Uncrossed(s)', Parallel(s, t)'
      PROVE  Follows(streams'[s], streams'[t], Carried(s)', Carried(t)', plan'.script)
  <2>1. Uncrossed(s) /\ s \in DOMAIN streams /\ t \in DOMAIN streams
    BY <1>1, <1>2, CrossedStays
  <2>2. s < t /\ Ends(s) = Ends(t)
    BY <1>1, <1>2, <2>1 DEF Parallel, Grows, Same, Ends
  <2>3. Settles(streams[s], streams'[s]) /\ Settles(streams[t], streams'[t])
    BY <1>1, <2>1, CalmSettles
  <2>4. Follows(streams[s], streams[t], Carried(s), Carried(t), plan.script)
    BY <2>1, <2>2 DEF AllFollow, Parallel
  <2>5. {streams[s].from, streams[s].to} = {streams[t].from, streams[t].to}
    BY <2>2 DEF Ends
  <2>6. Follows(streams'[s], streams'[t], Carried(s), Carried(t), plan.script)
    BY <2>3, <2>4, <2>5, FollowsSettles
  <2>. QED
    BY <1>1, <2>6, CarriedSame
<1>. QED
  BY <1>2 DEF AllFollow

\* No stream is opened, no message is sent and none is heard.
LEMMA CalmOrder ==
  ASSUME OwnInv, OrderInv, Calm, Proceeds, sent' = sent, HeardInOrder', NoMessage,
         \A s \in DOMAIN streams : Lined(streams[s], Heard, plan.script)
                                     => Lined(streams'[s], Heard, plan.script)
  PROVE  OrderInv'
<1>1. TypeOK /\ Grows /\ DOMAIN streams' = DOMAIN streams /\ plan' = plan
  BY DEF OwnInv, Calm, Proceeds
<1>2. SentDone'
  BY SentIdle DEF OrderInv
<1>3. ASSUME NEW s \in DOMAIN streams', Uncrossed(s)' PROVE Lined(streams'[s], Heard', plan'.script)
  <2>1. Uncrossed(s) /\ s \in DOMAIN streams
    BY <1>1, <1>3, CrossedStays
  <2>2. Lined(streams'[s], Heard, plan.script) /\ StreamOK(streams'[s])
    BY <1>1, <2>1 DEF OrderInv, AllLined, Grows, Same
  <2>. QED
    BY <1>1, <2>2, LinedDeaf
<1>4. AllFollow'
  BY <1>1, FollowsCalm DEF OrderInv
<1>. QED
  BY <1>1, <1>2, <1>3, <1>4 DEF OrderInv, AllLined, Proceeds

\* What a node hears is no message.
LEMMA NewsOrder ==
  ASSUME OwnInv, OrderInv, Calm, UNCHANGED <<plan, todo, sent>>, NEW n \in Nodes, NEW e,
         Event(n, e), e.type # "message",
         \A s \in DOMAIN streams : Lined(streams[s], Heard, plan.script)
                                     => Lined(streams'[s], Heard, plan.script)
  PROVE  OrderInv'
<1>1. TypeOK /\ Grows /\ Proceeds
  BY ProceedsIdle DEF OwnInv, OrderInv, Calm
<1>2. \A m : ~From(e, m)
  BY DEF From
<1>3. HeardInOrder'
  BY <1>1, <1>2, HeardOne DEF OrderInv
<1>4. NoMessage
  BY <1>1, <1>2, MessagesMore DEF NoMessage
<1>. QED
  BY <1>1, <1>3, <1>4, CalmOrder

\* No node hears anything.
LEMMA SilentOrder ==
  ASSUME OwnInv, OrderInv, Calm, UNCHANGED <<plan, todo, received, sent>>,
         \A s \in DOMAIN streams : Lined(streams[s], Heard, plan.script)
                                     => Lined(streams'[s], Heard, plan.script)
  PROVE  OrderInv'
<1>1. TypeOK /\ Grows /\ Proceeds
  BY ProceedsIdle DEF OwnInv, OrderInv, Calm
<1>2. HeardInOrder'
  BY <1>1, HeardNone DEF OrderInv
<1>3. NoMessage
  BY HeardSame DEF NoMessage
<1>. QED
  BY <1>1, <1>2, <1>3, CalmOrder

\* Streams that stay as they are
LEMMA StreamsCalm ==
  ASSUME TypeOK, streams' = streams
  PROVE  Calm
BY StreamsType, SameIs DEF Calm, Grows, StreamsOK

\* Nothing happens to the streams; a message may be taken that is not sent.
LEMMA StillOrder ==
  ASSUME OwnInv, OrderInv, DistinctScripts, plan' = plan, streams' = streams, received' = received,
         sent' = sent,
         \/ todo' = todo
         \/ \E n \in Nodes : todo[n] # <<>> /\ todo' = [todo EXCEPT ![n] = Tail(@)]
  PROVE  OrderInv'
<1>1. TypeOK /\ Calm /\ Grows
  BY StreamsCalm DEF OwnInv, Calm
<1>2. Proceeds
  BY <1>1, ProceedsIdle, ProceedsTaken DEF OrderInv
<1>3. HeardInOrder'
  BY <1>1, <1>2, HeardNone DEF OrderInv
<1>4. NoMessage
  BY HeardSame DEF NoMessage
<1>. QED
  BY <1>1, <1>2, <1>3, <1>4, CalmOrder

\* The streams that are closed keep the order of their messages.
LEMMA ClosesLined ==
  ASSUME TypeOK, NEW n, NEW ids \in SUBSET DOMAIN streams, \A s \in ids : n \in Ends(s),
         NEW how \in {"ended", "aborted"}, ClosesAll(streams, streams', n, ids, how)
  PROVE  \A s \in DOMAIN streams : Lined(streams[s], Heard, plan.script)
                                     => Lined(streams'[s], Heard, plan.script)
<1>. SUFFICES ASSUME NEW s \in DOMAIN streams, Lined(streams[s], Heard, plan.script)
              PROVE  Lined(streams'[s], Heard, plan.script)
  OBVIOUS
<1>1. StreamOK(streams[s])
  BY DEF TypeOK
<1>2. CASE s \in ids
  <2>1. ClosedAt(streams[s], streams'[s], n, how) /\ n \in {streams[s].from, streams[s].to}
    BY <1>2 DEF ClosesAll, Ends
  <2>. QED
    BY <1>1, <2>1, LinedCloses
<1>3. CASE s \notin ids
  BY <1>3 DEF ClosesAll
<1>. QED
  BY <1>2, <1>3

\* One stream changes.
LEMMA OneLined ==
  ASSUME NEW s \in DOMAIN streams, OneStream(s),
         Lined(streams[s], Heard, plan.script) => Lined(streams'[s], Heard, plan.script)
  PROVE  \A t \in DOMAIN streams : Lined(streams[t], Heard, plan.script)
                                     => Lined(streams'[t], Heard, plan.script)
BY DEF OneStream

\* A task that ends
LEMMA TaskEndsLined ==
  ASSUME TypeOK, NEW s \in DOMAIN streams, NEW n \in Ends(s), TaskEnds(s, n)
  PROVE  Calm /\ \A t \in DOMAIN streams : Lined(streams[t], Heard, plan.script)
                                             => Lined(streams'[t], Heard, plan.script)
<1>1. Calm /\ OneStream(s) /\ ClosedAt(streams[s], streams'[s], n, "ended")
  BY TaskEndsIs
<1>2. StreamOK(streams[s]) /\ n \in {streams[s].from, streams[s].to}
  BY DEF TypeOK, Ends
<1>3. Lined(streams[s], Heard, plan.script) => Lined(streams'[s], Heard, plan.script)
  BY <1>1, <1>2, LinedCloses
<1>. QED
  BY <1>1, <1>3, OneLined

\* A node closes all its streams.
LEMMA MineLined ==
  ASSUME TypeOK, NEW n \in Nodes, streams' \in Closing(n, Mine(n), "aborted", streams)
  PROVE  Calm /\ \A t \in DOMAIN streams : Lined(streams[t], Heard, plan.script)
                                             => Lined(streams'[t], Heard, plan.script)
<1>1. Calm /\ ClosesAll(streams, streams', n, Mine(n), "aborted")
  BY MineIs
<1>2. Mine(n) \in SUBSET DOMAIN streams /\ \A s \in Mine(n) : n \in Ends(s)
  BY DEF Mine, Backlog, Runs, Ends
<1>. QED
  BY <1>1, <1>2, ClosesLined

\* A frame is written, or lost because the other end is gone.
LEMMA WriteOrder ==
  ASSUME OwnInv, OrderInv, NEW n \in Nodes, NEW s, Write(s, n)
  PROVE  OrderInv'
<1>. DEFINE x == streams[s]
            y == streams'[s]
<1>1. /\ s \in DOMAIN streams /\ n \in Ends(s) /\ x.out[n] # <<>> /\ TypeOK
      /\ UNCHANGED <<plan, todo, sent>>
  BY RunsEnds DEF Write, OwnInv
<1>2. StreamOK(x) /\ n \in {x.from, x.to} /\ Peer(s, n) = OtherEnd(x, n)
  BY <1>1 DEF TypeOK, Ends, Peer
<1>3. CASE /\ streams' = [streams EXCEPT ![s].out[n] = Tail(@),
                            ![s].wire[Peer(s, n)] = Append(@, Frame(Head(streams[s].out[n])))]
           /\ UNCHANGED received
  <2>1. /\ Calm /\ OneStream(s)
        /\ WriteAt(x, y, n, Tail(x.out[n]), Append(x.wire[Peer(s, n)], Frame(Head(x.out[n]))))
    BY <1>1, <1>3, WrittenIs
  <2>2. Lined(x, Heard, plan.script) => Lined(y, Heard, plan.script)
    BY <1>1, <1>2, <2>1, LinedWrites
  <2>. QED
    BY <1>1, <1>3, <2>1, <2>2, OneLined, SilentOrder
<1>4. CASE streams' = [streams EXCEPT ![s].out[n] = Tail(@)] /\ UNCHANGED received
  <2>1. Calm /\ OneStream(s) /\ OutAt(x, y, n, Tail(x.out[n]))
    BY <1>1, <1>4, LostIs
  <2>2. Lined(x, Heard, plan.script) => Lined(y, Heard, plan.script)
    BY <1>1, <1>2, <2>1, LinedLoses
  <2>. QED
    BY <1>1, <1>4, <2>1, <2>2, OneLined, SilentOrder
<1>5. CASE TaskEnds(s, n) /\ Event(n, LostWith(s, Peer(s, n)))
  <2>1. LostWith(s, Peer(s, n)).type # "message"
    BY DEF LostWith
  <2>. QED
    BY <1>1, <1>5, <2>1, TaskEndsLined, NewsOrder
<1>. QED
  BY <1>3, <1>4, <1>5 DEF Write

\* A task that ends because of the end of the stream or of a heartbeat
LEMMA EndOrder ==
  ASSUME OwnInv, OrderInv, NEW n \in Nodes, NEW s,
         Eof(s, n) \/ HeartbeatTimeout(s, n) \/ HeartbeatFails(s, n)
  PROVE  OrderInv'
<1>1. s \in DOMAIN streams /\ n \in Ends(s) /\ TypeOK /\ UNCHANGED <<plan, todo, sent>>
  BY RunsEnds DEF Eof, HeartbeatTimeout, HeartbeatFails, OwnInv
<1>2. LostWith(s, Peer(s, n)).type # "message"
  BY DEF LostWith
<1>3. CASE HangUp(s, n)
  BY <1>1, <1>2, <1>3, TaskEndsLined, NewsOrder DEF HangUp
<1>4. CASE TaskEnds(s, n) /\ UNCHANGED received
  BY <1>1, <1>4, TaskEndsLined, SilentOrder
<1>. QED
  BY <1>3, <1>4 DEF Eof, HeartbeatTimeout, HeartbeatFails

\* A branch that is cancelled, or what is read of a stream that is torn
LEMMA SpoilsOrder ==
  ASSUME OwnInv, DeliveryInv, OrderInv, NEW n \in Nodes, NEW s,
         WriteCancelled(s, n) \/ ReceiveCancelled(s, n) \/ Garble(s, n)
  PROVE  OrderInv'
<1>1. Spoils(s, n) /\ Spoilt(streams[s], streams'[s], s, faults')
  <2>1. CASE WriteCancelled(s, n) \/ ReceiveCancelled(s, n)
    BY <2>1, WriteCancelledIs, ReceiveCancelledIs DEF OwnInv
  <2>2. CASE Garble(s, n)
    BY <2>2, GarbleIs, GarbledTorn DEF OwnInv
  <2>. QED
    BY <2>1, <2>2
<1>2. /\ s \in DOMAIN streams /\ StreamOK(streams[s]) /\ Calm /\ OneStream(s)
      /\ UNCHANGED <<plan, todo, sent>>
  BY <1>1 DEF Spoils, OwnInv, TypeOK
<1>3. Lined(streams[s], Heard, plan.script) => Lined(streams'[s], Heard, plan.script)
  BY <1>1, <1>2, LinedSpoils
<1>4. CASE received' = received
  BY <1>2, <1>3, <1>4, OneLined, SilentOrder
<1>5. CASE Event(n, [type |-> "garbled", stream |-> s, from |-> Peer(s, n)])
  <2>. DEFINE e == [type |-> "garbled", stream |-> s, from |-> Peer(s, n)]
  <2>1. e.type # "message" /\ Event(n, e)
    BY <1>5
  <2>. HIDE DEF e
  <2>. QED
    BY <1>2, <1>3, <2>1, OneLined, NewsOrder
<1>. QED
  BY <1>1, <1>4, <1>5 DEF Spoils

\* What is done to a node
LEMMA NodeOrder ==
  ASSUME OwnInv, OrderInv, DistinctScripts, NEW n \in Nodes,
         SendOffline(n) \/ Disconnect(n) \/ Reconnect(n) \/ Crash(n)
  PROVE  OrderInv'
<1>1. TypeOK
  BY DEF OwnInv
<1>2. CASE SendOffline(n) \/ Reconnect(n)
  BY <1>2, StillOrder DEF SendOffline, Reconnect
<1>3. CASE Disconnect(n) \/ Crash(n)
  <2>1. streams' \in Closing(n, Mine(n), "aborted", streams) /\ UNCHANGED <<plan, todo, received, sent>>
    BY <1>3 DEF Disconnect, Crash
  <2>. QED
    BY <1>1, <2>1, MineLined, SilentOrder
<1>. QED
  BY <1>2, <1>3

\* What is under way on a stream was sent on it.
LEMMA UnderwaySent ==
  ASSUME OwnInv, DeliveryInv, NEW s \in DOMAIN streams, NEW n \in Ends(s)
  PROVE  ShownIn(streams[s].wire[Peer(s, n)]) \cup ToSet(streams[s].out[n]) \subseteq Carried(s)[n]
<1>. DEFINE x == streams[s]
            p == Peer(s, n)
            c == Carried(s)
<1>1. /\ StreamOK(x) /\ n \in {x.from, x.to} /\ p = OtherEnd(x, n)
      /\ OnlySentAt(x, s, n, c, faults)
  BY EndFacts
<1>2. p \in {x.from, x.to} /\ OtherEnd(x, p) = n
  BY <1>1, OtherIs
<1>3. p \in Ends(s)
  BY <1>2 DEF Ends
<1>4. OnlySentAt(x, s, p, c, faults) /\ c[Peer(s, p)] \subseteq Message /\ Peer(s, p) = n
  BY <1>2, <1>3, EndFacts
<1>. HIDE DEF x, p, c
<1>5. ToSet(x.out[n]) \subseteq c[n] /\ ToSet(x.wire[p]) \subseteq {Frame(u) : u \in c[n]} \cup {Torn}
  BY <1>1, <1>2, <1>4 DEF OnlySentAt, TornOf
<1>6. ASSUME NEW v \in ShownIn(x.wire[p]) PROVE v \in c[n]
  <2>1. PICK f \in ToSet(x.wire[p]) : Readable(f) /\ v = Shown(f)
    BY DEF ShownIn
  <2>2. PICK u \in c[n] : f = Frame(u)
    BY <1>5, <2>1, TornIs DEF Readable
  <2>3. u \in Message
    BY <1>4, <2>2
  <2>4. Shown(f) = u
    BY <2>1, <2>2, <2>3, ReadBack DEF Readable, Shown
  <2>. QED
    BY <2>1, <2>2, <2>4
<1>. QED
  BY <1>5, <1>6 DEF x, p, c

\* The numbers of streams
LEMMA StreamNumbers == ASSUME TypeOK PROVE DOMAIN streams \subseteq Nat
  BY DEF TypeOK

\* Of two streams of the same nodes, both to be read by n, the one that is read was opened
\* first: what is read comes before what is under way on the other.
LEMMA ReadsAhead ==
  ASSUME OwnInv, DeliveryInv, OrderInv, NEW s \in DOMAIN streams, NEW n \in Ends(s),
         streams[s].task[n] = "running", NEW u \in Carried(s)[Peer(s, n)], Uncrossed(s),
         NEW t \in DOMAIN streams, t # s, Ends(t) = Ends(s),
         streams[t].task[n] \in {"backlog", "running"}
  PROVE  LET p == Peer(s, n)
         IN  Ahead(plan.script[p], {u}, ShownIn(streams[t].wire[n]) \cup ToSet(streams[t].out[p]))
<1>. DEFINE p == Peer(s, n)
<1>1. TypeOK /\ s \in Nat /\ t \in Nat
  BY StreamNumbers DEF OwnInv
<1>2. n \in Ends(t) /\ Uncrossed(t)
  BY UncrossedEnds
<1>3. ~(t < s)
  <2>. SUFFICES ASSUME t < s PROVE FALSE
    OBVIOUS
  <2>1. Follows(streams[t], streams[s], Carried(t), Carried(s), plan.script)
    BY <1>2 DEF OrderInv, AllFollow, Parallel
  <2>2. FollowsAt(streams[t], streams[s], n, Carried(t), Carried(s), plan.script)
    BY <1>2, <2>1 DEF Follows, Ends
  <2>. QED
    BY <2>2 DEF FollowsAt
<1>4. s < t
  BY <1>1, <1>3
<1>5. p \in Ends(s) /\ p \in Ends(t) /\ Peer(t, p) = n
  <2>1. StreamOK(streams[s]) /\ n \in {streams[s].from, streams[s].to} /\ p = OtherEnd(streams[s], n)
    BY EndFacts
  <2>2. Ends(s) = {n, p} /\ p # n
    BY <2>1, OtherIs DEF Ends
  <2>3. Peer(t, p) = n
    BY <2>2 DEF Peer, OtherEnd, Ends
  <2>. QED
    BY <2>2, <2>3
<1>6. Ahead(plan.script[p], Carried(s)[p], Carried(t)[p])
  <2>1. Follows(streams[s], streams[t], Carried(s), Carried(t), plan.script)
    BY <1>4 DEF OrderInv, AllFollow, Parallel
  <2>2. FollowsAt(streams[s], streams[t], p, Carried(s), Carried(t), plan.script)
    BY <1>5, <2>1 DEF Follows, Ends
  <2>. QED
    BY <2>2 DEF FollowsAt
<1>7. ShownIn(streams[t].wire[n]) \cup ToSet(streams[t].out[p]) \subseteq Carried(t)[p]
  BY <1>5, UnderwaySent
<1>. HIDE DEF p
<1>8. Ahead(plan.script[p], {u}, ShownIn(streams[t].wire[n]) \cup ToSet(streams[t].out[p]))
  BY <1>6, <1>7 DEF Ahead, p
<1>. QED
  BY <1>8 DEF p

\* A frame is read, and its message is received.
LEMMA ReadsOrder ==
  ASSUME OwnInv, DeliveryInv, OrderInv, NEW n \in Nodes, NEW s \in DOMAIN streams, n \in Ends(s),
         streams[s].task[n] = "running", streams[s].wire[n] # <<>>, UNCHANGED <<plan, todo, sent>>,
         Readable(Head(streams[s].wire[n])),
         streams' = [streams EXCEPT ![s].wire[n] = Tail(@)],
         NEW e, Event(n, e), e.from = Peer(s, n), e.msg = Shown(Head(streams[s].wire[n]))
  PROVE  OrderInv'
<1>. DEFINE x == streams[s]
            y == streams'[s]
            p == Peer(s, n)
            u == Shown(Head(x.wire[n]))
<1>1. TypeOK /\ Calm /\ OneStream(s) /\ WireAt(x, y, n, Tail(x.wire[n])) /\ Grows
  BY ReadIs DEF OwnInv, Calm
<1>2. /\ StreamOK(x) /\ n \in {x.from, x.to} /\ p = OtherEnd(x, n) /\ p \in Nodes
      /\ p \in Ends(s) /\ Ends(s) = {p, n} /\ p # n /\ Peer(s, p) = n
  <2>1. StreamOK(x) /\ n \in {x.from, x.to} /\ p = OtherEnd(x, n) /\ p \in Nodes
    BY EndFacts
  <2>2. {x.from, x.to} = {n, p} /\ p # n /\ OtherEnd(x, p) = n
    BY <2>1, OtherIs
  <2>. QED
    BY <2>1, <2>2 DEF Ends, Peer
<1>3. x.wire[n] \in Seq(Frames)
  BY <1>2, QueuesOf
<1>4. u \in ShownIn(x.wire[n])
  <2>1. 1 \in DOMAIN x.wire[n] /\ Head(x.wire[n]) = x.wire[n][1]
    BY <1>3, TailAt
  <2>. QED
    BY <2>1, IsShown
<1>5. u \in Carried(s)[p] /\ Done(plan.script[p], TakenBy(p), u)
  BY <1>2, <1>4, UnderwaySent, CarriedDone DEF OrderInv
<1>6. Proceeds
  BY ProceedsIdle DEF OrderInv
<1>7. \A m \in Nodes : From(e, m) => m = p
  BY DEF From
<1>8. ASSUME Uncrossed(s) PROVE Ahead(plan.script[p], MessagesOf(Heard[n], p), {u})
  <2>1. Lined(x, Heard, plan.script)
    BY <1>8 DEF OrderInv, AllLined
  <2>2. Way(plan.script[p], x.wire[n], x.out[p], MessagesOf(Heard[n], p), x.task[n])
    BY <1>2, <2>1, LinedIs, SameIs
  <2>. QED
    BY <1>4, <2>2 DEF Way, Ahead
<1>9. HeardInOrder'
  <2>1. Crossed(p, n) \/ Uncrossed(s)
    BY <1>2, CrossedBoth
  <2>2. \A i \in DOMAIN received[n] : From(received[n][i], p) => received[n][i].msg \in MessagesOf(Heard[n], p)
    BY DEF MessagesOf, Heard, ToSet
  <2>3. \/ Crossed(p, n)
        \/ \A i \in DOMAIN received[n] :
             From(received[n][i], p) => Before(plan.script[p], received[n][i].msg, u)
    BY <1>8, <2>1, <2>2 DEF Ahead
  <2>. HIDE DEF p, u
  <2>4. e.msg = u
    BY DEF u
  <2>. QED
    BY <1>1, <1>5, <1>6, <1>7, <2>3, <2>4, HeardOne DEF OrderInv
<1>10. /\ \A m \in Nodes \ {n} : Heard'[m] = Heard[m]
       /\ \A q : MessagesOf(Heard'[n], q) \subseteq MessagesOf(Heard[n], q) \cup {u}
       /\ \A q \in Nodes \ {p} : MessagesOf(Heard'[n], q) = MessagesOf(Heard[n], q)
  BY <1>1, <1>7, MessagesMore
<1>11. ASSUME Uncrossed(s) PROVE Lined(y, Heard', plan.script)
  <2>1. Lined(x, Heard, plan.script)
    BY <1>11 DEF OrderInv, AllLined
  <2>. QED
    BY <1>1, <1>2, <1>10, <2>1, LinedReads
<1>12. ASSUME NEW t \in DOMAIN streams, t # s, Uncrossed(t) PROVE Lined(streams[t], Heard', plan.script)
  <2>. DEFINE z == streams[t]
  <2>1. StreamOK(z) /\ Lined(z, Heard, plan.script)
    BY <1>1, <1>12 DEF TypeOK, OrderInv, AllLined
  <2>2. ASSUME NEW a \in {z.from, z.to}, NEW v \in MessagesOf(Heard'[OtherEnd(z, a)], a)
        PROVE  \/ v \in MessagesOf(Heard[OtherEnd(z, a)], a)
               \/ z.task[OtherEnd(z, a)] \in {"backlog", "running"}
                    => Ahead(plan.script[a], {v}, ShownIn(z.wire[OtherEnd(z, a)]) \cup ToSet(z.out[a]))
    <3>1. a \in Nodes /\ OtherEnd(z, a) \in Nodes /\ {z.from, z.to} = {a, OtherEnd(z, a)}
      BY <2>1, OtherIs
    <3>2. CASE OtherEnd(z, a) # n \/ a # p
      BY <1>10, <2>2, <3>1, <3>2
    <3>3. CASE OtherEnd(z, a) = n /\ a = p
      <4>1. Ends(t) = Ends(s) /\ Uncrossed(s)
        BY <1>2, <1>12, <3>1, <3>3, UncrossedEnds DEF Ends
      <4>2. v \in MessagesOf(Heard[n], p) \/ v = u
        BY <1>10, <2>2, <3>3
      <4>3. z.task[n] \in {"backlog", "running"}
              => Ahead(plan.script[p], {u}, ShownIn(z.wire[n]) \cup ToSet(z.out[p]))
        BY <1>5, <1>12, <4>1, ReadsAhead
      <4>. QED
        BY <3>3, <4>2, <4>3
    <3>. QED
      BY <3>2, <3>3
  <2>. HIDE DEF z
  <2>3. Lined(z, Heard', plan.script)
    BY <2>1, <2>2, LinedHears
  <2>. QED
    BY <2>3 DEF z
<1>13. AllLined'
  <2>. SUFFICES ASSUME NEW t \in DOMAIN streams', Uncrossed(t)' PROVE Lined(streams'[t], Heard', plan.script)
    BY DEF AllLined
  <2>1. t \in DOMAIN streams /\ Uncrossed(t)
    BY <1>1, CrossedStays DEF OneStream
  <2>2. CASE t = s
    BY <1>11, <2>1, <2>2
  <2>3. CASE t # s
    BY <1>1, <1>12, <2>1, <2>3 DEF OneStream
  <2>. QED
    BY <2>2, <2>3
<1>14. AllFollow' /\ SentDone'
  BY <1>1, <1>6, FollowsCalm, SentIdle DEF OrderInv
<1>. QED
  BY <1>6, <1>9, <1>13, <1>14 DEF OrderInv, Proceeds

\* A frame is read, and its message is received; or it is none, and the task ends.
LEMMA ReceiveOrder ==
  ASSUME OwnInv, DeliveryInv, OrderInv, NEW n \in Nodes, NEW s, Receive(s, n)
  PROVE  OrderInv'
<1>. DEFINE f == Head(streams[s].wire[n])
            e == [type |-> "message", stream |-> s, from |-> Peer(s, n), msg |-> Shown(f)]
<1>1. /\ s \in DOMAIN streams /\ n \in Ends(s) /\ streams[s].task[n] = "running"
      /\ streams[s].wire[n] # <<>> /\ TypeOK /\ UNCHANGED <<plan, todo, sent>>
  BY RunsEnds DEF Receive, Runs, OwnInv
<1>2. CASE Readable(f) /\ streams' = [streams EXCEPT ![s].wire[n] = Tail(@)] /\ Event(n, e)
  <2>1. e.from = Peer(s, n) /\ e.msg = Shown(f)
    OBVIOUS
  <2>. HIDE DEF e
  <2>. QED
    BY <1>1, <1>2, <2>1, ReadsOrder
<1>3. CASE TaskEnds(s, n) /\ UNCHANGED received
  BY <1>1, <1>3, TaskEndsLined, SilentOrder
<1>. QED
  BY <1>2, <1>3 DEF Receive, Readable, Shown

\* A message that is sent comes after all that its node has sent and that was heard of it.
LEMMA SentLast ==
  ASSUME OwnInv, OrderInv, DistinctScripts, NEW n \in Nodes, todo[n] # <<>>
  PROVE  LET m == Head(todo[n]).msg
         IN  /\ \A s : Ahead(plan.script[n], Carried(s)[n], {m})
             /\ \A p \in Nodes : Ahead(plan.script[n], MessagesOf(Heard[p], n), {m})
<1>1. TypeOK /\ ScriptLeft /\ SentDone /\ HeardInOrder
  BY DEF OwnInv, OrderInv
<1>. DEFINE m == Head(todo[n]).msg
<1>2. \A u : Done(plan.script[n], TakenBy(n), u) => Before(plan.script[n], u, m)
  BY <1>1, NextAfter
<1>. HIDE DEF m
<1>3. ASSUME NEW s PROVE Ahead(plan.script[n], Carried(s)[n], {m})
  BY <1>1, <1>2, CarriedDone DEF Ahead
<1>4. ASSUME NEW p \in Nodes PROVE Ahead(plan.script[n], MessagesOf(Heard[p], n), {m})
  BY <1>1, <1>2, HeardDone DEF Ahead
<1>. QED
  BY <1>3, <1>4 DEF m

\* A task that has ended stays so.
LEMMA SettlesEnded ==
  ASSUME NEW x, NEW y, Settles(x, y), NEW n \in {x.from, x.to}
  PROVE  /\ y.task[n] = "running" => x.task[n] = "running"
         /\ x.task[n] \in {"ended", "aborted"} => y.task[n] \in {"ended", "aborted"}
<1>1. StreamOK(y) /\ n \in {y.from, y.to}
  BY DEF Settles, Same
<1>2. y.task[n] \in Tasks
  BY <1>1, QueuesOf
<1>3. ~(y.task[n] = "running") /\ ~(y.task[n] = "backlog") => y.task[n] \in {"ended", "aborted"}
  BY <1>2 DEF Tasks
<1>. QED
  BY <1>3 DEF Settles

\* A message is put into the queue of a handler.
LEMMA SendOnOrder ==
  ASSUME OwnInv, DeliveryInv, OrderInv, DistinctScripts, NEW n \in Nodes, todo[n] # <<>>, NEW p,
         NEW s \in Handler(n, p), SendOn(n, p, s), UNCHANGED <<plan, up, received, faults>>
  PROVE  OrderInv'
<1>. DEFINE m == Head(todo[n]).msg
            x == streams[s]
            y == streams'[s]
            c(t) == Carried(t)
            script == plan.script[n]
<1>1. /\ s \in DOMAIN streams /\ n \in Ends(s) /\ x.task[n] = "running" /\ s \in Nat
      /\ Calm /\ OneStream(s) /\ OutAt(x, y, n, Append(x.out[n], m)) /\ Grows
  BY SendOnIs DEF Calm
<1>2. TypeOK /\ Taken(n, s) /\ todo' = [todo EXCEPT ![n] = Tail(@)]
  BY DEF OwnInv, SendOn, Taken
<1>3. Proceeds /\ Done(script, TakenBy(n)', m)
  BY <1>2, ProceedsTaken DEF OrderInv
<1>4. HeardInOrder' /\ SentDone'
  BY <1>1, <1>2, <1>3, HeardNone, SentMore DEF OrderInv
<1>5. /\ \A t : Ahead(script, c(t)[n], {m})
      /\ \A q \in Nodes : Ahead(script, MessagesOf(Heard[q], n), {m})
  BY SentLast
<1>6. /\ StreamOK(x) /\ n \in {x.from, x.to} /\ Peer(s, n) = OtherEnd(x, n) /\ Peer(s, n) \in Nodes
  BY <1>1, EndFacts
<1>7. ShownIn(x.wire[Peer(s, n)]) \cup ToSet(x.out[n]) \subseteq c(s)[n]
  BY <1>1, UnderwaySent
<1>8. /\ \A t : \A k \in Nodes : t # s \/ k # n => Carried(t)'[k] = c(t)[k]
      /\ Carried(s)'[n] = c(s)[n] \cup {m}
      /\ \A t : t # s => Carried(t)' = c(t)
  BY <1>1, <1>2, CarriedTaken
<1>. HIDE DEF m
<1>9. ASSUME Uncrossed(s) PROVE Lined(y, Heard, plan.script)
  <2>1. Lined(x, Heard, plan.script)
    BY <1>1, <1>9 DEF OrderInv, AllLined
  <2>2. LET q == OtherEnd(x, n)
        IN  Ahead(script, MessagesOf(Heard[q], n) \cup ShownIn(x.wire[q]) \cup ToSet(x.out[n]), {m})
    BY <1>5, <1>6, <1>7 DEF Ahead
  <2>. QED
    BY <1>1, <1>6, <2>1, <2>2, LinedSends
<1>10. AllLined'
  <2>. SUFFICES ASSUME NEW t \in DOMAIN streams', Uncrossed(t)' PROVE Lined(streams'[t], Heard, plan.script)
    BY HeardSame DEF AllLined
  <2>1. t \in DOMAIN streams /\ Uncrossed(t)
    BY <1>1, CrossedStays DEF OneStream
  <2>2. CASE t = s
    BY <1>9, <2>1, <2>2
  <2>3. CASE t # s
    BY <1>1, <2>1, <2>3 DEF OneStream, OrderInv, AllLined
  <2>. QED
    BY <2>2, <2>3
<1>11. \A t \in DOMAIN streams : streams'[t].task = streams[t].task
  BY <1>1 DEF OneStream, OutAt
<1>12. ASSUME NEW t \in DOMAIN streams, NEW r \in DOMAIN streams, Uncrossed(t), Parallel(t, r),
              NEW k \in Ends(t)
       PROVE  FollowsAt(streams'[t], streams'[r], k, Carried(t)', Carried(r)', plan.script)
  <2>0. FollowsAt(streams[t], streams[r], k, c(t), c(r), plan.script)
    BY <1>12 DEF OrderInv, AllFollow, Follows, Ends
  <2>1. k \in Nodes /\ t # r
    <3>1. k \in {streams[t].from, streams[t].to} /\ StreamOK(streams[t])
      BY <1>2, <1>12 DEF Ends, TypeOK
    <3>2. t \in Nat /\ r \in Nat /\ t < r
      BY <1>2, <1>12, StreamNumbers DEF Parallel
    <3>. QED
      BY <3>1, <3>2, OtherIs
  <2>2. CASE k # n \/ (t # s /\ r # s)
    <3>1. Carried(t)'[k] = c(t)[k] /\ Carried(r)'[k] = c(r)[k]
      BY <1>8, <2>1, <2>2
    <3>. QED
      BY <1>11, <1>12, <2>0, <3>1 DEF FollowsAt
  <2>3. CASE k = n /\ r = s
    <3>1. Carried(t)'[n] = c(t)[n] /\ Ahead(script, c(t)[n], {m})
      BY <1>5, <1>8, <2>1, <2>3
    <3>2. streams[t].task[n] \in {"ended", "aborted"}
      BY <1>1, <2>0, <2>3 DEF FollowsAt
    <3>3. Ahead(script, c(t)[n], c(s)[n] \cup {m})
      BY <2>0, <2>3, <3>1 DEF FollowsAt, Ahead
    <3>. QED
      BY <1>8, <1>11, <1>12, <2>3, <3>1, <3>2, <3>3 DEF FollowsAt
  <2>4. CASE k = n /\ t = s
    <3>1. ~(x.task[n] \in {"ended", "aborted"})
      BY <1>1
    <3>2. c(r)[n] = {} /\ streams[r].task[n] # "running"
      BY <2>0, <2>4, <3>1 DEF FollowsAt
    <3>3. Carried(r)'[n] = {}
      BY <1>8, <2>1, <2>4, <3>2
    <3>. QED
      BY <1>11, <1>12, <2>4, <3>2, <3>3 DEF FollowsAt, Ahead
  <2>. QED
    BY <2>2, <2>3, <2>4
<1>13. AllFollow'
  <2>. SUFFICES ASSUME NEW t \in DOMAIN streams', NEW r \in DOMAIN streams', Uncrossed(t)', Parallel(t, r)'
                PROVE  Follows(streams'[t], streams'[r], Carried(t)', Carried(r)', plan.script)
    BY <1>3 DEF AllFollow, Proceeds
  <2>1. t \in DOMAIN streams /\ r \in DOMAIN streams /\ Uncrossed(t)
    BY <1>1, CrossedStays DEF OneStream
  <2>2. Parallel(t, r) /\ Ends(t) = {streams'[t].from, streams'[t].to}
    BY <1>1, <2>1 DEF Parallel, Ends, Grows, Same
  <2>. QED
    BY <1>12, <2>1, <2>2 DEF Follows
<1>. QED
  BY <1>3, <1>4, <1>10, <1>13 DEF OrderInv, Proceeds

\* What a new handler leaves of the streams that were there: they go on, or are closed when
\* their handler is dropped.
LEMMA AddsKeeps ==
  ASSUME OwnInv, NEW n \in Nodes, NEW id, NEW p, NEW all, StreamsOK(all),
         NEW dropped \in SUBSET ToSet(active[n]), Adds(n, id, p, all, dropped),
         id \notin ToSet(active[n]), DOMAIN all = DOMAIN streams \cup {id},
         \A s \in DOMAIN streams \ {id} : all[s] = streams[s],
         id \in DOMAIN streams => Same(streams[id], all[id])
  PROVE  /\ Grows /\ DOMAIN streams' = DOMAIN streams \cup {id} /\ streams'[id] = all[id]
         /\ \A s \in DOMAIN streams \ {id} :
              /\ Settles(streams[s], streams'[s])
              /\ Lined(streams[s], Heard, plan.script) => Lined(streams'[s], Heard, plan.script)
         /\ \A s \in dropped : streams[s].task[n] = "running" => streams'[s].task[n] = "aborted"
<1>. DEFINE ids == {s \in dropped : streams[s].task[n] = "running"}
<1>1. \A s \in DOMAIN streams : StreamOK(streams[s])
  BY DEF OwnInv, TypeOK
<1>2. /\ \A s \in ids : s \in DOMAIN streams /\ s # id /\ n \in {streams[s].from, streams[s].to}
      /\ ids \in SUBSET DOMAIN all
  BY DEF OwnInv, HandlersOpen, Ends
<1>3. ClosesAll(all, streams', n, ids, "aborted")
  BY DEF Adds
<1>4. \A s \in dropped : streams[s].task[n] = "running" => s \in ids
  OBVIOUS
<1>. HIDE DEF ids
<1>5. StreamsOK(streams') /\ \A s \in DOMAIN all : Same(all[s], streams'[s])
  BY <1>2, <1>3, ClosesGrows
<1>6. DOMAIN streams' = DOMAIN streams \cup {id}
  BY <1>3 DEF ClosesAll
<1>7. ASSUME NEW s \in DOMAIN streams PROVE Same(streams[s], streams'[s])
  <2>1. Same(all[s], streams'[s])
    BY <1>5, <1>7
  <2>. QED
    BY <1>7, <2>1 DEF Same
<1>8. Grows
  BY <1>5, <1>6, <1>7 DEF Grows
<1>9. streams'[id] = all[id]
  BY <1>2, <1>3 DEF ClosesAll
<1>10. ASSUME NEW s \in DOMAIN streams \ {id}
       PROVE  /\ Settles(streams[s], streams'[s])
              /\ Lined(streams[s], Heard, plan.script) => Lined(streams'[s], Heard, plan.script)
  <2>1. CASE s \in ids
    <3>1. ClosedAt(streams[s], streams'[s], n, "aborted") /\ n \in {streams[s].from, streams[s].to}
      BY <1>2, <1>3, <2>1 DEF ClosesAll
    <3>. QED
      BY <1>1, <3>1, SettlesCloses, LinedCloses
  <2>2. CASE s \notin ids
    <3>1. streams'[s] = streams[s]
      BY <1>3, <2>2 DEF ClosesAll
    <3>. QED
      BY <1>1, <3>1, SettlesStays
  <2>. QED
    BY <2>1, <2>2
<1>11. ASSUME NEW s \in ids PROVE streams'[s].task[n] = "aborted"
  BY <1>2, <1>3 DEF ClosesAll, ClosedAt
<1>. QED
  BY <1>4, <1>6, <1>8, <1>9, <1>10, <1>11

\* When there is no handler for p and no stream of p to accept, the streams of n and p are
\* done with at n.
LEMMA NoneRuns ==
  ASSUME OwnInv, NEW n \in Nodes, NEW p, Handler(n, p) = {},
         \A s \in Backlog(n) : streams[s].from # p, NEW s \in DOMAIN streams, Ends(s) = {n, p}, n # p
  PROVE  streams[s].task[n] \in {"ended", "aborted"}
<1>. DEFINE x == streams[s]
<1>1. StreamOK(x) /\ n \in {x.from, x.to} /\ Peer(s, n) = p
  BY DEF OwnInv, TypeOK, Ends, Peer, OtherEnd
<1>2. x.task[n] \in Tasks
  BY <1>1, QueuesOf
<1>3. ASSUME x.task[n] = "running" PROVE FALSE
  <2>1. s \in ToSet(active[n])
    BY <1>3 DEF OwnInv, HandlersOwned, Runs, Ends
  <2>. QED
    BY <1>1, <2>1 DEF Handler
<1>4. ASSUME x.task[n] = "backlog" PROVE FALSE
  <2>1. x.to = n /\ x.from = p
    BY <1>1, <1>4, StreamParts DEF Ends
  <2>. QED
    BY <1>4, <2>1 DEF Backlog
<1>. QED
  BY <1>2, <1>3, <1>4 DEF Tasks

\* A message is the first on its stream.
LEMMA OpensOrder ==
  ASSUME OwnInv, DeliveryInv, OrderInv, DistinctScripts, NEW n \in Nodes, todo[n] # <<>>,
         UNCHANGED <<plan, received>>, NEW id \in Nat, id = Len(streams) + 1, Taken(n, id),
         NEW p \in Nodes, n # p, Handler(n, p) = {}, NEW x, NewAt(x, n, p, Head(todo[n]).msg),
         NEW all, StreamsOK(all), DOMAIN all = DOMAIN streams \cup {id}, all[id] = x,
         \A s \in DOMAIN streams : all[s] = streams[s],
         NEW dropped \in SUBSET ToSet(active[n]), Adds(n, id, p, all, dropped)
  PROVE  OrderInv'
<1>. DEFINE m == Head(todo[n]).msg
            script == plan.script[n]
<1>1. /\ TypeOK /\ todo' = [todo EXCEPT ![n] = Tail(@)]
      /\ id \notin DOMAIN streams /\ \A s \in DOMAIN streams : s \in Nat /\ s < id
  <2>1. TypeOK /\ todo' = [todo EXCEPT ![n] = Tail(@)]
    BY DEF OwnInv, Taken
  <2>2. DOMAIN streams = 1..Len(streams) /\ Len(streams) \in Nat
    BY <2>1 DEF TypeOK
  <2>3. \A s \in 1..Len(streams) : s \in Nat /\ s < id
    BY <2>2
  <2>. QED
    BY <2>1, <2>2, <2>3
<1>2. id \notin ToSet(active[n])
  BY <1>1 DEF OwnInv, HandlersOpen
<1>3. /\ Grows /\ DOMAIN streams' = DOMAIN streams \cup {id} /\ streams'[id] = x
      /\ \A s \in DOMAIN streams :
           /\ Settles(streams[s], streams'[s])
           /\ Lined(streams[s], Heard, plan.script) => Lined(streams'[s], Heard, plan.script)
  <2>1. \A s \in DOMAIN streams : s \in DOMAIN streams \ {id}
    BY <1>1
  <2>2. /\ \A s \in DOMAIN streams \ {id} : all[s] = streams[s]
        /\ id \in DOMAIN streams => Same(streams[id], all[id])
    BY <1>1
  <2>3. /\ Grows /\ DOMAIN streams' = DOMAIN streams \cup {id} /\ streams'[id] = all[id]
        /\ \A s \in DOMAIN streams \ {id} :
             /\ Settles(streams[s], streams'[s])
             /\ Lined(streams[s], Heard, plan.script) => Lined(streams'[s], Heard, plan.script)
    BY <1>2, <2>2, AddsKeeps
  <2>. QED
    BY <2>1, <2>3
<1>4. Proceeds /\ Done(script, TakenBy(n)', m)
  BY <1>1, ProceedsTaken DEF OrderInv
<1>5. HeardInOrder' /\ SentDone'
  BY <1>1, <1>3, <1>4, HeardNone, SentMore DEF OrderInv
<1>6. /\ \A s : Ahead(script, Carried(s)[n], {m})
      /\ \A q \in Nodes : Ahead(script, MessagesOf(Heard[q], n), {m})
  BY SentLast
<1>7. \A s \in DOMAIN streams : Carried(s)' = Carried(s)
  BY <1>1, CarriedTaken
<1>8. Carried(id)'[n] = {m} /\ Carried(id)'[p] = {}
  <2>1. Carried(id)[n] = {} /\ Carried(id)[p] = {}
    BY <1>1, CarriedNew DEF DeliveryInv
  <2>2. Carried(id)'[p] = Carried(id)[p] /\ Carried(id)'[n] = Carried(id)[n] \cup {m}
    BY <1>1, CarriedTaken
  <2>. QED
    BY <2>1, <2>2
<1>9. m \in Message
  BY <1>1, HeadIs
<1>. HIDE DEF m
<1>10. /\ x.from = n /\ x.to = p /\ x.task[n] = "running" /\ x.task[p] = "backlog"
       /\ x.crosses \/ \A s \in Backlog(n) : streams[s].from # p
  BY DEF NewAt
<1>11. NewAt(x, n, p, m)
  BY DEF m
<1>12. Lined(x, Heard, plan.script)
  BY <1>6, <1>9, <1>11, LinedNew
<1>13. AllLined'
  <2>. SUFFICES ASSUME NEW s \in DOMAIN streams', Uncrossed(s)' PROVE Lined(streams'[s], Heard, plan.script)
    BY HeardSame DEF AllLined
  <2>1. CASE s = id
    BY <1>3, <1>12, <2>1
  <2>2. CASE s \in DOMAIN streams
    BY <1>3, <2>2, CrossedStays DEF OrderInv, AllLined
  <2>. QED
    BY <1>3, <2>1, <2>2
<1>14. ASSUME NEW s \in DOMAIN streams, Ends(s) = {n, p}, ~x.crosses
       PROVE  Follows(streams'[s], x, Carried(s)', Carried(id)', plan.script)
  <2>1. /\ Settles(streams[s], streams'[s]) /\ n \in {streams[s].from, streams[s].to}
        /\ {streams'[s].from, streams'[s].to} = {n, p}
    BY <1>3, <1>14 DEF Ends, Settles, Same
  <2>2. streams'[s].task[n] \in {"ended", "aborted"}
    <3>1. streams[s].task[n] \in {"ended", "aborted"}
      BY <1>10, <1>14, NoneRuns
    <3>. QED
      BY <2>1, <3>1, SettlesEnded
  <2>3. Ahead(script, Carried(s)'[n], Carried(id)'[n])
    BY <1>6, <1>7, <1>8
  <2>4. FollowsAt(streams'[s], x, n, Carried(s)', Carried(id)', plan.script)
    BY <2>2, <2>3 DEF FollowsAt
  <2>5. FollowsAt(streams'[s], x, p, Carried(s)', Carried(id)', plan.script)
    BY <1>8, <1>10 DEF FollowsAt, Ahead
  <2>. QED
    BY <2>1, <2>4, <2>5 DEF Follows
<1>15. AllFollow'
  <2>. SUFFICES ASSUME NEW s \in DOMAIN streams', NEW t \in DOMAIN streams', Uncrossed(s)', Parallel(s, t)'
                PROVE  Follows(streams'[s], streams'[t], Carried(s)', Carried(t)', plan.script)
    BY DEF AllFollow
  <2>1. s < t /\ Ends(s)' = Ends(t)'
    BY DEF Parallel
  <2>2. \A r \in DOMAIN streams : Ends(r)' = Ends(r)
    BY <1>3 DEF Grows, Same, Ends
  <2>3. s \in DOMAIN streams /\ Uncrossed(s)
    <3>1. ASSUME s = id PROVE FALSE
      <4>1. t \in DOMAIN streams
        BY <1>3, <2>1, <3>1
      <4>. QED
        BY <1>1, <2>1, <3>1, <4>1
    <3>. QED
      BY <1>3, <3>1, CrossedStays
  <2>4. CASE t \in DOMAIN streams
    <3>1. Ends(s) = Ends(t)
      BY <2>1, <2>2, <2>3, <2>4
    <3>2. Follows(streams[s], streams[t], Carried(s), Carried(t), plan.script)
      BY <2>1, <2>3, <2>4, <3>1 DEF OrderInv, AllFollow, Parallel
    <3>3. {streams[s].from, streams[s].to} = {streams[t].from, streams[t].to}
      BY <3>1 DEF Ends
    <3>4. Follows(streams'[s], streams'[t], Carried(s), Carried(t), plan.script)
      BY <1>3, <2>3, <2>4, <3>2, <3>3, FollowsSettles
    <3>. QED
      BY <1>7, <2>3, <2>4, <3>4
  <2>5. CASE t = id
    <3>1. Ends(id)' = {n, p}
      BY <1>3, <1>10 DEF Ends
    <3>2. Ends(s) = {n, p}
      BY <2>1, <2>2, <2>3, <2>5, <3>1
    <3>3. ~Crossed(streams[s].from, streams[s].to)'
      BY DEF Uncrossed
    <3>4. ~x.crosses
      BY <1>3, <2>1, <2>5, <3>3 DEF Crossed, Ends
    <3>. QED
      BY <1>3, <1>14, <2>3, <2>5, <3>2, <3>4
  <2>. QED
    BY <1>3, <2>4, <2>5
<1>. QED
  BY <1>4, <1>5, <1>13, <1>15 DEF OrderInv, Proceeds

\* Send without a handler: a stream is opened, or the other node does not listen.
LEMMA SendFirstOrder ==
  ASSUME OwnInv, DeliveryInv, OrderInv, DistinctScripts, NEW n \in Nodes, todo[n] # <<>>,
         SendFirst(n, Head(todo[n]).to), UNCHANGED <<plan, up, received, faults>>
  PROVE  OrderInv'
<1>. DEFINE p == Head(todo[n]).to
            m == Head(todo[n]).msg
<1>1. TypeOK /\ p \in Nodes /\ p # n /\ m \in Message /\ Handler(n, p) = {}
  BY HeadIs DEF OwnInv, SendFirst
<1>2. PICK id : id = Len(streams) + 1
  OBVIOUS
<1>3. CASE /\ Taken(n, id)
           /\ AddHandler(n, id, p, Append(streams, [Opened(n, p) EXCEPT !.out[n] = <<m>>]))
  <2>. HIDE DEF p
  <2>1. id \in Nat
    BY <1>1, <1>2, <1>3, SendFirstIs
  <2>2. PICK x, dropped :
          /\ NewAt(x, n, p, m) /\ dropped \in SUBSET ToSet(active[n])
          /\ StreamsOK(Append(streams, x)) /\ DOMAIN Append(streams, x) = DOMAIN streams \cup {id}
          /\ Append(streams, x)[id] = x
          /\ \A s \in DOMAIN streams : Append(streams, x)[s] = streams[s]
          /\ Adds(n, id, p, Append(streams, x), dropped)
    BY <1>1, <1>2, <1>3, SendFirstIs DEF m
  <2>. DEFINE all == Append(streams, x)
  <2>3. /\ StreamsOK(all) /\ Adds(n, id, p, all, dropped) /\ all[id] = x
        /\ DOMAIN all = DOMAIN streams \cup {id} /\ \A s \in DOMAIN streams : all[s] = streams[s]
    BY <2>2
  <2>. HIDE DEF all
  <2>. QED
    BY <1>1, <1>2, <1>3, <2>1, <2>2, <2>3, OpensOrder
<1>4. CASE UNCHANGED <<streams, active, sent>> /\ todo' = [todo EXCEPT ![n] = Tail(@)]
  BY <1>4, StillOrder
<1>. QED
  BY <1>2, <1>3, <1>4 DEF SendFirst

\* Of the streams of two nodes the oldest is accepted: the one before it has no handler left.
LEMMA AddsOrder ==
  ASSUME OwnInv, OrderInv, NEW n \in Nodes, UNCHANGED <<plan, todo, received, sent>>,
         NEW id \in Backlog(n), \A s \in Backlog(n) : id <= s,
         NEW all, StreamsOK(all), DOMAIN all = DOMAIN streams, RunsAt(streams[id], all[id], n),
         \A s \in DOMAIN streams \ {id} : all[s] = streams[s],
         NEW dropped \in SUBSET ToSet(active[n]), Adds(n, id, streams[id].from, all, dropped)
  PROVE  OrderInv'
<1>. DEFINE x == streams[id]
            y == all[id]
            p == x.from
<1>1. /\ TypeOK /\ id \in DOMAIN streams /\ x.to = n /\ x.task[n] = "backlog" /\ StreamOK(x)
      /\ DOMAIN streams \subseteq Nat
  BY StreamNumbers DEF OwnInv, TypeOK, Backlog
<1>2. n # p /\ n \in {x.from, x.to} /\ p \in {x.from, x.to} /\ OtherEnd(x, n) = p /\ Ends(id) = {n, p}
  BY <1>1, StreamParts DEF OtherEnd, Ends
<1>3. id \notin ToSet(active[n])
  BY <1>1 DEF OwnInv, HandlersOpen
<1>4. y.task[p] = x.task[p] /\ Same(x, y)
  BY <1>2 DEF RunsAt
<1>5. /\ Grows /\ DOMAIN streams' = DOMAIN streams /\ streams'[id] = y
      /\ \A s \in DOMAIN streams \ {id} :
           /\ Settles(streams[s], streams'[s])
           /\ Lined(streams[s], Heard, plan.script) => Lined(streams'[s], Heard, plan.script)
      /\ \A s \in dropped : streams[s].task[n] = "running" => streams'[s].task[n] = "aborted"
  <2>1. DOMAIN all = DOMAIN streams \cup {id} /\ DOMAIN streams \cup {id} = DOMAIN streams
    BY <1>1
  <2>2. /\ Grows /\ DOMAIN streams' = DOMAIN streams \cup {id} /\ streams'[id] = all[id]
        /\ \A s \in DOMAIN streams \ {id} :
             /\ Settles(streams[s], streams'[s])
             /\ Lined(streams[s], Heard, plan.script) => Lined(streams'[s], Heard, plan.script)
        /\ \A s \in dropped : streams[s].task[n] = "running" => streams'[s].task[n] = "aborted"
    BY <1>3, <1>4, <2>1, AddsKeeps
  <2>. QED
    BY <2>1, <2>2
<1>6. \A t \in ToSet(active[n]) \ dropped : Peer(t, n) # p
  BY DEF Adds
<1>7. Proceeds
  BY ProceedsIdle DEF OrderInv
<1>8. HeardInOrder' /\ SentDone'
  BY <1>5, <1>7, HeardNone, SentIdle DEF OrderInv
<1>9. RunsAt(x, y, n)
  OBVIOUS
<1>. HIDE DEF x, y, p
<1>10. Lined(x, Heard, plan.script) => Lined(y, Heard, plan.script)
  BY <1>1, <1>2, <1>9, LinedRuns
<1>11. AllLined'
  <2>. SUFFICES ASSUME NEW s \in DOMAIN streams', Uncrossed(s)' PROVE Lined(streams'[s], Heard, plan.script)
    BY HeardSame DEF AllLined
  <2>1. s \in DOMAIN streams /\ Uncrossed(s)
    BY <1>5, CrossedStays
  <2>2. Lined(streams[s], Heard, plan.script)
    BY <2>1 DEF OrderInv, AllLined
  <2>3. CASE s = id
    BY <1>5, <1>10, <2>2, <2>3 DEF x
  <2>4. CASE s # id
    BY <1>5, <2>1, <2>2, <2>4
  <2>. QED
    BY <2>3, <2>4
<1>12. ASSUME NEW s \in DOMAIN streams, s < id, Ends(s) = Ends(id)
       PROVE  streams'[s].task[n] \in {"ended", "aborted"}
  <2>1. /\ s \in Nat /\ id \in Nat /\ s # id /\ StreamOK(streams[s]) /\ Settles(streams[s], streams'[s])
        /\ n \in {streams[s].from, streams[s].to}
    <3>1. s \in Nat /\ id \in Nat /\ s # id
      BY <1>1, <1>12
    <3>2. StreamOK(streams[s]) /\ n \in {streams[s].from, streams[s].to}
      BY <1>1, <1>2, <1>12 DEF TypeOK, Ends
    <3>. QED
      BY <1>5, <3>1, <3>2
  <2>2. streams[s].task[n] \in Tasks
    BY <2>1, QueuesOf
  <2>3. Peer(s, n) = p
    BY <1>2, <1>12, <2>1 DEF Peer, OtherEnd, Ends
  <2>4. CASE streams[s].task[n] = "running"
    <3>1. s \in ToSet(active[n])
      BY <2>1, <2>4 DEF OwnInv, HandlersOwned, Runs, Ends
    <3>2. s \in dropped
      BY <1>6, <2>3, <3>1
    <3>. QED
      BY <1>5, <2>4, <3>2
  <2>5. CASE streams[s].task[n] = "backlog"
    <3>1. streams[s].to = n
      BY <2>1, <2>5, StreamParts
    <3>2. s \in Backlog(n)
      BY <2>5, <3>1 DEF Backlog
    <3>3. id <= s
      BY <3>2
    <3>. QED
      BY <1>12, <2>1, <3>3
  <2>6. CASE streams[s].task[n] \in {"ended", "aborted"}
    BY <2>1, <2>6, SettlesEnded
  <2>. QED
    BY <2>2, <2>4, <2>5, <2>6 DEF Tasks
<1>13. ASSUME NEW s \in DOMAIN streams, NEW t \in DOMAIN streams, Uncrossed(s), Parallel(s, t),
              NEW k \in Ends(s)
       PROVE  FollowsAt(streams'[s], streams'[t], k, Carried(s), Carried(t), plan.script)
  <2>1. FollowsAt(streams[s], streams[t], k, Carried(s), Carried(t), plan.script)
    BY <1>13 DEF OrderInv, AllFollow, Follows, Ends
  <2>2. s < t /\ Ends(s) = Ends(t) /\ s \in Nat /\ t \in Nat /\ s # t
    BY <1>1, <1>13 DEF Parallel
  <2>3. k \in {streams[s].from, streams[s].to} /\ k \in {streams[t].from, streams[t].to}
    BY <1>13, <2>2 DEF Ends
  <2>4. s # id => (streams[s].task[k] \in {"ended", "aborted"} => streams'[s].task[k] \in {"ended", "aborted"})
    BY <1>5, <2>3, SettlesEnded
  <2>5. t # id => (streams'[t].task[k] = "running" => streams[t].task[k] = "running")
    BY <1>5, <2>3, SettlesEnded
  <2>6. CASE s # id /\ t # id
    BY <2>1, <2>4, <2>5, <2>6 DEF FollowsAt
  <2>7. CASE t = id
    <3>1. CASE k = n
      <4>1. streams'[s].task[n] \in {"ended", "aborted"}
        BY <1>12, <2>2, <2>7
      <4>. QED
        BY <2>1, <3>1, <4>1 DEF FollowsAt
    <3>2. CASE k # n
      <4>1. k = p
        BY <1>2, <1>13, <2>2, <2>7, <3>2
      <4>2. streams'[t].task[k] = streams[t].task[k]
        BY <1>4, <1>5, <2>7, <4>1 DEF x
      <4>. QED
        BY <2>1, <2>2, <2>4, <2>7, <4>2 DEF FollowsAt
    <3>. QED
      BY <3>1, <3>2
  <2>8. CASE s = id
    <3>1. CASE k = n
      <4>1. ~(streams[s].task[n] \in {"ended", "aborted"})
        BY <1>1, <2>8 DEF x
      <4>2. streams[t].task[n] # "running" /\ Carried(t)[n] = {}
        BY <2>1, <3>1, <4>1 DEF FollowsAt
      <4>. QED
        BY <2>1, <2>2, <2>5, <2>8, <3>1, <4>2 DEF FollowsAt
    <3>2. CASE k # n
      <4>1. k = p
        BY <1>2, <1>13, <2>8, <3>2
      <4>2. streams'[s].task[k] = streams[s].task[k]
        BY <1>4, <1>5, <2>8, <4>1 DEF x
      <4>. QED
        BY <2>1, <2>2, <2>5, <2>8, <4>2 DEF FollowsAt
    <3>. QED
      BY <3>1, <3>2
  <2>. QED
    BY <2>6, <2>7, <2>8
<1>14. AllFollow'
  <2>. SUFFICES ASSUME NEW s \in DOMAIN streams', NEW t \in DOMAIN streams', Uncrossed(s)', Parallel(s, t)'
                PROVE  Follows(streams'[s], streams'[t], Carried(s), Carried(t), plan.script)
    BY CarriedSame DEF AllFollow
  <2>1. s \in DOMAIN streams /\ t \in DOMAIN streams /\ Uncrossed(s)
    BY <1>5, CrossedStays
  <2>2. Parallel(s, t) /\ Ends(s) = {streams'[s].from, streams'[s].to}
    BY <1>5, <2>1 DEF Parallel, Ends, Grows, Same
  <2>. QED
    BY <1>13, <2>1, <2>2 DEF Follows
<1>. QED
  BY <1>7, <1>8, <1>11, <1>14 DEF OrderInv, Proceeds

\* A stream is accepted, or was closed before it could be.
LEMMA AcceptOrder ==
  ASSUME OwnInv, OrderInv, NEW n \in Nodes, Accept(n)
  PROVE  OrderInv'
<1>. DEFINE id == Min(Backlog(n))
<1>1. TypeOK
  BY DEF OwnInv
<1>2. /\ id \in Backlog(n) /\ id \in DOMAIN streams /\ id \in Nat
      /\ \A s \in Backlog(n) : id <= s
  BY <1>1, OldestIs DEF Accept
<1>3. UNCHANGED <<plan, todo, up, received, faults, sent>>
  BY DEF Accept
<1>4. CASE AddHandler(n, id, FirstAddress(streams[id].first), [streams EXCEPT ![id].task[n] = "running"])
  <2>. HIDE DEF id
  <2>1. PICK all, dropped :
          /\ dropped \in SUBSET ToSet(active[n])
          /\ StreamsOK(all) /\ DOMAIN all = DOMAIN streams
          /\ RunsAt(streams[id], all[id], n)
          /\ \A s \in DOMAIN streams \ {id} : all[s] = streams[s]
          /\ Adds(n, id, streams[id].from, all, dropped)
    BY <1>2, <1>4, AcceptIs
  <2>. QED
    BY <1>2, <1>3, <2>1, AddsOrder
<1>5. CASE streams' \in Closing(n, {id}, "ended", streams)
  <2>. HIDE DEF id
  <2>1. n \in Ends(id) /\ TaskEnds(id, n)
    BY <1>2, <1>5 DEF Backlog, Ends, TaskEnds
  <2>. QED
    BY <1>1, <1>2, <1>3, <2>1, TaskEndsLined, SilentOrder
<1>. QED
  BY <1>4, <1>5 DEF Accept

\* The three ways of a send
LEMMA SendOrder ==
  ASSUME OwnInv, DeliveryInv, OrderInv, DistinctScripts, NEW n \in Nodes, Send(n)
  PROVE  OrderInv'
<1>1. todo[n] # <<>> /\ UNCHANGED <<plan, up, received, faults>>
  BY DEF Send
<1>2. CASE SendFirst(n, Head(todo[n]).to)
  BY <1>1, <1>2, SendFirstOrder
<1>3. ASSUME NEW p, NEW s \in Handler(n, p), SendOn(n, p, s) PROVE OrderInv'
  BY <1>1, <1>3, SendOnOrder
<1>4. ASSUME NEW p, NEW s \in Handler(n, p), SendFails(n, p, s) PROVE OrderInv'
  BY <1>1, <1>4, StillOrder DEF SendFails
<1>. QED
  BY <1>2, <1>3, <1>4 DEF Send

\* The invariant OrderInv: at first nothing was sent or heard.
LEMMA InitOrder == Init => OrderInv
<1>. SUFFICES ASSUME Init PROVE OrderInv
  OBVIOUS
<1>1. DOMAIN streams = {} /\ \A n \in Nodes : DOMAIN sent[n] = {} /\ DOMAIN received[n] = {}
  BY DEF Init
<1>2. ScriptLeft
  <2>. SUFFICES ASSUME NEW n \in Nodes
                PROVE  /\ Len(todo[n]) <= Len(plan.script[n])
                       /\ \A i \in DOMAIN todo[n] : todo[n][i] = plan.script[n][TakenBy(n) + i]
    BY DEF ScriptLeft
  <2>1. plan.script[n] \in Seq(Addressed)
    BY ScenariosAssumption DEF Init, Addressed
  <2>2. todo[n] = plan.script[n]
    BY DEF Init
  <2>3. PICK q \in Seq(Addressed) : q = plan.script[n]
    BY <2>1
  <2>4. Len(q) <= Len(q) /\ \A i \in DOMAIN q : q[i] = q[(Len(q) - Len(q)) + i]
    OBVIOUS
  <2>. QED
    BY <2>2, <2>3, <2>4 DEF TakenBy
<1>. QED
  BY <1>1, <1>2 DEF OrderInv, SentDone, HeardInOrder, AllLined, AllFollow

\* Every step keeps OrderInv.
LEMMA NextOrder ==
  DistinctScripts /\ OwnInv /\ DeliveryInv /\ OrderInv /\ [Next]_vars => OrderInv'
<1>. SUFFICES ASSUME DistinctScripts, OwnInv, DeliveryInv, OrderInv, [Next]_vars PROVE OrderInv'
  OBVIOUS
<1>1. CASE UNCHANGED vars
  BY <1>1, StillOrder DEF vars
<1>2. CASE Next
  <2>1. ASSUME NEW n \in Nodes, Send(n) \/ Accept(n) PROVE OrderInv'
    BY <2>1, SendOrder, AcceptOrder
  <2>2. ASSUME NEW n \in Nodes, SendOffline(n) \/ Disconnect(n) \/ Reconnect(n) \/ Crash(n)
        PROVE  OrderInv'
    BY <2>2, NodeOrder
  <2>3. ASSUME NEW n \in Nodes, NEW s \in DOMAIN streams, Write(s, n) \/ Receive(s, n)
        PROVE  OrderInv'
    BY <2>3, WriteOrder, ReceiveOrder
  <2>4. ASSUME NEW n \in Nodes, NEW s \in DOMAIN streams,
               Eof(s, n) \/ HeartbeatTimeout(s, n) \/ HeartbeatFails(s, n)
        PROVE  OrderInv'
    BY <2>4, EndOrder
  <2>5. ASSUME NEW n \in Nodes, NEW s \in DOMAIN streams,
               WriteCancelled(s, n) \/ ReceiveCancelled(s, n) \/ Garble(s, n)
        PROVE  OrderInv'
    BY <2>5, SpoilsOrder
  <2>. QED
    BY <1>2, <2>1, <2>2, <2>3, <2>4, <2>5 DEF Next
<1>. QED
  BY <1>1, <1>2

\* When the messages of each script are told apart: the messages of a node reach another
\* one in the order of its sends, each once and as it was sent, through however many
\* streams, unless the two have connected to each other at a time (Connection::send,
\* Acceptor::run, add_handler_from, Handler::run).
THEOREM InOrderAlways == DistinctScripts => (Spec => []InOrder)
<1>. SUFFICES ASSUME DistinctScripts PROVE Spec => []InOrder
  OBVIOUS
<1>1. Init => OwnInv /\ DeliveryInv /\ OrderInv
  BY InitOwn, InitDelivery, InitOrder
<1>2. OwnInv /\ DeliveryInv /\ OrderInv /\ [Next]_vars => OwnInv' /\ DeliveryInv' /\ OrderInv'
  BY NextOwn, NextDelivery, NextOrder
<1>3. OwnInv /\ DeliveryInv /\ OrderInv => InOrder
  BY DEF OrderInv, HeardInOrder, InOrder, Done
<1>. QED
  BY <1>1, <1>2, <1>3, PTL DEF Spec
=============================================================================
