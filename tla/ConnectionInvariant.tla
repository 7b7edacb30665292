------------------------- MODULE ConnectionInvariant -------------------------
(***************************************************************************)
(* The inductive invariants behind HandlersOwned, Delivery and InOrder.    *)
(***************************************************************************)
EXTENDS Connection

Addressed == [to : Nodes, msg : Message]
Frames    == Seq([w : Nat, v : Int])
Tasks     == {"backlog", "running", "ended", "aborted"}

\* A stream has two ends; the one that has opened it needs not accept it.
StreamsOf(m, n) ==
  [from : {m}, to : {n}, first : {FirstMessage(m)}, crosses : BOOLEAN,
   task : [{m, n} -> Tasks], out : [{m, n} -> Seq(Message)], wire : [{m, n} -> Seq(Frames)]]

\* What is counted and what is remembered of the faults.
FaultsType ==
  [crashes : Nat, cuts : Nat, timeouts : Nat, broken : Nat, cancels : Nat,
   lost : SUBSET (Nat \X Nodes \X Frames), torn : SUBSET Nat]

StreamOK(x) ==
  /\ x.from \in Nodes /\ x.to \in Nodes /\ x.from # x.to
  /\ x \in StreamsOf(x.from, x.to)
  /\ x.task[x.from] # "backlog"

TypeOK ==
  /\ plan \in Scenarios
  /\ todo \in [Nodes -> Seq(Addressed)]
  /\ \A n \in Nodes : \A i \in DOMAIN todo[n] : todo[n][i].to # n
  /\ up \in [Nodes -> {"connected", "offline", "crashed"}]
  /\ active \in [Nodes -> Seq(Nat)]
  /\ streams \in Seq(ToSet(streams))
  /\ \A s \in DOMAIN streams : StreamOK(streams[s])
  /\ DOMAIN received = Nodes
  /\ \A n \in Nodes : received[n] \in Seq(ToSet(received[n]))
  /\ faults \in FaultsType
  /\ sent \in [Nodes -> Seq([msg : Addressed, stream : Nat])]

-----------------------------------------------------------------------------
\* The handlers of a node are of streams that it has opened or accepted.
HandlersOpen ==
  \A n \in Nodes : \A s \in ToSet(active[n]) :
    s \in DOMAIN streams /\ n \in Ends(s) /\ streams[s].task[n] # "backlog"

OwnInv == TypeOK /\ HandlersOpen /\ HandlersOwned

-----------------------------------------------------------------------------
\* A message is sent on a stream of its node.
SentOnStreams ==
  \A n \in Nodes : \A i \in DOMAIN sent[n] :
    sent[n][i].stream \in DOMAIN streams /\ n \in Ends(sent[n][i].stream)

\* Only a node that is connected has streams to accept.
BacklogListens == \A n \in Nodes : Backlog(n) # {} => up[n] = "connected"

\* What each node has sent on the stream s, and what each has heard
Carried(s) == [n \in Nodes |-> Carries(s, n)]
Heard      == [n \in Nodes |-> ToSet(received[n])]

\* Of an end n of a stream x, the stream s: c is what its nodes have sent on it, h what
\* they have heard, f the faults.
GotAt(h, s, m) == \E e \in h : e.type = "message" /\ e.stream = s /\ e.msg = m
ToldAt(h, s)   == \E e \in h : e.type = "lost" /\ e.stream = s

\* Nothing is sent on a stream before it is accepted.
BeforeAt(x, n, c) == x.task[n] = "backlog" => c[n] = {}

\* What lies on a stream that is torn may be no frame.
TornOf(s, f) == {g \in {Torn} : s \in f.torn}

\* What waits at a node and what lies on a stream has been sent on it.
OnlySentAt(x, s, n, c, f) ==
  /\ ToSet(x.out[n]) \subseteq c[n]
  /\ ToSet(x.wire[n]) \subseteq {Frame(u) : u \in c[OtherEnd(x, n)]} \cup TornOf(s, f)

\* While both ends are open what was sent is lost by a branch that is cancelled or by
\* a stream that is torn, and by nothing else.
UnderwayAt(x, s, n, h, m, f) ==
  \/ GotAt(h[OtherEnd(x, n)], s, m)
  \/ Frame(m) \in ToSet(x.wire[OtherEnd(x, n)])
  \/ m \in ToSet(x.out[n])
  \/ <<s, n, Frame(m)>> \in f.lost \/ s \in f.torn

NothingLostAt(x, s, n, c, h, f) ==
  x.task[n] = "running" /\ x.task[OtherEnd(x, n)] \notin {"ended", "aborted"}
    => \A m \in c[n] : UnderwayAt(x, s, n, h, m, f)

\* Why the task of n has ended: it has heard of the end of the stream or of a late
\* heartbeat; a heartbeat could not be written; it could not read what it got; the
\* stream is torn; or n has accepted a stream that was closed before, on which it has
\* sent nothing.
ReasonAt(x, s, n, c, h, f) ==
  \/ ToldAt(h[n], s) /\ (\/ x.task[OtherEnd(x, n)] = "aborted"
                         \/ f.timeouts > 0
                         \/ \E u \in c[n] : Unreadable(u))
  \/ f.broken > 0
  \/ \E u \in c[OtherEnd(x, n)] : Unreadable(u)
  \/ s \in f.torn
  \/ n = x.to /\ x.task[x.from] # "running" /\ c[n] = {}

EndAt(x, s, n, c, h, f) ==
  /\ BeforeAt(x, n, c) /\ OnlySentAt(x, s, n, c, f) /\ NothingLostAt(x, s, n, c, h, f)
  /\ x.task[n] = "ended" => ReasonAt(x, s, n, c, h, f)

Accounted(x, s, c, h, f) == \A n \in {x.from, x.to} : EndAt(x, s, n, c, h, f)

DeliveryInv ==
  /\ SentOnStreams /\ BacklogListens
  /\ \A s \in DOMAIN streams : Accounted(streams[s], s, Carried(s), Heard, faults)

-----------------------------------------------------------------------------
\* The messages of a script are told apart.
DistinctScripts ==
  \A s \in Scenarios : \A n \in Nodes : \A i, j \in DOMAIN s.script[n] :
    s.script[n][i].msg = s.script[n][j].msg => i = j

\* How many messages n has taken from its script; the others are left to do.
TakenBy(n) == Len(plan.script[n]) - Len(todo[n])

ScriptLeft ==
  \A n \in Nodes :
    /\ Len(todo[n]) <= Len(plan.script[n])
    /\ \A i \in DOMAIN todo[n] : todo[n][i] = plan.script[n][TakenBy(n) + i]

\* One of the first k messages of a script.
Done(script, k, u) == Places(script, u) # {} /\ \A i \in Places(script, u) : i <= k

SentDone ==
  \A n \in Nodes : \A i \in DOMAIN sent[n] : Done(plan.script[n], TakenBy(n), sent[n][i].msg.msg)

HeardInOrder ==
  \A m, n \in Nodes : \A j \in DOMAIN received[n] :
    From(received[n][j], m) =>
      /\ Done(plan.script[m], TakenBy(m), received[n][j].msg)
      /\ \/ Crossed(m, n)
         \/ \A i \in 1..(j - 1) :
              From(received[n][i], m) =>
                Before(plan.script[m], received[n][i].msg, received[n][j].msg)

\* The messages that are read from frames w, those of n among events, and messages of
\* which each comes before each of the others.
Readable(f)         == Unframe(f).kind = "ok"
Shown(f)            == Unframe(f).value
ShownIn(w)          == {Shown(f) : f \in {g \in ToSet(w) : Readable(g)}}
MessagesOf(evs, n)  == {e.msg : e \in {g \in evs : From(g, n)}}
Ahead(script, U, V) == \A u \in U, v \in V : Before(script, u, v)

\* Frames w and then messages q in the order of a script.
Line(script, w, q) ==
  /\ \A i, j \in DOMAIN w : i < j /\ Readable(w[i]) /\ Readable(w[j])
                            => Before(script, Shown(w[i]), Shown(w[j]))
  /\ \A i, j \in DOMAIN q : i < j => Before(script, q[i], q[j])
  /\ Ahead(script, ShownIn(w), ToSet(q))

\* Frames w on the stream and messages q that wait are in the order of their script, and
\* come after those that the other end has heard as long as its task may hear more.
Way(script, w, q, heard, task) ==
  /\ Line(script, w, q)
  /\ task \in {"backlog", "running"} => Ahead(script, heard, ShownIn(w) \cup ToSet(q))

LineAt(x, n, h, scripts) ==
  LET p == OtherEnd(x, n)
  IN  Way(scripts[n], x.wire[p], x.out[n], MessagesOf(h[p], n), x.task[p])

Lined(x, h, scripts) == \A n \in {x.from, x.to} : LineAt(x, n, h, scripts)

\* Of two streams of the same nodes, x and then y, on which c and d were sent: a node that
\* runs the second or has sent on it is done with the first.
FollowsAt(x, y, n, c, d, scripts) ==
  /\ y.task[n] = "running" \/ d[n] # {} => x.task[n] \in {"ended", "aborted"}
  /\ Ahead(scripts[n], c[n], d[n])

Follows(x, y, c, d, scripts) == \A n \in {x.from, x.to} : FollowsAt(x, y, n, c, d, scripts)

Parallel(s, t) == s < t /\ Ends(s) = Ends(t)
Uncrossed(s)   == ~Crossed(streams[s].from, streams[s].to)

AllLined == \A s \in DOMAIN streams : Uncrossed(s) => Lined(streams[s], Heard, plan.script)

AllFollow ==
  \A s, t \in DOMAIN streams :
    Uncrossed(s) /\ Parallel(s, t)
      => Follows(streams[s], streams[t], Carried(s), Carried(t), plan.script)

OrderInv == ScriptLeft /\ SentDone /\ HeardInOrder /\ AllLined /\ AllFollow
=============================================================================
