----------------------------- MODULE Connection -----------------------------
(***************************************************************************)
(* The connections of the nodes: Connection with its map of handlers, the  *)
(* Acceptor, and the task of a Handler at each end of a stream.  What a    *)
(* node sends is a script; a message travels as the frame that Wire makes  *)
(* of it.  A stream is a TCP connection (external): what is written at one *)
(* end arrives in order at the other, or an end of it is lost when the     *)
(* stream is closed.  The select! of Handler::run may cancel the sending   *)
(* or the receiving of a message before it is complete.                    *)
(***************************************************************************)
EXTENDS Wire, FiniteSets

CONSTANTS Nodes,     \* the nodes
          Scenarios  \* what they send and what happens to them

\* A node is known by its address.
ASSUME NodesAssumption == Nodes \subseteq Nat

\* A node has at most max_conns handlers and sends the messages of its script; so
\* many crashes and cuts happen, heartbeats come too late or cannot be written, and
\* branches of a select! are cancelled.
ASSUME ScenariosAssumption ==
  \A s \in Scenarios :
    /\ s.max_conns \in Nat \ {0}
    /\ s.script \in [Nodes -> Seq([to : Nodes, msg : Message])]
    /\ \A n \in Nodes : \A i \in DOMAIN s.script[n] : s.script[n][i].to # n
    /\ s.crashes \in Nat /\ s.cuts \in Nat /\ s.timeouts \in Nat /\ s.broken \in Nat
    /\ s.cancels \in Nat

VARIABLES
  plan,      \* the scenario
  todo,      \* todo[n]: the messages that n has yet to send
  up,        \* up[n]: "connected", "offline" or "crashed"
  active,    \* active[n]: the handlers of n, the least recently used one first
  streams,   \* the streams, in the order in which they were opened
  received,  \* received[n]: what n has received, messages and lost connections
  faults,    \* how often each of the plan's faults has happened; the frames that a branch
             \* has lost when it was cancelled, and the streams torn by one (history)
  sent       \* sent[n]: the messages for which send returned Ok (history)

vars == <<plan, todo, up, active, streams, received, faults, sent>>

-----------------------------------------------------------------------------
Init ==
  /\ plan \in Scenarios
  /\ todo = plan.script
  /\ up = [n \in Nodes |-> "connected"]
  /\ active = [n \in Nodes |-> <<>>]
  /\ streams = <<>>
  /\ received = [n \in Nodes |-> <<>>]
  /\ faults = [crashes |-> 0, cuts |-> 0, timeouts |-> 0, broken |-> 0,
               cancels |-> 0, lost |-> {}, torn |-> {}]
  /\ sent = [n \in Nodes |-> <<>>]

OtherEnd(stream, n) == IF stream.from = n THEN stream.to ELSE stream.from
Peer(s, n) == OtherEnd(streams[s], n)
Ends(s)    == {streams[s].from, streams[s].to}

Backlog(n) == {s \in DOMAIN streams : streams[s].to = n /\ streams[s].task[n] = "backlog"}

\* Handler::start: the other end has yet to be accepted.  The stream crosses one
\* that p has opened and that n has yet to accept (history).
Opened(n, p) ==
  [from |-> n, to |-> p, first |-> FirstMessage(n),
   crosses |-> \E s \in Backlog(n) : streams[s].from = p,
   task |-> [m \in {n, p} |-> IF m = n THEN "running" ELSE "backlog"],
   out  |-> [m \in {n, p} |-> <<>>],
   wire |-> [m \in {n, p} |-> <<>>]]

\* The end of n is closed, and what its task has yet to write or to read is lost;
\* the first of the frames that it has written reach the other end, as many as kept.
\* The task has ended by itself or was aborted.
Closed(stream, n, how, kept) ==
  [stream EXCEPT !.task[n] = how, !.out[n] = <<>>, !.wire[n] = <<>>,
                 !.wire[OtherEnd(stream, n)] = SubSeq(@, 1, kept)]

\* The ways in which n closes its ends of these streams; a new one may be added.
Closing(n, ids, how, all) ==
  LET Written(s) == 0..Len(all[s].wire[OtherEnd(all[s], n)])
      Kept       == {k \in [ids -> UNION {Written(s) : s \in ids}] : \A s \in ids : k[s] \in Written(s)}
  IN  {[s \in DOMAIN all |-> IF s \in ids THEN Closed(all[s], n, how, k[s]) ELSE all[s]] : k \in Kept}

\* HashMap::remove
Without(handlers, gone) ==
  LET kept[i \in 0..Len(handlers)] ==
        IF i = 0 THEN <<>>
        ELSE IF handlers[i] \in gone THEN kept[i - 1] ELSE Append(kept[i - 1], handlers[i])
  IN  kept[Len(handlers)]

\* Faulty variants: nothing is evicted; the handler that is replaced is not dropped.
EvictNone(n) == <<>>
ReplaceNone(n, p, handlers) == {}

\* remove_last_recently_used, when the map is full
Evicted(n) == IF Len(active[n]) >= plan.max_conns THEN <<Head(active[n])>> ELSE <<>>

\* HashMap::insert drops the handler that the new one replaces.
Replaced(n, p, handlers) == {s \in ToSet(handlers) : Peer(s, n) = p}

\* add_handler_from: the task of a handler that is dropped is aborted.
AddHandler(n, id, p, all) ==
  LET left    == Rest(active[n], Len(Evicted(n)))
      dropped == ToSet(Evicted(n)) \cup Replaced(n, p, left)
  IN  /\ active' = [active EXCEPT ![n] =
           Append(Without(left, dropped), id)]
      /\ streams' \in Closing(n, {s \in dropped : streams[s].task[n] = "running"}, "aborted", all)

Event(n, e)  == received' = [received EXCEPT ![n] = Append(@, e)]
LostWith(s, p) == [type |-> "lost", stream |-> s, from |-> p]

-----------------------------------------------------------------------------
(* Connection::send *)

Handler(n, p) == {s \in ToSet(active[n]) : Peer(s, n) = p}

Taken(n, id) == /\ todo' = [todo EXCEPT ![n] = Tail(@)]
                /\ sent' = [sent EXCEPT ![n] = Append(@, [msg |-> Head(todo[n]), stream |-> id])]

\* Through a handler whose task runs, which is now the most recently used one.
SendOn(n, p, s) ==
  /\ streams[s].task[n] = "running"
  /\ streams' = [streams EXCEPT ![s].out[n] = Append(@, Head(todo[n]).msg)]
  /\ active' = [active EXCEPT ![n] = Append(Without(@, {s}), s)]
  /\ Taken(n, s)

\* The task has ended: ConnectionLostWith, and the handler is removed.
SendFails(n, p, s) ==
  /\ streams[s].task[n] # "running"
  /\ active' = [active EXCEPT ![n] = Without(@, {s})]
  /\ todo' = [todo EXCEPT ![n] = Tail(@)]
  /\ UNCHANGED <<streams, sent>>

\* There is no handler: Handler::start connects, if the other node listens.
SendFirst(n, p) ==
  /\ Handler(n, p) = {}
  /\ \/ /\ up[p] = "connected"
        /\ LET id == Len(streams) + 1
               s  == [Opened(n, p) EXCEPT !.out[n] = <<Head(todo[n]).msg>>]
           IN  AddHandler(n, id, p, Append(streams, s)) /\ Taken(n, id)
     \/ /\ up[p] # "connected"
        /\ todo' = [todo EXCEPT ![n] = Tail(@)]
        /\ UNCHANGED <<streams, active, sent>>

Send(n) ==
  /\ up[n] = "connected"
  /\ todo[n] # <<>>
  /\ LET p == Head(todo[n]).to
     IN  SendFirst(n, p) \/ \E s \in Handler(n, p) : SendOn(n, p, s) \/ SendFails(n, p, s)
  /\ UNCHANGED <<plan, up, received, faults>>

\* OFFLINE: ConnectionLost
SendOffline(n) ==
  /\ up[n] = "offline"
  /\ todo[n] # <<>>
  /\ todo' = [todo EXCEPT ![n] = Tail(@)]
  /\ UNCHANGED <<plan, up, active, streams, received, faults, sent>>

\* Acceptor::run: the oldest stream; Handler::start_from reads the address of the
\* other node, unless that has closed the stream and it is lost.
Accept(n) ==
  /\ up[n] = "connected"
  /\ Backlog(n) # {}
  /\ LET id == Min(Backlog(n))
     IN  \/ AddHandler(n, id, FirstAddress(streams[id].first),
                       [streams EXCEPT ![id].task[n] = "running"])
         \/ /\ streams[id].task[streams[id].from] # "running"
            /\ streams' \in Closing(n, {id}, "ended", streams)
            /\ UNCHANGED active
  /\ UNCHANGED <<plan, todo, up, received, faults, sent>>

-----------------------------------------------------------------------------
(* Handler::run *)

Runs(s, n) == s \in DOMAIN streams /\ n \in Ends(s) /\ streams[s].task[n] = "running"
Gone(s, n) == streams[s].task[Peer(s, n)] \in {"ended", "aborted"}

\* A task that ends closes its end of the stream.
TaskEnds(s, n) == streams' \in Closing(n, {s}, "ended", streams)

\* sender.send: when the other end is closed the frame is lost, or the write fails.
Write(s, n) ==
  /\ Runs(s, n)
  /\ streams[s].out[n] # <<>>
  /\ \/ /\ ~Gone(s, n)
        /\ streams' = [streams EXCEPT ![s].out[n] = Tail(@),
                         ![s].wire[Peer(s, n)] = Append(@, Frame(Head(streams[s].out[n])))]
        /\ UNCHANGED received
     \/ /\ Gone(s, n)
        /\ streams' = [streams EXCEPT ![s].out[n] = Tail(@)]
        /\ UNCHANGED received
     \/ /\ Gone(s, n)
        /\ TaskEnds(s, n)
        /\ Event(n, LostWith(s, Peer(s, n)))
  /\ UNCHANGED <<plan, todo, up, active, faults, sent>>

\* receiver.recv: a payload that is no message ends the task without a word, by
\* the error that run returns or by a panic.
Receive(s, n) ==
  /\ Runs(s, n)
  /\ streams[s].wire[n] # <<>>
  /\ LET got == Unframe(Head(streams[s].wire[n]))
     IN  \/ /\ got.kind = "ok"
            /\ streams' = [streams EXCEPT ![s].wire[n] = Tail(@)]
            /\ Event(n, [type |-> "message", stream |-> s, from |-> Peer(s, n), msg |-> got.value])
         \/ /\ got.kind # "ok"
            /\ TaskEnds(s, n)
            /\ UNCHANGED received
  /\ UNCHANGED <<plan, todo, up, active, faults, sent>>

\* A frame of which the bytes that come next are no longer its beginning, or a part of
\* a frame: where frames begin is lost.
Torn == Byte(1)

\* A branch of the select! of n is dropped because another one is ready.
Cancelled(lost, torn) ==
  /\ faults.cancels < plan.cancels
  /\ faults' = [faults EXCEPT !.cancels = @ + 1, !.lost = @ \cup lost, !.torn = @ \cup torn]

\* sender.send is dropped in write_all, when the message has left its channel: nothing
\* of its frame is written, or a part of it.
WriteCancelled(s, n) ==
  /\ Runs(s, n)
  /\ streams[s].out[n] # <<>>
  /\ LET frame == <<s, n, Frame(Head(streams[s].out[n]))>>
     IN  \/ /\ Cancelled({frame}, {})
            /\ streams' = [streams EXCEPT ![s].out[n] = Tail(@)]
         \/ /\ ~Gone(s, n)
            /\ Cancelled({frame}, {s})
            /\ streams' = [streams EXCEPT ![s].out[n] = Tail(@),
                             ![s].wire[Peer(s, n)] = Append(@, Torn)]
  /\ UNCHANGED <<plan, todo, up, active, received, sent>>

\* receiver.recv is dropped between its two read_exact, or while the message that it
\* has read waits for room in messages_tx.
ReceiveCancelled(s, n) ==
  /\ Runs(s, n)
  /\ streams[s].wire[n] # <<>>
  /\ LET frames == streams[s].wire[n]
     IN  \/ /\ Cancelled({}, {s})
            /\ streams' = [streams EXCEPT ![s].wire[n] = <<Torn>> \o Tail(frames)]
         \/ /\ Unframe(Head(frames)).kind = "ok"
            /\ Cancelled({<<s, Peer(s, n), Head(frames)>>}, {})
            /\ streams' = [streams EXCEPT ![s].wire[n] = Tail(frames)]
  /\ UNCHANGED <<plan, todo, up, active, received, sent>>

\* receiver.recv where frames no longer begin: it takes some of what has come for a
\* heartbeat or for a message that nobody has sent, and is out of step or in step again.
\* Bytes that are no message end the task (Receive), too few of them wait for more.
Garble(s, n) ==
  /\ Runs(s, n)
  /\ streams[s].wire[n] # <<>>
  /\ Head(streams[s].wire[n]) = Torn
  /\ \E k \in DOMAIN streams[s].wire[n] :
       LET left == Rest(streams[s].wire[n], k)
       IN  \/ streams' = [streams EXCEPT ![s].wire[n] = left]
           \/ k > 1 /\ streams' = [streams EXCEPT ![s].wire[n] = <<Torn>> \o left]
  /\ \/ UNCHANGED received
     \/ Event(n, [type |-> "garbled", stream |-> s, from |-> Peer(s, n)])
  /\ UNCHANGED <<plan, todo, up, active, faults, sent>>

\* Faulty variant: the end of the stream ends the task without a word.
HangUpSilently(s, n) ==
  /\ TaskEnds(s, n)
  /\ UNCHANGED received

\* write_connection_lost, and the task ends.
HangUp(s, n) ==
  /\ TaskEnds(s, n)
  /\ Event(n, LostWith(s, Peer(s, n)))

\* receiver.recv at the end of the stream, or in the middle of what is left of it
Eof(s, n) ==
  /\ Runs(s, n)
  /\ streams[s].wire[n] \in {<<>>, <<Torn>>}
  /\ Gone(s, n)
  /\ HangUp(s, n)
  /\ UNCHANGED <<plan, todo, up, active, faults, sent>>

\* No reply to a heartbeat for 10 s; while messages keep coming no heartbeat is sent.
HeartbeatTimeout(s, n) ==
  /\ Runs(s, n)
  /\ faults.timeouts < plan.timeouts
  /\ faults' = [faults EXCEPT !.timeouts = @ + 1]
  /\ HangUp(s, n)
  /\ UNCHANGED <<plan, todo, up, active, sent>>

\* send_heartbeat_request fails: the operator ? ends the task without a word.
HeartbeatFails(s, n) ==
  /\ Runs(s, n)
  /\ Gone(s, n)
  /\ faults.broken < plan.broken
  /\ faults' = [faults EXCEPT !.broken = @ + 1]
  /\ TaskEnds(s, n)
  /\ UNCHANGED <<plan, todo, up, active, received, sent>>

-----------------------------------------------------------------------------
(* What is done to a node *)

Mine(n) == {s \in DOMAIN streams : Runs(s, n)} \cup Backlog(n)

\* Connection::disconnect: the tasks are stopped, the map stays.
Disconnect(n) ==
  /\ up[n] = "connected"
  /\ faults.cuts < plan.cuts
  /\ faults' = [faults EXCEPT !.cuts = @ + 1]
  /\ up' = [up EXCEPT ![n] = "offline"]
  /\ streams' \in Closing(n, Mine(n), "aborted", streams)
  /\ UNCHANGED <<plan, todo, active, received, sent>>

\* Connection::reconnect
Reconnect(n) ==
  /\ up[n] = "offline"
  /\ up' = [up EXCEPT ![n] = "connected"]
  /\ UNCHANGED <<plan, todo, active, streams, received, faults, sent>>

Crash(n) ==
  /\ up[n] # "crashed"
  /\ faults.crashes < plan.crashes
  /\ faults' = [faults EXCEPT !.crashes = @ + 1]
  /\ up' = [up EXCEPT ![n] = "crashed"]
  /\ streams' \in Closing(n, Mine(n), "aborted", streams)
  /\ active' = [active EXCEPT ![n] = <<>>]
  /\ UNCHANGED <<plan, todo, received, sent>>

Next ==
  \/ \E n \in Nodes : Send(n) \/ SendOffline(n) \/ Accept(n)
                      \/ Disconnect(n) \/ Reconnect(n) \/ Crash(n)
  \/ \E n \in Nodes, s \in DOMAIN streams :
       Write(s, n) \/ Receive(s, n) \/ Eof(s, n)
       \/ WriteCancelled(s, n) \/ ReceiveCancelled(s, n) \/ Garble(s, n)
       \/ HeartbeatTimeout(s, n) \/ HeartbeatFails(s, n)

Spec == Init /\ [][Next]_vars
-----------------------------------------------------------------------------
(* Properties *)

\* A node has at most max_conns handlers, one for a peer, and no task runs without
\* its handler: one that is evicted, replaced or removed is aborted
\* (add_handler_from, Handler::drop, Connection::send).
HandlersOwned ==
  \A n \in Nodes :
    /\ Len(active[n]) <= plan.max_conns
    /\ \A i, j \in DOMAIN active[n] : Peer(active[n][i], n) = Peer(active[n][j], n) => i = j
    /\ \A s \in DOMAIN streams : Runs(s, n) => s \in ToSet(active[n])

\* The places of a message in a script, and what comes there before what.
Places(script, m)    == {k \in DOMAIN script : script[k].msg = m}
Before(script, u, v) == \A k \in Places(script, u), l \in Places(script, v) : k < l

\* Both nodes have connected to each other at a time: each accepts the stream of the
\* other and drops its own, and what is left of the first is read after the second.
Crossed(m, n) == \E s \in DOMAIN streams : streams[s].crosses /\ Ends(s) = {m, n}

From(e, m) == e.type = "message" /\ e.from = m

\* The messages of a node reach another one in the order of its sends, each once and
\* as it was sent, through however many streams (README, "ordered delivery"), unless
\* the two have connected to each other at a time; what is read from a stream that is
\* torn is not one of them.
InOrder ==
  \A m, n \in Nodes : \A j \in DOMAIN received[n] :
    From(received[n][j], m) =>
      /\ Places(plan.script[m], received[n][j].msg) # {}
      /\ \/ Crossed(m, n)
         \/ \A i \in 1..(j - 1) :
              From(received[n][i], m) =>
                Before(plan.script[m], received[n][i].msg, received[n][j].msg)

\* Nothing is left to do but to wait.
Quiet ==
  /\ \A n \in Nodes : up[n] # "crashed" => todo[n] = <<>> /\ (up[n] = "connected" => Backlog(n) = {})
  /\ \A s \in DOMAIN streams, n \in Nodes :
       Runs(s, n) => /\ streams[s].out[n] = <<>> /\ streams[s].wire[n] \in {<<>>, <<Torn>>}
                     /\ ~Gone(s, n)

Carries(s, n) == {sent[n][i].msg.msg : i \in {j \in DOMAIN sent[n] : sent[n][j].stream = s}}
Got(s, n, m)  == \E i \in DOMAIN received[n] :
                   received[n][i].type = "message" /\ received[n][i].stream = s /\ received[n][i].msg = m
Told(s, n)    == \E i \in DOMAIN received[n] :
                   received[n][i].type = "lost" /\ received[n][i].stream = s

\* A message for which send returned Ok arrives, or its node has dropped the handler
\* itself, or it has been told that the connection is lost, and that for a reason:
\* the other node has dropped its handler, a heartbeat came too late, or the other
\* node could not read what it got.  A task that ends by a heartbeat that cannot be
\* written or by a message that it cannot read tells its own node nothing.  A branch of
\* select! that is cancelled loses the message that it was about, or leaves the stream
\* torn, and nobody is told.
Delivery ==
  Quiet =>
    \A n \in Nodes : \A s \in DOMAIN streams : \A m \in Carries(s, n) :
      LET p == Peer(s, n)
      IN  \/ Got(s, p, m)
          \/ streams[s].task[n] = "aborted"
          \/ Told(s, n) /\ (\/ streams[s].task[p] = "aborted"
                             \/ faults.timeouts > 0
                             \/ \E u \in Carries(s, n) : Unreadable(u))
          \/ faults.broken > 0
          \/ \E u \in Carries(s, p) : Unreadable(u)
          \/ <<s, n, Frame(m)>> \in faults.lost \/ s \in faults.torn

(* What the repository says of itself, and the code does not do *)

\* A message for which send returned Ok arrives, or its node has dropped the handler
\* itself or is told that the connection is lost (README: "a reliable,
\* connection-oriented channel with ordered delivery of bytes").
LossIsNoticed ==
  Quiet =>
    \A n \in Nodes : \A s \in DOMAIN streams : \A m \in Carries(s, n) :
      Got(s, Peer(s, n), m) \/ streams[s].task[n] = "aborted" \/ Told(s, n)
=============================================================================
